------------------------------ MODULE PullUrls ------------------------------
(***************************************************************************)
(* From a link to the local path, and back to the server: the links the    *)
(* pages make (src/assets/static/app.js), the command line and the URL of  *)
(* `lanfile get` (src/pull/src/args.rs), the request it sends              *)
(* (encode_path, src/pull/src/fetch.rs), the name it writes                *)
(* (src/pull/src/lib.rs) and the path the server reads out of the request  *)
(* (src/app/src/fast.rs).                                                  *)
(*                                                                         *)
(* Four pieces of code encode, cut and decode the same path.  A text is a  *)
(* sequence of characters; the word of a route is one character.           *)
(***************************************************************************)
EXTENDS Integers, Sequences, FiniteSets, SequencesExt

CONSTANTS
  Names,   \* the names of the entries
  Escape,  \* the two digits of each character that is written with a percent sign
  Digits,  \* the hexadecimal digits
  Depth,   \* bound on the names of a path
  None

NamesAssumption ==
  /\ Depth \in Nat
  /\ \A n \in Names : n \in Seq(STRING) /\ n # <<>> /\ "/" \notin Range(n)
  /\ {"%", "#", "?"} \subseteq DOMAIN Escape
  /\ \A c \in DOMAIN Escape : Escape[c] \in Digits \X Digits
  /\ \A c, d \in DOMAIN Escape : Escape[c] = Escape[d] => c = d
  /\ DOMAIN Escape \cap (Digits \cup {"/"}) = {} /\ "/" \notin Digits

VARIABLES
  path,    \* what the user means: the names from the root
  what,    \* "file" or "dir"
  into,    \* the arguments that say where to: a directory or none, and the flag or none
  args,    \* the arguments of `lanfile get`
  parsed,  \* Parsed, or an error
  request, \* the path of the request
  target   \* where the pull writes

vars == <<path, what, into, args, parsed, request, target>>

-----------------------------------------------------------------------------
(* Texts. *)

From(s, i) == SubSeq(s, i, Len(s))
\* The part of s before its first character of cs, and the one after it, if there is one.
CutAt(s, cs) == SelectInSeq(s, LAMBDA c : c \in cs)
Before(s, cs) == IF CutAt(s, cs) = 0 THEN s ELSE SubSeq(s, 1, CutAt(s, cs) - 1)
After(s, cs) == IF CutAt(s, cs) = 0 THEN <<>> ELSE From(s, CutAt(s, cs) + 1)

TrimStart(s) ==
  LET at == SelectInSeq(s, LAMBDA c : c # "/") IN IF at = 0 THEN <<>> ELSE From(s, at)
TrimEnd(s) ==
  LET at == SelectLastInSeq(s, LAMBDA c : c # "/") IN SubSeq(s, 1, at)

Joined(p) == FlattenSeq([i \in DOMAIN p |-> IF i = 1 THEN p[i] ELSE <<"/">> \o p[i]])

\* encode_path; encodeURIComponent on a name, in which there is no slash.
EncodePath(s) ==
  FlattenSeq([i \in DOMAIN s |->
    IF s[i] \in DOMAIN Escape THEN <<"%">> \o Escape[s[i]] ELSE <<s[i]>>])

Byte(h) == IF \E c \in DOMAIN Escape : Escape[c] = h
           THEN CHOOSE c \in DOMAIN Escape : Escape[c] = h ELSE "other"

\* Mutant: an escape at the very end is not seen.
IsEscapeShort(s, i) == s[i] = "%" /\ i + 2 < Len(s) /\ {s[i + 1], s[i + 2]} \subseteq Digits

IsEscape(s, i) == s[i] = "%" /\ i + 2 <= Len(s) /\ {s[i + 1], s[i + 2]} \subseteq Digits

PercentDecode(s) ==
  LET decoded[i \in 1..(Len(s) + 3)] ==
        IF i > Len(s) THEN <<>>
        ELSE IF IsEscape(s, i) THEN <<Byte(<<s[i + 1], s[i + 2]>>)>> \o decoded[i + 3]
        ELSE <<s[i]>> \o decoded[i + 1]
  IN decoded[1]

\* decode_url_path of the server's library.
DecodeUrlPath(s) == PercentDecode(s)

-----------------------------------------------------------------------------
(* The pages: joinPath, and the links of render. *)

JoinPath(p) == Joined([i \in DOMAIN p |-> EncodePath(p[i])])

FilesRoute == <<"/", "files", "/">>
PullRoute == <<"/", "pull", "/">>
ZipRoute == <<"/", "api", "/", "zip", "/">>
ListRoute == <<"/", "api", "/", "list", "/">>

\* The links for an entry: those of the pages, the page itself, and the endpoint of the pull.
Links(p, w) ==
  IF w = "file" THEN {FilesRoute \o JoinPath(p), PullRoute \o JoinPath(p)}
  ELSE {ZipRoute \o JoinPath(p), ListRoute \o JoinPath(p), <<"/", "#">> \o JoinPath(p), <<"#">> \o JoinPath(p)}

\* A path under no route is the remote itself.
OfRoute(p) ==
  \/ Len(p) > 1 /\ p[1] \in {<<"files">>, <<"pull">>}
  \/ Len(p) > 2 /\ p[1] = <<"api">> /\ p[2] \in {<<"zip">>, <<"list">>}

-----------------------------------------------------------------------------
(* args.rs *)

Direct(remote, kind) == [remote |-> PercentDecode(remote), kind |-> kind]
After2(s, p, q) == IF IsPrefix(p, s) THEN From(s, Len(p) + 1)
                   ELSE IF IsPrefix(q, s) THEN From(s, Len(q) + 1) ELSE <<>>

\* An empty remote, read out of the path "", "/" or "//", is the None of direct_of.
DirectOf(p, fragment) ==
  LET file == After2(p, Tail(FilesRoute), Tail(PullRoute))
      tree == After2(p, Tail(ZipRoute), Tail(ListRoute))
      hash == Before(TrimStart(fragment), {"?"})
  IN IF file # <<>> THEN Direct(file, "File")
     ELSE IF tree # <<>> THEN Direct(tree, "Dir")
     ELSE IF p = <<>> /\ hash # <<>> THEN Direct(hash, "Dir")
     ELSE Direct(TrimEnd(TrimStart(p)), "Auto")

\* parse_source: what is left of the URL behind the scheme, from the host on.
ParseSource(url) ==
  LET tail == From(url, Len(Before(url, {"/", "?", "#"})) + 1)
      after == IF IsPrefix(<<"/">>, tail) THEN Tail(tail) ELSE tail
  IN DirectOf(Before(Before(after, {"#"}), {"?"}), After(after, {"#"}))

Flat == {<<"--flat">>, <<"-f">>}

\* parse_trailing and parse_args
ParseArgs(as) ==
  LET direct == ParseSource(Head(as))
      flat == Len(as) > 1 /\ Last(as) \in Flat
      pos == IF flat THEN Front(Tail(as)) ELSE Tail(as)
      bare == direct.remote = <<>>
      given == IF bare THEN pos ELSE <<direct.remote>> \o pos
      remote == IF given = <<>> THEN <<>>
                ELSE IF bare THEN TrimEnd(TrimStart(given[1])) ELSE given[1]
  IN IF Len(given) > 2 THEN None
     ELSE [remote |-> remote,
           kind |-> direct.kind,
           local |-> IF Len(given) = 2 THEN given[2]
                     ELSE IF remote = <<>> THEN <<"lanfile-root">> ELSE <<".">>,
           flat |-> flat]

-----------------------------------------------------------------------------
(* fetch.rs and lib.rs *)

\* Mutant: the whole remote path.
BasenameWhole(remote) == TrimEnd(remote)

Basename(remote) ==
  LET end == TrimEnd(remote)
      at == SelectLastInSeq(end, LAMBDA c : c = "/")
  IN From(end, at + 1)

\* pull_file_run and local_target
Target(p, w) ==
  LET name == Basename(p.remote)
  IN IF w = "file"
     THEN p.local \o <<"/">> \o (IF name = <<>> THEN <<"download">> ELSE name)
     ELSE IF ~p.flat /\ name # <<>> THEN p.local \o <<"/">> \o name ELSE p.local

\* fetch_file and list_entries; of an Auto target the listing is asked for first, and answered
\* only when it is a directory.
Request(p, w) ==
  IF p.kind = "File" \/ (p.kind = "Auto" /\ w = "file") THEN PullRoute \o EncodePath(p.remote)
  ELSE IF p.remote = <<>> THEN Front(ListRoute)
  ELSE ListRoute \o EncodePath(p.remote)

-----------------------------------------------------------------------------
(* fast.rs and the router *)

SubPath(r, prefix) ==
  LET rest == TrimStart(From(r, Len(prefix) + 1))
  IN IF rest # <<>> /\ Last(rest) = "/" THEN <<>> ELSE DecodeUrlPath(rest)

\* The handler of a request and the path it is given.
Dispatched(r) ==
  IF IsPrefix(FilesRoute, r) THEN <<FilesRoute, SubPath(r, FilesRoute)>>
  ELSE IF IsPrefix(PullRoute, r) THEN <<PullRoute, SubPath(r, PullRoute)>>
  ELSE IF r = Front(ListRoute) THEN <<ListRoute, <<>>>>
  ELSE IF IsPrefix(ListRoute, r) THEN <<ListRoute, DecodeUrlPath(From(r, Len(ListRoute) + 1))>>
  ELSE None

-----------------------------------------------------------------------------
Host == <<"h">>
Local == <<"dst">>
Paths == UNION {[1..k -> Names] : k \in 0..Depth}

\* The ways to ask for a path: a link, the bare path of a URL, or the host and an argument,
\* unless that reads as the flag.
Ways(p, w) ==
  {<<Host \o l>> : l \in IF p = <<>> THEN {<<>>, <<"/">>, <<"/", "#">>} ELSE Links(p, w)}
    \cup {<<Host \o l \o <<"?", "#">>>> : l \in IF w = "file" THEN {FilesRoute \o JoinPath(p)} ELSE {}}
    \cup (IF p = <<>> \/ OfRoute(p) THEN {} ELSE {<<Host \o <<"/">> \o JoinPath(p)>>})
    \cup (IF p = <<>> \/ Joined(p) \in Flat THEN {} ELSE {<<Host, Joined(p)>>, <<Host, <<"/">> \o Joined(p) \o <<"/">>>>})

Init ==
  /\ what \in {"file", "dir"}
  /\ path \in Paths /\ (what = "file" => path # <<>>)
  /\ into \in [local : IF path = <<>> THEN {<<>>} ELSE {<<>>, <<Local>>}, flat : {<<>>, <<<<"-f">>>>}]
  /\ \E w \in Ways(path, what) : args = w \o into.local \o into.flat
  /\ parsed = None /\ request = None /\ target = None

Parse ==
  /\ parsed = None
  /\ parsed' = ParseArgs(args)
  /\ UNCHANGED <<path, what, into, args, request, target>>

Ask ==
  /\ parsed # None /\ request = None
  /\ request' = Request(parsed, what) /\ target' = Target(parsed, what)
  /\ UNCHANGED <<path, what, into, args, parsed>>

Next == Parse \/ Ask
Spec == Init /\ [][Next]_vars

-----------------------------------------------------------------------------
(* Properties. *)

\* Whatever characters are in its names, and by whichever way it is asked for, the handler of
\* the server is given the path the user meant, in the endpoint that serves it.
ArrivesAtThePath ==
  request # None =>
    Dispatched(request) = <<IF what = "file" THEN PullRoute ELSE ListRoute, Joined(path)>>

\* It lands under its own last name, as it is and not as it is written in a URL, in the directory
\* asked for; a tree with --flat, and the root, in that directory itself.
LandsUnderItsName ==
  target # None =>
    LET dir == IF path = <<>> THEN <<"lanfile-root">>
               ELSE IF into.local = <<>> THEN <<".">> ELSE Local
        inside == path # <<>> /\ ~(what = "dir" /\ into.flat # <<>>)
    IN target = IF inside THEN dir \o <<"/">> \o Last(path) ELSE dir
=============================================================================
