------------------------------- MODULE Parts -------------------------------
(***************************************************************************)
(* The parts of the program that share no variable with any other, one     *)
(* beside the other: a behaviour is a behaviour of the part that `part`    *)
(* names, and the variables of the others are None.                        *)
(***************************************************************************)
EXTENDS Integers

CONSTANTS
  None,
  Names, Escape, Digits, Depth,                            \* PullUrls
  Files, Objects, WithTypes, MaxChanges,                   \* Listing
  Workers, Interfaces, MaxInterfaces, Ttl, Stall, MaxTime, MaxSwitches,  \* LanAddress
  Threads, Requests, Fixed, Stack, Keep, MaxLines, LastSecond,           \* AccessLine
  Bodies, Description, Start, Total, BufferSize, FileSize, \* ChunkedFile
  Dirs, Home, MaxMoves                                     \* Browser

VARIABLES
  part,
  path, what, into, args, parsed, request, target,              \* PullUrls
  dir, was, step, unread, dirent, entries, changes,             \* Listing
  now, switches, interfaces, found, cache, req,                 \* LanAddress
  log, second, coarse, stamp, buffer, task, answered, lines,    \* AccessLine
  size, position, state, thread, offset, readSize, body,        \* ChunkedFile
  hash, events, loads, rows, crumb, loading, error, crossed, moves, started  \* Browser

urlsVars     == <<path, what, into, args, parsed, request, target>>
listingVars  == <<dir, was, step, unread, dirent, entries, changes>>
lanVars      == <<now, switches, interfaces, found, cache, req>>
accessVars   == <<log, second, coarse, stamp, buffer, task, answered, lines>>
chunkedVars  == <<size, position, state, thread, offset, readSize, body>>
browserVars  == <<hash, events, loads, rows, crumb, loading, error, crossed, moves, started>>
vars == <<part, urlsVars, listingVars, lanVars, accessVars, chunkedVars, browserVars>>

-----------------------------------------------------------------------------
(* The instances. *)

Urls == INSTANCE PullUrls
List == INSTANCE Listing WITH Names <- Files
Lan == INSTANCE LanAddress WITH changes <- switches, MaxChanges <- MaxSwitches
Access == INSTANCE AccessLine WITH MaxTime <- LastSecond
Chunked == INSTANCE ChunkedFile
Pages == INSTANCE Browser WITH Paths <- Dirs

ASSUME PartsAssumption ==
  /\ Urls!NamesAssumption /\ List!ListingAssumption /\ Lan!LanAssumption
  /\ Access!AccessLineAssumption /\ Chunked!BodiesAssumption /\ Pages!PathsAssumption

-----------------------------------------------------------------------------
(* A part that takes no part. *)

NoUrls ==
  /\ path = None /\ what = None /\ into = None /\ args = None /\ parsed = None /\ request = None
  /\ target = None
NoListing ==
  /\ dir = None /\ was = None /\ step = None /\ unread = None /\ dirent = None
  /\ entries = None /\ changes = None
NoLan ==
  /\ now = None /\ switches = None /\ interfaces = None /\ found = None /\ cache = None
  /\ req = None
NoAccess ==
  /\ log = None /\ second = None /\ coarse = None /\ stamp = None /\ buffer = None
  /\ task = None /\ answered = None /\ lines = None
NoChunked ==
  /\ size = None /\ position = None /\ state = None /\ thread = None /\ offset = None
  /\ readSize = None /\ body = None
NoBrowser ==
  /\ hash = None /\ events = None /\ loads = None /\ rows = None /\ crumb = None
  /\ loading = None /\ error = None /\ crossed = None /\ moves = None /\ started = None

UrlsInit == part = "urls" /\ Urls!Init /\ NoListing /\ NoLan /\ NoAccess /\ NoChunked /\ NoBrowser
ListingInit == part = "listing" /\ List!Init /\ NoUrls /\ NoLan /\ NoAccess /\ NoChunked /\ NoBrowser
LanInit == part = "lan" /\ Lan!Init /\ NoUrls /\ NoListing /\ NoAccess /\ NoChunked /\ NoBrowser
AccessInit == part = "access" /\ Access!Init /\ NoUrls /\ NoListing /\ NoLan /\ NoChunked /\ NoBrowser
ChunkedInit == part = "chunked" /\ Chunked!Init /\ NoUrls /\ NoListing /\ NoLan /\ NoAccess /\ NoBrowser
BrowserInit == part = "browser" /\ Pages!Init /\ NoUrls /\ NoListing /\ NoLan /\ NoAccess /\ NoChunked

Init == UrlsInit \/ ListingInit \/ LanInit \/ AccessInit \/ ChunkedInit \/ BrowserInit

Next ==
  \/ /\ part = "urls" /\ Urls!Next
     /\ UNCHANGED <<part, listingVars, lanVars, accessVars, chunkedVars, browserVars>>
  \/ /\ part = "listing" /\ List!Next
     /\ UNCHANGED <<part, urlsVars, lanVars, accessVars, chunkedVars, browserVars>>
  \/ /\ part = "lan" /\ Lan!Next
     /\ UNCHANGED <<part, urlsVars, listingVars, accessVars, chunkedVars, browserVars>>
  \/ /\ part = "access" /\ Access!Next
     /\ UNCHANGED <<part, urlsVars, listingVars, lanVars, chunkedVars, browserVars>>
  \/ /\ part = "chunked" /\ Chunked!Next
     /\ UNCHANGED <<part, urlsVars, listingVars, lanVars, accessVars, browserVars>>
  \/ /\ part = "browser" /\ Pages!Next
     /\ UNCHANGED <<part, urlsVars, listingVars, lanVars, accessVars, chunkedVars>>

Spec == Init /\ [][Next]_vars

-----------------------------------------------------------------------------
(* The properties of the parts. *)

\* A request for a path arrives at the handler as that path, however it was written.
ArrivesAtThePath == part = "urls" => Urls!ArrivesAtThePath

\* What is pulled lands under its own last name.
LandsUnderItsName == part = "urls" => Urls!LandsUnderItsName

\* A listing of a directory that changes lists what nobody touched, and of the rest what was so.
ListingIsOfItsTime == part = "listing" => List!StableIsListed /\ List!EntryWasSo

\* The LAN address in an answer was right within the cache's second and the time of a detection, or
\* a detection failed within it; and a detection chooses the right interface.
AddressIsRight == part = "lan" => Lan!AnswerIsRecent /\ Lan!ChoiceIsRight

\* Every answer has its one line in the log, whole and with the time it is due, and no thread
\* keeps a large buffer after it.
AnswersAreLogged ==
  part = "access" =>
    Access!OneLineEach /\ Access!LineIsWhole /\ Access!StampIsDue /\ Access!BufferIsSmall

\* A body that ends without an error is the range it was made for, and no body gives other bytes.
BodyIsRange == part = "chunked" => Chunked!BodyIsRange

\* Links lead to what they name; at rest the page shows what its address names, or the error, and
\* no notice of a load.
PageIsOfItsAddress ==
  part = "browser" => Pages!LinksLeadToTheirEntries /\ Pages!ShowsWhereItIs /\ Pages!NoticeGoes
=============================================================================
