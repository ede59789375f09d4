----------------------------- MODULE LanAddress -----------------------------
(***************************************************************************)
(* The address a listing gives for the links of its files: get_lan_ip and  *)
(* its cache (src/list/src/lib.rs), detect_lan_ip and lan_ip_candidate     *)
(* (src/list/src/ip.rs).                                                   *)
(*                                                                         *)
(* Requests race: each loads the cache, and when that is old enumerates    *)
(* the interfaces on a blocking thread and stores what it found.           *)
(***************************************************************************)
EXTENDS Integers, Sequences, Functions

CONSTANTS
  Workers,     \* requests in progress at a time
  Interfaces,  \* what an interface can be: [class, addr]
  MaxInterfaces,
  Ttl,         \* one second, in ticks
  Stall,       \* how long a detection may take, from the load to the store, in ticks
  MaxTime, MaxChanges, \* bounds
  None

LanAssumption ==
  /\ Interfaces \subseteq [class : {"vpn", "lan", "other"}, addr : STRING \cup {None}]
  /\ Ttl \in Nat \ {0} /\ Stall \in Nat /\ MaxTime \in Nat /\ MaxChanges \in Nat
  /\ MaxInterfaces \in Nat

VARIABLES
  now, changes,
  interfaces,  \* what get_if_addrs reports, in its order
  found,       \* history: what a detection could find at each time: the address that was
               \* right, and None when one failed
  cache,       \* LanIpCache
  req          \* each request: its step, the address in hand, since when it is at it

vars == <<now, changes, interfaces, found, cache, req>>

-----------------------------------------------------------------------------
\* lan_ip_candidate: an interface is known by the class of its name, and its address is None
\* when it is no IPv4 address, loopback, link-local or of a point-to-point link.
Candidate(i) == IF i.class = "vpn" THEN None ELSE i.addr

\* The places of the interfaces that have a candidate, and of those named as ones of the LAN.
Usable(s) == {k \in DOMAIN s : Candidate(s[k]) # None}
Named(s) == {k \in Usable(s) : s[k].class = "lan"}
FirstOf(s, places) ==
  IF places = {} THEN None ELSE Candidate(s[CHOOSE k \in places : \A j \in places : k <= j])

\* detect_lan_ip, once it has the interfaces.
DetectLanIp(s) == IF Named(s) # {} THEN FirstOf(s, Named(s)) ELSE FirstOf(s, Usable(s))

-----------------------------------------------------------------------------
Idle == [at |-> "idle", ip |-> None, since |-> 0]

Lists == UNION {[1..n -> Interfaces] : n \in 0..MaxInterfaces}

Init ==
  /\ now = 0 /\ changes = 0
  /\ interfaces \in Lists
  /\ found = [t \in 0..MaxTime |-> IF t = 0 THEN {DetectLanIp(interfaces)} ELSE {}]
  /\ cache = [ip |-> None, fetchedAt |-> None]
  /\ req = [w \in Workers |-> Idle]

Fresh == cache.fetchedAt # None /\ now - cache.fetchedAt < Ttl

\* Mutant: a hit keeps the entry young.
LoadRenews(w) ==
  /\ req[w].at \in {"idle", "answered"}
  /\ IF Fresh
     THEN /\ req' = [req EXCEPT ![w] = [at |-> "answered", ip |-> cache.ip, since |-> now]]
          /\ cache' = [cache EXCEPT !.fetchedAt = now]
     ELSE /\ req' = [req EXCEPT ![w] = [at |-> "detect", ip |-> None, since |-> now]]
          /\ cache' = cache
  /\ UNCHANGED <<now, changes, interfaces, found>>

\* get_lan_ip: a young address is used.
Load(w) ==
  /\ req[w].at \in {"idle", "answered"}
  /\ req' = [req EXCEPT ![w] =
       IF Fresh THEN [at |-> "answered", ip |-> cache.ip, since |-> now]
                ELSE [at |-> "detect", ip |-> None, since |-> now]]
  /\ UNCHANGED <<now, changes, interfaces, found, cache>>

\* detect_lan_ip on a blocking thread, while the interfaces may change and others detect too.
Detect(w) ==
  /\ req[w].at = "detect"
  /\ req' = [req EXCEPT ![w].at = "store", ![w].ip = DetectLanIp(interfaces)]
  /\ UNCHANGED <<now, changes, interfaces, found, cache>>

\* The interfaces cannot be had (no descriptor is left for the socket that asks for them), or the
\* blocking thread panics: that is None, and stored like an address.
DetectFails(w) ==
  /\ req[w].at = "detect"
  /\ req' = [req EXCEPT ![w].at = "store", ![w].ip = None]
  /\ found' = [found EXCEPT ![now] = @ \cup {None}]
  /\ UNCHANGED <<now, changes, interfaces, cache>>

\* The address is stored with the time of the store, whoever stored since.
Store(w) ==
  /\ req[w].at = "store"
  /\ cache' = [ip |-> req[w].ip, fetchedAt |-> now]
  /\ req' = [req EXCEPT ![w].at = "answered", ![w].since = now]
  /\ UNCHANGED <<now, changes, interfaces, found>>

InterfacesChange ==
  /\ changes < MaxChanges
  /\ interfaces' \in Lists \ {interfaces}
  /\ found' = [found EXCEPT ![now] = @ \cup {DetectLanIp(interfaces')}]
  /\ changes' = changes + 1
  /\ UNCHANGED <<now, cache, req>>

Tick ==
  /\ now < MaxTime
  /\ \A w \in Workers : req[w].at \in {"detect", "store"} => now - req[w].since < Stall
  /\ now' = now + 1
  /\ found' = [found EXCEPT ![now + 1] = {DetectLanIp(interfaces)}]
  /\ UNCHANGED <<changes, interfaces, cache, req>>

Next == Tick \/ InterfacesChange \/ \E w \in Workers : Load(w) \/ Detect(w) \/ DetectFails(w) \/ Store(w)
Spec == Init /\ [][Next]_vars

-----------------------------------------------------------------------------
(* Properties. *)

\* An answer gives what was found no longer ago than the cache's second and the time a detection
\* takes, whichever of the racing detections was stored last: an address that was right then, or
\* none because a detection failed then, which is forgotten as soon as an address.
AnswerIsRecent ==
  \A w \in Workers : req[w].at = "answered" =>
    \E t \in 0..req[w].since : t >= req[w].since - Ttl - Stall /\ req[w].ip \in found[t]

\* The interfaces of a class that have an address.
WithAddress(class) == {i \in Range(interfaces) : i.class = class /\ i.addr # None}

\* No address of a tunnel is given out, and none of another interface while one of the LAN
\* would do, however the interfaces are ordered.
ChoiceIsRight ==
  LET ip == DetectLanIp(interfaces)
  IN \/ \E i \in WithAddress("lan") : i.addr = ip
     \/ WithAddress("lan") = {} /\ \E i \in WithAddress("other") : i.addr = ip
     \/ WithAddress("lan") = {} /\ WithAddress("other") = {} /\ ip = None
=============================================================================
