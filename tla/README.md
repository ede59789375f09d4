# TLA+ models and proofs of lanfile

lanfile is a file server for a local network (Rust, tokio, Hyper behind salvo)
with a small web front end and a pull client, `lanfile get`. This directory
holds TLA+ modules that model its stateful parts, TLC configurations that check
them on small instances, and TLAPS proofs of theorems about them.

    tlc -workers 2 -config LogSink.cfg LogSink     # check a run
    tlapm Sendfile_proofs.tla                      # check the proofs of a module

## 1. Inventory

| part | state it keeps | operations | hard because |
|---|---|---|---|
| **Sendfile stream** (`sendfile/`) | one slot and one `SendfileStream` per connection: scanner state, bytes owed to the socket, the plan of what to send | `arm`, `poll_frame`, `poll_write(_vectored)`, `poll_flush`, `poll_shutdown` | Hyper believes it writes a body of zero bytes; the stream must replace exactly those by `sendfile(2)`, whatever the cut of the writes, short writes, full sockets, lost readiness, truncated files |
| **File cache** (`assets/src/file_cache.rs`, `ServeFiles::open`, `serve`) | per shard: path → (fd, fstat, age, time of check), LRU clock | `get_fresh`, `get`, `insert`, `remove` between `lstat`, `open`, `fstat` | no lock is held over the system calls; other programs change the files; inode numbers are reused; time |
| **Access log** (`LogSink` in `app/src/main.rs`) | bytes pending per shard, one writer thread | `append`, `push`, `flush`, `run` | many threads, lost notifications, a slow or broken stdout, the exit |
| **Zip download** (`list/src/lib.rs`, `zip.rs`) | two bounded channels between a blocking thread and a task | `walk`, `send_one_file`, `send_file_chunks`, the writing task | back-pressure both ways, disconnects, files that change, reuse of buffers |
| **Conditional and range requests** (`namedfile/src/lib.rs`) | none (a decision per request; the client keeps a copy and its validators) | `send_inner`, `any_match`, `none_match`, `HttpRange::parse`, `upgrade_response` | the order of four preconditions and a range; files replaced between the requests of one download |
| **Chunked file body** (`namedfile/src/chunked_file.rs`) | per body: offset, bytes read, the read under way | `poll_next`, the blocking seek and read | the position is that of the file description; short reads; a file that shrinks |
| **Pull client** (`pull/`) | one kept-alive connection, the local files | `http_get`, `fetch_file`, `pull_entries`, `skip_existing` | retries, partial files, time-outs |
| **Accept loop, dispatch** (`app/src/fast.rs`, `router.rs`) | the connections, one slot each; the descriptors of the process; a time stamp and a line buffer per thread | `serve`, `call`, `sub_path`, `log_access`, `with_stamp` | one supply of descriptors for connections, files, the cache and the blocking threads that outlive a connection |
| **Listing, LAN address** (`list/`) | an address cached for a second | `get_lan_ip`, `list_directory` | racing refreshes, detections that fail; a directory that changes while it is read |
| **Front end** (`assets/static/app.js`) | the hash, the table | `loadListing`, `render` | answers out of order |
| **Pull arguments** (`pull/src/args.rs`) | none | `parse_args`, `parse_source`, `percent_decode`, `encode_path` | four pieces of code encode, cut and decode one path |

How they interact: the accept loop makes one `SendfileSlot` per connection and
gives it to the `SendfileStream` that wraps the socket and to `FastService`.
`FastService::call` serves `/files` and `/pull` through `ServeFiles`, which asks
the file cache for a descriptor, lets `NamedFile` write the response head, and
arms the slot (`upgrade_response`), so that the body Hyper is given consists of
placeholder bytes; the stream recognises the end of the head in what Hyper
writes and sends the file in their place. When a response is done, `log_access`
appends a line to the `LogSink`. Everything else (`/api/list`, `/api/zip`, the
front end) goes through salvo's router.

What makes each part correct:

- stream: the peer gets exactly the bytes HTTP promised, in order; flush and
  shutdown leave nothing behind; the connection is clean for the next response;
  a task that waits is going to be woken;
- cache: an answer's metadata is that of a version of the file it sends; a replaced file is
  served for a bounded time; a validated hit is not an older file than the path
  named; the number of descriptors is bounded; the entries kept are those used last;
- descriptors: the cache never takes the last one, and whoever waits in the listen
  queue is accepted once there is one again;
- log: nothing accepted is lost, repeated or reordered within a thread; memory
  is bounded; everything is written in the end, also when main exits; one whole line
  for each answer, with the time it is due;
- zip: memory is bounded; the archive has every entry in order with exactly what
  was read of it; both sides end;
- conditions: the status is that of RFC 9110; a client is never told that another
  version is its own; what a range says, carries and sends is the same and lies in the file;
- pull: a local file is left alone, removed, or one whole version of the remote;
  no answer is read as that of another request; only real faults fail a request; it ends;
- listing and address: what nobody touched is listed as it is; the address was right
  a moment ago, or could not be had then;
- page and arguments: a path arrives as it was meant; the page shows what its address
  names.

## 2. Modules

| module | models | state ↔ code |
|---|---|---|
| `HeadScan` | `find_head_end`, `trailing` | operators on sequences of byte classes (CR, LF, other: all the scanner tells apart) |
| `HeadFeed` | `write_head` as a scanner that is fed pieces | `carried` ↔ `State::Head { carry, len }`; `fed` and `headEnd` what went in and what was found |
| `HttpWire` | abstract: what a keep-alive connection promises its peer | – |
| `Sendfile` | one connection: Hyper's calls, the stream, the slot, the socket | `armed`, `slotPlan` ↔ `SendfileSlot`; `state`, `carry`, `owed`, `plan` ↔ `SendfileStream`; `call` … `progress` ↔ the locals of the call in progress; `room`, `ready`, `gone`, `waker` ↔ socket, tokio's readiness flag and waker |
| `FileCache` | the cache and the requests that use it | `cache[p]` ↔ `Entry`; `clock` ↔ `Shard::clock`; `req[w]` ↔ the locals of `ServeFiles::open`/`serve` |
| `LruShards` | abstract: sharded least-recently-used eviction, with no counters: which of two paths was used after the other | – |
| `FileCacheLru` | the refinement mapping of `FileCache` to `LruShards` | the order of use ↔ the `used` of the entries |
| `Server` | the process and its descriptors: accept loop with its back-off, connections, what their requests open, what the cache keeps, and what listings, detections of the address and walks of archives have open on blocking threads | `loop` ↔ where `fast::serve` is; `client` ↔ listen queue and connections; `req[c]` ↔ a request with the descriptor it holds; `job[j]` ↔ a `spawn_blocking` task with those it has open, and the connection it works for while there is one; `cache[f]` ↔ the descriptor of an entry |
| `AccessLine` | who writes a line on which of the two paths, its time stamp, its rendering | `log` ↔ `AccessLog`; `stamp[t]` ↔ `STAMP`; `buffer[t]` ↔ the capacity of `LINE`; `task[t]` ↔ the locals of `log_access` |
| `LogSink` | the log's buffer, the writer thread, main's flush | `pending`, `writing` ↔ the mutexes of `LogSink`; `step`, `at`, `wrote`, `batch` ↔ where `flush`/`run` is |
| `ZipPipeline` | the walking thread and the writing task of `/api/zip` | `queue`, `free` ↔ the two channels; `holds`, `hand` ↔ the buffer each side has in hand |
| `Conditional` | `send_inner` as an operator from a file and a request to an answer; the plan `upgrade_response` reads back from it; RFC 9110's order beside it | operators |
| `Revalidation` | requests of any shape, and a client that revalidates a copy and resumes a cut download while the file is replaced | `q`, `a` ↔ a request and the answer of `Conditional!Respond`; `versions` the file; `store` the client's copy (external) |
| `ChunkedFile` | `ChunkedFile` and `LazyFile` with their blocking reads | `state` ↔ `ChunkedState`; `offset`, `readSize` ↔ its fields; `position` ↔ the kernel's |
| `Mirror` | abstract: what a pull promises of the local files | – |
| `PullClient` | `lanfile get`: pool, `http_get` with its retry, listings, files, the tree; a server, a network and a disk with faults; the client killed and run again | `conn` ↔ the connection, in use or in `Pool`; `pc`, `call`, `reused`, `want`, `err` ↔ where the task is and its locals; `target`, `kind` ↔ `Parsed`; `todo` ↔ the entries of all levels of `pull_entries`, in the order the server's listing has them in, which is arbitrary here; `local`, `perm` the disk |
| `PullUrls` | the path of a link or an argument, through `parse_args`, the request, `sub_path` and the router, and to the local name | `args` the command line, of which `into` keeps what says where to; `parsed` ↔ `Parsed`; `request`, `target` |
| `Listing` | `list_directory`, `sort_list_entries` | `unread`, `dirent` ↔ the enumeration; `entries` ↔ `list_entries` |
| `LanAddress` | `get_lan_ip`, `detect_lan_ip`, `lan_ip_candidate` | `cache` ↔ `LanIpCache`; `req[w]` ↔ the locals of a refresh; `found` is the history of what a detection would have found or did not |
| `Browser` | `loadListing`, `render`, the hash | `hash`, `rows`, `crumb`, `loading`, `error` ↔ the page; `loads` ↔ the requests under way |
| `Parts` | six parts that share no variable, each an instance: `PullUrls`, `Listing`, `LanAddress`, `AccessLine`, `ChunkedFile`, `Browser`; a behaviour is one of the part that `part` names | – |
| `MC…` | the constants of the instances TLC checks | – |
| `…_proofs` | theorems and their proofs | – |

Composition. `Sendfile` composes stream, slot, body and socket; `PullUrls` composes the
four pieces of code that write and read a path; `Revalidation` composes the server's
decision with a client; `Server` composes the accept loop with what the requests, the
cache and the blocking threads keep open. `Server` leaves open which entry the cache evicts
and when it finds one stale, which is what `FileCache` says, and what a walk reads and sends,
which is `ZipPipeline`'s subject; `AccessLine` ends where `LogSink` begins;
`PullClient` takes the pull of a tree from the command line `PullUrls` has parsed.

Atomicity. In `Sendfile` one action is one system call of the stream or one
decision between two of them, so that the peer, the reactor and a truncation of
the file interleave inside `poll_write`. In `FileCache`, `LogSink`, `ChunkedFile`, `Listing`
and `LanAddress` one action is one critical section or one system call. In `ZipPipeline` one
action is one channel operation, one `read`, or one write of the archive. In `PullClient` it
is one read, write or other system call of the client's only task; between any two of them
the server, the network and the remote tree may move. In `Server` a request is answered in
one step, but for the tasks of the blocking pool, where one action is one open or close: what
its steps may find in between is `FileCache`'s subject.

What stands for data: a byte of a response is its origin (head, body,
placeholder, file) and position; a file of the cache is a *generation* (what a
descriptor refers to) with an inode number and one attribute for size and
modification time; a log line is its thread, number and length, or the sequence of its
pieces; a file of the zip is the sequence of its offsets, in units of which a buffer holds
`Chunk`; a byte that is pulled is its file, version and place, a listing is one byte; an
ETag is what it is made of; a time is a number of ticks; a text of a URL is a sequence of
characters, in which the word of a route is one.

## 3. Runs

| run | instance | shows |
|---|---|---|
| `sendfile` | 2 responses out of 4 kinds (whole file, range to the end, HEAD, empty file), two heads (a bare terminator, one with a byte before it), socket of 2 bytes, file of 3, `PhantomLen` 2 | `TypeOK`, `WireIsPrefix`, `FlushedIsSent`, `CleanBetweenResponses`, `FailsOnlyForCause`, `ParkedIsRegistered`; `ImplementsHttpWire` (refinement); `Delivery` (liveness) |
| `head_scan` | every head of up to 7 bytes, cut into pieces of up to 5 | `EndIsFirst` |
| `cache_staleness` | 1 path, 2 requests, 3 inode numbers, 2 changes, 4 ticks, validity 2, stall 2 | `ValidatedIsNotOlder`, `MetaIsOfFile`, `BoundedStaleness` |
| `cache_lru` | 3 paths in a shard of 2 entries, 2 requests, 1 change, 10 lookups | `FdBound`; `ImplementsLru` (refinement) |
| `cache_documented` | as `cache_staleness` | *violation*: the documented second of staleness |
| `log_sink` | 3 threads (one is main), 2 shards, 2 lines each | `NothingLost`, `ExitWritesAll`; `EventuallyWritten` (liveness) |
| `zip_pipeline` | a directory with 2 files of up to 3 units, buffers of 2, channels of 2 | `MemoryBound`, `ContentIsWhatWasRead`, `ProtocolKept`, `FinishedIsComplete`; `BothEnd` (liveness) |
| `pull` | any target in a root with a directory with a file; versions of 2 bytes and of none; 2 runs, 2 faults, 1 change of the remote, any number of kills the runs allow; files that may be read-only or lie in a directory nothing can be removed from | `Framing`, `FailsOnlyForCause`, `Delivered`; `KeepsPromise` (refinement of `Mirror`); `Ends` (liveness) |
| `pull_discard` | one file, that may be read-only | *violation*: only what was begun is discarded |
| `revalidation` | 2 versions (2 inode numbers, lengths 0 and 2, a time before the epoch, two in one second), 4 requests, the first of any shape, both routes | `AgreesWithRfc`, `RangeAgrees`, `ValidatedIsSame`, `ResumedIsWhole` |
| `server` | 2 clients, 3 files, 3 descriptors, a cache of 3, 3 requests of any kind, walks that hold 2 descriptors, 1 change of the disk | `RoomForAConnection`; `NobodyWaitsForEver` (liveness) |
| `parts` | see `MCParts`: 20 names in paths of up to 2; 3 names of 4 kinds of objects and 2 changes; 2 detections, any of which may fail, over 2 interfaces that change once; 2 threads of 2 requests each on a stack of 8; 2 bodies of a file of 3 that shrinks; 3 directories and 4 navigations | `ArrivesAtThePath`, `LandsUnderItsName`; `ListingIsOfItsTime`; `AddressIsRight`; `AnswersAreLogged`; `BodyIsRange`; `PageIsOfItsAddress` |

Why the bounds are enough:

- `sendfile`: a socket of two bytes is full in the middle of a head, of the
  placeholders and of what is owed; `PhantomLen` 2 against a body of 3 bytes gives one whole
  frame and a shorter last one, and the range of one byte a short one only; a second response
  meets whatever the first has left behind. An ordinary body is passed on as the heads of the
  HEAD and of the empty file are; it is left to the proofs, which cover every set of answers.
  More responses add nothing that the second does not meet, since the connection is then in the
  state `CleanBetweenResponses` describes. The safety properties and the refinement are proved
  for all sizes.
- `head_scan`: seven bytes hold a terminator at every offset with a false start
  before it; a piece of five exceeds the joined window of three and three. Proved for all.
- `cache_*`: `MaxInode` 3 lets an inode number return after its file is gone;
  a validity and a stall of 2 ticks make the two distinguishable; three paths for
  two places are enough to evict, and to evict the wrong one.
- `log_sink`: a line is below a batch and below the limit, two exceed both, a
  third is dropped; three threads on two shards share one. `MaxLines` bounds the
  lines of a thread.
- `zip_pipeline`: a file below, at and above the size of a buffer, and one that
  grows from the first to the last while it is read; two buffers in each channel
  while both hands are full. `MaxSize` bounds the size of a file.
- `pull`: two bytes can be torn after the first, and a version of no bytes cannot; a
  run with two requests reuses a connection, and one with three reuses it after a
  failure; two faults are one that the retry hides and one that meets it; a second run
  meets what the first, killed or not, has left.
- `revalidation`: two versions of the same length, of the same second, of a file that was
  put in place of a newer one; four requests are a download, its cut rest, a revalidation
  and one more.
- `server`: three descriptors are a connection, its file and one more; the cache would like
  all three, and so would two walks; three requests fill the cache, or leave tasks of two
  connections that have gone and use up what is left while a third waits.
- `parts`: names that are routes, that read as the flag or as the local directory, that are
  escaped, that look like an escape of what is escaped; a directory of three names, one of
  which stays as it is while two change; two
  detections that store in either order, or of which one fails; a line that just fits and one that does not, and one
  that is over what a thread keeps; two loads that cross a third.

`MaxResponses`, `MaxTime`, `MaxChanges`, `MaxLookups`, `MaxLines`, `MaxHead`, `MaxSize`,
`MaxRuns`, `MaxFaults`, `MaxVersions`, `MaxRequests`, `MaxArrivals`, `MaxMoves`, `MaxSwitches`,
`MaxInterfaces`, `LastSecond` and `Depth`
only bound the exploration. Deadlock is not checked: every run ends at
these bounds, and the connection, the process, the download and the pull may all stop.

Fairness. `Sendfile`: the task runs whenever it can (`WF(TaskStep)`, the
executor), readiness events are delivered (`WF(Driver)`) and the peer reads until
it resets the connection (`WF(PeerRead)`); nothing is assumed of spurious polls,
which is what makes a lost waker visible, nor that Hyper closes. `LogSink`: the
flushing threads are scheduled and a timed wait ends; the lock need not be fair
and no thread need log again. `ZipPipeline`: both sides are scheduled; a write
to the body ends because the client reads or has gone. `PullClient`: the client's task is
polled and time passes, so that its timeouts fire; nothing is assumed of the server, which
may be silent for ever. `Server`: the accept loop runs, its timer fires, every connection
ends at last, by the client or by the timeouts of the library, and so does every task of the
blocking pool, which makes a finite number of system calls; a walk only once its client has gone,
when it finds the channel closed – before that the client may keep it waiting.

## 4. What the violations say

- `cache_documented`. `ServeFiles::open` promises at most one second of the old
  file. The time of check is taken when the entry is *inserted* (after the
  response head was built, `assets/src/lib.rs:373-391`), respectively at the
  lookup that follows the `lstat`; whatever time passes before it is added. What does
  hold is `BoundedStaleness`: the validity plus the time a request takes between
  its stat and what it does with it, however often the file is asked for.
- `pull_discard`. `discard` is described as removing the file that was not completely
  written. It is called whatever `copy_in_blocking` failed of (`pull/src/fetch.rs:104`),
  and so also when the local file could not be opened for writing: the file of an earlier
  run is then removed although nothing was written to it. What does hold is `KeepsPromise`: a
  file is left, removed, or whole.

Deviations met while modelling that no run shows, since no property of the code is at
stake or the case lies outside what the server does:

- `If-Range` is read nowhere in `send_inner` (`namedfile/src/lib.rs:1189`): a `Range` is
  answered with 206 whatever it says, and a client that resumes that way after the file was
  replaced puts two versions together. `ResumedIsWhole` excepts such downloads.
- `If-Unmodified-Since` counts also beside an `If-Match` that passes, where RFC 9110 has it
  ignored. `AgreesWithRfc` excepts requests with both.
- A detection that fails (`get_if_addrs` needs a descriptor for its socket, `list/src/ip.rs:43`; a
  panic of its thread, `list/src/lib.rs:78-81`) is stored like one that found no address: for the
  cached second every listing is without one. `AnswerIsRecent` counts that as what was found then.
- A listing or a walk whose client has left goes on: a walk until it finds the channel closed at
  the next item it sends. Until then what it has open is missing to others; `RoomForAConnection` speaks of the
  time after, and `NobodyWaitsForEver` says that it comes.
- Two `ChunkedFile` bodies whose handles share one file description could read each
  other's position between seek and read. No handler makes two such bodies of one cached file
  where sendfile is available; `BodyIsRange` is checked with a description for each.
- An open that fails for want of a descriptor is answered 404 like a missing file
  (`assets/src/lib.rs`, `open_uncached`): `OpenFails` of `Server`.
- `LogSink::flush` returns `false` when it wrote nothing, which need not mean that every shard
  is empty: a line may have come into a shard it had left. Nothing is lost (`NothingLost`), and
  the timed wait writes the line (`EventuallyWritten`).
- Two listings whose loads cross may both be in the table (`app.js`); their links are right
  (`LinksLeadToTheirEntries`), and `ShowsWhereItIs` excepts loads that crossed.

## 5. Proofs

All proofs are of specifications with arbitrary constants under the named
assumptions of the modules.

- `Sendfile_proofs`: for every set of answers, file length, frame length and socket
  capacity, `Spec => []IInv` (`ConnectionInvariant`), and from it `[]TypeOK`,
  `[]WireIsPrefix`, `[]FlushedIsSent`, `[]CleanBetweenResponses`,
  `[]FailsOnlyForCause`, `[]ParkedIsRegistered` and the refinement
  `Spec => ImplementsHttpWire` (`ConnectionKeepsItsPromise`). The assumptions are
  `AnswersAssumption` (Hyper ends a head with its only CRLFCRLF), `SizesAssumption`
  and `NoPlanAssumption`.

  None of these properties is inductive: that the next byte sent is the promised one
  depends on where the plan stands, and that on how much of the head was handed over
  when its end was found. `IInv` adds
  - `Accounting`, `OwedIsNext`, `CurrentIsPromised`: every promised byte is on the
    wire, owed, or still to be handed over, in this order;
  - `Mode`: a connection is `Plain`, `InHead` (slot armed, the carry is the last three
    bytes of the part of the head handed over so far) or `InBody` (the plan stands at
    the byte that goes out next, and covers exactly what is left of the response);
  - `Bounds`, `CallFacts`: how far the call in progress has got with its slice;
  - `RangeIsInFile`, `HeadIsScannable`, `Wakers`.

  The proof has a lemma per way of moving bytes (`DataSame`, `DataSend`, `DataDrain`,
  `DataOwe`), a lemma per action (`…Step`), and one (`WireStep`) that classifies the
  steps for the refinement. `PollHeadStep` and `HeadContinuesStep` rest on `SplitScan`
  and `CarryComposes`: the three carried bytes are what makes a head that Hyper cuts
  anywhere end at the right byte.

  The scanner is a part of its own, before the connection: `SplitScan` – for every `s` in which no
  terminator ends and every `buf`, scanning `buf` with the last three bytes of `s` finds the end
  exactly where scanning `s \o buf` does. The argument: a terminator of four bytes that ends in
  `buf` begins at most three bytes before it, so that the joined window sees it; one that the window
  sees is one of the whole. Of `HeadFeed` the inductive invariant is
  `FeedTypeOK /\ CarryIsTail /\ EndIsFirst`; with `SplitScan` it gives `FeedFindsTheEnd` and
  `FeedCarries`: heads cut into any number of pieces of any length.

- `Server_proofs`: `Room` – for any number of clients, files and descriptors, any capacity of
  the cache and any depth of a walk, `Spec => []RoomForAConnection`, under `ServerAssumption` and
  `NoneAssumption`. Blocking tasks open descriptors when no connection is left, so that what is in
  use may then be all there is; the property can only speak of the time when they have ended too. The
  invariant is about the entries of the cache alone: `CacheLeavesOne`, their descriptors are
  fewer than the supply. An entry is made only by `Open`, whose request is that of a connection
  (`Attended`), which holds a descriptor itself; so the entries with the new one and the connections
  fit in the supply, and there is at least one connection. A request that waits for a task is one of
  a connection too (`Awaited`). With no connection and no task what is in use is the entries, whose
  number is below the limit.

- `Revalidation_proofs`: `StatusIsThatOfTheRfc` (`AgreesWithRfc`), `ToldItsOwn`
  (`ValidatedIsSame`) and `ResumedUnderIfMatch` (`ResumedIsWhole`), for any set of versions,
  requests, inode numbers, lengths and times, under `TicksAssumption`, `HeaderAssumption`,
  `RevalidationAssumption` and `TagsAssumption` (an ETag names its version as long as no write
  falls within the resolution of the modification time). The invariant: `Types`; `Distinct`
  (two versions have two ETags); `DatesAreNumbers`; `Answering` (an answer is `Respond` of the
  version it is of); `Copying` and `IsOf` (the ETag of a copy is that of the version its download
  began with, and its bytes are that version's or, under If-Range only, those of a later one);
  `Asking` (a request beside a copy carries the validators of the copy). `Agreement` compares the
  decisions of `send_inner` with the order of RFC 9110, case by case.

  `RangeIsServed` (`RangeAgrees`) is about the numbers of an answer. `HttpRange` takes the ranges
  that begin in the file, in the order of the header, each cut to the file; `RangesAreSound` and
  `CutIsInside` say that none is empty or reaches past the end, whatever was asked for; and
  `HeadAgrees` that `Content-Length`, `Content-Range`, the status and the plan that
  `upgrade_response` reads back from the head name the same bytes. `HeaderAssumption` says, besides,
  that the absence of a range is none.

- `ZipPipeline_proofs`: `MemoryIsBounded` (`MemoryBound`), `ItemsOfAnEntryStayTogether`
  (`ProtocolKept`), `ArchiveHoldsWhatWasRead` (`ContentIsWhatWasRead`) and
  `FinishedDownloadsAreComplete` (`FinishedIsComplete`), for any tree, sizes of files, buffer and
  channels, with files that change and a client that leaves, under `WalkAssumption`,
  `EntriesAssumption` (an entry is its place in the walk: two files whose names look the same in
  the archive are two entries), `SizesAssumption` and `NothingAssumption`. None is inductive. The
  count of buffers needs `Hands` (at which steps a side has a buffer: `NextChunk` takes one only
  with empty hands, and the task gives one back only when it has one); the protocol needs `Grammar`
  (what may stand behind an item in the channel, what the task finds first and what the walk gives
  next agree, until one of them ends). `HoldingAppend` and `HoldingTail` count the buffers of a
  queue; one lemma (`SendStep`) is for all six sends, one (`TakeItemStep`) for both receipts.

  The content rests on a second invariant, `Flow`, proved relative to the first. It follows the
  units of a file from the read to the archive without any history: an item `Fits` the one before
  it when it is of the same entry and begins at the unit where that one ended, or is of the next
  entry; the first item fits what the task has taken (`At`, `Gotten`), and what was sent last fits
  what the walk has read (`Ahead`). So the units in the entry, in the hand of the task, in the
  channel and in the hand of the walk are consecutive, from 0 to `read`. An `end` or a `whole` item
  stands for a file that is not read again (`Sound`: its place is before `next`), which is what
  makes the content of an entry equal to `read` once and for all (`OnlyItsEntry`). That the task
  never closes an entry because the channel closed (`QueueClosedFlow`) is a consequence: the walk
  ends between two entries unless the task ended first.

- `FileCache_proofs`: `DescriptorsAreBounded` (`FdBound`), `AnswerDescribesItsFile`
  (`MetaIsOfFile`), `ValidatedIsNoOlder` (`ValidatedIsNotOlder`) and `StalenessIsBounded`
  (`BoundedStaleness`), and `CacheIsLru` (`ImplementsLru`), for any paths, requests, shards,
  capacity, validity, inode numbers and any
  number of changes, under `ShardsAssumption`, `SizesAssumption`, `NoneAssumption` and
  `BornAssumption`. The invariant follows a version through a request:
  - `Past`: what a path named before is older than what it names, or an earlier version of it;
  - `Pinned`: no file made later has the inode number of one that a path, an entry or a request
    refers to – this is what makes comparing inode numbers sound although they are given again;
  - `Seen`, `Opened`, `Described`: what lstat, open and fstat have told a request, and how old that
    is (`InTime`, from the guard of `Tick`);
  - `Recent`: the version of an entry or an answer was replaced no earlier than so long before;
  - `Bounded`: the shards are finite and within their capacity.

  `AnswerDescribesItsFile` needs `Names` beside it: the descriptor and the metadata in an entry, in
  the hand of a request and in an answer are together one version that the path names or has
  named (`Named`). Two facts carry it: a descriptor that a request has open is of a file that the
  path named when it was opened, and a file is at one path at most (`Owned`), so that what fstat
  reads of it is its present version, if the path still names it, or the last one in the history;
  and an entry that a lookup finds matching lstat has the version it was inserted with, since an
  entry is never changed but for the time of its check.

  A change of the files is reduced to `Grown` (files stay, attributes grow, the history grows by
  what happened now), under which requests and entries stay good; a step of a request to
  `RequestStep` and `CacheStep`. That `insert` finds an entry to evict is `OldestIsInShard`, from
  `Minimum`: a set of numbers has a least one.

  The refinement of `LruShards` needs one invariant more, `UsedInv`: no two entries of a shard have
  the same `used`, and none is above the clock, so that the next number is new and the oldest entry
  is the only one with none before it (`OldestIsLast`). A hit is `Lru!Use` (`UseStep`), an insertion
  `Lru!Insert` (`InsertIsInsert`: it evicts exactly when the others of the shard fill it, which for a
  path that is there already they cannot), `remove` is `Lru!Drop`, the end of an answer `Lru!Done`,
  and every other step leaves the entries, their order and the answers alone (`QuietStep`). That an
  entry is not `None` is part of `NoneAssumption`: `Option::None` is no `Entry`.

- `LogSink_proofs`: `LogLosesNothing` (`NothingLost`) and `ExitIsLogged` (`ExitWritesAll`), for any
  threads, shards, lengths of lines and limits, any interleaving of appends, notifications and the
  two flushes, and an stdout that fails in the middle of a batch, under `SizesAssumption`,
  `ThreadsAssumption` and `UnassignedAssumption`. The invariant:
  - `Holding`: a flush that walks holds the lock, and has lines in hand only between taking and
    writing them, so that at most one does;
  - `Sharded`: a line is in the shard its thread was given, whatever shard that is, and a thread
    that has none has no line;
  - `Order`: of one thread, what is written has smaller numbers than what is in hand, this smaller
    ones than what is pending, and none a larger one than the thread has logged – what makes an
    append keep the order of a thread across its drops, and a `WriteFails` harmless to it;
  - `Kept` and `PendingBound`, as `NothingLost` states them;
  - `DueOut`: what was due when main began to flush is written for the shards it has visited, and
    with what it has in hand for the one where it is. It follows from `Kept` at the moment a shard
    is found empty or taken: the lock says that the writer thread has nothing in hand then.

  `Of` and `Bytes` are recursive functions of a sequence. `SelDef` and `BytesDef` show that they
  satisfy their recursions, by `Induct`: a set of numbers that holds 0, and with a number the next,
  holds all of them, which follows from the well-foundedness of `<`. The same lemma gives what a
  line more (`SelAppend`, `BytesAppend`) and a batch of one shard (`SelJoin`) do to them.

- `PullClient_proofs`: `AnswersMatchRequests` (`Framing`), for any remote tree, any versions of its
  files and their sizes, and any number of changes, faults, runs and kills, under `TreeAssumption`
  and `SizeAssumption`. That a connection carries nothing when it waits in the pool cannot be seen
  from `Framing` itself; the invariant counts bytes. `AtHead`: awaiting a head, either the request
  is on its way, or its answer, with no more bytes behind the head than it says. `AtBody`: what has
  been copied, what is on the wire and what is to come is no more than the length wanted, so
  nothing is left when the length is reached (`FileDoneStep`) or, a listing being one byte in the
  model, when it has been taken (`TakeListingStep`). An answer that was cut, or a connection that
  failed, leaves less, never more (`DropsKeep`). `WithoutConn` is the other half: every way out of a
  failed request drops the connection.

  `FailuresHaveCauses` (`FailsOnlyForCause`) needs more of a connection than `Framing`: as long as
  nothing was disturbed, it carries the answer to the request or can still carry it, whole and
  truthful (`BlameInv`, whose `Blameless` says so at each step of a request, and what a failed
  request is `Excused` by). A kept-alive connection that the server closed may fail a request only
  by an error of `http`, which is retried on a new one. The theorem is proved without the excuse
  `Disturbed`, so a change of the remote tree alone fails nothing but a 404.

  `PullKeepsItsPromise` (`KeepsPromise`) is the refinement of `Mirror`. The invariant `ContentInv`
  says what the bytes are: those copied, on the wire and to come are the pieces, in order, of one
  version that the remote has had since the run began (`Offered`), and they add up to the length in
  the head or fall short of it (`Comes`); a file being written, or whose discard is yet to come, is
  the beginning of that version (`Part`, `LeftContent`). `PartReads` says what such a beginning is
  to a reader once nobody writes it: the version when it is whole, otherwise torn. Then the steps:
  `FileDone` installs, since nothing is missing when the length is reached; `CreateFile` and
  `Discard` remove; `Kill`, and a `Discard` in a directory that cannot be written, tear or install;
  `Run` and a change of the remote are `Offer`; all others a reader does not notice
  (`QuietSteps`). `ContentAssumption` says that a file of no bytes is of one version, and that
  `None` and the user's own files are no version.

  `PullDelivers` (`Delivered`) says that a pull of a tree that ends well has lost no file. The
  invariant `Covered` says where a file below the target stands while the pull may still end well:
  it is no concern of the pull (`Exempt`: warned of, or it or a directory was gone for a while),
  there (`Done`), an entry yet to be taken or below one (`Ahead`), or what the request is for
  (`Asked`). `BelowFirst` takes it one step down when a listing is taken: what is below a directory
  is an entry of it, or below one. That the listing has that entry needs the connection again: what
  comes in answer to a listing's request tells of everything that was there all along, a file with
  the size of a version it has had (`Listed`, `Tells`), which `ListingTells` shows of a listing when
  it is made, and `TellsStill` of one that is on its way while the remote tree changes. `FileDone`
  is where `ContentInv` is needed: the length that was reached is that of a version. A directory
  that cannot be made, or listed, ends the run with an error, which is why `OfTree` leaves it out.

- `Parts_proofs`: the properties of `Parts`, for every value of the constants of the part.
  A step of `Parts` is a step of the part that `part` names and leaves the others alone
  (`OtherParts`), so each theorem rests on an invariant of its own part:
  - `ListingTellsItsTime` (`ListingIsOfItsTime`). `ListedSo` says of each name where the listing
    stands with it: still `Waiting` and in no row; or dealt with, and then, if it has not been
    touched since the listing began, with exactly the row due to it. A change can only make a name
    touched, never untouched. `WasSo` says of each row that its name has been of that type and size;
    what is read of a name and what it is now are both in its history (`DirentFollows`). Sorting
    keeps the set of rows, which is all the properties speak of.
  - `AddressIsRecent` (`AddressIsRight`). `RightWithin` says that an address, or that there is none,
    was found at some time between two, by a detection then or by one that failed then. The one in
    hand was found since the load (`DetectionWasRight`), the cached one at
    most `Stall` before it was stored, whoever stored it (`CacheWasRight`), the one answered at most
    `Ttl` more (`AnswerWasRight`): a hit adds the age of the entry to what the detection took. A step
    of time or of the interfaces takes nothing from the past (`HistoryGrows`). The choice is right
    for every list of interfaces (`ChoiceIsRightOfLists`), not only for those of two.
  - `EveryAnswerIsLogged` (`AnswersAreLogged`). `LinesFollow` pairs the lines of a thread with the
    requests it has answered, but for the one it is at; `StampFollows` says that the text a thread
    keeps is not older than the second it was made for, which is the one the thread read when it
    writes. A request is logged unless the log is off, on either path (`AnswerStep`). `StackHoldsAll` goes through the pushes of `render_line_stack`: when the last one fits
    all before it did, so that nothing is missing of a line that is written from the stack.
  - `BodiesAreRanges` (`BodyIsRange`), under `OwnDescriptions`: every body has a file description of
    its own. Without it the property is false (see section 4): `SeekStep` and `ReadStep` need that no
    other body moves the position between a seek and its read. `Given` says what a body has given,
    `Reading` what its thread is reading for it; the length asked for at the poll is what keeps a
    body from giving more than its range.
  - `PageShowsItsAddress` (`PageIsOfItsAddress`). A page on which no loads have crossed has at most one
    load under way, the last (`LoadsAreNumbered`), during which the table is empty (`TableIsClear`);
    when the events of the hash are dealt with, that load is for the hash, and after it there is its
    listing or the error (`PageFollows`).
  - `RequestsArrive` (`ArrivesAtThePath`) and `PullsAreNamed` (`LandsUnderItsName`), for names of any
    characters and length and paths of any depth, under `NamesAssumption`. It says of names that
    they are not empty and have no slash, and of `Escape` what `encode_path` does: "%", "#" and "?"
    are escaped, slashes and hexadecimal digits are not, and a code is two digits that no other
    character has. The program is a chain of functions of texts and takes two steps, so the work
    is in what the functions do to every text, and the invariant (`UrlsInv`) is short: the command
    line is one of `Ways`, what was parsed is `Parsed` (the path, its kind and what `into` says),
    the request is dispatched to the handler with the path, and the target is `Landing`.
    - Induction over a text: a set that holds 0 and with each number the next (`Induct`), or the
      empty text and with each text the one with a character more (`InductAppend`, `InductTail`),
      is everything. So a concatenation is taken apart one text at a time; `percent_decode` is a
      recursive function of a place in the text, and `DecodeDef` gives its equation.
    - `RoundTrip`: `percent_decode` undoes `encode_path`, by induction over the text from its end:
      what is read at the place where the code of a character begins is that character and what is
      read behind its code (`DecodeOne`). A text that holds "%23" comes back as that, since its "%" is
      escaped too; a decoder that overlooks an escape at the very end breaks it.
    - `JoinPathIs`: a path encoded name by name is the joined path encoded, since "/" is left as it is.
      The names are bare, so trimming and cutting at slashes gives back the path (`TrimBare`,
      `BasenameIs`), and an encoded path has no "#" or "?" that could cut it (`LinkText`).
    - `ReadsAs` and `WaysAre`: every way a path can be asked for is read as that path. `NoRoute` is what
      keeps `direct_of` from taking a bare path for a route: a path that is asked for bare does not
      begin with one. `ArgumentsAre` and `ParseMeans` go through the arguments, of which the last may
      be the flag.
    - `RequestArrivesAt`: the request for the path goes through `route_path` and `sub_path` to the
      handler, which decodes it; `TargetLandsAt`: the name written is the last of the path.

Model-checked only: liveness (`Delivery`, `EventuallyWritten`, `BothEnd`, `Ends`,
`NobodyWaitsForEver`), which is out of the prover's reach. Every other property of a passing run,
each safety invariant, action property and refinement, is stated by a theorem.

## 6. Not modelled

- Formatting of headers, dates and listings; charset sniffing, content types and content
  dispositions: pure functions of a name and the first bytes of a file, tested by example. That
  the sniffing read may fail is an action of `FileCache` (`BuildFails`).
- Path resolution under the root (`openat2`, `canonicalize`, `resolve_under`): one system call
  and no state of the program; `Open` has the outcomes it allows.
- Of the pull client: a file whose socket cannot be made asynchronous again after its last byte
  (`TcpStream::from_std`, `pull/src/fetch.rs:118`, for want of memory in the kernel): the whole file
  stays and the error is reported. And a server that sends lines of a head without end, which
  `read_status` (`pull/src/http.rs:110-117`) reads as long as each comes in time: `Ends` is about
  servers that keep silent, in a head, a listing or a body, not about those.
- In `Server`, a listing or a detection whose thread panics (answered 500), and the descriptors a
  task has for less than one system call.
- The embedded assets, the command line of the server, and the start-up: run once or constant.
- Of the front end: breadcrumb, sizes, the copy buttons. Of the arguments: bytes that are no
  UTF-8, addresses without `http://`.
- HTTP/1 framing inside Hyper, tokio and salvo: modelled from how the code uses them, as the
  environment of `Sendfile`.

Hazards no property covers are listed in `PROJECT.json` with the reason.

## 7. Plan

1. (done) `HeadScan`, `HeadFeed`, `Sendfile` refining `HttpWire`; `FileCache`
   refining `LruShards`; `LogSink`; `ZipPipeline`.
2. (done) the inductive invariant of `Sendfile`, its safety properties and the
   refinement of `HttpWire`.
3. (done) `PullClient` refining `Mirror`; `Conditional` against RFC 9110 and `Revalidation`;
   `Server`; `PullUrls`, `Listing`, `LanAddress`, `AccessLine`, `ChunkedFile`, `Browser`.
4. (done) `RoomForAConnection` of `Server`; `AgreesWithRfc`, `ValidatedIsSame`, `ResumedIsWhole` and
   `RangeAgrees` of `Revalidation`; the four invariants of `ZipPipeline`; the four invariants of
   `FileCache` and its refinement of `LruShards`; `Framing`, `FailsOnlyForCause` and `Delivered` of
   `PullClient` and its refinement of `Mirror`;
   `NothingLost` and `ExitWritesAll` of `LogSink`; the properties of `Listing`, `LanAddress`,
   `AccessLine`, `ChunkedFile` and `Browser`.
5. (done) `ArrivesAtThePath` and `LandsUnderItsName` of `PullUrls`, for texts of any length.

What is left is liveness, which stays with TLC, and the parts of section 6.
