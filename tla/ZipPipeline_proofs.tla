------------------------- MODULE ZipPipeline_proofs -------------------------
(***************************************************************************)
(* The invariants of ZipPipeline, for any tree, any sizes of files, and    *)
(* any size of buffers and channels.  Inv (types, who holds a buffer, the  *)
(* order of the kinds of items) gives MemoryBound and ProtocolKept; Flow,  *)
(* which rests on it, follows the units of the files and gives             *)
(* ContentIsWhatWasRead and FinishedIsComplete.                            *)
(***************************************************************************)
EXTENDS ZipPipeline, FiniteSetTheorems, SequenceTheorems, TLAPS

Content == Seq(Nat) \cup {Nothing}
Kinds == {"dir", "whole", "start", "chunk", "end"}
Items == {x \in [kind : Kinds, name : {Walk[i] : i \in Nat}, data : Content] :
            x.kind = "chunk" => x.data # Nothing}

WalkerTypes ==
  /\ size \in [Files -> Nat] /\ read \in [Files -> Nat]
  /\ next \in Nat
  /\ walker \in {"entry", "empty", "fill", "start", "chunk", "take", "read", "end", "done", "stopped"}
  /\ holds \in Content

ChannelTypes == queue \in Seq(Items) /\ Len(queue) <= Queue /\ free \in Nat

TaskTypes ==
  /\ task \in {"recv", "whole", "start", "stream", "chunk", "close", "finish", "done", "failed"}
  /\ hand \in Content

\* When each side has a buffer in hand; between its items the walk is at a file.
Hands ==
  /\ walker \in {"entry", "empty", "take", "end", "done", "stopped"} => holds = Nothing
  /\ walker \in {"fill", "read", "chunk"} => holds # Nothing
  /\ walker \in {"empty", "fill", "start", "chunk", "take", "read", "end"} => Name \in Files
  /\ task \notin {"whole", "chunk"} => hand = Nothing
  /\ task = "chunk" => hand # Nothing

\* The items of an entry are together: what may stand behind another item, what the task finds
\* first, and what the walk has sent last.
Opening == {"dir", "whole", "start"}
Inside == {"chunk", "end"}
Behind(kind) == IF kind \in {"start", "chunk"} THEN Inside ELSE Opening
Taking == IF task \in {"start", "stream", "chunk"} THEN Inside ELSE Opening
Giving == IF walker \in {"chunk", "take", "read", "end"} THEN Inside ELSE Opening

Grammar ==
  /\ \A i \in 1..Len(queue) - 1 : queue[i + 1].kind \in Behind(queue[i].kind)
  /\ queue # <<>> => queue[1].kind \in Taking
  /\ ~TaskEnded =>
       IF queue # <<>> THEN Giving = Behind(queue[Len(queue)].kind)
       ELSE Giving = Taking \/ WalkerEnded
  /\ TaskEnded => queue = <<>>
  /\ task = "finish" => queue = <<>> /\ WalkerEnded

Types == WalkerTypes /\ ChannelTypes /\ TaskTypes

Inv == Types /\ Hands /\ Grammar /\ MemoryBound

-----------------------------------------------------------------------------
(* Counting the buffers in a queue. *)

Holding(s) == {i \in 1..Len(s) : s[i].data # Nothing}

LEMMA HoldingBound ==
  ASSUME NEW s \in Seq(Items)
  PROVE  IsFiniteSet(Holding(s)) /\ Cardinality(Holding(s)) \in Nat /\ Cardinality(Holding(s)) <= Len(s)
<1>1. IsFiniteSet(1..Len(s)) /\ Cardinality(1..Len(s)) = Len(s)
  <2>1. Len(s) \in Nat
    OBVIOUS
  <2>2. /\ IsFiniteSet(1..Len(s))
        /\ Cardinality(1..Len(s)) = IF 1 > Len(s) THEN 0 ELSE Len(s) - 1 + 1
    BY <2>1, 1 \in Int, Len(s) \in Int, FS_Interval
  <2> QED
    BY <2>1, <2>2
<1>2. Holding(s) \subseteq 1..Len(s)
  BY DEF Holding
<1> QED
  BY <1>1, <1>2, FS_Subset, FS_CardinalityType

LEMMA HoldingAppend ==
  ASSUME NEW s \in Seq(Items), NEW x \in Items
  PROVE  Cardinality(Holding(Append(s, x))) = Cardinality(Holding(s)) + InHand(x.data)
<1>1. /\ Len(s) \in Nat /\ Len(Append(s, x)) = Len(s) + 1
      /\ Append(s, x)[Len(s) + 1] = x
      /\ \A i \in 1..Len(s) : Append(s, x)[i] = s[i]
  OBVIOUS
<1>2. CASE x.data = Nothing
  <2>1. Holding(Append(s, x)) = Holding(s)
    BY <1>1, <1>2 DEF Holding
  <2> QED
    BY <2>1, <1>2, HoldingBound DEF InHand
<1>3. CASE x.data # Nothing
  <2>1. Holding(Append(s, x)) = Holding(s) \cup {Len(s) + 1}
    BY <1>1, <1>3 DEF Holding
  <2>2. Len(s) + 1 \notin Holding(s)
    BY <1>1 DEF Holding
  <2> QED
    BY <2>1, <2>2, <1>3, HoldingBound, FS_AddElement DEF InHand
<1> QED
  BY <1>2, <1>3

LEMMA HoldingTail ==
  ASSUME NEW s \in Seq(Items), s # <<>>
  PROVE  Cardinality(Holding(Tail(s))) = Cardinality(Holding(s)) - InHand(Head(s).data)
<1>1. /\ Len(s) \in Nat /\ Len(s) > 0 /\ Len(Tail(s)) = Len(s) - 1 /\ Head(s) = s[1]
      /\ \A i \in 1..Len(s) - 1 : Tail(s)[i] = s[i + 1]
  OBVIOUS
<1> DEFINE rest == Holding(s) \ {1}
           shift == [i \in Holding(Tail(s)) |-> i + 1]
<1>2. shift \in [Holding(Tail(s)) -> rest]
  BY <1>1 DEF Holding
<1>3. \A i, j \in Holding(Tail(s)) : shift[i] = shift[j] => i = j
  BY <1>1 DEF Holding
<1>4. \A k \in rest : \E i \in Holding(Tail(s)) : shift[i] = k
  <2> SUFFICES ASSUME NEW k \in rest PROVE \E i \in Holding(Tail(s)) : shift[i] = k
    OBVIOUS
  <2>1. k \in 2..Len(s) /\ s[k].data # Nothing
    BY <1>1 DEF Holding
  <2>2. k - 1 \in Holding(Tail(s))
    BY <1>1, <2>1 DEF Holding
  <2>3. shift[k - 1] = k
    BY <2>1, <2>2
  <2> QED
    BY <2>2, <2>3
<1>5. IsFiniteSet(Holding(s)) /\ IsFiniteSet(Holding(Tail(s))) /\ Cardinality(Holding(s)) \in Nat
  <2>1. Tail(s) \in Seq(Items)
    OBVIOUS
  <2> QED
    BY <2>1, HoldingBound
<1>6. Cardinality(rest) = Cardinality(Holding(Tail(s)))
  <2>1. shift \in Bijection(Holding(Tail(s)), rest)
    BY <1>2, <1>3, <1>4 DEF Bijection, Injection, Surjection, IsInjective
  <2>2. ExistsBijection(Holding(Tail(s)), rest)
    BY <2>1 DEF ExistsBijection
  <2> QED
    BY <2>2, <1>5, FS_Bijection
<1>7. CASE Head(s).data = Nothing
  <2>1. rest = Holding(s)
    BY <1>1, <1>7 DEF Holding
  <2> HIDE DEF rest
  <2> QED
    BY <2>1, <1>5, <1>6, <1>7 DEF InHand
<1>8. CASE Head(s).data # Nothing
  <2>1. 1 \in Holding(s)
    BY <1>1, <1>8 DEF Holding
  <2>2. Cardinality(rest) = Cardinality(Holding(s)) - 1
    BY <2>1, <1>5, FS_RemoveElement
  <2> HIDE DEF rest
  <2> QED
    BY <2>2, <1>5, <1>6, <1>8 DEF InHand
<1> QED
  BY <1>7, <1>8

\* What a side holds counts as one buffer, or none.
LEMMA InHandIsSmall ==
  ASSUME NEW content PROVE InHand(content) \in 0..1
BY DEF InHand

LEMMA CountIsNat ==
  ASSUME Types
  PROVE  /\ Cardinality(Holding(queue)) \in Nat /\ Cardinality(Holding(queue)) <= Queue
         /\ Queue \in Nat
         /\ Buffers = Cardinality(Holding(queue)) + free + InHand(holds) + InHand(hand)
BY HoldingBound, SizesAssumption DEF Types, ChannelTypes, Buffers, BufferItems, Holding

LEMMA CountIsNatNext ==
  ASSUME Types'
  PROVE  /\ Cardinality(Holding(queue')) \in Nat /\ Cardinality(Holding(queue')) <= Queue
         /\ Queue \in Nat
         /\ Buffers' = Cardinality(Holding(queue')) + free' + InHand(holds') + InHand(hand')
BY HoldingBound, SizesAssumption DEF Types, ChannelTypes, Buffers, BufferItems, Holding

-----------------------------------------------------------------------------
(* The walking thread. *)

GivingAt(step) == IF step \in {"chunk", "take", "read", "end"} THEN Inside ELSE Opening

\* An item of the right kind, sent, and the walk at the step that this kind asks for.
LEMMA SendStep ==
  ASSUME Inv, NEW item \in Items, NEW then \in {"entry", "take", "chunk", "end"},
         ~WalkerEnded,
         item.data \in {Nothing, holds},
         item.kind \in Giving, GivingAt(then) = Behind(item.kind),
         then = "chunk" <=> item.data # holds,
         then # "entry" => Name \in Files,
         Send(item, then)
  PROVE  Inv'
<1> USE DEF Inv, Types
<1>1. CASE TaskEnded
  <2>1. /\ walker' = "stopped" /\ holds' = Nothing /\ free' = 0
        /\ UNCHANGED <<queue, next, size, taskVars, connected, read>>
    BY <1>1 DEF Send
  <2>2. Types'
    BY <2>1 DEF WalkerTypes, ChannelTypes, TaskTypes, Content, taskVars
  <2>3. Hands'
    BY <2>1 DEF Hands, taskVars, Name
  <2>4. Grammar'
    BY <2>1, <1>1 DEF Grammar, taskVars, TaskEnded, WalkerEnded, Taking, Giving
  <2>5. MemoryBound'
    BY <2>1, <2>2, CountIsNat, CountIsNatNext, InHandIsSmall DEF MemoryBound, taskVars, ChannelTypes, InHand
  <2> QED
    BY <2>2, <2>3, <2>4, <2>5
<1>2. CASE ~TaskEnded
  <2>1. /\ Len(queue) < Queue /\ queue' = Append(queue, item)
        /\ walker' = then
        /\ next' = IF then = "entry" THEN next + 1 ELSE next
        /\ holds' = IF item.data # Nothing THEN Nothing ELSE holds
        /\ UNCHANGED <<free, size, taskVars, connected, read>>
    BY <1>2 DEF Send
  <2>2. Types'
    BY <2>1, SizesAssumption DEF WalkerTypes, ChannelTypes, TaskTypes, Content, taskVars
  <2>3. Hands'
    BY <2>1 DEF Hands, taskVars, Name
  <2>4. Grammar'
    <3>1. /\ queue \in Seq(Items) /\ queue' \in Seq(Items)
          /\ Len(queue) \in Nat /\ Len(queue') = Len(queue) + 1
          /\ queue'[Len(queue) + 1] = item
          /\ \A i \in 1..Len(queue) : queue'[i] = queue[i]
          /\ queue # <<>> <=> Len(queue) > 0
      BY <2>1 DEF ChannelTypes
    <3>2. ~TaskEnded' /\ task # "finish" /\ UNCHANGED task /\ Taking' = Taking
      BY <1>2, <2>1 DEF taskVars, TaskEnded, Taking, Grammar
    <3>3. Giving' = Behind(item.kind)
      BY <2>1 DEF Giving, GivingAt
    <3>4. ASSUME NEW i \in 1..Len(queue') - 1
          PROVE  queue'[i + 1].kind \in Behind(queue'[i].kind)
      <4>1. CASE i < Len(queue)
        BY <4>1, <3>1 DEF Grammar
      <4>2. CASE i = Len(queue)
        BY <4>2, <3>1, <1>2 DEF Grammar
      <4> QED
        BY <4>1, <4>2, <3>1
    <3>5. queue'[1].kind \in Taking'
      <4>1. CASE Len(queue) > 0
        BY <4>1, <3>1, <3>2 DEF Grammar
      <4>2. CASE Len(queue) = 0
        BY <4>2, <3>1, <3>2, <1>2 DEF Grammar
      <4> QED
        BY <4>1, <4>2, <3>1
    <3> QED
      BY <3>1, <3>2, <3>3, <3>4, <3>5 DEF Grammar
  <2>5. MemoryBound'
    <3>1. Cardinality(Holding(queue')) = Cardinality(Holding(queue)) + InHand(item.data)
      BY <2>1, HoldingAppend DEF ChannelTypes
    <3>2. InHand(holds') + InHand(item.data) = InHand(holds)
      BY <2>1 DEF InHand
    <3>3. /\ InHand(holds) \in 0..1 /\ InHand(holds') \in 0..1 /\ InHand(item.data) \in 0..1
          /\ InHand(hand') = InHand(hand) /\ InHand(hand) \in 0..1
          /\ free' = free /\ free \in Nat
      BY <2>1, InHandIsSmall DEF taskVars, ChannelTypes
    <3>4. Buffers' = Buffers
      BY <3>1, <3>2, <3>3, <2>2, CountIsNat, CountIsNatNext
    <3> QED
      BY <3>4 DEF MemoryBound
  <2> QED
    BY <2>2, <2>3, <2>4, <2>5
<1> QED
  BY <1>1, <1>2

LEMMA SendDirStep == ASSUME Inv, SendDir PROVE Inv'
<1>1. /\ walker = "entry" /\ ~WalkerEnded /\ holds = Nothing
      /\ Send(Item("dir", Nothing), "entry")
  BY DEF SendDir, WalkerEnded, Inv, Hands
<1>2. /\ Item("dir", Nothing) \in Items
      /\ Item("dir", Nothing).kind = "dir" /\ Item("dir", Nothing).data = Nothing
  BY DEF Item, Items, Kinds, Content, Name, Inv, Types, WalkerTypes
<1>3. "dir" \in Giving /\ GivingAt("entry") = Behind("dir")
  BY <1>1 DEF Giving, GivingAt, Behind, Opening
<1> QED
  BY <1>1, <1>2, <1>3, SendStep

LEMMA SendEmptyStep == ASSUME Inv, SendEmpty PROVE Inv'
<1>1. /\ walker = "empty" /\ ~WalkerEnded /\ holds = Nothing /\ Name \in Files
      /\ Send(Item("start", Nothing), "end")
  BY DEF SendEmpty, WalkerEnded, Inv, Hands
<1>2. /\ Item("start", Nothing) \in Items
      /\ Item("start", Nothing).kind = "start" /\ Item("start", Nothing).data = Nothing
  BY DEF Item, Items, Kinds, Content, Name, Inv, Types, WalkerTypes
<1>3. "start" \in Giving /\ GivingAt("end") = Behind("start")
  BY <1>1 DEF Giving, GivingAt, Behind, Opening
<1> QED
  BY <1>1, <1>2, <1>3, SendStep

LEMMA SendWholeStep == ASSUME Inv, SendWhole PROVE Inv'
<1>1. /\ walker = "fill" /\ ~WalkerEnded /\ Name \in Files
      /\ Send(Item("whole", holds), "entry")
  BY DEF SendWhole, WalkerEnded, Inv, Hands
<1>2. /\ Item("whole", holds) \in Items
      /\ Item("whole", holds).kind = "whole" /\ Item("whole", holds).data = holds
  BY DEF Item, Items, Kinds, Content, Name, Inv, Types, WalkerTypes
<1>3. "whole" \in Giving /\ GivingAt("entry") = Behind("whole")
  BY <1>1 DEF Giving, GivingAt, Behind, Opening
<1> QED
  BY <1>1, <1>2, <1>3, SendStep

LEMMA SendStartStep == ASSUME Inv, SendStart PROVE Inv'
<1> DEFINE then == IF holds = Nothing THEN "take" ELSE "chunk"
<1>1. /\ walker = "start" /\ ~WalkerEnded /\ Name \in Files
      /\ Send(Item("start", Nothing), then)
  BY DEF SendStart, WalkerEnded, Inv, Hands
<1>2. /\ Item("start", Nothing) \in Items
      /\ Item("start", Nothing).kind = "start" /\ Item("start", Nothing).data = Nothing
  BY DEF Item, Items, Kinds, Content, Name, Inv, Types, WalkerTypes
<1>3. "start" \in Giving /\ GivingAt(then) = Behind("start")
  BY <1>1 DEF Giving, GivingAt, Behind, Opening
<1>4. then \in {"take", "chunk"} /\ (then = "chunk" <=> Nothing # holds)
  OBVIOUS
<1> HIDE DEF then
<1> QED
  BY <1>1, <1>2, <1>3, <1>4, SendStep

LEMMA SendChunkStep == ASSUME Inv, SendChunk PROVE Inv'
<1>1. /\ walker = "chunk" /\ ~WalkerEnded /\ holds # Nothing /\ Name \in Files
      /\ Send(Item("chunk", holds), "take")
  BY DEF SendChunk, WalkerEnded, Inv, Hands
<1>2. /\ Item("chunk", holds) \in Items
      /\ Item("chunk", holds).kind = "chunk" /\ Item("chunk", holds).data = holds
  BY <1>1 DEF Item, Items, Kinds, Content, Name, Inv, Types, WalkerTypes
<1>3. "chunk" \in Giving /\ GivingAt("take") = Behind("chunk")
  BY <1>1 DEF Giving, GivingAt, Behind, Inside
<1> QED
  BY <1>1, <1>2, <1>3, SendStep

LEMMA SendEndStep == ASSUME Inv, SendEnd PROVE Inv'
<1>1. /\ walker = "end" /\ ~WalkerEnded /\ holds = Nothing
      /\ Send(Item("end", Nothing), "entry")
  BY DEF SendEnd, WalkerEnded, Inv, Hands
<1>2. /\ Item("end", Nothing) \in Items
      /\ Item("end", Nothing).kind = "end" /\ Item("end", Nothing).data = Nothing
  BY DEF Item, Items, Kinds, Content, Name, Inv, Types, WalkerTypes
<1>3. "end" \in Giving /\ GivingAt("entry") = Behind("end")
  BY <1>1 DEF Giving, GivingAt, Behind, Inside, Opening
<1> QED
  BY <1>1, <1>2, <1>3, SendStep

\* A step of the walk that sends nothing leaves the items and the task alone.
LEMMA WalkKeepsGrammar ==
  ASSUME Inv, UNCHANGED <<queue, taskVars>>, Giving' = Giving, WalkerEnded => WalkerEnded'
  PROVE  Grammar'
BY DEF Inv, Grammar, taskVars, TaskEnded, Taking

\* A buffer is only allocated when none is free, and the walk has none in its hand.
LEMMA TakeBufferBound ==
  ASSUME Inv, Types', holds = Nothing, TakeBuffer, UNCHANGED <<queue, taskVars>>
  PROVE  MemoryBound'
<1>1. InHand(holds) = 0 /\ InHand(holds') \in 0..1 /\ InHand(hand) \in 0..1
  BY InHandIsSmall DEF InHand
<1> QED
  BY <1>1, CountIsNat, CountIsNatNext DEF Inv, Types, ChannelTypes, TakeBuffer, MemoryBound, taskVars

LEMMA TakenIsEmpty ==
  ASSUME Types, TakeBuffer
  PROVE  holds' \in Seq(Nat) /\ holds' # Nothing /\ free' \in Nat
<1>1. <<>> \in Seq(Nat)
  OBVIOUS
<1>2. holds' \in Seq(Nat)
  BY <1>1 DEF TakeBuffer
<1>3. holds' # Nothing
  BY <1>2, NothingAssumption
<1>4. free \in Nat /\ free' = IF free > 0 THEN free - 1 ELSE 0
  BY DEF TakeBuffer, Types, ChannelTypes
<1> QED
  BY <1>2, <1>3, <1>4

LEMMA OpenFileStep == ASSUME Inv, OpenFile PROVE Inv'
<1> USE DEF Inv, Types
<1>1. /\ walker = "entry" /\ Name \in Files /\ holds = Nothing
      /\ UNCHANGED <<size, next, read, queue, taskVars, connected>>
      /\ \/ walker' \in {"empty", "start"} /\ UNCHANGED <<holds, free>>
         \/ walker' = "fill" /\ TakeBuffer
  BY DEF OpenFile, Hands
<1>2. Types'
  BY <1>1, TakenIsEmpty DEF WalkerTypes, ChannelTypes, TaskTypes, Content, taskVars
<1>3. Hands'
  BY <1>1, TakenIsEmpty DEF Hands, taskVars, Name
<1>4. Grammar'
  BY <1>1, WalkKeepsGrammar DEF Giving, WalkerEnded
<1>5. MemoryBound'
  <2>1. CASE walker' = "fill" /\ TakeBuffer
    BY <2>1, <1>1, <1>2, TakeBufferBound
  <2>2. CASE UNCHANGED <<holds, free>>
    BY <2>2, <1>1, <1>2, CountIsNat, CountIsNatNext DEF MemoryBound, taskVars
  <2> QED
    BY <2>1, <2>2, <1>1
<1> QED
  BY <1>2, <1>3, <1>4, <1>5

LEMMA NextChunkStep == ASSUME Inv, NextChunk PROVE Inv'
<1> USE DEF Inv, Types
<1>1. /\ walker = "take" /\ Name \in Files /\ holds = Nothing
      /\ walker' = "read" /\ TakeBuffer
      /\ UNCHANGED <<size, next, read, queue, taskVars, connected>>
  BY DEF NextChunk, Hands
<1>2. Types'
  BY <1>1, TakenIsEmpty DEF WalkerTypes, ChannelTypes, TaskTypes, Content, taskVars
<1>3. Hands'
  BY <1>1, TakenIsEmpty DEF Hands, taskVars, Name
<1>4. Grammar'
  BY <1>1, WalkKeepsGrammar DEF Giving, WalkerEnded
<1>5. MemoryBound'
  BY <1>1, <1>2, TakeBufferBound
<1> QED
  BY <1>2, <1>3, <1>4, <1>5

\* A read adds units to the buffer in hand.
LEMMA ReadIntoStep ==
  ASSUME Inv, NEW limit \in Int, holds # Nothing, Name \in Files, ReadInto(limit)
  PROVE  /\ holds' \in Seq(Nat) /\ holds' # Nothing
         /\ read' \in [Files -> Nat]
<1>1. holds \in Seq(Nat) /\ size[Name] \in Nat /\ read \in [Files -> Nat] /\ read[Name] \in Nat
  BY DEF Inv, Types, WalkerTypes, Content
<1>2. PICK n \in 1..SmallerOf(limit, size[Name] - read[Name]) :
        /\ holds' = holds \o Units(read[Name], n)
        /\ read' = [read EXCEPT ![Name] = @ + n]
  BY DEF ReadInto
<1>3. n \in Nat
  BY <1>1, <1>2 DEF SmallerOf
<1>4. Units(read[Name], n) \in Seq(Nat)
  <2>1. \A i \in 1..n : read[Name] + i - 1 \in Nat
    BY <1>1, <1>3
  <2> QED
    BY <2>1, <1>3 DEF Units
<1>5. holds' \in Seq(Nat)
  BY <1>1, <1>2, <1>4
<1>6. read' \in [Files -> Nat]
  BY <1>1, <1>2, <1>3
<1> QED
  BY <1>5, <1>6, NothingAssumption

LEMMA FillBufferStep == ASSUME Inv, FillBuffer PROVE Inv'
<1> USE DEF Inv, Types
<1>1. /\ walker = "fill" /\ Name \in Files /\ holds # Nothing
      /\ ReadInto(Chunk - Len(holds))
      /\ UNCHANGED <<size, walker, next, queue, free, taskVars, connected>>
  BY DEF FillBuffer, Hands
<1>2. holds' \in Seq(Nat) /\ holds' # Nothing /\ read' \in [Files -> Nat]
  <2>1. Chunk - Len(holds) \in Int
    BY <1>1, SizesAssumption DEF WalkerTypes, Content
  <2> QED
    BY <2>1, <1>1, ReadIntoStep
<1>3. Types'
  BY <1>1, <1>2 DEF WalkerTypes, ChannelTypes, TaskTypes, Content, taskVars
<1>4. Hands'
  BY <1>1, <1>2 DEF Hands, taskVars, Name
<1>5. Grammar'
  BY <1>1, WalkKeepsGrammar DEF Giving, WalkerEnded
<1>6. MemoryBound'
  BY <1>1, <1>2, <1>3, CountIsNat, CountIsNatNext DEF MemoryBound, taskVars, InHand
<1> QED
  BY <1>3, <1>4, <1>5, <1>6

LEMMA ReadChunkStep == ASSUME Inv, ReadChunk PROVE Inv'
<1> USE DEF Inv, Types
<1>1. /\ walker = "read" /\ Name \in Files /\ holds # Nothing
      /\ walker' = "chunk" /\ ReadInto(Chunk)
      /\ UNCHANGED <<size, next, queue, free, taskVars, connected>>
  BY DEF ReadChunk, Hands
<1>2. holds' \in Seq(Nat) /\ holds' # Nothing /\ read' \in [Files -> Nat]
  BY <1>1, ReadIntoStep, SizesAssumption
<1>3. Types'
  BY <1>1, <1>2 DEF WalkerTypes, ChannelTypes, TaskTypes, Content, taskVars
<1>4. Hands'
  BY <1>1, <1>2 DEF Hands, taskVars, Name
<1>5. Grammar'
  BY <1>1, WalkKeepsGrammar DEF Giving, WalkerEnded
<1>6. MemoryBound'
  BY <1>1, <1>2, <1>3, CountIsNat, CountIsNatNext DEF MemoryBound, taskVars, InHand
<1> QED
  BY <1>3, <1>4, <1>5, <1>6

LEMMA FileHasGrownStep == ASSUME Inv, FileHasGrown PROVE Inv'
<1> USE DEF Inv, Types
<1>1. /\ walker = "fill" /\ walker' = "start"
      /\ UNCHANGED <<size, next, read, holds, queue, free, taskVars, connected>>
  BY DEF FileHasGrown
<1>2. Types' /\ Hands'
  BY <1>1 DEF WalkerTypes, ChannelTypes, TaskTypes, taskVars, Hands, Name
<1>3. Grammar'
  BY <1>1, WalkKeepsGrammar DEF Giving, WalkerEnded
<1>4. MemoryBound'
  BY <1>1, <1>2, CountIsNat, CountIsNatNext DEF MemoryBound, taskVars
<1> QED
  BY <1>2, <1>3, <1>4

LEMMA ReadEndsStep == ASSUME Inv, ReadEnds PROVE Inv'
<1> USE DEF Inv, Types
<1>1. /\ walker = "read" /\ walker' = "end" /\ holds' = Nothing
      /\ UNCHANGED <<size, next, read, queue, free, taskVars, connected>>
  BY DEF ReadEnds
<1>2. Types'
  BY <1>1 DEF WalkerTypes, ChannelTypes, TaskTypes, taskVars, Content
<1>3. Hands'
  BY <1>1 DEF taskVars, Hands, Name
<1>4. Grammar'
  BY <1>1, WalkKeepsGrammar DEF Giving, WalkerEnded
<1>5. MemoryBound'
  <2>1. InHand(holds) \in 0..1 /\ InHand(holds') = 0 /\ InHand(hand) \in 0..1
    BY <1>1, InHandIsSmall DEF InHand
  <2> QED
    BY <2>1, <1>1, <1>2, CountIsNat, CountIsNatNext DEF MemoryBound, taskVars, ChannelTypes
<1> QED
  BY <1>2, <1>3, <1>4, <1>5

LEMMA WalkDoneStep == ASSUME Inv, WalkDone PROVE Inv'
<1> USE DEF Inv, Types
<1>1. /\ walker = "entry" /\ walker' = "done" /\ free' = 0
      /\ UNCHANGED <<size, next, read, holds, queue, taskVars, connected>>
  BY DEF WalkDone
<1>2. Types'
  BY <1>1 DEF WalkerTypes, ChannelTypes, TaskTypes, taskVars
<1>3. Hands'
  BY <1>1 DEF taskVars, Hands, Name
<1>4. Grammar'
  BY <1>1, WalkKeepsGrammar DEF Giving, WalkerEnded
<1>5. MemoryBound'
  BY <1>1, <1>2, CountIsNat, CountIsNatNext, InHandIsSmall DEF MemoryBound, taskVars, ChannelTypes
<1> QED
  BY <1>2, <1>3, <1>4, <1>5

-----------------------------------------------------------------------------
(* The writing task. *)

\* The task's steps leave the walk alone.
LEMMA TaskKeepsWalker ==
  ASSUME Inv, UNCHANGED <<size, walkerVars>>
  PROVE  /\ WalkerTypes' /\ Giving' = Giving /\ WalkerEnded' = WalkerEnded
         /\ walker' \in {"empty", "fill", "start", "chunk", "take", "read", "end"} => (Name \in Files)'
         /\ walker' \in {"entry", "empty", "take", "end", "done", "stopped"} => holds' = Nothing
         /\ walker' \in {"fill", "read", "chunk"} => holds' # Nothing
BY DEF Inv, Types, WalkerTypes, walkerVars, Giving, WalkerEnded, Hands, Name

\* A failed write: the task's ends of both channels are dropped.
LEMMA WriteFailsStep ==
  ASSUME Inv, WriteFails, UNCHANGED <<size, walkerVars>>
  PROVE  Inv'
<1> USE DEF Inv, Types
<1>1. task' = "failed" /\ hand' = Nothing /\ queue' = <<>> /\ UNCHANGED free
  BY DEF WriteFails
<1>2. Types'
  BY <1>1, TaskKeepsWalker, SizesAssumption DEF ChannelTypes, TaskTypes, Content
<1>3. Hands'
  BY <1>1, TaskKeepsWalker DEF Hands
<1>4. Grammar'
  BY <1>1 DEF Grammar, TaskEnded
<1>5. MemoryBound'
  <2>1. Holding(queue') = {}
    BY <1>1 DEF Holding
  <2>2. Cardinality(Holding(queue')) = 0
    BY <2>1, FS_EmptySet
  <2>3. InHand(hand') = 0 /\ InHand(hand) \in 0..1 /\ InHand(holds) \in 0..1
    BY <1>1, InHandIsSmall DEF InHand
  <2> QED
    BY <2>2, <2>3, <1>1, <1>2, CountIsNat, CountIsNatNext DEF MemoryBound, ChannelTypes, walkerVars
<1> QED
  BY <1>2, <1>3, <1>4, <1>5

\* A step of the task that takes no item and changes neither what it may find nor the buffers.
LEMMA TaskKeepsQueue ==
  ASSUME Inv, UNCHANGED <<size, walkerVars, queue, hand, free>>,
         task' \in {"recv", "stream", "finish", "done", "failed", "close"}, hand = Nothing,
         task \notin {"done", "failed"},
         task' \in {"done", "failed", "finish"} => queue = <<>> /\ WalkerEnded,
         Taking' = Taking \/ (queue = <<>> /\ WalkerEnded)
  PROVE  Inv'
<1> USE DEF Inv, Types
<1>1. Types'
  BY TaskKeepsWalker DEF ChannelTypes, TaskTypes
<1>2. Hands'
  BY TaskKeepsWalker DEF Hands
<1>3. Grammar'
  BY TaskKeepsWalker DEF Grammar, TaskEnded
<1>4. MemoryBound'
  BY <1>1, CountIsNat, CountIsNatNext DEF MemoryBound, walkerVars
<1> QED
  BY <1>1, <1>2, <1>3, <1>4

LEMMA StartEntryStep == ASSUME Inv, StartEntry PROVE Inv'
<1>1. CASE WriteFails
  BY <1>1, WriteFailsStep DEF StartEntry
<1>2. CASE task' = "stream" /\ UNCHANGED <<entry, hand, archive, queue, free>>
  <2>1. task = "start" /\ hand = Nothing /\ task' \notin {"done", "failed", "finish"} /\ Taking' = Taking
    BY <1>2 DEF StartEntry, Inv, Hands, Taking
  <2>2. UNCHANGED <<size, walkerVars, queue, hand, free>> /\ hand = Nothing
    BY <2>1, <1>2 DEF StartEntry
  <2>3. task' \in {"recv", "stream", "finish", "done", "failed", "close"}
    BY <1>2
  <2> QED
    BY <2>1, <2>2, <2>3, TaskKeepsQueue
<1> QED
  BY <1>1, <1>2 DEF StartEntry

LEMMA CloseEntryStep == ASSUME Inv, CloseEntry PROVE Inv'
<1>1. CASE WriteFails
  BY <1>1, WriteFailsStep DEF CloseEntry
<1>2. CASE task' = "recv" /\ UNCHANGED <<entry, hand, queue, free>>
  <2>1. task = "close" /\ hand = Nothing /\ task' \notin {"done", "failed", "finish"} /\ Taking' = Taking
    BY <1>2 DEF CloseEntry, Inv, Hands, Taking
  <2>2. UNCHANGED <<size, walkerVars, queue, hand, free>> /\ hand = Nothing
    BY <2>1, <1>2 DEF CloseEntry
  <2>3. task' \in {"recv", "stream", "finish", "done", "failed", "close"}
    BY <1>2
  <2> QED
    BY <2>1, <2>2, <2>3, TaskKeepsQueue
<1> QED
  BY <1>1, <1>2 DEF CloseEntry

LEMMA QueueClosedStep == ASSUME Inv, QueueClosed PROVE Inv'
BY TaskKeepsQueue DEF QueueClosed, Inv, Hands, TaskEnded

LEMMA FinishStep == ASSUME Inv, Finish PROVE Inv'
BY TaskKeepsQueue DEF Finish, Inv, Hands, Grammar, TaskEnded

\* The buffer in hand is emptied and goes to the free channel, or is freed.
LEMMA ReturnBufferStep ==
  ASSUME Inv, task \in {"whole", "chunk"}, hand # Nothing, ReturnBuffer,
         UNCHANGED <<size, walkerVars, queue>>,
         task' = IF task = "whole" THEN "recv" ELSE "stream"
  PROVE  Inv'
<1> USE DEF Inv, Types
<1>1. free \in Nat /\ free' \in {free, free + 1} /\ hand' = Nothing
  BY DEF ReturnBuffer, ChannelTypes
<1>2. Types'
  BY <1>1, TaskKeepsWalker DEF ChannelTypes, TaskTypes, Content
<1>3. Hands'
  BY <1>1, TaskKeepsWalker DEF Hands
<1>4. Grammar'
  BY TaskKeepsWalker DEF Grammar, TaskEnded, Taking
<1>5. MemoryBound'
  <2>1. InHand(hand') = 0 /\ InHand(hand) = 1 /\ InHand(holds) \in 0..1
    BY <1>1, InHandIsSmall DEF InHand
  <2> QED
    BY <2>1, <1>1, <1>2, CountIsNat, CountIsNatNext DEF MemoryBound, walkerVars
<1> QED
  BY <1>2, <1>3, <1>4, <1>5

LEMMA WriteWholeStep == ASSUME Inv, WriteWhole PROVE Inv'
<1>1. CASE WriteFails
  BY <1>1, WriteFailsStep DEF WriteWhole
<1>2. CASE task' = "recv" /\ hand = Nothing /\ UNCHANGED <<hand, free, queue>>
  <2>1. task = "whole" /\ task' \notin {"done", "failed", "finish"} /\ Taking' = Taking
    BY <1>2 DEF WriteWhole, Taking
  <2>2. UNCHANGED <<size, walkerVars, queue, hand, free>> /\ hand = Nothing
    BY <2>1, <1>2 DEF WriteWhole
  <2>3. task' \in {"recv", "stream", "finish", "done", "failed", "close"}
    BY <1>2
  <2> QED
    BY <2>1, <2>2, <2>3, TaskKeepsQueue
<1>3. CASE task' = "recv" /\ hand # Nothing /\ ReturnBuffer /\ UNCHANGED queue
  BY <1>3, ReturnBufferStep DEF WriteWhole
<1> QED
  BY <1>1, <1>2, <1>3 DEF WriteWhole

LEMMA WriteChunkStep == ASSUME Inv, WriteChunk PROVE Inv'
<1>1. CASE WriteFails
  BY <1>1, WriteFailsStep DEF WriteChunk
<1>2. CASE task' = "stream" /\ ReturnBuffer /\ UNCHANGED queue
  BY <1>2, ReturnBufferStep DEF WriteChunk, Inv, Hands
<1> QED
  BY <1>1, <1>2 DEF WriteChunk

\* The task takes the item in front: what stands behind it is what it may find next.
LEMMA TakeItemStep ==
  ASSUME Inv, queue # <<>>, queue' = Tail(queue), hand = Nothing, ~TaskEnded, ~TaskEnded',
         UNCHANGED <<size, walkerVars, free>>,
         task' \in {"recv", "whole", "start", "chunk", "close"},
         hand' \in {Nothing, Head(queue).data},
         task' \notin {"whole", "chunk"} => hand' = Nothing,
         task' = "chunk" => hand' # Nothing,
         Taking' = Behind(Head(queue).kind)
  PROVE  Inv'
<1> USE DEF Inv, Types
<1>1. /\ queue \in Seq(Items) /\ queue' \in Seq(Items)
      /\ Len(queue) \in Nat /\ Len(queue) > 0 /\ Len(queue') = Len(queue) - 1
      /\ Head(queue) = queue[1] /\ Head(queue) \in Items
      /\ \A i \in 1..Len(queue) - 1 : queue'[i] = queue[i + 1]
  BY DEF ChannelTypes
<1>2. Head(queue).data \in Content
  BY <1>1 DEF Items
<1>3. Types'
  BY <1>1, <1>2, TaskKeepsWalker, SizesAssumption DEF ChannelTypes, TaskTypes, Content
<1>4. Hands'
  BY TaskKeepsWalker DEF Hands
<1>5. Grammar'
  <2>1. ASSUME NEW i \in 1..Len(queue') - 1
        PROVE  queue'[i + 1].kind \in Behind(queue'[i].kind)
    <3>1. i \in 1..Len(queue) - 1 /\ i + 1 \in 1..Len(queue) - 1
      BY <1>1
    <3> QED
      BY <3>1, <1>1 DEF Grammar
  <2>2. ASSUME queue' # <<>>
        PROVE  queue'[1].kind \in Taking'
    <3>1. 1 \in 1..Len(queue) - 1 /\ queue'[1] = queue[2]
      BY <2>2, <1>1
    <3> QED
      BY <3>1, <1>1 DEF Grammar
  <2>3. IF queue' # <<>> THEN Giving' = Behind(queue'[Len(queue')].kind)
        ELSE Giving' = Taking' \/ WalkerEnded'
    <3>1. CASE Len(queue) > 1
      <4>1. Len(queue') > 0 /\ queue'[Len(queue')] = queue[Len(queue)]
        BY <3>1, <1>1
      <4>2. queue' # <<>>
        BY <4>1
      <4>3. Giving = Behind(queue[Len(queue)].kind)
        BY DEF Grammar
      <4> QED
        BY <4>1, <4>2, <4>3, TaskKeepsWalker
    <3>2. CASE Len(queue) = 1
      <4>1. queue' = <<>>
        BY <3>2, <1>1
      <4> QED
        BY <4>1, <3>2, <1>1, TaskKeepsWalker DEF Grammar
    <3> QED
      BY <3>1, <3>2, <1>1
  <2> QED
    BY <2>1, <2>2, <2>3 DEF Grammar
<1>6. MemoryBound'
  <2>1. Cardinality(Holding(queue')) = Cardinality(Holding(queue)) - InHand(Head(queue).data)
    BY <1>1, HoldingTail
  <2>2. InHand(hand) = 0 /\ InHand(hand') <= InHand(Head(queue).data)
        /\ InHand(hand') \in 0..1 /\ InHand(Head(queue).data) \in 0..1 /\ InHand(holds) \in 0..1
    BY InHandIsSmall DEF InHand
  <2>3. free' = free /\ free \in Nat /\ InHand(holds') = InHand(holds)
    BY DEF walkerVars, ChannelTypes
  <2>4. /\ Buffers' <= Buffers /\ Buffers \in Nat /\ Buffers' \in Nat /\ Queue \in Nat
    BY <2>1, <2>2, <2>3, <1>3, CountIsNat, CountIsNatNext, SMTT(60)
  <2> QED
    BY <2>4 DEF MemoryBound
<1> QED
  BY <1>3, <1>4, <1>5, <1>6

LEMMA ReceiveStep == ASSUME Inv, Receive PROVE Inv'
<1>1. /\ task = "recv" /\ queue # <<>> /\ hand = Nothing /\ queue' = Tail(queue)
      /\ UNCHANGED <<size, walkerVars, free>>
  BY DEF Receive, Inv, Hands
<1>2. Head(queue).kind \in Opening
  BY <1>1 DEF Inv, Types, ChannelTypes, Grammar, Taking
<1>3. /\ task' = IF Head(queue).kind = "start" THEN "start" ELSE "whole"
      /\ hand' = IF Head(queue).kind = "whole" THEN Head(queue).data ELSE Nothing
  BY <1>2 DEF Receive, Opening
<1>4. Taking' = Behind(Head(queue).kind) /\ ~TaskEnded /\ ~TaskEnded'
  BY <1>1, <1>2, <1>3 DEF Taking, Behind, Opening, TaskEnded
<1> QED
  BY <1>1, <1>2, <1>3, <1>4, TakeItemStep DEF Opening

LEMMA ReceiveChunkStep == ASSUME Inv, ReceiveChunk PROVE Inv'
<1>1. /\ task = "stream" /\ queue # <<>> /\ hand = Nothing /\ queue' = Tail(queue)
      /\ UNCHANGED <<size, walkerVars, free>>
  BY DEF ReceiveChunk, Inv, Hands
<1>2. Head(queue).kind \in Inside /\ (Head(queue).kind = "chunk" => Head(queue).data # Nothing)
  BY <1>1 DEF Inv, Types, ChannelTypes, Grammar, Taking, Items
<1>3. IF Head(queue).kind = "chunk" THEN task' = "chunk" /\ hand' = Head(queue).data
      ELSE task' = "close" /\ hand' = Nothing
  BY <1>1 DEF ReceiveChunk
<1>4. Taking' = Behind(Head(queue).kind) /\ ~TaskEnded /\ ~TaskEnded'
  BY <1>1, <1>2, <1>3 DEF Taking, Behind, Inside, TaskEnded
<1> QED
  BY <1>1, <1>2, <1>3, <1>4, TakeItemStep

-----------------------------------------------------------------------------
(* The invariant. *)

LEMMA InitInv == Init => Inv
<1> SUFFICES ASSUME Init PROVE Inv
  OBVIOUS
<1>1. Types
  BY SizesAssumption DEF Init, Types, WalkerTypes, ChannelTypes, TaskTypes, Content
<1>2. Hands
  BY DEF Init, Hands
<1>3. Grammar
  BY DEF Init, Grammar, Giving, Taking, TaskEnded
<1>4. MemoryBound
  <2>1. Holding(queue) = {}
    BY DEF Init, Holding
  <2>2. Cardinality(Holding(queue)) = 0
    BY <2>1, FS_EmptySet
  <2>3. InHand(holds) = 0 /\ InHand(hand) = 0 /\ free = 0
    BY DEF Init, InHand
  <2> QED
    BY <2>2, <2>3, <1>1, CountIsNat DEF MemoryBound
<1> QED
  BY <1>1, <1>2, <1>3, <1>4 DEF Inv

\* The steps that touch neither channel nor buffer.
LEMMA AsideStep ==
  ASSUME Inv, UNCHANGED <<walkerVars, queue, free, task, hand>>, size' \in [Files -> Nat]
  PROVE  Inv'
<1> USE DEF Inv, Types
<1>1. Types'
  BY DEF WalkerTypes, ChannelTypes, TaskTypes, walkerVars
<1>2. Hands' /\ Grammar'
  BY DEF Hands, Grammar, walkerVars, Name, TaskEnded, WalkerEnded, Giving, Taking
<1>3. MemoryBound'
  BY <1>1, CountIsNat, CountIsNatNext DEF MemoryBound, walkerVars
<1> QED
  BY <1>1, <1>2, <1>3

LEMMA NextInv == Inv /\ [Next]_vars => Inv'
<1> SUFFICES ASSUME Inv, [Next]_vars PROVE Inv'
  OBVIOUS
<1>0. size \in [Files -> Nat] /\ MaxSize \in Nat
  BY SizesAssumption DEF Inv, Types, WalkerTypes
<1>1. CASE WalkerStep
  BY <1>1, SendDirStep, OpenFileStep, SendEmptyStep, FillBufferStep, SendWholeStep, FileHasGrownStep,
     SendStartStep, SendChunkStep, NextChunkStep, ReadChunkStep, ReadEndsStep, SendEndStep, WalkDoneStep
  DEF WalkerStep
<1>2. CASE TaskStep
  BY <1>2, ReceiveStep, WriteWholeStep, StartEntryStep, ReceiveChunkStep, WriteChunkStep,
     CloseEntryStep, QueueClosedStep, FinishStep DEF TaskStep
<1>3. CASE Spill
  BY <1>0, <1>3, AsideStep DEF Spill
<1>4. CASE Resize
  <2>1. PICK f \in Files, n \in 0..MaxSize : size' = [size EXCEPT ![f] = n]
    BY <1>4 DEF Resize
  <2>2. size' \in [Files -> Nat]
    BY <1>0, <2>1
  <2> QED
    BY <1>4, <2>2, AsideStep DEF Resize, taskVars
<1>5. CASE Disconnect
  BY <1>0, <1>5, AsideStep DEF Disconnect, taskVars
<1>6. CASE UNCHANGED vars
  BY <1>0, <1>6, AsideStep DEF vars, taskVars
<1> QED
  BY <1>1, <1>2, <1>3, <1>4, <1>5, <1>6 DEF Next

LEMMA Invariance == Spec => []Inv
BY InitInv, NextInv, PTL DEF Spec

\* At most Queue + 2 buffers are alive at any time, for any tree, any sizes of files and of the
\* channels: the bound on the memory of a download that ZIP_QUEUE's comment names.
THEOREM MemoryIsBounded == Spec => []MemoryBound
<1>1. Inv => MemoryBound
  BY DEF Inv
<1> QED
  BY <1>1, Invariance, PTL

\* The task never meets a chunk or an end between two entries, the case zip_archive leaves out
\* "by protocol": what the walk sends of an entry arrives together, however the walk is cut short.
THEOREM ItemsOfAnEntryStayTogether == Spec => []ProtocolKept
<1>1. Inv => ProtocolKept
  BY DEF Inv, Types, ChannelTypes, Grammar, ProtocolKept, Taking, Opening
<1> QED
  BY <1>1, Invariance, PTL

-----------------------------------------------------------------------------
(* What the archive holds.  The units of a file are followed from the read *)
(* through the buffers to the entry: every item fits to the one before it, *)
(* the first one to what the task has, the next one to what has been sent. *)

Names == {Walk[i] : i \in Nat} \cup {"central directory", Nothing}
Records == /\ entry \in [name : Names, content : Seq(Nat)]
           /\ archive \in Seq([name : Names, content : Seq(Nat)])

Place(name) == CHOOSE k \in 1..Len(Walk) : Walk[k] = name

\* The task: the entry it is at, and how many units of it have been taken.
InEntry == task \in {"whole", "start", "stream", "chunk", "close"}
At == IF InEntry THEN Len(archive) + 1 ELSE Len(archive)
Gotten == CASE task \in {"start", "stream"} -> Len(entry.content)
            [] task = "chunk" -> Len(entry.content) + Len(hand)
            [] OTHER -> 0

\* The units of the file up to the end of an item.
Upto(x) == IF x.kind = "chunk" THEN x.data[1] + Len(x.data) ELSE 0

\* The item y comes next, after entry k and u units of it.
Fits(y, k, u) ==
  /\ Place(y.name) = IF y.kind \in Opening THEN k + 1 ELSE k
  /\ y.kind = "chunk" => Len(y.data) > 0 /\ y.data = Units(u, Len(y.data))
  /\ y.kind = "end" => read[y.name] = u

Sound(y) ==
  /\ \E k \in 1..Len(Walk) : y.name = Walk[k]
  /\ y.name \in Files <=> y.kind # "dir"
  /\ y.kind = "whole" => y.data = Units(0, read[y.name])
  /\ y.kind \in {"dir", "whole", "end"} => Place(y.name) < next

Carried ==
  /\ \A i \in 1..Len(queue) : Sound(queue[i])
  /\ \A i \in 1..Len(queue) - 1 : Fits(queue[i + 1], Place(queue[i].name), Upto(queue[i]))
  /\ queue # <<>> => Fits(queue[1], At, Gotten)

\* What the walk has sent last.
LastPlace == IF queue = <<>> THEN At ELSE Place(queue[Len(queue)].name)
LastUpto == IF queue = <<>> THEN Gotten ELSE Upto(queue[Len(queue)])

Ahead ==
  ~TaskEnded =>
    /\ walker # "stopped"
    /\ LastPlace = IF Giving = Inside THEN next ELSE next - 1
    /\ walker = "chunk" => /\ Len(holds) > 0 /\ holds = Units(LastUpto, Len(holds))
                           /\ read[Name] = LastUpto + Len(holds)
    /\ walker \in {"take", "read", "end"} => read[Name] = LastUpto
    /\ walker = "done" /\ queue = <<>> => Taking = Opening

Walked ==
  /\ next \in 1..Len(Walk) + 1
  /\ walker \in {"empty", "fill", "start", "chunk", "take", "read", "end"} => next <= Len(Walk)
  /\ \A k \in next..Len(Walk) :
       Walk[k] \in Files /\ (k # next \/ walker \in {"entry", "empty"}) => read[Walk[k]] = 0
  /\ walker = "fill" => holds = Units(0, read[Name]) /\ read[Name] <= Chunk
  /\ walker = "start" => IF holds = Nothing THEN read[Name] = 0
                         ELSE read[Name] > 0 /\ holds = Units(0, read[Name])
  /\ walker = "read" => holds = <<>>
  /\ walker = "done" => next = Len(Walk) + 1
  /\ task \in {"finish", "done"} => walker = "done"

Writing ==
  /\ InEntry => At <= Len(Walk) /\ entry.name = Walk[At]
  /\ task \in {"start", "stream", "chunk"} =>
       entry.name \in Files /\ entry.content = Units(0, Len(entry.content))
  /\ task = "start" => entry.content = <<>>
  /\ task = "chunk" => hand = Units(Len(entry.content), Len(hand))
  /\ task = "close" => At < next /\ entry.name \in Files /\ entry.content = Units(0, read[entry.name])
  /\ task = "whole" => /\ At < next /\ entry.content = <<>>
                       /\ entry.name \in Files /\ hand # Nothing => hand = Units(0, read[entry.name])
                       /\ entry.name \in Files <=> hand # Nothing
  /\ task = "finish" => Len(archive) = Len(Walk)

Written ==
  /\ task # "done" => Len(archive) < next
  /\ task = "done" => Len(archive) = Len(Walk) + 1 /\ (connected => delivered = Len(archive))
  /\ \A i \in 1..Len(archive) :
       /\ archive[i].name = IF i <= Len(Walk) THEN Walk[i] ELSE "central directory"
       /\ i <= Len(Walk) =>
            archive[i].content = IF Walk[i] \in Files THEN Units(0, read[Walk[i]]) ELSE <<>>

Flow == Records /\ Carried /\ Ahead /\ Walked /\ Writing /\ Written

-----------------------------------------------------------------------------
(* Units, and places in the walk. *)

LEMMA UnitsAre ==
  ASSUME NEW u \in Nat, NEW n \in Nat
  PROVE  /\ Units(u, n) \in Seq(Nat) /\ Len(Units(u, n)) = n
         /\ n > 0 => Units(u, n)[1] = u
BY DEF Units

LEMMA NoUnits == ASSUME NEW u PROVE Units(u, 0) = <<>>
BY DEF Units

LEMMA UnitsJoin ==
  ASSUME NEW u \in Nat, NEW n \in Nat, NEW m \in Nat
  PROVE  Units(u, n) \o Units(u + n, m) = Units(u, n + m)
<1> DEFINE a == Units(u, n)
           b == Units(u + n, m)
           c == Units(u, n + m)
<1>1. a \in Seq(Nat) /\ b \in Seq(Nat) /\ c \in Seq(Nat) /\ Len(a) = n /\ Len(b) = m /\ Len(c) = n + m
  <2>1. u + n \in Nat /\ n + m \in Nat
    OBVIOUS
  <2> QED
    BY <2>1, UnitsAre
<1>2. \A i \in 1..n + m : c[i] = u + i - 1
  BY DEF Units
<1>3. \A i \in 1..n : a[i] = u + i - 1
  BY DEF Units
<1>4. \A i \in 1..m : b[i] = u + n + i - 1
  BY DEF Units
<1> HIDE DEF a, b, c
<1>5. /\ a \o b \in Seq(Nat) /\ Len(a \o b) = n + m
      /\ \A i \in 1..n + m : (a \o b)[i] = IF i <= n THEN a[i] ELSE b[i - n]
  BY <1>1, ConcatProperties
<1>6. ASSUME NEW i \in 1..n + m PROVE (a \o b)[i] = c[i]
  <2>1. CASE i <= n
    BY <2>1, <1>2, <1>3, <1>5
  <2>2. CASE i > n
    <3>1. i - n \in 1..m
      BY <2>2
    <3>2. (a \o b)[i] = b[i - n] /\ c[i] = u + i - 1
      BY <2>2, <1>2, <1>5
    <3>3. b[i - n] = u + n + (i - n) - 1
      BY <3>1, <1>4
    <3> QED
      BY <3>2, <3>3
  <2>3. i <= n \/ i > n
    OBVIOUS
  <2> QED
    BY <2>1, <2>2, <2>3
<1>7. a \o b = c
  BY <1>1, <1>5, <1>6, SeqEqual
<1> QED
  BY <1>7 DEF a, b, c

\* A place is that of its entry, and only of it.
LEMMA PlaceIs ==
  ASSUME NEW k \in 1..Len(Walk)
  PROVE  Place(Walk[k]) = k
BY EntriesAssumption DEF Place

LEMMA OtherPlace ==
  ASSUME NEW k \in 1..Len(Walk), NEW name, Place(name) # k, \E j \in 1..Len(Walk) : name = Walk[j]
  PROVE  name # Walk[k]
BY PlaceIs

LEMMA DirsAreNotFiles ==
  ASSUME NEW k \in 1..Len(Walk), Walk[k] \in Dirs
  PROVE  Walk[k] \notin Files
BY WalkAssumption

LEMMA WalkLength == Len(Walk) \in Nat
BY WalkAssumption

LEMMA Kinds2 == Opening # Inside /\ Opening \cap Inside = {}
BY DEF Opening, Inside

-----------------------------------------------------------------------------
(* The walking thread keeps Flow. *)

\* What the queue and the task hold does not depend on the step of the walk, nor on what it reads
\* now: entries before it are not read again.
LEMMA OnlyItsEntry ==
  ASSUME Inv, Flow, UNCHANGED <<queue, next, entry, archive, hand, task, delivered, connected>>,
         \A k \in 1..Len(Walk) : k < next /\ Walk[k] \in Files => read'[Walk[k]] = read[Walk[k]]
  PROVE  Records' /\ Carried' /\ Writing' /\ Written'
<1> USE DEF Flow
<1>1. Records'
  BY DEF Records
<1>2. At' = At /\ Gotten' = Gotten /\ InEntry' = InEntry
  BY DEF At, Gotten, InEntry
<1>3. /\ queue \in Seq(Items) /\ Len(queue) \in Nat /\ Len(archive) \in Nat
      /\ next \in Nat /\ Len(Walk) \in Nat
  BY WalkAssumption DEF Inv, Types, ChannelTypes, WalkerTypes, Records
<1>4. ASSUME NEW name, \E k \in 1..Len(Walk) : name = Walk[k], Place(name) < next, name \in Files
      PROVE  read'[name] = read[name]
  BY <1>4, PlaceIs
<1>5. ASSUME NEW i \in 1..Len(queue)
      PROVE  Sound(queue[i])'
  BY <1>3, <1>4 DEF Carried, Sound
<1>6. ASSUME NEW i \in 1..Len(queue), queue[i].kind = "end"
      PROVE  read'[queue[i].name] = read[queue[i].name]
  BY <1>3, <1>4, <1>6 DEF Carried, Sound
<1>7. Carried'
  <2>1. ASSUME NEW i \in 1..Len(queue) - 1
        PROVE  Fits(queue[i + 1], Place(queue[i].name), Upto(queue[i]))'
    <3>1. i + 1 \in 1..Len(queue) /\ Fits(queue[i + 1], Place(queue[i].name), Upto(queue[i]))
      BY <1>3 DEF Carried
    <3> QED
      BY <3>1, <1>6 DEF Fits
  <2>2. ASSUME queue # <<>>
        PROVE  Fits(queue[1], At, Gotten)'
    <3>1. 1 \in 1..Len(queue) /\ Fits(queue[1], At, Gotten)
      BY <2>2, <1>3 DEF Carried
    <3> QED
      BY <3>1, <1>2, <1>6 DEF Fits
  <2> QED
    BY <2>1, <2>2, <1>5 DEF Carried
<1>8. At \in Nat /\ (InEntry => At \in 1..Len(Walk) /\ entry.name = Walk[At])
  BY <1>3 DEF At, Writing
<1>9. Writing'
  BY <1>2, <1>8 DEF Writing, InEntry
<1>10. Written'
  <2>1. ASSUME NEW i \in 1..Len(archive), i <= Len(Walk), Walk[i] \in Files
        PROVE  read'[Walk[i]] = read[Walk[i]]
    <3>1. i \in 1..Len(Walk) /\ i < next
      <4>1. task = "done" => next = Len(Walk) + 1
        BY DEF Walked
      <4>2. task # "done" => Len(archive) < next
        BY DEF Written
      <4> QED
        BY <4>1, <4>2, <2>1, <1>3
    <3> QED
      BY <2>1, <3>1
  <2> QED
    BY <2>1 DEF Written
<1> QED
  BY <1>1, <1>7, <1>9, <1>10

LEMMA ChunkIsNotEmpty ==
  ASSUME Inv, Flow, NEW i \in 1..Len(queue), queue[i].kind = "chunk"
  PROVE  Len(queue[i].data) > 0
<1>1. Len(queue) \in Nat /\ i \in Nat
  BY DEF Inv, Types, ChannelTypes
<1>2. CASE i = 1
  BY <1>1, <1>2 DEF Flow, Carried, Fits
<1>3. CASE i > 1
  <2>1. i - 1 \in 1..Len(queue) - 1 /\ (i - 1) + 1 = i
    BY <1>1, <1>3
  <2>2. Fits(queue[(i - 1) + 1], Place(queue[i - 1].name), Upto(queue[i - 1]))
    BY <2>1 DEF Flow, Carried
  <2> QED
    BY <2>1, <2>2 DEF Fits
<1> QED
  BY <1>1, <1>2, <1>3

\* What was sent last ends at a number of units.
LEMMA LastUptoIsNat ==
  ASSUME Inv, Flow
  PROVE  LastUpto \in Nat
<1>1. CASE queue = <<>>
  <2>1. entry.content \in Seq(Nat) /\ (task = "chunk" => hand \in Seq(Nat))
    BY DEF Inv, Flow, Records, Types, TaskTypes, Content, Hands
  <2> QED
    BY <1>1, <2>1 DEF LastUpto, Gotten
<1>2. CASE queue # <<>>
  <2> DEFINE x == queue[Len(queue)]
  <2>1. x \in Items
    BY <1>2 DEF Inv, Types, ChannelTypes
  <2>2. CASE x.kind = "chunk"
    <3>1. x.data \in Seq(Nat)
      BY <2>1, <2>2 DEF Items, Content
    <3>2. Len(x.data) > 0
      <4>1. Len(queue) \in 1..Len(queue)
        BY <1>2 DEF Inv, Types, ChannelTypes
      <4> QED
        BY <4>1, <2>2, ChunkIsNotEmpty
    <3> QED
      BY <1>2, <2>2, <3>1, <3>2 DEF LastUpto, Upto
  <2>3. CASE x.kind # "chunk"
    BY <1>2, <2>3 DEF LastUpto, Upto
  <2> QED
    BY <2>2, <2>3
<1> QED
  BY <1>1, <1>2

\* When the task has ended, a send ends the walk.
LEMMA CutShort ==
  ASSUME Inv, Flow, NEW item, NEW then, TaskEnded, ~WalkerEnded, Send(item, then)
  PROVE  Flow'
<1>1. /\ walker' = "stopped" /\ holds' = Nothing
      /\ UNCHANGED <<queue, next, size, taskVars, connected, read>>
  BY DEF Send
<1>2. Records' /\ Carried' /\ Writing' /\ Written'
  BY <1>1, OnlyItsEntry DEF taskVars
<1>3. Ahead'
  BY <1>1 DEF Ahead, TaskEnded, taskVars
<1>4. Walked'
  <2>1. next \in Nat /\ Len(Walk) \in Nat
    BY WalkAssumption DEF Inv, Types, WalkerTypes
  <2> QED
    BY <1>1, <2>1 DEF Flow, Walked, WalkerEnded, taskVars
<1> QED
  BY <1>2, <1>3, <1>4 DEF Flow

\* An item that fits what was sent last; the other part of the step is the walk's own.
LEMMA SendFlow ==
  ASSUME Inv, Inv', Flow, NEW item \in Items, NEW then \in {"entry", "take", "chunk", "end"},
         ~WalkerEnded, next <= Len(Walk), item.name = Name,
         Send(item, then),
         then = "entry" => item.kind \in {"dir", "whole", "end"},
         then # "entry" => item.kind \in {"start", "chunk"},
         Name \in Files <=> item.kind # "dir",
         item.kind = "whole" => item.data = Units(0, read[Name]),
         ~TaskEnded => Fits(item, LastPlace, LastUpto),
         then = "chunk" => holds # Nothing,
         then \in {"take", "end"} => read[Name] = Upto(item),
         then = "chunk" => item.kind = "start" /\ item.data = Nothing /\ read[Name] > 0 /\ holds = Units(0, read[Name])
  PROVE  Flow'
<1> USE DEF Flow
<1>0. /\ next \in 1..Len(Walk) /\ Len(Walk) \in Nat /\ queue \in Seq(Items) /\ Len(queue) \in Nat
      /\ Len(archive) \in Nat /\ Place(Name) = next /\ read \in [Files -> Nat]
  BY PlaceIs, WalkAssumption DEF Walked, Inv, Types, ChannelTypes, WalkerTypes, Records, Name
<1>1. CASE TaskEnded
  BY <1>1, CutShort
<1>2. CASE ~TaskEnded
  <2>1. /\ queue' = Append(queue, item) /\ walker' = then
        /\ next' = IF then = "entry" THEN next + 1 ELSE next
        /\ holds' = IF item.data # Nothing THEN Nothing ELSE holds
        /\ UNCHANGED <<size, taskVars, connected, read>>
    BY <1>2 DEF Send
  <2>2. /\ Len(queue') = Len(queue) + 1 /\ queue'[Len(queue) + 1] = item /\ queue' # <<>>
        /\ \A i \in 1..Len(queue) : queue'[i] = queue[i]
    BY <2>1, <1>0
  <2>3. At' = At /\ Gotten' = Gotten /\ InEntry' = InEntry /\ UNCHANGED <<entry, archive, hand, task>>
    BY <2>1 DEF At, Gotten, InEntry, taskVars
  <2>4. next' \in Nat /\ next' >= next
    BY <2>1, <1>0
  <2>5. ASSUME NEW y, Sound(y)
        PROVE  Sound(y)'
    <3>1. y.kind \in {"dir", "whole", "end"} => Place(y.name) \in 1..Len(Walk)
      BY <2>5, PlaceIs DEF Sound
    <3> QED
      BY <3>1, <2>5, <2>4, <2>1, <1>0 DEF Sound
  <2>6. Sound(item)'
    BY <2>1, <1>0 DEF Sound, Name
  <2>7. Carried'
    <3>1. ASSUME NEW i \in 1..Len(queue')
          PROVE  Sound(queue[i])'
      <4>1. CASE i \in 1..Len(queue)
        <5>1. queue'[i] = queue[i] /\ Sound(queue[i])
          BY <4>1, <2>2 DEF Carried
        <5> QED
          BY <5>1, <2>5
      <4>2. CASE i = Len(queue) + 1
        BY <4>2, <2>2, <2>6 DEF Sound
      <4> QED
        BY <4>1, <4>2, <2>2, <1>0
    <3>2. ASSUME NEW i \in 1..Len(queue') - 1
          PROVE  Fits(queue[i + 1], Place(queue[i].name), Upto(queue[i]))'
      <4>1. CASE i < Len(queue)
        <5>1. i \in 1..Len(queue) - 1 /\ queue'[i] = queue[i] /\ queue'[i + 1] = queue[i + 1]
          BY <4>1, <2>2, <1>0
        <5> QED
          BY <5>1, <2>1 DEF Carried, Fits
      <4>2. CASE i = Len(queue)
        <5>1. queue # <<>> /\ queue'[i] = queue[Len(queue)] /\ queue'[i + 1] = item
          BY <4>2, <2>2, <1>0
        <5>2. Fits(item, Place(queue[i].name), Upto(queue[i]))
          BY <5>1, <4>2, <1>2 DEF LastPlace, LastUpto
        <5> QED
          BY <5>1, <5>2, <4>2, <2>1 DEF Fits
      <4> QED
        BY <4>1, <4>2, <2>2, <1>0
    <3>3. Fits(queue[1], At, Gotten)'
      <4>1. CASE queue # <<>>
        <5>1. queue'[1] = queue[1]
          BY <4>1, <2>2, <1>0
        <5> QED
          BY <4>1, <5>1, <2>1, <2>3 DEF Carried, Fits
      <4>2. CASE queue = <<>>
        <5>1. queue'[1] = item
          BY <4>2, <2>2
        <5>2. Fits(item, At, Gotten)
          BY <4>2, <1>2 DEF LastPlace, LastUpto
        <5> QED
          BY <5>1, <5>2, <2>1, <2>3 DEF Fits
      <4> QED
        BY <4>1, <4>2
    <3> QED
      BY <3>1, <3>2, <3>3 DEF Carried
  <2>8. LastPlace' = next /\ LastUpto' = Upto(item)
    BY <2>2, <1>0 DEF LastPlace, LastUpto, Upto
  <2>9. Ahead'
    <3>1. then = "chunk" => /\ holds' = holds /\ Upto(item) = 0 /\ read[Name] \in Nat
                            /\ Len(holds) = read[Name]
      <4> SUFFICES ASSUME then = "chunk"
                   PROVE  /\ holds' = holds /\ Upto(item) = 0 /\ read[Name] \in Nat
                          /\ Len(holds) = read[Name]
        OBVIOUS
      <4>1. read[Name] \in Nat
        BY <1>0
      <4>2. Len(Units(0, read[Name])) = read[Name]
        BY <4>1, UnitsAre, 0 \in Nat
      <4> QED
        BY <4>1, <4>2, <2>1 DEF Upto
    <3>2. LastPlace' = (IF Giving = Inside THEN next ELSE next - 1)'
      <4>1. then = "entry" <=> Giving' = Opening
        BY <2>1, Kinds2 DEF Giving
      <4> QED
        BY <4>1, <2>8, <2>1, <1>0, Kinds2 DEF Giving
    <3>3. Name' = Name \/ then = "entry"
      BY <2>1 DEF Name
    <3> QED
      BY <3>1, <3>2, <3>3, <2>1, <2>2, <2>8 DEF Ahead
  <2>10. Walked'
    BY <2>1, <1>0, <2>3, <1>2 DEF Walked, Name, TaskEnded, WalkerEnded
  <2>11. Records' /\ delivered' = delivered
    BY <2>1, <2>3 DEF Records, taskVars
  <2>13. Written'
    <3>1. Len(archive) < next => Len(archive) < next'
      BY <2>4, <1>0
    <3> QED
      BY <3>1, <2>1, <2>3, <2>11 DEF Written
  <2>12. Writing'
    BY <2>1, <2>3, <2>4, <1>0 DEF Writing, At
  <2> QED
    BY <2>7, <2>9, <2>10, <2>11, <2>12, <2>13
<1> QED
  BY <1>1, <1>2

LEMMA ItemIs ==
  ASSUME Inv, NEW kind \in Kinds, NEW data \in Content, kind = "chunk" => data # Nothing
  PROVE  /\ Item(kind, data) \in Items
         /\ Item(kind, data).kind = kind /\ Item(kind, data).data = data /\ Item(kind, data).name = Name
BY DEF Item, Items, Name, Inv, Types, WalkerTypes

\* Where the item in hand goes: behind what was sent last.
LEMMA SentBefore ==
  ASSUME Inv, Flow, ~TaskEnded, walker \in {"entry", "empty", "fill", "start", "chunk", "take", "read", "end"},
         next <= Len(Walk)
  PROVE  /\ Place(Name) = next
         /\ walker \in {"entry", "empty", "fill", "start"} => Place(Name) = LastPlace + 1
         /\ walker \in {"chunk", "take", "read", "end"} => Place(Name) = LastPlace
<1>1. next \in 1..Len(Walk) /\ Place(Name) = next
  BY PlaceIs, WalkAssumption DEF Flow, Walked, Name
<1>2. LastPlace = IF Giving = Inside THEN next ELSE next - 1
  BY DEF Flow, Ahead
<1> QED
  BY <1>1, <1>2, Kinds2 DEF Giving

LEMMA SendDirFlow == ASSUME Inv, Inv', Flow, SendDir PROVE Flow'
<1> DEFINE item == Item("dir", Nothing)
<1>1. /\ walker = "entry" /\ ~WalkerEnded /\ next <= Len(Walk) /\ Name \in Dirs
      /\ Send(item, "entry")
  BY DEF SendDir, WalkerEnded
<1>2. item \in Items /\ item.kind = "dir" /\ item.data = Nothing /\ item.name = Name
  BY ItemIs DEF Kinds, Content
<1> HIDE DEF item
<1>3. Name \notin Files
  <2>1. next \in 1..Len(Walk)
    BY <1>1, WalkAssumption DEF Flow, Walked
  <2> QED
    BY <1>1, <2>1, DirsAreNotFiles DEF Name
<1>4. ~TaskEnded => Fits(item, LastPlace, LastUpto)
  BY <1>1, <1>2, SentBefore DEF Fits, Opening
<1> QED
  BY <1>1, <1>2, <1>3, <1>4, SendFlow

LEMMA SendEmptyFlow == ASSUME Inv, Inv', Flow, SendEmpty PROVE Flow'
<1> DEFINE item == Item("start", Nothing)
<1>1. /\ walker = "empty" /\ ~WalkerEnded /\ next <= Len(Walk) /\ Name \in Files
      /\ Send(item, "end")
  BY DEF SendEmpty, WalkerEnded, Inv, Hands, Flow, Walked
<1>2. item \in Items /\ item.kind = "start" /\ item.data = Nothing /\ item.name = Name
  BY ItemIs DEF Kinds, Content
<1> HIDE DEF item
<1>3. ~TaskEnded => Fits(item, LastPlace, LastUpto)
  BY <1>1, <1>2, SentBefore DEF Fits, Opening
<1>4. read[Name] = Upto(item)
  BY <1>1, <1>2 DEF Flow, Walked, Upto, Name, Inv, Types, WalkerTypes
<1> QED
  BY <1>1, <1>2, <1>3, <1>4, SendFlow

LEMMA SendWholeFlow == ASSUME Inv, Inv', Flow, SendWhole PROVE Flow'
<1> DEFINE item == Item("whole", holds)
<1>1. /\ walker = "fill" /\ ~WalkerEnded /\ next <= Len(Walk) /\ Name \in Files
      /\ Send(item, "entry") /\ holds \in Content
  BY DEF SendWhole, WalkerEnded, Inv, Hands, Flow, Walked, Types, WalkerTypes
<1>2. item \in Items /\ item.kind = "whole" /\ item.data = holds /\ item.name = Name
  BY <1>1, ItemIs DEF Kinds
<1> HIDE DEF item
<1>3. ~TaskEnded => Fits(item, LastPlace, LastUpto)
  BY <1>1, <1>2, SentBefore DEF Fits, Opening
<1>4. item.data = Units(0, read[Name])
  BY <1>1, <1>2 DEF Flow, Walked
<1> QED
  BY <1>1, <1>2, <1>3, <1>4, SendFlow

LEMMA SendStartFlow == ASSUME Inv, Inv', Flow, SendStart PROVE Flow'
<1> DEFINE item == Item("start", Nothing)
           then == IF holds = Nothing THEN "take" ELSE "chunk"
<1>1. /\ walker = "start" /\ ~WalkerEnded /\ next <= Len(Walk) /\ Name \in Files
      /\ Send(item, then)
  BY DEF SendStart, WalkerEnded, Inv, Hands, Flow, Walked
<1>2. item \in Items /\ item.kind = "start" /\ item.data = Nothing /\ item.name = Name
  BY ItemIs DEF Kinds, Content
<1>3. then \in {"take", "chunk"} /\ (then = "chunk" <=> holds # Nothing)
  OBVIOUS
<1> HIDE DEF item, then
<1>4. ~TaskEnded => Fits(item, LastPlace, LastUpto)
  BY <1>1, <1>2, SentBefore DEF Fits, Opening
<1>5. /\ then = "take" => read[Name] = Upto(item)
      /\ then = "chunk" => read[Name] > 0 /\ holds = Units(0, read[Name])
  BY <1>1, <1>2, <1>3 DEF Flow, Walked, Upto
<1> QED
  BY <1>1, <1>2, <1>3, <1>4, <1>5, SendFlow

LEMMA SendChunkFlow == ASSUME Inv, Inv', Flow, SendChunk PROVE Flow'
<1> DEFINE item == Item("chunk", holds)
<1>1. /\ walker = "chunk" /\ ~WalkerEnded /\ next <= Len(Walk) /\ Name \in Files
      /\ Send(item, "take") /\ holds \in Content /\ holds # Nothing
  BY DEF SendChunk, WalkerEnded, Inv, Hands, Flow, Walked, Types, WalkerTypes
<1>2. item \in Items /\ item.kind = "chunk" /\ item.data = holds /\ item.name = Name
  BY <1>1, ItemIs DEF Kinds
<1> HIDE DEF item
<1>3. CASE TaskEnded
  BY <1>1, <1>3, CutShort
<1>4. CASE ~TaskEnded
  <2>1. /\ Len(holds) > 0 /\ holds = Units(LastUpto, Len(holds)) /\ read[Name] = LastUpto + Len(holds)
    BY <1>1, <1>4 DEF Flow, Ahead
  <2>2. Fits(item, LastPlace, LastUpto)
    BY <1>1, <1>2, <1>4, <2>1, SentBefore DEF Fits, Opening
  <2>3. LastUpto \in Nat
    BY <1>4, LastUptoIsNat
  <2>4. read[Name] = Upto(item)
    <3>1. Len(holds) \in Nat
      BY <1>1 DEF Content
    <3>2. Units(LastUpto, Len(holds))[1] = LastUpto
      BY <3>1, <2>1, <2>3, UnitsAre
    <3>3. holds[1] = LastUpto
      BY <3>2, <2>1
    <3> QED
      BY <1>2, <3>3, <2>1 DEF Upto
  <2> QED
    BY <1>1, <1>2, <2>2, <2>4, SendFlow
<1> QED
  BY <1>3, <1>4

LEMMA SendEndFlow == ASSUME Inv, Inv', Flow, SendEnd PROVE Flow'
<1> DEFINE item == Item("end", Nothing)
<1>1. /\ walker = "end" /\ ~WalkerEnded /\ next <= Len(Walk) /\ Name \in Files
      /\ Send(item, "entry")
  BY DEF SendEnd, WalkerEnded, Inv, Hands, Flow, Walked
<1>2. item \in Items /\ item.kind = "end" /\ item.data = Nothing /\ item.name = Name
  BY ItemIs DEF Kinds, Content
<1> HIDE DEF item
<1>3. ~TaskEnded => Fits(item, LastPlace, LastUpto)
  <2>1. ~TaskEnded => read[Name] = LastUpto
    BY <1>1 DEF Flow, Ahead
  <2> QED
    BY <1>1, <1>2, <2>1, SentBefore DEF Fits, Opening
<1> QED
  BY <1>1, <1>2, <1>3, SendFlow

\* The steps of the walk that send nothing and read nothing.
LEMMA StepsAside ==
  ASSUME Inv, Flow, UNCHANGED <<size, next, read, queue, taskVars, connected>>
  PROVE  /\ Records' /\ Carried' /\ Writing' /\ Written'
         /\ Name' = Name /\ LastPlace' = LastPlace /\ LastUpto' = LastUpto /\ TaskEnded' = TaskEnded
         /\ next \in Nat /\ Len(Walk) \in Nat
<1>1. Records' /\ Carried' /\ Writing' /\ Written'
  BY OnlyItsEntry DEF taskVars
<1>2. next \in Nat /\ Len(Walk) \in Nat
  BY WalkAssumption DEF Inv, Types, WalkerTypes
<1> QED
  BY <1>1, <1>2 DEF Name, LastPlace, LastUpto, At, Gotten, InEntry, TaskEnded, taskVars

LEMMA OpenFileFlow == ASSUME Inv, Inv', Flow, OpenFile PROVE Flow'
<1>1. /\ walker = "entry" /\ Name \in Files /\ holds = Nothing /\ next <= Len(Walk)
      /\ UNCHANGED <<size, next, read, queue, taskVars, connected>>
      /\ \/ walker' \in {"empty", "start"} /\ UNCHANGED <<holds, free>>
         \/ walker' = "fill" /\ TakeBuffer
  BY DEF OpenFile, Inv, Hands
<1>2. /\ Records' /\ Carried' /\ Writing' /\ Written' /\ Name' = Name
      /\ LastPlace' = LastPlace /\ TaskEnded' = TaskEnded /\ next \in Nat /\ Len(Walk) \in Nat
  BY <1>1, StepsAside
<1>3. read[Name] = 0
  BY <1>1, <1>2 DEF Flow, Walked, Name
<1>4. Units(0, 0) = <<>>
  BY NoUnits
<1>5. Ahead'
  BY <1>1, <1>2 DEF Flow, Ahead, Giving
<1>6. Walked'
  BY <1>1, <1>2, <1>3, <1>4, SizesAssumption DEF Flow, Walked, TakeBuffer, taskVars
<1> QED
  BY <1>2, <1>5, <1>6 DEF Flow

LEMMA FileHasGrownFlow == ASSUME Inv, Inv', Flow, FileHasGrown PROVE Flow'
<1>1. /\ walker = "fill" /\ walker' = "start" /\ Len(holds) = Chunk /\ holds # Nothing
      /\ UNCHANGED <<size, next, read, holds, queue, taskVars, connected>> /\ Name \in Files
  BY DEF FileHasGrown, Inv, Hands
<1>2. /\ Records' /\ Carried' /\ Writing' /\ Written' /\ Name' = Name
      /\ LastPlace' = LastPlace /\ TaskEnded' = TaskEnded /\ next \in Nat /\ Len(Walk) \in Nat
  BY <1>1, StepsAside
<1>3. holds = Units(0, read[Name]) /\ read[Name] > 0
  <2>1. holds = Units(0, read[Name]) /\ read[Name] \in Nat
    BY <1>1 DEF Flow, Walked, Inv, Types, WalkerTypes
  <2>2. Len(holds) = read[Name]
    BY <2>1, UnitsAre, 0 \in Nat
  <2> QED
    BY <2>1, <2>2, <1>1, SizesAssumption
<1>4. Ahead'
  BY <1>1, <1>2 DEF Flow, Ahead, Giving
<1>5. Walked'
  BY <1>1, <1>2, <1>3 DEF Flow, Walked, taskVars
<1> QED
  BY <1>2, <1>4, <1>5 DEF Flow

LEMMA NextChunkFlow == ASSUME Inv, Inv', Flow, NextChunk PROVE Flow'
<1>1. /\ walker = "take" /\ walker' = "read" /\ holds' = <<>>
      /\ UNCHANGED <<size, next, read, queue, taskVars, connected>>
  BY DEF NextChunk, TakeBuffer
<1>2. /\ Records' /\ Carried' /\ Writing' /\ Written' /\ Name' = Name /\ LastUpto' = LastUpto
      /\ LastPlace' = LastPlace /\ TaskEnded' = TaskEnded /\ next \in Nat /\ Len(Walk) \in Nat
  BY <1>1, StepsAside
<1>3. Ahead'
  BY <1>1, <1>2 DEF Flow, Ahead, Giving
<1>4. Walked'
  BY <1>1, <1>2 DEF Flow, Walked, taskVars
<1> QED
  BY <1>2, <1>3, <1>4 DEF Flow

LEMMA ReadEndsFlow == ASSUME Inv, Inv', Flow, ReadEnds PROVE Flow'
<1>1. /\ walker = "read" /\ walker' = "end"
      /\ UNCHANGED <<size, next, read, queue, taskVars, connected>>
  BY DEF ReadEnds
<1>2. /\ Records' /\ Carried' /\ Writing' /\ Written' /\ Name' = Name /\ LastUpto' = LastUpto
      /\ LastPlace' = LastPlace /\ TaskEnded' = TaskEnded /\ next \in Nat /\ Len(Walk) \in Nat
  BY <1>1, StepsAside
<1>3. Ahead'
  BY <1>1, <1>2 DEF Flow, Ahead, Giving
<1>4. Walked'
  BY <1>1, <1>2 DEF Flow, Walked, taskVars
<1> QED
  BY <1>2, <1>3, <1>4 DEF Flow

LEMMA WalkDoneFlow == ASSUME Inv, Inv', Flow, WalkDone PROVE Flow'
<1>1. /\ walker = "entry" /\ next > Len(Walk) /\ walker' = "done"
      /\ UNCHANGED <<size, next, read, holds, queue, taskVars, connected>>
  BY DEF WalkDone
<1>2. /\ Records' /\ Carried' /\ Writing' /\ Written' /\ Name' = Name
      /\ LastPlace' = LastPlace /\ TaskEnded' = TaskEnded /\ next \in Nat /\ Len(Walk) \in Nat
  BY <1>1, StepsAside
<1>3. ~TaskEnded /\ queue = <<>> => Taking' = Opening
  <2>1. ~TaskEnded /\ queue = <<>> => Giving = Taking
    BY <1>1 DEF Inv, Grammar, WalkerEnded
  <2> QED
    BY <2>1, <1>1 DEF Giving, Taking, taskVars
<1>4. Ahead'
  BY <1>1, <1>2, <1>3 DEF Flow, Ahead, Giving
<1>5. Walked'
  BY <1>1, <1>2 DEF Flow, Walked, taskVars
<1> QED
  BY <1>2, <1>4, <1>5 DEF Flow

-----------------------------------------------------------------------------
(* Reads: the units go to the end of what the walk holds. *)

LEMMA ReadFlow ==
  ASSUME Inv, Flow, NEW limit \in Nat, holds \in Seq(Nat), ReadInto(limit),
         walker \in {"fill", "read"}, UNCHANGED <<size, next, queue, taskVars, connected>>
  PROVE  /\ Records' /\ Carried' /\ Writing' /\ Written'
         /\ Name' = Name /\ LastPlace' = LastPlace /\ LastUpto' = LastUpto /\ TaskEnded' = TaskEnded
         /\ next \in Nat /\ Len(Walk) \in Nat /\ read[Name] \in Nat
         /\ \A k \in 1..Len(Walk) : k # next => read'[Walk[k]] = read[Walk[k]]
         /\ \E n \in 1..limit : /\ holds' = holds \o Units(read[Name], n)
                                /\ read'[Name] = read[Name] + n
<1>1. next \in 1..Len(Walk) /\ next \in Nat /\ Len(Walk) \in Nat /\ Name \in Files
  BY WalkAssumption DEF Inv, Hands, Types, WalkerTypes, Flow, Walked
<1>2. read[Name] \in Nat /\ size[Name] \in Nat /\ read \in [Files -> Nat]
  BY <1>1 DEF Inv, Types, WalkerTypes
<1>3. PICK n \in 1..SmallerOf(limit, size[Name] - read[Name]) :
        /\ holds' = holds \o Units(read[Name], n)
        /\ read' = [read EXCEPT ![Name] = @ + n]
  BY DEF ReadInto
<1>4. n \in 1..limit
  BY <1>2, <1>3 DEF SmallerOf
<1>5. read'[Name] = read[Name] + n
  BY <1>1, <1>2, <1>3
<1>6. \A k \in 1..Len(Walk) : k # next => read'[Walk[k]] = read[Walk[k]]
  <2> SUFFICES ASSUME NEW k \in 1..Len(Walk), k # next PROVE read'[Walk[k]] = read[Walk[k]]
    OBVIOUS
  <2>1. Walk[k] # Name
    BY <1>1, EntriesAssumption DEF Name
  <2> QED
    BY <2>1, <1>2, <1>3
<1>7. Records' /\ Carried' /\ Writing' /\ Written'
  BY <1>1, <1>6, OnlyItsEntry DEF taskVars
<1>8. Name' = Name /\ LastPlace' = LastPlace /\ LastUpto' = LastUpto /\ TaskEnded' = TaskEnded
  BY DEF Name, LastPlace, LastUpto, At, Gotten, InEntry, TaskEnded, taskVars
<1> QED
  BY <1>1, <1>2, <1>3, <1>4, <1>5, <1>6, <1>7, <1>8

LEMMA FillBufferFlow == ASSUME Inv, Inv', Flow, FillBuffer PROVE Flow'
<1>1. /\ walker = "fill" /\ Len(holds) < Chunk /\ ReadInto(Chunk - Len(holds)) /\ walker' = walker
      /\ UNCHANGED <<size, next, queue, taskVars, connected>>
  BY DEF FillBuffer
<1>2. /\ holds \in Seq(Nat) /\ holds = Units(0, read[Name])
  BY <1>1 DEF Inv, Types, WalkerTypes, Content, Hands, Flow, Walked
<1>3. Chunk - Len(holds) \in Nat /\ Len(holds) \in Nat /\ Chunk \in Nat
  BY <1>1, <1>2, SizesAssumption
<1>4. /\ Records' /\ Carried' /\ Writing' /\ Written' /\ Name' = Name
      /\ LastPlace' = LastPlace /\ TaskEnded' = TaskEnded
      /\ next \in Nat /\ Len(Walk) \in Nat /\ read[Name] \in Nat
      /\ \A k \in 1..Len(Walk) : k # next => read'[Walk[k]] = read[Walk[k]]
      /\ \E n \in 1..Chunk - Len(holds) : /\ holds' = holds \o Units(read[Name], n)
                                          /\ read'[Name] = read[Name] + n
  BY <1>1, <1>2, <1>3, ReadFlow
<1>5. holds' = Units(0, read'[Name]) /\ read'[Name] <= Chunk
  <2>1. PICK n \in 1..Chunk - Len(holds) : /\ holds' = holds \o Units(read[Name], n)
                                           /\ read'[Name] = read[Name] + n
    BY <1>4
  <2>2. Len(holds) = read[Name]
    BY <1>2, <1>4, UnitsAre, 0 \in Nat
  <2>3. n \in Nat /\ 0 + read[Name] = read[Name] /\ 0 + (read[Name] + n) = read[Name] + n
    BY <2>1, <1>3, <1>4
  <2>4. Units(0, read[Name]) \o Units(0 + read[Name], n) = Units(0, read[Name] + n)
    BY <2>3, <1>4, UnitsJoin, 0 \in Nat
  <2>5. holds' = Units(0, read'[Name])
    BY <2>1, <2>3, <2>4, <1>2
  <2> QED
    BY <2>1, <2>2, <2>5, <1>3, <1>4
<1>6. Ahead'
  BY <1>1, <1>4 DEF Flow, Ahead, Giving
<1>7. Walked'
  BY <1>1, <1>4, <1>5 DEF Flow, Walked, taskVars
<1> QED
  BY <1>4, <1>6, <1>7 DEF Flow

LEMMA ReadChunkFlow == ASSUME Inv, Inv', Flow, ReadChunk PROVE Flow'
<1>1. /\ walker = "read" /\ ReadInto(Chunk) /\ walker' = "chunk"
      /\ UNCHANGED <<size, next, queue, taskVars, connected>> /\ Chunk \in Nat
  BY SizesAssumption DEF ReadChunk
<1>2. holds = <<>> /\ holds \in Seq(Nat)
  BY <1>1 DEF Inv, Types, WalkerTypes, Content, Hands, Flow, Walked
<1>3. /\ Records' /\ Carried' /\ Writing' /\ Written' /\ Name' = Name /\ LastUpto' = LastUpto
      /\ LastPlace' = LastPlace /\ TaskEnded' = TaskEnded
      /\ next \in Nat /\ Len(Walk) \in Nat /\ read[Name] \in Nat
      /\ \A k \in 1..Len(Walk) : k # next => read'[Walk[k]] = read[Walk[k]]
      /\ \E n \in 1..Chunk : /\ holds' = holds \o Units(read[Name], n)
                             /\ read'[Name] = read[Name] + n
  BY <1>1, <1>2, ReadFlow
<1>4. PICK n \in 1..Chunk : holds' = holds \o Units(read[Name], n) /\ read'[Name] = read[Name] + n
  BY <1>3
<1>5. n \in Nat /\ n > 0
  BY <1>1, <1>4
<1>6. holds' = Units(read[Name], n) /\ Len(holds') = n
  <2>1. Units(read[Name], n) \in Seq(Nat) /\ Len(Units(read[Name], n)) = n
    BY <1>3, <1>5, UnitsAre
  <2> QED
    BY <2>1, <1>2, <1>4
<1>7. Ahead'
  <2>1. ~TaskEnded => read[Name] = LastUpto
    BY <1>1 DEF Flow, Ahead
  <2> QED
    BY <2>1, <1>1, <1>3, <1>4, <1>5, <1>6 DEF Flow, Ahead, Giving
<1>8. Walked'
  BY <1>1, <1>3 DEF Flow, Walked, taskVars
<1> QED
  BY <1>3, <1>7, <1>8 DEF Flow

-----------------------------------------------------------------------------
(* The writing task keeps Flow. *)

\* Lengths and places of a state.
LEMMA Sizes ==
  ASSUME Inv, Flow
  PROVE  /\ next \in Nat /\ Len(Walk) \in Nat /\ queue \in Seq(Items) /\ Len(queue) \in Nat
         /\ Len(archive) \in Nat /\ archive \in Seq([name : Names, content : Seq(Nat)])
         /\ entry \in [name : Names, content : Seq(Nat)] /\ entry.content \in Seq(Nat)
         /\ (task \in {"whole", "chunk"} => hand \in Content)
         /\ At = (IF InEntry THEN Len(archive) + 1 ELSE Len(archive))
BY WalkAssumption DEF Inv, Types, ChannelTypes, WalkerTypes, TaskTypes, Flow, Records, At

LEMMA TaskKeepsWalked ==
  ASSUME Flow, UNCHANGED walkerVars, task' \in {"finish", "done"} => walker = "done"
  PROVE  Walked'
BY DEF Flow, Walked, walkerVars, Name

\* A step of the task between two items: it is at the same place.
LEMMA TaskKeepsCarried ==
  ASSUME Inv, Flow, UNCHANGED <<walkerVars, queue>>, ~TaskEnded,
         queue # <<>> => At' = At /\ Gotten' = Gotten,
         ~TaskEnded' => At' = At /\ Gotten' = Gotten /\ Taking' = Taking
  PROVE  Carried' /\ Ahead'
<1>1. Carried'
  BY DEF Flow, Carried, Sound, Fits, walkerVars
<1>2. Ahead'
  BY DEF Flow, Ahead, LastPlace, LastUpto, Giving, Name, walkerVars
<1> QED
  BY <1>1, <1>2

LEMMA WriteFailsFlow ==
  ASSUME Inv, Flow, WriteFails, UNCHANGED <<walkerVars, delivered, connected>>, ~TaskEnded
  PROVE  Flow'
<1> USE DEF Flow
<1>1. task' = "failed" /\ queue' = <<>> /\ UNCHANGED <<entry, archive>>
  BY DEF WriteFails
<1>2. Records' /\ Carried' /\ Ahead'
  BY <1>1 DEF Records, Carried, Ahead, TaskEnded
<1>3. Walked'
  BY <1>1, TaskKeepsWalked
<1>4. Writing'
  BY <1>1 DEF Writing, InEntry
<1>5. Written'
  BY <1>1 DEF Written, TaskEnded, walkerVars
<1> QED
  BY <1>2, <1>3, <1>4, <1>5

\* The task puts an entry into the archive, all that was read of it.
LEMMA EntryWritten ==
  ASSUME Inv, Flow, task \in {"whole", "close"}, task' = "recv",
         UNCHANGED <<walkerVars, queue, entry, delivered, connected>>,
         NEW x \in [name : Names, content : Seq(Nat)], archive' = Append(archive, x),
         x.name = entry.name,
         x.content = IF entry.name \in Files THEN Units(0, read[entry.name]) ELSE <<>>
  PROVE  Flow'
<1> USE DEF Flow
<1>1. /\ Len(archive) \in Nat /\ At = Len(archive) + 1 /\ At <= Len(Walk) /\ At < next
      /\ entry.name = Walk[At] /\ next \in Nat /\ Len(Walk) \in Nat
  BY Sizes DEF Writing, InEntry
<1>2. /\ archive' \in Seq([name : Names, content : Seq(Nat)])
      /\ Len(archive') = Len(archive) + 1 /\ archive'[Len(archive) + 1] = x
      /\ \A i \in 1..Len(archive) : archive'[i] = archive[i]
  BY Sizes
<1>3. At' = At /\ Gotten' = 0 /\ Gotten = 0 /\ ~TaskEnded /\ Taking' = Taking
  BY <1>1, <1>2 DEF At, InEntry, Gotten, TaskEnded, Taking
<1>4. Carried' /\ Ahead'
  BY <1>3, TaskKeepsCarried
<1>5. Walked'
  BY TaskKeepsWalked
<1>6. Records' /\ Writing'
  BY <1>2 DEF Records, Writing, InEntry
<1>7. Written'
  <2>1. ASSUME NEW i \in 1..Len(archive')
        PROVE  /\ archive'[i].name = IF i <= Len(Walk) THEN Walk[i] ELSE "central directory"
               /\ i <= Len(Walk) => archive'[i].content =
                                      IF Walk[i] \in Files THEN Units(0, read[Walk[i]]) ELSE <<>>
    <3>1. CASE i \in 1..Len(archive)
      BY <3>1, <1>2 DEF Written
    <3>2. CASE i = Len(archive) + 1
      BY <3>2, <1>1, <1>2
    <3>3. i \in 1..Len(archive) + 1 /\ Len(archive) \in Nat
      BY <1>1, <1>2
    <3>4. i \in 1..Len(archive) \/ i = Len(archive) + 1
      BY <3>3
    <3> QED
      BY <3>1, <3>2, <3>4
  <2>2. Len(archive') < next
    BY <1>1, <1>2
  <2> QED
    BY <2>1, <2>2 DEF Written, walkerVars
<1> QED
  BY <1>4, <1>5, <1>6, <1>7

LEMMA WriteWholeFlow == ASSUME Inv, Inv', Flow, WriteWhole PROVE Flow'
<1>1. task = "whole" /\ ~TaskEnded /\ UNCHANGED <<walkerVars, delivered, connected>>
  BY DEF WriteWhole, TaskEnded
<1>2. CASE WriteFails
  BY <1>1, <1>2, WriteFailsFlow
<1> DEFINE content == IF hand = Nothing THEN <<>> ELSE hand
           x == [entry EXCEPT !.content = content]
<1>3. CASE archive' = Append(archive, x) /\ task' = "recv" /\ UNCHANGED <<entry, queue>>
  <2>1. entry \in [name : Names, content : Seq(Nat)] /\ hand \in Content
    BY <1>1, Sizes
  <2>2. content \in Seq(Nat)
    BY <2>1 DEF Content
  <2>3. content = IF entry.name \in Files THEN Units(0, read[entry.name]) ELSE <<>>
    BY <1>1 DEF Flow, Writing
  <2> HIDE DEF content
  <2>4. x \in [name : Names, content : Seq(Nat)] /\ x.name = entry.name /\ x.content = content
    BY <2>1, <2>2
  <2> QED
    BY <2>3, <2>4, <1>1, <1>3, EntryWritten
<1> QED
  BY <1>2, <1>3 DEF WriteWhole

LEMMA CloseEntryFlow == ASSUME Inv, Inv', Flow, CloseEntry PROVE Flow'
<1>1. task = "close" /\ ~TaskEnded /\ UNCHANGED <<walkerVars, delivered, connected>>
  BY DEF CloseEntry, TaskEnded
<1>2. CASE WriteFails
  BY <1>1, <1>2, WriteFailsFlow
<1>3. CASE archive' = Append(archive, entry) /\ task' = "recv" /\ UNCHANGED <<entry, queue>>
  <2>1. entry \in [name : Names, content : Seq(Nat)]
    BY Sizes
  <2>2. entry.name \in Files /\ entry.content = Units(0, read[entry.name])
    BY <1>1 DEF Flow, Writing
  <2> QED
    BY <2>1, <2>2, <1>1, <1>3, EntryWritten
<1> QED
  BY <1>2, <1>3 DEF CloseEntry

LEMMA StartEntryFlow == ASSUME Inv, Inv', Flow, StartEntry PROVE Flow'
<1> USE DEF Flow
<1>1. task = "start" /\ ~TaskEnded /\ UNCHANGED <<walkerVars, delivered, connected>>
  BY DEF StartEntry, TaskEnded
<1>2. CASE WriteFails
  BY <1>1, <1>2, WriteFailsFlow
<1>3. CASE task' = "stream" /\ UNCHANGED <<entry, hand, archive, queue>>
  <2>1. At' = At /\ Gotten' = Gotten /\ Taking' = Taking
    BY <1>1, <1>3 DEF At, InEntry, Gotten, Taking
  <2>2. Carried' /\ Ahead'
    BY <2>1, <1>1, <1>3, TaskKeepsCarried
  <2>3. Walked'
    BY <1>1, <1>3, TaskKeepsWalked
  <2>4. Records' /\ Writing'
    BY <1>1, <1>3, <2>1 DEF Records, Writing, InEntry
  <2>5. Written'
    BY <1>1, <1>3 DEF Written, walkerVars
  <2> QED
    BY <2>2, <2>3, <2>4, <2>5
<1> QED
  BY <1>2, <1>3 DEF StartEntry

LEMMA WriteChunkFlow == ASSUME Inv, Inv', Flow, WriteChunk PROVE Flow'
<1> USE DEF Flow
<1>1. task = "chunk" /\ ~TaskEnded /\ UNCHANGED <<walkerVars, delivered, connected>>
  BY DEF WriteChunk, TaskEnded
<1>2. CASE WriteFails
  BY <1>1, <1>2, WriteFailsFlow
<1>3. CASE entry' = [entry EXCEPT !.content = @ \o hand] /\ task' = "stream" /\ UNCHANGED <<archive, queue>>
  <2>1. /\ entry \in [name : Names, content : Seq(Nat)] /\ entry.content \in Seq(Nat)
        /\ hand \in Seq(Nat) /\ Len(hand) \in Nat /\ Len(entry.content) \in Nat
    BY <1>1, Sizes DEF Content, Inv, Hands
  <2>2. /\ entry.content = Units(0, Len(entry.content)) /\ hand = Units(Len(entry.content), Len(hand))
        /\ entry.name \in Files
    BY <1>1 DEF Writing
  <2>3. entry.content \o hand = Units(0, Len(entry.content) + Len(hand))
    <3>1. \A n, m \in Nat : Units(0, n) \o Units(n, m) = Units(0, n + m)
      <4> TAKE n, m \in Nat
      <4>1. Units(0, n) \o Units(0 + n, m) = Units(0, n + m)
        BY UnitsJoin, 0 \in Nat, Zenon
      <4>2. 0 + n = n
        OBVIOUS
      <4> QED
        BY <4>1, <4>2
    <3> QED
      BY <3>1, <2>1, <2>2
  <2>4. /\ entry.content \o hand \in Seq(Nat)
        /\ Len(entry.content \o hand) = Len(entry.content) + Len(hand)
    BY <2>1, ConcatProperties
  <2>5. /\ entry' \in [name : Names, content : Seq(Nat)]
        /\ entry'.content = entry.content \o hand /\ entry'.name = entry.name
    BY <2>1, <2>4, <1>3
  <2>6. At' = At /\ Gotten' = Gotten /\ Taking' = Taking
    BY <1>1, <1>3, <2>4, <2>5 DEF At, InEntry, Gotten, Taking
  <2>7. Carried' /\ Ahead'
    BY <2>6, <1>1, <1>3, TaskKeepsCarried
  <2>8. Walked'
    BY <1>1, <1>3, TaskKeepsWalked
  <2>9. Records' /\ Writing'
    BY <1>1, <1>3, <2>2, <2>3, <2>4, <2>5, <2>6 DEF Records, Writing, InEntry
  <2>10. Written'
    BY <1>1, <1>3 DEF Written, walkerVars
  <2> QED
    BY <2>7, <2>8, <2>9, <2>10
<1> QED
  BY <1>2, <1>3 DEF WriteChunk

\* The walk has ended and its items are written: the task is between two entries, after the last.
LEMMA QueueClosedFlow == ASSUME Inv, Inv', Flow, QueueClosed PROVE Flow'
<1> USE DEF Flow
<1>1. /\ queue = <<>> /\ WalkerEnded /\ task \in {"recv", "stream"} /\ ~TaskEnded
      /\ task' = (IF task = "recv" THEN "finish" ELSE "close")
      /\ UNCHANGED <<walkerVars, queue, entry, hand, archive, delivered, connected>>
  BY DEF QueueClosed, TaskEnded
<1>2. walker = "done" /\ Taking = Opening /\ LastPlace = next - 1 /\ next = Len(Walk) + 1
  BY <1>1, Kinds2 DEF Ahead, WalkerEnded, Giving, Walked
<1>3. task = "recv" /\ task' = "finish"
  BY <1>1, <1>2, Kinds2 DEF Taking
<1>4. Len(archive) = Len(Walk)
  BY <1>1, <1>2, <1>3, Sizes DEF LastPlace, InEntry
<1>5. At' = At /\ Gotten' = Gotten /\ Taking' = Taking
  BY <1>1, <1>3 DEF At, InEntry, Gotten, Taking
<1>6. Carried' /\ Ahead'
  BY <1>5, <1>1, TaskKeepsCarried
<1>7. Walked'
  BY <1>1, <1>2, TaskKeepsWalked
<1>8. Records' /\ Writing'
  BY <1>1, <1>3, <1>4 DEF Records, Writing, InEntry
<1>9. Written'
  BY <1>1, <1>3 DEF Written, walkerVars
<1> QED
  BY <1>6, <1>7, <1>8, <1>9

LEMMA FinishFlow == ASSUME Inv, Inv', Flow, Finish PROVE Flow'
<1> USE DEF Flow
<1> DEFINE x == [name |-> "central directory", content |-> <<>>]
<1>1. /\ task = "finish" /\ ~TaskEnded /\ UNCHANGED <<walkerVars, queue, entry, hand, connected>>
      /\ Len(archive) = Len(Walk) /\ queue = <<>> /\ walker = "done"
  BY DEF Finish, TaskEnded, Writing, Walked, Inv, Grammar
<1>2. CASE /\ task' = "done" /\ archive' = Append(archive, x)
           /\ delivered' = IF connected THEN Len(archive') ELSE delivered
  <2>1. x \in [name : Names, content : Seq(Nat)] /\ x.name = "central directory"
    BY DEF Names
  <2> HIDE DEF x
  <2>2. /\ archive' \in Seq([name : Names, content : Seq(Nat)])
        /\ Len(archive') = Len(Walk) + 1 /\ archive'[Len(Walk) + 1] = x
        /\ \A i \in 1..Len(Walk) : archive'[i] = archive[i]
    <3>1. archive \in Seq([name : Names, content : Seq(Nat)]) /\ archive' = Append(archive, x)
      BY <1>2, Sizes
    <3>2. /\ archive' \in Seq([name : Names, content : Seq(Nat)])
          /\ Len(archive') = Len(archive) + 1 /\ archive'[Len(archive) + 1] = x
          /\ \A i \in 1..Len(archive) : archive'[i] = archive[i]
      <4> DEFINE S == [name : Names, content : Seq(Nat)]
      <4>1. archive \in Seq(S) /\ x \in S
        BY <3>1, <2>1
      <4> HIDE DEF S
      <4>2. /\ Append(archive, x) \in Seq(S) /\ Len(Append(archive, x)) = Len(archive) + 1
            /\ Append(archive, x)[Len(archive) + 1] = x
            /\ \A i \in 1..Len(archive) : Append(archive, x)[i] = archive[i]
        BY <4>1, AppendProperties
      <4> QED
        BY <3>1, <4>2 DEF S
    <3> QED
      BY <3>2, <1>1
  <2>3. Carried' /\ Ahead'
    BY <1>1, <1>2, TaskKeepsCarried DEF TaskEnded
  <2>4. Walked'
    BY <1>1, TaskKeepsWalked
  <2>5. Records' /\ Writing'
    BY <1>1, <1>2, <2>2 DEF Records, Writing, InEntry
  <2>6. Written'
    <3>1. ASSUME NEW i \in 1..Len(archive')
          PROVE  /\ archive'[i].name = IF i <= Len(Walk) THEN Walk[i] ELSE "central directory"
                 /\ i <= Len(Walk) => archive'[i].content =
                                        IF Walk[i] \in Files THEN Units(0, read[Walk[i]]) ELSE <<>>
      <4>1. CASE i \in 1..Len(Walk)
        BY <4>1, <2>2, <1>1 DEF Written
      <4>2. CASE i = Len(Walk) + 1
        <5>1. ~(i <= Len(Walk)) /\ archive'[i] = x
          BY <4>2, <2>2, WalkLength
        <5> QED
          BY <5>1, <2>1
      <4>3. i \in 1..Len(Walk) + 1
        BY <2>2
      <4>4. i \in 1..Len(Walk) \/ i = Len(Walk) + 1
        BY <4>3, WalkLength
      <4> QED
        BY <4>1, <4>2, <4>4
    <3> QED
      BY <3>1, <2>2, <1>1, <1>2 DEF Written, walkerVars
  <2> QED
    BY <2>3, <2>4, <2>5, <2>6
<1>3. CASE task' = "failed" /\ UNCHANGED <<archive, delivered>>
  <2>1. Carried' /\ Ahead'
    BY <1>1, <1>3, TaskKeepsCarried DEF TaskEnded
  <2>2. Walked'
    BY <1>1, TaskKeepsWalked
  <2>3. Records' /\ Writing'
    BY <1>1, <1>3 DEF Records, Writing, InEntry
  <2>4. Written'
    BY <1>1, <1>3 DEF Written, walkerVars
  <2> QED
    BY <2>1, <2>2, <2>3, <2>4
<1> QED
  BY <1>2, <1>3 DEF Finish

\* The task takes the first item: it is now at that item's place, with its units.
LEMMA TakeFlow ==
  ASSUME Inv, Flow, queue # <<>>, queue' = Tail(queue), UNCHANGED walkerVars, ~TaskEnded,
         At' = Place(queue[1].name), Gotten' = Upto(queue[1]), Taking' = Behind(queue[1].kind)
  PROVE  Carried' /\ Ahead'
<1> USE DEF Flow
<1>1. /\ queue \in Seq(Items) /\ Len(queue) \in Nat /\ Len(queue) > 0 /\ Len(queue') = Len(queue) - 1
      /\ \A i \in 1..Len(queue) - 1 : queue'[i] = queue[i + 1]
      /\ queue' \in Seq(Items)
  BY Sizes
<1>6. queue' = <<>> <=> Len(queue) = 1
  <2>1. Len(queue') = 0 <=> queue' = <<>>
    BY <1>1, EmptySeq
  <2> QED
    BY <2>1, <1>1
<1>2. Carried'
  <2>1. ASSUME NEW i \in 1..Len(queue')
        PROVE  Sound(queue[i])'
    <3>1. i + 1 \in 1..Len(queue) /\ queue'[i] = queue[i + 1]
      BY <1>1
    <3>2. Sound(queue[i + 1])
      BY <3>1 DEF Carried
    <3> QED
      BY <3>1, <3>2 DEF Sound, walkerVars
  <2>2. ASSUME NEW i \in 1..Len(queue') - 1
        PROVE  Fits(queue[i + 1], Place(queue[i].name), Upto(queue[i]))'
    <3>1. /\ i + 1 \in 1..Len(queue) - 1 /\ queue'[i] = queue[i + 1] /\ queue'[i + 1] = queue[(i + 1) + 1]
      BY <1>1
    <3>2. Fits(queue[(i + 1) + 1], Place(queue[i + 1].name), Upto(queue[i + 1]))
      BY <3>1 DEF Carried
    <3> QED
      BY <3>1, <3>2 DEF Fits, walkerVars
  <2>3. ASSUME queue' # <<>>
        PROVE  Fits(queue[1], At, Gotten)'
    <3>1. 1 \in 1..Len(queue) - 1 /\ queue'[1] = queue[1 + 1]
      BY <2>3, <1>1
    <3>2. Fits(queue[1 + 1], Place(queue[1].name), Upto(queue[1]))
      BY <3>1 DEF Carried
    <3> QED
      BY <3>1, <3>2 DEF Fits, walkerVars
  <2> QED
    BY <2>1, <2>2, <2>3 DEF Carried
<1>3. LastPlace' = LastPlace /\ LastUpto' = LastUpto
  <2>1. CASE Len(queue) = 1
    BY <2>1, <1>1, <1>6 DEF LastPlace, LastUpto
  <2>2. CASE Len(queue) > 1
    <3>1. queue' # <<>> /\ Len(queue') \in 1..Len(queue) - 1 /\ Len(queue') + 1 = Len(queue)
      BY <2>2, <1>1, <1>6
    <3>2. queue'[Len(queue')] = queue[Len(queue)]
      BY <3>1, <1>1
    <3> QED
      BY <3>1, <3>2 DEF LastPlace, LastUpto
  <2> QED
    BY <2>1, <2>2, <1>1
<1>4. queue' = <<>> => Giving = Taking'
  BY <1>1, <1>6 DEF Inv, Grammar
<1>5. Ahead'
  BY <1>3, <1>4 DEF Ahead, Giving, Name, walkerVars
<1> QED
  BY <1>2, <1>5

LEMMA ReceiveFlow == ASSUME Inv, Inv', Flow, Receive PROVE Flow'
<1> USE DEF Flow
<1> DEFINE item == queue[1]
<1>1. /\ task = "recv" /\ queue # <<>> /\ queue' = Tail(queue) /\ ~TaskEnded /\ Head(queue) = item
      /\ UNCHANGED <<walkerVars, archive, delivered, connected>>
      /\ entry' = [name |-> item.name, content |-> <<>>] /\ item \in Items
  BY Sizes DEF Receive, TaskEnded
<1>2. item.kind \in Opening
  BY <1>1 DEF Inv, Grammar, Taking
<1>3. /\ task' = IF item.kind = "start" THEN "start" ELSE "whole"
      /\ hand' = IF item.kind = "whole" THEN item.data ELSE Nothing
  BY <1>1, <1>2 DEF Receive, Opening
<1>4. Sound(item) /\ Fits(item, At, Gotten)
  <2>1. 1 \in 1..Len(queue)
    BY <1>1, Sizes
  <2> QED
    BY <2>1, <1>1 DEF Carried
<1>5. PICK k \in 1..Len(Walk) : item.name = Walk[k] /\ Place(item.name) = k
  BY <1>4, PlaceIs DEF Sound
<1>6. k = Len(archive) + 1
  BY <1>1, <1>2, <1>4, <1>5, Sizes DEF Fits, InEntry
<1>7. entry' \in [name : Names, content : Seq(Nat)] /\ entry'.name = item.name /\ entry'.content = <<>>
  <2>1. item.name \in Names
    BY <1>1 DEF Items, Names
  <2>2. <<>> \in Seq(Nat)
    OBVIOUS
  <2> QED
    BY <2>1, <2>2, <1>1
<1> HIDE DEF item
<1>8. At' = k /\ Gotten' = 0 /\ Upto(item) = 0 /\ Taking' = Behind(item.kind)
  BY <1>1, <1>2, <1>3, <1>6, <1>7 DEF At, InEntry, Gotten, Upto, Taking, Behind, Opening
<1>9. Carried' /\ Ahead'
  BY <1>1, <1>5, <1>8, TakeFlow DEF item
<1>10. Walked'
  BY <1>1, <1>3, TaskKeepsWalked
<1>11. Records' /\ Written'
  BY <1>1, <1>3, <1>7 DEF Records, Written, walkerVars
<1>12. Writing'
  <2>1. k <= Len(Walk) /\ entry'.name = Walk[At']
    BY <1>5, <1>7, <1>8
  <2>2. CASE item.kind = "start"
    <3>1. <<>> = Units(0, Len(<<>>))
      BY NoUnits
    <3> QED
      BY <2>1, <2>2, <3>1, <1>3, <1>4, <1>7, <1>8 DEF Writing, Sound
  <2>3. CASE item.kind # "start"
    <3>1. item.kind \in {"dir", "whole"} /\ task' = "whole" /\ k < next
      BY <2>3, <1>2, <1>3, <1>4, <1>5 DEF Opening, Sound
    <3>2. item.kind = "whole" => item.data = Units(0, read[item.name]) /\ item.data # Nothing
      <4>1. item.kind = "whole" => item.data = Units(0, read[item.name]) /\ item.name \in Files
        BY <1>4 DEF Sound
      <4>2. \A n \in Nat : Units(0, n) # Nothing
        BY UnitsAre, NothingAssumption
      <4> QED
        BY <4>1, <4>2 DEF Inv, Types, WalkerTypes
    <3>3. item.name \in Files <=> item.kind = "whole"
      BY <3>1, <1>4 DEF Sound
    <3> QED
      BY <2>1, <3>1, <3>2, <3>3, <1>1, <1>3, <1>7, <1>8 DEF Writing, walkerVars
  <2> QED
    BY <2>2, <2>3
<1> QED
  BY <1>9, <1>10, <1>11, <1>12

LEMMA ReceiveChunkFlow == ASSUME Inv, Inv', Flow, ReceiveChunk PROVE Flow'
<1> USE DEF Flow
<1> DEFINE item == queue[1]
<1>1. /\ task = "stream" /\ queue # <<>> /\ queue' = Tail(queue) /\ ~TaskEnded /\ Head(queue) = item
      /\ UNCHANGED <<walkerVars, entry, archive, delivered, connected>> /\ item \in Items
      /\ IF item.kind = "chunk" THEN task' = "chunk" /\ hand' = item.data
         ELSE task' = "close" /\ UNCHANGED hand
  BY Sizes DEF ReceiveChunk, TaskEnded
<1>2. item.kind \in Inside
  BY <1>1 DEF Inv, Grammar, Taking
<1>3. Sound(item) /\ Fits(item, At, Gotten)
  <2>1. 1 \in 1..Len(queue)
    BY <1>1, Sizes
  <2> QED
    BY <2>1, <1>1 DEF Carried
<1>4. /\ entry.name \in Files /\ entry.content = Units(0, Len(entry.content))
      /\ At <= Len(Walk) /\ entry.name = Walk[At] /\ At = Len(archive) + 1 /\ At \in 1..Len(Walk)
      /\ Len(entry.content) \in Nat /\ Gotten = Len(entry.content)
  BY <1>1, Sizes DEF Writing, InEntry, Gotten
<1>5. Place(item.name) = At
  BY <1>2, <1>3, Kinds2 DEF Fits
<1>6. item.name = entry.name
  BY <1>3, <1>4, <1>5, PlaceIs DEF Sound
<1> HIDE DEF item
<1>7. CASE item.kind = "chunk"
  <2>1. /\ task' = "chunk" /\ hand' = item.data /\ Len(item.data) > 0
        /\ item.data = Units(Len(entry.content), Len(item.data))
    BY <1>1, <1>3, <1>4, <1>7 DEF Fits
  <2>2. item.data[1] = Len(entry.content)
    <3>1. Len(item.data) \in Nat
      BY <1>1, <1>7 DEF Items, Content
    <3> QED
      BY <2>1, <3>1, <1>4, UnitsAre
  <2>3. At' = At /\ Gotten' = Upto(item) /\ Taking' = Behind(item.kind)
    BY <2>1, <2>2, <1>1, <1>4, <1>7 DEF At, InEntry, Gotten, Upto, Taking, Behind
  <2>4. Carried' /\ Ahead'
    BY <2>3, <1>1, <1>5, TakeFlow DEF item
  <2>5. Walked'
    BY <2>1, <1>1, TaskKeepsWalked
  <2>6. Records' /\ Written'
    BY <2>1, <1>1 DEF Records, Written, walkerVars
  <2>7. Writing'
    BY <2>1, <2>3, <1>1, <1>4 DEF Writing
  <2> QED
    BY <2>4, <2>5, <2>6, <2>7
<1>8. CASE item.kind = "end"
  <2>1. task' = "close" /\ UNCHANGED hand /\ read[entry.name] = Len(entry.content) /\ At < next
    BY <1>1, <1>3, <1>4, <1>5, <1>6, <1>8 DEF Fits, Sound
  <2>2. At' = At /\ Gotten' = Upto(item) /\ Taking' = Behind(item.kind)
    BY <2>1, <1>1, <1>4, <1>8 DEF At, InEntry, Gotten, Upto, Taking, Behind
  <2>3. Carried' /\ Ahead'
    BY <2>2, <1>1, <1>5, TakeFlow DEF item
  <2>4. Walked'
    BY <2>1, <1>1, TaskKeepsWalked
  <2>5. Records' /\ Written'
    BY <2>1, <1>1 DEF Records, Written, walkerVars
  <2>6. Writing'
    BY <2>1, <2>2, <1>1, <1>4 DEF Writing, walkerVars
  <2> QED
    BY <2>3, <2>4, <2>5, <2>6
<1> QED
  BY <1>2, <1>7, <1>8 DEF Inside

-----------------------------------------------------------------------------
(* Flow is an invariant. *)

LEMMA InitFlow == Init => Flow
<1> SUFFICES ASSUME Init PROVE Flow
  OBVIOUS
<1> USE DEF Init
<1>1. Records
  <2>1. <<>> \in Seq(Nat) /\ <<>> \in Seq([name : Names, content : Seq(Nat)])
    OBVIOUS
  <2> QED
    BY <2>1 DEF Records, Names
<1>2. Len(archive) = 0 /\ At = 0 /\ ~InEntry /\ Len(Walk) \in Nat
  BY WalkLength DEF At, InEntry
<1>3. Carried /\ Writing
  BY <1>2 DEF Carried, Writing
<1>4. Ahead
  BY <1>2, Kinds2 DEF Ahead, LastPlace, Giving
<1>5. Walked /\ Written
  BY <1>2, WalkAssumption DEF Walked, Written
<1> QED
  BY <1>1, <1>3, <1>4, <1>5 DEF Flow

\* The steps of the world, and of the BufWriter.
LEMMA AsideFlow ==
  ASSUME Inv, Flow, UNCHANGED <<walkerVars, queue, task, entry, hand, archive>>,
         task = "done" /\ connected' => connected /\ UNCHANGED delivered
  PROVE  Flow'
<1> USE DEF Flow
<1>1. Records' /\ Carried' /\ Ahead'
  BY DEF Records, Carried, Sound, Fits, Ahead, At, Gotten, InEntry, LastPlace, LastUpto, Giving, Taking,
         TaskEnded, Name, walkerVars
<1>2. Walked' /\ Writing' /\ Written'
  BY DEF Walked, Writing, Written, Name, At, InEntry, walkerVars
<1> QED
  BY <1>1, <1>2

LEMMA NextFlow == Inv /\ Inv' /\ Flow /\ [Next]_vars => Flow'
<1> SUFFICES ASSUME Inv, Inv', Flow, [Next]_vars PROVE Flow'
  OBVIOUS
<1>1. CASE WalkerStep
  BY <1>1, SendDirFlow, OpenFileFlow, SendEmptyFlow, FillBufferFlow, SendWholeFlow, FileHasGrownFlow,
     SendStartFlow, SendChunkFlow, NextChunkFlow, ReadChunkFlow, ReadEndsFlow, SendEndFlow, WalkDoneFlow
  DEF WalkerStep
<1>2. CASE TaskStep
  BY <1>2, ReceiveFlow, WriteWholeFlow, StartEntryFlow, ReceiveChunkFlow, WriteChunkFlow,
     CloseEntryFlow, QueueClosedFlow, FinishFlow DEF TaskStep
<1>3. CASE Spill
  BY <1>3, AsideFlow DEF Spill, TaskEnded
<1>4. CASE Resize
  BY <1>4, AsideFlow DEF Resize, taskVars
<1>5. CASE Disconnect
  BY <1>5, AsideFlow DEF Disconnect, taskVars
<1>6. CASE UNCHANGED vars
  BY <1>6, AsideFlow DEF vars, taskVars
<1> QED
  BY <1>1, <1>2, <1>3, <1>4, <1>5, <1>6 DEF Next

LEMMA FlowInvariance == Spec => [](Inv /\ Flow)
BY InitInv, NextInv, InitFlow, NextFlow, PTL DEF Spec

\* For any tree and any sizes: the archive holds the entries of the walk in its order, and of every
\* file the units that were read of it, each once and in their order, whatever the reads returned,
\* the files became meanwhile, and the buffers were used for before.
THEOREM ArchiveHoldsWhatWasRead == Spec => []ContentIsWhatWasRead
<1>1. Inv /\ Flow => ContentIsWhatWasRead
  <2> SUFFICES ASSUME Inv, Flow PROVE ContentIsWhatWasRead
    OBVIOUS
  <2>1. Len(archive) \in Nat /\ next \in Nat /\ Len(Walk) \in Nat /\ next <= Len(Walk) + 1
    BY Sizes DEF Flow, Walked
  <2>2. Len(archive) <= Len(Walk) + 1
    <3>1. Len(archive) = Len(Walk) + 1 \/ Len(archive) < next
      BY DEF Flow, Written
    <3> QED
      BY <3>1, <2>1
  <2>3. EntriesInOrder
    BY <2>2 DEF EntriesInOrder, Flow, Written
  <2>4. \A i \in 1..SmallerOf(Len(archive), Len(Walk)) : i \in 1..Len(archive) /\ i <= Len(Walk)
    BY <2>1 DEF SmallerOf
  <2> QED
    BY <2>3, <2>4 DEF ContentIsWhatWasRead, Flow, Written
<1> QED
  BY <1>1, FlowInvariance, PTL

\* A download that ends with the client still there has every entry and the central directory,
\* and all of it has left the BufWriter.
THEOREM FinishedDownloadsAreComplete == Spec => []FinishedIsComplete
<1>1. Inv /\ Flow => FinishedIsComplete
  BY DEF Flow, Written, FinishedIsComplete
<1> QED
  BY <1>1, FlowInvariance, PTL
=============================================================================
