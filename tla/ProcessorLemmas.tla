--------------------------- MODULE ProcessorLemmas ---------------------------
(***************************************************************************)
(* Facts about the processor that the proofs of its two controllers share: *)
(* its steps keep its types and lose none of the items it holds.           *)
(***************************************************************************)
EXTENDS Processor, LibraryLemmas

\* What the processor does of its own accord, and what a callback lets it do.
ProcessorMoves ==
  \/ ProcGet \/ ProcCall \/ ProcCallFails
  \/ \E n \in DOMAIN procDelayed : ProcBackoffOver(n)

CallbackMoves ==
  \/ /\ procPc = "requeue" \/ (procPc = "callback" /\ procResult # "error")
     /\ \/ ProcForget
        \/ /\ procPc' = "requeue"
           /\ UNCHANGED <<storeVars, procQueue, procDelayed, procItem, procResult, gaveUp, faults>>
  \/ procPc = "callback" /\ procResult = "error" /\ (ProcRetry \/ ProcDrop)

(***************************************************************************)
(* Types.                                                                  *)
(***************************************************************************)

\* Counting a retry does not change what an item does.
LEMMA AnotherTry ==
  ASSUME NEW i \in Item
  PROVE  /\ [i EXCEPT !.tries = @ + 1] \in Item
         /\ [i EXCEPT !.tries = @ + 1].cr = i.cr
         /\ \A obj \in Objects : Answer([i EXCEPT !.tries = @ + 1], obj) = Answer(i, obj)
<1> DEFINE j == [i EXCEPT !.tries = @ + 1]
<1>1. /\ j \in Item
      /\ j.op = i.op /\ j.cr = i.cr /\ j.spec = i.spec /\ j.rev = i.rev
  BY DEF Item
<1> HIDE DEF j
<1>2. \A obj \in Objects : Answer(j, obj) = Answer(i, obj)
  BY <1>1 DEF Answer
<1>3. QED BY <1>1, <1>2 DEF j

\* A verdict is one of the four.
LEMMA VerdictType ==
  ASSUME NEW i \in Item
  PROVE  Verdict(i) \in Verdicts
BY DEF Verdict, Answer, Verdicts, Item, Operations

\* The parts of the state that an action leaves alone.
LEMMA StoreUnchanged ==
  ASSUME StoreTypeOK, UNCHANGED storeVars
  PROVE  StoreTypeOK'
BY DEF StoreTypeOK, storeVars

LEMMA ProcessorUnchanged ==
  ASSUME ProcessorTypeOK, UNCHANGED processorVars
  PROVE  ProcessorTypeOK'
BY DEF ProcessorTypeOK, processorVars

LEMMA StoreInitType == StoreInit => StoreTypeOK
BY DEF StoreInit, StoreTypeOK, Objects

LEMMA ProcessorInitType == ProcessorInit => ProcessorTypeOK
BY DEF ProcessorInit, ProcessorTypeOK

LEMMA ItemInHand ==
  ASSUME ProcessorTypeOK, procPc # "idle"
  PROVE  procItem \in Item /\ procItem.cr \in CRs /\ procItem.spec \in Specs \cup {Absent}
BY DEF ProcessorTypeOK, Item

LEMMA ProcessorMovesType ==
  ASSUME StoreTypeOK, ProcessorTypeOK, ProcessorMoves
  PROVE  StoreTypeOK' /\ ProcessorTypeOK'
<1>1. CASE ProcGet
  <2>1. Head(procQueue) \in Item /\ Tail(procQueue) \in Seq(Item)
    BY <1>1 DEF ProcGet, ProcessorTypeOK
  <2>2. QED BY <1>1, <2>1, StoreUnchanged DEF ProcGet, ProcessorTypeOK
<1>2. CASE ProcCall
  <2>1. StoreTypeOK'
    BY <1>2, ItemInHand, ServerWritesProperties, StoreUnchanged DEF ProcCall
  <2>2. ProcessorTypeOK'
    BY <1>2, ItemInHand, VerdictType DEF ProcCall, ProcessorTypeOK
  <2>3. QED BY <2>1, <2>2
<1>3. CASE ProcCallFails
  <2>1. StoreTypeOK'
    BY <1>3, ItemInHand, ServerWritesProperties, StoreUnchanged DEF ProcCallFails
  <2>2. ProcessorTypeOK'
    BY <1>3, ItemInHand DEF ProcCallFails, ProcessorTypeOK
  <2>3. QED BY <2>1, <2>2
<1>4. ASSUME NEW n \in DOMAIN procDelayed, ProcBackoffOver(n)
      PROVE  StoreTypeOK' /\ ProcessorTypeOK'
  <2>1. n \in 1..Len(procDelayed) /\ procDelayed[n] \in Item
    BY DEF ProcessorTypeOK
  <2>2. RemoveAt(procDelayed, n) \in Seq(Item) /\ Append(procQueue, procDelayed[n]) \in Seq(Item)
    BY <2>1, RemoveAtProperties DEF ProcessorTypeOK
  <2>3. QED BY <1>4, <2>2, StoreUnchanged DEF ProcBackoffOver, ProcessorTypeOK
<1>5. QED BY <1>1, <1>2, <1>3, <1>4 DEF ProcessorMoves

LEMMA CallbackMovesType ==
  ASSUME StoreTypeOK, ProcessorTypeOK, CallbackMoves
  PROVE  StoreTypeOK' /\ ProcessorTypeOK'
<1>i. procItem \in Item /\ procItem.cr \in CRs
  BY ItemInHand DEF CallbackMoves
<1>1. CASE ProcForget
  BY <1>1, StoreUnchanged DEF ProcForget, ProcRelease, ProcessorTypeOK
<1>2. CASE ProcRetry
  <2>1. [procItem EXCEPT !.tries = @ + 1] \in Item
    BY <1>i, AnotherTry
  <2>2. Append(procDelayed, [procItem EXCEPT !.tries = @ + 1]) \in Seq(Item)
    BY <2>1 DEF ProcessorTypeOK
  <2>3. QED BY <1>2, <2>2, StoreUnchanged DEF ProcRetry, ProcRelease, ProcessorTypeOK
<1>3. CASE ProcDrop
  BY <1>3, <1>i, StoreUnchanged DEF ProcDrop, ProcRelease, ProcessorTypeOK
<1>4. CASE UNCHANGED <<storeVars, procQueue, procDelayed, procItem, procResult, gaveUp, faults>>
           /\ procPc' = "requeue"
  BY <1>4, <1>i, StoreUnchanged DEF ProcessorTypeOK
<1>5. QED BY <1>1, <1>2, <1>3, <1>4 DEF CallbackMoves

(***************************************************************************)
(* What the processor has in store for resource r: an item the API server  *)
(* would accept, a write of it the cache has yet to see, or the knowledge  *)
(* that its last item was dropped.                                         *)
(***************************************************************************)
Accepted(i, r) == i.cr = r /\ Answer(i, server[r]) = "ok"

InProcessor ==
  Range(procQueue) \cup Range(procDelayed) \cup
    {i \in {procItem} : procPc = "call" \/ (procPc = "callback" /\ procResult = "error")}

InStore(r) ==
  \/ watch[r] # <<>>
  \/ \E i \in InProcessor : Accepted(i, r)
  \/ r \in gaveUp

\* A write of the API server is seen by the cache.
LEMMA WriteIsWatched ==
  ASSUME StoreTypeOK, NEW r \in CRs,
         NEW x \in CRs, NEW c \in Specs \cup {Absent}, ServerWrites(x, c)
  PROVE  \/ watch'[r] # <<>>
         \/ x # r /\ server'[r] = server[r] /\ watch'[r] = watch[r]
<1>1. CASE x = r
  <2>1. watch'[r] = Append(watch[r], server'[r]) /\ server'[r] \in Objects
    BY <1>1, ServerWritesProperties DEF StoreTypeOK
  <2>2. watch[r] \in Seq(Objects)
    BY DEF StoreTypeOK
  <2>3. QED BY <2>1, <2>2
<1>2. CASE x # r
  BY <1>2, ServerWritesProperties
<1>3. QED BY <1>1, <1>2

\* A step that keeps the stores, and every item or its like.
LEMMA StoreKept ==
  ASSUME NEW r \in CRs, InStore(r), server'[r] = server[r], watch'[r] = watch[r],
         gaveUp \subseteq gaveUp',
         \A i \in InProcessor : Accepted(i, r) => (\E j \in InProcessor' : j.cr = r /\ Answer(j, server[r]) = "ok")
                                                  \/ r \in gaveUp'
  PROVE  InStore(r)'
BY DEF InStore, Accepted

LEMMA ProcessorMovesLoseNothing ==
  ASSUME StoreTypeOK, ProcessorTypeOK, NEW r \in CRs, InStore(r), ProcessorMoves
  PROVE  InStore(r)'
<1>t. procQueue \in Seq(Item) /\ procDelayed \in Seq(Item)
  BY DEF ProcessorTypeOK
<1>1. CASE ProcGet
  <2>1. /\ procPc = "idle" /\ procQueue # <<>> /\ procQueue' = Tail(procQueue)
        /\ procItem' = Head(procQueue) /\ procPc' = "call"
        /\ UNCHANGED <<procDelayed, gaveUp, storeVars>>
    BY <1>1 DEF ProcGet
  <2>2. Range(procQueue) \subseteq {procItem'} \cup Range(procQueue')
    BY <1>t, <2>1, RangeOfHeadAndTail
  <2>3. InProcessor \subseteq InProcessor'
    BY <2>1, <2>2 DEF InProcessor
  <2>4. QED BY <2>1, <2>3, StoreKept DEF storeVars, Accepted
<1>2. CASE ProcCall
  <2> SUFFICES ASSUME watch'[r] = <<>>
               PROVE  InStore(r)'
    BY DEF InStore
  <2>1. /\ procPc = "call" /\ procPc' = "callback" /\ procResult' = Verdict(procItem)
        /\ UNCHANGED <<procQueue, procDelayed, procItem, gaveUp>>
    BY <1>2 DEF ProcCall
  <2>2. server'[r] = server[r] /\ watch'[r] = watch[r] /\ ~ Accepted(procItem, r)
    <3>1. CASE Verdict(procItem) = "ok"
      <4>1. ServerWrites(procItem.cr, procItem.spec)
        BY <1>2, <3>1 DEF ProcCall
      <4>2. procItem.cr # r /\ server'[r] = server[r] /\ watch'[r] = watch[r]
        BY <2>1, <4>1, ItemInHand, WriteIsWatched
      <4>3. QED BY <4>2 DEF Accepted
    <3>2. CASE Verdict(procItem) # "ok"
      BY <1>2, <3>2 DEF ProcCall, Accepted, Verdict, storeVars
    <3>3. QED BY <3>1, <3>2
  <2>3. InProcessor \subseteq InProcessor' \cup {procItem}
    BY <2>1 DEF InProcessor
  <2>4. QED BY <2>1, <2>2, <2>3, StoreKept DEF Accepted
<1>3. CASE ProcCallFails
  <2> SUFFICES ASSUME watch'[r] = <<>>
               PROVE  InStore(r)'
    BY DEF InStore
  <2>1. /\ procPc = "call" /\ procPc' = "callback" /\ procResult' = "error"
        /\ UNCHANGED <<procQueue, procDelayed, procItem, gaveUp>>
    BY <1>3 DEF ProcCallFails
  <2>2. server'[r] = server[r] /\ watch'[r] = watch[r]
    BY <1>3, <2>1, ItemInHand, WriteIsWatched DEF ProcCallFails, storeVars
  <2>3. InProcessor \subseteq InProcessor'
    BY <2>1 DEF InProcessor
  <2>4. QED BY <2>1, <2>2, <2>3, StoreKept DEF Accepted
<1>4. ASSUME NEW n \in DOMAIN procDelayed, ProcBackoffOver(n)
      PROVE  InStore(r)'
  <2>1. /\ procQueue' = Append(procQueue, procDelayed[n])
        /\ procDelayed' = RemoveAt(procDelayed, n)
        /\ UNCHANGED <<procPc, procItem, procResult, gaveUp, storeVars>>
    BY <1>4 DEF ProcBackoffOver
  <2>2. n \in 1..Len(procDelayed) /\ procDelayed[n] \in Item
    BY <1>t
  <2>3. /\ Range(procQueue') = Range(procQueue) \cup {procDelayed[n]}
        /\ Range(procDelayed) \subseteq Range(procDelayed') \cup {procDelayed[n]}
    BY <1>t, <2>1, <2>2, RangeOfAppend, RangeOfRemoveAt
  <2>4. InProcessor \subseteq InProcessor'
    BY <2>1, <2>3 DEF InProcessor
  <2>5. QED BY <2>1, <2>4, StoreKept DEF storeVars, Accepted
<1>5. QED BY <1>1, <1>2, <1>3, <1>4 DEF ProcessorMoves

LEMMA CallbackMovesLoseNothing ==
  ASSUME StoreTypeOK, ProcessorTypeOK, NEW r \in CRs, InStore(r), CallbackMoves
  PROVE  InStore(r)'
<1>i. procItem \in Item /\ procItem.cr \in CRs
  BY ItemInHand DEF CallbackMoves
<1>1. CASE procPc = "requeue" \/ (procPc = "callback" /\ procResult # "error")
  <2>1. /\ UNCHANGED <<storeVars, procQueue, procDelayed, gaveUp>>
        /\ procPc' = "idle" \/ (procPc' = "requeue" /\ procItem' = procItem)
    BY <1>1 DEF CallbackMoves, ProcForget, ProcRelease
  <2>2. InProcessor \subseteq InProcessor'
    BY <1>1, <2>1 DEF InProcessor
  <2>3. QED BY <2>1, <2>2, StoreKept DEF storeVars, Accepted
<1>2. CASE procPc = "callback" /\ procResult = "error" /\ ProcRetry
  <2> DEFINE again == [procItem EXCEPT !.tries = @ + 1]
  <2>1. procDelayed' = Append(procDelayed, again) /\ UNCHANGED <<storeVars, procQueue, gaveUp>>
    BY <1>2 DEF ProcRetry
  <2>2. /\ again \in Item /\ again.cr = procItem.cr
        /\ Answer(again, server[r]) = Answer(procItem, server[r])
    BY <1>i, AnotherTry DEF StoreTypeOK
  <2> HIDE DEF again
  <2>3. Range(procDelayed') = Range(procDelayed) \cup {again}
    BY <2>1, <2>2, RangeOfAppend DEF ProcessorTypeOK
  <2>4. InProcessor \subseteq InProcessor' \cup {procItem} /\ again \in InProcessor'
    BY <2>1, <2>3 DEF InProcessor
  <2>5. QED BY <2>1, <2>2, <2>4, StoreKept DEF storeVars, Accepted
<1>3. CASE procPc = "callback" /\ procResult = "error" /\ ProcDrop
  <2>1. gaveUp' = gaveUp \cup {procItem.cr} /\ UNCHANGED <<storeVars, procQueue, procDelayed>>
    BY <1>3 DEF ProcDrop
  <2>2. InProcessor \subseteq InProcessor' \cup {procItem}
    BY <2>1 DEF InProcessor
  <2>3. QED BY <2>1, <2>2, StoreKept DEF storeVars, Accepted
<1>4. QED BY <1>1, <1>2, <1>3 DEF CallbackMoves

(***************************************************************************)
(* The processor invents no items, but for counting their tries.           *)
(***************************************************************************)
HeldItems ==
  Range(procQueue) \cup Range(procDelayed) \cup {j \in {procItem} : procPc # "idle"}

LEMMA HeldItemsType == ProcessorTypeOK => HeldItems \subseteq Item
BY DEF ProcessorTypeOK, HeldItems, Range

LEMMA ProcessorMovesInventNothing ==
  ASSUME ProcessorTypeOK, ProcessorMoves
  PROVE  HeldItems' \subseteq HeldItems
<1>t. procQueue \in Seq(Item) /\ procDelayed \in Seq(Item)
  BY DEF ProcessorTypeOK
<1>1. CASE ProcGet
  <2>1. /\ procQueue # <<>> /\ procQueue' = Tail(procQueue)
        /\ procItem' = Head(procQueue) /\ procDelayed' = procDelayed
    BY <1>1 DEF ProcGet
  <2>2. Head(procQueue) \in Range(procQueue) /\ Range(Tail(procQueue)) \subseteq Range(procQueue)
    BY <1>t, <2>1, NothingNewInRest
  <2>3. QED BY <2>1, <2>2 DEF HeldItems
<1>2. CASE ProcCall \/ ProcCallFails
  BY <1>2 DEF ProcCall, ProcCallFails, HeldItems
<1>3. ASSUME NEW n \in DOMAIN procDelayed, ProcBackoffOver(n)
      PROVE  HeldItems' \subseteq HeldItems
  <2>1. n \in 1..Len(procDelayed) /\ procDelayed[n] \in Item
    BY <1>t
  <2>2. /\ Range(Append(procQueue, procDelayed[n])) = Range(procQueue) \cup {procDelayed[n]}
        /\ Range(RemoveAt(procDelayed, n)) \subseteq Range(procDelayed)
    BY <1>t, <2>1, RangeOfAppend, NothingNewAfterRemoval
  <2>3. procDelayed[n] \in Range(procDelayed)
    BY DEF Range
  <2>4. QED BY <1>3, <2>2, <2>3 DEF ProcBackoffOver, HeldItems
<1>4. QED BY <1>1, <1>2, <1>3 DEF ProcessorMoves

LEMMA CallbackMovesInventNothing ==
  ASSUME ProcessorTypeOK, CallbackMoves
  PROVE  \A i \in HeldItems' :
           i \in HeldItems \/ \E j \in HeldItems : i = [j EXCEPT !.tries = @ + 1]
<1>1. CASE ProcForget \/ ProcDrop
  BY <1>1 DEF ProcForget, ProcDrop, ProcRelease, HeldItems
<1>2. CASE ProcRetry /\ procPc = "callback"
  <2> DEFINE again == [procItem EXCEPT !.tries = @ + 1]
  <2>1. procItem \in Item /\ procItem \in HeldItems
    BY <1>2, ItemInHand DEF HeldItems
  <2>2. again \in Item
    BY <2>1, AnotherTry
  <2>3. procDelayed' = Append(procDelayed, again) /\ procQueue' = procQueue /\ procPc' = "idle"
    BY <1>2 DEF ProcRetry, ProcRelease
  <2> HIDE DEF again
  <2>4. Range(procDelayed') = Range(procDelayed) \cup {again}
    BY <2>2, <2>3, RangeOfAppend DEF ProcessorTypeOK
  <2>5. HeldItems' \subseteq HeldItems \cup {again}
    BY <2>3, <2>4 DEF HeldItems
  <2>6. QED BY <2>1, <2>5 DEF again
<1>3. CASE procPc = "callback" /\ UNCHANGED <<procQueue, procDelayed, procItem>>
  BY <1>3 DEF HeldItems
<1>4. CASE procPc = "requeue" /\ UNCHANGED <<procQueue, procDelayed, procItem>>
  BY <1>4 DEF HeldItems
<1>5. QED BY <1>1, <1>2, <1>3, <1>4 DEF CallbackMoves
=============================================================================
