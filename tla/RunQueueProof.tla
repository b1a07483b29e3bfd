--------------------------- MODULE RunQueueProof ---------------------------
(***************************************************************************)
(* The lock-free run queue is correct for any number of tasks and          *)
(* producers: its links stay intact, a RUN_QUEUED bit stands for one       *)
(* place, no wake-up is lost, and it implements the atomic queue.          *)
(***************************************************************************)
EXTENDS RunQueue, SeqFacts

\* A producer that is about to exchange has linked its task to what it believes is the
\* head, so a successful exchange leaves the links intact.
StoredPrev == \A p \in Producers : ppc[p] = "cas" => next[item[p]] = prev[p]

\* The consumer has an empty queue behind it from its exchange on: the first enqueuer
\* after it signals, and the signal stays until the consumer wakes.
SignalOwed ==
    queue # <<>> /\ cpc # "swap" => event \/ \E p \in Producers : ppc[p] = "signal"

\* The inductive invariant.
IndInv ==
    /\ TypeOK
    /\ LinksIntact
    /\ OnePlace
    /\ StoredPrev
    /\ SignalOwed

\* The initial states satisfy the inductive invariant.
LEMMA InitInv == Init => IndInv
  <1> SUFFICES ASSUME Init PROVE IndInv
    OBVIOUS
  <1>1. <<>> \in Seq(Tasks) /\ Len(<<>>) = 0
    BY EmptySeq
  <1>2. TypeOK
    BY <1>1 DEF Init, TypeOK
  <1>3. LinksIntact
    BY <1>1 DEF Init, LinksIntact, Linked, Newest
  <1>4. OnePlace
    BY <1>1 DEF Init, OnePlace, Distinct, Linking
  <1>5. StoredPrev /\ SignalOwed
    BY <1>1 DEF Init, StoredPrev, SignalOwed
  <1> QED
    BY <1>2, <1>3, <1>4, <1>5 DEF IndInv

\* Every step of a producer or of the consumer keeps the inductive invariant.
LEMMA StepInv == IndInv /\ [Next]_vars => IndInv'
  <1> SUFFICES ASSUME IndInv, [Next]_vars PROVE IndInv'
    OBVIOUS
  <1> USE RunQueueAssumption
  <1>0. /\ Len(queue) \in Nat /\ (queue = <<>> <=> Len(queue) = 0)
        /\ Len(batch) \in Nat /\ (batch = <<>> <=> Len(batch) = 0)
        /\ \A i \in 1..Len(queue) : queue[i] \in Tasks
        /\ \A i \in 1..Len(batch) : batch[i] \in Tasks
    BY LenZero, ElementOfSeq DEF IndInv, TypeOK
  <1>1. ASSUME NEW p \in Producers, NEW t \in Tasks, Claim(p, t) PROVE IndInv'
    <2>1. TypeOK'
      BY <1>0, <1>1 DEF Claim, IndInv, TypeOK, consumerVars
    <2>2. LinksIntact'
      BY <1>0, <1>1 DEF Claim, IndInv, TypeOK, LinksIntact, Linked, Newest, consumerVars
    <2>3. OnePlace'
      BY <1>0, <1>1 DEF Claim, IndInv, TypeOK, OnePlace, Distinct, Linking, consumerVars
    <2>4. StoredPrev'
      BY <1>0, <1>1 DEF Claim, IndInv, TypeOK, StoredPrev, OnePlace, Linking, consumerVars
    <2>5. SignalOwed'
      BY <1>0, <1>1 DEF Claim, IndInv, TypeOK, SignalOwed, consumerVars
    <2> QED
      BY <2>1, <2>2, <2>3, <2>4, <2>5 DEF IndInv
  <1>2. ASSUME NEW p \in Producers, Load(p) PROVE IndInv'
    BY <1>0, <1>2 DEF Load, IndInv, TypeOK, LinksIntact, OnePlace, StoredPrev, SignalOwed, Newest,
        Linked, Distinct, Linking, consumerVars
  <1>3. ASSUME NEW p \in Producers, StoreNext(p) PROVE IndInv'
    BY <1>0, <1>3 DEF StoreNext, IndInv, TypeOK, LinksIntact, OnePlace, StoredPrev, SignalOwed, Newest,
        Linked, Distinct, Linking, consumerVars
  <1>4. ASSUME NEW p \in Producers, CasOk(p) PROVE IndInv'
    BY <1>0, <1>4 DEF CasOk, IndInv, TypeOK, LinksIntact, OnePlace, StoredPrev, SignalOwed, Newest,
        Linked, Distinct, Linking, consumerVars
  <1>5. ASSUME NEW p \in Producers, CasFail(p) PROVE IndInv'
    BY <1>0, <1>5 DEF CasFail, IndInv, TypeOK, LinksIntact, OnePlace, StoredPrev, SignalOwed, Newest,
        Linked, Distinct, Linking, consumerVars
  <1>6. ASSUME NEW p \in Producers, Signal(p) PROVE IndInv'
    BY <1>0, <1>6 DEF Signal, IndInv, TypeOK, LinksIntact, OnePlace, StoredPrev, SignalOwed, Newest,
        Linked, Distinct, Linking, consumerVars
  <1>7. CASE Wake
    <2>1. TypeOK'
      BY <1>0, <1>7 DEF Wake, IndInv, TypeOK, producerVars
    <2>2. LinksIntact'
      BY <1>0, <1>7 DEF Wake, IndInv, TypeOK, LinksIntact, Linked, Newest, producerVars
    <2>3. OnePlace'
      BY <1>0, <1>7 DEF Wake, IndInv, TypeOK, OnePlace, Distinct, Linking, producerVars
    <2>4. StoredPrev'
      BY <1>0, <1>7 DEF Wake, IndInv, TypeOK, StoredPrev, OnePlace, Linking, producerVars
    <2>5. SignalOwed'
      BY <1>0, <1>7 DEF Wake, IndInv, TypeOK, SignalOwed, producerVars
    <2> QED
      BY <2>1, <2>2, <2>3, <2>4, <2>5 DEF IndInv
  <1>8. CASE SpuriousWake
    BY <1>0, <1>8 DEF SpuriousWake, IndInv, TypeOK, LinksIntact, OnePlace, StoredPrev, SignalOwed, Newest,
        Linked, Distinct, Linking, producerVars
  <1>9. CASE Swap
    BY <1>0, <1>9, EmptySeq DEF Swap, IndInv, TypeOK, LinksIntact, OnePlace, StoredPrev, SignalOwed, Newest,
        Linked, Distinct, Linking, producerVars
  <1>10. CASE ReadNext
    BY <1>0, <1>10 DEF ReadNext, IndInv, TypeOK, LinksIntact, OnePlace, StoredPrev, SignalOwed, Newest,
        Linked, Distinct, Linking, producerVars
  <1>11. CASE OnTask
    <2>1. batch # <<>> /\ task = batch[Len(batch)]
      BY <1>11 DEF OnTask, IndInv, LinksIntact, Newest
    <2>2. /\ batch' \in Seq(Tasks)
          /\ Len(batch) \in Nat \ {0}
          /\ Len(batch') = Len(batch) - 1
          /\ \A i \in 1..(Len(batch) - 1) : batch'[i] = batch[i]
      BY <1>11, <2>1, Popped DEF OnTask, IndInv, TypeOK
    <2>3. /\ cpc = "call" /\ cpc' = "run" /\ claimed' = claimed \ {task}
          /\ UNCHANGED <<head, next, ppc, item, prev, task, nxt, event, queue>>
      BY <1>11 DEF OnTask, producerVars
    <2>4. TypeOK'
      BY <2>2, <2>3 DEF IndInv, TypeOK
    <2>5. batch' = <<>> <=> Len(batch') = 0
      BY <2>2, LenZero
    <2>6. LinksIntact'
      <3>1. Linked(batch)'
        BY <2>2, <2>3 DEF IndInv, LinksIntact, Linked
      <3>2. nxt = Newest(batch)'
        BY <1>0, <2>1, <2>2, <2>3, <2>5 DEF IndInv, LinksIntact, Linked, Newest
      <3> QED
        BY <2>3, <3>1, <3>2 DEF IndInv, LinksIntact, Linked, Newest
    <2>7. OnePlace'
      <3>1. \A i \in 1..Len(batch') : i \in 1..Len(batch) /\ batch'[i] = batch[i] /\ batch'[i] # task
        BY <2>1, <2>2 DEF IndInv, OnePlace, Distinct
      <3>2. \A t \in claimed' :
               (\E i \in 1..Len(batch) : batch[i] = t) => \E i \in 1..Len(batch') : batch'[i] = t
        BY <2>1, <2>2, <2>3
      <3>3. \A i \in 1..Len(queue) : queue[i] # task
        BY <2>1, <2>2 DEF IndInv, OnePlace
      <3>4. \A p \in Producers : Linking(p) => item[p] # task
        BY <2>1, <2>2 DEF IndInv, OnePlace
      <3> QED
        BY <2>3, <3>1, <3>2, <3>3, <3>4 DEF IndInv, OnePlace, Distinct, Linking
    <2>8. StoredPrev' /\ SignalOwed'
      BY <2>3 DEF IndInv, StoredPrev, SignalOwed
    <2> QED
      BY <2>4, <2>6, <2>7, <2>8 DEF IndInv
  <1>12. CASE Advance
    BY <1>0, <1>12 DEF Advance, IndInv, TypeOK, LinksIntact, OnePlace, StoredPrev, SignalOwed, Newest,
        Linked, Distinct, Linking, producerVars
  <1>13. CASE UNCHANGED vars
    BY <1>13 DEF vars, IndInv, TypeOK, LinksIntact, OnePlace, StoredPrev, SignalOwed, Newest,
        Linked, Distinct, Linking
  <1> QED
    BY <1>1, <1>2, <1>3, <1>4, <1>5, <1>6, <1>7, <1>8, <1>9, <1>10, <1>11, <1>12, <1>13
    DEF Next, Produce, Consume

\* The inductive invariant holds for ever.
LEMMA Invariant == Spec => []IndInv
  BY InitInv, StepInv, PTL DEF Spec

\* Whatever the interleaving of wakers and executor, no link is lost or left dangling.
THEOREM LinksHold == Spec => []LinksIntact
  <1>1. IndInv => LinksIntact
    BY DEF IndInv
  <1> QED
    BY <1>1, Invariant, PTL

\* No task is linked twice or marked RUN_QUEUED without being queued.
THEOREM QueueIsSound == Spec => [](TypeOK /\ OnePlace)
  <1>1. IndInv => TypeOK /\ OnePlace
    BY DEF IndInv
  <1> QED
    BY <1>1, Invariant, PTL

\* An executor never sleeps on a non-empty queue without a signal on its way.
THEOREM WakeupsArrive == Spec => []NoLostWakeup
  <1>1. IndInv => NoLostWakeup
    BY DEF IndInv, SignalOwed, NoLostWakeup
  <1> QED
    BY <1>1, Invariant, PTL

-----------------------------------------------------------------------------
(* The refinement.                                                         *)

\* The initial states are initial states of the atomic queue.
LEMMA InitRefines == Init => Atomic!Init
  BY DEF Init, Atomic!Init

\* A step is a step of the atomic queue or leaves it unchanged.
LEMMA StepRefines == IndInv /\ IndInv' /\ [Next]_vars => [Atomic!Next]_Atomic!vars
  <1> SUFFICES ASSUME IndInv, IndInv', [Next]_vars PROVE [Atomic!Next]_Atomic!vars
    OBVIOUS
  <1> USE RunQueueAssumption DEF Atomic!Next
  <1>1. ASSUME NEW p \in Producers, NEW t \in Tasks, Claim(p, t) PROVE Atomic!Claim(t)
    BY <1>1 DEF Claim, Atomic!Claim, consumerVars, IndInv, TypeOK
  <1>2. ASSUME NEW p \in Producers, Load(p) \/ StoreNext(p) \/ CasFail(p)
        PROVE  UNCHANGED Atomic!vars
    BY <1>2 DEF Atomic!vars, Load, StoreNext, CasFail, consumerVars, IndInv, TypeOK
  <1>3. ASSUME NEW p \in Producers, CasOk(p)
        PROVE  \E t \in Tasks : Atomic!Push(t)
    BY <1>3 DEF CasOk, Atomic!Push, consumerVars, IndInv, TypeOK, OnePlace, LinksIntact, Newest, Linking
  <1>4. ASSUME NEW p \in Producers, Signal(p) PROVE UNCHANGED Atomic!vars
    BY <1>4 DEF Atomic!vars, Signal, consumerVars, IndInv, TypeOK
  <1>5. CASE Wake \/ SpuriousWake
    BY <1>5 DEF Wake, SpuriousWake, Atomic!Wake, producerVars, IndInv, TypeOK
  <1>6. CASE Swap
    BY <1>6 DEF Swap, Atomic!TakeAll, producerVars, IndInv, TypeOK, LinksIntact, Newest
  <1>7. CASE ReadNext
    BY <1>7 DEF Atomic!vars, ReadNext, producerVars
  <1>8. CASE OnTask
    BY <1>8 DEF OnTask, Atomic!Deliver, producerVars, IndInv, TypeOK, LinksIntact, Newest
  <1>9. CASE Advance
    BY <1>9 DEF Advance, Atomic!Return, producerVars, IndInv, TypeOK, LinksIntact, Newest
  <1>10. CASE UNCHANGED vars
    BY <1>10 DEF Atomic!vars, vars
  <1>11. ASSUME NEW p \in Producers, Produce(p) PROVE [Atomic!Next]_Atomic!vars
    <2>1. CASE CasOk(p)
      BY <1>3, <2>1
    <2>2. CASE Load(p) \/ StoreNext(p) \/ CasFail(p) \/ Signal(p)
      BY <1>2, <1>4, <2>2
    <2> QED
      BY <1>11, <2>1, <2>2 DEF Produce
  <1>12. ASSUME NEW p \in Producers, NEW t \in Tasks, Claim(p, t) PROVE [Atomic!Next]_Atomic!vars
    BY <1>1, <1>12
  <1> QED
    BY <1>5, <1>6, <1>7, <1>8, <1>9, <1>10, <1>11, <1>12 DEF Next, Consume

\* The lock-free queue implements the atomic one.
THEOREM Refinement == Spec => ImplementsBatchQueue
  BY InitRefines, StepRefines, Invariant, PTL DEF Spec, ImplementsBatchQueue, Atomic!Spec
=============================================================================
