------------------------- MODULE EvaluatorLoopProofs -------------------------
(***************************************************************************)
(* Theorems about EvaluatorLoop: for any number of producers and           *)
(* evaluators, or where it says so for one evaluator, and for any          *)
(* threshold, with and without an interval and spurious wakeups.           *)
(***************************************************************************)
EXTENDS EvaluatorLoop, NatSetTheorems

-----------------------------------------------------------------------------
(* Counting. *)

\* There are workers, and what they own are producers.
LEMMA OwnedAreProducers ==
    /\ WorkerCount \in Nat \ {0}
    /\ IsFiniteSet(Producers)
    /\ \A w \in Workers : Owned(w) \subseteq Producers /\ IsFiniteSet(Owned(w))
<1>1. WorkerCount \in Nat \ {0}
  BY LoopAssumption DEF WorkerCount, worker_count_for
<1>2. IsFiniteSet(Producers)
  BY LoopAssumption, FS_Interval DEF Producers
<1>3. \A w \in Workers : Owned(w) \subseteq Producers
  BY <1>1, LoopAssumption, OwnedInRange DEF Owned, Workers, Producers
<1> QED
  BY <1>1, <1>2, <1>3, FS_Subset

\* What is pending is a number, zero when no member has anything.
LEMMA PendingType ==
    ASSUME NEW S \in SUBSET Producers, TypeOK
    PROVE  PendingOf(S) \in Nat /\ ((\A p \in S : entry_count[p] = 0) => PendingOf(S) = 0)
<1>1. IsFiniteSet(S) /\ \A p \in S : entry_count[p] \in Nat
  BY OwnedAreProducers, FS_Subset DEF TypeOK
<1>2. PendingOf(S) = Total(entry_count, S)
  BY DEF PendingOf, Total
<1>3. Total(entry_count, S) \in Nat
  BY <1>1, TotalSplit
<1>4. ASSUME \A p \in S : entry_count[p] = 0 PROVE Total(entry_count, S) = 0
  <2>1. Total(entry_count, S) = Total(entry_count, S) - Total(entry_count, S)
    BY <1>1, <1>4, TotalClear
  <2> QED
    BY <1>3, <2>1
<1> QED
  BY <1>2, <1>3, <1>4

PendingIsTotal == \A S : PendingOf(S) = Total(entry_count, S)

\* PendingOf is a total, in this state and in the next.
LEMMA PendingTotal == PendingIsTotal
BY DEF PendingIsTotal, PendingOf, Total

LEMMA PendingTotalNext == PendingIsTotal'
BY PendingTotal, PTL

\* It changes with the counters only.
LEMMA PendingSame ==
    ASSUME entry_count' = entry_count, NEW S
    PROVE  PendingOf(S)' = PendingOf(S)
BY PendingTotal, PendingTotalNext DEF PendingIsTotal

PendingTypesOK ==
    TypeOK => \A S \in SUBSET Producers :
        PendingOf(S) \in Nat /\ ((\A p \in S : entry_count[p] = 0) => PendingOf(S) = 0)

\* The same of all sets at once.
LEMMA PendingTypes == PendingTypesOK
BY PendingType DEF PendingTypesOK

\* The same of the next state.
LEMMA PendingTypesNext == PendingTypesOK'
BY PendingTypes, PTL

-----------------------------------------------------------------------------
\* cv.notify_all leaves no sleeper.
LEMMA NotifyAllWakes ==
    ASSUME evaluator' = notify_all
    PROVE  Sleeping' = {}
BY DEF notify_all, Sleeping, Wake

\* One operation more.
LEMMA OneMore ==
    /\ \A c \in 0 .. MaxOps : c < MaxOps => c + 1 \in 0 .. MaxOps
    /\ \A f \in [Producers -> Nat] : \A p \in Producers :
          [f EXCEPT ![p] = @ + 1] \in [Producers -> Nat]
BY LoopAssumption

\* Every step keeps the types.
LEMMA TypeStep == TypeOK /\ [Next]_vars => TypeOK'
<1> SUFFICES ASSUME TypeOK, [Next]_vars PROVE TypeOK'
  OBVIOUS
<1> USE DEF TypeOK, EvaluatorStates
<1>1. /\ notify_all \in [Workers -> EvaluatorStates]
      /\ \A w : Wake(w) \in EvaluatorStates
      /\ \A S : Drained(S) \in [Producers -> Nat]
  BY DEF notify_all, Wake, Drained
<1>2. ASSUME NEW p \in Producers, Account(p) PROVE TypeOK'
  <2>1. evaluator' \in [Workers -> EvaluatorStates]
    BY <1>1, <1>2 DEF Account, notify_one
  <2>2. counted \in 0 .. MaxOps /\ counted < MaxOps /\ counted' = counted + 1
    BY <1>2 DEF Account
  <2>3. counted' \in 0 .. MaxOps
    BY <2>2, OneMore
  <2>4. entry_count' \in [Producers -> Nat]
    BY <1>2, OneMore DEF Account
  <2>5. UNCHANGED <<stop_requested, destructor>>
    BY <1>2 DEF Account
  <2> QED
    BY <2>1, <2>3, <2>4, <2>5, Zenon
<1>3. CASE drain_pending
  BY <1>1, <1>3 DEF drain_pending
<1>4. CASE Destroy
  BY <1>1, <1>4 DEF Destroy
<1>5. CASE DestroyNotify
  BY <1>1, <1>5 DEF DestroyNotify
<1>6. CASE DestroyJoin
  BY <1>6 DEF DestroyJoin
<1>7. ASSUME NEW w \in Workers, Evaluate(w) \/ Timeout(w) \/ SpuriousWakeup(w) PROVE TypeOK'
  <2>1. evaluator' \in [Workers -> EvaluatorStates]
    BY <1>1, <1>7 DEF Evaluate, LoopExit, LoopDrain, LoopRest, Rest, SleepOn, Timeout,
                      SpuriousWakeup
  <2>2. entry_count' \in [Producers -> Nat]
    BY <1>1, <1>7 DEF Evaluate, LoopExit, LoopDrain, LoopRest, SleepOn, Timeout,
                      SpuriousWakeup
  <2> QED
    BY <1>7, <2>1, <2>2 DEF Evaluate, LoopExit, LoopDrain, LoopRest, SleepOn, Timeout,
                            SpuriousWakeup
<1>8. CASE UNCHANGED vars
  BY <1>8 DEF vars
<1> QED
  BY <1>2, <1>3, <1>4, <1>5, <1>6, <1>7, <1>8 DEF Next, Done

\* The counters stay natural numbers and every thread stays in its loop
\* (TypeOK), through any mix of accounting, drains, wakeups and shutdown.
THEOREM LoopTypeCorrect == Spec => []TypeOK
<1>1. Init => TypeOK
  <2>1. 0 \in Nat /\ 0 \in 0 .. MaxOps
    BY LoopAssumption
  <2>2. "top" \in EvaluatorStates
    BY DEF EvaluatorStates
  <2> QED
    BY <2>1, <2>2, Zenon DEF Init, TypeOK
<1> QED
  BY <1>1, TypeStep, PTL DEF Spec

-----------------------------------------------------------------------------
(* Shutdown.  Whether it ends is a matter of fairness; that nothing can    *)
(* keep it from ending is not.                                             *)

\* One notification is enough to stop any number of evaluators
\* (NobodySleepsOn), wherever in their loops it finds them.
THEOREM StopIsHeard == Spec => []NobodySleepsOn
<1>1. Init => NobodySleepsOn
  BY DEF Init, NobodySleepsOn
<1>2. TypeOK /\ NobodySleepsOn /\ [Next]_vars => NobodySleepsOn'
  <2> SUFFICES ASSUME TypeOK, NobodySleepsOn, [Next]_vars PROVE NobodySleepsOn'
    OBVIOUS
  <2>1. CASE \/ drain_pending \/ Destroy \/ DestroyJoin \/ UNCHANGED vars
             \/ \E p \in Producers : Account(p)
    BY <2>1 DEF NobodySleepsOn, drain_pending, Destroy, DestroyJoin, Account, Sleeping, vars
  <2>2. CASE DestroyNotify
    BY <2>2, NotifyAllWakes DEF DestroyNotify, NobodySleepsOn
  <2>3. ASSUME NEW w \in Workers, Evaluate(w) \/ Timeout(w) \/ SpuriousWakeup(w)
        PROVE  NobodySleepsOn'
    <3>1. UNCHANGED <<stop_requested, destructor>>
      BY <2>3 DEF Evaluate, LoopExit, LoopDrain, LoopRest, SleepOn, Timeout, SpuriousWakeup
    <3>2. ASSUME stop_requested, Sleeping = {} PROVE Sleeping' = {}
      <4>1. ~SpuriousWakeup(w) /\ ~SleepOn(w) /\ ~LoopDrain(w) /\ ~LoopRest(w)
        BY <3>2 DEF SpuriousWakeup, SleepOn, InLoop, LoopDrain, LoopRest
      <4>2. \/ evaluator' = [evaluator EXCEPT ![w] = "exited"]
            \/ evaluator' = [evaluator EXCEPT ![w] = "timed_out"]
        BY <2>3, <4>1 DEF Evaluate, LoopExit, Timeout
      <4> QED
        BY <3>2, <4>2 DEF Sleeping, TypeOK
    <3> QED
      BY <3>1, <3>2 DEF NobodySleepsOn
  <2> QED
    BY <2>1, <2>2, <2>3 DEF Next, Done
<1> QED
  BY <1>1, <1>2, LoopTypeCorrect, PTL DEF Spec

-----------------------------------------------------------------------------
(* Wakeups.  cv.notify_one may wake the wrong one of several evaluators,   *)
(* so NoLostWakeup is a promise to a single one.                           *)

\* Nothing is owed to w as far as the counters go.
Unneeded(w) ==
    /\ ~should_checkpoint(w)
    /\ evaluator[w] = "wait" => ~WorkInSight(w) \/ stop_requested

\* What is due to a sleeper depends on the counters and on the stop.
LEMMA SleepersKeep ==
    ASSUME NEW w \in Workers, Unneeded(w), UNCHANGED <<entry_count, stop_requested>>,
           evaluator'[w] = evaluator[w]
    PROVE  Unneeded(w)'
<1>1. PendingOf(Owned(w))' = PendingOf(Owned(w)) /\ PendingOf(Producers)' = PendingOf(Producers)
  BY PendingSame
<1> QED
  BY <1>1 DEF Unneeded, should_checkpoint, WorkInSight, Owned

\* A thread that goes to sleep has drained its producers or they are below
\* the threshold, and it waits without a clock only if nothing is pending.
LEMMA SleepsForAReason ==
    ASSUME NEW w \in Workers, TypeOK, TypeOK', Evaluate(w), w \in Sleeping'
    PROVE  Unneeded(w)'
<1>1. /\ PendingOf(Owned(w))' \in Nat /\ PendingOf(Producers)' \in Nat
      /\ PendingOf(Owned(w)) \in Nat /\ PendingOf(Producers) \in Nat
  BY OwnedAreProducers, PendingTypes, PendingTypesNext DEF PendingTypesOK
<1>2. CASE LoopExit(w)
  BY <1>2 DEF LoopExit, Sleeping, TypeOK
<1>3. ASSUME ~should_checkpoint(w)', Rest(w) PROVE Unneeded(w)'
  <2>1. evaluator'[w] = IF Interval /\ PendingOf(Producers)' > 0 THEN "timed" ELSE "wait"
    BY <1>3 DEF Rest, TypeOK
  <2> QED
    BY <1>3, <2>1 DEF Unneeded, WorkInSight
<1>4. CASE LoopDrain(w)
  <2>1. \A p \in Owned(w) : entry_count'[p] = 0
    BY <1>4, OwnedAreProducers DEF LoopDrain, Drained
  <2>2. PendingOf(Owned(w))' = 0
    BY <2>1, OwnedAreProducers, PendingTypesNext DEF PendingTypesOK
  <2>3. ~should_checkpoint(w)'
    BY <2>2 DEF should_checkpoint, Owned
  <2> QED
    BY <1>3, <1>4, <2>3 DEF LoopDrain
<1>5. CASE LoopRest(w)
  <2>1. ~should_checkpoint(w)'
    BY <1>5, PendingSame DEF LoopRest, should_checkpoint
  <2> QED
    BY <1>3, <1>5, <2>1 DEF LoopRest
<1>6. CASE SleepOn(w)
  <2>1. /\ evaluator'[w] = "wait" => evaluator[w] = "woken"
        /\ evaluator[w] \in {"woken", "timed_woken"} /\ ~InLoop(w)
    BY <1>6 DEF SleepOn, TypeOK
  <2>2. ~should_checkpoint(w) /\ (evaluator'[w] = "wait" => ~WorkInSight(w))
    BY <2>1, LoopAssumption DEF InLoop, should_checkpoint, WorkInSight, async_checkpoint_enabled
  <2>3. PendingOf(Owned(w))' = PendingOf(Owned(w)) /\ PendingOf(Producers)' = PendingOf(Producers)
    BY <1>6, PendingSame DEF SleepOn
  <2> QED
    BY <2>2, <2>3 DEF Unneeded, should_checkpoint, WorkInSight, Owned
<1> QED
  BY <1>2, <1>4, <1>5, <1>6 DEF Evaluate

\* No wakeup is lost to a single evaluator (NoLostWakeup): whatever the order
\* of accounting, drains, timeouts and spurious wakeups, it never sleeps
\* while its producers are past the threshold, nor without a clock while
\* anything is pending and an interval is set.
THEOREM OneEvaluatorIsWoken == WorkerCount = 1 => (Spec => []NoLostWakeup)
<1> SUFFICES ASSUME WorkerCount = 1 PROVE Spec => []NoLostWakeup
  OBVIOUS
<1>1. Workers = {0}
  BY DEF Workers
<1>2. NoLostWakeup <=> \A w \in Sleeping : Unneeded(w)
  BY DEF NoLostWakeup, Unneeded
<1>3. NoLostWakeup' <=> \A w \in Sleeping' : Unneeded(w)'
  BY DEF NoLostWakeup, Unneeded
<1>4. Init => NoLostWakeup
  BY DEF Init, NoLostWakeup, Sleeping
<1>5. TypeOK /\ TypeOK' /\ NoLostWakeup /\ [Next]_vars => NoLostWakeup'
  <2> SUFFICES ASSUME TypeOK, TypeOK', NoLostWakeup, [Next]_vars, NEW w \in Sleeping'
               PROVE  Unneeded(w)'
    BY <1>3
  <2>1. w \in Workers /\ w = 0
    BY <1>1 DEF Sleeping
  <2>2. ASSUME NEW p \in Producers, Account(p) PROVE FALSE
    <3>1. CASE Sleeping = {} /\ UNCHANGED evaluator
      BY <3>1 DEF Sleeping
    <3>2. ASSUME NEW v \in Sleeping, evaluator' = [evaluator EXCEPT ![v] = Wake(v)] PROVE FALSE
      BY <1>1, <2>1, <3>2 DEF Sleeping, Wake, TypeOK
    <3> QED
      BY <2>2, <3>1, <3>2 DEF Account, notify_one
  <2>3. CASE drain_pending \/ DestroyNotify
    BY <2>3, NotifyAllWakes DEF drain_pending, DestroyNotify
  <2>4. CASE Destroy
    <3>1. \A p \in Owned(w) : entry_count'[p] = 0
      BY <2>1, <2>4, OwnedAreProducers DEF Destroy, Drained
    <3>2. PendingOf(Owned(w))' = 0
      BY <2>1, <3>1, OwnedAreProducers, PendingTypesNext DEF PendingTypesOK
    <3>3. ~should_checkpoint(w)'
      BY <3>2 DEF should_checkpoint
    <3>4. stop_requested'
      BY <2>4, Zenon DEF Destroy
    <3> QED
      BY <3>3, <3>4, Zenon DEF Unneeded
  <2>5. CASE DestroyJoin \/ UNCHANGED vars
    BY <1>2, <2>1, <2>5, SleepersKeep DEF DestroyJoin, vars, Sleeping
  <2>6. ASSUME NEW v \in Workers, Evaluate(v) PROVE Unneeded(w)'
    BY <1>1, <2>1, <2>6, SleepsForAReason
  <2>7. ASSUME NEW v \in Workers, Timeout(v) \/ SpuriousWakeup(v) PROVE FALSE
    BY <1>1, <2>1, <2>7 DEF Timeout, SpuriousWakeup, Sleeping, Wake, TypeOK
  <2> QED
    BY <2>2, <2>3, <2>4, <2>5, <2>6, <2>7 DEF Next, Done
<1> QED
  BY <1>4, <1>5, LoopTypeCorrect, PTL DEF Spec

=============================================================================
