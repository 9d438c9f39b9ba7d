---------------------------- MODULE EvaluatorLoop ----------------------------
(***************************************************************************)
(* The evaluator threads of FutureBTree and the condition variable they    *)
(* sleep on (src/src/f3tree.cpp): who is woken by whom, what is drained    *)
(* when, and how the destructor gets every thread to leave.                *)
(*                                                                         *)
(* An evaluator holds mu from the moment it wakes to the moment it sleeps  *)
(* again, a drain holds it throughout, a producer while it counts its      *)
(* operation: each is one step.  Of the data only the counters matter.     *)
(***************************************************************************)
EXTENDS Integers, FiniteSets, FiniteSetsExt, Partition

CONSTANTS
    NProducers,        \* config.producer_threads
    EvaluatorThreads,  \* config.evaluator_threads
    NumaNodes,         \* topology.node_cpus.size(), 1 when unavailable
    EvaluatorsBound,   \* placement policy binds evaluators to nodes
    Threshold,         \* config.checkpoint_threshold_ops, 0 = off
    Interval,          \* config.checkpoint_interval_us > 0
    Spurious,          \* may the condition variable wake sleepers unasked
    MaxOps             \* bound: operations counted in a behaviour

Producers   == 0 .. (NProducers - 1)
WorkerCount == worker_count_for(EvaluatorsBound, EvaluatorThreads, NumaNodes)
Workers     == 0 .. (WorkerCount - 1)

ASSUME LoopAssumption ==
    /\ NProducers \in Nat \ {0}
    /\ EvaluatorThreads \in Nat \ {0}
    /\ NumaNodes \in Nat \ {0}
    /\ {EvaluatorsBound, Interval, Spurious} \subseteq BOOLEAN
    /\ Threshold \in Nat
    /\ MaxOps \in Nat

VARIABLES
    entry_count,     \* ptfo_threads[p].entry_count
    counted,         \* operations counted so far
    evaluator,       \* where each evaluator is
    stop_requested,
    destructor       \* how far ~FutureBTree has come

vars == <<entry_count, counted, evaluator, stop_requested, destructor>>

\* "top" is about to test the loop condition; "wait" sleeps in cv.wait and
\* "timed" in cv.wait_for; "woken" and "timed_woken" have been notified and
\* "timed_out" has slept its interval, all three without mu yet.
EvaluatorStates == {"top", "wait", "woken", "timed", "timed_woken", "timed_out", "exited"}

TypeOK ==
    /\ entry_count \in [Producers -> Nat]
    /\ counted \in 0 .. MaxOps
    /\ evaluator \in [Workers -> EvaluatorStates]
    /\ stop_requested \in BOOLEAN
    /\ destructor \in {"not called", "notifying", "joining", "done"}

Init ==
    /\ entry_count = [p \in Producers |-> 0]
    /\ counted = 0
    /\ evaluator = [w \in Workers |-> "top"]
    /\ stop_requested = FALSE
    /\ destructor = "not called"

-----------------------------------------------------------------------------
Owned(w) == owned_producers(w, EvaluatorsBound, WorkerCount, NumaNodes, NProducers)

PendingOf(S) == MapThenSumSet(LAMBDA p : entry_count[p], S)

async_checkpoint_enabled == Threshold > 0 \/ Interval

should_checkpoint(w) ==
    /\ Threshold > 0
    /\ PendingOf(Owned(w)) > 0
    /\ PendingOf(Owned(w)) >= Threshold

\* Mutation: cv.wait forgets the interval.
WorkInSight_ThresholdOnly(w) == should_checkpoint(w)

\* What an evaluator in cv.wait waits for besides a stop.
WorkInSight(w) ==
    /\ async_checkpoint_enabled
    /\ should_checkpoint(w) \/ (Interval /\ PendingOf(Producers) > 0)

Sleeping == {w \in Workers : evaluator[w] \in {"wait", "timed"}}

Wake(w) == IF evaluator[w] = "wait" THEN "woken" ELSE "timed_woken"

notify_all == [w \in Workers |-> IF w \in Sleeping THEN Wake(w) ELSE evaluator[w]]

\* cv.notify_one: some sleeper, if there is one.
notify_one ==
    \/ Sleeping = {} /\ UNCHANGED evaluator
    \/ \E w \in Sleeping : evaluator' = [evaluator EXCEPT ![w] = Wake(w)]

\* Mutation: a drain takes one operation off the count.
Drained_One(S) == [p \in Producers |-> IF p \in S THEN entry_count[p] - 1 ELSE entry_count[p]]

Drained(S) == [p \in Producers |-> IF p \in S THEN 0 ELSE entry_count[p]]

-----------------------------------------------------------------------------
(* Clients.  None is inside a call when the destructor runs.               *)

\* Mutation: the producer counts its operation and tells nobody.
Account_Silent(p) ==
    /\ destructor = "not called"
    /\ counted < MaxOps
    /\ counted' = counted + 1
    /\ entry_count' = [entry_count EXCEPT ![p] = @ + 1]
    /\ UNCHANGED <<evaluator, stop_requested, destructor>>

\* A producer counts an operation and notifies one sleeper, if there is one.
Account(p) ==
    /\ destructor = "not called"
    /\ counted < MaxOps
    /\ counted' = counted + 1
    /\ entry_count' = [entry_count EXCEPT ![p] = @ + 1]
    /\ notify_one
    /\ UNCHANGED <<stop_requested, destructor>>

\* drain_pending, and the drain of scan_range.
drain_pending ==
    /\ destructor = "not called"
    /\ entry_count' = Drained(Producers)
    /\ evaluator' = notify_all
    /\ UNCHANGED <<counted, stop_requested, destructor>>

\* ~FutureBTree: the last drain and stop_requested under mu ...
Destroy ==
    /\ destructor = "not called"
    /\ entry_count' = Drained(Producers)
    /\ stop_requested' = TRUE
    /\ destructor' = "notifying"
    /\ UNCHANGED <<counted, evaluator>>

\* Mutation: the destructor wakes one sleeper.
DestroyNotify_One ==
    /\ destructor = "notifying"
    /\ notify_one
    /\ destructor' = "joining"
    /\ UNCHANGED <<entry_count, counted, stop_requested>>

\* ... then notify_all without it ...
DestroyNotify ==
    /\ destructor = "notifying"
    /\ evaluator' = notify_all
    /\ destructor' = "joining"
    /\ UNCHANGED <<entry_count, counted, stop_requested>>

\* ... and a join with every evaluator.
DestroyJoin ==
    /\ destructor = "joining"
    /\ \A w \in Workers : evaluator[w] = "exited"
    /\ destructor' = "done"
    /\ UNCHANGED <<entry_count, counted, evaluator, stop_requested>>

-----------------------------------------------------------------------------
(* evaluator_loop *)

\* Where w falls asleep, with the counters as they are after this step.
Rest(w) ==
    evaluator' = [evaluator EXCEPT ![w] =
                    IF Interval /\ PendingOf(Producers)' > 0 THEN "timed" ELSE "wait"]

\* Mutation: only work, not a stop, gets a sleeper out of cv.wait.
InLoop_DeafToStop(w) ==
    \/ evaluator[w] \in {"top", "timed_out"}
    \/ evaluator[w] = "woken" /\ WorkInSight(w)
    \/ evaluator[w] = "timed_woken" /\ should_checkpoint(w)

\* The threads that have mu next and go through the body of the loop: those
\* at its top, and sleepers woken for a reason.
InLoop(w) == \/ evaluator[w] \in {"top", "timed_out"}
             \/ evaluator[w] = "woken" /\ (stop_requested \/ WorkInSight(w))
             \/ evaluator[w] = "timed_woken" /\ (stop_requested \/ should_checkpoint(w))

LoopExit(w) ==
    /\ InLoop(w)
    /\ stop_requested
    /\ evaluator' = [evaluator EXCEPT ![w] = "exited"]
    /\ UNCHANGED <<entry_count, counted, stop_requested, destructor>>

\* Past the threshold, or back from cv.wait_for: drain, then rest.
LoopDrain(w) ==
    /\ InLoop(w)
    /\ ~stop_requested
    /\ should_checkpoint(w) \/ evaluator[w] = "timed_out"
    /\ entry_count' = Drained(Owned(w))
    /\ Rest(w)
    /\ UNCHANGED <<counted, stop_requested, destructor>>

LoopRest(w) ==
    /\ InLoop(w)
    /\ ~stop_requested
    /\ ~should_checkpoint(w)
    /\ evaluator[w] # "timed_out"
    /\ UNCHANGED entry_count
    /\ Rest(w)
    /\ UNCHANGED <<counted, stop_requested, destructor>>

\* A sleeper finds its predicate false and sleeps on.
SleepOn(w) ==
    /\ evaluator[w] \in {"woken", "timed_woken"}
    /\ ~InLoop(w)
    /\ evaluator' = [evaluator EXCEPT ![w] = IF @ = "woken" THEN "wait" ELSE "timed"]
    /\ UNCHANGED <<entry_count, counted, stop_requested, destructor>>

\* The interval of cv.wait_for is over; its end is fixed when it begins, so
\* wakeups in between do not put it off.
Timeout(w) ==
    /\ evaluator[w] \in {"timed", "timed_woken"}
    /\ evaluator' = [evaluator EXCEPT ![w] = "timed_out"]
    /\ UNCHANGED <<entry_count, counted, stop_requested, destructor>>

Evaluate(w) == LoopExit(w) \/ LoopDrain(w) \/ LoopRest(w) \/ SleepOn(w)

\* A condition variable may wake a sleeper that nobody notified.
SpuriousWakeup(w) ==
    /\ Spurious
    /\ w \in Sleeping
    /\ evaluator' = [evaluator EXCEPT ![w] = Wake(w)]
    /\ UNCHANGED <<entry_count, counted, stop_requested, destructor>>

Done == destructor = "done" /\ UNCHANGED vars

Next ==
    \/ \E p \in Producers : Account(p)
    \/ drain_pending
    \/ Destroy \/ DestroyNotify \/ DestroyJoin
    \/ \E w \in Workers : Evaluate(w) \/ Timeout(w) \/ SpuriousWakeup(w)
    \/ Done

Spec == Init /\ [][Next]_vars

\* Threads that are not asleep run, time passes; clients owe nothing, except
\* that a destructor once called goes on.
Fairness ==
    /\ \A w \in Workers : WF_vars(Evaluate(w)) /\ WF_vars(Timeout(w))
    /\ WF_vars(DestroyNotify) /\ WF_vars(DestroyJoin)

FairSpec == Spec /\ Fairness

-----------------------------------------------------------------------------
\* An evaluator asleep with nobody about to wake it has nothing to do: its
\* producers are below the threshold, and with an interval set it is in
\* cv.wait only while nothing at all is pending (else no clock runs for it).
NoLostWakeup ==
    \A w \in Sleeping : /\ ~should_checkpoint(w)
                        /\ ~(evaluator[w] = "wait" /\ WorkInSight(w) /\ ~stop_requested)

\* The destructor notifies once, without mu, after it has set
\* stop_requested: from then on no evaluator sleeps or falls asleep again,
\* so none can miss the only notification.
NobodySleepsOn ==
    /\ destructor # "not called" => stop_requested
    /\ destructor \in {"joining", "done"} => Sleeping = {}

\* With an interval set no counted operation stays in its chain for ever.
PendingIsDrained ==
    \A p \in Producers : entry_count[p] > 0 ~> entry_count[p] = 0

\* A producer that has as many operations buffered as the threshold says is
\* drained, whichever evaluator notify_one wakes.
ThresholdDrains ==
    \A p \in Producers : entry_count[p] >= Threshold ~> entry_count[p] < Threshold

\* The destructor ends: every evaluator, asleep or about to fall asleep when
\* stop_requested is set, leaves its loop and is joined.
ShutdownCompletes == stop_requested ~> destructor = "done"

=============================================================================
