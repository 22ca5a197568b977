------------------------------ MODULE WaitPool ------------------------------
(***************************************************************************)
(* A bounded pool of buffers or compressors: Get waits on a condition      *)
(* variable while Limit values are borrowed and gives up when its context  *)
(* ends, which a context.AfterFunc announces by a broadcast; Put signals   *)
(* one waiter.  main.go: WaitPool.                                         *)
(*                                                                         *)
(* Every critical section of p.mu is one step.  sync.Cond keeps its        *)
(* waiters in the order they came; a waiter that is woken competes for the *)
(* mutex with everybody else.  A context shows its error before it starts  *)
(* its AfterFuncs: Err is an atomic load in the Go release that go.mod:3   *)
(* and Dockerfile:2 name.                                                  *)
(***************************************************************************)
EXTENDS Naturals, Sequences, FiniteSets, SequencesExt

CONSTANTS
    Proc,   \* goroutines that borrow
    Limit   \* the pool's limit

ASSUME ProcAssumption  == IsFiniteSet(Proc)
ASSUME LimitAssumption == Limit \in Nat \ {0}

VARIABLES
    count,    \* values lent
    waiting,  \* the condition variable's list of waiters
    pc,       \* "out", "wait", "woken", "in" or "gone"
    live,     \* the context of p's Get is not over
    ending,   \* contexts that have ended and not yet started their AfterFunc
    cast,     \* AfterFuncs that have started and will broadcast
    lost      \* history: unused values whose signal went to a waiter that left

poolVars == <<count, waiting, pc, live, ending, cast, lost>>

PoolInit ==
    /\ count   = 0
    /\ waiting = <<>>
    /\ pc      = [p \in Proc |-> "out"]
    /\ live    = [p \in Proc |-> TRUE]
    /\ ending  = {}
    /\ cast    = {}
    /\ lost    = 0

-----------------------------------------------------------------------------
\* No more values are lost than lie unused when n are lent.
AtMost(k, n) == IF k <= Limit - n THEN k ELSE Limit - n

Borrow(p) ==
    /\ count' = count + 1
    /\ pc'    = [pc EXCEPT ![p] = "in"]
    /\ lost'  = AtMost(lost, count + 1)

Wait(p) ==
    /\ waiting' = Append(waiting, p)
    /\ pc'      = [pc EXCEPT ![p] = "wait"]

\* Get returns the error of its context.
GiveUp(p) == pc' = [pc EXCEPT ![p] = "gone"]

\* An AfterFunc on a context that is over already starts at once.
Get(p) ==
    /\ pc[p] = "out"
    /\ \/ live[p] /\ count < Limit /\ Borrow(p) /\ UNCHANGED <<waiting, cast>>
       \/ live[p] /\ count >= Limit /\ Wait(p) /\ UNCHANGED <<count, cast, lost>>
       \/ /\ ~live[p] /\ GiveUp(p)
          /\ cast' = IF count >= Limit THEN cast \cup {p} ELSE cast
          /\ UNCHANGED <<count, waiting, lost>>
    /\ UNCHANGED <<live, ending>>

\* for p.count >= p.max && ctx.Err() == nil
Mutant_OnlyOnce == FALSE
TestAgain == count >= Limit

\* A woken waiter has the mutex again.  stop() forgets an AfterFunc that has
\* not started, and with it the signal that woke the waiter is lost.
Woken(p) ==
    /\ pc[p] = "woken"
    /\ \/ live[p] /\ TestAgain /\ Wait(p) /\ UNCHANGED <<count, ending, lost>>
       \/ live[p] /\ ~TestAgain /\ Borrow(p) /\ UNCHANGED <<waiting, ending>>
       \/ /\ ~live[p] /\ GiveUp(p)
          /\ ending' = ending \ {p}
          /\ lost'   = IF p \in ending THEN AtMost(lost + 1, count) ELSE lost
          /\ UNCHANGED <<count, waiting>>
    /\ UNCHANGED <<live, cast>>

\* A context ends, and with it all calls P under it.
Cancel(P) ==
    LET told == {p \in P : live[p] /\ pc[p] \in {"wait", "woken"}}
    IN  /\ live' = [p \in Proc |-> live[p] /\ p \notin P]
        /\ ending' = ending \cup told
        /\ UNCHANGED <<count, waiting, pc, cast, lost>>

StartAfterFunc(p) ==
    /\ p \in ending
    /\ ending' = ending \ {p}
    /\ cast'   = cast \cup {p}
    /\ UNCHANGED <<count, waiting, pc, live, lost>>

\* cond.Broadcast wakes every waiter on the list.
Reached == Len(waiting)

Broadcast(p) ==
    /\ p \in cast
    /\ cast'    = cast \ {p}
    /\ pc'      = [q \in Proc |-> IF \E j \in 1..Reached : waiting[j] = q
                                 THEN "woken" ELSE pc[q]]
    /\ waiting' = SubSeq(waiting, Reached + 1, Len(waiting))
    /\ lost'    = 0
    /\ UNCHANGED <<count, live, ending>>

\* The count that Put has lowered already is compared with the limit.
Mutant_WhenFull == count - 1 = Limit /\ waiting # <<>>
Signals == waiting # <<>>

\* p.count--
Returned == 1

Put(p) ==
    /\ pc[p] = "in"
    /\ count' = count - Returned
    /\ IF Signals
       THEN /\ waiting' = Tail(waiting)
            /\ pc' = [pc EXCEPT ![p] = "out", ![Head(waiting)] = "woken"]
       ELSE /\ pc' = [pc EXCEPT ![p] = "out"]
            /\ UNCHANGED waiting
    /\ UNCHANGED <<live, ending, cast, lost>>

-----------------------------------------------------------------------------
PoolNext ==
    \/ \E p \in Proc : Get(p) \/ Woken(p) \/ Put(p) \/ StartAfterFunc(p) \/ Broadcast(p)
    \/ \E P \in SUBSET Proc : Cancel(P)

PoolSpec == PoolInit /\ [][PoolNext]_poolVars

\* Goroutines run.  Nobody is obliged to return what it borrowed.
PoolFairSpec ==
    /\ PoolSpec
    /\ \A p \in Proc : /\ WF_poolVars(Woken(p)) /\ WF_poolVars(Broadcast(p))
                       /\ WF_poolVars(StartAfterFunc(p))

-----------------------------------------------------------------------------
(* Properties *)

\* The types of all variables.
PoolTypeOK ==
    /\ count \in 0..Cardinality(Proc)
    /\ waiting \in Seq(Proc) /\ IsInjective(waiting)
    /\ pc \in [Proc -> {"out", "wait", "woken", "in", "gone"}]
    /\ live \in [Proc -> BOOLEAN]
    /\ ending \subseteq Proc /\ cast \subseteq Proc
    /\ lost \in 0..Limit

\* The count is the number of borrowers and never exceeds the limit, so that
\* the memory bound holds and Put never panics.
CountExact ==
    /\ count = Cardinality({p \in Proc : pc[p] = "in"})
    /\ count <= Limit

\* No waiter sleeps beside a free value whose signal was not lost: somebody
\* who may take it is awake, or a context is ending and a broadcast on its
\* way.  Only a waiter whose stop() overtakes its own AfterFunc loses a
\* signal, and that leaves one value unused, until it is borrowed or the next
\* broadcast; no other order of Put, Get and cancellation leaves any.
NoLostWakeup ==
    waiting # <<>> /\ count + lost < Limit =>
        \/ \E p \in Proc : pc[p] = "woken" /\ live[p]
        \/ ending \cup cast # {}
=============================================================================
