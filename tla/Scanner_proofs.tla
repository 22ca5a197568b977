-------------------------- MODULE Scanner_proofs ----------------------------
(***************************************************************************)
(* Proofs about the two halves of serveDomainQueue.                        *)
(*                                                                         *)
(* ScannerLease, for every set of nodes, every lease term and every clock  *)
(* skew, and without the bounds' help: that its variables keep their       *)
(* types, that two leases never overlap, that with synchronised clocks one *)
(* node scans, and that a running lease is never taken or cut.             *)
(*                                                                         *)
(* QueueScheduler, for every finite set of domains and every number of     *)
(* slots, keys and loops: that its variables keep their types, that every  *)
(* worker has a slot and a node overshoots its limit by one claim per      *)
(* other loop at most, and that nothing is left running by serveQueue.     *)
(***************************************************************************)
EXTENDS ScannerLease, QueueScheduler, FiniteSetTheorems, TLAPS

-----------------------------------------------------------------------------
(***************************************************************************)
(* The inductive invariant of the scheduler.                               *)
(***************************************************************************)

\* The workers of some of the loops.
Of(S) == UNION {{l} \X (1..workers[l]) : l \in S}

\* The loops that have passed the test of the slots, and hold a claim or are
\* about to try for one.
Asking == {l \in Loop : at[l] \in {"claim", "slot"}}

\* The workers of the loops that ask leave a slot: the last of these to pass
\* its test saw one, and none of them has started a worker since.
Room == Asking # {} => Cardinality(Of(Asking)) < Cap

\* What a loop keeps where it is; serveQueue returns when all have ended.
QueueControl ==
    /\ \A l \in Loop :
         /\ l \in Started <=> at[l] # "none"
         /\ at[l] \in {"none", "end"} => workers[l] = 0
         /\ at[l] \in {"none", "drain", "end"} => ~lease[l]
         /\ at[l] = "claim" => claimed[l] < Cap
    /\ main = "end" => \A l \in Started : at[l] = "end"

QueueInv == QueueTypeOK /\ QueueControl /\ Room

-----------------------------------------------------------------------------
(***************************************************************************)
(* Counting workers.                                                       *)
(***************************************************************************)

LEMMA BoundTypes == Cap \in Nat /\ Cap > 0 /\ MaxKeys \in Nat /\ MaxLoops \in Nat
  BY BoundAssumption

LEMMA LoopsFinite == \A S \in SUBSET Loop : IsFiniteSet(S) /\ Cardinality(S) \in Nat
<1>1. 1 \in Int /\ MaxLoops \in Int
  BY BoundTypes
<1>2. IsFiniteSet(Loop)
  BY <1>1, FS_Interval DEF Loop
<1> QED
  BY <1>2, FS_Subset, FS_CardinalityType

LEMMA OfFinite ==
  ASSUME workers \in [Loop -> 0..Cap], NEW S, S \subseteq Loop
  PROVE  IsFiniteSet(Of(S)) /\ Cardinality(Of(S)) \in Nat /\ Of(S) \subseteq Running
<1>1. IsFiniteSet(Loop \X (1..Cap))
  <2>1. 1 \in Int /\ Cap \in Int
    BY BoundTypes
  <2>2. IsFiniteSet(1..Cap)
    BY <2>1, FS_Interval
  <2> QED
    BY <2>2, LoopsFinite, FS_Product
<1>2. Of(S) \subseteq Loop \X (1..Cap)
  BY BoundTypes DEF Of
<1>3. Of(S) \subseteq Running
  BY DEF Of, Running
<1> QED
  BY <1>1, <1>2, <1>3, FS_Subset, FS_CardinalityType

\* A loop has no more workers than there are.
LEMMA OwnWorkers ==
  ASSUME workers \in [Loop -> 0..Cap], NEW l \in Loop
  PROVE  workers[l] <= Cardinality(Running)
<1>1. IsFiniteSet(Running)
  BY OfFinite DEF Of, Running
<1>2. /\ IsFiniteSet({l}) /\ Cardinality({l}) = 1
      /\ IsFiniteSet(1..workers[l]) /\ Cardinality(1..workers[l]) = workers[l]
  <2>1. 1 \in Int /\ workers[l] \in Int /\ workers[l] >= 0
    BY BoundTypes
  <2>2. /\ IsFiniteSet(1..workers[l])
        /\ Cardinality(1..workers[l]) = IF 1 > workers[l] THEN 0 ELSE workers[l] - 1 + 1
    BY <2>1, FS_Interval
  <2>3. Cardinality(1..workers[l]) = workers[l]
    BY <2>1, <2>2
  <2> QED
    BY <2>2, <2>3, FS_Singleton
<1>3. Cardinality({l} \X (1..workers[l])) = workers[l]
  <2>1. Cardinality({l} \X (1..workers[l])) = Cardinality({l}) * Cardinality(1..workers[l])
    BY <1>2, FS_Product
  <2>2. workers[l] \in Nat /\ 1 * workers[l] = workers[l]
    BY BoundTypes
  <2> QED
    BY <1>2, <2>1, <2>2
<1>4. {l} \X (1..workers[l]) \subseteq Running
  BY DEF Running
<1> QED
  BY <1>1, <1>3, <1>4, FS_Subset

LEMMA OneMore ==
  ASSUME workers \in [Loop -> 0..Cap], NEW l \in Loop,
         workers' = [workers EXCEPT ![l] = @ + 1]
  PROVE  Cardinality(Running') = Cardinality(Running) + 1
<1>1. IsFiniteSet(Running)
  BY OfFinite DEF Of, Running
<1>2. <<l, workers[l] + 1>> \notin Running
  BY BoundTypes DEF Running
<1>3. Running' = Running \cup {<<l, workers[l] + 1>>}
  <2>1. workers[l] \in Nat /\ 1..workers'[l] = (1..workers[l]) \cup {workers[l] + 1}
    BY BoundTypes
  <2>2. \A m \in Loop : m # l => workers'[m] = workers[m]
    OBVIOUS
  <2> QED
    BY <2>1, <2>2 DEF Running
<1> QED
  BY <1>1, <1>2, <1>3, FS_AddElement

LEMMA OneLess ==
  ASSUME workers \in [Loop -> 0..Cap], NEW l \in Loop, workers[l] > 0,
         workers' = [workers EXCEPT ![l] = @ - 1]
  PROVE  Cardinality(Running') = Cardinality(Running) - 1
<1>1. IsFiniteSet(Running)
  BY OfFinite DEF Of, Running
<1>2. <<l, workers[l]>> \in Running
  BY BoundTypes DEF Running
<1>3. Running' = Running \ {<<l, workers[l]>>}
  <2>1. workers[l] \in Nat /\ 1..workers'[l] = (1..workers[l]) \ {workers[l]}
    BY BoundTypes
  <2>2. \A m \in Loop : m # l => workers'[m] = workers[m]
    OBVIOUS
  <2> QED
    BY <2>1, <2>2 DEF Running
<1> QED
  BY <1>1, <1>2, <1>3, FS_RemoveElement

LEMMA SameWorkers == workers' = workers => Running' = Running
  BY DEF Running

LEMMA Joined ==
  ASSUME NEW D, NEW p \in Seq(D), NEW q \in Seq(D)
  PROVE  p \o q \in Seq(D) /\ Len(p \o q) = Len(p) + Len(q) /\ Len(p) \in Nat
  OBVIOUS

\* The names of new domains in a sequence.
LEMMA NamesOf ==
  ASSUME NEW S, S \subseteq Domain
  PROVE  SetToSeq(S) \in Seq(Domain) /\ Len(SetToSeq(S)) = Cardinality(S)
<1> DEFINE m == Cardinality(S)
<1>1. m \in Nat /\ ExistsBijection(1..m, S)
  BY DomainAssumption, FS_Subset, FS_CardinalityType
<1>2. \E f \in [1..m -> S] : IsInjective(f)
  BY <1>1 DEF ExistsBijection, Bijection, Injection
<1>3. SetToSeq(S) \in [1..m -> S]
  BY <1>2 DEF SetToSeq
<1>4. \A x \in S : x \in Domain
  OBVIOUS
<1> HIDE DEF m
<1>5. SetToSeq(S) \in [1..m -> Domain]
  BY <1>3, <1>4
<1>6. SetToSeq(S) \in Seq(Domain) /\ Len(SetToSeq(S)) = m
  BY <1>1, <1>5
<1> QED
  BY <1>6 DEF m
-----------------------------------------------------------------------------
(***************************************************************************)
(* Every step keeps the invariant.                                         *)
(***************************************************************************)

LEMMA QueueInitInv == QueueInit => QueueInv
<1> SUFFICES ASSUME QueueInit PROVE QueueInv
  OBVIOUS
<1>1. Running = {} /\ Asking = {}
  BY DEF QueueInit, Running, Asking
<1>2. QueueTypeOK
  <2>1. <<>> \in Seq(Domain) /\ Len(<<>>) <= MaxLoops /\ 0 \in 0..Cap /\ 0 \in 0..MaxKeys
    BY BoundTypes
  <2> QED
    BY <1>1, <2>1, FS_EmptySet DEF QueueInit, QueueTypeOK
<1>3. QueueControl
  BY DEF QueueInit, QueueControl, Started
<1> QED
  BY <1>1, <1>2, <1>3 DEF QueueInv, Room

\* Steps after which fewer loops ask, and none that does has more workers.
LEMMA RoomKept ==
  ASSUME QueueInv, workers \in [Loop -> 0..Cap], workers' \in [Loop -> 0..Cap],
         Asking' \subseteq Asking, \A l \in Asking' : workers'[l] <= workers[l]
  PROVE  Room'
<1> SUFFICES ASSUME Asking' # {} PROVE Cardinality(Of(Asking)') < Cap
  BY DEF Room
<1>1. Asking \subseteq Loop /\ Asking # {}
  BY DEF Asking
<1>2. IsFiniteSet(Of(Asking)) /\ Cardinality(Of(Asking)) \in Nat
  BY <1>1, OfFinite
<1>3. Of(Asking)' \subseteq Of(Asking)
  <2>1. ASSUME NEW l \in Asking', NEW k \in 1..workers'[l]
        PROVE  k \in 1..workers[l] /\ l \in Asking
    BY <1>1, <2>1, BoundTypes
  <2> QED
    BY <2>1 DEF Of
<1>4. Cardinality(Of(Asking)') <= Cardinality(Of(Asking)) /\ Cardinality(Of(Asking)') \in Nat
  BY <1>2, <1>3, FS_Subset, FS_CardinalityType
<1> QED
  BY <1>1, <1>2, <1>4, BoundTypes DEF QueueInv, Room

\* serveQueue.
LEMMA MainKeeps ==
  ASSUME QueueInv, Discover \/ Cancel \/ StopServing \/ Return
  PROVE  QueueInv'
<1> USE DEF QueueInv, QueueTypeOK
<1>0. workers' = workers /\ slots' = slots /\ Running' = Running
  BY SameWorkers DEF Discover, Cancel, StopServing, Return
<1>1. CASE Discover
  <2>1. PICK domains \in SUBSET Domain :
          LET new == Len(name) + 1..Len(name) + Cardinality(domains \ active)
          IN  /\ new \subseteq Loop
              /\ active' = domains
              /\ name'   = name \o SetToSeq(domains \ active)
              /\ ctx'    = [l \in Loop |->
                             \/ l \in new /\ live
                             \/ l \in Started /\ Kept(l, domains)]
              /\ at'     = [l \in Loop |-> IF l \in new THEN "top" ELSE at[l]]
    BY <1>1 DEF Discover
  <2> DEFINE more == Cardinality(domains \ active)
             new  == Len(name) + 1..Len(name) + more
  <2>2. /\ more \in Nat /\ SetToSeq(domains \ active) \in Seq(Domain)
        /\ Len(SetToSeq(domains \ active)) = more
    <3>1. domains \ active \subseteq Domain
      OBVIOUS
    <3> QED
      BY <3>1, NamesOf, DomainAssumption, FS_Subset, FS_CardinalityType
  <2> HIDE DEF more
  <2>3. name' \in Seq(Domain) /\ Len(name') = Len(name) + more /\ Len(name) \in Nat
    <3>1. name' = name \o SetToSeq(domains \ active) /\ name \in Seq(Domain)
      BY <2>1
    <3> QED
      BY <2>2, <3>1, Joined
  <2>4. new \subseteq Loop /\ Len(name') <= MaxLoops
    <3>1. new \subseteq 1..MaxLoops
      BY <2>1 DEF Loop, more
    <3>2. CASE more = 0
      BY <2>3, <3>2
    <3>3. CASE more # 0
      <4>1. Len(name) + more \in new
        BY <2>2, <2>3, <3>3
      <4> QED
        BY <3>1, <4>1, <2>3 DEF Loop
    <3> QED
      BY <3>1, <3>2, <3>3 DEF Loop
  <2>5. Started' = Started \cup new /\ \A l \in new : l \notin Started
    BY <2>2, <2>3 DEF Started
  <2>6. \A l \in Loop : at'[l] = IF l \in new THEN "top" ELSE at[l]
    BY <2>1 DEF more
  <2>7. /\ active' \subseteq Domain /\ ctx' \in [Loop -> BOOLEAN]
        /\ UNCHANGED <<live, main, lease, valid, left, claimed>> /\ main = "serve"
    <3>1. \A l \in Loop : Kept(l, domains) \in BOOLEAN
      BY DEF Kept
    <3>2. live \in BOOLEAN
      OBVIOUS
    <3> QED
      BY <1>1, <2>1, <3>1, <3>2 DEF Discover
  <2>8. at' \in [Loop -> {"none", "top", "lock", "list", "test", "claim", "slot",
                        "sweep", "defer", "drain", "end"}]
    BY <2>1, <2>6
  <2> HIDE DEF new
  <2>9. QueueTypeOK'
    BY <1>0, <2>3, <2>4, <2>7, <2>8
  <2>10. QueueControl'
    BY <1>0, <2>4, <2>5, <2>6, <2>7 DEF QueueControl
  <2>11. Asking' \subseteq Asking
    BY <2>6 DEF Asking
  <2>12. Room'
    BY <1>0, <2>11, RoomKept DEF Asking
  <2> QED
    BY <2>9, <2>10, <2>12
<1>2. CASE Cancel \/ StopServing \/ Return
  <2>1. UNCHANGED <<active, name, at, lease, valid, left, claimed>> /\ Asking' = Asking
        /\ Started' = Started
    BY <1>2 DEF Cancel, StopServing, Return, Asking, Started
  <2>2. QueueTypeOK'
    BY <1>0, <1>2, <2>1 DEF Cancel, StopServing, Return
  <2>3. QueueControl'
    BY <1>0, <1>2, <2>1 DEF Cancel, StopServing, Return, QueueControl
  <2>4. Room'
    BY <1>0, <2>1, RoomKept DEF Asking
  <2> QED
    BY <2>2, <2>3, <2>4
<1> QED
  BY <1>1, <1>2
\* One loop.
LEMMA ScanTypes ==
  ASSUME QueueInv, NEW l \in Loop, NEW full, EndScan(l, full)
  PROVE  /\ lease' \in [Loop -> BOOLEAN] /\ valid' \in [Loop -> BOOLEAN]
         /\ left' \in [Loop -> 0..MaxKeys] /\ claimed' \in [Loop -> 0..Cap]
         /\ at' = [at EXCEPT ![l] = "top"]
<1> USE DEF QueueInv, QueueTypeOK
<1>1. (lease[l] /\ ~full) \in BOOLEAN /\ (valid[l] /\ ~full) \in BOOLEAN
  OBVIOUS
<1>2. lease' \in [Loop -> BOOLEAN] /\ valid' \in [Loop -> BOOLEAN]
  BY <1>1, Zenon DEF EndScan
<1>3. 0 \in 0..MaxKeys /\ 0 \in 0..Cap
  BY BoundTypes
<1> QED
  BY <1>2, <1>3 DEF EndScan, Goto

LEMMA LoopTypes ==
  ASSUME QueueInv, NEW l \in Loop, LoopStep(l)
  PROVE  /\ lease' \in [Loop -> BOOLEAN] /\ valid' \in [Loop -> BOOLEAN]
         /\ left' \in [Loop -> 0..MaxKeys] /\ claimed' \in [Loop -> 0..Cap]
         /\ at' \in [Loop -> {"none", "top", "lock", "list", "test", "claim", "slot",
                        "sweep", "defer", "drain", "end"}]
<1> USE DEF QueueInv, QueueTypeOK, Goto
<1>1. CASE Top(l)
  BY <1>1 DEF Top
<1>2. CASE Lock(l)
  BY <1>2 DEF Lock
<1>3. CASE List(l)
  <2>1. CASE EndScan(l, TRUE)
    BY <1>3, <2>1, ScanTypes DEF List
  <2>2. CASE ~EndScan(l, TRUE)
    BY ZenonT(40), <1>3, <2>2 DEF List
  <2> QED
    BY <2>1, <2>2
<1>4. CASE Test(l)
  <2>1. CASE EndScan(l, TRUE)
    BY <1>4, <2>1, ScanTypes DEF Test
  <2>2. CASE ~EndScan(l, TRUE)
    <3>1. left[l] = 0 \/ left[l] - 1 \in 0..MaxKeys
      BY BoundTypes
    <3>2. 0 \in 0..MaxKeys
      BY BoundTypes
    <3> QED
      BY <1>4, <2>2, <3>1, <3>2 DEF Test
  <2> QED
    BY <2>1, <2>2
<1>5. CASE Claim(l)
  <2>1. claimed[l] + 1 \in 0..Cap
    BY <1>5, BoundTypes DEF Claim, QueueControl
  <2> QED
    BY ZenonT(40), <1>5, <2>1 DEF Claim
<1>6. CASE Start(l)
  BY <1>6 DEF Start
<1>7. CASE Abandon(l)
  BY <1>7, BoundTypes DEF Abandon, EndScan
<1>8. CASE Sweep(l)
  <2>1. PICK full : EndScan(l, full)
    BY <1>8 DEF Sweep
  <2> QED
    BY <1>8, <2>1, ScanTypes DEF Sweep
<1>9. CASE Defer(l) \/ End(l)
  BY <1>9 DEF Defer, End
<1> QED
  BY <1>1, <1>2, <1>3, <1>4, <1>5, <1>6, <1>7, <1>8, <1>9 DEF LoopStep

LEMMA LoopControl ==
  ASSUME QueueInv, NEW l \in Loop, LoopStep(l)
  PROVE  QueueControl'
<1> USE DEF QueueInv, QueueTypeOK, Goto, QueueControl, Started, mainVars
<1>1. CASE Top(l)
  BY <1>1 DEF Top
<1>2. CASE Lock(l)
  BY <1>2 DEF Lock
<1>3. CASE List(l)
  BY SMTT(30), <1>3, BoundTypes DEF List, EndScan
<1>4. CASE Test(l)
  BY SMTT(30), <1>4, BoundTypes DEF Test, EndScan, Full
<1>5. CASE Claim(l)
  BY <1>5, BoundTypes DEF Claim
<1>6. CASE Start(l)
  BY <1>6 DEF Start
<1>7. CASE Abandon(l)
  BY <1>7, BoundTypes DEF Abandon, EndScan
<1>8. CASE Sweep(l)
  BY <1>8, BoundTypes DEF Sweep, EndScan
<1>9. CASE Defer(l)
  BY <1>9 DEF Defer
<1>10. CASE End(l)
  BY <1>10 DEF End, NoWorkers
<1> QED
  BY <1>1, <1>2, <1>3, <1>4, <1>5, <1>6, <1>7, <1>8, <1>9, <1>10 DEF LoopStep

LEMMA LoopKeeps ==
  ASSUME QueueInv, NEW l \in Loop, LoopStep(l)
  PROVE  QueueInv'
<1> USE DEF QueueInv, QueueTypeOK
<1>1. UNCHANGED <<live, main, active, name, ctx>>
  BY DEF LoopStep, Top, Lock, List, Test, Claim, Start, Abandon, Sweep, Defer, End, mainVars
<1>2. QueueControl'
  BY LoopControl
<1>3. CASE Start(l)
  <2>1. workers' = [workers EXCEPT ![l] = @ + 1] /\ slots < Cap /\ slots' = slots + 1
        /\ slots = Cardinality(Running) /\ at[l] = "slot" /\ at' = [at EXCEPT ![l] = "test"]
    BY <1>3 DEF Start, Slots, Goto
  <2>2. slots' = Cardinality(Running') /\ slots' \in 0..Cap
    <3>1. Cardinality(Running') = slots + 1
      BY <2>1, OneMore
    <3> QED
      BY <2>1, <3>1, BoundTypes
  <2>3. workers' \in [Loop -> 0..Cap]
    <3>1. workers[l] <= slots
      BY <2>1, OwnWorkers
    <3>2. workers[l] + 1 \in 0..Cap
      BY <2>1, <3>1, BoundTypes
    <3> QED
      BY <2>1, <3>2
  <2>4. QueueTypeOK'
    BY <1>1, <2>2, <2>3, LoopTypes
  <2>5. \A m \in Asking' : m \in Asking /\ workers'[m] <= workers[m]
    <3>1. ASSUME NEW m \in Asking' PROVE m # l /\ m \in Asking
      BY <2>1 DEF Asking
    <3>2. ASSUME NEW m \in Asking' PROVE workers'[m] = workers[m] /\ workers[m] \in Nat
      BY <2>1, <3>1, BoundTypes DEF Asking
    <3> QED
      BY <3>1, <3>2
  <2>6. Room'
    BY <2>3, <2>5, RoomKept
  <2> QED
    BY <1>2, <2>4, <2>6
<1>4. CASE ~Start(l)
  <2>1. UNCHANGED <<slots, workers>>
    BY <1>4 DEF LoopStep, Top, Lock, List, Test, Claim, Abandon, Sweep, Defer, End
  <2>2. QueueTypeOK'
    BY <1>1, <2>1, SameWorkers, LoopTypes
  <2>3. CASE at'[l] = "claim" /\ at[l] = "test"
    <3>1. slots < Cap
      BY <2>3, BoundTypes DEF LoopStep, Top, Lock, List, Test, Claim, Start, Abandon, Sweep, Defer,
               End, EndScan, Goto, Full
    <3>2. Of(Asking)' \subseteq Running
      BY <2>1 DEF Of, Running, Asking
    <3>3. IsFiniteSet(Running) /\ Cardinality(Running) = slots
      BY OfFinite DEF Of, Running
    <3>4. Cardinality(Of(Asking)') \in Nat /\ Cardinality(Of(Asking)') <= slots
      BY <3>2, <3>3, FS_Subset, FS_CardinalityType
    <3>5. Room'
      BY <3>1, <3>4, BoundTypes DEF Room
    <3> QED
      BY <1>2, <2>2, <3>5
  <2>4. CASE ~(at'[l] = "claim" /\ at[l] = "test")
    <3>1. \A m \in Loop : m # l => at'[m] = at[m]
      BY DEF LoopStep, Top, Lock, List, Test, Claim, Start, Abandon, Sweep, Defer, End, EndScan,
             Goto
    <3>2. at'[l] \in {"claim", "slot"} => at[l] \in {"claim", "slot"}
      BY <2>4, <1>4 DEF LoopStep, Top, Lock, List, Test, Claim, Start, Abandon, Sweep, Defer, End,
             EndScan, Goto
    <3>3. Asking' \subseteq Asking
      BY <3>1, <3>2 DEF Asking
    <3>4. \A m \in Asking' : workers'[m] <= workers[m]
      BY <2>1, BoundTypes DEF Asking
    <3> QED
      BY <1>2, <2>1, <2>2, <3>3, <3>4, RoomKept
  <2> QED
    BY <2>3, <2>4
<1> QED
  BY <1>3, <1>4

LEMMA EndsKeep ==
  ASSUME QueueInv, NEW l \in Loop, WorkerEnds(l) \/ LeaseEnds(l)
  PROVE  QueueInv'
<1> USE DEF QueueInv, QueueTypeOK
<1>1. UNCHANGED <<live, main, active, name, ctx, at, lease, left, claimed>>
  BY DEF WorkerEnds, LeaseEnds, mainVars
<1>2. Asking' = Asking /\ Started' = Started
  BY <1>1 DEF Asking, Started
<1>3. CASE WorkerEnds(l)
  <2>1. workers[l] > 0 /\ workers' = [workers EXCEPT ![l] = @ - 1] /\ slots' = slots - 1
        /\ valid' = valid /\ slots = Cardinality(Running)
    BY <1>3 DEF WorkerEnds
  <2>2. workers' \in [Loop -> 0..Cap] /\ \A m \in Loop : workers'[m] <= workers[m]
    BY <2>1, BoundTypes
  <2>3. slots' = Cardinality(Running')
    BY <2>1, OneLess
  <2>4. workers[l] <= slots
    BY <2>1, OwnWorkers
  <2>5. slots' \in 0..Cap
    BY <2>1, <2>4, BoundTypes
  <2>6. QueueTypeOK'
    BY <1>1, <2>1, <2>2, <2>3, <2>5
  <2>7. QueueControl'
    BY <1>1, <1>2, <2>1, BoundTypes DEF QueueControl
  <2>8. Room'
    BY <1>2, <2>2, RoomKept DEF Asking
  <2> QED
    BY <2>6, <2>7, <2>8
<1>4. CASE LeaseEnds(l)
  <2>1. UNCHANGED <<workers, slots>> /\ valid' \in [Loop -> BOOLEAN]
    BY <1>4 DEF LeaseEnds
  <2>2. QueueTypeOK' /\ QueueControl'
    BY <1>1, <1>2, <2>1, SameWorkers DEF QueueControl
  <2>3. Room'
    BY <1>2, <2>1, BoundTypes, RoomKept DEF Asking
  <2> QED
    BY <2>2, <2>3
<1> QED
  BY <1>3, <1>4

-----------------------------------------------------------------------------
(***************************************************************************)
(* Theorems.                                                               *)
(***************************************************************************)

\* The invariant of serveQueue, its loops and their slots.
THEOREM QueueInvariance == QueueSpec => []QueueInv
<1>1. QueueInv /\ [QueueNext]_queueVars => QueueInv'
  <2> SUFFICES ASSUME QueueInv, [QueueNext]_queueVars PROVE QueueInv'
    OBVIOUS
  <2>1. CASE UNCHANGED queueVars
    <3>1. UNCHANGED <<live, main, active, name, slots, ctx, at, lease, valid, left, claimed, workers>>
      BY <2>1 DEF queueVars, mainVars
    <3>2. QueueTypeOK' /\ QueueControl' /\ Asking' = Asking
      BY <3>1, SameWorkers DEF QueueInv, QueueTypeOK, QueueControl, Started, Asking
    <3>3. Room'
      BY <3>1, <3>2 DEF QueueInv, Room, Of
    <3> QED
      BY <3>2, <3>3 DEF QueueInv
  <2> QED
    BY <2>1, MainKeeps, LoopKeeps, EndsKeep DEF QueueNext
<1> QED
  BY <1>1, QueueInitInv, PTL DEF QueueSpec

\* The variables keep their types: there is a slot for every worker (main.go
\* scanTasks, "slots <- struct{}{}").
THEOREM QueueTypes == QueueSpec => []QueueTypeOK
<1>1. QueueInv => QueueTypeOK
  BY DEF QueueInv
<1> QED
  BY <1>1, QueueInvariance, PTL

\* When serveQueue has returned, no worker of any loop runs, no lease is kept
\* and no slot is taken (main.go serveDomainQueue, its deferred function).
THEOREM NothingLeft == QueueSpec => []NothingLeftRunning
<1>1. QueueInv => NothingLeftRunning
  <2> SUFFICES ASSUME QueueInv, main = "end"
               PROVE  slots = 0 /\ \A l \in Loop : workers[l] = 0 /\ ~lease[l]
    BY DEF NothingLeftRunning
  <2>1. \A l \in Loop : at[l] \in {"none", "end"}
    BY DEF QueueInv, QueueTypeOK, QueueControl
  <2>2. \A l \in Loop : workers[l] = 0 /\ ~lease[l]
    BY <2>1 DEF QueueInv, QueueControl
  <2>3. Running = {}
    BY <2>2 DEF Running
  <2> QED
    BY <2>2, <2>3, FS_EmptySet DEF QueueInv, QueueTypeOK
<1> QED
  BY <1>1, QueueInvariance, PTL

LEMMA MaxZero ==
  ASSUME NEW x \in Int
  PROVE  Max({0, x}) >= 0 /\ Max({0, x}) >= x /\ Max({0, x}) \in Int
<1>1. \E m \in {0, x} : \A y \in {0, x} : m >= y
  <2>1. CASE x >= 0
    BY <2>1
  <2>2. CASE ~(x >= 0)
    BY <2>2
  <2> QED
    BY <2>1, <2>2
<1> QED
  BY <1>1 DEF Max

\* The node holds at most one claim beyond its limit for every loop but one
\* (main.go scanTasks tests len(slots), claims, and only then takes a slot).
THEOREM BoundedOvershoot == QueueSpec => []Overshoot
<1>1. QueueInv => Overshoot
  <2> SUFFICES ASSUME QueueInv PROVE Overshoot
    OBVIOUS
  <2> DEFINE Waiting == {l \in Loop : at[l] = "slot"}
             w == Cardinality(Waiting)
             a == Cardinality(Asking)
             k == Cardinality(Loops)
             h == Cardinality(Running)
             x == Max({0, k - 1})
  <2>1. /\ IsFiniteSet(Loops) /\ IsFiniteSet(Asking) /\ Asking \subseteq Loops
        /\ Waiting \subseteq Asking /\ w \in Nat /\ a \in Nat /\ k \in Nat
    BY LoopsFinite DEF Asking, Loops
  <2>2. w <= a /\ a <= k /\ (Asking # Loops => a < k)
    BY <2>1, FS_Subset
  <2>3. h \in 0..Cap
    BY DEF QueueInv, QueueTypeOK
  <2>4. x >= 0 /\ x >= k - 1 /\ x \in Int
    BY <2>1, MaxZero
  <2>5. Held = h + w
    BY DEF Held
  <2>6. Overshoot <=> h + w <= Cap + x
    BY <2>5 DEF Overshoot
  <2>7. CASE Asking = {}
    <3>1. w = 0
      BY <2>1, <2>7, FS_EmptySet
    <3> QED
      BY <2>3, <2>4, <2>6, <3>1, BoundTypes
  <2>8. CASE Asking # {} /\ Asking = Loops
    <3>1. \A l \in Loop \ Loops : workers[l] = 0
      BY DEF QueueInv, QueueControl, Loops
    <3>2. Running = Of(Asking)
      BY <2>8, <3>1 DEF Running, Of, Loops
    <3>3. h < Cap
      BY <2>8, <3>2 DEF QueueInv, Room
    <3> QED
      BY <2>1, <2>2, <2>3, <2>4, <2>6, <3>3, BoundTypes
  <2>9. CASE Asking # Loops
    BY <2>1, <2>2, <2>3, <2>4, <2>6, <2>9, BoundTypes
  <2> QED
    BY <2>7, <2>8, <2>9
<1> QED
  BY <1>1, QueueInvariance, PTL

-----------------------------------------------------------------------------
(***************************************************************************)
(* The lease.                                                              *)
(***************************************************************************)

USE TTLAssumption, SkewAssumption, NoRecordAssumption

-----------------------------------------------------------------------------
(***************************************************************************)
(* Type correctness.                                                       *)
(***************************************************************************)

\* A call that is about to swap has read a record.
ReadsRecord ==
    \A n \in Node : /\ pc[n] = "relSwap" => seen[n] # NoRecord
                    /\ renewal[n] = "swap" => rseen[n] # NoRecord

TypeInv == TypeOK /\ ReadsRecord

LEMMA TypeInit == Init => TypeInv
  BY DEF Init, TypeInv, TypeOK, ReadsRecord, MainPC, KeeperPC, RenewalPC

LEMMA EndCallType ==
  ASSUME TypeOK, NEW n \in Node, EndCall(n)
  PROVE  /\ now' \in [Node -> Int]
         /\ seen' \in [Node -> Record \cup {NoRecord}]
  BY DEF TypeOK, EndCall

LEMMA EndRenewType ==
  ASSUME TypeOK, NEW n \in Node, EndRenew(n)
  PROVE  /\ rnow' \in [Node -> Int]
         /\ rseen' \in [Node -> Record \cup {NoRecord}]
  BY DEF TypeOK, EndRenew

LEMMA DropLeaseType ==
  ASSUME TypeOK, NEW n \in Node, DropLease(n)
  PROVE  /\ held' \in [Node -> Record \cup {NoRecord}]
         /\ lost' \in [Node -> BOOLEAN]
  BY DEF TypeOK, DropLease

\* A PUT, whatever becomes of it, leaves a well-typed store.
LEMMA PutType ==
  ASSUME TypeOK, NEW old \in Record \cup {NoRecord}, NEW new \in Record,
         PutApplied(old, new) \/ PutFailed(old, new)
  PROVE  /\ lock' \in Record \cup {NoRecord}
         /\ late' \in SUBSET Put
  BY DEF TypeOK, PutApplied, PutFailed, Put

LEMMA NewRecordType ==
  ASSUME TypeOK, NEW n \in Node
  PROVE  NewRecord(n) \in Record
  BY DEF TypeOK, NewRecord, Record, Owner

LEMMA MovedExpiryType ==
  ASSUME NEW r \in Record, NEW t \in Int
  PROVE  /\ Renewed(r, t) \in Record
         /\ Released(r, t) \in Record
  BY DEF Renewed, Released, Record

LEMMA TypeStep == TypeInv /\ [Next]_vars => TypeInv'
<1> SUFFICES ASSUME TypeInv, [Next]_vars PROVE TypeInv'
  OBVIOUS
<1> USE DEF TypeInv, TypeOK, ReadsRecord, MainPC, KeeperPC, RenewalPC, Time
<1>1. CASE UNCHANGED vars
  BY <1>1 DEF vars, storeVars, nodeVars, keepVars
<1>2. CASE Advance
  BY <1>2 DEF Advance, storeVars, nodeVars, keepVars
<1>3. ASSUME NEW p \in late, LateApply(p) PROVE TypeInv'
  BY <1>3 DEF LateApply, Put, nodeVars, keepVars
<1>4. ASSUME NEW n \in Node, MainStep(n) PROVE TypeInv'
  <2>1. CASE AcquireStart(n)
    BY <2>1 DEF AcquireStart, storeVars, keepVars
  <2>2. CASE AcquireRead(n)
    BY <2>2 DEF AcquireRead, EndCall, storeVars, keepVars
  <2>3. CASE AcquireSwap(n)
    <3>1. NewRecord(n) \in Record
      BY NewRecordType
    <3>2. /\ lock' \in Record \cup {NoRecord}
          /\ late' \in SUBSET Put
      BY <2>3, <3>1, PutType DEF AcquireSwap
    <3> QED
      BY <2>3, <3>1, <3>2, EndCallType DEF AcquireSwap, EndCall
  <2>4. CASE Tick(n)
    BY <2>4 DEF Tick, storeVars, keepVars
  <2>5. CASE ScanEnd(n)
    BY <2>5 DEF ScanEnd, storeVars, keepVars
  <2>6. CASE Leave(n)
    BY <2>6 DEF Leave, storeVars, keepVars
  <2>7. CASE StopDone(n)
    BY <2>7 DEF StopDone, storeVars
  <2>8. CASE ReleaseRead(n)
    <3>1. CASE Owns(lock, held[n].owner) /\ pc' = [pc EXCEPT ![n] = "relSwap"]
               /\ seen' = [seen EXCEPT ![n] = lock]
               /\ UNCHANGED <<held, lost, now>>
      BY <2>8, <3>1 DEF ReleaseRead, Owns, storeVars, keepVars
    <3>2. CASE pc' = [pc EXCEPT ![n] = "wait"] /\ DropLease(n) /\ EndCall(n)
      BY <2>8, <3>2, EndCallType, DropLeaseType
      DEF ReleaseRead, EndCall, storeVars, keepVars
    <3> QED
      BY <2>8, <3>1, <3>2 DEF ReleaseRead
  <2>9. CASE ReleaseSwap(n)
    <3>1. Released(seen[n], now[n]) \in Record
      BY <2>9, MovedExpiryType DEF ReleaseSwap
    <3>2. /\ lock' \in Record \cup {NoRecord}
          /\ late' \in SUBSET Put
      BY <2>9, <3>1, PutType DEF ReleaseSwap
    <3> QED
      BY <2>9, <3>2, EndCallType, DropLeaseType
      DEF ReleaseSwap, EndCall, keepVars
  <2> QED
    BY <1>4, <2>1, <2>2, <2>3, <2>4, <2>5, <2>6, <2>7, <2>8, <2>9
    DEF MainStep
<1>5. ASSUME NEW n \in Node, KeeperStep(n) PROVE TypeInv'
  <2>1. CASE Watchdog(n)
    BY <2>1 DEF Watchdog, storeVars
  <2>2. CASE KeeperCancelled(n)
    BY <2>2 DEF KeeperCancelled, storeVars, nodeVars
  <2>3. CASE RenewStart(n)
    BY <2>3 DEF RenewStart, storeVars, nodeVars
  <2>4. CASE RenewRead(n)
    BY <2>4 DEF RenewRead, EndRenew, Owns, storeVars, nodeVars
  <2>5. CASE RenewSwap(n)
    <3>1. Renewed(rseen[n], rnow[n]) \in Record
      BY <2>5, MovedExpiryType DEF RenewSwap
    <3>2. /\ lock' \in Record \cup {NoRecord}
          /\ late' \in SUBSET Put
      BY <2>5, <3>1, PutType DEF RenewSwap
    <3> QED
      BY <2>5, <3>1, <3>2, EndRenewType DEF RenewSwap, EndRenew
  <2>6. CASE RenewResult(n)
    BY <2>6 DEF RenewResult, storeVars
  <2>7. CASE KeeperExit(n)
    BY <2>7 DEF KeeperExit, storeVars, nodeVars
  <2> QED
    BY <1>5, <2>1, <2>2, <2>3, <2>4, <2>5, <2>6, <2>7 DEF KeeperStep
<1>6. ASSUME NEW n \in Node, Shutdown(n) PROVE TypeInv'
  BY <1>6 DEF Shutdown, storeVars, keepVars
<1>7. ASSUME NEW n \in Node, Crash(n) PROVE TypeInv'
  BY <1>7, EndCallType, EndRenewType
  DEF Crash, EndCall, EndRenew, storeVars
<1> QED
  BY <1>1, <1>2, <1>3, <1>4, <1>5, <1>6, <1>7 DEF Next

\* Every reachable state is well typed, for every set of nodes, every lease
\* term and every clock skew.
THEOREM TypeCorrect == Spec => []TypeOK
<1>1. TypeInv => TypeOK
  BY DEF TypeInv
<1> QED
  BY <1>1, TypeInit, TypeStep, PTL DEF Spec

-----------------------------------------------------------------------------
(***************************************************************************)
(* The inductive invariant.                                                *)
(***************************************************************************)

\* The goroutine and its keepAlive agree on whether there is a lease.
Control ==
    \A n \in Node :
        /\ pc[n] \in {"lockRead", "lockSwap", "stopped"} => held[n] = NoRecord
        /\ pc[n] \in {"scan", "stopping", "relRead", "relSwap"} =>
              held[n] # NoRecord
        /\ keeper[n] # "none" =>
              held[n] # NoRecord /\ pc[n] \in {"wait", "scan", "stopping"}
        /\ keeper[n] \in {"none", "done"} => renewal[n] = "none"

\* An owner id was drawn before, and is not the one about to be stored.
Used(o) ==
    /\ o[2] <= attempt[o[1]]
    /\ pc[o[1]] \in {"lockRead", "lockSwap"} => o[2] < attempt[o[1]]

OwnersUsed ==
    /\ lock # NoRecord => Used(lock.owner)
    /\ \A p \in late : Used(p.new.owner)
    /\ \A n \in Node :
          /\ held[n] # NoRecord => held[n].owner[1] = n /\ Used(held[n].owner)
          /\ pc[n] = "lockSwap" /\ seen[n] # NoRecord =>
                seen[n].owner # <<n, attempt[n]>>

\* Every instant a node remembers has passed on its own clock.
Clocks ==
    \A n \in Node :
        /\ pc[n] \in {"lockRead", "lockSwap", "relRead", "relSwap"} =>
              now[n] <= Time(n)
        /\ held[n] # NoRecord => held[n].started <= Time(n)
                                 /\ held[n].expires <= Time(n) + TTL
        /\ pc[n] \in {"relRead", "relSwap"} => held[n].started <= now[n]
        /\ renewal[n] \in {"read", "swap"} =>
              /\ rnow[n] <= Time(n)
              /\ held[n].started <= rnow[n]
              /\ held[n].expires <= rnow[n] + TTL

\* No renewal will be sent in this holding any more.
Spent(n) == /\ renewal[n] \notin {"read", "swap"}
            /\ renewal[n] = "failed" \/ keeper[n] # "run"

\* The record of an owner that n still holds: n's own copy of it, or what a
\* renewal that seemed to fail has made of it.
Copy(record, n) == /\ record.started = held[n].started
                   /\ record.expires >= held[n].expires
                   /\ record # held[n] => Spent(n)

\* What the calls in progress have read.
Pending ==
    \A n \in Node :
        /\ pc[n] = "lockSwap" /\ seen[n] # NoRecord => seen[n].expires <= now[n]
        /\ pc[n] = "relSwap" => /\ seen[n] # NoRecord
                                /\ seen[n].owner = held[n].owner
                                /\ seen[n].started = held[n].started
        /\ renewal[n] = "swap" => rseen[n] = held[n]

\* A PUT in flight: an acquisition follows an expired record, any other keeps
\* the owner and the start; ...
Ordered(p) ==
    /\ p.new.started <= p.new.expires
    /\ p.old # NoRecord =>
          \/ p.old.owner = p.new.owner /\ p.old.started = p.new.started
          \/ /\ p.old.expires <= p.new.started
             /\ p.new.started <= Time(p.new.owner[1])

\* ... and if its owner still holds the lease it is this holding's last renewal.
LastRenewal(p, n) ==
    /\ p.old = held[n]
    /\ p.new.started = held[n].started
    /\ p.new.expires >= held[n].expires
    /\ Spent(n)

LatePuts ==
    \A p \in late :
        /\ Ordered(p)
        /\ \A n \in Node : held[n] # NoRecord /\ held[n].owner = p.new.owner =>
              LastRenewal(p, n)

\* The stored record: later than every lease held, or the same lease.
LockCovers ==
    /\ lock # NoRecord => lock.started <= lock.expires
    /\ \A n \in Node : held[n] # NoRecord =>
          /\ lock # NoRecord
          /\ IF lock.owner = held[n].owner THEN Copy(lock, n)
                                           ELSE held[n].expires <= lock.started

IInv == /\ TypeInv
        /\ Control
        /\ OwnersUsed
        /\ Clocks
        /\ Pending
        /\ LatePuts
        /\ LockCovers
        /\ LeasesDisjoint

LEMMA ControlStep == TypeInv /\ Control /\ [Next]_vars => Control'
<1> SUFFICES ASSUME TypeInv, Control, [Next]_vars PROVE Control'
  OBVIOUS
<1> USE DEF TypeInv, TypeOK, ReadsRecord, MainPC, KeeperPC, RenewalPC, Control
<1>1. CASE UNCHANGED vars
  BY <1>1 DEF vars, nodeVars, keepVars
<1>2. CASE Advance
  BY <1>2 DEF Advance, nodeVars, keepVars
<1>3. ASSUME NEW p \in late, LateApply(p) PROVE Control'
  BY <1>3 DEF LateApply, nodeVars, keepVars
<1>4. ASSUME NEW n \in Node, MainStep(n) PROVE Control'
  <2>1. NewRecord(n) # NoRecord
    BY NewRecordType
  <2> QED
    BY <1>4, <2>1
    DEF MainStep, AcquireStart, AcquireRead, AcquireSwap, Tick, ScanEnd, Leave,
        StopDone, ReleaseRead, ReleaseSwap, DropLease, keepVars
<1>5. ASSUME NEW n \in Node, KeeperStep(n) PROVE Control'
  <2>1. renewal[n] = "swap" => Renewed(rseen[n], rnow[n]) # NoRecord
    BY MovedExpiryType
  <2> QED
    BY <1>5, <2>1
    DEF KeeperStep, Watchdog, KeeperCancelled, RenewStart, RenewRead,
        RenewSwap, RenewResult, KeeperExit, nodeVars
<1>6. ASSUME NEW n \in Node, Shutdown(n) \/ Crash(n) PROVE Control'
  BY <1>6 DEF Shutdown, Crash, keepVars
<1> QED
  BY <1>1, <1>2, <1>3, <1>4, <1>5, <1>6 DEF Next

LEMMA OwnerTypes ==
  ASSUME TypeOK
  PROVE  /\ lock # NoRecord => lock.owner \in Owner
         /\ \A p \in late : p.new.owner \in Owner
         /\ \A n \in Node : held[n] # NoRecord => held[n].owner \in Owner
  BY DEF TypeOK, Record, Put

\* An id that was used stays used: attempts only grow, and a node about to
\* store an id has just drawn it.
LEMMA StaysUsed ==
  ASSUME TypeOK, [Next]_vars, NEW o \in Owner, Used(o)
  PROVE  Used(o)'
<1> USE DEF TypeOK, MainPC
<1> DEFINE Later(m) ==
             \/ /\ attempt'[m] = attempt[m]
                /\ pc'[m] \in {"lockRead", "lockSwap"} =>
                      pc[m] \in {"lockRead", "lockSwap"}
             \/ attempt'[m] = attempt[m] + 1
<1>1. ASSUME NEW m \in Node PROVE Later(m)
  <2>1. CASE UNCHANGED vars
    BY <2>1 DEF vars, nodeVars
  <2>2. CASE Advance \/ \E p \in late : LateApply(p)
    BY <2>2 DEF Advance, LateApply, nodeVars
  <2>3. ASSUME NEW n \in Node, MainStep(n)
        PROVE  Later(m)
    BY <2>3
    DEF MainStep, AcquireStart, AcquireRead, AcquireSwap, Tick, ScanEnd, Leave,
        StopDone, ReleaseRead, ReleaseSwap
  <2>4. ASSUME NEW n \in Node, KeeperStep(n) \/ Shutdown(n) \/ Crash(n)
        PROVE  Later(m)
    BY <2>4
    DEF KeeperStep, Watchdog, KeeperCancelled, RenewStart, RenewRead,
        RenewSwap, RenewResult, KeeperExit, Shutdown, Crash, nodeVars
  <2> QED
    BY <2>1, <2>2, <2>3, <2>4 DEF Next
<1> DEFINE k == o[1]
           i == o[2]
<1>2. k \in Node /\ i \in Nat /\ attempt[k] \in Nat
  BY DEF Owner
<1>3. i <= attempt[k] /\ (pc[k] \in {"lockRead", "lockSwap"} => i < attempt[k])
  BY DEF Used
<1>4. Later(k)
  BY <1>1, <1>2
<1> HIDE DEF k, i
<1>5. /\ i <= attempt'[k]
      /\ pc'[k] \in {"lockRead", "lockSwap"} => i < attempt'[k]
  BY <1>2, <1>3, <1>4
<1> QED
  BY <1>5 DEF k, i, Used

LEMMA OwnersStep ==
  ASSUME TypeInv, Control, OwnersUsed, Pending, [Next]_vars
  PROVE  OwnersUsed'
<1> USE DEF TypeInv, TypeOK, OwnersUsed
<1>1. \A o \in Owner : Used(o) => Used(o)'
  BY StaysUsed
<1> USE <1>1, OwnerTypes
<1>2. CASE UNCHANGED vars
  BY <1>2 DEF vars, storeVars, nodeVars
<1>3. CASE Advance
  BY <1>3 DEF Advance, storeVars, nodeVars
<1>4. ASSUME NEW p \in late, LateApply(p) PROVE OwnersUsed'
  BY <1>4 DEF LateApply, nodeVars
<1>5. ASSUME NEW n \in Node, MainStep(n) PROVE OwnersUsed'
  <2>1. CASE AcquireStart(n)
    BY <2>1 DEF AcquireStart, storeVars, MainPC
  <2>2. CASE AcquireRead(n)
    <3>1. lock # NoRecord => lock.owner # <<n, attempt[n]>>
      BY <2>2 DEF AcquireRead, Used
    <3> QED
      BY <2>2, <3>1 DEF AcquireRead, EndCall, storeVars, MainPC
  <2>3. CASE AcquireSwap(n)
    <3>1. NewRecord(n) # NoRecord /\ NewRecord(n).owner = <<n, attempt[n]>>
      BY NewRecordType DEF NewRecord
    <3>2. Used(<<n, attempt[n]>>)'
      BY <2>3 DEF AcquireSwap, Used, MainPC
    <3>3. (lock # NoRecord => Used(lock.owner))'
      BY <2>3, <3>1, <3>2 DEF AcquireSwap, PutApplied, PutFailed
    <3>4. (\A p \in late : Used(p.new.owner))'
      BY SMTT(30), <2>3, <3>1, <3>2 DEF AcquireSwap, PutApplied, PutFailed
    <3>5. (\A m \in Node : held[m] # NoRecord =>
              held[m].owner[1] = m /\ Used(held[m].owner))'
      BY SMTT(30), <2>3, <3>1, <3>2 DEF AcquireSwap
    <3>6. (\A m \in Node : pc[m] = "lockSwap" /\ seen[m] # NoRecord =>
              seen[m].owner # <<m, attempt[m]>>)'
      BY <2>3 DEF AcquireSwap, EndCall
    <3> QED
      BY <3>3, <3>4, <3>5, <3>6
  <2>4. CASE Tick(n) \/ ScanEnd(n) \/ Leave(n) \/ StopDone(n)
    BY <2>4 DEF Tick, ScanEnd, Leave, StopDone, storeVars
  <2>5. CASE ReleaseRead(n)
    BY <2>5 DEF ReleaseRead, DropLease, EndCall, storeVars
  <2>6. CASE ReleaseSwap(n)
    <3>1. /\ held[n] # NoRecord
          /\ Released(seen[n], now[n]) # NoRecord
          /\ Released(seen[n], now[n]).owner = held[n].owner
      BY <2>6, MovedExpiryType
      DEF ReleaseSwap, ReadsRecord, Released, Pending, Record, Control
    <3> QED
      BY <2>6, <3>1
      DEF ReleaseSwap, DropLease, EndCall, PutApplied, PutFailed, Put
  <2> QED
    BY <1>5, <2>1, <2>2, <2>3, <2>4, <2>5, <2>6 DEF MainStep
<1>6. ASSUME NEW n \in Node, KeeperStep(n) PROVE OwnersUsed'
  <2>1. CASE RenewSwap(n)
    <3>1. /\ held[n] # NoRecord
          /\ Renewed(rseen[n], rnow[n]) # NoRecord
          /\ Renewed(rseen[n], rnow[n]).owner = held[n].owner
      BY <2>1, MovedExpiryType
      DEF RenewSwap, ReadsRecord, Renewed, Pending, Record, Control
    <3> QED
      BY <2>1, <3>1 DEF RenewSwap, PutApplied, PutFailed, Put
  <2> QED
    BY <1>6, <2>1
    DEF KeeperStep, Watchdog, KeeperCancelled, RenewStart, RenewRead,
        RenewResult, KeeperExit, storeVars, nodeVars
<1>7. ASSUME NEW n \in Node, Shutdown(n) \/ Crash(n) PROVE OwnersUsed'
  BY <1>7 DEF Shutdown, Crash, EndCall, storeVars
<1> QED
  BY <1>2, <1>3, <1>4, <1>5, <1>6, <1>7 DEF Next

LEMMA ClocksStep ==
  ASSUME TypeInv, Control, Clocks, Pending, [Next]_vars
  PROVE  Clocks'
<1> USE DEF TypeInv, TypeOK, ReadsRecord, MainPC, KeeperPC, RenewalPC, Control,
            Clocks, Record, Time
<1>1. CASE UNCHANGED vars
  BY <1>1 DEF vars, nodeVars, keepVars
<1>2. CASE Advance
  BY <1>2 DEF Advance, nodeVars, keepVars
<1>3. ASSUME NEW p \in late, LateApply(p) PROVE Clocks'
  BY <1>3 DEF LateApply, nodeVars, keepVars
<1>4. ASSUME NEW n \in Node, MainStep(n) PROVE Clocks'
  <2>1. CASE AcquireSwap(n)
    <3>1. /\ NewRecord(n) \in Record
          /\ NewRecord(n).started = now[n]
          /\ NewRecord(n).expires = now[n] + TTL
      BY NewRecordType DEF NewRecord
    <3> QED
      BY <2>1, <3>1 DEF AcquireSwap, EndCall
  <2>2. CASE AcquireStart(n) \/ AcquireRead(n)
    BY <2>2 DEF AcquireStart, AcquireRead, EndCall, keepVars
  <2>3. CASE Tick(n) \/ ScanEnd(n) \/ Leave(n) \/ StopDone(n)
    BY <2>3 DEF Tick, ScanEnd, Leave, StopDone, keepVars
  <2>4. CASE ReleaseRead(n) \/ ReleaseSwap(n)
    BY <2>4 DEF ReleaseRead, ReleaseSwap, DropLease, EndCall, keepVars
  <2> QED
    BY <1>4, <2>1, <2>2, <2>3, <2>4 DEF MainStep
<1>5. ASSUME NEW n \in Node, KeeperStep(n) PROVE Clocks'
  <2>1. CASE RenewSwap(n)
    <3> DEFINE r == Renewed(rseen[n], rnow[n])
    <3>1. /\ held[n] # NoRecord
          /\ r \in Record
          /\ r.started = held[n].started
          /\ r.expires = rnow[n] + TTL
      BY <2>1, MovedExpiryType DEF RenewSwap, Renewed, Pending
    <3>2. \/ held' = [held EXCEPT ![n] = r]
          \/ held' = held
      BY <2>1 DEF RenewSwap
    <3> HIDE DEF r
    <3>3. renewal'[n] = "ok" \/ renewal'[n] = "failed"
      BY <2>1 DEF RenewSwap
    <3>4. /\ rnow[n] <= Time(n)
          /\ held'[n].started = held[n].started
      BY <2>1, <3>1, <3>2 DEF RenewSwap
    <3>5. held'[n].expires <= Time(n) + TTL
      BY <2>1, <3>1, <3>2, <3>4 DEF RenewSwap
    <3> QED
      BY <2>1, <3>1, <3>2, <3>3, <3>4, <3>5 DEF RenewSwap, EndRenew
  <2>2. CASE RenewStart(n) \/ RenewRead(n)
    BY <2>2 DEF RenewStart, RenewRead, EndRenew, Valid, nodeVars
  <2> QED
    BY <1>5, <2>1, <2>2
    DEF KeeperStep, Watchdog, KeeperCancelled, RenewResult, KeeperExit, nodeVars
<1>6. ASSUME NEW n \in Node, Shutdown(n) \/ Crash(n) PROVE Clocks'
  BY <1>6 DEF Shutdown, Crash, EndCall, EndRenew, keepVars
<1> QED
  BY <1>1, <1>2, <1>3, <1>4, <1>5, <1>6 DEF Next

LEMMA PendingStep ==
  ASSUME TypeInv, Control, Pending, LockCovers, [Next]_vars
  PROVE  Pending'
<1> USE DEF TypeInv, TypeOK, ReadsRecord, MainPC, KeeperPC, RenewalPC, Control,
            Pending
<1>1. CASE UNCHANGED vars
  BY <1>1 DEF vars, nodeVars, keepVars
<1>2. CASE Advance
  BY <1>2 DEF Advance, nodeVars, keepVars
<1>3. ASSUME NEW p \in late, LateApply(p) PROVE Pending'
  BY <1>3 DEF LateApply, nodeVars, keepVars
<1>4. ASSUME NEW n \in Node, MainStep(n) PROVE Pending'
  <2>1. CASE AcquireRead(n)
    BY <2>1 DEF AcquireRead, EndCall, Expired, keepVars
  <2>2. CASE ReleaseRead(n)
    <3>1. CASE Owns(lock, held[n].owner) /\ pc' = [pc EXCEPT ![n] = "relSwap"]
               /\ seen' = [seen EXCEPT ![n] = lock]
               /\ UNCHANGED <<held, lost, now>>
      BY <2>2, <3>1 DEF ReleaseRead, Owns, LockCovers, Copy, keepVars
    <3>2. CASE pc' = [pc EXCEPT ![n] = "wait"] /\ DropLease(n) /\ EndCall(n)
      BY <2>2, <3>2 DEF ReleaseRead, DropLease, EndCall, keepVars
    <3> QED
      BY <2>2, <3>1, <3>2 DEF ReleaseRead
  <2> QED
    BY <1>4, <2>1, <2>2
    DEF MainStep, AcquireStart, AcquireSwap, Tick, ScanEnd, Leave, StopDone,
        ReleaseSwap, DropLease, EndCall, keepVars
<1>5. ASSUME NEW n \in Node, KeeperStep(n) PROVE Pending'
  <2>1. CASE RenewRead(n)
    <3>1. CASE Owns(lock, held[n].owner)
               /\ renewal' = [renewal EXCEPT ![n] = "swap"]
               /\ rseen' = [rseen EXCEPT ![n] = lock]
      <4>1. lock = held[n]
        BY <2>1, <3>1 DEF RenewRead, LockCovers, Owns, Copy, Spent
      <4> QED
        BY <2>1, <3>1, <4>1 DEF RenewRead, nodeVars
    <3>2. CASE renewal' = [renewal EXCEPT ![n] = "failed"] /\ EndRenew(n)
      BY <2>1, <3>2 DEF RenewRead, EndRenew, nodeVars
    <3> QED
      BY <2>1, <3>1, <3>2 DEF RenewRead
  <2>2. CASE RenewSwap(n)
    BY <2>2 DEF RenewSwap, EndRenew
  <2> QED
    BY <1>5, <2>1, <2>2
    DEF KeeperStep, Watchdog, KeeperCancelled, RenewStart, RenewResult,
        KeeperExit, nodeVars
<1>6. ASSUME NEW n \in Node, Shutdown(n) \/ Crash(n) PROVE Pending'
  BY <1>6 DEF Shutdown, Crash, EndCall, EndRenew, keepVars
<1> QED
  BY <1>1, <1>2, <1>3, <1>4, <1>5, <1>6 DEF Next

\* What the three kinds of PUT would store.
LEMMA NewRecordFacts ==
  ASSUME TypeInv, NEW n \in Node
  PROVE  /\ NewRecord(n) \in Record
         /\ NewRecord(n).owner = <<n, attempt[n]>>
         /\ NewRecord(n).started = now[n]
         /\ NewRecord(n).expires = now[n] + TTL
  BY NewRecordType DEF TypeInv, NewRecord

LEMMA RenewedFacts ==
  ASSUME TypeInv, Control, Pending, NEW n \in Node, renewal[n] = "swap"
  PROVE  /\ held[n] \in Record
         /\ rseen[n] = held[n]
         /\ Renewed(rseen[n], rnow[n]) \in Record
         /\ Renewed(rseen[n], rnow[n]).owner = held[n].owner
         /\ Renewed(rseen[n], rnow[n]).started = held[n].started
         /\ Renewed(rseen[n], rnow[n]).expires = rnow[n] + TTL
  BY MovedExpiryType
  DEF TypeInv, TypeOK, ReadsRecord, Control, Pending, Renewed, Record

LEMMA ReleasedFacts ==
  ASSUME TypeInv, Control, Pending, NEW n \in Node, pc[n] = "relSwap"
  PROVE  /\ held[n] \in Record
         /\ seen[n] \in Record
         /\ Released(seen[n], now[n]) \in Record
         /\ Released(seen[n], now[n]).owner = held[n].owner
         /\ Released(seen[n], now[n]).owner = seen[n].owner
         /\ Released(seen[n], now[n]).started = held[n].started
         /\ Released(seen[n], now[n]).started = seen[n].started
         /\ Released(seen[n], now[n]).expires = now[n]
  BY MovedExpiryType
  DEF TypeInv, TypeOK, ReadsRecord, Control, Pending, Released, Record

\* A PUT that joins those in flight is the one just sent.
LEMMA LateOf ==
  ASSUME NEW old, NEW new, PutApplied(old, new) \/ PutFailed(old, new)
  PROVE  \A p \in late' : p \in late \/ p = [old |-> old, new |-> new]
  BY DEF PutApplied, PutFailed

\* Clocks run forward, so an ordered PUT stays ordered.
LEMMA StaysOrdered ==
  ASSUME TypeInv, [Next]_vars, NEW p \in Put, Ordered(p)
  PROVE  Ordered(p)'
<1>1. clock' = clock \/ clock' = clock + 1
  BY DEF Next, vars, Advance, LateApply, MainStep, AcquireStart, AcquireRead,
    AcquireSwap, Tick, ScanEnd, Leave, StopDone, ReleaseRead, ReleaseSwap,
    KeeperStep, Watchdog, KeeperCancelled, RenewStart, RenewRead, RenewSwap,
    RenewResult, KeeperExit, Shutdown, Crash
<1>2. p.new.owner[1] \in Node /\ p.new.started \in Int
  BY DEF Put, Record, Owner
<1> QED
  BY <1>1, <1>2 DEF TypeInv, TypeOK, Ordered, Time

LEMMA LatePutsStep ==
  ASSUME TypeInv, Control, OwnersUsed, Clocks, Pending, LatePuts, [Next]_vars
  PROVE  LatePuts'
<1> USE DEF TypeInv, TypeOK, ReadsRecord, MainPC, KeeperPC, RenewalPC, Control,
            LatePuts, LastRenewal, Spent
<1>1. \A p \in late : p \in Put /\ Ordered(p)'
  BY StaysOrdered
<1>2. CASE UNCHANGED vars
  BY <1>1, <1>2 DEF vars, storeVars, nodeVars, keepVars
<1>3. CASE Advance
  BY <1>1, <1>3 DEF Advance, storeVars, nodeVars, keepVars
<1>4. ASSUME NEW p \in late, LateApply(p) PROVE LatePuts'
  BY <1>1, <1>4 DEF LateApply, nodeVars, keepVars
<1>5. ASSUME NEW n \in Node, MainStep(n) PROVE LatePuts'
  <2>1. CASE AcquireSwap(n)
    <3> DEFINE q == [old |-> seen[n], new |-> NewRecord(n)]
    <3>1. \A p \in late' : p \in late \/ p = q
      BY <2>1, LateOf DEF AcquireSwap
    <3>2. \A p : p = q => Ordered(p)'
      BY <2>1, NewRecordFacts DEF AcquireSwap, Ordered, Clocks, Pending, Time
    <3>3. \/ held' = held
          \/ late' = late /\ held' = [held EXCEPT ![n] = NewRecord(n)]
      BY <2>1 DEF AcquireSwap, PutApplied
    <3>4. \A p \in late : p.new.owner # <<n, attempt[n]>>
      BY <2>1 DEF AcquireSwap, OwnersUsed, Used
    <3>5. \A m \in Node : held[m] # NoRecord => held[m].owner # <<n, attempt[n]>>
      BY <2>1 DEF AcquireSwap, OwnersUsed, Used
    <3> QED
      BY SMTT(30), <1>1, <2>1, <3>1, <3>2, <3>3, <3>4, <3>5, NewRecordFacts
      DEF AcquireSwap
  <2>2. CASE ReleaseRead(n)
    BY <1>1, <2>2 DEF ReleaseRead, DropLease, storeVars, keepVars
  <2>3. CASE ReleaseSwap(n)
    <3> DEFINE q == [old |-> seen[n], new |-> Released(seen[n], now[n])]
    <3>1. \A p \in late' : p \in late \/ p = q
      BY <2>3, LateOf DEF ReleaseSwap
    <3>2. \A p : p = q => Ordered(p)'
      BY <2>3, ReleasedFacts DEF ReleaseSwap, Ordered, Clocks
    <3>3. \A m \in Node : held'[m] # NoRecord =>
             held'[m] = held[m] /\ held[m].owner # held[n].owner
      BY <2>3 DEF ReleaseSwap, DropLease, OwnersUsed
    <3> QED
      BY <1>1, <2>3, <3>1, <3>2, <3>3, ReleasedFacts DEF ReleaseSwap, keepVars
  <2> QED
    BY <1>1, <1>5, <2>1, <2>2, <2>3
    DEF MainStep, AcquireStart, AcquireRead, Tick, ScanEnd, Leave, StopDone,
        storeVars, keepVars
<1>6. ASSUME NEW n \in Node, KeeperStep(n) PROVE LatePuts'
  <2>1. CASE RenewSwap(n)
    <3> DEFINE r == Renewed(rseen[n], rnow[n])
               q == [old |-> rseen[n], new |-> r]
    <3>1. \A p \in late' : p \in late \/ p = q
      BY <2>1, LateOf DEF RenewSwap
    <3>2. \A p : p = q => Ordered(p)'
      <4>1. /\ r \in Record
            /\ r.owner = rseen[n].owner
            /\ r.started = rseen[n].started
            /\ r.started <= r.expires
        BY <2>1, RenewedFacts DEF RenewSwap, Clocks, Record
      <4> HIDE DEF r
      <4> QED
        BY <4>1 DEF Ordered
    <3>3. \A p \in late : p.new.owner # held[n].owner
      BY <2>1 DEF RenewSwap
    <3>4. \A m \in Node \ {n} : held[m] # NoRecord => held[m].owner # held[n].owner
      BY <2>1 DEF RenewSwap, OwnersUsed
    <3>5. CASE late' = late /\ held' = [held EXCEPT ![n] = r]
      BY <1>1, <2>1, <3>3, <3>5, RenewedFacts DEF RenewSwap
    <3>6. CASE held' = held /\ renewal' = [renewal EXCEPT ![n] = "failed"]
      BY <1>1, <2>1, <3>1, <3>2, <3>4, <3>6, RenewedFacts DEF RenewSwap, Clocks
    <3> QED
      BY <2>1, <3>5, <3>6 DEF RenewSwap, PutApplied
  <2> QED
    BY <1>1, <1>6, <2>1
    DEF KeeperStep, Watchdog, KeeperCancelled, RenewStart, RenewRead,
        RenewResult, KeeperExit, storeVars, nodeVars
<1>7. ASSUME NEW n \in Node, Shutdown(n) \/ Crash(n) PROVE LatePuts'
  BY <1>1, <1>7 DEF Shutdown, Crash, storeVars, keepVars
<1> QED
  BY <1>2, <1>3, <1>4, <1>5, <1>6, <1>7 DEF Next

\* No lease outlasts the stored record.
LEMMA HeldWithinLock ==
  ASSUME TypeInv, LockCovers, NEW n \in Node, held[n] # NoRecord
  PROVE  /\ lock \in Record
         /\ held[n] \in Record
         /\ held[n].expires <= lock.expires
  BY DEF TypeInv, TypeOK, LockCovers, Copy, Record

LEMMA LockCoversStep ==
  ASSUME IInv, [Next]_vars
  PROVE  LockCovers'
<1> USE DEF IInv, TypeInv, TypeOK, ReadsRecord, MainPC, KeeperPC, RenewalPC,
            Control, LockCovers, Copy, Spent
<1>1. CASE UNCHANGED vars
  BY <1>1 DEF vars, storeVars, nodeVars, keepVars
<1>2. CASE Advance
  BY <1>2 DEF Advance, storeVars, nodeVars, keepVars
<1>3. ASSUME NEW p \in late, LateApply(p) PROVE LockCovers'
  <2>1. CASE lock = p.old /\ lock' = p.new
    <3>1. p.new \in Record /\ Ordered(p)
      BY DEF LatePuts, Put
    <3>2. ASSUME NEW n \in Node, held[n] # NoRecord
          PROVE  IF p.new.owner = held[n].owner
                 THEN Copy(p.new, n) ELSE held[n].expires <= p.new.started
      <4>1. CASE p.new.owner = held[n].owner
        BY <3>2, <4>1 DEF LatePuts, LastRenewal
      <4>2. CASE p.new.owner # held[n].owner
        BY <2>1, <3>1, <3>2, <4>2, HeldWithinLock DEF Ordered, Record
      <4> QED
        BY <4>1, <4>2
    <3> QED
      BY <1>3, <2>1, <3>1, <3>2 DEF LateApply, Ordered, nodeVars, keepVars
  <2>2. CASE lock' = lock
    BY <1>3, <2>2 DEF LateApply, nodeVars, keepVars
  <2> QED
    BY <1>3, <2>1, <2>2 DEF LateApply, Matches
<1>4. ASSUME NEW n \in Node, MainStep(n) PROVE LockCovers'
  <2>1. CASE AcquireSwap(n)
    <3>1. CASE PutApplied(seen[n], NewRecord(n))
               /\ held' = [held EXCEPT ![n] = NewRecord(n)]
      <4> DEFINE r == NewRecord(n)
      <4>1. r \in Record /\ r.started <= r.expires /\ r.owner = <<n, attempt[n]>>
        BY NewRecordFacts
      <4>2. ASSUME NEW m \in Node \ {n}, held[m] # NoRecord
            PROVE  held[m].owner # r.owner /\ held[m].expires <= r.started
        BY <2>1, <3>1, <4>1, <4>2, HeldWithinLock, NewRecordFacts
        DEF AcquireSwap, OwnersUsed, Pending, PutApplied, Matches, Record
      <4>3. lock' = r /\ held' = [held EXCEPT ![n] = r]
        BY <3>1 DEF PutApplied
      <4> HIDE DEF r
      <4>4. lock'.started <= lock'.expires
        BY <4>1, <4>3
      <4>5. ASSUME NEW m \in Node \ {n}, held'[m] # NoRecord
            PROVE  lock'.owner # held'[m].owner
                   /\ held'[m].expires <= lock'.started
        BY <4>2, <4>3, <4>5
      <4>6. held'[n] = r /\ r # NoRecord /\ r.expires >= r.expires
        BY <4>1, <4>3 DEF Record
      <4> QED
        BY <2>1, <4>3, <4>4, <4>5, <4>6 DEF AcquireSwap
    <3>2. CASE PutFailed(seen[n], NewRecord(n)) /\ held' = held
      BY <2>1, <3>2 DEF AcquireSwap, PutFailed
    <3> QED
      BY <2>1, <3>1, <3>2 DEF AcquireSwap
  <2>2. CASE ReleaseSwap(n)
    <3> DEFINE r == Released(seen[n], now[n])
    <3>1. \A m \in Node : held'[m] # NoRecord =>
             held'[m] = held[m] /\ held[m].owner # held[n].owner
      BY <2>2 DEF ReleaseSwap, DropLease, OwnersUsed
    <3>2. CASE PutApplied(seen[n], r)
      <4>1. /\ r \in Record /\ r.owner = held[n].owner
            /\ r.started = lock.started /\ r.owner = lock.owner
            /\ r.started <= r.expires
        BY <2>2, <3>2, ReleasedFacts
        DEF ReleaseSwap, PutApplied, Matches, Clocks, Record
      <4> HIDE DEF r
      <4> QED
        BY <2>2, <3>1, <3>2, <4>1 DEF ReleaseSwap, PutApplied, keepVars
    <3>3. CASE PutFailed(seen[n], r)
      BY <2>2, <3>1, <3>3 DEF ReleaseSwap, PutFailed, keepVars
    <3> QED
      BY <2>2, <3>2, <3>3 DEF ReleaseSwap
  <2>3. CASE ReleaseRead(n)
    BY <2>3 DEF ReleaseRead, DropLease, storeVars, keepVars
  <2> QED
    BY <1>4, <2>1, <2>2, <2>3
    DEF MainStep, AcquireStart, AcquireRead, Tick, ScanEnd, Leave, StopDone,
        storeVars, keepVars
<1>5. ASSUME NEW n \in Node, KeeperStep(n) PROVE LockCovers'
  <2>1. CASE RenewSwap(n)
    <3> DEFINE r == Renewed(rseen[n], rnow[n])
    <3>1. CASE PutApplied(rseen[n], r) /\ held' = [held EXCEPT ![n] = r]
      <4>1. /\ r \in Record /\ r.owner = held[n].owner
            /\ lock = held[n] /\ r.started = lock.started
            /\ r.started <= r.expires
        BY <2>1, <3>1, RenewedFacts
        DEF RenewSwap, PutApplied, Matches, Clocks, Record
      <4>2. ASSUME NEW m \in Node \ {n}, held[m] # NoRecord
            PROVE  held[m].owner # r.owner /\ held[m].expires <= r.started
        BY <4>1, <4>2 DEF OwnersUsed
      <4> HIDE DEF r
      <4>3. lock' = r /\ lock'.started <= lock'.expires
        BY <3>1, <4>1 DEF PutApplied
      <4>4. ASSUME NEW m \in Node \ {n}, held'[m] # NoRecord
            PROVE  lock'.owner # held'[m].owner
                   /\ held'[m].expires <= lock'.started
        BY <3>1, <4>2, <4>3, <4>4
      <4>5. held'[n] = r /\ r # NoRecord /\ r.expires >= r.expires
        BY <3>1, <4>1 DEF Record
      <4> QED
        BY <2>1, <4>3, <4>4, <4>5 DEF RenewSwap
    <3>2. CASE PutFailed(rseen[n], r) /\ held' = held
               /\ renewal' = [renewal EXCEPT ![n] = "failed"]
      BY <2>1, <3>2 DEF RenewSwap, PutFailed
    <3> QED
      BY <2>1, <3>1, <3>2 DEF RenewSwap
  <2> QED
    BY <1>5, <2>1
    DEF KeeperStep, Watchdog, KeeperCancelled, RenewStart, RenewRead,
        RenewResult, KeeperExit, storeVars, nodeVars
<1>6. ASSUME NEW n \in Node, Shutdown(n) \/ Crash(n) PROVE LockCovers'
  BY <1>6 DEF Shutdown, Crash, storeVars, keepVars
<1> QED
  BY <1>1, <1>2, <1>3, <1>4, <1>5, <1>6 DEF Next

\* A step changes the lease of one node at most: it drops it or takes over
\* the record just stored.
LEMMA HeldChange ==
  ASSUME TypeInv, Control, Pending, [Next]_vars
  PROVE  \/ held' = held
         \/ \E n \in Node, r \in {NoRecord, lock'} : held' = [held EXCEPT ![n] = r]
<1>1. CASE UNCHANGED vars
  BY <1>1 DEF vars, nodeVars
<1>2. CASE Advance \/ \E p \in late : LateApply(p)
  BY <1>2 DEF Advance, LateApply, nodeVars
<1>3. ASSUME NEW n \in Node, MainStep(n)
      PROVE  \/ held' = held
             \/ \E r \in {NoRecord, lock'} : held' = [held EXCEPT ![n] = r]
  BY <1>3
  DEF MainStep, AcquireStart, AcquireRead, AcquireSwap, PutApplied, Tick,
      ScanEnd, Leave, StopDone, ReleaseRead, ReleaseSwap, DropLease
<1>4. ASSUME NEW n \in Node, KeeperStep(n) \/ Shutdown(n) \/ Crash(n)
      PROVE  \/ held' = held
             \/ \E r \in {NoRecord, lock'} : held' = [held EXCEPT ![n] = r]
  BY <1>4
  DEF KeeperStep, Watchdog, KeeperCancelled, RenewStart, RenewRead, RenewSwap,
      PutApplied, RenewResult, KeeperExit, Shutdown, Crash, nodeVars
<1> QED
  BY <1>1, <1>2, <1>3, <1>4 DEF Next

LEMMA DisjointStep ==
  ASSUME LeasesDisjoint, TypeInv, Control, Pending, [Next]_vars, TypeInv',
         OwnersUsed', LockCovers'
  PROVE  LeasesDisjoint'
<1>1. CASE held' = held
  BY <1>1 DEF LeasesDisjoint
<1>2. ASSUME NEW n \in Node, held' = [held EXCEPT ![n] = NoRecord]
      PROVE  LeasesDisjoint'
  BY <1>2 DEF LeasesDisjoint, TypeInv, TypeOK
<1>3. ASSUME NEW n \in Node, lock' # NoRecord, held' = [held EXCEPT ![n] = lock']
      PROVE  LeasesDisjoint'
  <2>1. ASSUME NEW m \in Node \ {n}, held'[m] # NoRecord
        PROVE  held'[m].expires <= lock'.started
    <3>1. lock'.owner # held'[m].owner
      BY <1>3, <2>1 DEF OwnersUsed, TypeInv, TypeOK
    <3> QED
      BY <2>1, <3>1 DEF LockCovers
  <2>2. \A m \in Node \ {n} : held'[m] = held[m]
    BY <1>3
  <2>3. held'[n] = lock'
    BY <1>3 DEF TypeInv, TypeOK
  <2> QED
    BY <2>1, <2>2, <2>3 DEF LeasesDisjoint
<1> QED
  BY <1>1, <1>2, <1>3, HeldChange

LEMMA IInvInit == Init => IInv
  BY TypeInit
  DEF Init, IInv, Control, OwnersUsed, Clocks, Pending, LatePuts, LockCovers,
      LeasesDisjoint

LEMMA IInvStep == IInv /\ [Next]_vars => IInv'
<1> SUFFICES ASSUME IInv, [Next]_vars PROVE IInv'
  OBVIOUS
<1> USE DEF IInv
<1>1. TypeInv'
  BY TypeStep
<1>2. Control'
  BY ControlStep
<1>3. OwnersUsed'
  BY OwnersStep
<1>4. Clocks'
  BY ClocksStep
<1>5. Pending'
  BY PendingStep
<1>6. LatePuts'
  BY LatePutsStep
<1>7. LockCovers'
  BY LockCoversStep
<1>8. LeasesDisjoint'
  BY <1>1, <1>3, <1>7, DisjointStep
<1> QED
  BY <1>1, <1>2, <1>3, <1>4, <1>5, <1>6, <1>7, <1>8

THEOREM Invariance == Spec => []IInv
  BY IInvInit, IInvStep, PTL DEF Spec

\* Two nodes never hold leases on overlapping intervals, whatever their clocks
\* say and however late a PUT arrives: takeover waits for the expiry stored in
\* the record and a renewal extends only the record it has read.
THEOREM LeasesNeverOverlap == Spec => []LeasesDisjoint
<1>1. IInv => LeasesDisjoint
  BY DEF IInv
<1> QED
  BY <1>1, Invariance, PTL

\* When clocks agree, at most one node passes scanTasks' validity test.
THEOREM OneScanner == Spec => []NoSplitScan
<1>1. ASSUME IInv PROVE NoSplitScan
  <2> SUFFICES ASSUME Synchronised, NEW n \in Node, NEW m \in Node,
                      MayClaim(n), MayClaim(m), n # m
               PROVE  FALSE
    BY DEF NoSplitScan
  <2>1. Time(n) = Time(m) /\ Time(n) \in Int
    BY <1>1 DEF Synchronised, Time, IInv, TypeInv, TypeOK
  <2>2. ASSUME NEW k \in {n, m}
        PROVE  /\ held[k] \in Record
               /\ held[k].started <= Time(k) /\ Time(k) < held[k].expires
    BY <1>1 DEF MayClaim, Valid, IInv, TypeInv, TypeOK, Clocks
  <2>3. \/ held[n].expires <= held[m].started
        \/ held[m].expires <= held[n].started
    BY <1>1, <2>2 DEF IInv, LeasesDisjoint, MayClaim, Valid
  <2> QED
    BY <2>1, <2>2, <2>3 DEF Record
<1> QED
  BY <1>1, Invariance, PTL

\* A step that changes a record no clock has seen expire is a renewal by its
\* owner, a renewal that arrives late, or the release of an owner that lets go.
LEMMA LockChange ==
  ASSUME IInv, [Next]_vars, Unexpired
  PROVE  Untouched
<1> USE DEF IInv, TypeInv, TypeOK, Unexpired
<1>1. lock \in Record /\ lock.expires \in Int
  BY DEF Record
<1>2. CASE lock' = lock
  BY <1>1, <1>2 DEF Untouched, Owns
<1>3. ASSUME NEW p \in late, lock = p.old, lock' = p.new PROVE Untouched
  <2>1. p.new \in Record /\ p.new.owner[1] \in Node
    BY DEF Put, Record, Owner
  <2>2. p.old.owner = p.new.owner
    BY <1>1, <1>3, <2>1 DEF LatePuts, Ordered, Record, Time
  <2> QED
    BY <1>1, <1>3, <2>1, <2>2 DEF LatePuts, LastRenewal, Untouched, Owns
<1>4. ASSUME NEW n \in Node, AcquireSwap(n) PROVE Untouched
  <2>1. ~PutApplied(seen[n], NewRecord(n))
    BY <1>1, <1>4
    DEF AcquireSwap, PutApplied, Matches, Pending, Clocks, Time, MainPC
  <2> QED
    BY <1>2, <1>4, <2>1 DEF AcquireSwap, PutFailed
<1>5. ASSUME NEW n \in Node, ReleaseSwap(n) PROVE Untouched
  <2>1. CASE PutApplied(seen[n], Released(seen[n], now[n]))
    <3>1. \A m \in Node : held[m] # NoRecord /\ held[m].owner = lock.owner =>
             m = n
      BY <1>5, <2>1, ReleasedFacts
      DEF ReleaseSwap, PutApplied, Matches, OwnersUsed
    <3> QED
      BY <1>5, <2>1, <3>1, ReleasedFacts
      DEF ReleaseSwap, PutApplied, Matches, Untouched, Owns
  <2> QED
    BY <1>2, <1>5, <2>1 DEF ReleaseSwap, PutFailed
<1>6. ASSUME NEW n \in Node, RenewSwap(n) PROVE Untouched
  <2>1. CASE PutApplied(rseen[n], Renewed(rseen[n], rnow[n]))
    BY <1>1, <1>6, <2>1, RenewedFacts
    DEF RenewSwap, PutApplied, Matches, Clocks, Untouched, Owns
  <2> QED
    BY <1>2, <1>6, <2>1 DEF RenewSwap, PutFailed
<1>7. ASSUME UNCHANGED vars \/ Advance PROVE Untouched
  BY <1>2, <1>7 DEF vars, storeVars, Advance
<1>8. ASSUME NEW n \in Node,
             MainStep(n) \/ KeeperStep(n) \/ Shutdown(n) \/ Crash(n)
      PROVE  Untouched
  BY <1>2, <1>4, <1>5, <1>6, <1>8
  DEF MainStep, AcquireStart, AcquireRead, Tick, ScanEnd, Leave, StopDone,
      ReleaseRead, KeeperStep, Watchdog, KeeperCancelled, RenewStart,
      RenewRead, RenewResult, KeeperExit, Shutdown, Crash, storeVars
<1> QED
  BY <1>2, <1>3, <1>7, <1>8 DEF Next, LateApply, Matches

\* A running lease is neither taken from its owner nor cut short under it.
THEOREM RunningLeaseUntouched == Spec => SuccessorUntouched
<1>1. IInv /\ [Next]_vars => [Unexpired => Untouched]_vars
  BY LockChange
<1> QED
  BY <1>1, Invariance, PTL DEF Spec, SuccessorUntouched
=============================================================================
