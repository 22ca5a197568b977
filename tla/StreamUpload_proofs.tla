------------------------- MODULE StreamUpload_proofs -------------------------
(***************************************************************************)
(* Proofs about StreamUpload for any uploads, slots and bounds, and about  *)
(* the two modules that it puts together.  The pool's count is the number  *)
(* of borrowers, and no waiter sleeps beside more free values than signals *)
(* were lost to leaving waiters.  The read lock counts the requests and    *)
(* the open handles, and nothing of either is left when close has          *)
(* returned.  An upload takes part in both; an index that it may have      *)
(* published names its whole content, and whatever it borrowed it has      *)
(* given back when it ends.                                                *)
(***************************************************************************)
EXTENDS StreamUpload, FiniteSetTheorems, TLAPS

USE ProcAssumption, LimitAssumption

-----------------------------------------------------------------------------
(***************************************************************************)
(* The pool of part buffers, for any number of borrowers and every limit:  *)
(* its inductive invariant.                                                *)
(***************************************************************************)

Borrowers == {p \in Proc : pc[p] = "in"}

\* Waiters that a signal or a broadcast has woken and that may take a value, or
\* else will broadcast or lose their signal.
Awake == {p \in Proc : pc[p] = "woken" /\ (live[p] \/ p \in ending)}

\* The condition variable's list holds who waits, once.
Listed ==
    \A p \in Proc : pc[p] = "wait" <=> \E j \in DOMAIN waiting : waiting[j] = p

\* A waiter whose context has ended will broadcast.
Told ==
    \A p \in Proc : pc[p] = "wait" /\ ~live[p] => p \in ending \cup cast

\* Every free value beyond the first waiter has woken somebody, so that one
\* of them borrowing, or a new borrower overtaking, leaves enough awake.
Enough ==
    waiting # <<>> /\ cast = {} =>
        Limit - count <= Cardinality(Awake) + lost

PoolIInv == PoolTypeOK /\ CountExact /\ Listed /\ Told /\ Enough

LEMMA BorrowersFinite ==
  /\ IsFiniteSet(Borrowers) /\ Cardinality(Borrowers) \in Nat
  /\ Cardinality(Borrowers) <= Cardinality(Proc)
  /\ Cardinality(Proc) \in Nat
<1>1. Borrowers \in SUBSET Proc
  BY DEF Borrowers
<1> QED
  BY <1>1, FS_Subset, FS_CardinalityType

LEMMA AwakeFinite == IsFiniteSet(Awake) /\ Cardinality(Awake) \in Nat
<1>1. Awake \in SUBSET Proc
  BY DEF Awake
<1> QED
  BY <1>1, FS_Subset, FS_CardinalityType

LEMMA PoolInitIInv == PoolInit => PoolIInv
<1> SUFFICES ASSUME PoolInit PROVE PoolIInv
  OBVIOUS
<1>1. waiting \in Seq(Proc) /\ Len(waiting) = 0 /\ IsInjective(waiting)
  BY DEF PoolInit, IsInjective
<1>2. Borrowers = {}
  BY DEF PoolInit, Borrowers
<1>3. CountExact
  <2>1. Cardinality(Borrowers) = 0 /\ count = 0 /\ 0 <= Limit
    BY <1>2, FS_EmptySet DEF PoolInit
  <2> QED
    BY <2>1 DEF CountExact, Borrowers
<1>4. PoolTypeOK
  BY <1>1, FS_CardinalityType DEF PoolInit, PoolTypeOK
<1> QED
  BY <1>1, <1>3, <1>4 DEF PoolInit, PoolIInv, Listed, Told, Enough

-----------------------------------------------------------------------------
(***************************************************************************)
(* The types and the list of waiters.                                      *)
(***************************************************************************)

\* The part of PoolTypeOK that does not follow from CountExact.
PoolShapes ==
    /\ waiting \in Seq(Proc) /\ IsInjective(waiting)
    /\ pc \in [Proc -> {"out", "wait", "woken", "in", "gone"}]
    /\ live \in [Proc -> BOOLEAN]
    /\ ending \subseteq Proc /\ cast \subseteq Proc
    /\ lost \in 0..Limit

LEMMA LostStep ==
  ASSUME PoolTypeOK, count <= Limit, [PoolNext]_poolVars
  PROVE  lost' \in 0..Limit
<1>1. count \in Nat /\ Limit \in Nat /\ lost \in 0..Limit /\ count <= Limit
  BY FS_CardinalityType DEF PoolTypeOK
<1>2. ASSUME NEW p \in Proc, Get(p) \/ Woken(p) PROVE lost' \in 0..Limit
  BY <1>1, <1>2 DEF Get, Woken, TestAgain, Borrow, AtMost
<1>3. ASSUME NEW p \in Proc, Put(p) \/ StartAfterFunc(p) \/ Broadcast(p)
      PROVE  lost' \in 0..Limit
  BY <1>1, <1>3 DEF Put, StartAfterFunc, Broadcast
<1>4. ASSUME NEW P \in SUBSET Proc, Cancel(P) PROVE lost' \in 0..Limit
  BY <1>1, <1>4 DEF Cancel
<1> QED
  BY <1>1, <1>2, <1>3, <1>4 DEF PoolNext, poolVars

LEMMA PoolShapesStep ==
  ASSUME PoolShapes, Listed, Told, lost' \in 0..Limit, [PoolNext]_poolVars
  PROVE  PoolShapes' /\ Listed' /\ Told'
<1> USE DEF PoolShapes, Listed, Told, IsInjective
<1>1. CASE UNCHANGED poolVars
  BY <1>1 DEF poolVars
<1>2. ASSUME NEW p \in Proc, Get(p) PROVE PoolShapes' /\ Listed' /\ Told'
  <2>1. CASE UNCHANGED waiting
    BY <1>2, <2>1 DEF Get, Borrow, Wait, GiveUp
  <2>2. CASE live[p] /\ Wait(p)
    BY SMTT(30), <1>2, <2>2 DEF Get, Wait
  <2> QED
    BY <1>2, <2>1, <2>2 DEF Get
<1>3. ASSUME NEW p \in Proc, Woken(p) PROVE PoolShapes' /\ Listed' /\ Told'
  <2>1. CASE UNCHANGED waiting
    BY <1>3, <2>1 DEF Woken, Borrow, Wait, GiveUp
  <2>2. CASE live[p] /\ Wait(p) /\ UNCHANGED ending
    <3>1. \A j \in DOMAIN waiting : waiting[j] # p
      BY <1>3 DEF Woken
    <3>2. waiting' = Append(waiting, p) /\ pc' = [pc EXCEPT ![p] = "wait"]
      BY <2>2 DEF Wait
    <3>3. UNCHANGED <<live, ending, cast>>
      BY <1>3, <2>2 DEF Woken
    <3>4. PoolShapes'
      BY <3>1, <3>2, <3>3
    <3>5. Listed'
      BY SMTT(30), <3>1, <3>2
    <3>6. Told'
      BY <2>2, <3>2, <3>3
    <3> QED
      BY <3>4, <3>5, <3>6
  <2> QED
    BY <1>3, <2>1, <2>2 DEF Woken
<1>4. ASSUME NEW P \in SUBSET Proc, Cancel(P) PROVE PoolShapes' /\ Listed' /\ Told'
  <2> DEFINE told == {p \in P : live[p] /\ pc[p] \in {"wait", "woken"}}
  <2>1. PoolShapes' /\ Listed'
    <3>1. live' \in [Proc -> BOOLEAN]
      BY <1>4 DEF Cancel
    <3>2. ending' \subseteq Proc /\ cast' \subseteq Proc
      BY <1>4 DEF Cancel
    <3> QED
      BY <1>4, <3>1, <3>2 DEF Cancel
  <2>2. Told'
    <3> SUFFICES ASSUME NEW p \in Proc, pc'[p] = "wait", ~live'[p]
                 PROVE  p \in ending' \cup cast'
      OBVIOUS
    <3>1. pc[p] = "wait" /\ ending' = ending \cup told /\ cast' = cast
      BY <1>4 DEF Cancel
    <3>2. CASE live[p]
      <4>1. p \in P
        BY <1>4, <3>2 DEF Cancel
      <4> QED
        BY <3>1, <3>2, <4>1
    <3>3. CASE ~live[p]
      BY <3>1, <3>3
    <3> QED
      BY <3>2, <3>3
  <2> QED
    BY <2>1, <2>2
<1>5. ASSUME NEW p \in Proc, StartAfterFunc(p)
      PROVE  PoolShapes' /\ Listed' /\ Told'
  BY <1>5 DEF StartAfterFunc
<1>6. ASSUME NEW p \in Proc, Broadcast(p) PROVE PoolShapes' /\ Listed' /\ Told'
  <2>1. waiting' \in Seq(Proc) /\ Len(waiting') = 0
    BY <1>6 DEF Broadcast, Reached
  <2>2. \A q \in Proc : pc'[q] # "wait"
    BY <1>6 DEF Broadcast, Reached
  <2> QED
    BY <1>6, <2>1, <2>2 DEF Broadcast
<1>7. ASSUME NEW p \in Proc, Put(p) PROVE PoolShapes' /\ Listed' /\ Told'
  <2>1. CASE waiting = <<>>
    BY <1>7, <2>1 DEF Put, Signals
  <2>2. CASE waiting # <<>>
    <3>1. Head(waiting) = waiting[1] /\ waiting[1] \in Proc /\ pc[waiting[1]] = "wait"
      BY <2>2
    <3> DEFINE q == waiting[1]
    <3>2. /\ waiting' = Tail(waiting)
          /\ pc' = [pc EXCEPT ![p] = "out", ![q] = "woken"]
          /\ UNCHANGED <<live, ending, cast>>
          /\ pc[p] = "in"
      BY <1>7, <2>2, <3>1 DEF Put, Signals
    <3>3. /\ waiting' \in Seq(Proc)
          /\ Len(waiting') = Len(waiting) - 1
          /\ \A j \in 1..Len(waiting') : waiting'[j] = waiting[j + 1]
      BY <2>2, <3>2
    <3>4. PoolShapes'
      <4>1. ASSUME NEW i \in DOMAIN waiting', NEW j \in DOMAIN waiting',
                   waiting'[i] = waiting'[j]
            PROVE  i = j
        <5>1. /\ i \in 1..Len(waiting') /\ j \in 1..Len(waiting')
              /\ i + 1 \in DOMAIN waiting /\ j + 1 \in DOMAIN waiting
          BY <3>3
        <5> QED
          BY <3>3, <4>1, <5>1
      <4>2. pc' \in [Proc -> {"out", "wait", "woken", "in", "gone"}]
        BY <3>1, <3>2
      <4> QED
        BY <3>2, <3>3, <4>1, <4>2
    <3>5. Listed'
      <4>1. ASSUME NEW r \in Proc, pc'[r] = "wait"
            PROVE  \E j \in DOMAIN waiting' : waiting'[j] = r
        <5>1. PICK j \in DOMAIN waiting : waiting[j] = r
          BY <3>1, <3>2, <4>1
        <5>2. j # 1 /\ j - 1 \in 1..Len(waiting')
          BY <3>1, <3>2, <3>3, <4>1, <5>1
        <5> QED
          BY <3>3, <5>1, <5>2
      <4>2. ASSUME NEW j \in DOMAIN waiting' PROVE pc'[waiting'[j]] = "wait"
        <5>1. /\ j + 1 \in DOMAIN waiting /\ j + 1 # 1
              /\ waiting'[j] = waiting[j + 1]
          BY <3>3
        <5>2. /\ waiting[j + 1] \in Proc /\ pc[waiting[j + 1]] = "wait"
              /\ waiting[j + 1] # q
          BY <5>1
        <5> QED
          BY <3>2, <5>1, <5>2
      <4> QED
        BY <4>1, <4>2
    <3>6. Told'
      BY <3>1, <3>2
    <3> QED
      BY <3>4, <3>5, <3>6
  <2> QED
    BY <2>1, <2>2
<1> QED
  BY <1>1, <1>2, <1>3, <1>4, <1>5, <1>6, <1>7 DEF PoolNext

-----------------------------------------------------------------------------
(***************************************************************************)
(* The count.                                                              *)
(***************************************************************************)

LEMMA CountMeans == CountExact <=> count = Cardinality(Borrowers) /\ count <= Limit
  BY DEF CountExact, Borrowers

LEMMA CountStep ==
  ASSUME PoolShapes, Listed, CountExact, [PoolNext]_poolVars
  PROVE  CountExact'
<1> USE DEF PoolShapes
<1>1. /\ count = Cardinality(Borrowers) /\ count <= Limit
      /\ IsFiniteSet(Borrowers) /\ count \in Nat
  BY CountMeans, BorrowersFinite
<1>2. ASSUME count' = Cardinality(Borrowers') /\ count' <= Limit
      PROVE  CountExact'
  BY <1>2 DEF CountExact, Borrowers
<1>3. CASE UNCHANGED count /\ Borrowers' = Borrowers
  BY <1>1, <1>2, <1>3
<1>4. ASSUME NEW p \in Proc, pc[p] \in {"out", "woken"}, Borrow(p),
             count < Limit
      PROVE  CountExact'
  <2>1. Borrowers' = Borrowers \cup {p} /\ p \notin Borrowers
    BY <1>4 DEF Borrowers, Borrow
  <2>2. Cardinality(Borrowers') = count + 1
    BY <1>1, <2>1, FS_AddElement
  <2> QED
    BY <1>1, <1>2, <1>4, <2>2 DEF Borrow
<1>5. ASSUME NEW p \in Proc, Get(p) \/ Woken(p) PROVE CountExact'
  <2>1. CASE ~Borrow(p)
    <3>1. UNCHANGED count /\ (Wait(p) \/ GiveUp(p)) /\ pc[p] \in {"out", "woken"}
      BY <1>5, <2>1 DEF Get, Woken
    <3>2. Borrowers' = Borrowers
      BY <3>1 DEF Borrowers, Wait, GiveUp
    <3> QED
      BY <1>3, <3>1, <3>2
  <2>2. CASE Borrow(p)
    <3>1. pc[p] \in {"out", "woken"} /\ count < Limit
      BY <1>1, <1>5, <2>2 DEF Get, Woken, TestAgain, Borrow, Wait, GiveUp
    <3> QED
      BY <1>4, <2>2, <3>1
  <2> QED
    BY <2>1, <2>2
<1>6. ASSUME NEW p \in Proc, Put(p) PROVE CountExact'
  <2>1. waiting # <<>> => /\ Head(waiting) \in Proc
                          /\ pc[Head(waiting)] = "wait"
    BY DEF Listed
  <2>2. Borrowers' = Borrowers \ {p} /\ p \in Borrowers
    BY <1>6, <2>1 DEF Put, Signals, Borrowers
  <2>3. Cardinality(Borrowers') = count - 1
    BY <1>1, <2>2, FS_RemoveElement
  <2> QED
    BY <1>1, <1>2, <1>6, <2>3 DEF Put, Returned
<1>7. ASSUME NEW p \in Proc, Broadcast(p) PROVE CountExact'
  <2>1. Borrowers' = Borrowers
    BY <1>7 DEF Broadcast, Reached, Borrowers, Listed
  <2> QED
    BY <1>3, <1>7, <2>1 DEF Broadcast
<1>8. ASSUME NEW p \in Proc, StartAfterFunc(p) PROVE CountExact'
  BY <1>3, <1>8 DEF StartAfterFunc, Borrowers
<1>10. ASSUME NEW P \in SUBSET Proc, Cancel(P) PROVE CountExact'
  BY <1>3, <1>10 DEF Cancel, Borrowers
<1>9. CASE UNCHANGED poolVars
  BY <1>3, <1>9 DEF poolVars, Borrowers
<1> QED
  BY <1>5, <1>6, <1>7, <1>8, <1>9, <1>10 DEF PoolNext

-----------------------------------------------------------------------------
(***************************************************************************)
(* Enough waiters are awake.                                               *)
(***************************************************************************)

LEMMA EnoughStep ==
  ASSUME PoolShapes, Listed, Told, CountExact, Enough, lost' \in 0..Limit,
         [PoolNext]_poolVars
  PROVE  Enough'
<1> SUFFICES ASSUME waiting' # <<>>, cast' = {}
             PROVE  Limit - count' <= Cardinality(Awake') + lost'
  BY DEF Enough
<1> USE DEF PoolShapes
<1>1. count \in Nat /\ Limit \in Nat /\ count <= Limit /\ lost \in Nat /\ lost' \in Nat
  BY CountMeans, BorrowersFinite
<1>2. /\ IsFiniteSet(Awake) /\ Cardinality(Awake) \in Nat
      /\ Cardinality(Awake') \in Nat
  <2>1. Awake' \in SUBSET Proc
    BY DEF Awake
  <2> QED
    BY <2>1, AwakeFinite, FS_Subset, FS_CardinalityType
<1>3. CASE /\ waiting # <<>> /\ cast = {}
           /\ UNCHANGED <<count, lost>> /\ Awake' = Awake
  BY <1>3 DEF Enough
<1>4. CASE UNCHANGED poolVars
  BY <1>3, <1>4 DEF poolVars, Awake
<1>5. ASSUME NEW p \in Proc, Get(p)
      PROVE  Limit - count' <= Cardinality(Awake') + lost'
  <2>1. Awake' = Awake
    BY <1>5 DEF Get, Awake, Borrow, Wait, GiveUp
  <2>2. CASE live[p] /\ count >= Limit /\ Wait(p) /\ UNCHANGED <<count, cast, lost>>
    BY <1>1, <1>2, <2>1, <2>2
  <2>3. CASE Borrow(p) /\ UNCHANGED <<waiting, cast>>
    BY <1>1, <1>2, <2>1, <2>3 DEF Enough, Borrow, AtMost
  <2>4. CASE GiveUp(p) /\ UNCHANGED <<count, waiting, lost>> /\ cast \subseteq cast'
    BY <1>3, <2>1, <2>4
  <2> QED
    BY <1>5, <2>2, <2>3, <2>4 DEF Get
<1>6. ASSUME NEW p \in Proc, Woken(p)
      PROVE  Limit - count' <= Cardinality(Awake') + lost'
  <2>1. cast = {} /\ Awake' = Awake \ {p}
    BY <1>6 DEF Woken, Awake, Borrow, Wait, GiveUp
  <2>2. CASE live[p] /\ TestAgain /\ Wait(p) /\ UNCHANGED <<count, ending, lost>>
    BY <1>1, <1>2, <2>2 DEF TestAgain
  <2>3. CASE live[p] /\ ~TestAgain /\ Borrow(p) /\ UNCHANGED <<waiting, ending>>
    <3>1. p \in Awake
      BY <1>6, <2>3 DEF Woken, Awake
    <3>2. Cardinality(Awake') = Cardinality(Awake) - 1
      BY <1>2, <2>1, <3>1, FS_RemoveElement
    <3> QED
      BY <1>1, <1>2, <2>1, <2>3, <3>2 DEF Enough, Borrow, AtMost
  <2>4. CASE ~live[p] /\ p \notin ending /\ UNCHANGED <<count, waiting, lost>>
    <3>1. Awake' = Awake
      BY <2>1, <2>4 DEF Awake
    <3> QED
      BY <1>3, <2>1, <2>4, <3>1
  <2>5. CASE /\ ~live[p] /\ p \in ending /\ UNCHANGED <<count, waiting>>
             /\ lost' = AtMost(lost + 1, count)
    <3>1. p \in Awake
      BY <1>6, <2>5 DEF Woken, Awake
    <3>2. Cardinality(Awake') = Cardinality(Awake) - 1
      BY <1>2, <2>1, <3>1, FS_RemoveElement
    <3> QED
      BY <1>1, <1>2, <2>1, <2>5, <3>2 DEF Enough, AtMost
  <2> QED
    BY <1>6, <2>2, <2>3, <2>4, <2>5 DEF Woken
<1>7. ASSUME NEW P \in SUBSET Proc, Cancel(P)
      PROVE  Limit - count' <= Cardinality(Awake') + lost'
  <2>1. Awake \subseteq Awake' /\ Awake' \subseteq Awake
    BY <1>7 DEF Cancel, Awake
  <2> QED
    BY <1>3, <1>7, <2>1 DEF Cancel
<1>8. ASSUME NEW p \in Proc, StartAfterFunc(p)
      PROVE  Limit - count' <= Cardinality(Awake') + lost'
  BY <1>8 DEF StartAfterFunc
<1>9. ASSUME NEW p \in Proc, Broadcast(p)
      PROVE  Limit - count' <= Cardinality(Awake') + lost'
  BY <1>9 DEF Broadcast, Reached
<1>10. ASSUME NEW p \in Proc, Put(p)
       PROVE  Limit - count' <= Cardinality(Awake') + lost'
  <2>1. waiting # <<>> /\ cast = {}
    BY <1>10 DEF Put, Signals
  <2> DEFINE q == Head(waiting)
  <2>2. q \in Proc /\ pc[q] = "wait"
    BY <2>1 DEF Listed
  <2>3. live[q] \/ q \in ending
    BY <2>1, <2>2 DEF Told
  <2>4. Awake' = Awake \cup {q} /\ q \notin Awake
    BY <1>10, <2>1, <2>2, <2>3 DEF Put, Signals, Awake
  <2>5. Cardinality(Awake') = Cardinality(Awake) + 1
    BY <1>2, <2>4, FS_AddElement
  <2> QED
    BY <1>1, <1>2, <1>10, <2>1, <2>5 DEF Put, Returned, Enough
<1> QED
  BY <1>4, <1>5, <1>6, <1>7, <1>8, <1>9, <1>10 DEF PoolNext

-----------------------------------------------------------------------------
(***************************************************************************)
(* The theorems about the pool on its own.                                 *)
(***************************************************************************)

LEMMA PoolInvariance == PoolSpec => []PoolIInv
<1>1. PoolIInv => PoolShapes
  BY DEF PoolIInv, PoolTypeOK, PoolShapes
<1>2. ASSUME PoolIInv, [PoolNext]_poolVars PROVE PoolIInv'
  <2>0. lost' \in 0..Limit
    BY <1>2, LostStep DEF PoolIInv, CountExact
  <2>1. PoolShapes' /\ Listed' /\ Told' /\ CountExact' /\ Enough'
    BY <1>1, <1>2, <2>0, PoolShapesStep, CountStep, EnoughStep DEF PoolIInv
  <2>2. count' \in 0..Cardinality(Proc)
    <3>1. Borrowers' \in SUBSET Proc /\ count' = Cardinality(Borrowers')
      BY <2>1 DEF Borrowers, CountExact
    <3> QED
      BY <3>1, FS_Subset, FS_CardinalityType
  <2> QED
    BY <2>1, <2>2 DEF PoolIInv, PoolShapes, PoolTypeOK
<1> QED
  BY PoolInitIInv, <1>2, PTL DEF PoolSpec

\* The memory bound of the buffers: what is lent is counted exactly and never
\* exceeds the limit, so that Put never finds a count of zero.
THEOREM LimitHolds == PoolSpec => []CountExact
<1>1. PoolIInv => CountExact
  BY DEF PoolIInv
<1> QED
  BY <1>1, PoolInvariance, PTL

\* WaitPool's Signal per Put and Broadcast per cancellation are enough but for
\* the signals that waiters take along when they leave: a waiter beside more
\* free values than those means that somebody is on the way to take one.
THEOREM NobodySleepsBeside == PoolSpec => []NoLostWakeup
<1>1. ASSUME PoolIInv PROVE NoLostWakeup
  <2> SUFFICES ASSUME waiting # <<>>, count + lost < Limit, ending = {}, cast = {}
               PROVE  \E p \in Proc : pc[p] = "woken" /\ live[p]
    BY DEF NoLostWakeup
  <2>1. Limit - count <= Cardinality(Awake) + lost /\ count \in Nat /\ lost \in Nat
    BY <1>1, CountMeans, BorrowersFinite DEF PoolIInv, PoolTypeOK, Enough
  <2>2. Awake # {}
    BY <2>1, AwakeFinite, FS_EmptySet
  <2> QED
    BY <2>2 DEF Awake
<1> QED
  BY <1>1, PoolInvariance, PTL

USE HandlerAssumption

-----------------------------------------------------------------------------
(***************************************************************************)
(* The guard, for any handlers and handles, nested requests included: its  *)
(* inductive invariant.                                                    *)
(***************************************************************************)

\* Requests at the bucket, and streams and uploads that keep the lock.
AtBase   == {h \in Handler : op[h] = "base"}
OpenPair == {p \in Handler \X Handle : p[2] \in Open(p[1])}

\* The part of GuardTypeOK that does not bound `readers'.
GuardShapes ==
    /\ closer \in {"idle", "wait", "closed"}
    /\ op \in [Handler -> {"none", "rlock", "base"}]
    /\ want \in [Handler -> Handle \cup {"call"}]
    /\ handle \in [Handler -> [Handle -> {"none", "open", "closed"}]]

\* Who passes the write lock finds no reader, and none comes after it.
Empty == closer = "closed" => readers = 0

\* A request never opens a handle over one that is open.
Wanted ==
    \A h \in Handler :
        op[h] # "none" /\ want[h] # "call" => want[h] \notin Open(h)

GuardIInv == GuardShapes /\ Wanted /\ LocksBalanced /\ Empty

LEMMA Balance ==
  LocksBalanced <=> readers = Cardinality(AtBase) + Cardinality(OpenPair)
  BY DEF LocksBalanced, AtBase, OpenPair

LEMMA SetsFinite ==
  /\ IsFiniteSet(AtBase) /\ IsFiniteSet(OpenPair)
  /\ Cardinality(AtBase) \in Nat /\ Cardinality(OpenPair) \in Nat
  /\ Cardinality(Handler) \in Nat /\ Cardinality(Handle) \in Nat
  /\ Cardinality(AtBase) <= Cardinality(Handler)
  /\ Cardinality(OpenPair) <= Cardinality(Handler) * Cardinality(Handle)
<1>1. AtBase \in SUBSET Handler /\ OpenPair \in SUBSET (Handler \X Handle)
  BY DEF AtBase, OpenPair
<1>2. /\ IsFiniteSet(Handler \X Handle)
      /\ Cardinality(Handler \X Handle) = Cardinality(Handler) * Cardinality(Handle)
  BY FS_Product
<1> QED
  BY <1>1, <1>2, FS_Subset, FS_CardinalityType

LEMMA GuardInitIInv == GuardInit => GuardIInv
<1> SUFFICES ASSUME GuardInit PROVE GuardIInv
  OBVIOUS
<1>1. AtBase = {} /\ OpenPair = {}
  BY DEF GuardInit, AtBase, OpenPair, Open
<1>2. LocksBalanced
  BY <1>1, FS_EmptySet, Balance DEF GuardInit
<1> QED
  BY <1>2 DEF GuardInit, GuardIInv, GuardShapes, Wanted, Empty

-----------------------------------------------------------------------------
(***************************************************************************)
(* The steps.                                                              *)
(***************************************************************************)

LEMMA GuardShapesStep ==
  ASSUME GuardShapes, [GuardNext]_guardVars
  PROVE  GuardShapes'
<1>1. ASSUME NEW h \in Handler, Request(h) \/ RLock(h) PROVE GuardShapes'
  BY <1>1 DEF GuardShapes, Request, RLock, Open
<1>2. ASSUME NEW h \in Handler, BaseEnds(h) PROVE GuardShapes'
  <2>1. want[h] # "call" => handle[h] \in [Handle -> {"none", "open", "closed"}] /\ want[h] \in Handle
    BY DEF GuardShapes
  <2>2. CASE handle' = handle
    BY <1>2, <2>2 DEF GuardShapes, BaseEnds
  <2>3. CASE want[h] # "call" /\ handle' = [handle EXCEPT ![h][want[h]] = "open"]
    <3> DEFINE f == [handle[h] EXCEPT ![want[h]] = "open"]
    <3>1. f \in [Handle -> {"none", "open", "closed"}]
      BY <2>1, <2>3
    <3>2. handle' = [handle EXCEPT ![h] = f]
      BY <2>3
    <3> HIDE DEF f
    <3> QED
      BY <1>2, <3>1, <3>2 DEF GuardShapes, BaseEnds
  <2> QED
    BY <1>2, <2>2, <2>3 DEF BaseEnds
<1>3. ASSUME NEW h \in Handler, NEW x \in Handle, CloseHandle(h, x) PROVE GuardShapes'
  BY <1>3 DEF GuardShapes, CloseHandle
<1>4. CASE CloseStart \/ CloseLocked \/ UNCHANGED guardVars
  BY <1>4 DEF GuardShapes, CloseStart, CloseLocked, guardVars
<1> QED
  BY <1>1, <1>2, <1>3, <1>4 DEF GuardNext, RequestStep

LEMMA WantedStep ==
  ASSUME GuardShapes, Wanted, [GuardNext]_guardVars
  PROVE  Wanted'
<1> USE DEF GuardShapes, Wanted, Open
<1>1. ASSUME NEW h \in Handler, Request(h) PROVE Wanted'
  BY <1>1 DEF Request
<1>2. ASSUME NEW h \in Handler, RLock(h) PROVE Wanted'
  BY <1>2 DEF RLock
<1>3. ASSUME NEW h \in Handler, BaseEnds(h) PROVE Wanted'
  <2>1. \A g \in Handler : op'[g] # "none" => g # h /\ op'[g] = op[g]
    BY <1>3 DEF BaseEnds
  <2>2. \A g \in Handler : g # h => Open(g)' = Open(g)
    BY <1>3 DEF BaseEnds
  <2> QED
    BY <1>3, <2>1, <2>2 DEF BaseEnds
<1>4. ASSUME NEW h \in Handler, NEW x \in Handle, CloseHandle(h, x)
      PROVE  Wanted'
  BY <1>4 DEF CloseHandle
<1>5. CASE UNCHANGED guardVars \/ CloseStart \/ CloseLocked
  BY <1>5 DEF guardVars, CloseStart, CloseLocked
<1> QED
  BY <1>1, <1>2, <1>3, <1>4, <1>5 DEF GuardNext, RequestStep

LEMMA BalanceStep ==
  ASSUME GuardIInv, [GuardNext]_guardVars
  PROVE  LocksBalanced' /\ Empty'
<1> USE DEF GuardIInv, GuardShapes, Empty
<1> DEFINE Goal == LocksBalanced' /\ Empty'
<1>1. /\ readers = Cardinality(AtBase) + Cardinality(OpenPair)
      /\ readers \in Nat
  BY Balance, SetsFinite
<1>2. ASSUME readers' = Cardinality(AtBase') + Cardinality(OpenPair')
      PROVE  LocksBalanced'
  BY <1>2 DEF LocksBalanced, AtBase, OpenPair
<1>3. CASE UNCHANGED <<readers, closer>> /\ AtBase' = AtBase /\ OpenPair' = OpenPair
  BY <1>1, <1>2, <1>3
<1>4. CASE UNCHANGED guardVars
  BY <1>3, <1>4 DEF guardVars, AtBase, OpenPair, Open
<1>5. ASSUME NEW h \in Handler, Request(h) PROVE Goal
  BY <1>3, <1>5 DEF Request, AtBase, OpenPair, Open
<1>6. ASSUME NEW h \in Handler, RLock(h) PROVE Goal
  <2>1. OpenPair' = OpenPair
    BY <1>6 DEF RLock, OpenPair, Open
  <2>2. CASE Closed
    <3>1. AtBase' = AtBase
      BY <1>6, <2>2 DEF RLock, AtBase
    <3> QED
      BY <1>3, <1>6, <2>1, <2>2, <3>1 DEF RLock
  <2>3. CASE ~Closed
    <3>1. AtBase' = AtBase \cup {h} /\ h \notin AtBase
      BY <1>6, <2>3 DEF RLock, AtBase
    <3>2. Cardinality(AtBase') = Cardinality(AtBase) + 1
      BY <3>1, SetsFinite, FS_AddElement
    <3> QED
      BY <1>1, <1>2, <1>6, <2>1, <2>3, <3>2, SetsFinite DEF RLock, Closed
  <2> QED
    BY <2>2, <2>3
<1>7. ASSUME NEW h \in Handler, BaseEnds(h) PROVE Goal
  <2>1. AtBase' = AtBase \ {h} /\ h \in AtBase
    BY <1>7 DEF BaseEnds, AtBase
  <2>2. /\ Cardinality(AtBase') = Cardinality(AtBase) - 1
        /\ Cardinality(AtBase) >= 1
        /\ IsFiniteSet(AtBase')
    BY <2>1, SetsFinite, FS_RemoveElement, FS_EmptySet
  <2>3. closer # "closed"
    BY <1>1, <2>2, SetsFinite
  <2>4. CASE readers' = readers - Unlocks(h) /\ UNCHANGED handle
    <3>1. OpenPair' = OpenPair
      BY <2>4 DEF OpenPair, Open
    <3> QED
      BY <1>1, <1>2, <1>7, <2>2, <2>3, <2>4, <3>1, SetsFinite
      DEF BaseEnds, Unlocks
  <2>5. CASE /\ want[h] # "call"
             /\ handle' = [handle EXCEPT ![h][want[h]] = "open"]
             /\ UNCHANGED readers
    <3> DEFINE p == <<h, want[h]>>
    <3>1. handle[h][want[h]] # "open"
      BY <1>7, <2>5 DEF BaseEnds, Wanted, Open
    <3>2. OpenPair' = OpenPair \cup {p} /\ p \notin OpenPair
      BY <2>5, <3>1 DEF OpenPair, Open
    <3>3. Cardinality(OpenPair') = Cardinality(OpenPair) + 1
      BY <3>2, SetsFinite, FS_AddElement
    <3> QED
      BY <1>1, <1>2, <1>7, <2>2, <2>3, <2>5, <3>3, SetsFinite DEF BaseEnds
  <2> QED
    BY <1>7, <2>4, <2>5 DEF BaseEnds
<1>8. ASSUME NEW h \in Handler, NEW x \in Handle, CloseHandle(h, x) PROVE Goal
  <2>1. AtBase' = AtBase
    BY <1>8 DEF CloseHandle, AtBase
  <2>2. CASE handle[h][x] = "open"
    <3>1. OpenPair' = OpenPair \ {<<h, x>>} /\ <<h, x>> \in OpenPair
      BY <1>8, <2>2 DEF CloseHandle, OpenPair, Open
    <3>2. /\ Cardinality(OpenPair') = Cardinality(OpenPair) - 1
          /\ Cardinality(OpenPair') \in Nat
      BY <3>1, SetsFinite, FS_RemoveElement, FS_CardinalityType
    <3> QED
      BY <1>1, <1>2, <1>8, <2>1, <2>2, <3>2, SetsFinite DEF CloseHandle, Once
  <2>3. CASE handle[h][x] # "open"
    <3>1. OpenPair' = OpenPair
      BY <1>8, <2>3 DEF CloseHandle, OpenPair, Open
    <3> QED
      BY <1>1, <1>3, <1>8, <2>1, <2>3, <3>1 DEF CloseHandle, Once
  <2> QED
    BY <2>2, <2>3
<1>9. CASE CloseStart \/ CloseLocked
  BY <1>1, <1>2, <1>9 DEF CloseStart, CloseLocked, AtBase, OpenPair, Open
<1> QED
  BY <1>4, <1>5, <1>6, <1>7, <1>8, <1>9 DEF GuardNext, RequestStep

-----------------------------------------------------------------------------
(***************************************************************************)
(* The theorems about the guard on its own.                                *)
(***************************************************************************)

LEMMA GuardInvariance == GuardSpec => []GuardIInv
<1>1. GuardIInv /\ [GuardNext]_guardVars => GuardIInv'
  BY GuardShapesStep, WantedStep, BalanceStep DEF GuardIInv
<1> QED
  BY GuardInitIInv, <1>1, PTL DEF GuardSpec

\* The variables keep their types: the lock has at most one reader for every
\* handler and one for every handle.
THEOREM GuardTypeCorrect == GuardSpec => []GuardTypeOK
<1>1. ASSUME GuardIInv PROVE GuardTypeOK
  <2> DEFINE H == Cardinality(Handler)
             X == Cardinality(Handle)
  <2>1. /\ H \in Nat /\ X \in Nat /\ readers \in Nat
        /\ readers <= H + H * X
    BY <1>1, Balance, SetsFinite DEF GuardIInv
  <2>2. H * (X + 1) = H + H * X
    BY <2>1
  <2>3. readers \in 0..(H * (X + 1))
    BY <2>1, <2>2
  <2> QED
    BY <1>1, <2>3 DEF GuardIInv, GuardShapes, GuardTypeOK
<1> QED
  BY <1>1, GuardInvariance, PTL

\* Every path of guardedStore, guardedReader and guardedUpload releases the
\* read lock it took exactly once, with nested requests too.
THEOREM EveryLockReleased == GuardSpec => []LocksBalanced
<1>1. GuardIInv => LocksBalanced
  BY DEF GuardIInv
<1> QED
  BY <1>1, GuardInvariance, PTL

\* After guardedStore.close nothing of this process is at the bucket.
THEOREM NothingAfterClose == GuardSpec => []Drained
<1>1. ASSUME GuardIInv PROVE Drained
  <2> SUFFICES ASSUME closer = "closed", NEW h \in Handler
               PROVE  op[h] # "base" /\ Open(h) = {}
    BY DEF Drained
  <2>1. Cardinality(AtBase) = 0 /\ Cardinality(OpenPair) = 0
    BY <1>1, Balance, SetsFinite DEF GuardIInv, Empty
  <2>2. AtBase = {} /\ OpenPair = {}
    BY <2>1, SetsFinite, FS_EmptySet
  <2>3. op[h] # "base"
    BY <2>2 DEF AtBase
  <2>4. ASSUME NEW x \in Open(h) PROVE FALSE
    <3>1. <<h, x>> \in Handler \X Handle
      BY DEF Open
    <3>2. <<h, x>> \in OpenPair
      BY <3>1, <2>4 DEF OpenPair
    <3> QED
      BY <2>2, <3>2
  <2> QED
    BY <2>3, <2>4
<1> QED
  BY <1>1, GuardInvariance, PTL

USE SlotAssumption, ShapeAssumption

-----------------------------------------------------------------------------
(***************************************************************************)
(* The uploads: the inductive invariant, for each of them.                 *)
(***************************************************************************)

\* It has a handle and has not given up: every step between NewUpload and the
\* end of Commit or Abort.
Running == {"gzip", "open", "fill", "flush", "last", "commit", "flushLast", "wait",
            "put", "complete", "index", "close", "abort", "dissolve", "delete", "end"}

\* Commit is past its own checks, or Abort is under way.
Final == {"wait", "put", "complete", "index", "close", "failed", "abort", "dissolve",
          "delete", "end", "done", "aborted"}

Opened(u) == handle[u][TheHandle] = "open"

Phase(u) ==
    /\ up[u].pc \in Running => Opened(u)
    /\ up[u].pc \in {"idle", "begin", "done", "aborted"} => ~Opened(u)
    /\ up[u].pc = "begin" => want[u] = TheHandle /\ up[u].name \in Name

\* Its part buffers: one that it fills, and those of the goroutines.
Buffers(u) ==
    /\ \A k \in Slot : k # up[u].buf => pc[<<u, k>>] \in {"out", "in", "gone"}
    /\ up[u].buf # 0 => IF up[u].pc = "fill"
                        THEN pc[<<u, up[u].buf>>] \in {"wait", "woken", "in", "gone"}
                        ELSE pc[<<u, up[u].buf>>] = "in"
    /\ ~Opened(u) \/ up[u].pc \in {"dissolve", "delete", "end"} =>
          up[u].buf = 0 /\ \A k \in Slot : pc[<<u, k>>] # "in"
    /\ \A k \in Slot : up[u].job[k] # 0 => pc[<<u, k>>] = "in" /\ k # up[u].buf
    /\ up[u].pc \in {"flush", "flushLast"} => up[u].buf # 0
    /\ up[u].pc \in {"wait", "complete"} => up[u].buf = 0

\* Its parts: as long as none failed, each is with S3 or with a goroutine.
Parts(u) ==
    /\ up[u].sent \subseteq 1..up[u].parts /\ up[u].job \in [Slot -> 0..up[u].parts]
    /\ ~up[u].err => \A i \in 1..up[u].parts :
                        i \in up[u].sent \/ \E k \in Slot : up[u].job[k] = i
    /\ up[u].pc \notin Final => up[u].parts <= MaxParts
    /\ up[u].pc = "flush" => up[u].parts < MaxParts
    /\ up[u].pc = "put" => ~up[u].multi
    /\ up[u].pc \in {"flushLast", "wait", "complete"} => up[u].multi
    /\ up[u].pc = "complete" => up[u].sent = 1..up[u].parts

\* The probe and the compressor are given back before Commit publishes, and
\* by Abort.
Lent(u) ==
    /\ up[u].pc \in (Final \ {"failed"}) \cup {"commit", "flushLast"}
          => ~up[u].probe /\ ~up[u].gzip
    /\ up[u].closing /\ up[u].pc \in {"fill", "flush"} => ~up[u].probe /\ ~up[u].gzip
    /\ up[u].pc \in {"gzip", "open"} => ~up[u].closing

\* The name is reserved for it, or holds its content.
Owns(u) ==
    /\ up[u].name \in Name /\ object[up[u].name] # None
    /\ object[up[u].name].by = u

Whole(u) == up[u].name \in Name /\ object[up[u].name] = [by |-> u, part |-> "all"]

Owner(u) ==
    /\ Opened(u) /\ up[u].pc # "end" => Owns(u)
    /\ u \in open => /\ Owns(u) /\ up[u].pc \notin {"idle", "begin", "delete"}
                     /\ up[u].multi \/ up[u].pc \in {"done", "aborted"}
    /\ up[u].whole => /\ Whole(u) /\ u \notin open /\ Opened(u)
                      /\ up[u].pc \in {"index", "close", "failed", "abort", "end"}
    /\ up[u].pc \in {"index", "close"} => up[u].whole
    /\ u \in index => /\ Whole(u) /\ u \notin open
                      /\ up[u].whole \/ up[u].pc \in {"done", "aborted"}

\* A request that S3 may still apply is about the name of its upload.
LateOf(u) ==
    \A r \in late : r.by = u => r.name = up[u].name /\ up[u].pc \notin {"idle", "begin"}

UploadInv(u) ==
    Phase(u) /\ Buffers(u) /\ Parts(u) /\ Lent(u) /\ Owner(u) /\ LateOf(u)

IInv == TypeOK /\ \A u \in Handler : UploadInv(u)

-----------------------------------------------------------------------------
(***************************************************************************)
(* Every step is a step of the pool and a step of the guard.               *)
(***************************************************************************)

LEMMA HandleExists == TheHandle \in Handle
  BY DEF TheHandle

LEMMA CallsArePart ==
  ASSUME NEW u \in Handler
  PROVE  Calls(u) \in SUBSET Proc /\ \A k \in Slot : <<u, k>> \in Proc
  BY DEF Calls

\* The actions of an upload that touch the pool, and what they do to it.
LEMMA PoolOfServer ==
  ASSUME NEW u \in Handler, Server(u) \/ PartStep(u)
  PROVE  [PoolNext]_poolVars
<1> USE CallsArePart
<1>1. ASSUME Cancel(Calls(u)) PROVE PoolNext
  BY <1>1 DEF PoolNext
<1>2. ASSUME NEW k \in Slot, Get(<<u, k>>) \/ Put(<<u, k>>) PROVE PoolNext
  BY <1>2 DEF PoolNext
<1>3. CASE AskBuffer(u)
  BY <1>2, <1>3 DEF AskBuffer, poolVars
<1>4. CASE ReleaseBuffer(u)
  BY <1>2, <1>4 DEF ReleaseBuffer
<1>5. CASE PublishIndex(u)
  BY <1>1, <1>5 DEF PublishIndex, poolVars
<1>6. CASE PartStep(u)
  BY <1>1, <1>2, <1>6 DEF PartStep, UploadPart, PartDone, Owned, poolVars
<1>7. CASE UNCHANGED poolVars
  BY <1>7
<1> QED
  BY <1>3, <1>4, <1>5, <1>6, <1>7 DEF Server, StartLocked, NewUpload, Compress,
     LastPiece, FillBuffer, Flush, Commit, WorkersWaited, PublishObject, CommitDone,
     AbortWaited, Dissolve, DeleteName, AbortDone

LEMMA PoolOfNext == [Next]_vars => [PoolNext]_poolVars
<1> SUFFICES ASSUME [Next]_vars PROVE [PoolNext]_poolVars
  OBVIOUS
<1>1. ASSUME NEW u \in Handler, Abort(u) \/ ContextEnds(u) PROVE [PoolNext]_poolVars
  BY <1>1, CallsArePart DEF Abort, ContextEnds, PoolNext
<1>2. ASSUME NEW u \in Handler, \/ WriteSmall(u) \/ StartUpload(u) \/ Write(u)
                                \/ CommitBlob(u) \/ AbortAgain(u)
      PROVE  UNCHANGED poolVars
  BY <1>2 DEF WriteSmall, StartUpload, Write, CommitBlob, AbortAgain
<1>3. ASSUME NEW p \in Proc, PoolStep(p) PROVE PoolNext
  BY <1>3 DEF PoolStep, PoolNext
<1>4. ASSUME NEW p \in Other, OtherStep(p) PROVE PoolNext
  BY <1>4 DEF OtherStep, PoolNext
<1>5. ASSUME NEW r \in late, LateApply(r) PROVE UNCHANGED poolVars
  BY <1>5 DEF LateApply
<1>6. CASE UNCHANGED vars
  BY <1>6 DEF vars
<1>7. CASE Shutdown
  BY <1>7 DEF Shutdown
<1> QED
  BY <1>1, <1>2, <1>3, <1>4, <1>5, <1>6, <1>7, PoolOfServer DEF Next

LEMMA GuardOfServer ==
  ASSUME NEW u \in Handler, Server(u) \/ PartStep(u)
  PROVE  [GuardNext]_guardVars
<1>1. CASE StartLocked(u)
  BY <1>1 DEF StartLocked, GuardNext, RequestStep
<1>2. CASE NewUpload(u)
  BY <1>2 DEF NewUpload, GuardNext, RequestStep
<1>3. CASE CommitDone(u) \/ AbortDone(u)
  BY <1>3, HandleExists DEF CommitDone, AbortDone, GuardNext
<1>4. CASE UNCHANGED guardVars
  BY <1>4
<1> QED
  BY <1>1, <1>2, <1>3, <1>4 DEF Server, PartStep, UploadPart, PartDone, Compress,
     LastPiece, AskBuffer, FillBuffer, Flush, Commit, WorkersWaited, PublishObject,
     PublishIndex, ReleaseBuffer, AbortWaited, Dissolve, DeleteName

LEMMA GuardOfNext == [Next]_vars => [GuardNext]_guardVars
<1> SUFFICES ASSUME [Next]_vars PROVE [GuardNext]_guardVars
  OBVIOUS
<1>1. ASSUME NEW u \in Handler, StartUpload(u) \/ AbortAgain(u)
      PROVE  GuardNext
  BY <1>1, HandleExists DEF StartUpload, AbortAgain, GuardNext
<1>2. ASSUME NEW u \in Handler, \/ WriteSmall(u) \/ Write(u) \/ CommitBlob(u)
                                \/ Abort(u) \/ ContextEnds(u)
      PROVE  UNCHANGED guardVars
  BY <1>2 DEF WriteSmall, Write, CommitBlob, Abort, ContextEnds
<1>3. ASSUME NEW p, PoolStep(p) \/ OtherStep(p) PROVE UNCHANGED guardVars
  BY <1>3 DEF PoolStep, OtherStep
<1>4. ASSUME NEW r \in late, LateApply(r) PROVE UNCHANGED guardVars
  BY <1>4 DEF LateApply
<1>5. CASE UNCHANGED vars
  BY <1>5 DEF vars
<1>6. CASE Shutdown
  BY <1>6 DEF Shutdown, GuardNext
<1> QED
  BY <1>1, <1>2, <1>3, <1>4, <1>5, <1>6, GuardOfServer DEF Next

-----------------------------------------------------------------------------
(***************************************************************************)
(* What a step leaves to the others.                                       *)
(***************************************************************************)

\* What may happen to a borrower without a step of its own upload.
Drift(q) ==
    \/ pc'[q] = pc[q]
    \/ pc[q] = "wait" /\ pc'[q] = "woken"
    \/ pc[q] = "woken" /\ pc'[q] \in {"wait", "in", "gone"}

LEMMA GetDrift ==
  ASSUME PoolIInv, NEW p \in Proc, Get(p)
  PROVE  /\ pc[p] = "out" /\ pc'[p] \in {"wait", "in", "gone"}
         /\ \A q \in Proc \ {p} : pc'[q] = pc[q]
  BY DEF PoolIInv, PoolTypeOK, Get, Borrow, Wait, GiveUp

LEMMA PutDrift ==
  ASSUME PoolIInv, NEW p \in Proc, Put(p)
  PROVE  pc[p] = "in" /\ pc'[p] = "out" /\ \A q \in Proc \ {p} : Drift(q)
<1>1. pc \in [Proc -> {"out", "wait", "woken", "in", "gone"}] /\ pc[p] = "in"
  BY DEF PoolIInv, PoolTypeOK, Put
<1>2. CASE waiting = <<>>
  BY <1>1, <1>2 DEF Put, Signals, Drift
<1>3. CASE waiting # <<>>
  <2>1. Head(waiting) \in Proc /\ pc[Head(waiting)] = "wait"
    <3>1. waiting \in Seq(Proc) /\ 1 \in DOMAIN waiting /\ Head(waiting) = waiting[1]
      BY <1>3 DEF PoolIInv, PoolTypeOK
    <3> QED
      BY <3>1 DEF PoolIInv, Listed
  <2> DEFINE h == Head(waiting)
  <2>2. pc' = [pc EXCEPT ![p] = "out", ![h] = "woken"]
    BY <1>3 DEF Put, Signals
  <2> HIDE DEF h
  <2>3. h \in Proc /\ pc[h] = "wait"
    BY <2>1 DEF h
  <2> QED
    BY <1>1, <2>2, <2>3 DEF Drift
<1> QED
  BY <1>2, <1>3

LEMMA PoolStepDrift ==
  ASSUME PoolIInv, NEW p \in Proc, PoolStep(p), NEW q \in Proc
  PROVE  Drift(q)
<1>1. pc \in [Proc -> {"out", "wait", "woken", "in", "gone"}]
  BY DEF PoolIInv, PoolTypeOK
<1>2. CASE Woken(p)
  BY <1>1, <1>2 DEF Woken, Borrow, Wait, GiveUp, Drift
<1>3. CASE StartAfterFunc(p)
  BY <1>3 DEF StartAfterFunc, Drift
<1>4. CASE Broadcast(p)
  <2>1. CASE \E j \in 1..Reached : waiting[j] = q
    <3>1. pc[q] = "wait"
      BY <2>1 DEF PoolIInv, PoolTypeOK, Listed, Reached
    <3> QED
      BY <1>4, <2>1, <3>1 DEF Broadcast, Drift
  <2> QED
    BY <1>4, <2>1 DEF Broadcast, Drift
<1> QED
  BY <1>2, <1>3, <1>4 DEF PoolStep

\* A name that is somebody else's stays as it is.
NamesOfOthers(u) ==
    \A m \in Name : object[m] # None /\ object[m].by # u => object'[m] = object[m]

\* An upload that has no part in a step.
LEMMA KeptOne ==
  ASSUME NEW v \in Handler, TypeOK, UploadInv(v),
         UNCHANGED <<up[v], handle[v], want[v]>>,
         \A k \in Slot : Drift(<<v, k>>),
         Owns(v) => object'[up[v].name] = object[up[v].name],
         v \in open' <=> v \in open, v \in index' <=> v \in index,
         \A r \in late' : r.by = v => r \in late
  PROVE  UploadInv(v)'
<1>1. /\ up'[v] = up[v] /\ handle'[v] = handle[v] /\ want'[v] = want[v]
      /\ Opened(v)' <=> Opened(v)
  BY DEF Opened
<1>2. Phase(v)'
  BY <1>1 DEF UploadInv, Phase
<1>3. Buffers(v)'
  <2>1. up[v] \in Upload
    BY DEF TypeOK
  <2>2. up[v].buf # 0 => up[v].buf \in Slot
    BY <2>1 DEF Upload
  <2>3. Buffers(v)
    BY DEF UploadInv
  <2>4. \A k \in Slot : pc[<<v, k>>] \in {"out", "in", "gone"} => pc'[<<v, k>>] = pc[<<v, k>>]
    BY DEF Drift
  <2>5. \A k \in Slot : pc[<<v, k>>] \in {"wait", "woken", "in", "gone"}
                           => pc'[<<v, k>>] \in {"wait", "woken", "in", "gone"}
    BY DEF Drift
  <2>6. \A k \in Slot : k # up[v].buf => pc'[<<v, k>>] \in {"out", "in", "gone"}
    BY <2>3, <2>4 DEF Buffers
  <2>7. up[v].buf # 0 => IF up[v].pc = "fill"
                         THEN pc'[<<v, up[v].buf>>] \in {"wait", "woken", "in", "gone"}
                         ELSE pc'[<<v, up[v].buf>>] = "in"
    BY <2>2, <2>3, <2>4, <2>5 DEF Buffers
  <2>8. ~Opened(v) \/ up[v].pc \in {"dissolve", "delete", "end"} =>
           up[v].buf = 0 /\ \A k \in Slot : pc'[<<v, k>>] # "in"
    <3> SUFFICES ASSUME ~Opened(v) \/ up[v].pc \in {"dissolve", "delete", "end"}, NEW k \in Slot
                 PROVE  up[v].buf = 0 /\ pc'[<<v, k>>] # "in"
      BY <2>3 DEF Buffers
    <3>1. up[v].buf = 0 /\ pc[<<v, k>>] # "in" /\ k # 0
      BY <2>3 DEF Buffers
    <3> QED
      BY <2>3, <2>4, <3>1 DEF Buffers
  <2>9. \A k \in Slot : up[v].job[k] # 0 => pc'[<<v, k>>] = "in" /\ k # up[v].buf
    BY <2>3, <2>4 DEF Buffers
  <2> QED
    BY <1>1, <2>3, <2>6, <2>7, <2>8, <2>9 DEF Buffers
<1>4. Parts(v)' /\ Lent(v)'
  BY ZenonT(40), <1>1 DEF UploadInv, Parts, Lent
<1>5. Owner(v)'
  <2>1. Whole(v) => Owns(v)
    BY DEF Whole, Owns
  <2> QED
    BY <1>1, <2>1 DEF UploadInv, Owner, Owns, Whole
<1>6. LateOf(v)'
  BY <1>1 DEF UploadInv, LateOf
<1> QED
  BY <1>2, <1>3, <1>4, <1>5, <1>6 DEF UploadInv

\* A step of the upload u, which cares for its own part of the invariant.
LEMMA OthersStep ==
  ASSUME IInv, TypeOK', NEW u \in Handler, UploadInv(u)', NamesOfOthers(u),
         \A v \in Handler \ {u} :
            /\ UNCHANGED <<up[v], handle[v], want[v]>>
            /\ \A k \in Slot : Drift(<<v, k>>)
            /\ v \in open' <=> v \in open
            /\ v \in index' <=> v \in index,
         \A r \in late' : r \in late \/ r.by = u
  PROVE  IInv'
<1>1. ASSUME NEW v \in Handler \ {u} PROVE UploadInv(v)'
  <2>1. TypeOK /\ UploadInv(v)
    BY DEF IInv
  <2>2. Owns(v) => object'[up[v].name] = object[up[v].name]
    BY DEF Owns, NamesOfOthers
  <2> QED
    BY <2>1, <2>2, KeptOne
<1> QED
  BY <1>1 DEF IInv

\* A step that concerns no upload.
LEMMA NobodysStep ==
  ASSUME IInv, UNCHANGED <<uploadVars, handle, want>>,
         \A q \in Proc : Drift(q)
  PROVE  IInv'
<1>1. TypeOK'
  BY DEF IInv, TypeOK, uploadVars
<1>2. ASSUME NEW v \in Handler PROVE UploadInv(v)'
  <2>1. TypeOK /\ UploadInv(v)
    BY DEF IInv
  <2>2. \A k \in Slot : Drift(<<v, k>>)
    BY CallsArePart
  <2> QED
    BY <2>1, <2>2, KeptOne DEF uploadVars
<1> QED
  BY <1>1, <1>2 DEF IInv

-----------------------------------------------------------------------------
(***************************************************************************)
(* The steps of an upload.                                                 *)
(***************************************************************************)

LEMMA SetEffect ==
  ASSUME TypeOK, NEW u \in Handler, NEW y, Set(u, y)
  PROVE  /\ up'[u] = y /\ \A v \in Handler \ {u} : up'[v] = up[v]
         /\ y \in Upload => up' \in [Handler -> Upload]
  BY DEF TypeOK, Set

Objects == [Name -> {None} \cup [by : Handler, part : {"none", "some", "all"}]]
Requests == [by : Handler, name : Name, multi : BOOLEAN, part : {"some", "all"}]

LEMMA StepOf ==
  ASSUME IInv, NEW u \in Handler, NEW y \in Upload, Set(u, y), UploadInv(u)',
         object' \in Objects, NamesOfOthers(u),
         index' \subseteq Handler, index' \ {u} = index \ {u},
         open' \subseteq Handler, open' \ {u} = open \ {u},
         late' \subseteq Requests, \A r \in late' : r \in late \/ r.by = u,
         \A v \in Handler \ {u} : UNCHANGED <<handle[v], want[v]>>,
         \A q \in Proc \ Calls(u) : Drift(q)
  PROVE  IInv'
<1>1. /\ up'[u] = y /\ \A v \in Handler \ {u} : up'[v] = up[v]
      /\ up' \in [Handler -> Upload]
  BY SetEffect DEF IInv
<1>2. TypeOK'
  <2>1. ASSUME NEW v \in Handler
        PROVE  up'[v].sent \subseteq 1..up'[v].parts /\ up'[v].job \in [Slot -> 0..up'[v].parts]
    BY <1>1 DEF IInv, TypeOK, UploadInv, Parts
  <2> QED
    BY <1>1, <2>1 DEF TypeOK, Objects, Requests
<1>3. ASSUME NEW v \in Handler \ {u}
      PROVE  /\ UNCHANGED <<up[v], handle[v], want[v]>>
             /\ \A k \in Slot : Drift(<<v, k>>)
             /\ v \in open' <=> v \in open
             /\ v \in index' <=> v \in index
  <2>1. \A k \in Slot : <<v, k>> \in Proc \ Calls(u)
    BY CallsArePart DEF Calls
  <2> QED
    BY <1>1, <2>1
<1> QED
  BY <1>2, <1>3, OthersStep

\* One that only its own state notices.
LEMMA QuietStep ==
  ASSUME IInv, NEW u \in Handler, NEW y \in Upload, Set(u, y), S3Kept,
         UNCHANGED <<handle, want>>, \A q \in Proc \ Calls(u) : Drift(q),
         UploadInv(u)'
  PROVE  IInv'
<1>1. object' \in Objects /\ NamesOfOthers(u) /\ late' \subseteq Requests
      /\ index' \subseteq Handler /\ open' \subseteq Handler
  BY DEF IInv, TypeOK, S3Kept, Objects, Requests, NamesOfOthers
<1> QED
  BY <1>1, StepOf DEF S3Kept

\* One that keeps its name and its parts, the pool and the guard.
Same(x, y) ==
    /\ y.name = x.name /\ y.multi = x.multi /\ y.parts = x.parts /\ y.sent = x.sent
    /\ y.job = x.job /\ y.err = x.err /\ y.whole = x.whole

LEMMA QuietNext ==
  ASSUME IInv, NEW u \in Handler,
         \/ WriteSmall(u) \/ Compress(u) \/ Write(u) \/ CommitBlob(u) \/ LastPiece(u)
         \/ FillBuffer(u) \/ Commit(u) \/ WorkersWaited(u) \/ AbortWaited(u)
  PROVE  IInv'
<1> DEFINE x == up[u]
<1>0. x \in Upload /\ UploadInv(u) /\ TypeOK
  BY DEF IInv, TypeOK
<1>1. ASSUME NEW y \in Upload, Set(u, y), S3Kept, UNCHANGED <<poolVars, guardVars>>,
             Same(x, y), Phase(u)', Buffers(u)', Lent(u)',
             x.pc \notin {"idle", "begin"} => y.pc \notin {"idle", "begin"},
             y.pc \notin Final => x.parts <= MaxParts,
             y.pc = "flush" => x.parts < MaxParts,
             y.pc = "put" => ~x.multi,
             y.pc \in {"flushLast", "wait", "complete"} => x.multi,
             y.pc = "complete" => x.sent = 1..x.parts,
             Opened(u) /\ y.pc # "end" => x.pc # "end",
             u \in open => y.pc # "delete" /\ (x.pc \in {"done", "aborted"} => y.pc = x.pc),
             x.whole => y.pc \in {"index", "close", "failed", "abort", "end"},
             y.pc \in {"index", "close"} => x.whole,
             u \in index => x.whole \/ y.pc \in {"done", "aborted"}
      PROVE  IInv'
  <2>1. up'[u] = y
    BY <1>0, <1>1, SetEffect
  <2>2. /\ object' = object /\ index' = index /\ open' = open /\ late' = late
        /\ handle' = handle /\ want' = want /\ pc' = pc
    BY <1>1 DEF S3Kept, poolVars, guardVars
  <2>3. Opened(u)' <=> Opened(u)
    BY <2>2 DEF Opened
  <2>4. Parts(u)'
    BY <1>0, <1>1, <2>1 DEF UploadInv, Parts, Same
  <2>5. (Owns(u)' <=> Owns(u)) /\ (Whole(u)' <=> Whole(u))
    BY <1>1, <2>1, <2>2 DEF Owns, Whole, Same
  <2>6. Owner(u)'
    BY <1>0, <1>1, <2>1, <2>2, <2>3, <2>5 DEF UploadInv, Owner, Same
  <2>7. LateOf(u)'
    BY <1>0, <1>1, <2>1, <2>2 DEF UploadInv, LateOf, Same
  <2>8. UploadInv(u)'
    BY <1>1, <2>4, <2>6, <2>7 DEF UploadInv
  <2> QED
    BY <1>1, <2>2, <2>8, QuietStep DEF Drift
<1>2. ASSUME NEW y \in Upload, Set(u, y), UNCHANGED <<poolVars, guardVars>>
      PROVE  /\ up'[u] = y /\ handle' = handle /\ want' = want /\ pc' = pc
             /\ Opened(u)' <=> Opened(u)
  BY <1>0, <1>2, SetEffect DEF poolVars, guardVars, Opened
<1>3. /\ Phase(u) /\ Buffers(u) /\ Parts(u) /\ Lent(u) /\ Owner(u)
      /\ x.buf \in Slot \cup {0} /\ x.pc # "x"
  BY <1>0 DEF UploadInv, Upload
<1> HIDE DEF x
<1>4. x = up[u]
  BY DEF x
<1>5. ASSUME NEW step, To(u, step) PROVE Set(u, [x EXCEPT !.pc = step])
  BY <1>4, <1>5 DEF To
<1> DEFINE P(step) == [x EXCEPT !.pc = step]
<1>6. ASSUME NEW step \in Running \cup Final
      PROVE  /\ P(step) \in Upload /\ Same(x, P(step)) /\ P(step).pc = step
             /\ P(step).buf = x.buf /\ P(step).closing = x.closing
             /\ P(step).probe = x.probe /\ P(step).gzip = x.gzip
  BY <1>0, <1>4, <1>6 DEF Upload, Same, Running, Final
<1> HIDE DEF P
\* A step of the program counter only.
<1>7. ASSUME NEW step \in Running \cup Final, To(u, step),
             S3Kept, UNCHANGED <<poolVars, guardVars>>,
             step \in Running => Opened(u),
             step \notin {"done", "aborted"}, x.pc \notin {"done", "aborted", "end"},
             x.pc = "fill" /\ step # "fill" /\ x.buf # 0 => pc[<<u, x.buf>>] = "in",
             step \in {"dissolve", "delete", "end"} =>
                x.buf = 0 /\ \A k \in Slot : pc[<<u, k>>] # "in",
             step \in {"flush", "flushLast"} => x.buf # 0,
             step \in {"wait", "complete"} => x.buf = 0,
             step \in (Final \ {"failed"}) \cup {"commit", "flushLast"}
               \/ (x.closing /\ step \in {"fill", "flush"}) => ~x.probe /\ ~x.gzip,
             step \in {"gzip", "open"} => ~x.closing,
             step \notin Final => x.parts <= MaxParts,
             step = "flush" => x.parts < MaxParts,
             step = "put" => ~x.multi,
             step \in {"flushLast", "wait", "complete"} => x.multi,
             step = "complete" => x.sent = 1..x.parts,
             u \in open => step # "delete",
             x.whole => step \in {"index", "close", "failed", "abort", "end"},
             step \in {"index", "close"} => x.whole
      PROVE  IInv'
  <2>1. Set(u, P(step))
    BY <1>5, <1>7 DEF P
  <2>2. /\ up'[u] = P(step) /\ handle' = handle /\ want' = want /\ pc' = pc
        /\ Opened(u)' <=> Opened(u)
    BY <1>2, <1>6, <1>7, <2>1
  <2>3. step \notin {"idle", "begin"}
    BY <1>7 DEF Running, Final
  <2>4. Phase(u)'
    BY <1>6, <1>7, <2>2, <2>3 DEF Phase
  <2>5. Buffers(u)'
    BY <1>3, <1>4, <1>6, <1>7, <2>2 DEF Buffers, Same
  <2>6. Lent(u)'
    BY <1>6, <1>7, <2>2 DEF Lent
  <2>7. u \in index => x.whole
    BY <1>3, <1>4, <1>7 DEF Owner
  <2> QED
    BY <1>1, <1>4, <1>6, <1>7, <2>1, <2>3, <2>4, <2>5, <2>6, <2>7
<1>8. CASE WriteSmall(u)
  <2>1. x.pc = "idle" /\ S3Kept /\ UNCHANGED <<poolVars, guardVars>> /\ ~Opened(u)
    BY <1>3, <1>4, <1>8 DEF WriteSmall, Phase
  <2>2. CASE To(u, "failed")
    BY <1>3, <1>4, <1>7, <2>1, <2>2 DEF Final, Running, Owner
  <2>3. CASE Set(u, [x EXCEPT !.probe = TRUE])
    <3> DEFINE y == [x EXCEPT !.probe = TRUE]
    <3>1. y \in Upload /\ Same(x, y) /\ y.pc = "idle" /\ y.buf = x.buf
      BY <1>0, <1>4, <2>1 DEF Upload, Same
    <3> HIDE DEF y
    <3>2. /\ up'[u] = y /\ handle' = handle /\ want' = want /\ pc' = pc
          /\ Opened(u)' <=> Opened(u)
      BY <1>2, <2>1, <2>3, <3>1 DEF y
    <3>3. Phase(u)' /\ Lent(u)'
      BY <1>3, <1>4, <2>1, <3>1, <3>2 DEF Phase, Lent, Running, Final
    <3>4. Buffers(u)'
      BY <1>3, <1>4, <2>1, <3>1, <3>2 DEF Buffers, Same
    <3> QED
      BY <1>1, <1>3, <1>4, <2>1, <2>3, <3>1, <3>3, <3>4 DEF Parts, Owner, Final, y
  <2> QED
    BY <1>4, <1>8, <2>2, <2>3 DEF WriteSmall
<1>9. CASE Write(u)
  <2>1. x.pc = "open"
    BY <1>4, <1>9 DEF Write
  <2>2. Opened(u) /\ ~x.closing /\ ~x.whole /\ x.parts <= MaxParts
    BY <1>3, <1>4, <2>1 DEF Phase, Running, Parts, Final, Lent, Owner
  <2>3. To(u, "fill") \/ To(u, "failed")
    BY <1>9 DEF Write
  <2> QED
    BY <1>4, <1>7, <1>9, <2>1, <2>2, <2>3 DEF Write, Final, Running
<1>10. CASE Commit(u)
  <2>1. x.pc = "commit" /\ ~x.probe /\ ~x.gzip /\ ~x.whole /\ u \notin index
    BY <1>3, <1>4, <1>10 DEF Commit, Lent, Owner
  <2>2. Opened(u) /\ x.parts <= MaxParts
    BY <1>3, <1>4, <2>1 DEF Phase, Running, Parts, Final
  <2> QED
    BY <1>4, <1>7, <1>10, <2>1, <2>2 DEF Commit, Final, Running, HasTail
<1>11. CASE WorkersWaited(u)
  <2>1. x.pc = "wait" /\ x.multi /\ x.buf = 0 /\ ~x.probe /\ ~x.gzip /\ ~x.whole /\ u \notin index
    BY <1>3, <1>4, <1>11 DEF WorkersWaited, Lent, Owner, Parts, Buffers, Final
  <2>2. Opened(u)
    BY <1>3, <1>4, <2>1 DEF Phase, Running
  <2>3. ~x.err => x.sent = 1..x.parts
    <3>1. \A k \in Slot : x.job[k] = 0
      BY <1>3, <1>4, <1>11 DEF WorkersWaited, WorkersDone, Owned, Buffers
    <3>2. /\ x.sent \subseteq 1..x.parts
          /\ ~x.err => \A i \in 1..x.parts : i \in x.sent \/ \E k \in Slot : x.job[k] = i
      BY <1>3, <1>4 DEF Parts
    <3>3. \A i \in 1..x.parts : i # 0
      BY <1>0, <1>4 DEF Upload
    <3> QED
      BY <3>1, <3>2, <3>3
  <2> QED
    BY <1>4, <1>7, <1>11, <2>1, <2>2, <2>3 DEF WorkersWaited, Final, Running
<1>12. CASE AbortWaited(u)
  <2>1. x.pc = "abort" /\ ~x.probe /\ ~x.gzip /\ x.buf = 0 /\ \A k \in Slot : pc[<<u, k>>] # "in"
    BY <1>3, <1>4, <1>12 DEF AbortWaited, Lent, Final, WorkersDone, Owned, HasBuffer, Buffers
  <2>2. Opened(u)
    BY <1>3, <1>4, <2>1 DEF Phase, Running
  <2>3. u \in open => x.multi
    BY <1>3, <1>4, <2>1 DEF Owner
  <2> QED
    BY <1>4, <1>7, <1>12, <2>1, <2>2, <2>3 DEF AbortWaited, Kept, Final, Running
<1>13. CASE Compress(u)
  <2>1. x.pc = "gzip" /\ S3Kept /\ UNCHANGED <<poolVars, guardVars>>
    BY <1>4, <1>13 DEF Compress
  <2>2. Opened(u)
    BY <1>3, <1>4, <2>1 DEF Phase, Running
  <2>3. CASE To(u, "failed")
    BY <1>3, <1>4, <1>7, <2>1, <2>2, <2>3 DEF Final, Running, Owner
  <2>4. CASE Set(u, [x EXCEPT !.pc = "open", !.gzip = TRUE, !.probe = FALSE])
    <3> DEFINE y == [x EXCEPT !.pc = "open", !.gzip = TRUE, !.probe = FALSE]
    <3>1. y \in Upload /\ Same(x, y) /\ y.pc = "open" /\ y.buf = x.buf /\ y.closing = x.closing
      BY <1>0, <1>4, <2>1 DEF Upload, Same
    <3> HIDE DEF y
    <3>2. /\ up'[u] = y /\ handle' = handle /\ want' = want /\ pc' = pc
          /\ Opened(u)' <=> Opened(u)
      BY <1>2, <2>1, <2>4, <3>1 DEF y
    <3>3. Phase(u)' /\ Lent(u)'
      BY <1>3, <1>4, <2>1, <2>2, <3>1, <3>2 DEF Phase, Lent, Running, Final
    <3>4. Buffers(u)'
      BY <1>3, <1>4, <2>1, <2>2, <3>1, <3>2 DEF Buffers, Same
    <3> QED
      BY <1>1, <1>3, <1>4, <2>1, <2>4, <3>1, <3>3, <3>4 DEF Parts, Owner, Final, y
  <2> QED
    BY <1>4, <1>13, <2>3, <2>4 DEF Compress
<1>14. CASE CommitBlob(u) \/ LastPiece(u)
  <2>1. /\ x.pc \in {"open", "last"} /\ S3Kept /\ UNCHANGED <<poolVars, guardVars>>
    BY <1>4, <1>14 DEF CommitBlob, LastPiece
  <2>2. Opened(u)
    BY <1>3, <1>4, <2>1 DEF Phase, Running
  <2>3. PICK y : /\ Set(u, y) /\ y \in Upload /\ Same(x, y)
                 /\ y.pc \in {"last", "fill", "commit"} /\ y.buf = x.buf
                 /\ y.pc # "last" => ~y.probe /\ ~y.gzip
    <3>1. CASE CommitBlob(u)
      <4> DEFINE y == [x EXCEPT !.pc = "last", !.closing = TRUE]
      <4>1. y \in Upload /\ Same(x, y) /\ y.pc = "last" /\ y.buf = x.buf
        BY <1>0, <1>4 DEF Upload, Same
      <4> QED
        BY <1>4, <3>1, <4>1 DEF CommitBlob
    <3>2. CASE LastPiece(u)
      <4>1. PICK more \in BOOLEAN :
              Set(u, [x EXCEPT !.pc = IF more THEN "fill" ELSE "commit",
                               !.gzip = FALSE, !.probe = FALSE])
        BY <1>4, <3>2 DEF LastPiece
      <4> DEFINE s == IF more THEN "fill" ELSE "commit"
                 y == [x EXCEPT !.pc = s, !.gzip = FALSE, !.probe = FALSE]
      <4>2. s \in {"fill", "commit"}
        OBVIOUS
      <4> HIDE DEF s
      <4>3. y \in Upload /\ Same(x, y) /\ y.pc = s /\ y.buf = x.buf /\ ~y.probe /\ ~y.gzip
        BY ZenonT(40), <1>0, <1>4, <4>2 DEF Upload, Same
      <4> HIDE DEF y
      <4>4. Set(u, y)
        BY <4>1 DEF y, s
      <4> QED
        BY <4>2, <4>3, <4>4
    <3> QED
      BY <1>14, <3>1, <3>2
  <2>4. /\ up'[u] = y /\ handle' = handle /\ want' = want /\ pc' = pc
        /\ Opened(u)' <=> Opened(u)
    BY <1>2, <2>1, <2>3
  <2>5. Phase(u)' /\ Lent(u)'
    BY <2>2, <2>3, <2>4 DEF Phase, Lent, Running, Final
  <2>6. Buffers(u)'
    BY <1>3, <1>4, <2>1, <2>2, <2>3, <2>4 DEF Buffers, Same
  <2> QED
    BY <1>1, <1>3, <1>4, <2>1, <2>3, <2>5, <2>6 DEF Parts, Owner, Final
<1>15. CASE FillBuffer(u)
  <2>1. /\ x.pc = "fill" /\ x.buf # 0 /\ S3Kept /\ UNCHANGED <<poolVars, guardVars>>
    BY <1>4, <1>15 DEF FillBuffer
  <2>2. Opened(u) /\ ~x.whole /\ u \notin index /\ x.parts <= MaxParts
    BY <1>3, <1>4, <2>1 DEF Phase, Running, Owner, Parts, Final
  <2>3. x.closing => ~x.probe /\ ~x.gzip
    BY <1>3, <1>4, <2>1 DEF Lent
  <2>4. ASSUME pc[<<u, x.buf>>] = "in", NEW full \in BOOLEAN,
               To(u, IF full /\ x.parts < MaxParts THEN "flush"
                     ELSE IF x.closing THEN "commit" ELSE "open")
        PROVE  IInv'
    BY <1>7, <2>1, <2>2, <2>3, <2>4 DEF Running, Final
  <2>5. ASSUME pc[<<u, x.buf>>] = "gone", Set(u, [x EXCEPT !.pc = "failed", !.buf = 0])
        PROVE  IInv'
    <3> DEFINE y == [x EXCEPT !.pc = "failed", !.buf = 0]
    <3>1. y \in Upload /\ Same(x, y) /\ y.pc = "failed" /\ y.buf = 0
      BY <1>0, <1>4, <2>1 DEF Upload, Same
    <3> HIDE DEF y
    <3>2. /\ up'[u] = y /\ handle' = handle /\ want' = want /\ pc' = pc
          /\ Opened(u)' <=> Opened(u)
      BY <1>2, <2>1, <2>5, <3>1 DEF y
    <3>3. Phase(u)' /\ Lent(u)'
      BY <2>2, <3>1, <3>2 DEF Phase, Lent, Running, Final
    <3>4. Buffers(u)'
      BY <1>3, <1>4, <2>1, <2>2, <2>5, <3>1, <3>2 DEF Buffers, Same
    <3> QED
      BY <1>1, <1>3, <1>4, <2>1, <2>2, <2>5, <3>1, <3>3, <3>4 DEF Owner, Final, y
  <2> QED
    BY <1>4, <1>15, <2>4, <2>5 DEF FillBuffer
<1> QED
  BY <1>8, <1>9, <1>10, <1>11, <1>12, <1>13, <1>14, <1>15

-----------------------------------------------------------------------------
(***************************************************************************)
(* The steps with the guard.                                               *)
(***************************************************************************)

\* Buffers that a step keeps, outside the places that need more of them.
LEMMA BuffersKept ==
  ASSUME NEW u \in Handler, TypeOK, Buffers(u), NEW y, up'[u] = y,
         y.buf = up[u].buf, y.job = up[u].job,
         \A k \in Slot : pc'[<<u, k>>] = pc[<<u, k>>],
         y.pc \notin {"fill", "flush", "flushLast", "wait", "complete",
                     "dissolve", "delete", "end"},
         up[u].pc # "fill", Opened(u) => Opened(u)'
  PROVE  Buffers(u)'
<1>1. up[u].buf # 0 => up[u].buf \in Slot
  BY DEF TypeOK, Upload
<1>2. ~Opened(u)' => y.buf = 0 /\ \A k \in Slot : pc'[<<u, k>>] # "in"
  BY DEF Buffers
<1>3. y.buf # 0 => pc'[<<u, y.buf>>] = "in"
  BY <1>1 DEF Buffers
<1>4. \A k \in Slot : /\ k # y.buf => pc'[<<u, k>>] \in {"out", "in", "gone"}
                      /\ y.job[k] # 0 => pc'[<<u, k>>] = "in" /\ k # y.buf
  BY DEF Buffers
<1> QED
  BY <1>2, <1>3, <1>4 DEF Buffers

LEMMA GuardedNext ==
  ASSUME IInv, GuardIInv, NEW u \in Handler,
         \/ StartUpload(u) \/ StartLocked(u) \/ NewUpload(u)
         \/ CommitDone(u) \/ AbortDone(u) \/ AbortAgain(u)
  PROVE  IInv'
<1> DEFINE x == up[u]
<1>0. /\ x \in Upload /\ TypeOK
      /\ Phase(u) /\ Buffers(u) /\ Parts(u) /\ Lent(u) /\ Owner(u) /\ LateOf(u)
  BY DEF IInv, TypeOK, UploadInv
<1>1. /\ handle \in [Handler -> [Handle -> {"none", "open", "closed"}]]
      /\ want \in [Handler -> Handle \cup {"call"}] /\ TheHandle \in Handle
  BY HandleExists DEF GuardIInv, GuardShapes
<1>2. ASSUME UNCHANGED poolVars PROVE \A q \in Proc : Drift(q) /\ pc'[q] = pc[q]
  BY <1>2 DEF poolVars, Drift
<1> HIDE DEF x
<1>3. x = up[u]
  BY DEF x
<1>4. ASSUME UNCHANGED poolVars, S3Kept, NEW y \in Upload, Set(u, y),
             \A v \in Handler \ {u} : UNCHANGED <<handle[v], want[v]>>,
             up'[u] = y => Phase(u)' /\ Buffers(u)' /\ Parts(u)' /\ Lent(u)' /\ Owner(u)' /\ LateOf(u)'
      PROVE  IInv'
  <2>1. up'[u] = y
    BY <1>0, <1>4, SetEffect
  <2>2. UploadInv(u)'
    BY <1>4, <2>1 DEF UploadInv
  <2>3. object' \in Objects /\ NamesOfOthers(u) /\ late' \subseteq Requests
        /\ index' \subseteq Handler /\ open' \subseteq Handler
    BY <1>0, <1>4 DEF TypeOK, S3Kept, Objects, Requests, NamesOfOthers
  <2> QED
    BY <1>2, <1>4, <2>2, <2>3, StepOf DEF S3Kept
<1>5. CASE StartUpload(u)
  <2>1. /\ x.pc = "idle" /\ handle' = handle /\ want'[u] = TheHandle /\ S3Kept
        /\ UNCHANGED poolVars /\ \A v \in Handler \ {u} : want'[v] = want[v]
    BY <1>1, <1>3, <1>5 DEF StartUpload, Request
  <2>2. PICK closing \in BOOLEAN, m \in Name :
          Set(u, [x EXCEPT !.pc = "begin", !.closing = closing, !.name = m])
    BY <1>3, <1>5 DEF StartUpload
  <2> DEFINE y == [x EXCEPT !.pc = "begin", !.closing = closing, !.name = m]
  <2>3. /\ y \in Upload /\ y.pc = "begin" /\ y.name \in Name /\ y.buf = x.buf /\ y.job = x.job
        /\ y.sent = x.sent /\ y.parts = x.parts /\ y.err = x.err /\ y.whole = x.whole
    BY <1>0 DEF Upload
  <2> HIDE DEF y
  <2>4. ASSUME up'[u] = y PROVE Phase(u)' /\ Buffers(u)' /\ Parts(u)' /\ Lent(u)'
    <3>1. Phase(u)'
      BY <1>0, <1>3, <2>1, <2>3, <2>4 DEF Phase, Opened, Running
    <3>2. Buffers(u)'
      <4>1. \A k \in Slot : pc'[<<u, k>>] = pc[<<u, k>>]
        BY <1>2, <2>1, CallsArePart
      <4>2. Opened(u)' <=> Opened(u)
        BY <2>1 DEF Opened
      <4> QED
        BY <1>0, <1>3, <2>1, <2>3, <2>4, <4>1, <4>2, BuffersKept
    <3>3. Parts(u)'
      <4>1. x.parts <= MaxParts
        BY <1>0, <1>3, <2>1 DEF Parts, Final
      <4> QED
        BY <1>0, <1>3, <2>3, <2>4, <4>1 DEF Parts
    <3>4. Lent(u)'
      BY <2>3, <2>4 DEF Lent, Final
    <3> QED
      BY <3>1, <3>2, <3>3, <3>4
  <2>5. ASSUME up'[u] = y PROVE Owner(u)' /\ LateOf(u)'
    <3>1. ~Opened(u) /\ u \notin open /\ ~x.whole /\ u \notin index /\ \A r \in late : r.by # u
      BY <1>0, <1>3, <2>1 DEF Phase, Owner, LateOf
    <3> QED
      BY <2>1, <2>3, <2>5, <3>1 DEF Owner, LateOf, Opened, S3Kept
  <2>6. Set(u, y)
    BY <2>2 DEF y
  <2>7. \A v \in Handler \ {u} : UNCHANGED <<handle[v], want[v]>>
    BY <2>1
  <2> QED
    BY <1>4, <2>1, <2>3, <2>4, <2>5, <2>6, <2>7
<1>6. CASE StartLocked(u)
  <2>1. x.pc = "begin" /\ handle' = handle /\ want' = want /\ S3Kept /\ UNCHANGED poolVars
    BY <1>3, <1>6 DEF StartLocked, RLock
  <2>2. PICK y : /\ Set(u, y) /\ y \in Upload /\ Same(x, y) /\ y.pc \in {"begin", "failed"}
                 /\ y.buf = x.buf
    <3>1. CASE To(u, "failed")
      <4> DEFINE y == [x EXCEPT !.pc = "failed"]
      <4>1. y \in Upload /\ Same(x, y) /\ y.pc = "failed" /\ y.buf = x.buf
        BY <1>0 DEF Upload, Same
      <4> QED
        BY <1>3, <3>1, <4>1 DEF To
    <3>2. CASE UNCHANGED up
      <4>1. Set(u, x)
        BY <1>0, <1>3, <3>2 DEF Set, TypeOK
      <4> QED
        BY <1>0, <2>1, <4>1 DEF Same
    <3> QED
      BY <1>6, <3>1, <3>2 DEF StartLocked
  <2>3. ASSUME up'[u] = y
        PROVE  Phase(u)' /\ Buffers(u)' /\ Parts(u)' /\ Lent(u)' /\ Owner(u)' /\ LateOf(u)'
    <3>1. ~Opened(u) /\ u \notin open /\ ~x.whole /\ u \notin index /\ \A r \in late : r.by # u
      BY <1>0, <1>3, <2>1 DEF Phase, Owner, LateOf
    <3>2. Phase(u)'
      BY <1>0, <1>3, <2>1, <2>2, <2>3 DEF Phase, Opened, Running, Same
    <3>3. Buffers(u)'
      <4>1. \A k \in Slot : pc'[<<u, k>>] = pc[<<u, k>>]
        BY <1>2, <2>1, CallsArePart
      <4>2. Opened(u)' <=> Opened(u)
        BY <2>1 DEF Opened
      <4>3. y.job = x.job
        BY <2>2 DEF Same
      <4>4. y.pc \notin {"fill", "flush", "flushLast", "wait", "complete",
                        "dissolve", "delete", "end"}
        BY <2>2
      <4> QED
        BY <1>0, <1>3, <2>1, <2>2, <2>3, <4>1, <4>2, <4>3, <4>4, BuffersKept
    <3>4. Parts(u)' /\ Lent(u)'
      BY <1>0, <1>3, <2>1, <2>2, <2>3 DEF Parts, Lent, Final, Same
    <3>5. Owner(u)' /\ LateOf(u)'
      BY <2>1, <2>2, <2>3, <3>1 DEF Owner, LateOf, Opened, S3Kept, Same
    <3> QED
      BY <3>2, <3>3, <3>4, <3>5
  <2> QED
    BY <1>4, <2>1, <2>2, <2>3
<1>7. CASE NewUpload(u)
  <2> DEFINE step == IF handle'[u][TheHandle] # "open" THEN "failed"
                     ELSE IF x.closing THEN "last" ELSE "gzip"
             y == [x EXCEPT !.pc = step]
  <2>1. /\ x.pc = "begin" /\ want' = want /\ UNCHANGED <<index, open, late, poolVars>>
        /\ want[u] = TheHandle /\ x.name \in Name
        /\ \A v \in Handler \ {u} : handle'[v] = handle[v]
        /\ Set(u, y)
    BY <1>0, <1>1, <1>3, <1>7 DEF NewUpload, BaseEnds, Phase, To
  <2>2. /\ step \in {"failed", "last", "gzip"} /\ (step # "failed" <=> Opened(u)')
        /\ step = "gzip" => ~x.closing
    BY DEF Opened
  <2>3. \/ /\ object[x.name] = None
           /\ object' = [object EXCEPT ![x.name] = [by |-> u, part |-> "none"]]
        \/ object' = object /\ ~Opened(u)'
    BY <1>3, <1>7 DEF NewUpload, NameFree, Opened
  <2> HIDE DEF step
  <2>4. y \in Upload /\ Same(x, y) /\ y.pc = step /\ y.buf = x.buf /\ y.closing = x.closing
    BY <1>0, <2>2 DEF Upload, Same
  <2> HIDE DEF y
  <2>5. up'[u] = y
    BY <1>0, <2>1, SetEffect
  <2>6. ~Opened(u) /\ u \notin open /\ ~x.whole /\ u \notin index /\ \A r \in late : r.by # u
    BY <1>0, <1>3, <2>1 DEF Phase, Owner, LateOf
  <2>7. Phase(u)'
    BY <2>2, <2>4, <2>5 DEF Phase, Running
  <2>8. Buffers(u)'
    BY <1>0, <1>2, <1>3, <2>1, <2>2, <2>4, <2>5, <2>6, CallsArePart DEF Buffers, Same
  <2>9. Parts(u)' /\ Lent(u)'
    BY <1>0, <1>3, <2>1, <2>2, <2>4, <2>5 DEF Parts, Lent, Final, Same
  <2>10. Opened(u)' => Owns(u)'
    <3>1. [by |-> u, part |-> "none"] # None
      OBVIOUS
    <3> QED
      BY <1>0, <2>1, <2>3, <2>4, <2>5, <3>1 DEF Owns, Same, TypeOK
  <2>11. Owner(u)' /\ LateOf(u)'
    <3>1. u \notin open' /\ u \notin index' /\ ~up'[u].whole /\ up'[u].pc \notin {"index", "close"}
      BY <2>1, <2>2, <2>4, <2>5, <2>6 DEF Same
    <3>2. \A r \in late' : r.by # u
      BY <2>1, <2>6
    <3> QED
      BY <2>10, <3>1, <3>2 DEF Owner, LateOf
  <2>12. object' \in Objects /\ NamesOfOthers(u)
    BY <1>0, <2>1, <2>3 DEF TypeOK, Objects, NamesOfOthers
  <2>13. late' \subseteq Requests /\ index' \subseteq Handler /\ open' \subseteq Handler
    BY <1>0, <2>1 DEF TypeOK, Requests
  <2>14. \A q \in Proc \ Calls(u) : Drift(q)
    BY <1>2, <2>1
  <2>15. UploadInv(u)'
    BY <2>7, <2>8, <2>9, <2>11 DEF UploadInv
  <2>16. \A v \in Handler \ {u} : UNCHANGED <<handle[v], want[v]>>
    BY <2>1
  <2> QED
    BY <2>1, <2>4, <2>12, <2>13, <2>14, <2>15, <2>16, StepOf
<1>8. ASSUME CloseHandle(u, TheHandle)
      PROVE  /\ ~Opened(u)' /\ want' = want
             /\ \A v \in Handler \ {u} : UNCHANGED <<handle[v], want[v]>>
  BY <1>1, <1>8 DEF CloseHandle, Opened
<1>9. ASSUME NEW step \in {"done", "aborted"}, Finish(u, step), CloseHandle(u, TheHandle),
             S3Kept, UNCHANGED poolVars, ~x.probe, ~x.gzip, x.buf = 0,
             \A k \in Slot : pc[<<u, k>>] # "in",
             x.pc \in {"close", "end"}
      PROVE  IInv'
  <2> DEFINE y == [Fresh EXCEPT !.pc = step, !.name = x.name, !.buf = x.buf,
                                !.probe = x.probe, !.gzip = x.gzip]
  <2>1. /\ y.pc = step /\ y.name = x.name /\ y.buf = 0 /\ ~y.probe /\ ~y.gzip
        /\ y.sent = {} /\ y.parts = 0 /\ y.job = [k \in Slot |-> 0] /\ ~y.whole /\ ~y.multi
    BY <1>9 DEF Fresh
  <2>2. y \in Upload
    <3>1. x.name \in Name \cup {None} /\ x.buf \in Slot \cup {0} /\ x.probe \in BOOLEAN
          /\ x.gzip \in BOOLEAN
      BY <1>0 DEF Upload
    <3>2. 0 \in 0..(MaxParts + 1)
      OBVIOUS
    <3> QED
      BY ZenonT(40), <1>9, <3>1, <3>2 DEF Fresh, Upload
  <2>3. Set(u, y)
    BY <1>3, <1>9 DEF Finish
  <2> HIDE DEF y
  <2>4. ASSUME up'[u] = y
        PROVE  Phase(u)' /\ Buffers(u)' /\ Parts(u)' /\ Lent(u)' /\ Owner(u)' /\ LateOf(u)'
    <3>1. Phase(u)'
      BY <1>8, <1>9, <2>1, <2>4 DEF Phase, Running
    <3>2. Buffers(u)'
      BY <1>0, <1>2, <1>3, <1>9, <2>1, <2>4, CallsArePart DEF Buffers
    <3>3. Parts(u)' /\ Lent(u)'
      BY <1>9, <2>1, <2>4 DEF Parts, Lent, Final
    <3>4. Owner(u)'
      BY <1>0, <1>3, <1>8, <1>9, <2>1, <2>4 DEF Owner, S3Kept, Owns, Whole
    <3>5. LateOf(u)'
      BY <1>0, <1>3, <1>9, <2>1, <2>4 DEF LateOf, S3Kept
    <3> QED
      BY <3>1, <3>2, <3>3, <3>4, <3>5
  <2> QED
    BY <1>4, <1>8, <1>9, <2>2, <2>3, <2>4
<1>10. CASE CommitDone(u)
  <2>1. x.pc = "close" /\ x.buf = 0 /\ ~x.probe /\ ~x.gzip
    BY <1>0, <1>3, <1>10 DEF CommitDone, HasBuffer, Lent, Final
  <2>2. \A k \in Slot : pc[<<u, k>>] # "in"
    BY <1>3, <1>10, <2>1 DEF CommitDone, WorkersDone, Owned
  <2> QED
    BY <1>9, <1>10, <2>1, <2>2 DEF CommitDone
<1>11. CASE AbortDone(u)
  <2>1. x.pc = "end" /\ ~x.probe /\ ~x.gzip
    BY <1>0, <1>3, <1>11 DEF AbortDone, Lent, Final
  <2>2. x.buf = 0 /\ \A k \in Slot : pc[<<u, k>>] # "in"
    BY <1>0, <1>3, <2>1 DEF Buffers
  <2> QED
    BY <1>9, <1>11, <2>1, <2>2 DEF AbortDone
<1>12. CASE AbortAgain(u)
  <2>1. x.pc = "done" /\ UNCHANGED <<uploadVars, poolVars>> /\ ~Opened(u) /\ ~Opened(u)'
    BY <1>0, <1>3, <1>8, <1>12 DEF AbortAgain, Phase
  <2>2. Set(u, x) /\ up'[u] = x /\ S3Kept
    BY <1>0, <1>3, <2>1 DEF Set, TypeOK, uploadVars, S3Kept
  <2>3. Phase(u)' /\ Parts(u)' /\ Lent(u)'
    BY <1>0, <1>3, <2>1, <2>2 DEF Phase, Parts, Lent, Running
  <2>4. Buffers(u)'
    BY <1>0, <1>2, <1>3, <2>1, <2>2, CallsArePart DEF Buffers
  <2>5. Owner(u)' /\ LateOf(u)'
    BY <1>0, <1>3, <2>1, <2>2 DEF Owner, LateOf, S3Kept, Owns, Whole
  <2> QED
    BY <1>0, <1>4, <1>8, <1>12, <2>1, <2>2, <2>3, <2>4, <2>5 DEF AbortAgain
<1> QED
  BY <1>5, <1>6, <1>7, <1>10, <1>11, <1>12

-----------------------------------------------------------------------------
(***************************************************************************)
(* The steps with the pool of part buffers.                                *)
(***************************************************************************)

LEMMA PooledNext ==
  ASSUME IInv, PoolIInv, NEW u \in Handler,
         \/ AskBuffer(u) \/ PartStep(u) \/ ReleaseBuffer(u) \/ Abort(u) \/ ContextEnds(u)
  PROVE  IInv'
<1> DEFINE x == up[u]
<1>0. /\ x \in Upload /\ TypeOK
      /\ Phase(u) /\ Buffers(u) /\ Parts(u) /\ Lent(u) /\ Owner(u) /\ LateOf(u)
      /\ x.buf \in Slot \cup {0} /\ x.job \in [Slot -> 0..(MaxParts + 1)]
      /\ x.sent \in SUBSET (1..(MaxParts + 1)) /\ x.parts \in Nat /\ x.parts <= MaxParts + 1
  <2>1. x \in Upload /\ TypeOK /\ UploadInv(u)
    BY DEF IInv, TypeOK
  <2> QED
    BY <2>1 DEF UploadInv, Upload
<1> HIDE DEF x
<1>1. x = up[u]
  BY DEF x
<1>2. \A k \in Slot : <<u, k>> \in Proc
  BY CallsArePart
<1>3. ASSUME NEW y \in Upload, Set(u, y), S3Kept, UNCHANGED guardVars,
             \A q \in Proc \ Calls(u) : Drift(q),
             y.name = x.name, y.multi = x.multi, y.whole = x.whole,
             Buffers(u)', Parts(u)', Lent(u)',
             y.pc \in Running => x.pc \in Running \/ Opened(u),
             y.pc \in {"begin", "index", "close"} => x.pc = y.pc,
             y.pc \in {"idle", "begin", "done", "aborted"} => x.pc = y.pc \/ ~Opened(u),
             x.pc \notin {"idle", "begin"} => y.pc \notin {"idle", "begin"},
             y.pc \in {"end", "delete", "done", "aborted"} \/ x.pc \in {"end", "done", "aborted"}
               => y.pc = x.pc \/ (y.pc = "aborted" /\ x.pc \in {"idle", "failed"} /\ ~Opened(u)),
             x.whole /\ y.pc # x.pc => y.pc \in {"failed", "abort"}
      PROVE  IInv'
  <2>1. up'[u] = y
    BY <1>0, <1>3, SetEffect
  <2>2. /\ object' = object /\ index' = index /\ open' = open /\ late' = late
        /\ handle' = handle /\ want' = want /\ (Opened(u)' <=> Opened(u))
    BY <1>3 DEF S3Kept, guardVars, Opened
  <2>3. Phase(u)'
    BY <1>0, <1>1, <1>3, <2>1, <2>2 DEF Phase, Running
  <2>4. (Owns(u)' <=> Owns(u)) /\ (Whole(u)' <=> Whole(u))
    BY <1>1, <1>3, <2>1, <2>2 DEF Owns, Whole
  <2>5. Owner(u)'
    <3>1. Opened(u)' /\ y.pc # "end" => Owns(u)'
      BY <1>0, <1>1, <1>3, <2>2, <2>4 DEF Owner, Phase
    <3>2. u \in open' => /\ Owns(u)' /\ y.pc \notin {"idle", "begin", "delete"}
                         /\ y.multi \/ y.pc \in {"done", "aborted"}
      BY <1>0, <1>1, <1>3, <2>2, <2>4 DEF Owner
    <3>3. y.whole => /\ Whole(u)' /\ u \notin open' /\ Opened(u)'
                     /\ y.pc \in {"index", "close", "failed", "abort", "end"}
      BY <1>0, <1>1, <1>3, <2>2, <2>4 DEF Owner
    <3>4. y.pc \in {"index", "close"} => y.whole
      BY <1>0, <1>1, <1>3 DEF Owner
    <3>5. u \in index' => /\ Whole(u)' /\ u \notin open'
                          /\ y.whole \/ y.pc \in {"done", "aborted"}
      BY <1>0, <1>1, <1>3, <2>2, <2>4 DEF Owner
    <3> QED
      BY <2>1, <3>1, <3>2, <3>3, <3>4, <3>5 DEF Owner
  <2>6. LateOf(u)'
    BY <1>0, <1>1, <1>3, <2>1, <2>2 DEF LateOf
  <2>7. UploadInv(u)'
    BY <1>3, <2>3, <2>5, <2>6 DEF UploadInv
  <2> QED
    BY <1>3, <2>2, <2>7, QuietStep
<1>4. ASSUME NEW P, Cancel(P) PROVE pc' = pc /\ \A q \in Proc : Drift(q)
  BY <1>4 DEF Cancel, Drift
<1>5. ASSUME NEW k \in Slot PROVE \A q \in Proc \ Calls(u) : q # <<u, k>>
  BY <1>5 DEF Calls
<1>6. \A k \in Slot, j \in Slot : j # k => <<u, j>> # <<u, k>>
  OBVIOUS
<1>7. CASE AskBuffer(u)
  <2>1. x.pc = "fill" /\ x.buf = 0 /\ S3Kept /\ UNCHANGED guardVars /\ ~x.whole
    BY <1>0, <1>1, <1>7 DEF AskBuffer, Filling, Owner
  <2>2. Opened(u)
    BY <1>0, <1>1, <2>1 DEF Phase, Running
  <2>3. ASSUME NEW k \in Slot, Get(<<u, k>>), Set(u, [x EXCEPT !.buf = k])
        PROVE  IInv'
    <3> DEFINE y == [x EXCEPT !.buf = k]
    <3>1. y \in Upload /\ Same(x, y) /\ y.pc = "fill" /\ y.buf = k
          /\ y.closing = x.closing /\ y.probe = x.probe /\ y.gzip = x.gzip
      BY <1>0, <2>1 DEF Upload, Same
    <3> HIDE DEF y
    <3>2. Set(u, y) /\ up'[u] = y
      BY <1>0, <2>3, <3>1, SetEffect DEF y
    <3>3. /\ pc[<<u, k>>] = "out" /\ pc'[<<u, k>>] \in {"wait", "in", "gone"}
          /\ \A q \in Proc \ {<<u, k>>} : pc'[q] = pc[q]
      BY <1>2, <2>3, GetDrift
    <3>4. \A j \in Slot \ {k} : pc'[<<u, j>>] = pc[<<u, j>>]
      BY <1>2, <1>6, <3>3
    <3>5. Opened(u)'
      BY <2>1, <2>2 DEF Opened, guardVars
    <3>6. Buffers(u)'
      BY <1>0, <1>1, <2>1, <3>1, <3>2, <3>3, <3>4, <3>5 DEF Buffers, Same
    <3>7. Parts(u)' /\ Lent(u)'
      BY <1>0, <1>1, <2>1, <3>1, <3>2 DEF Parts, Lent, Same
    <3>8. \A q \in Proc \ Calls(u) : Drift(q)
      BY <1>5, <3>3 DEF Drift
    <3> QED
      BY <1>3, <2>1, <2>2, <3>1, <3>2, <3>6, <3>7, <3>8 DEF Same
  <2>4. ASSUME To(u, "failed"), UNCHANGED poolVars PROVE IInv'
    <3> DEFINE y == [x EXCEPT !.pc = "failed"]
    <3>1. y \in Upload /\ Same(x, y) /\ y.pc = "failed" /\ y.buf = 0
      BY <1>0, <2>1 DEF Upload, Same
    <3> HIDE DEF y
    <3>2. Set(u, y) /\ up'[u] = y
      BY <1>0, <1>1, <2>4, <3>1, SetEffect DEF y, To
    <3>3. pc' = pc /\ Opened(u)'
      BY <2>1, <2>2, <2>4 DEF Opened, guardVars, poolVars
    <3>4. Buffers(u)'
      BY <1>0, <1>1, <2>1, <3>1, <3>2, <3>3 DEF Buffers, Same
    <3>5. Parts(u)' /\ Lent(u)'
      BY SMTT(30), <1>0, <1>1, <2>1, <3>1, <3>2 DEF Parts, Lent, Same, Final
    <3>6. \A q \in Proc \ Calls(u) : Drift(q)
      BY <3>3 DEF Drift
    <3> QED
      BY <1>3, <2>1, <2>2, <3>1, <3>2, <3>4, <3>5, <3>6 DEF Same
  <2> QED
    BY <1>1, <1>7, <2>3, <2>4 DEF AskBuffer
<1>8. ASSUME NEW k \in Slot, UploadPart(u, k) PROVE IInv'
  <2>1. /\ x.job[k] # 0 /\ x.job[k] \in 1..x.parts /\ pc[<<u, k>>] = "in" /\ k # x.buf
        /\ S3Kept /\ UNCHANGED guardVars
    BY <1>0, <1>1, <1>8 DEF UploadPart, Parts, Buffers
  <2>2. PICK y : /\ Set(u, y) /\ y \in Upload /\ pc' = pc
                 /\ y.pc = x.pc /\ y.name = x.name /\ y.multi = x.multi /\ y.whole = x.whole
                 /\ y.buf = x.buf /\ y.parts = x.parts /\ y.closing = x.closing
                 /\ y.probe = x.probe /\ y.gzip = x.gzip
                 /\ y.job = [x.job EXCEPT ![k] = 0]
                 /\ \/ y.sent = x.sent \cup {x.job[k]} /\ y.err = x.err
                    \/ y.sent = x.sent /\ y.err
    <3>1. [x.job EXCEPT ![k] = 0] \in [Slot -> 0..(MaxParts + 1)]
      BY <1>0
    <3>2. CASE Set(u, [x EXCEPT !.sent = @ \cup {x.job[k]}, !.job[k] = 0]) /\ UNCHANGED poolVars
      <4> DEFINE s == x.sent \cup {x.job[k]}
                 f == [x.job EXCEPT ![k] = 0]
                 y == [x EXCEPT !.sent = @ \cup {x.job[k]}, !.job[k] = 0]
      <4>1. s \in SUBSET (1..(MaxParts + 1)) /\ f \in [Slot -> 0..(MaxParts + 1)]
        BY <1>0, <2>1, <3>1
      <4>2. y = [[x EXCEPT !.sent = s] EXCEPT !.job = f]
        BY <1>0 DEF Upload
      <4> HIDE DEF s, f, y
      <4>3. /\ y \in Upload /\ y.sent = s /\ y.job = f
            /\ y.pc = x.pc /\ y.name = x.name /\ y.multi = x.multi /\ y.whole = x.whole
            /\ y.buf = x.buf /\ y.parts = x.parts /\ y.closing = x.closing
            /\ y.probe = x.probe /\ y.gzip = x.gzip /\ y.err = x.err
        BY <1>0, <4>1, <4>2 DEF Upload
      <4>4. Set(u, y) /\ pc' = pc
        BY <3>2 DEF y, poolVars
      <4> QED
        BY <4>3, <4>4 DEF s, f
    <3>3. CASE Set(u, [x EXCEPT !.err = TRUE, !.job[k] = 0]) /\ Cancel(Calls(u))
      <4> DEFINE f == [x.job EXCEPT ![k] = 0]
                 y == [x EXCEPT !.err = TRUE, !.job[k] = 0]
      <4>1. f \in [Slot -> 0..(MaxParts + 1)]
        BY <3>1
      <4>2. y = [[x EXCEPT !.err = TRUE] EXCEPT !.job = f]
        BY <1>0 DEF Upload
      <4> HIDE DEF f, y
      <4>3. /\ y \in Upload /\ y.sent = x.sent /\ y.job = f /\ y.err
            /\ y.pc = x.pc /\ y.name = x.name /\ y.multi = x.multi /\ y.whole = x.whole
            /\ y.buf = x.buf /\ y.parts = x.parts /\ y.closing = x.closing
            /\ y.probe = x.probe /\ y.gzip = x.gzip
        BY <1>0, <4>1, <4>2 DEF Upload
      <4>4. Set(u, y) /\ pc' = pc
        BY <1>4, <3>3 DEF y
      <4> QED
        BY <4>3, <4>4 DEF f
    <3> QED
      BY <1>1, <1>8, <3>2, <3>3 DEF UploadPart
  <2>3. up'[u] = y /\ (Opened(u)' <=> Opened(u))
    BY <1>0, <2>1, <2>2, SetEffect DEF Opened, guardVars
  <2>4. \A j \in Slot : y.job[j] = IF j = k THEN 0 ELSE x.job[j]
    BY <1>0, <2>2
  <2>5. Buffers(u)'
    BY <1>0, <1>1, <2>2, <2>3, <2>4 DEF Buffers
  <2>6. Parts(u)'
    <3>1. y.sent \subseteq 1..x.parts /\ x.sent \subseteq y.sent /\ y.job \in [Slot -> 0..x.parts]
      BY <1>0, <1>1, <2>1, <2>2 DEF Parts
    <3>2. ASSUME ~y.err, NEW i \in 1..x.parts
          PROVE  i \in y.sent \/ \E j \in Slot : y.job[j] = i
      <4>1. i \in x.sent \/ \E j \in Slot : x.job[j] = i
        BY <1>0, <1>1, <2>2, <3>2 DEF Parts
      <4> QED
        BY <2>2, <2>4, <3>2, <4>1
    <3>3. x.pc = "complete" => y.sent = 1..x.parts
      BY ZenonT(40), <1>0, <1>1, <3>1 DEF Parts
    <3> QED
      BY <1>0, <1>1, <2>2, <2>3, <3>1, <3>2, <3>3 DEF Parts
  <2>7. Lent(u)'
    BY <1>0, <1>1, <2>2, <2>3 DEF Lent
  <2>8. \A q \in Proc \ Calls(u) : Drift(q)
    BY <2>2 DEF Drift
  <2> QED
    BY <1>3, <2>1, <2>2, <2>5, <2>6, <2>7, <2>8
\* A buffer goes back to the pool.
<1>9. ASSUME NEW k \in Slot, Put(<<u, k>>)
      PROVE  /\ pc[<<u, k>>] = "in" /\ pc'[<<u, k>>] = "out"
             /\ \A j \in Slot \ {k} : Drift(<<u, j>>)
             /\ \A q \in Proc \ Calls(u) : Drift(q)
  <2>1. /\ pc[<<u, k>>] = "in" /\ pc'[<<u, k>>] = "out"
        /\ \A q \in Proc \ {<<u, k>>} : Drift(q)
    BY <1>2, <1>9, PutDrift
  <2> QED
    BY <1>2, <1>5, <1>6, <2>1
<1>10. ASSUME NEW k \in Slot, PartDone(u, k) PROVE IInv'
  <2>1. /\ pc[<<u, k>>] = "in" /\ k # x.buf /\ x.job[k] = 0 /\ Put(<<u, k>>)
        /\ UNCHANGED <<uploadVars, guardVars>>
    BY <1>1, <1>10 DEF PartDone, Owned
  <2>2. Set(u, x) /\ up'[u] = x /\ S3Kept /\ (Opened(u)' <=> Opened(u))
    BY <1>0, <1>1, <2>1 DEF Set, TypeOK, uploadVars, guardVars, S3Kept, Opened
  <2>3. /\ pc'[<<u, k>>] = "out" /\ \A j \in Slot \ {k} : Drift(<<u, j>>)
        /\ \A q \in Proc \ Calls(u) : Drift(q)
    BY <1>9, <2>1
  <2>4. Buffers(u)'
    <3>1. \A j \in Slot \ {k} : /\ pc[<<u, j>>] \in {"out", "in", "gone"} => pc'[<<u, j>>] = pc[<<u, j>>]
                                /\ pc[<<u, j>>] \in {"wait", "woken", "in", "gone"} =>
                                    pc'[<<u, j>>] \in {"wait", "woken", "in", "gone"}
      BY <2>3 DEF Drift
    <3>2. ASSUME NEW j \in Slot, j # x.buf PROVE pc'[<<u, j>>] \in {"out", "in", "gone"}
      <4>1. pc[<<u, j>>] \in {"out", "in", "gone"}
        BY <1>0, <1>1, <3>2 DEF Buffers
      <4>2. CASE j = k
        BY <2>3, <4>2
      <4>3. CASE j # k
        BY <3>1, <4>1, <4>3
      <4> QED
        BY <4>2, <4>3
    <3>3. x.buf # 0 => IF x.pc = "fill"
                       THEN pc'[<<u, x.buf>>] \in {"wait", "woken", "in", "gone"}
                       ELSE pc'[<<u, x.buf>>] = "in"
      <4>1. x.buf # 0 => x.buf \in Slot \ {k}
        BY <1>0, <2>1
      <4>2. x.buf # 0 => IF x.pc = "fill"
                         THEN pc[<<u, x.buf>>] \in {"wait", "woken", "in", "gone"}
                         ELSE pc[<<u, x.buf>>] = "in"
        BY <1>0, <1>1 DEF Buffers
      <4> QED
        BY <3>1, <4>1, <4>2
    <3>4. Opened(u) /\ x.pc \notin {"dissolve", "delete", "end"}
      BY <1>0, <1>1, <2>1 DEF Buffers
    <3>5. ASSUME NEW j \in Slot, x.job[j] # 0 PROVE pc'[<<u, j>>] = "in" /\ j # x.buf
      <4>1. pc[<<u, j>>] = "in" /\ j # x.buf /\ j # k
        BY <1>0, <1>1, <2>1, <3>5 DEF Buffers
      <4> QED
        BY <3>1, <4>1
    <3> QED
      BY <1>0, <1>1, <2>2, <3>2, <3>3, <3>4, <3>5 DEF Buffers
  <2>5. Parts(u)' /\ Lent(u)'
    BY <1>0, <1>1, <2>2 DEF Parts, Lent
  <2> QED
    BY <1>0, <1>3, <2>1, <2>2, <2>3, <2>4, <2>5
<1>11. CASE ReleaseBuffer(u)
  <2>1. PICK k \in Slot : k = x.buf /\ Put(<<u, k>>)
    BY <1>1, <1>11 DEF ReleaseBuffer
  <2>2. x.pc \in {"close", "abort"} /\ S3Kept /\ UNCHANGED guardVars /\ Opened(u)
    BY <1>0, <1>1, <1>11 DEF ReleaseBuffer, Phase, Running
  <2> DEFINE y == [x EXCEPT !.buf = 0]
  <2>3. y \in Upload /\ Same(x, y) /\ y.pc = x.pc /\ y.buf = 0
        /\ y.closing = x.closing /\ y.probe = x.probe /\ y.gzip = x.gzip
    BY <1>0 DEF Upload, Same
  <2>4. Set(u, y)
    BY <1>1, <1>11 DEF ReleaseBuffer
  <2> HIDE DEF y
  <2>5. up'[u] = y /\ (Opened(u)' <=> Opened(u))
    BY <1>0, <2>2, <2>3, <2>4, SetEffect DEF guardVars, Opened
  <2>6. /\ pc'[<<u, k>>] = "out" /\ \A j \in Slot \ {k} : Drift(<<u, j>>)
        /\ \A q \in Proc \ Calls(u) : Drift(q)
    BY <1>9, <2>1
  <2>7. Buffers(u)'
    <3>1. \A j \in Slot \ {k} : pc'[<<u, j>>] = pc[<<u, j>>] /\ pc[<<u, j>>] \in {"out", "in", "gone"}
      BY <1>0, <1>1, <2>1, <2>6 DEF Buffers, Drift
    <3>2. \A j \in Slot : x.job[j] # 0 => j # k /\ pc[<<u, j>>] = "in"
      BY <1>0, <1>1, <2>1 DEF Buffers
    <3>3. \A j \in Slot : pc'[<<u, j>>] \in {"out", "in", "gone"}
                         /\ (x.job[j] # 0 => pc'[<<u, j>>] = "in" /\ j # 0)
      BY <2>6, <3>1, <3>2
    <3> QED
      BY <2>2, <2>3, <2>5, <3>3 DEF Buffers, Same
  <2>8. Parts(u)' /\ Lent(u)'
    BY <1>0, <1>1, <2>2, <2>3, <2>5 DEF Parts, Lent, Same, Final
  <2> QED
    BY <1>3, <2>2, <2>3, <2>4, <2>6, <2>7, <2>8 DEF Same
<1>12. CASE Abort(u)
  <2>1. /\ x.pc \in {"idle", "open", "failed"} /\ S3Kept /\ UNCHANGED guardVars /\ pc' = pc
        /\ \A q \in Proc : Drift(q)
    BY <1>1, <1>4, <1>12 DEF Abort
  <2> DEFINE step == IF handle[u][TheHandle] = "open" THEN "abort" ELSE "aborted"
             z == GivenBack(u)
             y == [z EXCEPT !.pc = step]
  <2>2. step \in {"abort", "aborted"} /\ (step = "abort" <=> Opened(u))
    BY DEF Opened
  <2>3. Set(u, y)
    BY <1>12 DEF Abort
  <2> HIDE DEF step
  <2>4. z \in Upload /\ Same(x, z) /\ z.pc = x.pc /\ z.buf = x.buf /\ ~z.probe /\ ~z.gzip
    BY <1>0, <1>1 DEF GivenBack, Upload, Same
  <2> HIDE DEF z
  <2>5. y \in Upload /\ Same(z, y) /\ y.pc = step /\ y.buf = z.buf /\ ~y.probe /\ ~y.gzip
    BY <2>2, <2>4 DEF Upload, Same
  <2> HIDE DEF y
  <2>6. up'[u] = y /\ Same(x, y) /\ (Opened(u)' <=> Opened(u))
    BY <1>0, <2>1, <2>3, <2>4, <2>5, SetEffect DEF Same, guardVars, Opened
  <2>7. Buffers(u)'
    <3>1. y.buf = x.buf /\ y.job = x.job /\ up[u].pc # "fill"
          /\ y.pc \notin {"fill", "flush", "flushLast", "wait", "complete",
                         "dissolve", "delete", "end"}
      BY <1>1, <2>1, <2>2, <2>4, <2>5, <2>6 DEF Same
    <3> QED
      BY <1>0, <1>1, <2>1, <2>6, <3>1, BuffersKept
  <2>8. Parts(u)' /\ Lent(u)'
    BY <1>0, <1>1, <2>2, <2>5, <2>6 DEF Parts, Lent, Same, Final
  <2>9. x.whole => Opened(u)
    BY <1>0, <1>1 DEF Owner
  <2>10. x.pc = "open" => Opened(u)
    BY <1>0, <1>1 DEF Phase, Running
  <2> QED
    BY <1>3, <2>1, <2>2, <2>3, <2>5, <2>6, <2>7, <2>8, <2>9, <2>10 DEF Same, Running
<1>13. CASE ContextEnds(u)
  <2>1. pc' = pc /\ UNCHANGED <<uploadVars, guardVars>> /\ \A q \in Proc : Drift(q)
    BY <1>4, <1>13 DEF ContextEnds
  <2> QED
    BY <2>1, NobodysStep DEF guardVars
<1> QED
  BY <1>7, <1>8, <1>10, <1>11, <1>12, <1>13 DEF PartStep

-----------------------------------------------------------------------------
(***************************************************************************)
(* The steps with S3.                                                      *)
(***************************************************************************)

\* A request that S3 applies is about the name that its upload owns.
LEMMA AppliedEffect ==
  ASSUME IInv, NEW u \in Handler, NEW r \in Requests, r.by = u, r.name = up[u].name,
         Applied(r)
  PROVE  /\ Owns(u) /\ object' \in Objects /\ NamesOfOthers(u)
         /\ open' \subseteq Handler /\ open' \ {u} = open \ {u} /\ u \notin open'
         /\ object'[up[u].name] = [by |-> u, part |-> r.part]
         /\ ~Whole(u) \/ u \in open
<1>1. TypeOK /\ Owner(u) /\ object \in Objects /\ r.name \in Name /\ r.part \in {"some", "all"}
  BY DEF IInv, TypeOK, UploadInv, Objects, Requests
<1>2. /\ object' = [object EXCEPT ![r.name] = [by |-> u, part |-> r.part]]
      /\ open' = open \ {u}
      /\ u \in open \/ object[r.name] = [by |-> u, part |-> "none"]
  BY DEF Applied
<1>3. Owns(u)
  <2>1. CASE u \in open
    BY <1>1, <2>1 DEF Owner
  <2>2. CASE object[r.name] = [by |-> u, part |-> "none"]
    <3>1. [by |-> u, part |-> "none"] # None
      OBVIOUS
    <3> QED
      BY <1>1, <2>2, <3>1 DEF Owns
  <2> QED
    BY <1>2, <2>1, <2>2
<1>4. [by |-> u, part |-> r.part] \in [by : Handler, part : {"none", "some", "all"}]
  BY <1>1
<1>5. object' \in Objects /\ object'[r.name] = [by |-> u, part |-> r.part]
  BY <1>1, <1>2, <1>4 DEF Objects
<1>6. NamesOfOthers(u)
  BY <1>1, <1>2, <1>3 DEF NamesOfOthers, Objects, Owns
<1>7. [by |-> u, part |-> "none"] # [by |-> u, part |-> "all"]
  <2>1. [by |-> u, part |-> "none"].part = "none" /\ [by |-> u, part |-> "all"].part = "all"
    OBVIOUS
  <2> QED
    BY <2>1
<1> QED
  BY <1>1, <1>2, <1>3, <1>5, <1>6, <1>7 DEF TypeOK, Whole

LEMMA StoredNext ==
  ASSUME IInv, NEW u \in Handler,
         \/ Flush(u) \/ PublishObject(u) \/ PublishIndex(u) \/ Dissolve(u) \/ DeleteName(u)
         \/ \E r \in late : r.by = u /\ LateApply(r)
  PROVE  IInv'
<1> DEFINE x == up[u]
<1>0. /\ x \in Upload /\ TypeOK
      /\ Phase(u) /\ Buffers(u) /\ Parts(u) /\ Lent(u) /\ Owner(u) /\ LateOf(u)
      /\ x.buf \in Slot \cup {0} /\ x.job \in [Slot -> 0..(MaxParts + 1)]
      /\ x.sent \in SUBSET (1..(MaxParts + 1)) /\ x.parts \in Nat /\ x.parts <= MaxParts + 1
      /\ x.multi \in BOOLEAN
      /\ object \in Objects /\ late \subseteq Requests /\ open \subseteq Handler
      /\ index \subseteq Handler
  <2>1. x \in Upload /\ TypeOK /\ UploadInv(u)
    BY DEF IInv, TypeOK
  <2> QED
    BY <2>1 DEF UploadInv, Upload, TypeOK, Objects, Requests
<1> HIDE DEF x
<1>1. x = up[u]
  BY DEF x
\* A step that leaves the pool and the guard alone.
<1>3. ASSUME NEW y \in Upload, Set(u, y), UNCHANGED guardVars, pc' = pc,
             y.name = x.name,
             Buffers(u)', Parts(u)', Lent(u)', Owner(u)', LateOf(u)',
             y.pc \in Running => Opened(u),
             y.pc \in {"idle", "begin", "done", "aborted"} => y.pc = x.pc,
             object' \in Objects, NamesOfOthers(u),
             index' \subseteq Handler, index' \ {u} = index \ {u},
             open' \subseteq Handler, open' \ {u} = open \ {u},
             late' \subseteq Requests, \A r \in late' : r \in late \/ r.by = u
      PROVE  IInv'
  <2>1. up'[u] = y /\ handle' = handle /\ want' = want /\ (Opened(u)' <=> Opened(u))
    BY <1>0, <1>3, SetEffect DEF guardVars, Opened
  <2>2. Phase(u)'
    BY <1>0, <1>1, <1>3, <2>1 DEF Phase
  <2>3. UploadInv(u)'
    BY <1>3, <2>2 DEF UploadInv
  <2>4. \A q \in Proc \ Calls(u) : Drift(q)
    BY <1>3 DEF Drift
  <2>5. \A v \in Handler \ {u} : UNCHANGED <<handle[v], want[v]>>
    BY <2>1
  <2> QED
    BY <1>3, <2>3, <2>4, <2>5, StepOf
<1> DEFINE P(step) == [x EXCEPT !.pc = step]
<1>4. ASSUME NEW step \in Running \cup Final, UNCHANGED guardVars, pc' = pc
      PROVE  /\ P(step) \in Upload /\ Same(x, P(step)) /\ P(step).pc = step
             /\ P(step).buf = x.buf /\ P(step).closing = x.closing
             /\ P(step).probe = x.probe /\ P(step).gzip = x.gzip
             /\ To(u, step) => Set(u, P(step)) /\ up'[u] = P(step)
             /\ Opened(u)' <=> Opened(u)
  <2>1. /\ P(step) \in Upload /\ Same(x, P(step)) /\ P(step).pc = step
        /\ P(step).buf = x.buf /\ P(step).closing = x.closing
        /\ P(step).probe = x.probe /\ P(step).gzip = x.gzip
    BY <1>0, <1>4 DEF Upload, Same, Running, Final
  <2>2. To(u, step) => Set(u, P(step))
    BY <1>1 DEF To
  <2> QED
    BY <1>0, <1>4, <2>1, <2>2, SetEffect DEF Opened, guardVars
<1> HIDE DEF P
\* What a step of the program counter, from outside the filling of a buffer to
\* an end of Commit or Abort, keeps.
<1>5. ASSUME NEW y, y \in Upload, up'[u] = y, pc' = pc, Opened(u)' <=> Opened(u),
             Opened(u), x.pc \notin {"fill", "complete"},
             y.pc \in {"index", "close", "failed", "delete", "end"},
             y.pc = "failed" \/ (~x.probe /\ ~x.gzip),
             y.pc \in {"delete", "end"} => x.pc \in {"dissolve", "delete"},
             y.buf = x.buf, y.job = x.job, y.parts = x.parts, y.sent = x.sent,
             y.err = x.err, y.probe = x.probe, y.gzip = x.gzip
      PROVE  Buffers(u)' /\ Parts(u)' /\ Lent(u)'
  <2>1. x.buf # 0 => pc[<<u, x.buf>>] = "in"
    BY <1>0, <1>1, <1>5 DEF Buffers
  <2>2. y.pc \in {"delete", "end"} => x.buf = 0 /\ \A k \in Slot : pc[<<u, k>>] # "in"
    BY <1>0, <1>1, <1>5 DEF Buffers
  <2>3. Buffers(u)'
    BY <1>0, <1>1, <1>5, <2>1, <2>2 DEF Buffers
  <2>4. Parts(u)'
    BY <1>0, <1>1, <1>5 DEF Parts, Final
  <2>5. Lent(u)'
    BY <1>5 DEF Lent, Final
  <2> QED
    BY <2>3, <2>4, <2>5
<1>6. CASE Flush(u)
  <2>1. /\ x.pc \in {"flush", "flushLast"} /\ UNCHANGED <<object, index, late, guardVars>> /\ pc' = pc
    BY <1>1, <1>6 DEF Flush, poolVars
  <2>2. /\ Opened(u) /\ x.buf # 0 /\ x.buf \in Slot /\ x.parts <= MaxParts
        /\ x.pc = "flush" => x.parts < MaxParts
        /\ ~x.whole /\ u \notin index /\ Owns(u)
        /\ x.pc = "flushLast" => x.multi /\ ~x.probe /\ ~x.gzip
        /\ x.closing => ~x.probe /\ ~x.gzip
        /\ pc[<<u, x.buf>>] = "in" /\ x.job[x.buf] = 0
    BY <1>0, <1>1, <2>1 DEF Phase, Running, Buffers, Parts, Final, Owner, Lent
  <2>3. NamesOfOthers(u) /\ late' \subseteq Requests /\ object' \in Objects /\ index' \subseteq Handler
    BY <1>0, <2>1 DEF NamesOfOthers
  <2>4. ASSUME ~x.multi, To(u, "failed"), UNCHANGED open PROVE IInv'
    <3> DEFINE y == P("failed")
    <3>1. /\ y \in Upload /\ Same(x, y) /\ y.pc = "failed" /\ y.buf = x.buf
          /\ y.probe = x.probe /\ y.gzip = x.gzip
          /\ Set(u, y) /\ up'[u] = y /\ (Opened(u)' <=> Opened(u))
      BY <1>4, <2>1, <2>4 DEF Final
    <3> HIDE DEF y
    <3>2. Buffers(u)' /\ Parts(u)' /\ Lent(u)'
      BY <1>5, <2>1, <2>2, <3>1 DEF Same
    <3>3. u \notin open
      BY <1>0, <1>1, <2>1, <2>4 DEF Owner
    <3>4. Owner(u)' /\ LateOf(u)'
      BY <1>0, <1>1, <2>1, <2>2, <2>4, <3>1, <3>3 DEF Owner, LateOf, Owns, Same
    <3> QED
      BY <1>0, <1>3, <2>1, <2>2, <2>3, <2>4, <3>1, <3>2, <3>4 DEF Same
  <2>5. ASSUME Set(u, [x EXCEPT !.multi = TRUE, !.parts = @ + 1, !.buf = 0,
                                !.job[x.buf] = x.parts + 1,
                                !.pc = IF x.pc = "flushLast" THEN "wait"
                                       ELSE IF x.closing THEN "commit" ELSE "open"]),
               open' = IF x.multi THEN open ELSE open \cup {u}
        PROVE  IInv'
    <3> DEFINE step == IF x.pc = "flushLast" THEN "wait" ELSE IF x.closing THEN "commit" ELSE "open"
               m == x.parts + 1
               f == [x.job EXCEPT ![x.buf] = x.parts + 1]
               y == [x EXCEPT !.multi = TRUE, !.parts = @ + 1, !.buf = 0,
                              !.job[x.buf] = x.parts + 1, !.pc = step]
               z == [[[x EXCEPT !.multi = TRUE] EXCEPT !.parts = m] EXCEPT !.buf = 0]
    <3>1. m \in 0..(MaxParts + 1) /\ f \in [Slot -> 0..(MaxParts + 1)]
          /\ step \in {"wait", "commit", "open"}
      BY <1>0, <2>2
    <3>2. y = [[z EXCEPT !.job = f] EXCEPT !.pc = step]
      BY <1>0 DEF Upload
    <3> HIDE DEF step, m, f, y
    <3>3. /\ z \in Upload /\ z.multi /\ z.parts = m /\ z.buf = 0
          /\ z.name = x.name /\ z.sent = x.sent /\ z.err = x.err /\ z.whole = x.whole
          /\ z.closing = x.closing /\ z.probe = x.probe /\ z.gzip = x.gzip
      BY <1>0, <3>1 DEF Upload
    <3> HIDE DEF z
    <3>4. /\ y \in Upload /\ y.multi /\ y.parts = m /\ y.buf = 0 /\ y.job = f /\ y.pc = step
          /\ y.name = x.name /\ y.sent = x.sent /\ y.err = x.err /\ y.whole = x.whole
          /\ y.closing = x.closing /\ y.probe = x.probe /\ y.gzip = x.gzip
      <4> DEFINE w == [z EXCEPT !.job = f]
      <4>1. /\ w \in Upload /\ w.multi /\ w.parts = m /\ w.buf = 0 /\ w.job = f
            /\ w.name = x.name /\ w.sent = x.sent /\ w.err = x.err /\ w.whole = x.whole
            /\ w.closing = x.closing /\ w.probe = x.probe /\ w.gzip = x.gzip
        BY <3>1, <3>3 DEF Upload
      <4>2. y = [w EXCEPT !.pc = step]
        BY <3>2
      <4> HIDE DEF w
      <4> QED
        BY <3>1, <4>1, <4>2 DEF Upload
    <3>5. Set(u, y)
      BY <2>5 DEF y, step
    <3>6. up'[u] = y /\ (Opened(u)' <=> Opened(u))
      BY <1>0, <2>1, <3>5, SetEffect DEF Opened, guardVars
    <3>7. \A k \in Slot : f[k] = IF k = x.buf THEN m ELSE x.job[k]
      BY <1>0, <2>2 DEF f, m
    <3>8. Buffers(u)'
      <4>1. \A k \in Slot : pc[<<u, k>>] \in {"out", "in", "gone"} /\ k # 0
        BY <1>0, <1>1, <2>2 DEF Buffers
      <4>2. \A k \in Slot : f[k] # 0 => pc[<<u, k>>] = "in"
        BY <1>0, <1>1, <2>2, <3>7 DEF Buffers
      <4> QED
        BY <2>1, <2>2, <3>1, <3>4, <3>6, <4>1, <4>2 DEF Buffers
    <3>9. Parts(u)'
      <4>1. m = x.parts + 1
        BY DEF m
      <4>2. x.sent \subseteq 1..m /\ f \in [Slot -> 0..m]
        <5>1. x.sent \subseteq 1..x.parts /\ x.job \in [Slot -> 0..x.parts]
          BY <1>0, <1>1 DEF Parts
        <5>2. x.sent \subseteq 1..m
          BY <1>0, <4>1, <5>1
        <5>3. \A k \in Slot : f[k] \in 0..m
          BY <1>0, <3>7, <4>1, <5>1
        <5> QED
          BY <3>1, <5>2, <5>3
      <4>3. ASSUME ~x.err, NEW i \in 1..m
            PROVE  i \in x.sent \/ \E k \in Slot : f[k] = i
        <5>1. CASE i = m
          BY <2>2, <3>7, <5>1
        <5>2. CASE i # m
          <6>1. i \in 1..x.parts
            BY <1>0, <4>1, <5>2
          <6>2. i \in x.sent \/ \E k \in Slot : x.job[k] = i
            BY <1>0, <1>1, <4>3, <6>1 DEF Parts
          <6>3. i # 0
            BY <6>1
          <6> QED
            BY <2>2, <3>7, <6>2, <6>3
        <5> QED
          BY <5>1, <5>2
      <4>4. step # "wait" => x.pc = "flush"
        BY <2>1 DEF step
      <4>5. step \notin Final => m <= MaxParts
        BY <1>0, <2>2, <3>1, <4>1, <4>4 DEF Final
      <4> QED
        BY <3>1, <3>4, <3>6, <4>2, <4>3, <4>5 DEF Parts
    <3>10. Lent(u)'
      <4>1. step = "wait" => x.pc = "flushLast"
        BY DEF step
      <4>2. (step = "commit" => x.closing) /\ (step = "open" => ~x.closing)
        BY DEF step
      <4> QED
        BY <2>2, <3>1, <3>4, <3>6, <4>1, <4>2 DEF Lent, Final
    <3>11. Owns(u)' /\ open' \subseteq Handler /\ open' \ {u} = open \ {u}
      BY <1>0, <1>1, <2>1, <2>2, <2>5, <3>4, <3>6 DEF Owns
    <3>12. Owner(u)' /\ LateOf(u)'
      BY <1>0, <1>1, <2>1, <2>2, <3>1, <3>4, <3>6, <3>11 DEF Owner, LateOf
    <3> QED
      BY <1>3, <2>1, <2>2, <2>3, <3>1, <3>4, <3>5, <3>8, <3>9, <3>10, <3>11, <3>12
  <2> QED
    BY <1>1, <1>6, <2>4, <2>5 DEF Flush
<1>7. CASE PublishObject(u)
  <2> DEFINE r == Publishing(u)
  <2>1. /\ x.pc \in {"put", "complete"} /\ UNCHANGED <<index, guardVars>> /\ pc' = pc
    BY <1>1, <1>7 DEF PublishObject, poolVars
  <2>2. /\ Opened(u) /\ ~x.whole /\ u \notin index /\ Owns(u) /\ ~x.probe /\ ~x.gzip
        /\ x.pc = "put" => ~x.multi
        /\ x.pc = "complete" => x.buf = 0 /\ x.sent = 1..x.parts
    BY <1>0, <1>1, <2>1 DEF Phase, Running, Buffers, Parts, Owner, Lent, Final
  <2>3. /\ r.by = u /\ r.name = x.name /\ r.multi = x.multi /\ r.part = "all"
        /\ r \in Requests
    <3>1. r = [by |-> u, name |-> x.name, multi |-> x.multi, part |-> "all"]
      BY <1>1, <2>1, <2>2 DEF Publishing, HasBuffer
    <3>2. x.name \in Name
      BY <1>1, <2>2 DEF Owns
    <3> QED
      BY <1>0, <3>1, <3>2 DEF Requests
  <2> HIDE DEF r
  <2>4. ASSUME NEW y \in Upload, up'[u] = y, Opened(u)' <=> Opened(u),
               y.pc \in {"index", "failed"}, y.buf = x.buf, y.job = x.job,
               y.parts = x.parts, y.sent = x.sent,
               y.err = x.err, y.probe = x.probe, y.gzip = x.gzip
        PROVE  Buffers(u)' /\ Parts(u)' /\ Lent(u)'
    <3>1. CASE x.pc = "put"
      BY <1>5, <2>1, <2>2, <2>4, <3>1
    <3>2. CASE x.pc = "complete"
      <4>1. Buffers(u)'
        BY <1>0, <1>1, <2>1, <2>2, <2>4, <3>2 DEF Buffers
      <4>2. Parts(u)' /\ Lent(u)'
        BY <1>0, <1>1, <2>2, <2>4 DEF Parts, Lent, Final
      <4> QED
        BY <4>1, <4>2
    <3> QED
      BY <2>1, <3>1, <3>2
  <2>5. CASE Applied(r)
    <3>1. /\ object' \in Objects /\ NamesOfOthers(u)
          /\ open' \subseteq Handler /\ open' \ {u} = open \ {u} /\ u \notin open'
          /\ object'[x.name] = [by |-> u, part |-> "all"] /\ x.name \in Name
      BY <1>1, <2>2, <2>3, <2>5, AppliedEffect DEF Owns
    <3>2. PICK y : /\ y \in Upload /\ Set(u, y) /\ up'[u] = y /\ (Opened(u)' <=> Opened(u))
                   /\ y.name = x.name /\ y.buf = x.buf /\ y.job = x.job
                   /\ y.parts = x.parts /\ y.sent = x.sent
                   /\ y.err = x.err /\ y.probe = x.probe /\ y.gzip = x.gzip
                   /\ \/ y.pc = "index" /\ y.whole
                      \/ y.pc = "failed" /\ ~y.whole
      <4>1. CASE Set(u, [x EXCEPT !.pc = "index", !.whole = TRUE])
        <5> DEFINE y == [x EXCEPT !.pc = "index", !.whole = TRUE]
        <5>1. /\ y \in Upload /\ y.name = x.name /\ y.buf = x.buf /\ y.job = x.job
              /\ y.parts = x.parts /\ y.sent = x.sent
              /\ y.err = x.err /\ y.probe = x.probe /\ y.gzip = x.gzip
              /\ y.pc = "index" /\ y.whole
          BY <1>0 DEF Upload
        <5>2. Set(u, y)
          BY <4>1
        <5> HIDE DEF y
        <5>3. up'[u] = y /\ (Opened(u)' <=> Opened(u))
          BY <1>0, <2>1, <5>2, SetEffect DEF Opened, guardVars
        <5> QED
          BY <5>1, <5>2, <5>3
      <4>2. CASE To(u, "failed")
        <5>1. /\ P("failed") \in Upload /\ Same(x, P("failed")) /\ P("failed").pc = "failed"
              /\ P("failed").buf = x.buf
              /\ P("failed").probe = x.probe /\ P("failed").gzip = x.gzip
              /\ Set(u, P("failed")) /\ up'[u] = P("failed") /\ (Opened(u)' <=> Opened(u))
          BY <1>4, <2>1, <4>2 DEF Final
        <5> QED
          BY <2>2, <5>1 DEF Same
      <4>4. Set(u, [x EXCEPT !.pc = "index", !.whole = TRUE]) \/ To(u, "failed")
        BY <1>1, <1>7 DEF PublishObject
      <4> QED
        BY <4>1, <4>2, <4>4
    <3>3. Buffers(u)' /\ Parts(u)' /\ Lent(u)'
      BY <2>4, <3>2
    <3>4. Owns(u)' /\ Whole(u)'
      <4>1. [by |-> u, part |-> "all"] # None
        OBVIOUS
      <4> QED
        BY <3>1, <3>2, <4>1 DEF Owns, Whole
    <3>5. Owner(u)'
      BY <2>1, <2>2, <3>1, <3>2, <3>4 DEF Owner
    <3>6. late' \subseteq late \cup {r}
      BY <1>7 DEF PublishObject, r
    <3>7. late' \subseteq Requests /\ \A q \in late' : q \in late \/ q.by = u
      BY <1>0, <2>3, <3>6
    <3>8. LateOf(u)'
      BY <1>0, <1>1, <2>1, <2>3, <3>2, <3>6 DEF LateOf
    <3> QED
      BY <1>0, <1>3, <2>1, <2>2, <3>1, <3>2, <3>3, <3>5, <3>7, <3>8
  <2>6. CASE late' = late \cup {r} /\ To(u, "failed") /\ UNCHANGED <<object, open>>
    <3> DEFINE y == P("failed")
    <3>1. /\ y \in Upload /\ Same(x, y) /\ y.pc = "failed" /\ y.buf = x.buf
          /\ y.probe = x.probe /\ y.gzip = x.gzip
          /\ Set(u, y) /\ up'[u] = y /\ (Opened(u)' <=> Opened(u))
      BY <1>4, <2>1, <2>6 DEF Final
    <3> HIDE DEF y
    <3>2. Buffers(u)' /\ Parts(u)' /\ Lent(u)'
      BY <2>4, <3>1 DEF Same
    <3>3. Owner(u)'
      BY <1>0, <1>1, <2>1, <2>2, <2>6, <3>1 DEF Owner, Owns, Same
    <3>4. late' \subseteq Requests /\ \A q \in late' : q \in late \/ q.by = u
      BY <1>0, <2>3, <2>6
    <3>5. LateOf(u)'
      BY <1>0, <1>1, <2>1, <2>3, <2>6, <3>1 DEF LateOf, Same
    <3>6. NamesOfOthers(u) /\ object' \in Objects /\ index' \subseteq Handler /\ open' \subseteq Handler
      BY <1>0, <2>1, <2>6 DEF NamesOfOthers
    <3> QED
      BY <1>3, <2>1, <2>2, <2>6, <3>1, <3>2, <3>3, <3>4, <3>5, <3>6 DEF Same
  <2> QED
    BY <1>7, <2>5, <2>6 DEF PublishObject, r
\* The object of an upload that no request of its own may still change.
<1>8. CASE PublishIndex(u)
  <2>1. /\ x.pc = "index" /\ UNCHANGED <<object, open, late, guardVars>> /\ pc' = pc
        /\ index' \in {index, index \cup {u}}
    BY <1>1, <1>8 DEF PublishIndex, poolVars, Cancel
  <2>2. /\ Opened(u) /\ x.whole /\ Whole(u) /\ u \notin open /\ ~x.probe /\ ~x.gzip
    BY <1>0, <1>1, <2>1 DEF Phase, Running, Owner, Lent, Final
  <2>3. PICK step \in {"close", "failed"} : To(u, step)
    BY <1>8 DEF PublishIndex, To
  <2> DEFINE y == P(step)
  <2>4. /\ y \in Upload /\ Same(x, y) /\ y.pc = step /\ y.buf = x.buf
        /\ y.probe = x.probe /\ y.gzip = x.gzip
        /\ Set(u, y) /\ up'[u] = y /\ (Opened(u)' <=> Opened(u))
    BY <1>4, <2>1, <2>3 DEF Final, Running
  <2> HIDE DEF y
  <2>5. Buffers(u)' /\ Parts(u)' /\ Lent(u)'
    BY <1>5, <2>1, <2>2, <2>3, <2>4 DEF Same
  <2>6. Whole(u)' /\ Owns(u)'
    BY <1>0, <1>1, <2>1, <2>2, <2>4 DEF Whole, Owns, Owner, Same
  <2>7. Owner(u)' /\ LateOf(u)'
    BY <1>0, <1>1, <2>1, <2>2, <2>3, <2>4, <2>6 DEF Owner, LateOf, Same
  <2>8. NamesOfOthers(u) /\ object' \in Objects /\ late' \subseteq Requests
        /\ open' \subseteq Handler /\ index' \subseteq Handler /\ index' \ {u} = index \ {u}
    BY <1>0, <2>1 DEF NamesOfOthers
  <2> QED
    BY <1>3, <2>1, <2>2, <2>3, <2>4, <2>5, <2>7, <2>8 DEF Same
<1>9. CASE Dissolve(u)
  <2>1. /\ x.pc = "dissolve" /\ UNCHANGED <<object, index, late, guardVars>> /\ pc' = pc
        /\ open' \in {open, open \ {u}}
    BY <1>1, <1>9 DEF Dissolve, poolVars
  <2>2. Opened(u) /\ ~x.whole /\ u \notin index /\ Owns(u) /\ ~x.probe /\ ~x.gzip
    BY <1>0, <1>1, <2>1 DEF Phase, Running, Owner, Lent, Final
  <2>3. PICK step \in {"delete", "end"} : To(u, step) /\ (step = "delete" => u \notin open')
    BY <1>9 DEF Dissolve, To, AfterError
  <2> DEFINE y == P(step)
  <2>4. /\ y \in Upload /\ Same(x, y) /\ y.pc = step /\ y.buf = x.buf
        /\ y.probe = x.probe /\ y.gzip = x.gzip
        /\ Set(u, y) /\ up'[u] = y /\ (Opened(u)' <=> Opened(u))
    BY <1>4, <2>1, <2>3 DEF Final, Running
  <2> HIDE DEF y
  <2>5. Buffers(u)' /\ Parts(u)' /\ Lent(u)'
    BY <1>5, <2>1, <2>2, <2>3, <2>4 DEF Same
  <2>6. Owns(u)'
    BY <1>0, <1>1, <2>1, <2>2, <2>4 DEF Owns, Same
  <2>7. u \in open' => y.multi
    BY <1>0, <1>1, <2>1, <2>4 DEF Owner, Same
  <2>8. Owner(u)' /\ LateOf(u)'
    BY <1>0, <1>1, <2>1, <2>2, <2>3, <2>4, <2>6, <2>7 DEF Owner, LateOf, Same
  <2>9. NamesOfOthers(u) /\ object' \in Objects /\ late' \subseteq Requests
        /\ open' \subseteq Handler /\ index' \subseteq Handler /\ open' \ {u} = open \ {u}
    BY <1>0, <2>1 DEF NamesOfOthers
  <2> QED
    BY <1>3, <2>1, <2>2, <2>3, <2>4, <2>5, <2>8, <2>9 DEF Same
<1>10. CASE DeleteName(u)
  <2>1. /\ x.pc = "delete" /\ UNCHANGED <<index, open, late, guardVars>> /\ pc' = pc
        /\ object' = [object EXCEPT ![x.name] = None] \/ object' = object
        /\ To(u, "end")
    BY <1>1, <1>10 DEF DeleteName, poolVars
  <2>2. /\ Opened(u) /\ ~x.whole /\ u \notin index /\ u \notin open /\ Owns(u)
        /\ ~x.probe /\ ~x.gzip
    BY <1>0, <1>1, <2>1 DEF Phase, Running, Owner, Lent, Final
  <2> DEFINE y == P("end")
  <2>3. /\ y \in Upload /\ Same(x, y) /\ y.pc = "end" /\ y.buf = x.buf
        /\ y.probe = x.probe /\ y.gzip = x.gzip
        /\ Set(u, y) /\ up'[u] = y /\ (Opened(u)' <=> Opened(u))
    BY <1>4, <2>1 DEF Final
  <2> HIDE DEF y
  <2>4. Buffers(u)' /\ Parts(u)' /\ Lent(u)'
    BY <1>5, <2>1, <2>2, <2>3 DEF Same
  <2>5. Owner(u)' /\ LateOf(u)'
    BY <1>0, <1>1, <2>1, <2>2, <2>3 DEF Owner, LateOf, Same
  <2>6. object' \in Objects /\ NamesOfOthers(u)
    <3>1. x.name \in Name /\ object[x.name].by = u
      BY <1>1, <2>2 DEF Owns
    <3> QED
      BY <1>0, <2>1, <3>1 DEF Objects, NamesOfOthers
  <2>7. index' \subseteq Handler /\ open' \subseteq Handler /\ late' \subseteq Requests
    BY <1>0, <2>1
  <2> QED
    BY <1>3, <2>1, <2>2, <2>3, <2>4, <2>5, <2>6, <2>7 DEF Same
\* A late request finds its upload unfinished, or is refused.
<1>11. ASSUME NEW r \in late, r.by = u, LateApply(r) PROVE IInv'
  <2>1. /\ late' = late \ {r} /\ UNCHANGED <<up, index, guardVars>> /\ pc' = pc
        /\ Applied(r) \/ UNCHANGED <<object, open>>
    BY <1>11 DEF LateApply, poolVars
  <2>2. /\ r \in Requests /\ r.name = x.name /\ x.pc \notin {"idle", "begin"}
        /\ Set(u, x) /\ up'[u] = x /\ (Opened(u)' <=> Opened(u))
    BY <1>0, <1>1, <1>11, <2>1 DEF LateOf, Set, TypeOK, Opened, guardVars
  <2>3. Buffers(u)' /\ Parts(u)' /\ Lent(u)' /\ LateOf(u)'
    BY <1>0, <1>1, <2>1, <2>2 DEF Buffers, Parts, Lent, LateOf
  <2>4. late' \subseteq Requests /\ index' \subseteq Handler
    BY <1>0, <2>1
  <2>5. x.pc \in Running => Opened(u)
    BY <1>0, <1>1 DEF Phase
  <2>6. CASE UNCHANGED <<object, open>>
    <3>1. Owner(u)'
      BY <1>0, <1>1, <2>1, <2>2, <2>6 DEF Owner, Owns, Whole
    <3>2. NamesOfOthers(u) /\ object' \in Objects /\ open' \subseteq Handler
      BY <1>0, <2>6 DEF NamesOfOthers
    <3> QED
      BY <1>0, <1>3, <2>1, <2>2, <2>3, <2>4, <2>5, <2>6, <3>1, <3>2
  <2>7. CASE Applied(r)
    <3>1. /\ Owns(u) /\ object' \in Objects /\ NamesOfOthers(u)
          /\ open' \subseteq Handler /\ open' \ {u} = open \ {u} /\ u \notin open'
          /\ object'[x.name] = [by |-> u, part |-> r.part]
          /\ ~Whole(u) \/ u \in open
      BY <1>1, <1>11, <2>2, <2>7, AppliedEffect
    <3>2. ~x.whole /\ u \notin index
      BY <1>0, <1>1, <3>1 DEF Owner
    <3>3. Owns(u)'
      <4>1. [by |-> u, part |-> r.part] # None
        BY <2>2 DEF Requests
      <4> QED
        BY <1>1, <2>2, <3>1, <4>1 DEF Owns
    <3>4. Owner(u)'
      BY <1>0, <1>1, <2>1, <2>2, <3>1, <3>2, <3>3 DEF Owner
    <3> QED
      BY <1>0, <1>3, <2>1, <2>2, <2>3, <2>4, <2>5, <3>1, <3>4
  <2> QED
    BY <2>1, <2>6, <2>7
<1> QED
  BY <1>6, <1>7, <1>8, <1>9, <1>10, <1>11

-----------------------------------------------------------------------------
(***************************************************************************)
(* The invariant holds.                                                    *)
(***************************************************************************)

LEMMA InitIInv ==
  ASSUME Init
  PROVE  IInv
<1>1. Fresh \in Upload
  <2>1. [k \in Slot |-> 0] \in [Slot -> 0..(MaxParts + 1)]
    OBVIOUS
  <2> QED
    BY <2>1 DEF Fresh, Upload
<1>2. \A u \in Handler : up[u] = Fresh /\ \A k \in Slot : pc[<<u, k>>] = "out"
  BY CallsArePart DEF Init, PoolInit
<1>3. \A u \in Handler : ~Opened(u)
  BY HandleExists DEF Init, GuardInit, Opened
<1>4. TypeOK
  <2>1. \A u \in Handler : up[u].sent \subseteq 1..up[u].parts /\ up[u].job \in [Slot -> 0..up[u].parts]
    BY <1>2 DEF Fresh
  <2> QED
    BY <1>1, <2>1 DEF Init, TypeOK
<1>5. ASSUME NEW u \in Handler PROVE UploadInv(u)
  <2>1. Phase(u) /\ Lent(u) /\ LateOf(u)
    BY <1>2, <1>3 DEF Phase, Lent, LateOf, Init, Fresh, Running, Final
  <2>2. Buffers(u)
    BY <1>2 DEF Buffers, Fresh
  <2>3. Parts(u)
    BY <1>2, <1>4 DEF Parts, Fresh, TypeOK
  <2>4. Owner(u)
    BY <1>2, <1>3 DEF Owner, Init, Fresh
  <2> QED
    BY <2>1, <2>2, <2>3, <2>4 DEF UploadInv
<1> QED
  BY <1>4, <1>5 DEF IInv

LEMMA NextIInv ==
  ASSUME IInv, PoolIInv, GuardIInv, [Next]_vars
  PROVE  IInv'
<1>1. ASSUME NEW u \in Handler, \/ Server(u) \/ PartStep(u)
                                \/ WriteSmall(u) \/ StartUpload(u) \/ Write(u) \/ CommitBlob(u)
                                \/ Abort(u) \/ AbortAgain(u) \/ ContextEnds(u)
      PROVE  IInv'
  BY <1>1, QuietNext, GuardedNext, PooledNext, StoredNext DEF Server
<1>2. ASSUME NEW r \in late, LateApply(r) PROVE IInv'
  <2>1. r.by \in Handler
    BY DEF IInv, TypeOK
  <2> QED
    BY <1>2, <2>1, StoredNext
<1>3. ASSUME NEW p \in Other, OtherStep(p) PROVE IInv'
  <2>1. p \in Proc /\ UNCHANGED <<uploadVars, handle, want>> /\ (Get(p) \/ Put(p))
    BY <1>3 DEF OtherStep, guardVars
  <2>2. \A q \in Proc \ {p} : Drift(q)
    BY <2>1, GetDrift, PutDrift DEF Drift
  <2>3. TypeOK'
    BY <2>1 DEF IInv, TypeOK, uploadVars
  <2>4. ASSUME NEW v \in Handler PROVE UploadInv(v)'
    <3>1. TypeOK /\ UploadInv(v)
      BY DEF IInv
    <3>2. \A k \in Slot : Drift(<<v, k>>)
      <4>1. \A k \in Slot : <<v, k>> \in Proc /\ <<v, k>> # p
        BY CallsArePart
      <4> QED
        BY <2>2, <4>1
    <3> QED
      BY <2>1, <3>1, <3>2, KeptOne DEF uploadVars
  <2> QED
    BY <2>3, <2>4 DEF IInv
<1>4. ASSUME NEW p \in Proc, PoolStep(p) PROVE IInv'
  BY <1>4, PoolStepDrift, NobodysStep DEF PoolStep, guardVars
<1>5. CASE Shutdown
  BY <1>5, NobodysStep DEF Shutdown, CloseStart, CloseLocked, poolVars, Drift
<1>6. CASE UNCHANGED vars
  BY <1>6, NobodysStep DEF vars, poolVars, guardVars, Drift
<1> QED
  BY <1>1, <1>2, <1>3, <1>4, <1>5, <1>6 DEF Next

-----------------------------------------------------------------------------
(***************************************************************************)
(* The theorems about uploads.                                             *)
(***************************************************************************)

\* Uploads, the pool of part buffers and the guard put together behave, each
\* in its own variables, as the pool and as the guard do alone.
THEOREM Composition == Spec => PoolSpec /\ GuardSpec
<1>1. Init => PoolInit /\ GuardInit
  BY DEF Init
<1> QED
  BY <1>1, PoolOfNext, GuardOfNext, PTL DEF Spec, PoolSpec, GuardSpec

LEMMA Invariance == Spec => []IInv
  BY InitIInv, NextIInv, Composition, PoolInvariance, GuardInvariance, PTL DEF Spec

\* Every upload keeps its shape: the parts it counts are within the bound of
\* its content, and what S3 has and what goroutines send are among them.
THEOREM UploadTypes == Spec => []TypeOK
<1>1. IInv => TypeOK
  BY DEF IInv
<1> QED
  BY <1>1, Invariance, PTL

\* An index never names an object that is missing, partial or another's.
THEOREM PublishedWhole == Spec => []IndexWhole
<1>1. ASSUME IInv PROVE IndexWhole
  <2>1. ASSUME NEW u \in index PROVE object[up[u].name] = [by |-> u, part |-> "all"]
    <3>1. u \in Handler /\ UploadInv(u)
      BY <1>1, <2>1 DEF IInv, TypeOK
    <3> QED
      BY <2>1, <3>1 DEF UploadInv, Owner, Whole
  <2> QED
    BY <2>1 DEF IndexWhole
<1> QED
  BY <1>1, Invariance, PTL

\* A finished upload has given back its probe, its compressor, its buffers and
\* the store's lock.
THEOREM AllGivenBack == Spec => []NothingKept
<1>1. ASSUME IInv PROVE NothingKept
  <2>1. ASSUME NEW u \in Handler, up[u].pc \in {"done", "aborted"}
        PROVE  /\ ~up[u].probe /\ ~up[u].gzip
               /\ \A p \in Calls(u) : pc[p] \in {"out", "gone"}
               /\ handle[u][TheHandle] # "open"
    <3>1. Phase(u) /\ Buffers(u) /\ Lent(u)
      BY <1>1 DEF IInv, UploadInv
    <3>2. handle[u][TheHandle] # "open"
      BY <2>1, <3>1 DEF Phase, Opened
    <3>3. \A k \in Slot : pc[<<u, k>>] \in {"out", "gone"}
      BY <3>1, <3>2 DEF Buffers, Opened
    <3>4. ~up[u].probe /\ ~up[u].gzip
      BY <2>1, <3>1 DEF Lent, Final
    <3>5. ASSUME NEW p \in Calls(u) PROVE pc[p] \in {"out", "gone"}
      <4>1. p \in {u} \X Slot
        BY <3>5 DEF Calls
      <4>2. p = <<p[1], p[2]>> /\ p[1] = u /\ p[2] \in Slot
        BY <4>1
      <4> QED
        BY <3>3, <4>2
    <3> QED
      BY <3>2, <3>4, <3>5
  <2> QED
    BY <2>1 DEF NothingKept
<1> QED
  BY <1>1, Invariance, PTL

\* The memory of part buffers stays within its limit, whatever uploads do.
THEOREM BuffersBounded == Spec => []CountExact
  BY Composition, LimitHolds, PTL

\* Nobody waits for a part buffer beside more free ones than signals were lost
\* to uploads that left.
THEOREM BuffersReachWaiters == Spec => []NoLostWakeup
  BY Composition, NobodySleepsBeside, PTL

\* Every upload releases the store's lock once and only once.
THEOREM UploadsRelease == Spec => []LocksBalanced
  BY Composition, EveryLockReleased, PTL

\* When the store is closed no upload is open.
THEOREM NoUploadAfterClose == Spec => []Drained
  BY Composition, NothingAfterClose, PTL
=============================================================================
