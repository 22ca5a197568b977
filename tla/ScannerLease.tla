---------------------------- MODULE ScannerLease ----------------------------
(***************************************************************************)
(* The scanner lease of one mail domain: the object <domain>/.lock, the    *)
(* queue goroutine of every node (serveDomainQueue) that acquires it,      *)
(* scans under it and releases it, and the keepAlive goroutine that renews *)
(* it.  main.go: lockBucket, bucketLease.*, serveDomainQueue.              *)
(*                                                                         *)
(* One action is one S3 request or one local step between two requests.    *)
(* An S3 ETag is the hash of the stored bytes, so the record read stands   *)
(* for its own ETag: a conditional PUT succeeds iff the stored record is   *)
(* still the one that was read.  A PUT may fail without effect, or fail at *)
(* the client and be applied by the server later (`late').                 *)
(***************************************************************************)
EXTENDS Integers, FiniteSets

CONSTANTS
    Node,        \* processes sharing the bucket
    TTL,         \* leaseTTL, in clock units
    Skew,        \* how far each node's clock runs from true time
    MaxClock,    \* bound: last instant explored
    MaxAttempt,  \* bound: calls of lockBucket per node
    MaxLate,     \* bound: PUTs in flight after their client gave up
    NoRecord     \* "no .lock object" and "no lease"

ASSUME TTLAssumption  == TTL \in Nat \ {0}
ASSUME SkewAssumption == Skew \in [Node -> Int]

\* record.Owner is 16 random bytes: the node and the number of the attempt.
Owner  == Node \X Nat
Record == [owner : Owner, started : Int, expires : Int]
Put    == [old : Record \cup {NoRecord}, new : Record]

ASSUME NoRecordAssumption == NoRecord \notin Record

VARIABLES
    clock,    \* true time
    lock,     \* the object <domain>/.lock
    late,     \* conditional PUTs the server may still apply
    pc,       \* the serveDomainQueue goroutine
    held,     \* its variable `lease' (bucketLease.record)
    lost,     \* bucketLease.lost # nil
    now,      \* time.Now() passed to lockBucket and release
    seen,     \* the record read by lockBucket and release, with its ETag
    attempt,  \* number of owner ids drawn so far
    quit,     \* the node's context is cancelled
    keeper,   \* the keepAlive goroutine
    renewal,  \* the renew goroutine, keepAlive's `pending'
    rnow,     \* time.Now() passed to renew
    rseen     \* the record read by renew

nodeVars  == <<pc, held, lost, now, seen, attempt, quit>>
keepVars  == <<keeper, renewal, rnow, rseen>>
storeVars == <<lock, late>>
vars      == <<clock, storeVars, nodeVars, keepVars>>

MainPC    == {"wait", "lockRead", "lockSwap", "scan", "stopping", "relRead",
              "relSwap", "stopped"}
KeeperPC  == {"none", "run", "closing", "done"}
RenewalPC == {"none", "read", "swap", "ok", "failed"}

Time(n) == clock + Skew[n]

\* bucketLease.valid: not lost and before the local expiry.
Valid(n) == held[n] # NoRecord /\ ~lost[n] /\ Time(n) < held[n].expires

\* Takeover one clock unit before the record expires.
Mutant_ExpiredOneEarly(record, t) == record.expires <= t + 1
Expired(record, t) == record.expires <= t

\* The owner comparison forgotten.
Mutant_OwnsAny(record, owner) == record # NoRecord
Owns(record, owner) == record # NoRecord /\ record.owner = owner

\* The store's precondition ignored: If-Match forgotten.
Mutant_Unconditional(old) == TRUE
Matches(old) == lock = old

NewRecord(n) ==
    [owner |-> <<n, attempt[n]>>, started |-> now[n], expires |-> now[n] + TTL]
Renewed(record, t)  == [record EXCEPT !.expires = t + TTL]
Released(record, t) == [record EXCEPT !.expires = t]

\* The locals of a call of lockBucket, release or renew end with it.
EndCall(n)  == /\ now'  = [now EXCEPT ![n] = 0]
               /\ seen' = [seen EXCEPT ![n] = NoRecord]
EndRenew(n) == /\ rnow'  = [rnow EXCEPT ![n] = 0]
               /\ rseen' = [rseen EXCEPT ![n] = NoRecord]

Init ==
    /\ clock   = 0
    /\ lock    = NoRecord
    /\ late    = {}
    /\ pc      = [n \in Node |-> "wait"]
    /\ held    = [n \in Node |-> NoRecord]
    /\ lost    = [n \in Node |-> FALSE]
    /\ now     = [n \in Node |-> 0]
    /\ seen    = [n \in Node |-> NoRecord]
    /\ attempt = [n \in Node |-> 0]
    /\ quit    = [n \in Node |-> FALSE]
    /\ keeper  = [n \in Node |-> "none"]
    /\ renewal = [n \in Node |-> "none"]
    /\ rnow    = [n \in Node |-> 0]
    /\ rseen   = [n \in Node |-> NoRecord]

-----------------------------------------------------------------------------
(***************************************************************************)
(* The conditional PUT: Create (old = NoRecord) and Swap.                  *)
(***************************************************************************)
PutApplied(old, new) ==
    /\ Matches(old)
    /\ lock' = new
    /\ UNCHANGED late

\* The precondition failed, the request was dropped, or its reply was lost.
PutFailed(old, new) ==
    /\ UNCHANGED lock
    /\ \/ UNCHANGED late
       \/ /\ Cardinality(late) < MaxLate
          /\ late' = late \cup {[old |-> old, new |-> new]}

\* The server applies a PUT whose client no longer waits for the reply.
LateApply(p) ==
    /\ late' = late \ {p}
    /\ lock' = IF Matches(p.old) THEN p.new ELSE lock
    /\ UNCHANGED <<clock, nodeVars, keepVars>>

-----------------------------------------------------------------------------
(***************************************************************************)
(* lockBucket, called when the goroutine holds no lease and has capacity.  *)
(***************************************************************************)
AcquireStart(n) ==
    /\ pc[n] = "wait" /\ held[n] = NoRecord /\ ~quit[n]
    /\ attempt[n] < MaxAttempt
    /\ pc'      = [pc EXCEPT ![n] = "lockRead"]
    /\ now'     = [now EXCEPT ![n] = Time(n)]
    /\ attempt' = [attempt EXCEPT ![n] = @ + 1]
    /\ UNCHANGED <<clock, storeVars, held, lost, seen, quit, keepVars>>

\* readLock: go on only if there is no record or the record has expired.
AcquireRead(n) ==
    /\ pc[n] = "lockRead"
    /\ \/ /\ lock # NoRecord => Expired(lock, now[n])
          /\ pc'   = [pc EXCEPT ![n] = "lockSwap"]
          /\ seen' = [seen EXCEPT ![n] = lock]
          /\ UNCHANGED now
       \/ /\ pc' = [pc EXCEPT ![n] = "wait"]   \* locked, or the GET failed
          /\ EndCall(n)
    /\ UNCHANGED <<clock, storeVars, held, lost, attempt, quit, keepVars>>

\* Create or Swap; on success keepAlive starts and the scan follows at once.
AcquireSwap(n) ==
    /\ pc[n] = "lockSwap"
    /\ \/ /\ PutApplied(seen[n], NewRecord(n))
          /\ pc'     = [pc EXCEPT ![n] = "scan"]
          /\ held'   = [held EXCEPT ![n] = NewRecord(n)]
          /\ keeper' = [keeper EXCEPT ![n] = "run"]
       \/ /\ PutFailed(seen[n], NewRecord(n))
          /\ pc' = [pc EXCEPT ![n] = "wait"]
          /\ UNCHANGED <<held, keeper>>
    /\ EndCall(n)
    /\ UNCHANGED <<clock, lost, attempt, quit, renewal, rnow, rseen>>

-----------------------------------------------------------------------------
(***************************************************************************)
(* The loop of serveDomainQueue around scanTasks.  scanTasks tests Valid   *)
(* before every preclaim; `full' or an error makes the goroutine release.  *)
(* A release that opens an iteration is followed by lockBucket in the same *)
(* iteration: here by way of "wait", where a node never has to wait.       *)
(***************************************************************************)
Tick(n) ==
    /\ pc[n] = "wait" /\ held[n] # NoRecord /\ ~quit[n]
    /\ pc' = [pc EXCEPT ![n] = IF Valid(n) THEN "scan" ELSE "stopping"]
    /\ UNCHANGED <<clock, storeVars, held, lost, now, seen, attempt, quit,
                   keepVars>>

ScanEnd(n) ==
    /\ pc[n] = "scan"
    /\ \E next \in {"wait", "stopping"} : pc' = [pc EXCEPT ![n] = next]
    /\ UNCHANGED <<clock, storeVars, held, lost, now, seen, attempt, quit,
                   keepVars>>

\* The deferred release of a goroutine whose context was cancelled.
Leave(n) ==
    /\ pc[n] = "wait" /\ quit[n]
    /\ pc' = [pc EXCEPT ![n] = IF held[n] = NoRecord THEN "stopped"
                               ELSE "stopping"]
    /\ UNCHANGED <<clock, storeVars, held, lost, now, seen, attempt, quit,
                   keepVars>>

\* stop(); <-done; then release(time.Now()).
StopDone(n) ==
    /\ pc[n] = "stopping" /\ keeper[n] = "done"
    /\ pc'     = [pc EXCEPT ![n] = "relRead"]
    /\ keeper' = [keeper EXCEPT ![n] = "none"]
    /\ now'    = [now EXCEPT ![n] = Time(n)]
    /\ UNCHANGED <<clock, storeVars, held, lost, seen, attempt, quit, renewal,
                   rnow, rseen>>

\* lease = nil
DropLease(n) == /\ held' = [held EXCEPT ![n] = NoRecord]
                /\ lost' = [lost EXCEPT ![n] = FALSE]

ReleaseRead(n) ==
    /\ pc[n] = "relRead"
    /\ \/ /\ Owns(lock, held[n].owner)
          /\ pc'   = [pc EXCEPT ![n] = "relSwap"]
          /\ seen' = [seen EXCEPT ![n] = lock]
          /\ UNCHANGED <<held, lost, now>>
       \/ /\ pc' = [pc EXCEPT ![n] = "wait"]   \* not ours, or the GET failed
          /\ DropLease(n)
          /\ EndCall(n)
    /\ UNCHANGED <<clock, storeVars, attempt, quit, keepVars>>

\* The record is marked expired, never deleted; a failure is only logged.
ReleaseSwap(n) ==
    /\ pc[n] = "relSwap"
    /\ \/ PutApplied(seen[n], Released(seen[n], now[n]))
       \/ PutFailed(seen[n], Released(seen[n], now[n]))
    /\ pc' = [pc EXCEPT ![n] = "wait"]
    /\ DropLease(n)
    /\ EndCall(n)
    /\ UNCHANGED <<clock, attempt, quit, keepVars>>

-----------------------------------------------------------------------------
(***************************************************************************)
(* keepAlive: the watchdog, the renewals it starts, and its exit, which    *)
(* waits for a renewal still in flight before it closes `done'.            *)
(***************************************************************************)
Watchdog(n) ==
    /\ keeper[n] = "run" /\ ~Valid(n)
    /\ lost'   = [lost EXCEPT ![n] = TRUE]
    /\ keeper' = [keeper EXCEPT ![n] = "closing"]
    /\ UNCHANGED <<clock, storeVars, pc, held, now, seen, attempt, quit,
                   renewal, rnow, rseen>>

KeeperCancelled(n) ==
    /\ keeper[n] = "run" /\ (pc[n] = "stopping" \/ quit[n])
    /\ keeper' = [keeper EXCEPT ![n] = "closing"]
    /\ UNCHANGED <<clock, storeVars, nodeVars, renewal, rnow, rseen>>

RenewStart(n) ==
    /\ keeper[n] = "run" /\ renewal[n] = "none"
    /\ IF Valid(n)
       THEN /\ renewal' = [renewal EXCEPT ![n] = "read"]
            /\ rnow'    = [rnow EXCEPT ![n] = Time(n)]
       ELSE /\ renewal' = [renewal EXCEPT ![n] = "failed"]
            /\ UNCHANGED rnow
    /\ UNCHANGED <<clock, storeVars, nodeVars, keeper, rseen>>

RenewRead(n) ==
    /\ renewal[n] = "read"
    /\ \/ /\ Owns(lock, held[n].owner) /\ ~Expired(lock, rnow[n])
          /\ renewal' = [renewal EXCEPT ![n] = "swap"]
          /\ rseen'   = [rseen EXCEPT ![n] = lock]
          /\ UNCHANGED rnow
       \/ /\ renewal' = [renewal EXCEPT ![n] = "failed"]
          /\ EndRenew(n)
    /\ UNCHANGED <<clock, storeVars, nodeVars, keeper>>

RenewSwap(n) ==
    /\ renewal[n] = "swap"
    /\ \/ /\ PutApplied(rseen[n], Renewed(rseen[n], rnow[n]))
          /\ held'    = [held EXCEPT ![n] = Renewed(rseen[n], rnow[n])]
          /\ renewal' = [renewal EXCEPT ![n] = "ok"]
       \/ /\ PutFailed(rseen[n], Renewed(rseen[n], rnow[n]))
          /\ renewal' = [renewal EXCEPT ![n] = "failed"]
          /\ UNCHANGED held
    /\ EndRenew(n)
    /\ UNCHANGED <<clock, pc, lost, now, seen, attempt, quit, keeper>>

\* `case err := <-pending': a failed renewal gives the lease up.
RenewResult(n) ==
    /\ keeper[n] = "run" /\ renewal[n] \in {"ok", "failed"}
    /\ renewal' = [renewal EXCEPT ![n] = "none"]
    /\ IF renewal[n] = "failed"
       THEN /\ lost'   = [lost EXCEPT ![n] = TRUE]
            /\ keeper' = [keeper EXCEPT ![n] = "done"]
       ELSE UNCHANGED <<lost, keeper>>
    /\ UNCHANGED <<clock, storeVars, pc, held, now, seen, attempt, quit, rnow,
                   rseen>>

\* `<-pending' without the test for nil: a receive that never returns.
Mutant_DrainedNil(r) == r \in {"ok", "failed"}
Drained(r) == r \in {"none", "ok", "failed"}

KeeperExit(n) ==
    /\ keeper[n] = "closing" /\ Drained(renewal[n])
    /\ keeper'  = [keeper EXCEPT ![n] = "done"]
    /\ renewal' = [renewal EXCEPT ![n] = "none"]
    /\ UNCHANGED <<clock, storeVars, nodeVars, rnow, rseen>>

-----------------------------------------------------------------------------
\* SIGTERM, or the domain's prefix vanished: serveQueue cancels the context.
Shutdown(n) ==
    /\ ~quit[n] /\ pc[n] # "stopped"
    /\ quit' = [quit EXCEPT ![n] = TRUE]
    /\ UNCHANGED <<clock, storeVars, pc, held, lost, now, seen, attempt,
                   keepVars>>

\* The process dies and is started again; everything in memory is gone.
Crash(n) ==
    /\ pc'      = [pc EXCEPT ![n] = "wait"]
    /\ held'    = [held EXCEPT ![n] = NoRecord]
    /\ lost'    = [lost EXCEPT ![n] = FALSE]
    /\ quit'    = [quit EXCEPT ![n] = FALSE]
    /\ keeper'  = [keeper EXCEPT ![n] = "none"]
    /\ renewal' = [renewal EXCEPT ![n] = "none"]
    /\ EndCall(n)
    /\ EndRenew(n)
    /\ UNCHANGED <<clock, storeVars, attempt>>

Advance ==
    /\ clock < MaxClock
    /\ clock' = clock + 1
    /\ UNCHANGED <<storeVars, nodeVars, keepVars>>

MainStep(n) ==
    \/ AcquireStart(n) \/ AcquireRead(n) \/ AcquireSwap(n)
    \/ Tick(n) \/ ScanEnd(n) \/ Leave(n)
    \/ StopDone(n) \/ ReleaseRead(n) \/ ReleaseSwap(n)

KeeperStep(n) ==
    \/ Watchdog(n) \/ KeeperCancelled(n) \/ RenewStart(n) \/ RenewRead(n)
    \/ RenewSwap(n) \/ RenewResult(n) \/ KeeperExit(n)

Next ==
    \/ Advance
    \/ \E p \in late : LateApply(p)
    \/ \E n \in Node : MainStep(n) \/ KeeperStep(n) \/ Shutdown(n) \/ Crash(n)

Spec == Init /\ [][Next]_vars

\* Go schedules every goroutine that can run, and every request ends within
\* its five-second deadline.  Nothing forces a shutdown or a crash.
Fairness == \A n \in Node : WF_vars(MainStep(n)) /\ WF_vars(KeeperStep(n))

FairSpec == Spec /\ Fairness

-----------------------------------------------------------------------------
(***************************************************************************)
(* Properties.                                                             *)
(***************************************************************************)

\* Every variable keeps its type; in particular `held' and the lock object are
\* always whole records (bucketLease.record is only replaced as a whole).
TypeOK ==
    /\ clock   \in Int
    /\ lock    \in Record \cup {NoRecord}
    /\ late    \in SUBSET Put
    /\ pc      \in [Node -> MainPC]
    /\ held    \in [Node -> Record \cup {NoRecord}]
    /\ lost    \in [Node -> BOOLEAN]
    /\ now     \in [Node -> Int]
    /\ seen    \in [Node -> Record \cup {NoRecord}]
    /\ attempt \in [Node -> Nat]
    /\ quit    \in [Node -> BOOLEAN]
    /\ keeper  \in [Node -> KeeperPC]
    /\ renewal \in [Node -> RenewalPC]
    /\ rnow    \in [Node -> Int]
    /\ rseen   \in [Node -> Record \cup {NoRecord}]

\* The intervals [started, expires) of the leases two nodes hold never
\* overlap, whatever the clocks, crashes and late PUTs: lockBucket takes a
\* record over only when it has expired, and renew extends only its own.
LeasesDisjoint ==
    \A n, m \in Node :
        n # m /\ held[n] # NoRecord /\ held[m] # NoRecord =>
            \/ held[n].expires <= held[m].started
            \/ held[m].expires <= held[n].started

\* scanTasks of node n would pass its lease.valid test now.
MayClaim(n) == pc[n] = "scan" /\ Valid(n)

Synchronised == \A n, m \in Node : Skew[n] = Skew[m]

\* With synchronised clocks at most one node is past scanTasks' lease.valid
\* test: "Only the lease holder reaches this scan".
NoSplitScan ==
    Synchronised =>
        \A n, m \in Node : MayClaim(n) /\ MayClaim(m) => n = m

Unexpired == lock # NoRecord /\ \A n \in Node : Time(n) < lock.expires

Untouched ==
    /\ Owns(lock', lock.owner)
    /\ \A n \in Node : held[n] # NoRecord /\ held[n].owner = lock.owner
                                          /\ pc[n] # "relSwap"
                          => lock'.expires >= lock.expires

\* While a record has not expired on any clock, no step of any node - a late
\* PUT, the release of a former owner, a slow renewal - takes it from its owner,
\* and none but the owner's own release brings its expiry forward: "an expired
\* record remains so release cannot race a new owner".
SuccessorUntouched == [][Unexpired => Untouched]_vars

\* A node whose lease is lost gives it up: keepAlive drains its renewal, the
\* scan ends and release returns, so the goroutine can compete again.
LostLeaseReleased == \A n \in Node : lost[n] ~> held[n] = NoRecord
=============================================================================
