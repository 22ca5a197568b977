---------------------------- MODULE GuardedStore ----------------------------
(***************************************************************************)
(* The guard between the protocol handlers and the bucket: every request   *)
(* runs under a read lock, a stream or an upload keeps its read lock until *)
(* it is closed, committed or aborted, and shutdown takes the write lock   *)
(* to drain them all and forbid new ones.  main.go: guardedStore,          *)
(* guardedReader, guardedUpload and the end of run.                        *)
(*                                                                         *)
(* A handler is a goroutine that the closing of its listener does not wait *)
(* for (web.Close and smtp.Server.Close only close connections).  The lock *)
(* is Go's RWMutex, whose documentation excludes recursive read locking:   *)
(* a waiting writer admits no new reader.  Nested says whether a handler   *)
(* may make a request while it keeps a stream open, as findPart does       *)
(* (main.go:6029) under the stream that materializePart opened             *)
(* (main.go:5721).  g.lease is never set and is left out.                  *)
(***************************************************************************)
EXTENDS Integers, FiniteSets

CONSTANTS
    Handler,  \* goroutines that use the store
    Handle,   \* streams and uploads one handler refers to at a time
    Nested    \* a handler with an open handle may make requests

ASSUME HandlerAssumption == IsFiniteSet(Handler) /\ IsFiniteSet(Handle)
ASSUME NestedAssumption  == Nested \in BOOLEAN

VARIABLES
    readers,  \* the RWMutex's count of readers
    closer,   \* "idle", "wait" for the write lock, "closed"
    op,       \* handler -> "none", "rlock" or "base": the request under way
    want,     \* handler -> the handle its request opens, "call" for none
    handle    \* handler -> handle -> "none", "open" or "closed"

guardVars == <<readers, closer, op, want, handle>>

Open(h) == {x \in Handle : handle[h][x] = "open"}

GuardInit ==
    /\ readers = 0
    /\ closer  = "idle"
    /\ op      = [h \in Handler |-> "none"]
    /\ want    = [h \in Handler |-> "call"]
    /\ handle  = [h \in Handler |-> [x \in Handle |-> "none"]]

-----------------------------------------------------------------------------
\* Get, Put, Create, Delete, List, GetVersion, Swap and CopyStream want
\* nothing but the call; OpenStream and NewUpload want a handle.
Request(h) ==
    /\ op[h] = "none"
    /\ Nested \/ Open(h) = {}
    /\ op' = [op EXCEPT ![h] = "rlock"]
    /\ \E x \in (Handle \ Open(h)) \cup {"call"} : want' = [want EXCEPT ![h] = x]
    /\ UNCHANGED <<readers, closer, handle>>

\* g.mu.RLock, and the test of g.closed under it.
Closed == closer = "closed"

RLock(h) ==
    /\ op[h] = "rlock"
    /\ closer # "wait"
    /\ IF Closed
       THEN op' = [op EXCEPT ![h] = "none"] /\ UNCHANGED readers
       ELSE op' = [op EXCEPT ![h] = "base"] /\ readers' = readers + 1
    /\ UNCHANGED <<closer, want, handle>>

\* A request that failed, or wanted no handle, gives up its read lock.
Mutant_KeepOnError(h) == IF want[h] = "call" THEN 1 ELSE 0
Unlocks(h) == 1

\* The bucket answers.  A handle that was opened keeps the lock.
BaseEnds(h) ==
    /\ op[h] = "base"
    /\ op' = [op EXCEPT ![h] = "none"]
    /\ \/ readers' = readers - Unlocks(h) /\ UNCHANGED handle
       \/ /\ want[h] # "call"
          /\ handle' = [handle EXCEPT ![h][want[h]] = "open"]
          /\ UNCHANGED readers
    /\ UNCHANGED <<closer, want>>

\* once.Do(release)
Once(state) == IF state = "open" THEN 1 ELSE 0

\* Close of a stream, Commit (when it succeeds) or Abort of an upload; an
\* Abort deferred behind a Commit, or a second Close, finds it closed.
CloseHandle(h, x) ==
    /\ op[h] = "none"
    /\ handle[h][x] # "none"
    /\ readers' = readers - Once(handle[h][x])
    /\ handle'  = [handle EXCEPT ![h][x] = "closed"]
    /\ UNCHANGED <<closer, op, want>>

\* guardedStore.close, run's last deferred call.
CloseStart ==
    /\ closer = "idle"
    /\ closer' = "wait"
    /\ UNCHANGED <<readers, op, want, handle>>

CloseLocked ==
    /\ closer = "wait"
    /\ readers = 0
    /\ closer' = "closed"
    /\ UNCHANGED <<readers, op, want, handle>>

-----------------------------------------------------------------------------
RequestStep(h) == RLock(h) \/ BaseEnds(h)
ClosesOne(h)   == \E x \in Open(h) : CloseHandle(h, x)

GuardNext ==
    \/ \E h \in Handler :
         \/ Request(h)
         \/ RequestStep(h)
         \/ \E x \in Handle : CloseHandle(h, x)
    \/ CloseStart
    \/ CloseLocked

GuardSpec == GuardInit /\ [][GuardNext]_guardVars

\* Requests to the bucket end by their timeouts, the lock serves who waits
\* for it, and a handler closes what it has opened, however many requests it
\* makes before.
GuardFairSpec ==
    /\ GuardSpec
    /\ WF_guardVars(CloseLocked)
    /\ \A h \in Handler : WF_guardVars(RequestStep(h)) /\ SF_guardVars(ClosesOne(h))

-----------------------------------------------------------------------------
(* Properties *)

\* The types of all variables.
GuardTypeOK ==
    /\ readers \in 0..(Cardinality(Handler) * (Cardinality(Handle) + 1))
    /\ closer \in {"idle", "wait", "closed"}
    /\ op \in [Handler -> {"none", "rlock", "base"}]
    /\ want \in [Handler -> Handle \cup {"call"}]
    /\ handle \in [Handler -> [Handle -> {"none", "open", "closed"}]]

\* "Drain storage calls and forbid new ones" (main.go:451): when close has
\* returned, no request is at the bucket and no stream or upload is open.
Drained ==
    closer = "closed" => \A h \in Handler : op[h] # "base" /\ Open(h) = {}

\* The lock counts exactly the requests at the bucket and the open handles:
\* no path releases twice (which panics) or keeps a lock (which hangs close).
LocksBalanced ==
    readers = Cardinality({h \in Handler : op[h] = "base"})
                + Cardinality({p \in Handler \X Handle : p[2] \in Open(p[1])})

\* close returns, so that the process ends.
CloseEnds == closer = "wait" ~> closer = "closed"
=============================================================================
