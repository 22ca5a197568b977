--------------------------- MODULE QueueScheduler ---------------------------
(***************************************************************************)
(* The queue scheduler of one node: serveQueue follows the listing of the  *)
(* domains and runs one loop per domain; a loop takes its domain's scanner *)
(* lease, claims tasks and starts a worker for each, all loops sharing one *)
(* channel of slots.  main.go: serveQueue, serveDomainQueue, scanTasks,    *)
(* domainNamespaces.                                                       *)
(*                                                                         *)
(* Of a lease only what ScannerLease establishes is kept: it may be        *)
(* refused, it may end at any time, and two loops never hold one domain's  *)
(* at once.  Of a task only its claim is kept: a claim may be refused, and *)
(* its worker ends at the latest with the claim's 20 seconds.  Keys of a   *)
(* listing are counted.                                                    *)
(***************************************************************************)
EXTENDS Integers, FiniteSets, FiniteSetsExt, SequencesExt

CONSTANTS
    Domain,   \* namespaces that may be listed
    Cap,      \* maxClaimedTasks: slots, and claims of one scan
    MaxKeys,  \* bound: keys in one listing
    MaxLoops  \* bound: loops started

ASSUME DomainAssumption == IsFiniteSet(Domain)
ASSUME BoundAssumption  == Cap \in Nat \ {0} /\ {MaxKeys, MaxLoops} \subseteq Nat

\* The goroutines of serveDomainQueue, in the order of their start.
Loop == 1..MaxLoops

VARIABLES
    live,     \* the context of serveQueue
    main,     \* serveQueue: "serve", "drain" or "end"
    active,   \* the domains of its map
    name,     \* the domains of the loops started, in that order
    slots,    \* length of the channel of slots
    ctx,      \* loop -> its context is live
    at,       \* loop -> where it is
    lease,    \* loop -> it has a lease
    valid,    \* loop -> the lease is valid
    left,     \* loop -> keys of the listing still to be tried
    claimed,  \* loop -> claims of this scan
    workers   \* loop -> its workers

mainVars  == <<live, main, active, name>>
queueVars == <<mainVars, slots, ctx, at, lease, valid, left, claimed, workers>>

QueueInit ==
    /\ live = TRUE /\ main = "serve" /\ active = {} /\ slots = 0
    /\ name    = <<>>
    /\ ctx     = [l \in Loop |-> FALSE]
    /\ at      = [l \in Loop |-> "none"]
    /\ lease   = [l \in Loop |-> FALSE]
    /\ valid   = [l \in Loop |-> FALSE]
    /\ left    = [l \in Loop |-> 0]
    /\ claimed = [l \in Loop |-> 0]
    /\ workers = [l \in Loop |-> 0]

-----------------------------------------------------------------------------
\* serveQueue

Started == 1..Len(name)

\* The context of an old loop, after a tick that listed `domains'.
Mutant_NoStop(l, domains) == ctx[l]
Kept(l, domains) == ctx[l] /\ name[l] \in domains

\* One tick: loops of vanished domains are stopped, new domains get one.
Discover ==
    /\ main = "serve"
    /\ \E domains \in SUBSET Domain :
         LET new == Len(name) + 1..Len(name) + Cardinality(domains \ active)
         IN  /\ new \subseteq Loop
             /\ active' = domains
             /\ name'   = name \o SetToSeq(domains \ active)
             /\ ctx'    = [l \in Loop |->
                             \/ l \in new /\ live
                             \/ l \in Started /\ Kept(l, domains)]
             /\ at'     = [l \in Loop |-> IF l \in new THEN "top" ELSE at[l]]
    /\ UNCHANGED <<live, main, slots, lease, valid, left, claimed, workers>>

\* Shutdown.
Cancel ==
    /\ live
    /\ live' = FALSE
    /\ ctx'  = [l \in Loop |-> FALSE]
    /\ UNCHANGED <<main, active, name, slots, at, lease, valid, left, claimed,
                   workers>>

\* The context is over, or the listing failed: return cancels the loops.
StopServing ==
    /\ main = "serve"
    /\ main' = "drain"
    /\ ctx'  = [l \in Loop |-> FALSE]
    /\ UNCHANGED <<live, active, name, slots, at, lease, valid, left, claimed,
                   workers>>

Return ==
    /\ main = "drain"
    /\ \A l \in Started : at[l] = "end"
    /\ main' = "end"
    /\ UNCHANGED <<live, active, name, slots, ctx, at, lease, valid, left,
                   claimed, workers>>

-----------------------------------------------------------------------------
\* serveDomainQueue and scanTasks, for one loop.

Goto(l, where) == at' = [at EXCEPT ![l] = where]

\* The end of a pass: the lease is given up on a full scan or an error, and
\* the variables of scanTasks are gone.
EndScan(l, full) ==
    /\ Goto(l, "top")
    /\ lease'   = [lease EXCEPT ![l] = @ /\ ~full]
    /\ left'    = [left EXCEPT ![l] = 0]
    /\ claimed' = [claimed EXCEPT ![l] = 0]
    /\ valid'   = [valid EXCEPT ![l] = @ /\ ~full]

\* A round of the loop begins: at its start, or when the ticker or the end of
\* the context ends the wait after the last one.
Top(l) ==
    /\ at[l] = "top"
    /\ IF ctx[l]
       THEN /\ lease' = [lease EXCEPT ![l] = @ /\ valid[l]]
            /\ Goto(l, "lock")
       ELSE Goto(l, "defer") /\ UNCHANGED lease
    /\ UNCHANGED <<mainVars, slots, ctx, valid, left, claimed, workers>>

Lock(l) ==
    /\ at[l] = "lock"
    /\ \/ /\ ~lease[l] /\ slots < Cap
          /\ ~\E m \in Started : name[m] = name[l] /\ lease[m] /\ valid[m]
          /\ lease' = [lease EXCEPT ![l] = TRUE]
          /\ valid' = [valid EXCEPT ![l] = TRUE]
          /\ Goto(l, "list")
       \/ lease[l] /\ Goto(l, "list") /\ UNCHANGED <<lease, valid>>
       \/ ~lease[l] /\ Goto(l, "top") /\ UNCHANGED <<lease, valid>>
    /\ UNCHANGED <<mainVars, slots, ctx, left, claimed, workers>>

List(l) ==
    /\ at[l] = "list"
    /\ \/ valid[l] /\ \E k \in 0..MaxKeys :
            /\ left' = [left EXCEPT ![l] = k]
            /\ Goto(l, "test")
            /\ UNCHANGED <<lease, valid, claimed>>
       \/ EndScan(l, TRUE)
    /\ UNCHANGED <<mainVars, slots, ctx, workers>>

\* len(slots) == cap(slots) || claimed == maxClaimedTasks
Mutant_BatchOnly(l) == claimed[l] = Cap
Full(l) == slots = Cap \/ claimed[l] = Cap

Stopped(l) == ~ctx[l] \/ ~valid[l]

Test(l) ==
    /\ at[l] = "test"
    /\ IF left[l] = 0 \/ Stopped(l)
       THEN /\ Goto(l, "sweep")
            /\ left' = [left EXCEPT ![l] = 0]
            /\ UNCHANGED <<lease, valid, claimed>>
       ELSE IF Full(l)
       THEN EndScan(l, TRUE)
       ELSE /\ Goto(l, "claim")
            /\ left' = [left EXCEPT ![l] = @ - 1]
            /\ UNCHANGED <<lease, valid, claimed>>
    /\ UNCHANGED <<mainVars, slots, ctx, workers>>

\* preclaimTask: the task is not due, or another node's, or ours.
Claim(l) ==
    /\ at[l] = "claim"
    /\ \/ Goto(l, "test") /\ UNCHANGED claimed
       \/ Goto(l, "slot") /\ claimed' = [claimed EXCEPT ![l] = @ + 1]
    /\ UNCHANGED <<mainVars, slots, ctx, lease, valid, left, workers>>

\* slots <- struct{}{}
Slots == Cap

Start(l) ==
    /\ at[l] = "slot"
    /\ slots < Slots
    /\ slots'   = slots + 1
    /\ workers' = [workers EXCEPT ![l] = @ + 1]
    /\ Goto(l, "test")
    /\ UNCHANGED <<mainVars, ctx, lease, valid, left, claimed>>

\* Cancelled while it waits for a slot: the claim is left to expire.
Abandon(l) ==
    /\ at[l] = "slot"
    /\ ~ctx[l]
    /\ EndScan(l, TRUE)
    /\ UNCHANGED <<mainVars, slots, ctx, workers>>

\* scanJMAPTasks: submissions are sent here and now, without a slot.
Sweep(l) ==
    /\ at[l] = "sweep"
    /\ \/ \E sent \in 0..Max({0, Min({Cap - claimed[l], Cap - slots})}) :
            EndScan(l, claimed[l] + sent = Cap \/ slots = Cap)
       \/ EndScan(l, TRUE)
    /\ UNCHANGED <<mainVars, slots, ctx, workers>>

\* The deferred function: release the lease, then wait for the workers.
Defer(l) ==
    /\ at[l] = "defer"
    /\ lease' = [lease EXCEPT ![l] = FALSE]
    /\ valid' = [valid EXCEPT ![l] = FALSE]
    /\ Goto(l, "drain")
    /\ UNCHANGED <<mainVars, slots, ctx, left, claimed, workers>>

Mutant_NoWait(l) == TRUE
NoWorkers(l) == workers[l] = 0

End(l) ==
    /\ at[l] = "drain"
    /\ NoWorkers(l)
    /\ Goto(l, "end")
    /\ UNCHANGED <<mainVars, slots, ctx, lease, valid, left, claimed, workers>>

\* A worker ends: done, failed, expired or cancelled.
WorkerEnds(l) ==
    /\ workers[l] > 0
    /\ workers' = [workers EXCEPT ![l] = @ - 1]
    /\ slots'   = slots - 1
    /\ UNCHANGED <<mainVars, ctx, at, lease, valid, left, claimed>>

\* The keeper or the clock ends the lease.
LeaseEnds(l) ==
    /\ lease[l] /\ valid[l]
    /\ valid' = [valid EXCEPT ![l] = FALSE]
    /\ UNCHANGED <<mainVars, slots, ctx, at, lease, left, claimed, workers>>

-----------------------------------------------------------------------------
LoopStep(l) ==
    \/ Top(l) \/ Lock(l) \/ List(l) \/ Test(l) \/ Claim(l) \/ Start(l)
    \/ Abandon(l) \/ Sweep(l) \/ Defer(l) \/ End(l)

QueueNext ==
    \/ Discover \/ Cancel \/ StopServing \/ Return
    \/ \E l \in Loop : LoopStep(l) \/ WorkerEnds(l) \/ LeaseEnds(l)

QueueSpec == QueueInit /\ [][QueueNext]_queueVars

\* Goroutines run, requests and claims end by their timeouts, and serveQueue
\* notices that its context is over.
FairQueueSpec ==
    /\ QueueSpec
    /\ WF_queueVars(~live /\ StopServing) /\ WF_queueVars(Return)
    /\ \A l \in Loop : WF_queueVars(LoopStep(l)) /\ WF_queueVars(WorkerEnds(l))

-----------------------------------------------------------------------------
(* Properties *)

\* The workers of all loops.
Running == UNION {{l} \X (1..workers[l]) : l \in Loop}

\* The claims the node holds: one per worker, and one per loop that has
\* claimed a task and waits for a slot.
Held == Cardinality(Running) + Cardinality({l \in Loop : at[l] = "slot"})

Loops == {l \in Loop : at[l] \notin {"none", "end"}}

\* The types of all variables; a slot for every worker.
QueueTypeOK ==
    /\ live \in BOOLEAN /\ main \in {"serve", "drain", "end"}
    /\ active \subseteq Domain
    /\ name \in Seq(Domain) /\ Len(name) <= MaxLoops
    /\ slots \in 0..Cap
    /\ slots = Cardinality(Running)
    /\ ctx \in [Loop -> BOOLEAN]
    /\ at \in [Loop -> {"none", "top", "lock", "list", "test", "claim", "slot",
                        "sweep", "defer", "drain", "end"}]
    /\ lease \in [Loop -> BOOLEAN] /\ valid \in [Loop -> BOOLEAN]
    /\ left \in [Loop -> 0..MaxKeys]
    /\ claimed \in [Loop -> 0..Cap]
    /\ workers \in [Loop -> 0..Cap]

\* When serveQueue has returned, so that run goes on to the flush and to the
\* closing of the store, no worker of any loop runs, no lease is kept and no
\* slot is taken, in whatever state shutdown found the loops.
NothingLeftRunning ==
    main = "end" =>
        /\ slots = 0
        /\ \A l \in Loop : workers[l] = 0 /\ ~lease[l]

\* The node overshoots its limit by at most one claim for every other loop:
\* a claim is never taken while no slot was free at its test.  README.md:118
\* says that "A node holds at most 1024 active tasks", which is the bound for
\* one loop; Held <= Cap does not hold for two.
Overshoot == Held <= Cap + Max({0, Cardinality(Loops) - 1})

\* A loop whose domain has vanished, or that shutdown cancels, always ends.
LoopsEnd ==
    \A l \in Loop :
        (l \in Started /\ (name[l] \notin active \/ ~live)) ~> at[l] = "end"
=============================================================================
