---------------------------- MODULE OutboundTask ----------------------------
(***************************************************************************)
(* One outbound task: the object <domain>/.outbox/<id>.json, which holds   *)
(* the state of every remote recipient and the claim of whoever executes   *)
(* it, and the workers that claim and execute it.  main.go: preclaimTask,  *)
(* claimedTask.save, execute and process.                                  *)
(*                                                                         *)
(* A worker is one call of preclaimTask and the goroutine that executes    *)
(* the claim; nothing makes a node wait for its older workers, and every   *)
(* node may scan at any time, so the scanner lease is not relied upon.     *)
(* One action is one S3 request, one SMTP transaction step or one delivery *)
(* to a local mailbox.  An S3 ETag is the hash of the stored bytes, and a  *)
(* claim names its worker and its instant, so the content read stands for  *)
(* its ETag.  Workers that stop half way (crash, shutdown, a failed        *)
(* request) forget everything: only the object survives.                   *)
(***************************************************************************)
EXTENDS Integers, FiniteSets, FiniteSetsExt

CONSTANTS
    Worker,      \* goroutines that may claim the task
    N,           \* number of remote recipients
    ClaimTTL,    \* preclaimTimeout
    RetryDelay,  \* config.QueueRetry
    MaxDelay,    \* the one-hour limit of the backoff
    GiveUp,      \* 72 hours
    Clocks,      \* how the clocks of the workers' nodes may be set at first
    MaxClock,    \* bound: last instant explored, on the slowest clock
    MaxClaim,    \* bound: claims of one worker
    MaxLate,     \* bound: PUTs in flight after their client gave up
    NoTask,      \* "no such object"
    NoClaim      \* job.Preclaim = nil

ASSUME NAssumption     == N \in Nat \ {0}
ASSUME TimesAssumption == /\ ClaimTTL \in Nat \ {0}
                          /\ {RetryDelay, MaxDelay, GiveUp} \subseteq Nat
ASSUME ClocksAssumption == Clocks \subseteq [Worker -> Int]

Rcpt      == 1..N
Claim     == [id : Worker \X Nat, expires : Int]
Recipient == [state : {"pending", "delivered", "failed"}, attempts : Nat,
              next : Int]
Job       == [rcpt : [Rcpt -> Recipient], archived : BOOLEAN,
              notified : BOOLEAN, complete : BOOLEAN,
              preclaim : Claim \cup {NoClaim}]
Put       == [old : Job, new : Job]

ASSUME NoTaskAssumption  == NoTask \notin Job
ASSUME NoLedgerAssumption ==
         NoTask \notin [Rcpt -> {"pending", "delivered", "failed"}]
ASSUME NoClaimAssumption == NoClaim \notin Claim

VARIABLES
    clock,     \* worker -> the clock of its node
    task,      \* the stored object
    late,      \* conditional PUTs the server may still apply
    pc,        \* where each worker is; "swap" and "read" are within save
    saving,    \* what the current or last save completes
    job,       \* claimedTask.job
    etag,      \* claimedTask.etag: the content it stands for
    expires,   \* claimedTask.expires
    i,         \* the recipient process is at
    ok,        \* the remote server accepted the message in this attempt
    claims,    \* number of claims tried
    accepted,  \* recipients some remote server accepted the message for
    reported,  \* recipients whose failure the sender was told
    archived   \* the sender's Sent folder has a copy

storeVars  == <<task, late>>
workerVars == <<pc, saving, job, etag, expires, i, ok, claims>>
worldVars  == <<accepted, reported, archived>>
vars       == <<clock, storeVars, workerVars, worldVars>>

\* A save is named for the step of preclaimTask or process that it completes.
Saves == {"claim", "archive", "send", "notify", "finish"}
PC    == {"idle", "swap", "read", "start", "loop", "sending", "settle",
          "finish", "delete"}

Time(w) == clock[w]

\* ctx.Err() = nil and time.Now().Before(c.expires)
Live(w) == Time(w) < expires[w]

Pending(j) == \E r \in Rcpt : j.rcpt[r].state = "pending"
Failed(j)  == {r \in Rcpt : j.rcpt[r].state = "failed"}

Due(rcpt, t) == rcpt.state = "pending" /\ rcpt.next <= t

\* config.QueueRetry * 2^min(attempts-1, 6), at most one hour.
Backoff(attempts) == Min({RetryDelay * 2^Min({attempts - 1, 6}), MaxDelay})

\* An unexpired claim does not count.
Mutant_UnclaimedAlways(j, t) == TRUE
Unclaimed(j, t) == j.preclaim # NoClaim => j.preclaim.expires <= t

\* preclaimTask: archive first, or a recipient is due, or nobody is pending.
Claimable(j, t) ==
    /\ Unclaimed(j, t)
    /\ j.archived /\ Pending(j) => \E r \in Rcpt : Due(j.rcpt[r], t)

Init ==
    /\ clock \in Clocks
    /\ \E a \in BOOLEAN :
         /\ task = [rcpt |-> [r \in Rcpt |-> [state |-> "pending",
                                              attempts |-> 0, next |-> 0]],
                    archived |-> a, notified |-> FALSE, complete |-> FALSE,
                    preclaim |-> NoClaim]
         /\ archived = a
    /\ late     = {}
    /\ pc       = [w \in Worker |-> "idle"]
    /\ saving   = [w \in Worker |-> "claim"]
    /\ job      = [w \in Worker |-> NoTask]
    /\ etag     = [w \in Worker |-> NoTask]
    /\ expires  = [w \in Worker |-> 0]
    /\ i        = [w \in Worker |-> 0]
    /\ ok       = [w \in Worker |-> FALSE]
    /\ claims   = [w \in Worker |-> 0]
    /\ accepted = {}
    /\ reported = {}

-----------------------------------------------------------------------------
\* The worker is gone, with the claim it held in memory.
Forget(w) ==
    /\ pc'      = [pc EXCEPT ![w] = "idle"]
    /\ saving'  = [saving EXCEPT ![w] = "claim"]
    /\ job'     = [job EXCEPT ![w] = NoTask]
    /\ etag'    = [etag EXCEPT ![w] = NoTask]
    /\ expires' = [expires EXCEPT ![w] = 0]
    /\ i'       = [i EXCEPT ![w] = 0]
    /\ ok'      = [ok EXCEPT ![w] = FALSE]
    /\ UNCHANGED claims

\* claimedTask.save begins: the context and the expiry are tested once.
Save(w, step, j) ==
    IF Live(w)
    THEN /\ pc'     = [pc EXCEPT ![w] = "swap"]
         /\ saving' = [saving EXCEPT ![w] = step]
         /\ job'    = [job EXCEPT ![w] = j]
         /\ ok'     = [ok EXCEPT ![w] = FALSE]
         /\ UNCHANGED <<etag, expires, i, claims>>
    ELSE Forget(w)

\* The ETag of the claim ignored: an unconditional PUT.
Mutant_Overwrite(old) == task # NoTask
Matches(old) == task = old

SaveSwap(w) ==
    /\ pc[w] = "swap"
    /\ \/ /\ Matches(etag[w])
          /\ task' = job[w]
          /\ pc'   = [pc EXCEPT ![w] = "read"]
          /\ UNCHANGED <<late, saving, job, etag, expires, i, ok, claims>>
       \/ /\ UNCHANGED task
          /\ \/ UNCHANGED late
             \/ /\ Cardinality(late) < MaxLate
                /\ late' = late \cup {[old |-> etag[w], new |-> job[w]]}
          /\ Forget(w)
    /\ UNCHANGED <<clock, worldVars>>

\* What follows each save.
After(w) ==
    CASE saving[w] = "claim"   -> "start"
      [] saving[w] = "archive" -> "loop"
      [] saving[w] = "send"    -> "loop"
      [] saving[w] = "notify"  -> "finish"
      [] saving[w] = "finish"  -> "delete"

\* The read back adopts the ETag only if the object is the one just written.
SaveRead(w) ==
    /\ pc[w] = "read"
    /\ \/ /\ task = job[w]
          /\ saving[w] = "finish" => job[w].complete
          /\ pc'   = [pc EXCEPT ![w] = After(w)]
          /\ etag' = [etag EXCEPT ![w] = task]
          /\ i'    = [i EXCEPT ![w] = IF saving[w] = "send" THEN @ + 1 ELSE @]
          /\ UNCHANGED <<saving, job, expires, ok, claims>>
       \/ Forget(w)   \* another content, a failed GET, or nothing left to do
    /\ UNCHANGED <<clock, storeVars, worldVars>>

\* The server applies a PUT whose client no longer waits for the reply.
LateApply(p) ==
    /\ late' = late \ {p}
    /\ task' = IF Matches(p.old) THEN p.new ELSE task
    /\ UNCHANGED <<clock, workerVars, worldVars>>

-----------------------------------------------------------------------------
(***************************************************************************)
(* preclaimTask                                                            *)
(***************************************************************************)
Preclaim(w) ==
    /\ pc[w] = "idle" /\ task # NoTask /\ ~task.complete
    /\ claims[w] < MaxClaim
    /\ Claimable(task, Time(w))
    /\ LET claim == [id |-> <<w, claims[w]>>, expires |-> Time(w) + ClaimTTL]
       IN  /\ job'     = [job EXCEPT ![w] = [task EXCEPT !.preclaim = claim]]
           /\ expires' = [expires EXCEPT ![w] = claim.expires]
    /\ pc'     = [pc EXCEPT ![w] = "swap"]
    /\ saving' = [saving EXCEPT ![w] = "claim"]
    /\ etag'   = [etag EXCEPT ![w] = task]
    /\ i'      = [i EXCEPT ![w] = 1]
    /\ claims' = [claims EXCEPT ![w] = @ + 1]
    /\ UNCHANGED <<clock, storeVars, ok, worldVars>>

\* Cleanup left to the worker whose claim the completed task still carries.
Mutant_CleanupOfClaimed(w) ==
    /\ pc[w] = "idle" /\ task # NoTask /\ task.complete
    /\ task.preclaim # NoClaim
    /\ pc' = [pc EXCEPT ![w] = "delete"]
    /\ UNCHANGED <<clock, storeVars, saving, job, etag, expires, i, ok, claims,
                   worldVars>>

\* A completed task is only deleted, whatever claim it carries.
PreclaimComplete(w) ==
    /\ pc[w] = "idle" /\ task # NoTask /\ task.complete
    /\ pc' = [pc EXCEPT ![w] = "delete"]
    /\ UNCHANGED <<clock, storeVars, saving, job, etag, expires, i, ok, claims,
                   worldVars>>

-----------------------------------------------------------------------------
(***************************************************************************)
(* process                                                                 *)
(***************************************************************************)
\* saveSent or deliverMailStream, neither of which looks at the expiry.
Archive(w) ==
    /\ pc[w] = "start" /\ ~job[w].archived
    /\ \/ /\ archived' = TRUE
          /\ Save(w, "archive", [job[w] EXCEPT !.archived = TRUE])
       \/ /\ archived' \in {archived, TRUE}   \* failed, or seemed to fail
          /\ Forget(w)
    /\ UNCHANGED <<clock, storeVars, accepted, reported>>

Start(w) ==
    /\ pc[w] = "start" /\ job[w].archived
    /\ pc' = [pc EXCEPT ![w] = "loop"]
    /\ UNCHANGED <<clock, storeVars, saving, job, etag, expires, i, ok, claims,
                   worldVars>>

\* A recipient is sent to whatever its recorded state.
Mutant_AllEligible(j, r, t) == j.rcpt[r].next <= t
Eligible(j, r, t) == Due(j.rcpt[r], t)

\* The recipient to send to next; with an expired context sendRemote fails
\* before it connects and process returns.
SendStart(w) ==
    /\ pc[w] = "loop"
    /\ \E r \in i[w]..N :
          /\ Eligible(job[w], r, Time(w))
          /\ \A s \in i[w]..(r - 1) : ~Eligible(job[w], s, Time(w))
          /\ IF Live(w)
             THEN /\ pc' = [pc EXCEPT ![w] = "sending"]
                  /\ i'  = [i EXCEPT ![w] = r]
                  /\ UNCHANGED <<saving, job, etag, expires, ok, claims>>
             ELSE Forget(w)
    /\ UNCHANGED <<clock, storeVars, worldVars>>

\* The remote server accepts; its reply may still be lost.
RemoteAccept(w) ==
    /\ pc[w] = "sending" /\ ~ok[w]
    /\ ok'       = [ok EXCEPT ![w] = TRUE]
    /\ accepted' = accepted \cup {i[w]}
    /\ UNCHANGED <<clock, storeVars, pc, saving, job, etag, expires, i, claims,
                   reported, archived>>

\* Every reply but a refusal taken for an acceptance.
Mutant_Optimistic(rcpt, result, t) ==
    [rcpt EXCEPT !.attempts = @ + 1,
                 !.state = IF result = "refused" THEN "failed" ELSE "delivered"]

\* The bookkeeping of one attempt that ended with `result' at time t.
Attempt(rcpt, result, t) ==
    LET failed == result = "refused" \/ t >= GiveUp
    IN  IF result = "accepted"
        THEN [rcpt EXCEPT !.attempts = @ + 1, !.state = "delivered"]
        ELSE [rcpt EXCEPT !.attempts = @ + 1,
                          !.state    = IF failed THEN "failed" ELSE @,
                          !.next     = t + Backoff(rcpt.attempts + 1)]

\* An expired context ends process without a trace in the task.
SendResult(w) ==
    /\ pc[w] = "sending"
    /\ \E result \in {"accepted", "temporary", "refused"} :
          /\ result = "accepted" => ok[w]
          /\ result = "refused" => ~ok[w]
          /\ Save(w, "send",
                  [job[w] EXCEPT !.rcpt[i[w]] = Attempt(@, result, Time(w))])
    /\ UNCHANGED <<clock, storeVars, worldVars>>

SendLoopEnd(w) ==
    /\ pc[w] = "loop"
    /\ \A r \in i[w]..N : ~Eligible(job[w], r, Time(w))
    /\ pc' = [pc EXCEPT ![w] = IF Pending(job[w]) \/ job[w].notified
                               THEN "finish" ELSE "settle"]
    /\ UNCHANGED <<clock, storeVars, saving, job, etag, expires, i, ok, claims,
                   worldVars>>

\* One notice (or proxy report) for all failures; it may be stored, and seem
\* to have failed, and then be sent again by the next worker.
Notify(w) ==
    /\ pc[w] = "settle"
    /\ \/ /\ reported' = reported \cup Failed(job[w])
          /\ Save(w, "notify", [job[w] EXCEPT !.notified = TRUE])
       \/ /\ reported' \in {reported, reported \cup Failed(job[w])}
          /\ Forget(w)
    /\ UNCHANGED <<clock, storeVars, accepted, archived>>

Finished(j) == [j EXCEPT !.preclaim = NoClaim,
                         !.complete = @ \/ ~Pending(j)]

Finish(w) ==
    /\ pc[w] = "finish"
    /\ Save(w, "finish", Finished(job[w]))
    /\ UNCHANGED <<clock, storeVars, worldVars>>

Delete(w) ==
    /\ pc[w] = "delete"
    /\ task' = NoTask
    /\ Forget(w)
    /\ UNCHANGED <<clock, late, worldVars>>

-----------------------------------------------------------------------------
\* The process crashes, its context is cancelled, or a DELETE fails.
Stop(w) ==
    /\ pc[w] # "idle"
    /\ Forget(w)
    /\ UNCHANGED <<clock, storeVars, worldVars>>

\* Clocks may be apart; they go at one rate.
Advance ==
    /\ \E w \in Worker : clock[w] < MaxClock
    /\ clock' = [w \in Worker |-> clock[w] + 1]
    /\ UNCHANGED <<storeVars, workerVars, worldVars>>

Work(w) ==
    \/ Preclaim(w) \/ PreclaimComplete(w)
    \/ SaveSwap(w) \/ SaveRead(w)
    \/ Start(w) \/ Archive(w) \/ SendStart(w) \/ RemoteAccept(w)
    \/ SendResult(w) \/ SendLoopEnd(w) \/ Notify(w) \/ Finish(w) \/ Delete(w)

Next ==
    \/ Advance
    \/ \E p \in late : LateApply(p)
    \/ \E w \in Worker : Work(w) \/ Stop(w)

Spec == Init /\ [][Next]_vars

\* Goroutines run, requests and SMTP transactions end within their deadlines,
\* nodes go on scanning, and S3 does not refuse a repeated DELETE for ever.
Fairness == \A w \in Worker : WF_vars(Work(w)) /\ SF_vars(Delete(w))

FairSpec == Spec /\ Fairness

-----------------------------------------------------------------------------
(***************************************************************************)
(* Properties.                                                             *)
(***************************************************************************)

\* Every variable keeps its type; in particular a worker that is executing has
\* a whole job, the content it last stored and a recipient of that job.
TypeOK ==
    /\ clock    \in [Worker -> Int]
    /\ task     \in Job \cup {NoTask}
    /\ late     \in SUBSET Put
    /\ pc       \in [Worker -> PC]
    /\ saving   \in [Worker -> Saves]
    /\ job      \in [Worker -> Job \cup {NoTask}]
    /\ etag     \in [Worker -> Job \cup {NoTask}]
    /\ expires  \in [Worker -> Int]
    /\ i        \in [Worker -> 0..(N + 1)]
    /\ ok       \in [Worker -> BOOLEAN]
    /\ claims   \in [Worker -> Nat]
    /\ accepted \subseteq Rcpt
    /\ reported \subseteq Rcpt
    /\ archived \in BOOLEAN

Synchronised == \A v, w \in Worker : clock[v] = clock[w]

\* A worker that has its claim confirmed, has not given it back and whose
\* context is alive.
Executing(w) ==
    /\ \/ pc[w] \in {"start", "loop", "sending", "settle", "finish"}
       \/ pc[w] = "swap" /\ saving[w] # "claim"
       \/ pc[w] = "read" /\ saving[w] \notin {"claim", "finish"}
    /\ Live(w)

\* With synchronised clocks no two workers execute a task at the same time:
\* the first one's context ends no later than its claim does.
OneExecutor ==
    Synchronised => \A v, w \in Worker : Executing(v) /\ Executing(w) => v = w

\* "Confirmed recipients are skipped on retries" and a completed task is never
\* sent again: with synchronised clocks an SMTP transaction is opened only for
\* a recipient that the stored task has pending.
OnlyPendingSent ==
    [][ Synchronised =>
          \A w \in Worker :
             pc[w] # "sending" /\ pc'[w] = "sending" =>
                 task # NoTask /\ task.rcpt[i'[w]].state = "pending" ]_vars

\* "An old worker cannot overwrite a successor": whatever the clocks and the
\* late PUTs, no step undoes a recorded outcome, attempt, archive or notice.
ProgressKept ==
    [][ task # NoTask /\ task' # NoTask =>
          /\ task.archived => task'.archived
          /\ task.notified => task'.notified
          /\ task.complete => task' = task
          /\ \A r \in Rcpt :
                /\ task.rcpt[r].attempts <= task'.rcpt[r].attempts
                /\ task.rcpt[r].state # "pending" =>
                       task'.rcpt[r] = task.rcpt[r] ]_vars

\* The task implements the ledger its sender may rely on.
Ledger == INSTANCE OutboundDelivery WITH
              Gone   <- NoTask,
              ledger <- IF task = NoTask THEN NoTask
                        ELSE [r \in Rcpt |-> task.rcpt[r].state]

ImplementsDelivery == Ledger!Spec

\* A completed task disappears even if the worker that completed it does not
\* live to delete it: a later scan deletes it.
CompletedRemoved == (task # NoTask /\ task.complete) ~> task = NoTask
=============================================================================
