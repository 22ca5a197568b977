----------------------------- MODULE StreamPool -----------------------------
(***************************************************************************)
(* The pool of MIME ingestion workers and its clients: calls of            *)
(* storeMailStream submit one task each, receive the message while a       *)
(* worker ingests it, and wait for the worker's result; shutdown closes    *)
(* the pool under them.  main.go: streamTaskPool (newStreamTaskPool,       *)
(* Submit, Close) and storeMailStream.                                     *)
(*                                                                         *)
(* Reception and ingestion of one message are one step each here, with the *)
(* contract that BlockPipeline checks: the parser sees the end of the      *)
(* message only after receive has returned without error, and a failure    *)
(* on either side cancels the call.  p.mu is Go's RWMutex: a waiting       *)
(* writer admits no new reader.                                            *)
(***************************************************************************)
EXTENDS Naturals, Sequences, FiniteSets

CONSTANTS
    Call,    \* calls of storeMailStream
    Worker,  \* the pool's goroutines; the channel's capacity is their number
    None     \* no call

ASSUME WorkerAssumption == IsFiniteSet(Worker) /\ Worker # {}
ASSUME NoneAssumption   == None \notin Call

VARIABLES
    open,      \* the pool's context is live
    readers,   \* calls that hold p.mu for reading
    closed,    \* p.closed, and with it the channel of jobs
    jobs,      \* the channel of jobs
    closer,    \* where Close is
    pc,        \* call -> where it is
    live,      \* call -> its context is live
    started,   \* calls whose `started' channel is closed
    received,  \* calls whose `received' channel is closed
    whole,     \* calls whose receive returned without error
    answers,   \* call -> results sent on its `done' channel
    stored,    \* calls that committed
    wpc,       \* worker -> where it is
    job,       \* worker -> the call it serves
    result     \* call -> the result of its task

poolVars   == <<open, readers, closed, jobs, closer>>
callVars   == <<pc, live, started, received, whole, stored>>
workerVars == <<answers, wpc, job, result>>
vars       == <<poolVars, callVars, workerVars>>

\* The context the worker derives: the call's, ended with the pool's.
Dead(c) == ~live[c] \/ ~open

Init ==
    /\ open = TRUE /\ readers = {} /\ closed = FALSE /\ jobs = <<>>
    /\ closer   = "idle"
    /\ pc       = [c \in Call |-> "idle"]
    /\ live     = [c \in Call |-> TRUE]
    /\ started  = {}
    /\ received = {}
    /\ whole    = {}
    /\ stored   = {}
    /\ answers  = [c \in Call |-> 0]
    /\ wpc      = [w \in Worker |-> "idle"]
    /\ job      = [w \in Worker |-> None]
    /\ result   = [c \in Call |-> "none"]

-----------------------------------------------------------------------------
\* A call of storeMailStream.

\* Its context is tied to the pool's (context.AfterFunc).
Begin(c) ==
    /\ pc[c] = "idle"
    /\ pc' = [pc EXCEPT ![c] = "rlock"]
    /\ UNCHANGED <<poolVars, live, started, received, whole, stored,
                   workerVars>>

\* The deferred cancel ends the call's context.
Return(c) ==
    /\ pc'   = [pc EXCEPT ![c] = "end"]
    /\ live' = [live EXCEPT ![c] = FALSE]

SubmitLock(c) ==
    /\ pc[c] = "rlock"
    /\ closer # "lock"
    /\ IF closed
       THEN Return(c) /\ UNCHANGED readers
       ELSE /\ pc'      = [pc EXCEPT ![c] = "submit"]
            /\ readers' = readers \cup {c}
            /\ UNCHANGED live
    /\ UNCHANGED <<open, closed, jobs, closer, started, received, whole,
                   stored, workerVars>>

SubmitCancelled(c) ==
    /\ pc[c] = "submit"
    /\ Dead(c)
    /\ Return(c)
    /\ readers' = readers \ {c}
    /\ UNCHANGED <<open, closed, jobs, closer, started, received, whole,
                   stored, workerVars>>

\* make(chan streamTask, workers)
Capacity == Cardinality(Worker)

Enqueue(c) ==
    /\ pc[c] = "submit"
    /\ Len(jobs) < Capacity
    /\ jobs'    = Append(jobs, c)
    /\ readers' = readers \ {c}
    /\ pc'      = [pc EXCEPT ![c] = "admit"]
    /\ UNCHANGED <<open, closed, closer, live, started, received, whole,
                   stored, workerVars>>

Admitted(c) ==
    /\ pc[c] = "admit"
    /\ c \in started
    /\ pc' = [pc EXCEPT ![c] = "receive"]
    /\ UNCHANGED <<poolVars, live, started, received, whole, stored,
                   workerVars>>

\* Cancelled before it was admitted, or just after: a worker that starts it
\* all the same must not wait for a reception that will not happen.
Mutant_NotReceived(c) == received
NothingReceived(c) == received \cup {c}

AdmitCancelled(c) ==
    /\ pc[c] = "admit"
    /\ ~live[c]
    /\ received' = NothingReceived(c)
    /\ pc'       = [pc EXCEPT ![c] = "await"]
    /\ UNCHANGED <<poolVars, live, started, whole, stored, workerVars>>

\* receive returns: with the whole message, or with an error that cancels.
ReceiveEnds(c) ==
    /\ pc[c] = "receive"
    /\ \/ whole' = whole \cup {c} /\ UNCHANGED live
       \/ live' = [live EXCEPT ![c] = FALSE] /\ UNCHANGED whole
    /\ received' = received \cup {c}
    /\ pc'       = [pc EXCEPT ![c] = "await"]
    /\ UNCHANGED <<poolVars, started, stored, workerVars>>

\* parseErr, then readErr; the message is committed if both are nil.
Await(c) ==
    /\ pc[c] = "await"
    /\ answers[c] > 0
    /\ Return(c)
    /\ stored' = IF result[c] = "ok" /\ c \in whole THEN stored \cup {c}
                                                    ELSE stored
    /\ UNCHANGED <<poolVars, started, received, whole, workerVars>>

\* The client goes away.
Cancel(c) ==
    /\ pc[c] \notin {"idle", "end"}
    /\ live[c]
    /\ live' = [live EXCEPT ![c] = FALSE]
    /\ UNCHANGED <<poolVars, pc, started, received, whole, stored, workerVars>>

\* The AfterFunc of the pool's context runs.
PoolCancels(c) == ~open /\ Cancel(c)

-----------------------------------------------------------------------------
\* A worker.

WorkerTake(w) ==
    /\ wpc[w] = "idle"
    /\ jobs # <<>>
    /\ job'  = [job EXCEPT ![w] = Head(jobs)]
    /\ jobs' = Tail(jobs)
    /\ wpc'  = [wpc EXCEPT ![w] = "check"]
    /\ UNCHANGED <<open, readers, closed, closer, callVars, answers, result>>

Mutant_LeaveOnCancel == ~open
Drained == closed /\ jobs = <<>>

WorkerExit(w) ==
    /\ wpc[w] = "idle"
    /\ Drained
    /\ wpc' = [wpc EXCEPT ![w] = "exit"]
    /\ UNCHANGED <<poolVars, callVars, answers, job, result>>

\* A task whose context is over is answered without being run.
WorkerCheck(w) ==
    /\ wpc[w] = "check"
    /\ LET c == job[w] IN
       IF Dead(c)
       THEN /\ result' = [result EXCEPT ![c] = "canceled"]
            /\ wpc'    = [wpc EXCEPT ![w] = "send"]
            /\ UNCHANGED started
       ELSE /\ started' = started \cup {c}
            /\ wpc'     = [wpc EXCEPT ![w] = "ingest"]
            /\ UNCHANGED result
    /\ UNCHANGED <<poolVars, pc, live, received, whole, stored, answers, job>>

Ingested(w, r) ==
    /\ wpc[w] = "ingest"
    /\ result' = [result EXCEPT ![job[w]] = r]
    /\ live'   = [live EXCEPT ![job[w]] = @ /\ r = "ok"]
    /\ wpc'    = [wpc EXCEPT ![w] = "hold"]
    /\ UNCHANGED <<poolVars, pc, started, received, whole, stored, answers,
                   job>>

\* The parser reaches the end of the message, or the error that ended it, or
\* notices that its context is over.
IngestEnds(w) ==
    \/ job[w] \in whole /\ Ingested(w, "ok")
    \/ /\ job[w] # None
       /\ Dead(job[w])
       /\ Ingested(w, "failed")

\* Parsing, or the storage of a part, fails by itself.
IngestFails(w) == Ingested(w, "failed")

\* defer func() { <-received }()
HelpersGone(c) == c \in received

WorkerHold(w) ==
    /\ wpc[w] = "hold"
    /\ HelpersGone(job[w])
    /\ wpc' = [wpc EXCEPT ![w] = "send"]
    /\ UNCHANGED <<poolVars, callVars, answers, job, result>>

\* `done' has room for the one result.
WorkerSend(w) ==
    /\ wpc[w] = "send"
    /\ answers' = [answers EXCEPT ![job[w]] = @ + 1]
    /\ wpc'     = [wpc EXCEPT ![w] = "idle"]
    /\ job'     = [job EXCEPT ![w] = None]
    /\ UNCHANGED <<poolVars, callVars, result>>

-----------------------------------------------------------------------------
\* Close: cancel first, so that no submitter keeps the lock.

CloseCancel ==
    /\ closer = "idle"
    /\ open'   = FALSE
    /\ closer' = "lock"
    /\ UNCHANGED <<readers, closed, jobs, callVars, workerVars>>

Mutant_NoLock == TRUE
LockFree == readers = {}

CloseJobs ==
    /\ closer = "lock"
    /\ LockFree
    /\ closed' = TRUE
    /\ closer' = "wait"
    /\ UNCHANGED <<open, readers, jobs, callVars, workerVars>>

CloseDone ==
    /\ closer = "wait"
    /\ \A w \in Worker : wpc[w] = "exit"
    /\ closer' = "done"
    /\ UNCHANGED <<open, readers, closed, jobs, callVars, workerVars>>

-----------------------------------------------------------------------------
CallStep(c) ==
    \/ SubmitLock(c) \/ SubmitCancelled(c) \/ Enqueue(c) \/ Admitted(c)
    \/ AdmitCancelled(c) \/ ReceiveEnds(c) \/ Await(c)
WorkerStep(w) ==
    \/ WorkerTake(w) \/ WorkerExit(w) \/ WorkerCheck(w) \/ IngestEnds(w)
    \/ WorkerHold(w) \/ WorkerSend(w)
CloseStep == CloseJobs \/ CloseDone

Next ==
    \/ \E c \in Call : Begin(c) \/ CallStep(c) \/ Cancel(c)
    \/ \E w \in Worker : WorkerStep(w) \/ IngestFails(w)
    \/ CloseCancel
    \/ CloseStep

Spec == Init /\ [][Next]_vars

\* Goroutines run and a reception ends by the client's deadline.  Clients
\* need not come or go, parsers need not fail, the pool need not be closed.
FairSpec ==
    /\ Spec
    /\ \A c \in Call : WF_vars(CallStep(c)) /\ WF_vars(PoolCancels(c))
    /\ \A w \in Worker : WF_vars(WorkerStep(w))
    /\ WF_vars(CloseStep)

-----------------------------------------------------------------------------
(* Properties *)

\* The types of all variables; at most one result is sent for a task, as its
\* channel has room for one and the worker would block on a second.
TypeOK ==
    /\ {open, closed} \subseteq BOOLEAN
    /\ readers \subseteq Call
    /\ jobs \in Seq(Call) /\ Len(jobs) <= Cardinality(Worker)
    /\ closer \in {"idle", "lock", "wait", "done"}
    /\ pc \in [Call -> {"idle", "rlock", "submit", "admit", "receive",
                        "await", "end"}]
    /\ live \in [Call -> BOOLEAN]
    /\ started \subseteq Call /\ received \subseteq Call
    /\ whole \subseteq received /\ stored \subseteq whole
    /\ answers \in [Call -> 0..1]
    /\ wpc \in [Worker -> {"idle", "check", "ingest", "hold", "send", "exit"}]
    /\ job \in [Worker -> Call \cup {None}]
    /\ result \in [Call -> {"none", "canceled", "ok", "failed"}]

\* No call is in the select that sends a job when the channel of jobs is
\* closed: the send would panic and take the process down.
NoSendOnClosed == closed => \A c \in Call : pc[c] # "submit"

\* "Hold admission until both auxiliary consumers exit" (main.go:6950): a
\* message is received, with its three blocks and its helper goroutines, only
\* while a worker stands for it, so that there are never more than workers.
HelpersHeld ==
    \A c \in Call : pc[c] = "receive" => \E w \in Worker : job[w] = c

\* Every call returns, and so does Close, whatever the order of admission,
\* cancellation and shutdown (main_test.go:2458 tests one order).
CallsReturn == \A c \in Call : pc[c] = "rlock" ~> pc[c] = "end"
CloseEnds   == closer = "lock" ~> closer = "done"
=============================================================================
