---------------------------- MODULE StreamUpload ----------------------------
(***************************************************************************)
(* Uploads of blobs: a writer that keeps small content in a probe and      *)
(* compresses larger content into an S3 upload, whose parts are sent by    *)
(* goroutines while more is received, and the requests that publish it.    *)
(* main.go: jmapBlobWriter, s3StreamUpload, putObjectReference.            *)
(*                                                                         *)
(* The part buffers are those of WaitPool (s3BufferPool): the goroutine    *)
(* <<u, k>> is upload u with the k-th of its slots.  Each upload is begun  *)
(* by a handler of its own under the lock of GuardedStore, which it keeps  *)
(* until Commit succeeds or Abort returns.  Every step here is a step of   *)
(* each of them, or leaves its variables alone.                            *)
(*                                                                         *)
(* A request to S3 is applied once or never, when it is answered or later: *)
(* an error says nothing.  S3 honours conditions on PutObject and need not *)
(* honour them on CompleteMultipartUpload (main.go:6353).  Names carry a   *)
(* timestamp, and two uploads may get the same.  Content is counted in     *)
(* part buffers.  A process that crashes is one that takes no more steps.  *)
(***************************************************************************)
EXTENDS Integers, WaitPool, GuardedStore

CONSTANTS
    Slot,      \* w.slots: the part buffers an upload may hold at a time
    Other,     \* goroutines that borrow part buffers for other uploads
    Name,      \* names of physical objects
    None,
    MaxParts   \* bound: the full buffers of a content

ASSUME SlotAssumption  == Slot \subseteq Nat \ {0} /\ MaxParts \in Nat
ASSUME ShapeAssumption ==
    /\ Proc = (Handler \X Slot) \cup Other /\ Handle # {}
    /\ \A u \in Handler, k \in Slot : <<u, k>> \notin Other
    /\ None \notin Name \cup [by : Handler, part : {"none", "some", "all"}]

VARIABLES
    up,      \* upload -> its state
    object,  \* name -> None, or who wrote it and how much of its content
    index,   \* uploads whose index object exists
    open,    \* multipart uploads that S3 keeps open
    late     \* unanswered publishing requests that S3 may still apply

uploadVars == <<up, object, index, open, late>>
vars == <<uploadVars, poolVars, guardVars>>

\* What the goroutine of an upload is doing, whether within Commit, its name,
\* the slot of the buffer it fills, whether it has a multipart upload, its
\* number of parts, those that S3 has, slot -> the part sent from it,
\* partErr, physicalComplete, and whether it holds a probe and a compressor.
Fresh == [pc |-> "idle", closing |-> FALSE, name |-> None, buf |-> 0,
          multi |-> FALSE, parts |-> 0, sent |-> {}, job |-> [k \in Slot |-> 0],
          err |-> FALSE, whole |-> FALSE, probe |-> FALSE, gzip |-> FALSE]

\* The states of an upload: the last part may be one more than MaxParts.
Upload ==
    [pc : {"idle", "begin", "gzip", "open", "fill", "flush", "last", "commit",
           "flushLast", "wait", "put", "complete", "index", "close", "failed",
           "abort", "dissolve", "delete", "end", "done", "aborted"},
     closing : BOOLEAN, name : Name \cup {None}, buf : Slot \cup {0},
     multi : BOOLEAN, parts : 0..(MaxParts + 1), sent : SUBSET (1..(MaxParts + 1)),
     job : [Slot -> 0..(MaxParts + 1)], err : BOOLEAN, whole : BOOLEAN,
     probe : BOOLEAN, gzip : BOOLEAN]

Set(u, x)   == up' = [up EXCEPT ![u] = x]
To(u, step) == Set(u, [up[u] EXCEPT !.pc = step])
Calls(u)    == {u} \X Slot
Live(u)     == \A p \in Calls(u) : live[p]
TheHandle   == CHOOSE x \in Handle : TRUE

\* Commit succeeded or Abort returned: what is left of the state.
Finish(u, step) ==
    Set(u, [Fresh EXCEPT !.pc = step, !.name = up[u].name, !.buf = up[u].buf,
                         !.probe = up[u].probe, !.gzip = up[u].gzip])

S3Kept      == UNCHANGED <<object, index, open, late>>

-----------------------------------------------------------------------------
(* jmapBlobWriter, up to its upload. *)

\* Write, below the threshold.
WriteSmall(u) ==
    /\ up[u].pc = "idle" /\ ~up[u].probe
    /\ \/ Live(u) /\ Set(u, [up[u] EXCEPT !.probe = TRUE])
       \/ ~Live(u) /\ To(u, "failed")
    /\ S3Kept /\ UNCHANGED <<poolVars, guardVars>>

\* startUpload, from the Write that goes over the threshold or from Commit.
StartUpload(u) ==
    /\ up[u].pc = "idle" /\ handle[u][TheHandle] = "none"
    /\ Request(u) /\ want'[u] = TheHandle
    /\ \E closing \in BOOLEAN, n \in Name :
         Set(u, [up[u] EXCEPT !.pc = "begin", !.closing = closing, !.name = n])
    /\ S3Kept /\ UNCHANGED poolVars

\* guardedStore.NewUpload
StartLocked(u) ==
    /\ up[u].pc = "begin"
    /\ RLock(u)
    /\ IF op'[u] = "none" THEN To(u, "failed") ELSE UNCHANGED up
    /\ S3Kept /\ UNCHANGED poolVars

\* s3Bucket.NewUpload reserves the name.
Mutant_Overwrite(u) == TRUE
NameFree(u) == object[up[u].name] = None

NewUpload(u) ==
    /\ up[u].pc = "begin"
    /\ BaseEnds(u)
    /\ \/ /\ NameFree(u)
          /\ object' = [object EXCEPT ![up[u].name] = [by |-> u, part |-> "none"]]
       \/ UNCHANGED object /\ handle'[u][TheHandle] # "open"
    /\ To(u, IF handle'[u][TheHandle] # "open" THEN "failed"
             ELSE IF up[u].closing THEN "last" ELSE "gzip")
    /\ UNCHANGED <<index, open, late, poolVars>>

\* The compressor, which takes over what the probe holds.
Compress(u) ==
    /\ up[u].pc = "gzip"
    /\ \/ Live(u) /\ Set(u, [up[u] EXCEPT !.pc = "open", !.gzip = TRUE, !.probe = FALSE])
       \/ ~Live(u) /\ To(u, "failed")
    /\ S3Kept /\ UNCHANGED <<poolVars, guardVars>>

-----------------------------------------------------------------------------
(* s3StreamUpload.Write and flush. *)

\* The caller writes more, commits, or goes on to Abort.
Write(u) ==
    /\ up[u].pc = "open" /\ up[u].parts < MaxParts
    /\ To(u, IF Live(u) THEN "fill" ELSE "failed")
    /\ S3Kept /\ UNCHANGED <<poolVars, guardVars>>

CommitBlob(u) ==
    /\ up[u].pc = "open"
    /\ Set(u, [up[u] EXCEPT !.pc = "last", !.closing = TRUE])
    /\ S3Kept /\ UNCHANGED <<poolVars, guardVars>>

\* gzip.Close, or the probe, may have a last piece to write.
LastPiece(u) ==
    /\ up[u].pc = "last"
    /\ \E more \in BOOLEAN :
         Set(u, [up[u] EXCEPT !.pc = IF more THEN "fill" ELSE "commit",
                              !.gzip = FALSE, !.probe = FALSE])
    /\ S3Kept /\ UNCHANGED <<poolVars, guardVars>>

Filling(u) == up[u].pc = "fill" /\ up[u].buf = 0

\* A slot, and a buffer from the pool.
AskBuffer(u) ==
    /\ Filling(u)
    /\ \/ \E k \in Slot :
            /\ pc[<<u, k>>] = "out" /\ \A i \in 1..(k - 1) : pc[<<u, i>>] # "out"
            /\ Get(<<u, k>>)
            /\ Set(u, [up[u] EXCEPT !.buf = k])
       \/ ~Live(u) /\ To(u, "failed") /\ UNCHANGED poolVars
    /\ S3Kept /\ UNCHANGED guardVars

\* The buffer fills up, or the caller has no more for now; the last piece may
\* do either.
FillBuffer(u) ==
    LET x == up[u]
    IN  /\ x.pc = "fill" /\ x.buf # 0
        /\ \/ /\ pc[<<u, x.buf>>] = "in"
              /\ \E full \in BOOLEAN :
                   To(u, IF full /\ x.parts < MaxParts THEN "flush"
                         ELSE IF x.closing THEN "commit" ELSE "open")
           \/ /\ pc[<<u, x.buf>>] = "gone"
              /\ Set(u, [x EXCEPT !.pc = "failed", !.buf = 0])
        /\ S3Kept /\ UNCHANGED <<poolVars, guardVars>>

\* flush: CreateMultipartUpload for the first part, then a goroutine that
\* owns the buffer.
Flush(u) ==
    LET x == up[u]
    IN  /\ x.pc \in {"flush", "flushLast"}
        /\ \/ /\ x.multi \/ Live(u)
              /\ Set(u, [x EXCEPT !.multi = TRUE, !.parts = @ + 1, !.buf = 0,
                                  !.job[x.buf] = x.parts + 1,
                                  !.pc = IF x.pc = "flushLast" THEN "wait"
                                         ELSE IF x.closing THEN "commit" ELSE "open"])
              /\ open' = IF x.multi THEN open ELSE open \cup {u}
           \/ ~x.multi /\ To(u, "failed") /\ UNCHANGED open
        /\ UNCHANGED <<object, index, late, poolVars, guardVars>>

\* The goroutine of a part: UploadPart, whose failure cancels the upload.
UploadPart(u, k) ==
    LET x == up[u]
    IN  /\ x.job[k] # 0
        /\ \/ /\ u \in open
              /\ Set(u, [x EXCEPT !.sent = @ \cup {x.job[k]}, !.job[k] = 0])
              /\ UNCHANGED poolVars
           \/ Set(u, [x EXCEPT !.err = TRUE, !.job[k] = 0]) /\ Cancel(Calls(u))
        /\ S3Kept /\ UNCHANGED guardVars

\* releaseBuffer, and Done.
Owned(u) == {k \in Slot : pc[<<u, k>>] = "in" /\ k # up[u].buf}

PartDone(u, k) ==
    /\ k \in Owned(u) /\ up[u].job[k] = 0
    /\ Put(<<u, k>>)
    /\ UNCHANGED <<uploadVars, guardVars>>

\* workers.Wait
WorkersDone(u) == Owned(u) = {}

Mutant_KeepBuffer(u) == FALSE
HasBuffer(u) == up[u].buf # 0

-----------------------------------------------------------------------------
(* s3StreamUpload.Commit *)

HasTail(u) == up[u].buf # 0

Commit(u) ==
    /\ up[u].pc = "commit"
    /\ To(u, IF ~Live(u) THEN "failed"
             ELSE IF ~up[u].multi THEN "put"
             ELSE IF HasTail(u) THEN "flushLast" ELSE "wait")
    /\ S3Kept /\ UNCHANGED <<poolVars, guardVars>>

WorkersWaited(u) ==
    /\ up[u].pc = "wait" /\ WorkersDone(u)
    /\ To(u, IF ~up[u].err THEN "complete" ELSE "failed")
    /\ S3Kept /\ UNCHANGED <<poolVars, guardVars>>

\* A publishing request: it writes all of the content, or less.
Publishing(u) ==
    [by |-> u, name |-> up[u].name, multi |-> up[u].multi,
     part |-> IF ~up[u].multi \/ (up[u].sent = 1..up[u].parts /\ ~HasBuffer(u))
              THEN "all" ELSE "some"]

Applied(r) ==
    /\ IF r.multi THEN r.by \in open
                  ELSE object[r.name] = [by |-> r.by, part |-> "none"]
    /\ object' = [object EXCEPT ![r.name] = [by |-> r.by, part |-> r.part]]
    /\ open'   = open \ {r.by}

\* PutObject of a content in one buffer, or CompleteMultipartUpload: applied
\* and answered; applied, or to be applied later, without an answer; refused.
PublishObject(u) ==
    /\ up[u].pc \in {"put", "complete"}
    /\ \/ Applied(Publishing(u)) /\ UNCHANGED late
          /\ \/ Live(u) /\ Set(u, [up[u] EXCEPT !.pc = "index", !.whole = TRUE])
             \/ To(u, "failed")
       \/ /\ late' = late \cup {Publishing(u)}
          /\ To(u, "failed") /\ UNCHANGED <<object, open>>
    /\ UNCHANGED <<index, poolVars, guardVars>>

LateApply(r) ==
    /\ late' = late \ {r}
    /\ Applied(r) \/ UNCHANGED <<object, open>>
    /\ UNCHANGED <<up, index, poolVars, guardVars>>

\* putObjectReference
PublishIndex(u) ==
    /\ up[u].pc = "index"
    /\ \/ index' = index \cup {u} /\ Live(u)
          /\ Set(u, [up[u] EXCEPT !.pc = "close"]) /\ Cancel(Calls(u))
       \/ index' \in {index, index \cup {u}}
          /\ To(u, "failed") /\ UNCHANGED poolVars
    /\ UNCHANGED <<object, open, late, guardVars>>

\* The buffer that was not flushed; then guardedUpload releases the lock.
ReleaseBuffer(u) ==
    /\ up[u].pc \in {"close", "abort"} /\ WorkersDone(u) /\ HasBuffer(u)
    /\ \E k \in Slot : k = up[u].buf /\ Put(<<u, k>>)
    /\ Set(u, [up[u] EXCEPT !.buf = 0])
    /\ S3Kept /\ UNCHANGED guardVars

CommitDone(u) ==
    /\ up[u].pc = "close" /\ WorkersDone(u) /\ ~HasBuffer(u)
    /\ CloseHandle(u, TheHandle)
    /\ Finish(u, "done")
    /\ S3Kept /\ UNCHANGED poolVars

-----------------------------------------------------------------------------
(* Abort, of the writer and of its upload. *)

GivenBack(u) == [up[u] EXCEPT !.probe = FALSE, !.gzip = FALSE]

Abort(u) ==
    /\ up[u].pc \in {"idle", "open", "failed"} /\ op[u] = "none"
    /\ Set(u, [GivenBack(u) EXCEPT !.pc = IF handle[u][TheHandle] = "open" THEN "abort"
                                        ELSE "aborted"])
    /\ Cancel(Calls(u))
    /\ S3Kept /\ UNCHANGED guardVars

\* Once the object is complete it is kept, for its index may exist.
Kept(u) == up[u].whole

AbortWaited(u) ==
    /\ up[u].pc = "abort" /\ WorkersDone(u) /\ ~HasBuffer(u)
    /\ To(u, IF Kept(u) THEN "end" ELSE IF up[u].multi THEN "dissolve" ELSE "delete")
    /\ S3Kept /\ UNCHANGED <<poolVars, guardVars>>

\* AbortMultipartUpload: a multipart upload that has been completed is not
\* found; after any other error the name is kept.
AfterError(step) == step

Dissolve(u) ==
    /\ up[u].pc = "dissolve"
    /\ \/ open' = open \ {u} /\ To(u, "delete")
       \/ open' \in {open, open \ {u}} /\ To(u, AfterError("end"))
    /\ UNCHANGED <<object, index, late, poolVars, guardVars>>

DeleteName(u) ==
    /\ up[u].pc = "delete"
    /\ \/ object' = [object EXCEPT ![up[u].name] = None]
       \/ UNCHANGED object
    /\ To(u, "end")
    /\ UNCHANGED <<index, open, late, poolVars, guardVars>>

AbortDone(u) ==
    /\ up[u].pc = "end"
    /\ CloseHandle(u, TheHandle)
    /\ Finish(u, "aborted")
    /\ S3Kept /\ UNCHANGED poolVars

\* The deferred Abort behind a Commit finds both finished.
AbortAgain(u) ==
    /\ up[u].pc = "done"
    /\ CloseHandle(u, TheHandle)
    /\ UNCHANGED <<uploadVars, poolVars>>

-----------------------------------------------------------------------------
\* The context of a request ends when its client goes away; run closes all
\* connections before it closes the store.
ContextEnds(u) ==
    /\ Live(u) /\ up[u].pc \notin {"done", "aborted"}
    /\ Cancel(Calls(u))
    /\ UNCHANGED <<uploadVars, guardVars>>

OtherStep(p) ==
    /\ Get(p) \/ Put(p)
    /\ UNCHANGED <<uploadVars, guardVars>>

PoolStep(p) ==
    /\ Woken(p) \/ StartAfterFunc(p) \/ Broadcast(p)
    /\ UNCHANGED <<uploadVars, guardVars>>

Shutdown == (CloseStart \/ CloseLocked) /\ UNCHANGED <<uploadVars, poolVars>>

Init ==
    /\ PoolInit /\ GuardInit
    /\ up     = [u \in Handler |-> Fresh]
    /\ object = [n \in Name |-> None]
    /\ index  = {} /\ open = {} /\ late = {}

\* What the server does once its caller has called.
Server(u) ==
    \/ StartLocked(u) \/ NewUpload(u) \/ Compress(u)
    \/ LastPiece(u) \/ AskBuffer(u) \/ FillBuffer(u) \/ Flush(u)
    \/ Commit(u) \/ WorkersWaited(u) \/ PublishObject(u) \/ PublishIndex(u)
    \/ ReleaseBuffer(u) \/ CommitDone(u)
    \/ AbortWaited(u) \/ Dissolve(u) \/ DeleteName(u) \/ AbortDone(u)
PartStep(u) == \E k \in Slot : UploadPart(u, k) \/ PartDone(u, k)

Next ==
    \/ \E u \in Handler :
         \/ Server(u) \/ PartStep(u)
         \/ WriteSmall(u) \/ StartUpload(u) \/ Write(u) \/ CommitBlob(u)
         \/ Abort(u) \/ AbortAgain(u) \/ ContextEnds(u)
    \/ \E r \in late : LateApply(r)
    \/ \E p \in Other : OtherStep(p)
    \/ \E p \in Proc : PoolStep(p)
    \/ Shutdown

Spec == Init /\ [][Next]_vars

\* Steps that nobody's caller decides on; they cannot go on for ever, so that
\* one fairness condition serves them all.
Background ==
    \/ \E u \in Handler : PartStep(u) \/ (ContextEnds(u) /\ closer # "idle")
    \/ Shutdown /\ closer = "wait"

\* Goroutines run, requests end by their timeouts, a handler whose context is
\* over stops writing and aborts, as it does after an error, and shutdown
\* ends the contexts of all handlers.  Other borrowers need not return.
FairSpec ==
    /\ Spec /\ WF_vars(Background) /\ WF_vars(\E p \in Proc : PoolStep(p))
    /\ \A u \in Handler :
         WF_vars(Server(u) \/ (Abort(u) /\ (up[u].pc = "failed" \/ ~Live(u))))

-----------------------------------------------------------------------------
(* Properties *)

\* The types of the variables that WaitPool and GuardedStore do not have.
TypeOK ==
    /\ up \in [Handler -> Upload]
    /\ \A u \in Handler :
         up[u].sent \subseteq 1..up[u].parts /\ up[u].job \in [Slot -> 0..up[u].parts]
    /\ object \in [Name -> {None} \cup [by : Handler, part : {"none", "some", "all"}]]
    /\ index \subseteq Handler /\ open \subseteq Handler
    /\ late \subseteq [by : Handler, name : Name, multi : BOOLEAN, part : {"some", "all"}]

\* An index names an object with the whole content of its upload, from the
\* moment it may exist and for good: no failure, lost or late answer, nor
\* another upload that got the same name, leaves it with less, with someone
\* else's content or with nothing.
IndexWhole ==
    \A u \in index : object[up[u].name] = [by |-> u, part |-> "all"]

\* When Commit has succeeded or Abort has returned, nothing is borrowed any
\* more, however the upload went.
NothingKept ==
    \A u \in Handler : up[u].pc \in {"done", "aborted"} =>
        /\ ~up[u].probe /\ ~up[u].gzip
        /\ \A p \in Calls(u) : pc[p] \in {"out", "gone"}
        /\ handle[u][TheHandle] # "open"

\* Shutdown ends: whatever uploads wait for - a slot, a buffer that nobody
\* returns, their parts, the lock - they give up and release the lock.
ShutdownEnds == closer = "wait" ~> closer = "closed"
=============================================================================
