------------------------- MODULE OutboundTask_proofs -------------------------
(***************************************************************************)
(* Proofs about OutboundTask, for any workers, recipients, clocks and      *)
(* bounds: with synchronised clocks one worker executes and only pending   *)
(* recipients are sent to; whatever the clocks, progress is kept and the   *)
(* task implements the ledger of OutboundDelivery.                         *)
(***************************************************************************)
EXTENDS OutboundTask, TLAPS

USE NAssumption, TimesAssumption, ClocksAssumption, NoTaskAssumption, NoClaimAssumption

-----------------------------------------------------------------------------
(***************************************************************************)
(* The inductive invariant.                                                *)
(***************************************************************************)

\* w has a claim in hand, confirmed or not.
Busy(w) == pc[w] \notin {"idle", "delete"}

\* The last content that w knows to have been stored.
Known(w) == IF pc[w] = "read" THEN job[w] ELSE etag[w]

\* What may become of a stored content, in any number of steps.
Extends(old, new) ==
    /\ old.archived => new.archived
    /\ old.notified => new.notified
    /\ old.complete => new = old
    /\ \A r \in Rcpt :
          /\ old.rcpt[r].attempts <= new.rcpt[r].attempts
          /\ old.rcpt[r].state # "pending" => new.rcpt[r] = old.rcpt[r]

\* What one save may make of it: it settles at most one recipient.
Successor(old, new) ==
    /\ ~old.complete
    /\ Extends(old, new)
    /\ \E r \in Rcpt : \A s \in Rcpt \ {r} : new.rcpt[s].state = old.rcpt[s].state

\* Within save: what is being stored continues what was stored before.
InSave(w) ==
    /\ Successor(etag[w], job[w])
    /\ saving[w] # "finish" => ~job[w].complete
    /\ saving[w] # "claim"  => job[w].archived
    /\ saving[w] = "send"   => i[w] \in Rcpt
    /\ saving[w] = "notify" => job[w].notified

\* Where a worker is, and what it holds there.
Control(w) ==
    /\ pc[w] # "sending" => ~ok[w]
    /\ Busy(w) => /\ job[w] \in Job /\ etag[w] \in Job
                  /\ i[w] \in 1..(N + 1)
                  /\ ~etag[w].complete
    /\ pc[w] \in {"start", "loop", "sending", "settle", "finish"} => job[w] = etag[w]
    /\ pc[w] \in {"loop", "sending", "settle", "finish"} => job[w].archived
    /\ pc[w] = "sending" => i[w] \in Rcpt /\ job[w].rcpt[i[w]].state = "pending"
    /\ pc[w] = "settle"  => ~Pending(job[w])
    /\ pc[w] = "finish"  => Pending(job[w]) \/ job[w].notified
    /\ pc[w] \in {"swap", "read"} => InSave(w)

Shape == TypeOK /\ \A w \in Worker : Control(w)

\* What a content records has happened in the world outside.
SoundIn(j, acc, rep, arch) ==
    /\ j.archived => arch
    /\ \A r \in Rcpt : j.rcpt[r].state = "delivered" => r \in acc
    /\ j.notified => ~Pending(j) /\ Failed(j) \subseteq rep
    /\ j.complete => j.notified /\ j.archived

Sound(j) == SoundIn(j, accepted, reported, archived)

\* What w holds is sound, and what it sees accepted is.
Mine(w) ==
    /\ Busy(w) => Sound(job[w]) /\ Sound(etag[w])
    /\ pc[w] = "sending" /\ ok[w] => i[w] \in accepted

Recorded ==
    /\ task # NoTask => Sound(task)
    /\ \A w \in Worker : Mine(w)
    /\ \A p \in late : Sound(p.new) /\ Successor(p.old, p.new)

\* The object never goes back behind what a worker knows, and is only removed
\* when it is complete.
Kept ==
    \A w \in Worker :
        /\ Busy(w) => IF task # NoTask THEN Extends(Known(w), task)
                                       ELSE Failed(Known(w)) \subseteq reported
        /\ pc[w] = "delete" => task = NoTask \/ task.complete

\* The claim of w, which is w's latest.
MyClaim(w) == [id |-> <<w, claims[w] - 1>>, expires |-> expires[w]]

\* A claim that its worker does not hold any more.
Over(c) ==
    c # NoClaim => c.id[2] < claims[c.id[1]] - (IF Busy(c.id[1]) THEN 1 ELSE 0)

\* Who swaps, now or late, does so over a claim of its own or one that was
\* over when it looked; and a worker that executes finds its work untouched.
Claims ==
    /\ \A w \in Worker : Busy(w) =>
          /\ claims[w] >= 1
          /\ IF saving[w] = "claim" /\ pc[w] \in {"swap", "read"}
             THEN Unclaimed(etag[w], Time(w)) ELSE etag[w].preclaim = MyClaim(w)
          /\ pc[w] \in {"swap", "read"} /\ saving[w] # "finish" =>
                job[w].preclaim = MyClaim(w)
    /\ \A p \in late : \/ \E v \in Worker : Unclaimed(p.old, Time(v))
                       \/ p.old.preclaim # NoClaim /\ Over(p.old.preclaim)

Owner ==
    Synchronised => \A w \in Worker : Executing(w) => task = Known(w)

IInv == Shape /\ Recorded /\ Kept /\ Claims /\ Owner
-----------------------------------------------------------------------------
(***************************************************************************)
(* Operators of the model.                                                 *)
(***************************************************************************)

LEMMA BackoffInt ==
  ASSUME NEW n \in Nat
  PROVE  Backoff(n) \in Int
<1>1. ASSUME NEW a \in Int, NEW b \in Int
      PROVE  Min({a, b}) \in {a, b}
  BY <1>1 DEF Min
<1>2. Min({n - 1, 6}) \in Int
  BY <1>1
<1>3. 2^Min({n - 1, 6}) \in Int
  BY <1>2
<1>4. RetryDelay * 2^Min({n - 1, 6}) \in Int
  BY <1>3
<1>5. Min({RetryDelay * 2^Min({n - 1, 6}), MaxDelay}) \in {RetryDelay * 2^Min({n - 1, 6}), MaxDelay}
  BY <1>1, <1>4
<1> QED
  BY <1>4, <1>5 DEF Backoff

\* One attempt keeps what is recorded and settles by acceptance only.
LEMMA AttemptKeeps ==
  ASSUME NEW x \in Recipient, NEW t \in Int,
         NEW result \in {"accepted", "temporary", "refused"}
  PROVE  /\ Attempt(x, result, t) \in Recipient
         /\ Attempt(x, result, t).attempts >= x.attempts
         /\ Attempt(x, result, t).state = "delivered" => 
               result = "accepted" \/ x.state = "delivered"
<1>1. x.attempts \in Nat /\ x.next \in Int
      /\ x.state \in {"pending", "delivered", "failed"}
  BY DEF Recipient
<1>2. Backoff(x.attempts + 1) \in Int
  BY <1>1, BackoffInt
<1> DEFINE tried == [x EXCEPT !.attempts = @ + 1]
<1>3. tried \in Recipient /\ tried.attempts = x.attempts + 1 /\ tried.state = x.state
  BY <1>1 DEF Recipient
<1> HIDE DEF tried
<1>4. ASSUME NEW state \in {x.state, "delivered", "failed"}, NEW next \in Int
      PROVE  /\ [[tried EXCEPT !.state = state] EXCEPT !.next = next] \in Recipient
             /\ [[tried EXCEPT !.state = state] EXCEPT !.next = next].attempts
                  = x.attempts + 1
             /\ [[tried EXCEPT !.state = state] EXCEPT !.next = next].state = state
  <2>1. [tried EXCEPT !.state = state] \in Recipient
    BY <1>1, <1>3 DEF Recipient
  <2> QED
    BY <1>3, <2>1 DEF Recipient
<1>5. PICK state \in {x.state, "delivered", "failed"}, next \in Int :
        /\ Attempt(x, result, t) = [[tried EXCEPT !.state = state] EXCEPT !.next = next]
        /\ state = "delivered" => result = "accepted" \/ x.state = "delivered"
  <2>1. CASE result = "accepted"
    <3>1. Attempt(x, result, t)
            = [[tried EXCEPT !.state = "delivered"] EXCEPT !.next = x.next]
      BY <1>1, <2>1 DEF Attempt, tried, Recipient
    <3> QED
      BY <1>1, <2>1, <3>1
  <2>2. CASE result # "accepted"
    <3> DEFINE state == IF result = "refused" \/ t >= GiveUp THEN "failed" ELSE x.state
               next  == t + Backoff(x.attempts + 1)
    <3>1. Attempt(x, result, t)
            = [[tried EXCEPT !.state = state] EXCEPT !.next = next]
      BY <1>1, <1>2, <2>2 DEF Attempt, tried, Recipient
    <3>2. state \in {x.state, "failed"} /\ next \in Int
      BY <1>2
    <3> QED
      BY <2>2, <3>1, <3>2
  <2> QED
    BY <2>1, <2>2
<1>6. /\ Attempt(x, result, t) \in Recipient
      /\ Attempt(x, result, t).attempts = x.attempts + 1
      /\ Attempt(x, result, t).state = state
  <2>1. /\ [[tried EXCEPT !.state = state] EXCEPT !.next = next] \in Recipient
        /\ [[tried EXCEPT !.state = state] EXCEPT !.next = next].attempts
             = x.attempts + 1
        /\ [[tried EXCEPT !.state = state] EXCEPT !.next = next].state = state
    BY <1>4, Zenon
  <2>2. Attempt(x, result, t) = [[tried EXCEPT !.state = state] EXCEPT !.next = next]
    BY <1>5, Zenon
  <2> QED
    BY <2>1, <2>2, Zenon
<1> QED
  BY <1>1, <1>5, <1>6

LEMMA ExtendsTransitive ==
  ASSUME NEW a \in Job, NEW b \in Job, NEW c \in Job, Extends(a, b), Extends(b, c)
  PROVE  Extends(a, c)
<1>1. \A r \in Rcpt : /\ a.rcpt[r].attempts \in Nat
                      /\ b.rcpt[r].attempts \in Nat
                      /\ c.rcpt[r].attempts \in Nat
  BY DEF Job, Recipient
<1> QED
  BY <1>1 DEF Extends

LEMMA ExtendsReflexive ==
  ASSUME NEW a \in Job
  PROVE  Extends(a, a)
<1>1. \A r \in Rcpt : a.rcpt[r].attempts \in Nat
  BY DEF Job, Recipient
<1> QED
  BY <1>1 DEF Extends

\* Changes of a job that touch no recipient.
LEMMA SuccessorOfFlags ==
  ASSUME NEW a \in Job, NEW b \in Job, ~a.complete, b.rcpt = a.rcpt,
         a.archived => b.archived, a.notified => b.notified
  PROVE  Successor(a, b)
<1>1. \A r \in Rcpt : a.rcpt[r].attempts \in Nat
  BY DEF Job, Recipient
<1>2. \E r \in Rcpt : TRUE
  BY DEF Rcpt
<1> QED
  BY <1>1, <1>2 DEF Successor, Extends

-----------------------------------------------------------------------------
(***************************************************************************)
(* Shape: types, and what a worker holds where.                            *)
(***************************************************************************)

LEMMA TaskInit == Init => task \in Job
<1> SUFFICES ASSUME Init PROVE task \in Job
  OBVIOUS
<1>1. PICK a \in BOOLEAN :
        task = [rcpt |-> [r \in Rcpt |-> [state |-> "pending", attempts |-> 0, next |-> 0]],
                archived |-> a, notified |-> FALSE, complete |-> FALSE,
                preclaim |-> NoClaim]
  BY DEF Init
<1> QED
  BY <1>1 DEF Job, Recipient

LEMMA ShapeInit == Init => Shape
<1> SUFFICES ASSUME Init PROVE Shape
  OBVIOUS
<1>1. task \in Job
  BY TaskInit
<1>2. TypeOK
  BY <1>1 DEF Init, TypeOK, PC, Saves
<1>3. \A w \in Worker : Control(w)
  BY DEF Init, Control, Busy
<1> QED
  BY <1>2, <1>3 DEF Shape

\* A step of a worker leaves what the others hold alone.
LEMMA OthersKept ==
  ASSUME TypeOK, NEW w \in Worker, Work(w) \/ Stop(w), NEW v \in Worker \ {w}
  PROVE  /\ pc'[v] = pc[v] /\ saving'[v] = saving[v] /\ job'[v] = job[v]
         /\ etag'[v] = etag[v] /\ expires'[v] = expires[v] /\ i'[v] = i[v]
         /\ ok'[v] = ok[v] /\ claims'[v] = claims[v]
<1> USE DEF TypeOK
<1>1. CASE Forget(w)
  BY <1>1 DEF Forget
<1>2. ASSUME NEW step \in Saves, NEW j, Save(w, step, j)
      PROVE  /\ pc'[v] = pc[v] /\ saving'[v] = saving[v] /\ job'[v] = job[v]
             /\ etag'[v] = etag[v] /\ expires'[v] = expires[v] /\ i'[v] = i[v]
             /\ ok'[v] = ok[v] /\ claims'[v] = claims[v]
  BY <1>1, <1>2 DEF Save
<1>3. CASE Preclaim(w)
  BY <1>3 DEF Preclaim
<1>4. CASE PreclaimComplete(w) \/ Start(w) \/ SendLoopEnd(w) \/ RemoteAccept(w)
  BY <1>4 DEF PreclaimComplete, Start, SendLoopEnd, RemoteAccept
<1>5. CASE SaveSwap(w)
  BY <1>1, <1>5 DEF SaveSwap
<1>6. CASE SaveRead(w)
  BY <1>1, <1>6 DEF SaveRead
<1>7. CASE Archive(w)
  BY <1>1, <1>2, <1>7 DEF Archive, Saves
<1>8. CASE SendStart(w)
  BY <1>1, <1>8 DEF SendStart
<1>9. CASE SendResult(w)
  BY <1>2, <1>9 DEF SendResult, Saves
<1>10. CASE Notify(w)
  BY <1>1, <1>2, <1>10 DEF Notify, Saves
<1>11. CASE Finish(w) 
  BY <1>2, <1>11 DEF Finish, Saves
<1>12. CASE Delete(w) \/ Stop(w)
  BY <1>1, <1>12 DEF Delete, Stop
<1> QED
  BY <1>3, <1>4, <1>5, <1>6, <1>7, <1>8, <1>9, <1>10, <1>11, <1>12 DEF Work

\* The part of TypeOK that is about workers.
WorkerTypes ==
    /\ pc \in [Worker -> PC] /\ saving \in [Worker -> Saves]
    /\ job \in [Worker -> Job \cup {NoTask}] /\ etag \in [Worker -> Job \cup {NoTask}]
    /\ expires \in [Worker -> Int] /\ i \in [Worker -> 0..(N + 1)]
    /\ ok \in [Worker -> BOOLEAN] /\ claims \in [Worker -> Nat]

LEMMA ForgetShape ==
  ASSUME TypeOK, NEW w \in Worker, Forget(w)
  PROVE  WorkerTypes' /\ Control(w)'
<1>1. WorkerTypes'
  BY DEF Forget, WorkerTypes, TypeOK, PC, Saves
<1>2. pc'[w] = "idle" /\ ok'[w] = FALSE
  BY DEF Forget, TypeOK
<1> QED
  BY <1>1, <1>2 DEF Control, Busy

\* What a worker must bring to a save.
LEMMA SaveShape ==
  ASSUME TypeOK, NEW w \in Worker, Control(w), Busy(w),
         NEW step \in Saves, NEW j \in Job, Save(w, step, j),
         Successor(etag[w], j),
         step # "finish" => ~j.complete,
         step # "claim"  => j.archived,
         step = "send"   => i[w] \in Rcpt,
         step = "notify" => j.notified
  PROVE  WorkerTypes' /\ Control(w)'
<1>1. CASE ~Live(w)
  BY <1>1, ForgetShape DEF Save
<1>2. CASE Live(w)
  <2>0. /\ pc' = [pc EXCEPT ![w] = "swap"] /\ saving' = [saving EXCEPT ![w] = step]
        /\ job' = [job EXCEPT ![w] = j] /\ ok' = [ok EXCEPT ![w] = FALSE]
        /\ UNCHANGED <<etag, expires, i, claims>>
    BY <1>2 DEF Save
  <2>1. WorkerTypes'
    BY <2>0 DEF WorkerTypes, TypeOK, PC
  <2>2. /\ pc'[w] = "swap" /\ saving'[w] = step /\ job'[w] = j /\ ok'[w] = FALSE
        /\ etag'[w] = etag[w] /\ i'[w] = i[w]
    BY <1>2 DEF Save, TypeOK
  <2>3. InSave(w)'
    BY <2>2 DEF InSave, Successor, Extends
  <2> QED
    BY <2>1, <2>2, <2>3 DEF Control, Busy
<1> QED
  BY <1>1, <1>2

LEMMA WorkShape ==
  ASSUME Shape, NEW w \in Worker, Work(w) \/ Stop(w)
  PROVE  TypeOK' /\ Control(w)'
<1> USE DEF Shape
<1>0. TypeOK /\ Control(w)
  OBVIOUS
<1>1. ASSUME WorkerTypes' /\ Control(w)', UNCHANGED clock, task' \in Job \cup {NoTask},
             late' \in SUBSET Put, accepted' \subseteq Rcpt, reported' \subseteq Rcpt,
             archived' \in BOOLEAN
      PROVE  TypeOK' /\ Control(w)'
  BY <1>0, <1>1 DEF TypeOK, WorkerTypes
<1>2. ASSUME UNCHANGED <<clock, storeVars, worldVars>>, WorkerTypes' /\ Control(w)'
      PROVE  TypeOK' /\ Control(w)'
  BY <1>0, <1>2 DEF TypeOK, WorkerTypes, storeVars, worldVars
<1>3. CASE Preclaim(w)
  <2> DEFINE claim == [id |-> <<w, claims[w]>>, expires |-> Time(w) + ClaimTTL]
             j     == [task EXCEPT !.preclaim = claim]
  <2>1. claim \in Claim /\ task \in Job
    BY <1>0, <1>3 DEF Preclaim, TypeOK, Claim, Time
  <2>2. j \in Job /\ j.rcpt = task.rcpt /\ j.archived = task.archived
        /\ j.notified = task.notified /\ j.complete = task.complete
    BY <2>1 DEF Job
  <2>3. Successor(task, j) /\ ~j.complete
    BY <1>3, <2>1, <2>2, SuccessorOfFlags DEF Preclaim
  <2>4. /\ pc'[w] = "swap" /\ saving'[w] = "claim" /\ job'[w] = j /\ etag'[w] = task
        /\ i'[w] = 1 /\ ok'[w] = ok[w] /\ ~ok[w]
    BY <1>0, <1>3 DEF Preclaim, TypeOK, Control
  <2>5. WorkerTypes'
    BY <1>0, <1>3, <2>1, <2>2 DEF Preclaim, WorkerTypes, TypeOK, PC, Saves, Time
  <2>6. InSave(w)'
    BY <2>3, <2>4 DEF InSave, Successor, Extends
  <2>7. Control(w)'
    BY <1>3, <2>1, <2>2, <2>4, <2>6 DEF Control, Busy, Preclaim
  <2> QED
    BY <1>2, <1>3, <2>5, <2>7 DEF Preclaim
<1>4. CASE PreclaimComplete(w)
  <2>1. WorkerTypes' /\ Control(w)'
    BY <1>0, <1>4 DEF PreclaimComplete, WorkerTypes, TypeOK, PC, Control, Busy
  <2> QED
    BY <1>2, <1>4, <2>1 DEF PreclaimComplete
<1>5. CASE SaveSwap(w)
  <2>1. job[w] \in Job /\ etag[w] \in Job /\ InSave(w) /\ Busy(w) /\ pc[w] = "swap"
    BY <1>0, <1>5 DEF SaveSwap, Control, Busy
  <2>2. CASE pc' = [pc EXCEPT ![w] = "read"] /\ task' = job[w]
             /\ UNCHANGED <<late, saving, job, etag, expires, i, ok, claims>>
    <3>1. WorkerTypes' /\ pc'[w] = "read"
      BY <1>0, <2>2 DEF WorkerTypes, TypeOK, PC
    <3>2. InSave(w)'
      BY <2>1, <2>2 DEF InSave, Successor, Extends
    <3>3. Control(w)'
      BY <1>0, <2>1, <2>2, <3>1, <3>2 DEF Control, Busy
    <3> QED
      BY <1>0, <1>1, <1>5, <2>1, <2>2, <3>1, <3>3 DEF SaveSwap, TypeOK, worldVars
  <2>3. CASE Forget(w) /\ UNCHANGED task
             /\ (UNCHANGED late \/ late' = late \cup {[old |-> etag[w], new |-> job[w]]})
    <3>1. late' \in SUBSET Put
      BY <1>0, <2>1, <2>3 DEF TypeOK, Put
    <3> QED
      BY <1>0, <1>1, <1>5, <2>3, <3>1, ForgetShape DEF SaveSwap, TypeOK, worldVars
  <2> QED
    BY <1>5, <2>2, <2>3 DEF SaveSwap
<1>6. CASE SaveRead(w)
  <2>1. job[w] \in Job /\ etag[w] \in Job /\ InSave(w) /\ Busy(w) /\ pc[w] = "read"
        /\ saving[w] \in Saves /\ i[w] \in 1..(N + 1) /\ ~ok[w]
    BY <1>0, <1>6 DEF SaveRead, Control, Busy, TypeOK
  <2>2. CASE /\ task = job[w]
             /\ saving[w] = "finish" => job[w].complete
             /\ pc'   = [pc EXCEPT ![w] = After(w)]
             /\ etag' = [etag EXCEPT ![w] = task]
             /\ i'    = [i EXCEPT ![w] = IF saving[w] = "send" THEN @ + 1 ELSE @]
             /\ UNCHANGED <<saving, job, expires, ok, claims>>
    <3>1. After(w) \in {"start", "loop", "finish", "delete"}
          /\ (After(w) = "start" => saving[w] = "claim")
          /\ (After(w) = "loop" => saving[w] \in {"archive", "send"})
          /\ (After(w) = "finish" => saving[w] = "notify")
          /\ (After(w) # "delete" => saving[w] # "finish")
      BY <2>1 DEF After, Saves
    <3>2. pc'[w] = After(w) /\ etag'[w] = job[w] /\ job'[w] = job[w] /\ ~ok'[w]
          /\ i'[w] \in 1..(N + 1)
      BY <1>0, <2>1, <2>2 DEF TypeOK, InSave, Rcpt
    <3>3. WorkerTypes'
      BY <1>0, <2>1, <2>2, <3>1, <3>2 DEF WorkerTypes, TypeOK, PC
    <3>4. Control(w)'
      BY <2>1, <3>1, <3>2 DEF Control, Busy, InSave
    <3> QED
      BY <1>2, <1>6, <3>3, <3>4 DEF SaveRead
  <2> QED
    BY <1>0, <1>2, <1>6, <2>2, ForgetShape DEF SaveRead
<1>7. CASE Archive(w)
  <2> DEFINE j == [job[w] EXCEPT !.archived = TRUE]
  <2>1. job[w] \in Job /\ etag[w] = job[w] /\ Busy(w) /\ ~job[w].complete
    BY <1>0, <1>7 DEF Archive, Control, Busy
  <2>2. j \in Job /\ j.rcpt = job[w].rcpt /\ j.archived 
        /\ j.notified = job[w].notified /\ j.complete = job[w].complete
    BY <2>1 DEF Job
  <2>3. Successor(etag[w], j)
    BY <2>1, <2>2, SuccessorOfFlags
  <2>4. ASSUME Save(w, "archive", j) PROVE WorkerTypes' /\ Control(w)'
    BY <1>0, <2>1, <2>2, <2>3, <2>4, SaveShape DEF Saves
  <2>5. WorkerTypes' /\ Control(w)'
    BY <1>0, <1>7, <2>4, ForgetShape DEF Archive
  <2> QED
    BY <1>0, <1>1, <1>7, <2>5 DEF Archive, TypeOK, storeVars
<1>8. CASE Start(w)
  <2>1. WorkerTypes' /\ Control(w)'
    BY <1>0, <1>8 DEF Start, WorkerTypes, TypeOK, PC, Control, Busy
  <2> QED
    BY <1>2, <1>8, <2>1 DEF Start
<1>9. CASE SendStart(w)
  <2>1. PICK r \in i[w]..N :
          /\ Eligible(job[w], r, Time(w))
          /\ IF Live(w)
             THEN /\ pc' = [pc EXCEPT ![w] = "sending"]
                  /\ i'  = [i EXCEPT ![w] = r]
                  /\ UNCHANGED <<saving, job, etag, expires, ok, claims>>
             ELSE Forget(w)
    BY <1>9 DEF SendStart
  <2>2. job[w] \in Job /\ i[w] \in 1..(N + 1) /\ pc[w] = "loop"
        /\ r \in Rcpt /\ job[w].rcpt[r].state = "pending"
    BY <1>0, <1>9, <2>1 DEF SendStart, Control, Busy, Eligible, Due, Rcpt
  <2>3. CASE Live(w)
    <3>1. WorkerTypes' /\ Control(w)'
      BY <1>0, <2>1, <2>2, <2>3 DEF WorkerTypes, TypeOK, PC, Control, Busy, Rcpt
    <3> QED
      BY <1>2, <1>9, <3>1 DEF SendStart
  <2>4. CASE ~Live(w)
    BY <1>0, <1>2, <1>9, <2>1, <2>4, ForgetShape DEF SendStart
  <2> QED
    BY <2>3, <2>4
<1>10. CASE RemoteAccept(w)
  <2>1. WorkerTypes' /\ Control(w)'
    BY <1>0, <1>10 DEF RemoteAccept, WorkerTypes, TypeOK, Control, Busy
  <2>2. accepted' \subseteq Rcpt
    BY <1>0, <1>10 DEF RemoteAccept, TypeOK, Control
  <2> QED
    BY <1>0, <1>1, <1>10, <2>1, <2>2 DEF RemoteAccept, TypeOK, storeVars
<1>11. CASE SendResult(w)
  <2>1. PICK result \in {"accepted", "temporary", "refused"} :
          Save(w, "send", [job[w] EXCEPT !.rcpt[i[w]] = Attempt(@, result, Time(w))])
    BY <1>11 DEF SendResult
  <2>2. job[w] \in Job /\ etag[w] = job[w] /\ Busy(w) /\ i[w] \in Rcpt
        /\ job[w].rcpt[i[w]].state = "pending" /\ job[w].archived /\ ~job[w].complete
        /\ Time(w) \in Int
    BY <1>0, <1>11 DEF SendResult, Control, Busy, TypeOK, Time
  <2> DEFINE x == job[w].rcpt[i[w]]
             y == Attempt(x, result, Time(w))
             j == [job[w] EXCEPT !.rcpt[i[w]] = y]
  <2>3. x \in Recipient
    BY <2>2 DEF Job
  <2>4. y \in Recipient /\ y.attempts >= x.attempts
    BY <2>2, <2>3, AttemptKeeps
  <2> HIDE DEF y
  <2>5. /\ j \in Job /\ j.archived = job[w].archived /\ j.notified = job[w].notified
        /\ j.complete = job[w].complete
        /\ j.rcpt = [job[w].rcpt EXCEPT ![i[w]] = y]
    BY <2>2, <2>4 DEF Job
  <2>6. Successor(etag[w], j)
    <3>1. \A r \in Rcpt : etag[w].rcpt[r].attempts \in Nat
      BY <2>2 DEF Job, Recipient
    <3>2. \A r \in Rcpt : j.rcpt[r] = IF r = i[w] THEN y ELSE etag[w].rcpt[r]
      BY <2>2, <2>5 DEF Job
    <3> QED
      BY <2>2, <2>4, <2>5, <3>1, <3>2 DEF Successor, Extends
  <2>7. WorkerTypes' /\ Control(w)'
    BY <1>0, <2>1, <2>2, <2>5, <2>6, SaveShape DEF Saves, y
  <2> QED
    BY <1>2, <1>11, <2>7 DEF SendResult
<1>12. CASE SendLoopEnd(w)
  <2>1. WorkerTypes' /\ Control(w)'
    BY <1>0, <1>12 DEF SendLoopEnd, WorkerTypes, TypeOK, PC, Control, Busy
  <2> QED
    BY <1>2, <1>12, <2>1 DEF SendLoopEnd
<1>13. CASE Notify(w)
  <2> DEFINE j == [job[w] EXCEPT !.notified = TRUE]
  <2>1. job[w] \in Job /\ etag[w] = job[w] /\ Busy(w) /\ ~job[w].complete /\ job[w].archived
    BY <1>0, <1>13 DEF Notify, Control, Busy
  <2>2. j \in Job /\ j.rcpt = job[w].rcpt /\ j.archived = job[w].archived
        /\ j.notified /\ j.complete = job[w].complete
    BY <2>1 DEF Job
  <2>3. Successor(etag[w], j)
    BY <2>1, <2>2, SuccessorOfFlags
  <2>4. ASSUME Save(w, "notify", j) PROVE WorkerTypes' /\ Control(w)'
    BY <1>0, <2>1, <2>2, <2>3, <2>4, SaveShape DEF Saves
  <2>5. WorkerTypes' /\ Control(w)'
    BY <1>0, <1>13, <2>4, ForgetShape DEF Notify
  <2>6. Failed(job[w]) \subseteq Rcpt
    BY DEF Failed
  <2> QED
    BY <1>0, <1>1, <1>13, <2>5, <2>6 DEF Notify, TypeOK, storeVars
<1>14. CASE Finish(w)
  <2> DEFINE j == Finished(job[w])
  <2>1. job[w] \in Job /\ etag[w] = job[w] /\ Busy(w) /\ ~job[w].complete /\ job[w].archived
    BY <1>0, <1>14 DEF Finish, Control, Busy
  <2>2. j \in Job /\ j.rcpt = job[w].rcpt /\ j.archived = job[w].archived
        /\ j.notified = job[w].notified
    <3> DEFINE k == [job[w] EXCEPT !.preclaim = NoClaim]
    <3>1. k \in Job /\ k.rcpt = job[w].rcpt /\ k.archived = job[w].archived
          /\ k.notified = job[w].notified
      BY <2>1 DEF Job
    <3>2. j = [k EXCEPT !.complete = job[w].complete \/ ~Pending(job[w])]
      BY <2>1 DEF Finished, Job
    <3>3. (job[w].complete \/ ~Pending(job[w])) \in BOOLEAN
      OBVIOUS
    <3> QED
      BY <3>1, <3>2, <3>3 DEF Job
  <2>3. Successor(etag[w], j)
    BY <2>1, <2>2, SuccessorOfFlags
  <2>4. WorkerTypes' /\ Control(w)'
    BY <1>0, <1>14, <2>1, <2>2, <2>3, SaveShape DEF Finish, Saves
  <2> QED
    BY <1>2, <1>14, <2>4 DEF Finish
<1>15. CASE Delete(w) \/ Stop(w)
  BY <1>0, <1>1, <1>2, <1>15, ForgetShape DEF Delete, Stop, TypeOK, storeVars, worldVars
<1> QED
  BY <1>3, <1>4, <1>5, <1>6, <1>7, <1>8, <1>9, <1>10, <1>11, <1>12, <1>13, <1>14, <1>15
     DEF Work

LEMMA ShapeStep == Shape /\ [Next]_vars => Shape'
<1> SUFFICES ASSUME Shape, [Next]_vars PROVE Shape'
  OBVIOUS
<1>0. TypeOK /\ \A w \in Worker : Control(w)
  BY DEF Shape
<1>1. ASSUME NEW w \in Worker, Work(w) \/ Stop(w)
      PROVE  Shape'
  <2>1. TypeOK' /\ Control(w)'
    BY <1>1, WorkShape
  <2>2. ASSUME NEW v \in Worker \ {w} PROVE Control(v)'
    <3>1. Control(v)
      BY <1>0
    <3>2. /\ pc'[v] = pc[v] /\ saving'[v] = saving[v] /\ job'[v] = job[v]
          /\ etag'[v] = etag[v] /\ expires'[v] = expires[v] /\ i'[v] = i[v]
          /\ ok'[v] = ok[v] /\ claims'[v] = claims[v]
      BY <1>0, <1>1, OthersKept
    <3> QED
      BY <3>1, <3>2 DEF Control, Busy, InSave
  <2> QED
    BY <2>1, <2>2 DEF Shape
<1>2. ASSUME UNCHANGED workerVars, TypeOK' PROVE Shape'
  BY <1>0, <1>2 DEF workerVars, Shape, Control, Busy, InSave
<1>3. CASE Advance
  <2>1. TypeOK'
    BY <1>0, <1>3 DEF Advance, TypeOK, storeVars, workerVars, worldVars
  <2> QED
    BY <1>2, <1>3, <2>1 DEF Advance
<1>4. ASSUME NEW p \in late, LateApply(p) PROVE Shape'
  <2>1. p.new \in Job
    BY <1>0 DEF TypeOK, Put
  <2>2. TypeOK'
    BY <1>0, <1>4, <2>1 DEF LateApply, TypeOK, workerVars, worldVars
  <2> QED
    BY <1>2, <1>4, <2>2 DEF LateApply
<1>5. CASE UNCHANGED vars
  <2>1. TypeOK'
    BY <1>0, <1>5 DEF vars, storeVars, workerVars, worldVars, TypeOK
  <2> QED
    BY <1>2, <1>5, <2>1 DEF vars
<1> QED
  BY <1>1, <1>3, <1>4, <1>5 DEF Next

-----------------------------------------------------------------------------
(***************************************************************************)
(* Recorded: contents tell what has happened.                              *)
(***************************************************************************)

LEMMA RecordedInit == Init => Recorded
  BY DEF Init, Recorded, Sound, SoundIn, Mine, Busy, Pending, Failed

\* The world outside does not forget.
LEMMA WorldGrows ==
  ASSUME TypeOK, [Next]_vars
  PROVE  /\ accepted \subseteq accepted' /\ reported \subseteq reported'
         /\ archived => archived' /\ archived' \in BOOLEAN
  BY ZenonT(40) DEF TypeOK, Next, Work, Stop, Advance, LateApply, Preclaim, PreclaimComplete,
     SaveSwap, SaveRead, Archive, Start, SendStart, RemoteAccept, SendResult,
     SendLoopEnd, Notify, Finish, Delete, vars, worldVars, workerVars, storeVars

\* Changes of what is not recorded about the world.
LEMMA SoundAlike ==
  ASSUME NEW a, NEW b, NEW acc, NEW rep, NEW arch,
         b.rcpt = a.rcpt, b.archived = a.archived, b.notified = a.notified,
         b.complete = a.complete, SoundIn(a, acc, rep, arch)
  PROVE  SoundIn(b, acc, rep, arch)
  BY DEF SoundIn, Pending, Failed

LEMMA RecordedWork ==
  ASSUME Shape, Recorded, NEW w \in Worker, Work(w) \/ Stop(w)
  PROVE  Mine(w)'
<1>0. TypeOK /\ Control(w) /\ Mine(w)
  BY DEF Shape, Recorded
<1>1. /\ accepted \subseteq accepted' /\ reported \subseteq reported'
      /\ archived => archived' /\ archived \in BOOLEAN /\ archived' \in BOOLEAN
  BY <1>0, WorldGrows DEF Next, TypeOK
<1> DEFINE New(j) == SoundIn(j, accepted', reported', archived')
<1>2. ASSUME NEW j, Sound(j) PROVE New(j)
  BY <1>1, <1>2 DEF Sound, SoundIn
<1>3. Busy(w) => New(job[w]) /\ New(etag[w])
  BY <1>0, <1>2 DEF Mine
<1>4. CASE Forget(w)
  BY <1>0, <1>4 DEF Mine, Forget, Busy, TypeOK
<1>5. ASSUME Busy(w), NEW step \in Saves, NEW j, New(j), Save(w, step, j)
      PROVE  Mine(w)'
  <2>1. CASE Live(w)
    <3>1. pc'[w] = "swap" /\ job'[w] = j /\ etag'[w] = etag[w]
      BY <1>0, <1>5, <2>1 DEF Save, TypeOK
    <3> QED
      BY <1>3, <1>5, <3>1 DEF Mine, Sound
  <2> QED
    BY <1>4, <1>5, <2>1 DEF Save
<1>6. ASSUME UNCHANGED <<job, etag, ok>>, Busy(w), pc'[w] # "sending" 
      PROVE  Mine(w)'
  BY <1>3, <1>6 DEF Mine, Sound
<1>7. CASE Preclaim(w)
  <2> DEFINE claim == [id |-> <<w, claims[w]>>, expires |-> Time(w) + ClaimTTL]
             j     == [task EXCEPT !.preclaim = claim]
  <2>1. task \in Job /\ Sound(task) /\ ~ok[w]
    BY <1>0, <1>7 DEF Preclaim, TypeOK, Recorded, Control
  <2>2. j.rcpt = task.rcpt /\ j.archived = task.archived
        /\ j.notified = task.notified /\ j.complete = task.complete
    BY <2>1 DEF Job
  <2>3. New(task) 
    BY <1>2, <2>1
  <2>4. New(j)
    BY <2>2, <2>3, SoundAlike
  <2>5. pc'[w] = "swap" /\ job'[w] = j /\ etag'[w] = task
    BY <1>0, <1>7 DEF Preclaim, TypeOK
  <2> QED
    BY <2>3, <2>4, <2>5 DEF Mine, Sound
<1>8. CASE PreclaimComplete(w)
  BY <1>0, <1>8 DEF PreclaimComplete, Mine, Busy, TypeOK
<1>9. CASE SaveSwap(w)
  <2>1. ASSUME pc' = [pc EXCEPT ![w] = "read"],
               UNCHANGED <<late, saving, job, etag, expires, i, ok, claims>>
        PROVE  Mine(w)'
    BY <1>0, <1>6, <1>9, <2>1 DEF SaveSwap, Busy, TypeOK
  <2> QED
    BY <1>4, <1>9, <2>1 DEF SaveSwap
<1>10. CASE SaveRead(w)
  <2>1. ASSUME task = job[w], pc' = [pc EXCEPT ![w] = After(w)],
               etag' = [etag EXCEPT ![w] = task],
               UNCHANGED <<saving, job, expires, ok, claims>>
        PROVE  Mine(w)'
    <3>1. Busy(w) /\ After(w) # "sending"
      BY <1>0, <1>10 DEF SaveRead, Busy, After, TypeOK, Saves
    <3>2. job'[w] = job[w] /\ etag'[w] = job[w] /\ pc'[w] # "sending"
      BY <1>0, <2>1, <3>1 DEF TypeOK
    <3> QED
      BY <1>3, <3>1, <3>2 DEF Mine, Sound
  <2> QED
    BY <1>4, <1>10, <2>1 DEF SaveRead
<1>11. CASE Start(w) \/ SendLoopEnd(w)
  BY <1>0, <1>6, <1>11 DEF Start, SendLoopEnd, Busy, TypeOK
<1>12. CASE Archive(w)
  <2> DEFINE j == [job[w] EXCEPT !.archived = TRUE]
  <2>1. job[w] \in Job /\ Busy(w)
    BY <1>0, <1>12 DEF Archive, Control, Busy
  <2>2. j.rcpt = job[w].rcpt /\ j.archived 
        /\ j.notified = job[w].notified /\ j.complete = job[w].complete
    BY <2>1 DEF Job
  <2>3. ASSUME archived' PROVE New(j)
    BY <1>3, <2>1, <2>2, <2>3 DEF SoundIn, Pending, Failed
  <2> QED
    BY <1>4, <1>5, <1>12, <2>1, <2>3 DEF Archive, Saves
<1>13. CASE SendStart(w)
  <2>1. ASSUME pc' = [pc EXCEPT ![w] = "sending"],
               UNCHANGED <<saving, job, etag, expires, ok, claims>>
        PROVE  Mine(w)'
    <3>1. Busy(w) /\ ~ok[w]
      BY <1>0, <1>13 DEF SendStart, Busy, Control
    <3> QED
      BY <1>3, <2>1, <3>1 DEF Mine, Sound
  <2> QED
    BY <1>4, <1>13, <2>1 DEF SendStart
<1>14. CASE RemoteAccept(w)
  <2>1. Busy(w)
    BY <1>14 DEF RemoteAccept, Busy
  <2> QED
    BY <1>3, <1>14, <2>1 DEF RemoteAccept, Mine, Sound
<1>15. CASE SendResult(w)
  <2>1. PICK result \in {"accepted", "temporary", "refused"} :
          /\ result = "accepted" => ok[w]
          /\ Save(w, "send", [job[w] EXCEPT !.rcpt[i[w]] = Attempt(@, result, Time(w))])
    BY <1>15 DEF SendResult
  <2>2. job[w] \in Job /\ Busy(w) /\ i[w] \in Rcpt /\ Time(w) \in Int
        /\ job[w].rcpt[i[w]].state = "pending" /\ ~job[w].complete
        /\ (ok[w] => i[w] \in accepted)
    BY <1>0, <1>15 DEF SendResult, Control, Busy, TypeOK, Time, Mine
  <2> DEFINE x == job[w].rcpt[i[w]]
             y == Attempt(x, result, Time(w))
             j == [job[w] EXCEPT !.rcpt[i[w]] = y]
  <2>3. x \in Recipient
    BY <2>2 DEF Job
  <2>4. y.state = "delivered" => result = "accepted"
    BY <2>2, <2>3, AttemptKeeps
  <2> HIDE DEF y
  <2>5. /\ j.archived = job[w].archived /\ j.notified = job[w].notified
        /\ j.complete = job[w].complete
        /\ \A r \in Rcpt : j.rcpt[r] = IF r = i[w] THEN y ELSE job[w].rcpt[r]
    BY <2>2 DEF Job
  <2>6. New(job[w]) /\ ~job[w].notified
    <3>1. New(job[w])
      BY <1>3, <2>2
    <3> QED
      BY <2>2, <3>1 DEF SoundIn, Pending
  <2>7. New(j)
    BY <1>1, <2>1, <2>2, <2>4, <2>5, <2>6 DEF SoundIn
  <2> QED
    BY <1>5, <2>1, <2>2, <2>7 DEF Saves, y
<1>16. CASE Notify(w)
  <2> DEFINE j == [job[w] EXCEPT !.notified = TRUE]
  <2>1. job[w] \in Job /\ Busy(w) /\ ~Pending(job[w])
    BY <1>0, <1>16 DEF Notify, Control, Busy
  <2>2. j.rcpt = job[w].rcpt /\ j.archived = job[w].archived /\ j.notified 
        /\ j.complete = job[w].complete
    BY <2>1 DEF Job
  <2>3. ASSUME Failed(job[w]) \subseteq reported' PROVE New(j)
    BY <1>3, <2>1, <2>2, <2>3 DEF SoundIn, Pending, Failed
  <2> QED
    BY <1>4, <1>5, <1>16, <2>1, <2>3 DEF Notify, Saves
<1>17. CASE Finish(w)
  <2> DEFINE j == Finished(job[w])
  <2>1. /\ job[w] \in Job /\ Busy(w) /\ job[w].archived
        /\ Pending(job[w]) \/ job[w].notified
    BY <1>0, <1>17 DEF Finish, Control, Busy
  <2>2. /\ j.rcpt = job[w].rcpt /\ j.archived = job[w].archived
        /\ j.notified = job[w].notified
        /\ j.complete => job[w].complete \/ ~Pending(job[w])
    BY <2>1 DEF Finished, Job
  <2>3. New(j)
    BY <1>3, <2>1, <2>2 DEF SoundIn, Pending, Failed
  <2> QED
    BY <1>5, <1>17, <2>1, <2>3 DEF Finish, Saves
<1>18. CASE Delete(w) \/ Stop(w)
  BY <1>4, <1>18 DEF Delete, Stop
<1> QED
  BY <1>7, <1>8, <1>9, <1>10, <1>11, <1>12, <1>13, <1>14, <1>15, <1>16, <1>17, <1>18
     DEF Work

\* The only ways in which the object changes.
LEMMA TaskChange ==
  ASSUME TypeOK, [Next]_vars
  PROVE  \/ task' = task
         \/ \E w \in Worker : /\ pc[w] = "swap" /\ pc'[w] = "read"
                              /\ task = etag[w] /\ task' = job[w]
         \/ \E p \in late : task = p.old /\ task' = p.new
         \/ \E w \in Worker : pc[w] = "delete" /\ task' = NoTask
<1>1. CASE UNCHANGED vars \/ Advance
  BY <1>1 DEF vars, storeVars, Advance
<1>2. ASSUME NEW p \in late, LateApply(p)
      PROVE  task' = task \/ (task = p.old /\ task' = p.new)
  BY <1>2 DEF LateApply, Matches
<1>3. ASSUME NEW w \in Worker, SaveSwap(w)
      PROVE  \/ task' = task
             \/ pc[w] = "swap" /\ pc'[w] = "read" /\ task = etag[w] /\ task' = job[w]
  BY <1>3 DEF SaveSwap, Matches, TypeOK
<1>4. ASSUME NEW w \in Worker, Delete(w)
      PROVE  pc[w] = "delete" /\ task' = NoTask
  BY <1>4 DEF Delete
<1>5. ASSUME NEW w \in Worker, Work(w) \/ Stop(w), ~SaveSwap(w), ~Delete(w)
      PROVE  task' = task
  BY <1>5 DEF Work, Stop, Preclaim, PreclaimComplete, SaveRead, Archive, Start, SendStart,
     RemoteAccept, SendResult, SendLoopEnd, Notify, Finish, storeVars
<1> QED
  BY <1>1, <1>2, <1>3, <1>4, <1>5 DEF Next

LEMMA LateChange ==
  ASSUME TypeOK, [Next]_vars
  PROVE  \/ late' \subseteq late
         \/ \E w \in Worker : /\ pc[w] = "swap" /\ pc'[w] = "idle"
                              /\ UNCHANGED <<clock, claims>>
                              /\ late' = late \cup {[old |-> etag[w], new |-> job[w]]}
<1>1. CASE UNCHANGED vars \/ Advance
  BY <1>1 DEF vars, storeVars, Advance
<1>2. ASSUME NEW p \in late, LateApply(p) PROVE late' \subseteq late
  BY <1>2 DEF LateApply
<1>3. ASSUME NEW w \in Worker, SaveSwap(w)
      PROVE  \/ late' = late
             \/ /\ pc[w] = "swap" /\ pc'[w] = "idle" /\ UNCHANGED <<clock, claims>>
                /\ late' = late \cup {[old |-> etag[w], new |-> job[w]]}
  BY <1>3 DEF SaveSwap, Forget, TypeOK
<1>4. ASSUME NEW w \in Worker, Work(w) \/ Stop(w), ~SaveSwap(w)
      PROVE  late' = late
  BY <1>4 DEF Work, Stop, Preclaim, PreclaimComplete, SaveRead, Archive, Start, SendStart,
     RemoteAccept, SendResult, SendLoopEnd, Notify, Finish, Delete, storeVars
<1> QED
  BY <1>1, <1>2, <1>3, <1>4 DEF Next

LEMMA RecordedStep == Shape /\ Recorded /\ [Next]_vars => Recorded'
<1> SUFFICES ASSUME Shape, Recorded, [Next]_vars PROVE Recorded'
  OBVIOUS
<1>0. TypeOK /\ \A w \in Worker : Control(w) /\ Mine(w)
  BY DEF Shape, Recorded
<1>1. /\ accepted \subseteq accepted' /\ reported \subseteq reported'
      /\ archived => archived' /\ archived \in BOOLEAN /\ archived' \in BOOLEAN
  BY <1>0, WorldGrows DEF TypeOK
<1> DEFINE New(j) == SoundIn(j, accepted', reported', archived')
<1>2. ASSUME NEW j, Sound(j) PROVE New(j)
  BY <1>1, <1>2 DEF Sound, SoundIn
<1>3. ASSUME NEW w \in Worker, pc[w] = "swap"
      PROVE  New(job[w]) /\ Successor(etag[w], job[w])
  BY <1>0, <1>2, <1>3 DEF Control, Mine, Busy, InSave
<1>4. task' # NoTask => New(task')
  <2>1. ASSUME NEW p \in late PROVE New(p.new)
    BY <1>2, <2>1 DEF Recorded
  <2>2. task # NoTask => New(task)
    BY <1>2 DEF Recorded
  <2> QED
    BY <1>0, <1>3, <2>1, <2>2, TaskChange
<1>5. ASSUME NEW p \in late' PROVE New(p.new) /\ Successor(p.old, p.new)
  <2>1. CASE p \in late
    BY <1>2, <2>1 DEF Recorded
  <2>2. ASSUME NEW w \in Worker, pc[w] = "swap", p = [old |-> etag[w], new |-> job[w]]
        PROVE  New(p.new) /\ Successor(p.old, p.new)
    BY <1>3, <2>2
  <2> QED
    BY <1>0, <1>5, <2>1, <2>2, LateChange
<1>6. ASSUME NEW v \in Worker, UNCHANGED <<pc[v], job[v], etag[v], i[v], ok[v]>>
      PROVE  Mine(v)'
  <2>1. Busy(v) => New(job[v]) /\ New(etag[v])
    BY <1>0, <1>2 DEF Mine
  <2>2. (pc[v] = "sending" /\ ok[v]) => i[v] \in accepted'
    BY <1>0, <1>1 DEF Mine
  <2>3. /\ pc'[v] = pc[v] /\ job'[v] = job[v] /\ etag'[v] = etag[v]
        /\ i'[v] = i[v] /\ ok'[v] = ok[v]
    BY <1>6
  <2> QED
    BY <2>1, <2>2, <2>3 DEF Mine, Busy, Sound
<1>7. \A v \in Worker : Mine(v)'
  <2>1. CASE UNCHANGED workerVars
    BY <1>6, <2>1 DEF workerVars
  <2>2. ASSUME NEW w \in Worker, Work(w) \/ Stop(w), NEW v \in Worker
        PROVE  Mine(v)'
    BY <1>0, <1>6, <2>2, OthersKept, RecordedWork
  <2> QED
    BY <2>1, <2>2 DEF Next, Advance, LateApply, vars
<1> QED
  BY <1>4, <1>5, <1>7 DEF Recorded, Sound

-----------------------------------------------------------------------------
(***************************************************************************)
(* Kept: the object goes forward from what anybody knows.                  *)
(***************************************************************************)

LEMMA KeptInit == Init => Kept
  BY DEF Init, Kept, Busy

\* A step that changes the object goes on from it, or removes it complete.
LEMMA TaskStep ==
  ASSUME Shape, Recorded, Kept, [Next]_vars
  PROVE  \/ task' = task
         \/ task \in Job /\ task' \in Job /\ Successor(task, task')
         \/ task \in Job /\ task' = NoTask /\ task.complete
<1>0. TypeOK /\ \A w \in Worker : Control(w)
  BY DEF Shape
<1>1. ASSUME NEW w \in Worker, pc[w] = "swap"
      PROVE  etag[w] \in Job /\ job[w] \in Job /\ Successor(etag[w], job[w])
  BY <1>0, <1>1 DEF Control, Busy, InSave
<1>2. ASSUME NEW p \in late
      PROVE  p.old \in Job /\ p.new \in Job /\ Successor(p.old, p.new)
  BY <1>0, <1>2 DEF TypeOK, Put, Recorded
<1>3. ASSUME NEW w \in Worker, pc[w] = "delete"
      PROVE  task = NoTask \/ (task \in Job /\ task.complete)
  BY <1>0, <1>3 DEF Kept, TypeOK
<1> QED
  BY <1>0, <1>1, <1>2, <1>3, TaskChange

\* What a worker knows, it goes on knowing, or has just read or written.
LEMMA KnownStep ==
  ASSUME Shape, NEW w \in Worker, Work(w) \/ Stop(w), Busy(w)'
  PROVE  \/ Busy(w) /\ Known(w)' = Known(w)
         \/ Known(w)' = task' /\ task' \in Job
<1>0. TypeOK /\ Control(w)
  BY DEF Shape
<1>1. ~Forget(w)
  BY <1>0 DEF Forget, TypeOK, Busy
<1>2. ASSUME Busy(w), pc[w] # "read", NEW step, NEW j, Save(w, step, j)
      PROVE  Known(w)' = Known(w)
  BY <1>0, <1>1, <1>2 DEF Save, Known, TypeOK
<1>3. CASE Preclaim(w)
  BY <1>0, <1>3 DEF Preclaim, Known, TypeOK, storeVars
<1>4. CASE PreclaimComplete(w) \/ Stop(w) \/ Delete(w)
  BY <1>0, <1>1, <1>4 DEF PreclaimComplete, Stop, Delete, Busy, TypeOK
<1>5. CASE SaveSwap(w)
  BY <1>0, <1>1, <1>5 DEF SaveSwap, Known, TypeOK, Control, Busy
<1>6. CASE SaveRead(w)
  <2>1. /\ pc[w] = "read" /\ task = job[w] /\ pc' = [pc EXCEPT ![w] = After(w)]
        /\ etag' = [etag EXCEPT ![w] = task] /\ UNCHANGED job
    BY <1>1, <1>6 DEF SaveRead
  <2>2. After(w) # "read"
    BY <1>0 DEF After, TypeOK, Saves
  <2> QED
    BY <1>0, <2>1, <2>2 DEF Known, TypeOK, Busy
<1>7. CASE Start(w) \/ SendLoopEnd(w)
  BY <1>0, <1>7 DEF Start, SendLoopEnd, Known, TypeOK, Busy
<1>8. CASE SendStart(w)
  BY <1>0, <1>1, <1>8 DEF SendStart, Known, TypeOK, Busy
<1>9. CASE RemoteAccept(w)
  BY <1>0, <1>9 DEF RemoteAccept, Known, TypeOK, Busy
<1>10. CASE Archive(w) \/ SendResult(w) \/ Notify(w) \/ Finish(w)
  BY <1>1, <1>2, <1>10 DEF Archive, SendResult, Notify, Finish, Busy
<1> QED
  BY <1>3, <1>4, <1>5, <1>6, <1>7, <1>8, <1>9, <1>10 DEF Work

\* Whoever goes to delete has found the object complete.
LEMMA DeleteStep ==
  ASSUME Shape, NEW w \in Worker, Work(w) \/ Stop(w), pc'[w] = "delete"
  PROVE  task' = task /\ task \in Job /\ task.complete
<1>0. TypeOK /\ Control(w)
  BY DEF Shape
<1>1. ~Forget(w)
  BY <1>0 DEF Forget, TypeOK
<1>2. ASSUME NEW step, NEW j PROVE ~Save(w, step, j)
  BY <1>0, <1>1 DEF Save, TypeOK
<1>3. CASE PreclaimComplete(w)
  BY <1>0, <1>3 DEF PreclaimComplete, TypeOK, storeVars
<1>4. CASE SaveRead(w)
  <2>1. /\ pc[w] = "read" /\ task = job[w] /\ pc' = [pc EXCEPT ![w] = After(w)]
        /\ saving[w] = "finish" => job[w].complete
        /\ UNCHANGED storeVars
    BY <1>1, <1>4 DEF SaveRead
  <2>2. After(w) = "delete" => saving[w] = "finish"
    BY <1>0 DEF After, TypeOK, Saves
  <2>3. job[w] \in Job
    BY <1>0, <2>1 DEF Control, Busy
  <2> QED
    BY <1>0, <2>1, <2>2, <2>3 DEF TypeOK, storeVars
<1>5. CASE Preclaim(w) \/ SaveSwap(w) \/ Start(w) \/ SendLoopEnd(w) \/ RemoteAccept(w)
  BY <1>0, <1>1, <1>5 DEF Preclaim, SaveSwap, Start, SendLoopEnd, RemoteAccept, TypeOK
<1>6. CASE SendStart(w)
  BY <1>0, <1>1, <1>6 DEF SendStart, TypeOK
<1>7. CASE Archive(w) \/ SendResult(w) \/ Notify(w) \/ Finish(w) \/ Delete(w) \/ Stop(w)
  BY <1>1, <1>2, <1>7 DEF Archive, SendResult, Notify, Finish, Delete, Stop
<1> QED
  BY <1>3, <1>4, <1>5, <1>6, <1>7 DEF Work

LEMMA KeptStep == Shape /\ Recorded /\ Kept /\ [Next]_vars => Kept'
<1> SUFFICES ASSUME Shape, Recorded, Kept, [Next]_vars PROVE Kept'
  OBVIOUS
<1>0. TypeOK /\ \A w \in Worker : Control(w)
  BY DEF Shape
<1> DEFINE Held(k) == IF task # NoTask THEN Extends(k, task)
                                      ELSE Failed(k) \subseteq reported
           Holds(k) == IF task' # NoTask THEN Extends(k, task')
                                       ELSE Failed(k) \subseteq reported'
<1>1. ASSUME NEW k \in Job, Held(k) PROVE Holds(k)
  <2>1. CASE task' = task
    BY <1>0, <1>1, <2>1, WorldGrows
  <2>2. CASE task \in Job /\ task' \in Job /\ Successor(task, task')
    BY <1>1, <2>2, ExtendsTransitive DEF Successor
  <2>3. CASE task \in Job /\ task' = NoTask /\ task.complete
    <3>1. Failed(task) \subseteq reported
      BY <2>3 DEF Recorded, Sound, SoundIn
    <3>2. Failed(k) \subseteq Failed(task)
      BY <1>1, <2>3 DEF Extends, Failed
    <3> QED
      BY <1>0, <2>3, <3>1, <3>2, WorldGrows
  <2> QED
    BY <2>1, <2>2, <2>3, TaskStep
<1>2. ASSUME NEW v \in Worker, Busy(v) PROVE Known(v) \in Job /\ Held(Known(v))
  BY <1>0, <1>2 DEF Control, Known, Kept
<1>3. ASSUME NEW v \in Worker, pc[v] = "delete"
      PROVE  task' = NoTask \/ task'.complete
  BY <1>3, TaskStep DEF Kept, Successor
<1>4. ASSUME NEW v \in Worker, UNCHANGED <<pc[v], job[v], etag[v]>>
      PROVE  /\ Busy(v)' => Holds(Known(v)')
             /\ pc'[v] = "delete" => task' = NoTask \/ task'.complete
  <2>1. pc'[v] = pc[v] /\ job'[v] = job[v] /\ etag'[v] = etag[v]
    BY <1>4
  <2>2. Busy(v)' => Busy(v) /\ Known(v)' = Known(v)
    BY <2>1 DEF Busy, Known
  <2> QED
    BY <1>1, <1>2, <1>3, <2>1, <2>2
<1>5. ASSUME NEW w \in Worker, Work(w) \/ Stop(w)
      PROVE  /\ Busy(w)' => Holds(Known(w)')
             /\ pc'[w] = "delete" => task' = NoTask \/ task'.complete
  <2>1. ASSUME task' \in Job PROVE Holds(task')
    BY <2>1, ExtendsReflexive
  <2> QED
    BY <1>1, <1>2, <1>5, <2>1, KnownStep, DeleteStep
<1>6. ASSUME NEW v \in Worker
      PROVE  /\ Busy(v)' => Holds(Known(v)')
             /\ pc'[v] = "delete" => task' = NoTask \/ task'.complete
  <2>1. CASE UNCHANGED workerVars
    BY <1>4, <2>1 DEF workerVars
  <2>2. ASSUME NEW w \in Worker, Work(w) \/ Stop(w), v # w
        PROVE  UNCHANGED <<pc[v], job[v], etag[v]>>
    BY <1>0, <2>2, OthersKept
  <2> QED
    BY <1>4, <1>5, <2>1, <2>2 DEF Next, Advance, LateApply, vars
<1> QED
  BY <1>6 DEF Kept

-----------------------------------------------------------------------------
(***************************************************************************)
(* Claims: who may still write over what.                                  *)
(***************************************************************************)

\* The part of Claims that is about one worker, and about one late PUT.
ClaimOf(w) ==
    Busy(w) =>
        /\ claims[w] >= 1
        /\ IF saving[w] = "claim" /\ pc[w] \in {"swap", "read"}
           THEN Unclaimed(etag[w], Time(w)) ELSE etag[w].preclaim = MyClaim(w)
        /\ pc[w] \in {"swap", "read"} /\ saving[w] # "finish" =>
              job[w].preclaim = MyClaim(w)

ClaimLate(p) == \/ \E v \in Worker : Unclaimed(p.old, Time(v))
                \/ p.old.preclaim # NoClaim /\ Over(p.old.preclaim)

LEMMA ClaimsParts ==
  Claims <=> (\A w \in Worker : ClaimOf(w)) /\ (\A p \in late : ClaimLate(p))
  BY DEF Claims, ClaimOf, ClaimLate

LEMMA ClaimsInit == Init => Claims
  BY DEF Init, Claims, Busy

LEMMA ClaimsWork ==
  ASSUME Shape, NEW w \in Worker, ClaimOf(w), Work(w) \/ Stop(w)
  PROVE  /\ ClaimOf(w)'
         /\ \/ claims'[w] = claims[w] /\ (Busy(w)' => Busy(w))
            \/ claims'[w] = claims[w] + 1 /\ ~Busy(w) /\ Busy(w)'
<1>0. TypeOK /\ Control(w)
  BY DEF Shape
<1> DEFINE Goal == /\ ClaimOf(w)'
                   /\ \/ claims'[w] = claims[w] /\ (Busy(w)' => Busy(w))
                      \/ claims'[w] = claims[w] + 1 /\ ~Busy(w) /\ Busy(w)'
<1>1. CASE Forget(w)
  BY <1>0, <1>1 DEF Forget, ClaimOf, Busy, TypeOK
<1>2. ASSUME Busy(w), pc[w] \notin {"swap", "read"}, NEW step \in Saves \ {"claim"},
             NEW j, Save(w, step, j),
             step # "finish" => j.preclaim = etag[w].preclaim
      PROVE  Goal
  <2>1. CASE ~Live(w)
    BY <1>1, <1>2, <2>1 DEF Save
  <2>2. CASE Live(w)
    <3>1. /\ pc' = [pc EXCEPT ![w] = "swap"] /\ saving' = [saving EXCEPT ![w] = step]
          /\ job' = [job EXCEPT ![w] = j] /\ UNCHANGED <<etag, expires, claims>>
      BY <1>2, <2>2 DEF Save
    <3>2. /\ pc'[w] = "swap" /\ saving'[w] = step /\ job'[w] = j
          /\ etag'[w] = etag[w] /\ claims'[w] = claims[w] /\ MyClaim(w)' = MyClaim(w)
      BY <1>0, <3>1 DEF TypeOK, MyClaim
    <3>3. claims[w] >= 1 /\ etag[w].preclaim = MyClaim(w)
      BY <1>2 DEF ClaimOf
    <3> QED
      BY <1>2, <3>2, <3>3 DEF ClaimOf, Busy
  <2> QED
    BY <2>1, <2>2
<1>3. CASE Preclaim(w)
  <2> DEFINE claim == [id |-> <<w, claims[w]>>, expires |-> Time(w) + ClaimTTL]
  <2>1. /\ task \in Job /\ Unclaimed(task, Time(w)) /\ ~Busy(w)
        /\ UNCHANGED clock /\ claims[w] \in Nat
    BY <1>0, <1>3 DEF Preclaim, TypeOK, Claimable, Busy
  <2>2. /\ pc'[w] = "swap" /\ saving'[w] = "claim" /\ etag'[w] = task
        /\ job'[w] = [task EXCEPT !.preclaim = claim] /\ claims'[w] = claims[w] + 1
        /\ expires'[w] = Time(w) + ClaimTTL
    BY <1>0, <1>3 DEF Preclaim, TypeOK
  <2>3. job'[w].preclaim = MyClaim(w)'
    <3>1. job'[w].preclaim = claim
      BY <2>1, <2>2 DEF Job
    <3> QED
      BY <2>1, <2>2, <3>1 DEF MyClaim
  <2>4. Unclaimed(etag'[w], Time(w)')
    BY <2>1, <2>2 DEF Time
  <2> QED
    BY <2>1, <2>2, <2>3, <2>4 DEF ClaimOf, Busy, Unclaimed, Time
<1>4. CASE PreclaimComplete(w)
  BY <1>0, <1>4 DEF PreclaimComplete, ClaimOf, Busy, TypeOK
<1>5. CASE SaveSwap(w)
  <2>1. ASSUME pc' = [pc EXCEPT ![w] = "read"],
               UNCHANGED <<saving, job, etag, expires, claims>>
        PROVE  Goal
    BY <1>0, <1>5, <2>1 DEF SaveSwap, ClaimOf, Busy, TypeOK, MyClaim, Unclaimed, Time
  <2> QED
    BY <1>1, <1>5, <2>1 DEF SaveSwap
<1>6. CASE SaveRead(w)
  <2>1. ASSUME task = job[w], pc' = [pc EXCEPT ![w] = After(w)],
               etag' = [etag EXCEPT ![w] = task],
               UNCHANGED <<saving, job, expires, claims>>
        PROVE  Goal
    <3>1. /\ pc[w] = "read" /\ Busy(w)
          /\ After(w) \notin {"swap", "read"}
          /\ After(w) # "delete" => saving[w] # "finish"
      BY <1>0, <1>6 DEF SaveRead, Busy, After, TypeOK, Saves
    <3>2. /\ pc'[w] = After(w) /\ etag'[w] = job[w] /\ claims'[w] = claims[w]
          /\ MyClaim(w)' = MyClaim(w)
      BY <1>0, <2>1 DEF TypeOK, MyClaim
    <3>3. /\ claims[w] >= 1
          /\ saving[w] # "finish" => job[w].preclaim = MyClaim(w)
      BY <3>1 DEF ClaimOf
    <3> QED
      BY <3>1, <3>2, <3>3 DEF ClaimOf, Busy
  <2> QED
    BY <1>1, <1>6, <2>1 DEF SaveRead
<1>7. ASSUME Busy(w), pc[w] \notin {"swap", "read"}, pc'[w] \notin {"swap", "read"},
             UNCHANGED <<saving, job, etag, expires, claims>>
      PROVE  Goal
  BY <1>0, <1>7 DEF ClaimOf, Busy, MyClaim
<1>8. CASE Start(w) \/ SendLoopEnd(w) \/ RemoteAccept(w)
  BY <1>0, <1>7, <1>8 DEF Start, SendLoopEnd, RemoteAccept, Busy, TypeOK
<1>9. CASE SendStart(w)
  <2>1. ASSUME pc' = [pc EXCEPT ![w] = "sending"],
               UNCHANGED <<saving, job, etag, expires, ok, claims>>
        PROVE  Goal
    BY <1>0, <1>7, <1>9, <2>1 DEF SendStart, Busy, TypeOK
  <2> QED
    BY <1>1, <1>9, <2>1 DEF SendStart
<1>10. CASE Archive(w)
  <2>1. job[w] = etag[w] /\ job[w] \in Job /\ Busy(w)
    BY <1>0, <1>10 DEF Archive, Control, Busy
  <2>2. [job[w] EXCEPT !.archived = TRUE].preclaim = etag[w].preclaim
    BY <2>1 DEF Job
  <2> QED
    BY <1>1, <1>2, <1>10, <2>1, <2>2 DEF Archive, Saves
<1>11. CASE SendResult(w)
  <2>1. job[w] = etag[w] /\ job[w] \in Job /\ Busy(w)
    BY <1>0, <1>11 DEF SendResult, Control, Busy
  <2>2. ASSUME NEW y PROVE [job[w] EXCEPT !.rcpt[i[w]] = y].preclaim = etag[w].preclaim
    BY <2>1 DEF Job
  <2>3. PICK result \in {"accepted", "temporary", "refused"} :
          Save(w, "send", [job[w] EXCEPT !.rcpt[i[w]] = Attempt(@, result, Time(w))])
    BY <1>11 DEF SendResult
  <2> QED
    BY <1>2, <1>11, <2>1, <2>2, <2>3 DEF SendResult, Saves
<1>12. CASE Notify(w)
  <2>1. job[w] = etag[w] /\ job[w] \in Job /\ Busy(w)
    BY <1>0, <1>12 DEF Notify, Control, Busy
  <2>2. [job[w] EXCEPT !.notified = TRUE].preclaim = etag[w].preclaim
    BY <2>1 DEF Job
  <2> QED
    BY <1>1, <1>2, <1>12, <2>1, <2>2 DEF Notify, Saves
<1>13. CASE Finish(w)
  BY <1>2, <1>13 DEF Finish, Busy, Saves
<1>14. CASE Delete(w) \/ Stop(w)
  BY <1>1, <1>14 DEF Delete, Stop
<1> QED
  BY <1>3, <1>4, <1>5, <1>6, <1>8, <1>9, <1>10, <1>11, <1>12, <1>13, <1>14 DEF Work

\* Time goes on at one rate.
LEMMA ClockStep ==
  ASSUME TypeOK, [Next]_vars
  PROVE  /\ \A w \in Worker : Time(w) <= Time(w)'
         /\ Synchronised' => Synchronised
<1>1. CASE clock' = clock
  BY <1>1 DEF Time, Synchronised, TypeOK
<1>2. CASE Advance
  <2>1. \A w \in Worker : clock[w] \in Int /\ clock'[w] = clock[w] + 1
    BY <1>2 DEF Advance, TypeOK
  <2> QED
    BY <2>1 DEF Time, Synchronised
<1>3. ASSUME NEW p \in late, LateApply(p) PROVE clock' = clock
  BY <1>3 DEF LateApply
<1>4. ASSUME NEW w \in Worker, Work(w) \/ Stop(w) PROVE clock' = clock
  BY <1>4 DEF Work, Stop, Preclaim, PreclaimComplete, SaveSwap, SaveRead, Archive, Start,
     SendStart, RemoteAccept, SendResult, SendLoopEnd, Notify, Finish, Delete
<1> QED
  BY <1>1, <1>2, <1>3, <1>4 DEF Next, vars

LEMMA ClaimsStep == Shape /\ Recorded /\ Claims /\ [Next]_vars => Claims'
<1> SUFFICES ASSUME Shape, Recorded, Claims, [Next]_vars PROVE Claims'
  OBVIOUS
<1>0. /\ TypeOK /\ \A w \in Worker : Control(w) /\ ClaimOf(w)
      /\ \A p \in late : ClaimLate(p)
  BY ClaimsParts DEF Shape
<1>1. ASSUME NEW j \in Job, NEW s \in Int, NEW t \in Int, Unclaimed(j, s), s <= t
      PROVE  Unclaimed(j, t)
  BY <1>1 DEF Unclaimed, Job, Claim
<1>2. ASSUME NEW v \in Worker, UNCHANGED <<pc[v], saving[v], job[v], etag[v], expires[v],
                                           claims[v]>>
      PROVE  /\ ClaimOf(v)'
             /\ \/ claims'[v] = claims[v] /\ (Busy(v)' => Busy(v))
                \/ claims'[v] = claims[v] + 1 /\ ~Busy(v) /\ Busy(v)'
  <2>1. /\ pc'[v] = pc[v] /\ saving'[v] = saving[v] /\ job'[v] = job[v]
        /\ etag'[v] = etag[v] /\ claims'[v] = claims[v] /\ MyClaim(v)' = MyClaim(v)
    BY <1>2 DEF MyClaim
  <2>2. Unclaimed(etag[v], Time(v)) /\ Busy(v) => Unclaimed(etag[v], Time(v)')
    <3>1. Time(v) \in Int /\ Time(v)' \in Int
      BY <1>0, ShapeStep DEF Time, TypeOK, Shape
    <3>2. Busy(v) => etag[v] \in Job
      BY <1>0 DEF Control
    <3> QED
      BY <1>0, <1>1, <3>1, <3>2, ClockStep
  <2> QED
    BY <1>0, <2>1, <2>2 DEF ClaimOf, Busy, Unclaimed
<1>3. ASSUME NEW v \in Worker
      PROVE  /\ ClaimOf(v)'
             /\ \/ claims'[v] = claims[v] /\ (Busy(v)' => Busy(v))
                \/ claims'[v] = claims[v] + 1 /\ ~Busy(v) /\ Busy(v)'
  <2>1. CASE UNCHANGED workerVars
    BY <1>2, <2>1 DEF workerVars
  <2>2. ASSUME NEW w \in Worker, Work(w) \/ Stop(w), v # w
        PROVE  UNCHANGED <<pc[v], saving[v], job[v], etag[v], expires[v], claims[v]>>
    BY <1>0, <2>2, OthersKept
  <2>3. CASE Work(v) \/ Stop(v)
    BY <1>0, <2>3, ClaimsWork
  <2> QED
    BY <1>2, <2>1, <2>2, <2>3 DEF Next, Advance, LateApply, vars
<1>4. ASSUME NEW c \in Claim, Over(c) PROVE Over(c)'
  <2>1. c.id[1] \in Worker /\ c.id[2] \in Nat /\ c # NoClaim
    BY NoClaimAssumption DEF Claim
  <2>2. claims[c.id[1]] \in Nat
    BY <1>0, <2>1 DEF TypeOK
  <2> QED
    BY <1>3, <1>4, <2>1, <2>2 DEF Over
<1>5. ASSUME NEW p \in late PROVE ClaimLate(p)'
  <2>1. p.old \in Job
    BY <1>0 DEF TypeOK, Put
  <2>2. CASE p.old.preclaim # NoClaim /\ Over(p.old.preclaim)
    BY <1>4, <2>1, <2>2 DEF ClaimLate, Job
  <2>3. ASSUME NEW v \in Worker, Unclaimed(p.old, Time(v)) PROVE ClaimLate(p)'
    <3>1. Time(v) \in Int /\ Time(v)' \in Int
      BY <1>0, ShapeStep DEF Time, TypeOK, Shape
    <3>2. Unclaimed(p.old, Time(v)')
      BY <1>0, <1>1, <2>1, <2>3, <3>1, ClockStep
    <3> QED
      BY <3>2 DEF ClaimLate, Unclaimed
  <2> QED
    BY <1>0, <2>2, <2>3 DEF ClaimLate
<1>6. ASSUME NEW w \in Worker, pc[w] = "swap", pc'[w] = "idle",
             UNCHANGED <<clock, claims>>,
             NEW p, p = [old |-> etag[w], new |-> job[w]]
      PROVE  ClaimLate(p)'
  <2>1. p.old = etag[w] /\ Busy(w) /\ claims[w] \in Nat
    BY <1>0, <1>6 DEF Busy, TypeOK
  <2>2. CASE saving[w] = "claim"
    <3>1. Unclaimed(p.old, Time(w)) /\ Time(w)' = Time(w)
      BY <1>0, <1>6, <2>1, <2>2 DEF ClaimOf, Time
    <3> QED
      BY <3>1 DEF ClaimLate, Unclaimed
  <2>3. CASE saving[w] # "claim"
    <3>1. p.old.preclaim = MyClaim(w)
      BY <1>0, <2>1, <2>3 DEF ClaimOf
    <3>2. MyClaim(w) \in Claim
      <4>1. claims[w] - 1 \in Nat /\ expires[w] \in Int
        BY <1>0, <2>1 DEF TypeOK, ClaimOf
      <4> QED
        BY <4>1 DEF MyClaim, Claim
    <3>3. p.old.preclaim.id[1] = w /\ p.old.preclaim.id[2] = claims[w] - 1
      BY <3>1 DEF MyClaim
    <3>4. Over(p.old.preclaim)'
      BY <1>6, <2>1, <3>3 DEF Over, Busy
    <3> QED
      BY <3>1, <3>2, <3>4, NoClaimAssumption DEF ClaimLate
  <2> QED
    BY <2>2, <2>3
<1>7. ASSUME NEW p \in late' PROVE ClaimLate(p)'
  BY <1>0, <1>5, <1>6, <1>7, LateChange
<1> QED
  BY <1>3, <1>7, ClaimsParts DEF Claims, ClaimOf, ClaimLate

-----------------------------------------------------------------------------
(***************************************************************************)
(* Owner: the work of one who executes is untouched.                       *)
(***************************************************************************)

LEMMA OwnerInit == Init => Owner
  BY DEF Init, Owner, Executing

LEMMA Executes ==
  ASSUME Shape, Claims, NEW w \in Worker, Executing(w)
  PROVE  /\ Known(w) \in Job /\ ~Known(w).complete
         /\ Known(w).preclaim = MyClaim(w) /\ Time(w) < expires[w]
<1>1. TypeOK /\ Control(w) /\ ClaimOf(w) /\ Busy(w)
  BY ClaimsParts DEF Shape, Executing, Busy
<1> QED
  BY <1>1 DEF Executing, Live, Known, Control, InSave, ClaimOf

\* A worker that still executes after a step of its own.
LEMMA OwnStep ==
  ASSUME Shape, NEW w \in Worker, Work(w) \/ Stop(w), Executing(w)'
  PROVE  Known(w)' = task' \/ (Executing(w) /\ Known(w)' = Known(w) /\ task' = task)
<1>0. TypeOK /\ Control(w)
  BY DEF Shape
<1>1. ~Forget(w)
  BY <1>0 DEF Forget, TypeOK, Executing
<1>2. ASSUME pc[w] \in {"start", "loop", "sending", "settle", "finish"},
             NEW step, NEW j, Save(w, step, j), UNCHANGED task
      PROVE  Executing(w) /\ Known(w)' = Known(w) /\ task' = task
  BY <1>0, <1>1, <1>2 DEF Save, Known, Executing, TypeOK
<1>3. CASE Preclaim(w)
  BY <1>0, <1>3 DEF Preclaim, Executing, TypeOK
<1>4. CASE PreclaimComplete(w) \/ Stop(w) \/ Delete(w)
  BY <1>0, <1>1, <1>4 DEF PreclaimComplete, Stop, Delete, Executing, TypeOK
<1>5. CASE SaveSwap(w)
  BY <1>0, <1>1, <1>5 DEF SaveSwap, Known, TypeOK
<1>6. CASE SaveRead(w)
  <2>1. /\ pc[w] = "read" /\ task = job[w] /\ pc' = [pc EXCEPT ![w] = After(w)]
        /\ etag' = [etag EXCEPT ![w] = task] /\ UNCHANGED storeVars
    BY <1>1, <1>6 DEF SaveRead
  <2>2. After(w) # "read"
    BY <1>0 DEF After, TypeOK, Saves
  <2> QED
    BY <1>0, <2>1, <2>2 DEF Known, TypeOK, storeVars
<1>7. ASSUME pc[w] \in {"start", "loop", "sending", "settle", "finish"}, pc'[w] # "read",
             UNCHANGED <<clock, expires, etag, task>>
      PROVE  Executing(w) /\ Known(w)' = Known(w) /\ task' = task
  BY <1>0, <1>7 DEF Known, Executing, Live, Time
<1>8. CASE Start(w) \/ SendLoopEnd(w) \/ RemoteAccept(w)
  BY <1>0, <1>7, <1>8 DEF Start, SendLoopEnd, RemoteAccept, TypeOK, storeVars
<1>9. CASE SendStart(w)
  BY <1>0, <1>1, <1>7, <1>9 DEF SendStart, TypeOK, storeVars
<1>10. CASE Archive(w) \/ SendResult(w) \/ Notify(w) \/ Finish(w)
  BY <1>1, <1>2, <1>10 DEF Archive, SendResult, Notify, Finish, storeVars
<1> QED
  BY <1>3, <1>4, <1>5, <1>6, <1>7, <1>8, <1>9, <1>10 DEF Work

LEMMA OwnerStep ==
  Shape /\ Recorded /\ Kept /\ Claims /\ Owner /\ [Next]_vars => Owner'
<1> SUFFICES ASSUME Shape, Recorded, Kept, Claims, Owner, [Next]_vars,
                    Synchronised', NEW w \in Worker, Executing(w)'
             PROVE  task' = Known(w)'
  BY DEF Owner
<1>0. /\ TypeOK /\ Synchronised
      /\ \A v \in Worker : Control(v) /\ ClaimOf(v)
      /\ \A p \in late : ClaimLate(p)
  BY ClockStep, ClaimsParts DEF Shape
<1>1. CASE Work(w) \/ Stop(w)
  BY <1>0, <1>1, OwnStep DEF Owner
<1>2. ASSUME UNCHANGED <<pc[w], saving[w], job[w], etag[w], expires[w]>>
      PROVE  task' = Known(w)'
  <2>1. /\ pc'[w] = pc[w] /\ saving'[w] = saving[w] /\ expires'[w] = expires[w]
        /\ Known(w)' = Known(w)
    BY <1>2 DEF Known
  <2>2. Executing(w)
    <3>1. Time(w) \in Int /\ Time(w)' \in Int /\ expires[w] \in Int /\ Time(w) <= Time(w)'
      BY <1>0, ShapeStep, ClockStep DEF Time, TypeOK, Shape
    <3> QED
      BY <2>1, <3>1 DEF Executing, Live
  <2>3. /\ task = Known(w) /\ task \in Job /\ ~task.complete
        /\ task.preclaim = MyClaim(w) /\ task # NoTask
    BY <1>0, <2>2, Executes, NoTaskAssumption DEF Owner
  <2>4. ASSUME NEW v \in Worker PROVE ~Unclaimed(task, Time(v))
    <3>1. Time(v) = Time(w) /\ Time(w) < expires[w]
      BY <1>0, <2>2, Executes DEF Synchronised, Time
    <3>2. MyClaim(w).expires = expires[w] /\ MyClaim(w) # NoClaim
      <4>1. claims[w] - 1 \in Nat /\ expires[w] \in Int
        BY <1>0, <2>2 DEF TypeOK, ClaimOf, Executing, Busy
      <4>2. MyClaim(w) \in Claim
        BY <4>1 DEF MyClaim, Claim
      <4> QED
        BY <4>2, NoClaimAssumption DEF MyClaim
    <3>3. Time(w) \in Int /\ expires[w] \in Int
      BY <1>0 DEF TypeOK, Time
    <3> QED
      BY <2>3, <3>1, <3>2, <3>3 DEF Unclaimed
  <2>5. ASSUME NEW v \in Worker, pc[v] = "swap", pc'[v] = "read", task = etag[v]
        PROVE  FALSE
    <3>1. saving[v] # "claim" /\ etag[v].preclaim = MyClaim(v)
      BY <1>0, <2>4, <2>5 DEF ClaimOf, Busy
    <3>2. v = w
      BY <2>3, <2>5, <3>1 DEF MyClaim
    <3> QED
      BY <2>1, <2>5, <3>2
  <2>6. ASSUME NEW p \in late, task = p.old PROVE FALSE
    <3>1. Over(MyClaim(w)) /\ MyClaim(w) # NoClaim
      BY <1>0, <2>3, <2>4, <2>6 DEF ClaimLate
    <3>2. Busy(w) /\ claims[w] \in Nat
      BY <1>0, <2>2 DEF TypeOK, Executing, Busy
    <3> QED
      BY <3>1, <3>2 DEF Over, MyClaim
  <2>7. ASSUME NEW v \in Worker, pc[v] = "delete" PROVE FALSE
    BY <2>3, <2>7 DEF Kept
  <2> QED
    BY <1>0, <2>1, <2>3, <2>5, <2>6, <2>7, TaskChange
<1>3. CASE UNCHANGED workerVars
  BY <1>2, <1>3 DEF workerVars
<1>4. ASSUME NEW v \in Worker, Work(v) \/ Stop(v), v # w PROVE task' = Known(w)'
  BY <1>0, <1>2, <1>4, OthersKept
<1> QED
  BY <1>1, <1>3, <1>4 DEF Next, Advance, LateApply, vars

-----------------------------------------------------------------------------
(***************************************************************************)
(* Theorems.                                                               *)
(***************************************************************************)

\* The invariant of main.go preclaimTask, save, process and execute, of one
\* task and any number of workers.
THEOREM Invariance == Spec => []IInv
<1>1. Init => IInv
  BY ShapeInit, RecordedInit, KeptInit, ClaimsInit, OwnerInit DEF IInv
<1>2. IInv /\ [Next]_vars => IInv'
  BY ShapeStep, RecordedStep, KeptStep, ClaimsStep, OwnerStep DEF IInv
<1> QED
  BY <1>1, <1>2, PTL DEF Spec

\* Every variable keeps its type: a worker that executes has a whole job and
\* the content it last stored (main.go claimedTask).
THEOREM TypeCorrectness == Spec => []TypeOK
<1>1. IInv => TypeOK
  BY DEF IInv, Shape
<1> QED
  BY <1>1, Invariance, PTL

\* With synchronised clocks no two workers execute the task at a time: the
\* conditional PUT of save, the expiry of the claim and the context's deadline
\* (main.go preclaimTask, save, execute) are enough, without the scanner lease.
THEOREM ExecutorUnique == Spec => []OneExecutor
<1>1. IInv => OneExecutor
  <2> SUFFICES ASSUME IInv, Synchronised, NEW v \in Worker, NEW w \in Worker,
                      Executing(v), Executing(w)
               PROVE  v = w
    BY DEF OneExecutor
  <2>1. Known(v) = Known(w)
    BY DEF IInv, Owner
  <2>2. MyClaim(v) = MyClaim(w)
    BY <2>1, Executes DEF IInv
  <2> QED
    BY <2>2 DEF MyClaim
<1> QED
  BY <1>1, Invariance, PTL

\* With synchronised clocks an SMTP transaction is opened only for a recipient
\* the stored task has pending (main.go process: "Confirmed recipients are
\* skipped on retries").
THEOREM SentPending == Spec => OnlyPendingSent
<1>1. ASSUME IInv, [Next]_vars, Synchronised, NEW w \in Worker,
             pc[w] # "sending", pc'[w] = "sending"
      PROVE  task # NoTask /\ task.rcpt[i'[w]].state = "pending"
  <2>0. TypeOK /\ Control(w) /\ Shape
    BY <1>1 DEF IInv, Shape
  <2>1. Work(w) \/ Stop(w)
    <3>1. ASSUME NEW v \in Worker, Work(v) \/ Stop(v), v # w PROVE pc'[w] = pc[w]
      BY <2>0, <3>1, OthersKept
    <3> QED
      BY <1>1, <3>1 DEF Next, Advance, LateApply, vars, workerVars
  <2>2. ~Forget(w) /\ \A step, j : ~Save(w, step, j)
    BY <1>1, <2>0 DEF Forget, Save, TypeOK
  <2>3. SendStart(w)
    <3>1. ~SaveRead(w)
      BY <1>1, <2>0, <2>2 DEF SaveRead, After, TypeOK, Saves
    <3>2. ~Preclaim(w) /\ ~PreclaimComplete(w) /\ ~SaveSwap(w) /\ ~Start(w)
          /\ ~SendLoopEnd(w) /\ ~RemoteAccept(w)
      BY <1>1, <2>0, <2>2 DEF Preclaim, PreclaimComplete, SaveSwap, Start, SendLoopEnd,
         RemoteAccept, TypeOK
    <3>3. ~Archive(w) /\ ~SendResult(w) /\ ~Notify(w) /\ ~Finish(w) /\ ~Delete(w) /\ ~Stop(w)
      BY <2>2 DEF Archive, SendResult, Notify, Finish, Delete, Stop
    <3> QED
      BY <2>1, <3>1, <3>2, <3>3 DEF Work
  <2>4. Executing(w) /\ pc[w] = "loop" /\ job[w].rcpt[i'[w]].state = "pending"
    <3>1. PICK r \in i[w]..N :
            /\ Eligible(job[w], r, Time(w)) /\ Live(w)
            /\ i' = [i EXCEPT ![w] = r]
      BY <2>2, <2>3 DEF SendStart
    <3>2. i'[w] = r
      BY <2>0, <3>1 DEF TypeOK
    <3> QED
      BY <2>3, <3>1, <3>2 DEF SendStart, Executing, Eligible, Due
  <2>5. task = Known(w) /\ Known(w) \in Job /\ Known(w) = job[w]
    BY <1>1, <2>0, <2>4, Executes DEF IInv, Owner, Known, Control
  <2> QED
    BY <2>4, <2>5
<1>2. IInv /\ [Next]_vars =>
        (Synchronised => \A w \in Worker : pc[w] # "sending" /\ pc'[w] = "sending" =>
            task # NoTask /\ task.rcpt[i'[w]].state = "pending")
  BY <1>1
<1> QED
  BY <1>2, Invariance, PTL DEF Spec, OnlyPendingSent

\* "An old worker cannot overwrite a successor" (main.go save): no step, of any
\* worker or of a PUT in flight, undoes what the object records.
THEOREM ProgressIsKept == Spec => ProgressKept
<1>1. ASSUME IInv, [Next]_vars, task # NoTask, task' # NoTask
      PROVE  Extends(task, task')
  <2>1. task \in Job
    BY <1>1 DEF IInv, Shape, TypeOK
  <2>2. task' = task \/ Successor(task, task')
    BY <1>1, TaskStep DEF IInv
  <2> QED
    BY <2>1, <2>2, ExtendsReflexive DEF Successor
<1>2. IInv /\ [Next]_vars =>
        (task # NoTask /\ task' # NoTask =>
          /\ task.archived => task'.archived
          /\ task.notified => task'.notified
          /\ task.complete => task' = task
          /\ \A r \in Rcpt :
                /\ task.rcpt[r].attempts <= task'.rcpt[r].attempts
                /\ task.rcpt[r].state # "pending" =>
                       task'.rcpt[r] = task.rcpt[r])
  BY <1>1 DEF Extends
<1> QED
  BY <1>2, Invariance, PTL DEF Spec, ProgressKept

-----------------------------------------------------------------------------
(***************************************************************************)
(* Refinement of OutboundDelivery.                                         *)
(***************************************************************************)

\* The ledger that a content stands for.
LedgerOf(j) == IF j = NoTask THEN NoTask ELSE [r \in Rcpt |-> j.rcpt[r].state]

LEMMA LedgerQueued ==
  ASSUME NEW j \in Job
  PROVE  LedgerOf(j) # NoTask /\ \A r \in Rcpt : LedgerOf(j)[r] = j.rcpt[r].state
<1>1. \A r \in Rcpt : j.rcpt[r].state \in {"pending", "delivered", "failed"}
  BY DEF Job, Recipient
<1>2. [r \in Rcpt |-> j.rcpt[r].state] \in [Rcpt -> {"pending", "delivered", "failed"}]
  BY <1>1
<1> QED
  BY <1>2, NoLedgerAssumption DEF LedgerOf

\* A step that stores a sound successor settles one recipient, or none.
LEMMA SettleStep ==
  ASSUME NEW old \in Job, NEW new \in Job, task = old, task' = new,
         Successor(old, new), Sound(new), UNCHANGED worldVars
  PROVE  [Ledger!Next]_(Ledger!vars)
<1>1. PICK r \in Rcpt : \A s \in Rcpt \ {r} : new.rcpt[s].state = old.rcpt[s].state
  BY DEF Successor
<1>2. /\ LedgerOf(old) = [s \in Rcpt |-> old.rcpt[s].state] /\ LedgerOf(old) # NoTask
      /\ LedgerOf(new) = [s \in Rcpt |-> new.rcpt[s].state] /\ LedgerOf(new) # NoTask
  BY LedgerQueued DEF LedgerOf
<1>3. new.rcpt[r].state \in {"pending", "delivered", "failed"}
  BY DEF Job, Recipient
<1>4. LedgerOf(new) = [LedgerOf(old) EXCEPT ![r] = new.rcpt[r].state]
  BY <1>1, <1>2
<1>5. CASE new.rcpt[r].state = old.rcpt[r].state
  <2>1. LedgerOf(new) = LedgerOf(old)
    BY <1>1, <1>2, <1>5
  <2> QED
    BY <2>1 DEF Ledger!vars, LedgerOf, worldVars
<1>6. CASE new.rcpt[r].state # old.rcpt[r].state
  <2>1. old.rcpt[r].state = "pending"
    BY <1>6 DEF Successor, Extends
  <2>2. LedgerOf(old)[r] = "pending"
    BY <1>2, <2>1
  <2>3. new.rcpt[r].state = "delivered" => r \in accepted
    BY DEF Sound, SoundIn
  <2>4. \/ new.rcpt[r].state = "delivered" /\ Ledger!Confirm(r)
        \/ new.rcpt[r].state = "failed" /\ Ledger!Fail(r)
    BY <1>2, <1>3, <1>4, <1>6, <2>1, <2>2, <2>3
       DEF Ledger!Confirm, Ledger!Fail, Ledger!Settle, Ledger!Queued, LedgerOf, worldVars
  <2> QED
    BY <2>4 DEF Ledger!Next
<1> QED
  BY <1>5, <1>6

LEMMA LedgerStep == IInv /\ [Next]_vars => [Ledger!Next]_(Ledger!vars)
<1> SUFFICES ASSUME IInv, [Next]_vars PROVE [Ledger!Next]_(Ledger!vars)
  OBVIOUS
<1>0. /\ TypeOK /\ Shape /\ Recorded /\ Kept
      /\ \A w \in Worker : Control(w) /\ Mine(w)
  BY DEF IInv, Shape, Recorded
<1>1. CASE UNCHANGED task /\ UNCHANGED worldVars
  BY <1>1 DEF Ledger!vars, worldVars
<1>2. ASSUME NEW p \in late, LateApply(p) PROVE [Ledger!Next]_(Ledger!vars)
  <2>1. p.old \in Job /\ p.new \in Job /\ Successor(p.old, p.new) /\ Sound(p.new)
    BY <1>0 DEF TypeOK, Put, Recorded
  <2>2. UNCHANGED worldVars /\ (task' = task \/ (task = p.old /\ task' = p.new))
    BY <1>2 DEF LateApply, Matches
  <2> QED
    BY <1>1, <2>1, <2>2, SettleStep
<1>3. ASSUME NEW w \in Worker, SaveSwap(w) PROVE [Ledger!Next]_(Ledger!vars)
  <2>1. /\ etag[w] \in Job /\ job[w] \in Job /\ Successor(etag[w], job[w])
        /\ Sound(job[w])
    BY <1>0, <1>3 DEF SaveSwap, Control, Mine, InSave, Busy
  <2>2. UNCHANGED worldVars /\ (task' = task \/ (task = etag[w] /\ task' = job[w]))
    BY <1>3 DEF SaveSwap, Matches
  <2> QED
    BY <1>1, <2>1, <2>2, SettleStep
<1>4. ASSUME NEW w \in Worker, Archive(w) PROVE [Ledger!Next]_(Ledger!vars)
  <2>1. /\ UNCHANGED <<task, accepted, reported>> /\ archived' \in {archived, TRUE}
    BY <1>4 DEF Archive, storeVars
  <2> QED
    BY <2>1 DEF Ledger!Next, Ledger!Archive, Ledger!vars
<1>5. ASSUME NEW w \in Worker, RemoteAccept(w) PROVE [Ledger!Next]_(Ledger!vars)
  <2>1. i[w] \in Rcpt
    BY <1>0, <1>5 DEF RemoteAccept, Control
  <2>2. Ledger!Accept(i[w])
    BY <1>5 DEF RemoteAccept, Ledger!Accept, storeVars
  <2> QED
    BY <2>1, <2>2 DEF Ledger!Next
<1>6. ASSUME NEW w \in Worker, Notify(w) PROVE [Ledger!Next]_(Ledger!vars)
  <2>1. /\ UNCHANGED <<task, accepted, archived>>
        /\ reported' \in {reported, reported \cup Failed(job[w])}
    BY <1>6 DEF Notify, storeVars
  <2>2. /\ job[w] \in Job /\ Known(w) = job[w] /\ ~Pending(job[w]) /\ Busy(w)
    BY <1>0, <1>6 DEF Notify, Control, Busy, Known
  <2>3. CASE task = NoTask
    <3>1. Failed(job[w]) \subseteq reported
      BY <1>0, <2>2, <2>3 DEF Kept
    <3> QED
      BY <1>1, <2>1, <3>1 DEF worldVars
  <2>4. CASE task # NoTask
    <3>1. task \in Job /\ \A r \in Rcpt : task.rcpt[r] = job[w].rcpt[r]
      BY <1>0, <2>2, <2>4 DEF TypeOK, Kept, Extends, Pending
    <3>2. /\ LedgerOf(task) # NoTask
          /\ \A r \in Rcpt : LedgerOf(task)[r] # "pending"
          /\ \A r \in Failed(job[w]) : LedgerOf(task)[r] = "failed"
      BY <2>2, <3>1, LedgerQueued DEF Failed, Pending
    <3>3. Failed(job[w]) \in SUBSET Rcpt
      BY DEF Failed
    <3>4. CASE reported' = reported \cup Failed(job[w])
      <4>1. Ledger!Report(Failed(job[w]))
        BY <2>1, <3>2, <3>4 DEF Ledger!Report, Ledger!Queued, LedgerOf
      <4> QED
        BY <3>3, <4>1 DEF Ledger!Next
    <3> QED
      BY <1>1, <2>1, <3>4 DEF worldVars
  <2> QED
    BY <2>3, <2>4
<1>7. ASSUME NEW w \in Worker, Delete(w) PROVE [Ledger!Next]_(Ledger!vars)
  <2>1. UNCHANGED worldVars /\ task' = NoTask
    BY <1>7 DEF Delete
  <2>2. CASE task # NoTask
    <3>1. task \in Job /\ task.complete
      BY <1>0, <1>7, <2>2 DEF Delete, Kept, TypeOK
    <3>2. /\ archived /\ ~Pending(task) /\ Failed(task) \subseteq reported
      BY <1>0, <2>2, <3>1 DEF Recorded, Sound, SoundIn
    <3>3. \A r \in Rcpt : task.rcpt[r].state \in {"pending", "delivered", "failed"}
      BY <3>1 DEF Job, Recipient
    <3>4. \A r \in Rcpt : \/ LedgerOf(task)[r] = "delivered"
                          \/ LedgerOf(task)[r] = "failed" /\ r \in reported
      BY <3>1, <3>2, <3>3, LedgerQueued DEF Pending, Failed
    <3>5. Ledger!Remove
      BY <2>1, <2>2, <3>1, <3>2, <3>4, LedgerQueued
         DEF Ledger!Remove, Ledger!Queued, LedgerOf, worldVars
    <3> QED
      BY <3>5 DEF Ledger!Next
  <2> QED
    BY <1>1, <2>1, <2>2
<1>8. CASE Advance \/ UNCHANGED vars
  BY <1>1, <1>8 DEF Advance, vars, storeVars
<1>9. ASSUME NEW w \in Worker,
             Preclaim(w) \/ PreclaimComplete(w) \/ SaveRead(w) \/ Start(w) \/ SendStart(w)
               \/ SendResult(w) \/ SendLoopEnd(w) \/ Finish(w) \/ Stop(w)
      PROVE  [Ledger!Next]_(Ledger!vars)
  BY <1>1, <1>9 DEF Preclaim, PreclaimComplete, SaveRead, Start, SendStart, SendResult,
     SendLoopEnd, Finish, Stop, storeVars
<1> QED
  BY <1>2, <1>3, <1>4, <1>5, <1>6, <1>7, <1>8, <1>9 DEF Next, Work

\* Whatever the clocks, crashes and late PUTs, the task does what its sender
\* may rely on: each recipient is settled once, delivered only if accepted, and
\* the message leaves when all is settled, told and archived (README.md, "Queue
\* ownership and recovery").
THEOREM DeliveryImplemented == Spec => ImplementsDelivery
<1>1. Init => Ledger!Init
  <2> SUFFICES ASSUME Init PROVE Ledger!Init
    OBVIOUS
  <2>1. task \in Job
    BY TaskInit
  <2>2. \A r \in Rcpt : task.rcpt[r].state = "pending"
    BY DEF Init
  <2>3. LedgerOf(task) = [r \in Rcpt |-> "pending"]
    BY <2>1, <2>2 DEF LedgerOf
  <2> QED
    BY <2>3 DEF Init, Ledger!Init, LedgerOf
<1> QED
  BY <1>1, LedgerStep, Invariance, PTL DEF Spec, ImplementsDelivery, Ledger!Spec
=============================================================================
