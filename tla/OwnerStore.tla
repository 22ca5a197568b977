----------------------------- MODULE OwnerStore -----------------------------
(***************************************************************************)
(* The account store of the JMAP backend: jmapOwnerState in main.go.       *)
(*                                                                         *)
(* An account is one account file (head), which carries the small user     *)
(* values and the decision of the newest transaction, and one object per   *)
(* owned record.  A write prepares an immutable object per changed record, *)
(* swaps the account file, whose pending list names them, and leaves it to *)
(* the next write or to a flush loop, on any node, to move them to their   *)
(* stable places.  Every node caches the whole account and checks it by    *)
(* the ETag of the account file.                                           *)
(*                                                                         *)
(* One action is one S3 request.  s.mu makes a node one process.  Contents *)
(* stand for their ETags: a transaction id is a fresh nonce.               *)
(***************************************************************************)
EXTENDS Integers, FiniteSets

CONSTANTS
    Node,     \* processes serving the account
    Key,      \* keys with an object of their own (jmapOwnedKey)
    User,     \* the key kept in the account file
    Batches,  \* batches of WriteBatch: functions from fields to operations
    Legacy,   \* content of the old whole-account state.json, if any
    MaxTx,    \* bound: transaction ids drawn
    MaxLate,  \* bound: PUTs in flight after their client gave up
    None      \* "no such object", "not pending", "not committed"

Field == Key \cup {User}
Tx    == 0..MaxTx
State == [Field -> Nat]                 \* 0: the key is absent
Rec   == [tx : Tx, val : Nat]           \* val = 0: Deleted
Head  == [tx : Tx, user : Nat, pending : [Key -> Rec \cup {None}]]

ASSUME UserAssumption    == User \notin Key
ASSUME MaxTxAssumption   == MaxTx \in Nat
ASSUME LegacyAssumption  == Legacy \in State
ASSUME BatchesAssumption == Batches \subseteq [Field -> {"add", "del", "keep"}]
ASSUME NoneAssumption    == None \notin Rec \cup Nat \cup State

VARIABLES
    head,         \* the account file
    record,       \* the object of each owned key; tx = 0: no object
    prepared,     \* the prepare object of each key and transaction
    lateHeads,    \* swaps of the account file the server may still apply
    lateRecords,  \* the same for record objects
    ntx,          \* transaction ids drawn
    pc, why,      \* where each node is, and in which operation
    loaded,       \* s.loaded
    data,         \* s.data
    hd,           \* s.head
    etag,         \* s.etag: the account file it stands for
    final,        \* s.finalized
    got,          \* refresh: the account file being rebuilt from
    todo,         \* records left to read, to flush or to prepare
    buf,          \* the state being read, or the state being written
    next,         \* persist: the account file to be published
    hist          \* history: the state each published transaction produced

storeVars == <<head, record, prepared, lateHeads, lateRecords, ntx>>
cacheVars == <<loaded, data, hd, etag, final>>
opVars    == <<got, todo, buf, next>>
vars      == <<storeVars, pc, why, cacheVars, opVars, hist>>

PC  == {"idle", "head", "list", "records", "ready", "flush", "prepare",
        "readback"}
Ops == {"read", "batch", "flush"}

NoRec  == [tx |-> 0, val |-> 0]
\* The account before its upgrade; the same file, empty, if there is none.
Old    == [tx |-> 0, user |-> Legacy[User], pending |-> [k \in Key |-> None]]
Nobody == [f \in Field |-> 0]

Pending(h) == {k \in Key : h.pending[k] # None}

Init ==
    /\ head        = Old
    /\ record      = [k \in Key |-> NoRec]
    /\ prepared    = [k \in Key |-> [t \in Tx |-> None]]
    /\ lateHeads   = {}
    /\ lateRecords = {}
    /\ ntx         = 0
    /\ pc          = [n \in Node |-> "idle"]
    /\ why         = [n \in Node |-> "read"]
    /\ loaded      = [n \in Node |-> FALSE]
    /\ data        = [n \in Node |-> Nobody]
    /\ hd          = [n \in Node |-> Old]
    /\ etag        = [n \in Node |-> Old]
    /\ final       = [n \in Node |-> 0]
    /\ got         = [n \in Node |-> Old]
    /\ todo        = [n \in Node |-> {}]
    /\ buf         = [n \in Node |-> Nobody]
    /\ next        = [n \in Node |-> Old]
    /\ hist        = [t \in Tx |-> IF t = 0 THEN Legacy ELSE None]

-----------------------------------------------------------------------------
\* The operation returns; what it held in local variables is gone.
Leave(n) ==
    /\ pc'   = [pc EXCEPT ![n] = "idle"]
    /\ got'  = [got EXCEPT ![n] = Old]
    /\ todo' = [todo EXCEPT ![n] = {}]
    /\ buf'  = [buf EXCEPT ![n] = Nobody]
    /\ next' = [next EXCEPT ![n] = Old]
    /\ why'  = [why EXCEPT ![n] = "read"]

\* persist serves the upgrade as long as no transaction is known.
Upgrading(n) == pc[n] \in {"flush", "prepare", "readback"} /\ hd[n].tx = 0

\* The operation returns an error; a failed upgrade drops the cache.
Fail(n) ==
    /\ Leave(n)
    /\ loaded' = [loaded EXCEPT ![n] = @ /\ ~Upgrading(n)]
    /\ UNCHANGED <<data, hd, etag, final>>

\* It returns fs.ErrExist: WriteBatch drops the cache, the flush loop does not.
FailExist(n) ==
    /\ Leave(n)
    /\ loaded' = [loaded EXCEPT ![n] = @ /\ why[n] = "flush" /\ ~Upgrading(n)]
    /\ UNCHANGED <<data, hd, etag, final>>

\* A request fails, the context ends, an assertion of the batch does not hold.
Abort(n) ==
    /\ pc[n] \notin {"idle", "readback"}
    /\ Fail(n)
    /\ UNCHANGED <<storeVars, hist>>

-----------------------------------------------------------------------------
(***************************************************************************)
(* refresh                                                                 *)
(***************************************************************************)
\* flushJMAPOwners: an account in memory with records to move.
NeedsFlush(n) == loaded[n] /\ final[n] # hd[n].tx

Begin(n) ==
    /\ pc[n] = "idle"
    /\ \E op \in Ops :
          /\ op = "flush" => NeedsFlush(n)
          /\ why' = [why EXCEPT ![n] = op]
    /\ pc' = [pc EXCEPT ![n] = "head"]
    /\ UNCHANGED <<storeVars, cacheVars, opVars, hist>>

Unchanged(n) ==
    /\ pc[n] = "head" /\ loaded[n] /\ head = etag[n]
    /\ pc' = [pc EXCEPT ![n] = "ready"]
    /\ UNCHANGED <<storeVars, why, cacheVars, opVars, hist>>

\* An old image, or none, is split into records by a transaction of its own.
LoadLegacy(n) ==
    /\ pc[n] = "head" /\ head.tx = 0
    /\ ~(loaded[n] /\ head = etag[n])
    /\ pc'     = [pc EXCEPT ![n] = "flush"]
    /\ loaded' = [loaded EXCEPT ![n] = TRUE]
    /\ data'   = [data EXCEPT ![n] = Legacy]
    /\ hd'     = [hd EXCEPT ![n] = head]
    /\ etag'   = [etag EXCEPT ![n] = head]
    /\ buf'    = [buf EXCEPT ![n] = Legacy]
    /\ UNCHANGED <<storeVars, why, final, got, todo, next, hist>>

GetHead(n) ==
    /\ pc[n] = "head" /\ head.tx # 0
    /\ ~(loaded[n] /\ head = etag[n])
    /\ pc'  = [pc EXCEPT ![n] = "list"]
    /\ got' = [got EXCEPT ![n] = head]
    /\ UNCHANGED <<storeVars, why, cacheVars, todo, buf, next, hist>>

\* A record created after the listing is not read.
List(n) ==
    /\ pc[n] = "list"
    /\ pc'   = [pc EXCEPT ![n] = "records"]
    /\ todo' = [todo EXCEPT ![n] = {k \in Key : record[k].tx # 0}]
    /\ buf'  = [buf EXCEPT ![n] = [Nobody EXCEPT ![User] = got[n].user]]
    /\ UNCHANGED <<storeVars, why, cacheVars, got, next, hist>>

GetRecord(n, k) ==
    /\ pc[n] = "records" /\ k \in todo[n]
    /\ todo' = [todo EXCEPT ![n] = @ \ {k}]
    /\ buf'  = [buf EXCEPT ![n][k] = record[k].val]
    /\ UNCHANGED <<storeVars, pc, why, cacheVars, got, next, hist>>

\* What a state read record by record becomes under the decision of h.
Overlay(h, s) ==
    [f \in Field |-> IF f \in Pending(h) THEN prepared[f][h.tx] ELSE s[f]]

\* The second look at the account file left out.
Mutant_NoRecheck(n) == TRUE
StillCurrent(n) == head = got[n]

\* The prepare objects, which nobody changes, and then the account file again:
\* "do not combine records from different commits".
Rebuilt(n) ==
    /\ pc[n] = "records" /\ todo[n] = {} /\ StillCurrent(n)
    /\ pc'     = [pc EXCEPT ![n] = "ready"]
    /\ loaded' = [loaded EXCEPT ![n] = TRUE]
    /\ data'   = [data EXCEPT ![n] = Overlay(got[n], buf[n])]
    /\ hd'     = [hd EXCEPT ![n] = got[n]]
    /\ etag'   = [etag EXCEPT ![n] = got[n]]
    /\ got'    = [got EXCEPT ![n] = Old]
    /\ buf'    = [buf EXCEPT ![n] = Nobody]
    /\ UNCHANGED <<storeVars, why, final, todo, next, hist>>

\* Get, MultiGet or Scan answers from the cache, as does every read of the
\* next second, without a step of its own.
ServeRead(n) ==
    /\ pc[n] = "ready" /\ why[n] = "read"
    /\ Leave(n)
    /\ UNCHANGED <<storeVars, cacheVars, hist>>

-----------------------------------------------------------------------------
(***************************************************************************)
(* flush                                                                   *)
(***************************************************************************)
\* A commit does not wait for the records of the one before.
Mutant_NothingToFlush(n) == {}
ToFlush(n) == IF final[n] = hd[n].tx THEN {} ELSE Pending(hd[n])

StartFlush(n) ==
    /\ pc[n] = "ready" /\ why[n] = "flush"
    /\ pc'   = [pc EXCEPT ![n] = "flush"]
    /\ todo' = [todo EXCEPT ![n] = ToFlush(n)]
    /\ UNCHANGED <<storeVars, why, cacheVars, got, buf, next, hist>>

\* The record that the transaction of s.head prepared for k.
Moved(n, k) == [tx |-> hd[n].tx, val |-> prepared[k][hd[n].tx]]

\* The record replaced without a condition.
Mutant_RecordAny(k, old) == record[k] # None
RecordMatches(k, old) == record[k] = old

FlushDone(n, k) ==
    /\ todo' = [todo EXCEPT ![n] = @ \ {k}]
    /\ UNCHANGED <<pc, got, buf, next, why, cacheVars>>

\* Another node has moved the record already.
FlushSkip(n, k) ==
    /\ pc[n] = "flush" /\ k \in todo[n]
    /\ record[k].tx = hd[n].tx
    /\ FlushDone(n, k)
    /\ UNCHANGED <<storeVars, hist>>

\* The PUT is conditional on the ETag read before, which is the previous one;
\* its reply may be lost, or, repeated by the client, be a refusal.
FlushMove(n, k) ==
    /\ pc[n] = "flush" /\ k \in todo[n]
    /\ record[k].tx # hd[n].tx /\ RecordMatches(k, hd[n].pending[k])
    /\ record' = [record EXCEPT ![k] = Moved(n, k)]
    /\ FlushDone(n, k) \/ Fail(n) \/ FailExist(n)
    /\ UNCHANGED <<head, prepared, lateHeads, lateRecords, ntx, hist>>

FlushConflict(n, k) ==
    /\ pc[n] = "flush" /\ k \in todo[n]
    /\ ~RecordMatches(k, hd[n].pending[k])
    /\ FailExist(n)
    /\ UNCHANGED <<storeVars, hist>>

InFlight == Cardinality(lateHeads) + Cardinality(lateRecords)

FlushLate(n, k) ==
    /\ pc[n] = "flush" /\ k \in todo[n] /\ InFlight < MaxLate
    /\ lateRecords' = lateRecords \cup
          {[key |-> k, old |-> hd[n].pending[k], new |-> Moved(n, k)]}
    /\ Fail(n)
    /\ UNCHANGED <<head, record, prepared, lateHeads, ntx, hist>>

LateRecord(p) ==
    /\ lateRecords' = lateRecords \ {p}
    /\ record' = [record EXCEPT ![p.key] =
                     IF RecordMatches(p.key, p.old) THEN p.new ELSE @]
    /\ UNCHANGED <<head, prepared, lateHeads, ntx, pc, why, cacheVars, opVars,
                   hist>>

FlushEnd(n) ==
    /\ pc[n] = "flush" /\ why[n] = "flush" /\ todo[n] = {}
    /\ final' = [final EXCEPT ![n] = hd[n].tx]
    /\ Leave(n)
    /\ UNCHANGED <<storeVars, loaded, data, hd, etag, hist>>

-----------------------------------------------------------------------------
(***************************************************************************)
(* WriteBatch and persist                                                  *)
(***************************************************************************)
\* OpAdd, and a value set from one read before under an assertion; OpDelete.
Change(op, v) == CASE op = "add"  -> v + 1
                   [] op = "del"  -> 0
                   [] op = "keep" -> v

Applied(b, s) == [f \in Field |-> Change(b[f], s[f])]

\* Records persist writes: the changed ones, or at the upgrade all of them.
Written(n) ==
    {k \in Key : IF Upgrading(n) THEN buf[n][k] # 0 ELSE buf[n][k] # data[n][k]}

\* s.etag # "": the account file was seen, be it an old image.
Versioned(n) == etag[n].tx # 0 \/ Legacy # Nobody

\* A batch that changes nothing touches no object.
StartBatch(n) ==
    /\ pc[n] = "ready" /\ why[n] = "batch"
    /\ \E b \in Batches :
         LET new == Applied(b, data[n])
         IN  IF new = data[n] /\ Versioned(n)
             THEN Leave(n)
             ELSE /\ pc'   = [pc EXCEPT ![n] = "flush"]
                  /\ todo' = [todo EXCEPT ![n] = ToFlush(n)]
                  /\ buf'  = [buf EXCEPT ![n] = new]
                  /\ UNCHANGED <<why, got, next>>
    /\ UNCHANGED <<storeVars, cacheVars, hist>>

\* Everything older is in its place: the transaction is given its identifier.
Draw(n) ==
    /\ pc[n] = "flush" /\ todo[n] = {} /\ ntx < MaxTx
    /\ why[n] = "flush" => Upgrading(n)
    /\ ntx'   = ntx + 1
    /\ pc'    = [pc EXCEPT ![n] = "prepare"]
    /\ final' = [final EXCEPT ![n] = hd[n].tx]
    /\ next'  = [next EXCEPT ![n] = [Old EXCEPT !.tx   = ntx + 1,
                                                !.user = buf[n][User]]]
    /\ todo'  = [todo EXCEPT ![n] = Written(n)]
    /\ UNCHANGED <<head, record, prepared, lateHeads, lateRecords, why, loaded,
                   data, hd, etag, got, buf, hist>>

Prepare(n, k) ==
    /\ pc[n] = "prepare" /\ k \in todo[n]
    /\ prepared' = [prepared EXCEPT ![k][next[n].tx] = buf[n][k]]
    /\ next' = [next EXCEPT ![n].pending[k] = record[k]]
    /\ todo' = [todo EXCEPT ![n] = @ \ {k}]
    /\ UNCHANGED <<head, record, lateHeads, lateRecords, ntx, pc, why,
                   cacheVars, got, buf, hist>>

\* The account file replaced whatever it is by now.
Mutant_HeadAny(old) == head.tx >= old.tx
HeadMatches(old) == head = old

Publish(n) ==
    /\ pc[n] = "prepare" /\ todo[n] = {} /\ HeadMatches(etag[n])
    /\ head' = next[n]
    /\ hist' = [hist EXCEPT ![next[n].tx] = buf[n]]
    /\ \/ /\ pc' = [pc EXCEPT ![n] = "readback"]
          /\ UNCHANGED <<why, opVars, cacheVars>>
       \/ Fail(n) \/ FailExist(n)     \* published, but the reply is lost
    /\ UNCHANGED <<record, prepared, lateHeads, lateRecords, ntx>>

PublishConflict(n) ==
    /\ pc[n] = "prepare" /\ todo[n] = {} /\ ~HeadMatches(etag[n])
    /\ FailExist(n)
    /\ UNCHANGED <<storeVars, hist>>

PublishLate(n) ==
    /\ pc[n] = "prepare" /\ todo[n] = {} /\ InFlight < MaxLate
    /\ lateHeads' = lateHeads \cup
          {[old |-> etag[n], new |-> next[n], data |-> buf[n]]}
    /\ Fail(n)
    /\ UNCHANGED <<head, record, prepared, lateRecords, ntx, hist>>

LateHead(p) ==
    /\ lateHeads' = lateHeads \ {p}
    /\ IF HeadMatches(p.old)
       THEN head' = p.new /\ hist' = [hist EXCEPT ![p.new.tx] = p.data]
       ELSE UNCHANGED <<head, hist>>
    /\ UNCHANGED <<record, prepared, lateRecords, ntx, pc, why, cacheVars,
                   opVars>>

\* The file is read back for its ETag, which is adopted only with the very
\* content just written.  After an upgrade the operation goes on.
Readback(n) ==
    /\ pc[n] = "readback"
    /\ \/ head = next[n] /\ etag' = [etag EXCEPT ![n] = head] /\ UNCHANGED loaded
       \/ loaded' = [loaded EXCEPT ![n] = FALSE] /\ UNCHANGED etag
    /\ hd'    = [hd EXCEPT ![n] = next[n]]
    /\ final' = [final EXCEPT ![n] = 0]
    /\ data'  = [data EXCEPT ![n] = buf[n]]
    /\ IF Upgrading(n)
       THEN /\ pc'   = [pc EXCEPT ![n] = "ready"]
            /\ buf'  = [buf EXCEPT ![n] = Nobody]
            /\ next' = [next EXCEPT ![n] = Old]
            /\ UNCHANGED <<why, got, todo>>
       ELSE Leave(n)
    /\ UNCHANGED <<storeVars, hist>>

-----------------------------------------------------------------------------
Crash(n) ==
    /\ Leave(n)
    /\ loaded' = [loaded EXCEPT ![n] = FALSE]
    /\ data'   = [data EXCEPT ![n] = Nobody]
    /\ hd'     = [hd EXCEPT ![n] = Old]
    /\ etag'   = [etag EXCEPT ![n] = Old]
    /\ final'  = [final EXCEPT ![n] = 0]
    /\ UNCHANGED <<storeVars, hist>>

Refresh(n) ==
    \/ Unchanged(n) \/ LoadLegacy(n) \/ GetHead(n) \/ List(n)
    \/ \E k \in Key : GetRecord(n, k)
    \/ Rebuilt(n)

Flush(n) ==
    \/ StartFlush(n)
    \/ \E k \in Key : \/ FlushSkip(n, k) \/ FlushMove(n, k)
                      \/ FlushConflict(n, k) \/ FlushLate(n, k)
    \/ FlushEnd(n)

Persist(n) ==
    \/ StartBatch(n) \/ Draw(n)
    \/ \E k \in Key : Prepare(n, k)
    \/ Publish(n) \/ PublishConflict(n) \/ PublishLate(n) \/ Readback(n)

Next ==
    \/ \E n \in Node : \/ Begin(n) \/ ServeRead(n)
                       \/ Refresh(n) \/ Flush(n) \/ Persist(n)
                       \/ Abort(n) \/ Crash(n)
    \/ \E p \in lateRecords : LateRecord(p)
    \/ \E p \in lateHeads : LateHead(p)

Spec == Init /\ [][Next]_vars

-----------------------------------------------------------------------------
(***************************************************************************)
(* Properties.                                                             *)
(***************************************************************************)

\* Every variable keeps its type; a record, in particular, always has a value,
\* so the prepare object it was moved from existed.
TypeOK ==
    /\ head     \in Head
    /\ record   \in [Key -> Rec]
    /\ prepared \in [Key -> [Tx -> Nat \cup {None}]]
    /\ lateHeads   \in SUBSET [old : Head, new : Head, data : State]
    /\ lateRecords \in SUBSET [key : Key, old : Rec, new : Rec]
    /\ ntx      \in Tx
    /\ pc       \in [Node -> PC]
    /\ why      \in [Node -> Ops]
    /\ loaded   \in [Node -> BOOLEAN]
    /\ data     \in [Node -> State]
    /\ hd       \in [Node -> Head]
    /\ etag     \in [Node -> Head]
    /\ final    \in [Node -> Tx]
    /\ got      \in [Node -> Head]
    /\ todo     \in [Node -> SUBSET Key]
    /\ buf      \in [Node -> State]
    /\ next     \in [Node -> Head]
    /\ hist     \in [Tx -> State \cup {None}]

\* What a node that read every object now would find.
Stored == [f \in Field |-> IF f = User THEN head.user
                           ELSE IF f \in Pending(head) THEN prepared[f][head.tx]
                           ELSE record[f].val]

\* "Recovery follows the published decision": at every instant, in the middle
\* of any flush and after any crash, the objects yield exactly the account the
\* last published transaction produced.  (Before the upgrade the account is in
\* the old image.)
Recoverable == head.tx # 0 => Stored = hist[head.tx]

\* A node answers, and computes its next batch, from one committed state: its
\* cache never mixes records of two transactions.
CachedIsCommitted ==
    \A n \in Node : loaded[n] \/ pc[n] = "ready" => data[n] = hist[hd[n].tx]

\* A flush, however old its view or late its PUT, never replaces the record of
\* a newer transaction, and only published transactions reach the records.
RecordsForward ==
    [][ \A k \in Key : record'[k] # record[k] =>
            /\ record[k].tx < record'[k].tx
            /\ hist[record'[k].tx] # None ]_vars

\* The objects and caches implement one serial account: each batch is applied
\* whole to the newest state, none is lost, and no node goes back in time.
Account == INSTANCE AccountStore WITH
               view <- [n \in Node |->
                          [tx   |-> hd[n].tx,
                           data |-> IF hd[n].tx = 0 THEN Legacy ELSE data[n]]]
ImplementsAccount == Account!Spec
=============================================================================
