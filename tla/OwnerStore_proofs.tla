-------------------------- MODULE OwnerStore_proofs --------------------------
(***************************************************************************)
(* Proofs about OwnerStore for any nodes, keys, batches and bounds: at     *)
(* every instant the objects yield the account that the last published     *)
(* transaction produced, a cache is one committed state, records only move *)
(* to newer committed transactions, and all of it implements the serial    *)
(* account of AccountStore.                                                *)
(***************************************************************************)
EXTENDS OwnerStore, TLAPS

USE UserAssumption, MaxTxAssumption, LegacyAssumption, BatchesAssumption, NoneAssumption

-----------------------------------------------------------------------------
(***************************************************************************)
(* The inductive invariant.                                                *)
(***************************************************************************)

\* The records of the newest decision are all in their places.
Settled == \A k \in Pending(head) : record[k].tx = head.tx

\* The account file decides: each record is where it was before the newest
\* transaction or where that one puts it.
Decided ==
    /\ head.tx <= ntx /\ hist[0] = Legacy /\ hist[head.tx] # None
    /\ \A t \in Tx : hist[t] # None => t <= head.tx
    /\ head.tx = 0 => head = Old /\ \A k \in Key : record[k] = NoRec
    /\ head.user = hist[head.tx][User]
    /\ \A k \in Pending(head) :
          /\ prepared[k][head.tx] = hist[head.tx][k]
          /\ head.pending[k].tx < head.tx
          /\ record[k] \in {head.pending[k], [tx |-> head.tx, val |-> hist[head.tx][k]]}
    /\ \A k \in Key \ Pending(head) :
          /\ record[k].tx <= head.tx
          /\ head.tx # 0 => record[k].val = hist[head.tx][k]
    /\ \A k \in Key : record[k].tx = 0 => record[k] = NoRec

\* An account file that is or was published: its records are moved before it
\* is replaced.
Known(h) ==
    /\ h.tx <= head.tx /\ hist[h.tx] # None
    /\ h.tx = 0 => h = Old
    /\ h.tx = head.tx => h = head
    /\ h.user = hist[h.tx][User]
    /\ \A k \in Pending(h) :
          /\ prepared[k][h.tx] = hist[h.tx][k]
          /\ h.pending[k].tx < h.tx
          /\ h # head => h.tx <= record[k].tx

\* What a batch, or the upgrade, makes of a committed state.
Made(t, s, d) ==
    \/ t = 0 /\ d = Legacy
    \/ \E bt \in Batches : d = Applied(bt, s)

\* A transaction that may be published over `old', but for the records of K.
Offer(old, new, d, K) ==
    /\ new.tx \in 1 .. ntx /\ old.tx < new.tx /\ hist[new.tx] = None
    /\ new.user = d[User] /\ K \cap Pending(new) = {}
    /\ \A k \in Pending(new) : prepared[k][new.tx] = d[k]
    /\ head = old =>
          /\ Settled
          /\ Made(old.tx, hist[old.tx], d)
          /\ \A k \in Pending(new) : new.pending[k] = record[k]
          /\ \A k \in Key \ (Pending(new) \cup K) : d[k] = record[k].val

\* The cache is one committed state, and its ETag stands for that.
Cached(n) ==
    loaded[n] \/ pc[n] \in {"ready", "flush", "prepare"} =>
        /\ data[n] = hist[hd[n].tx]
        /\ head = etag[n] => hd[n] = etag[n]

Upgraded(n) ==
    (loaded[n] /\ pc[n] \notin {"flush", "prepare", "readback"}) \/ pc[n] = "ready"
        => hd[n].tx # 0

\* Records read under one account file.
Reading(n) ==
    /\ pc[n] \in {"list", "records"} => got[n].tx # 0
    /\ pc[n] = "records" =>
          /\ buf[n][User] = got[n].user
          /\ head = got[n] => \A k \in Key \ (Pending(got[n]) \cup todo[n]) :
                                 buf[n][k] = hist[got[n].tx][k]

\* Records moved before the next transaction.
Flushing(n) ==
    /\ final[n] <= head.tx /\ (final[n] = head.tx => Settled)
    /\ pc[n] \notin {"records", "flush", "prepare"} => todo[n] = {}
    /\ why[n] = "flush" => hd[n].tx # 0
    /\ pc[n] = "flush" =>
          /\ todo[n] \subseteq Pending(hd[n])
          /\ head = hd[n] => \A k \in Pending(head) \ todo[n] : record[k].tx = head.tx
          /\ why[n] # "flush" \/ hd[n].tx = 0 => Made(hd[n].tx, data[n], buf[n])

Publishing(n) ==
    /\ pc[n] = "prepare" => /\ Offer(etag[n], next[n], buf[n], todo[n])
                            /\ hd[n].tx < next[n].tx
    /\ pc[n] = "readback" => /\ Known(next[n]) /\ hd[n].tx < next[n].tx
                             /\ etag[n].tx < next[n].tx
                             /\ hist[next[n].tx] = buf[n]

NodeInv(n) ==
    /\ Known(hd[n]) /\ Known(etag[n]) /\ Known(got[n])
    /\ Cached(n) /\ Upgraded(n) /\ Reading(n) /\ Flushing(n) /\ Publishing(n)

LateHeadInv(p) == Known(p.old) /\ Offer(p.old, p.new, p.data, {})

\* A late PUT of a record is one of the newest transaction, or finds a newer
\* record.
LateRecordInv(p) ==
    /\ p.new.tx <= head.tx /\ p.old.tx < p.new.tx
    /\ p.new.tx = head.tx => /\ p.key \in Pending(head) /\ p.old = head.pending[p.key]
                             /\ p.new.val = hist[head.tx][p.key]
    /\ p.new.tx # head.tx => p.new.tx <= record[p.key].tx

\* No identifier is used twice.
Distinct ==
    /\ \A n, m \in Node : pc[n] = "prepare" /\ pc[m] = "prepare" /\ next[n].tx = next[m].tx => n = m
    /\ \A n \in Node, p \in lateHeads : pc[n] = "prepare" => next[n].tx # p.new.tx
    /\ \A p, q \in lateHeads : p.new.tx = q.new.tx => p = q

IInv ==
    /\ TypeOK /\ Decided /\ Distinct
    /\ \A n \in Node : NodeInv(n)
    /\ \A p \in lateHeads : LateHeadInv(p)
    /\ \A p \in lateRecords : LateRecordInv(p)

-----------------------------------------------------------------------------
(***************************************************************************)
(* Lemmas.                                                                 *)
(***************************************************************************)

\* The constant values have their types, and the empty account file names no
\* record.
LEMMA Values ==
    /\ 0 \in Tx /\ Tx \subseteq Nat /\ Old \in Head /\ Old.tx = 0 /\ Nobody \in State
    /\ Old.user = Legacy[User] /\ Pending(Old) = {}
    /\ NoRec \in Rec /\ NoRec.tx = 0 /\ NoRec.val = 0
    /\ Legacy # None /\ Legacy \in State
<1>1. 0 \in Tx /\ Tx \subseteq Nat
  BY DEF Tx
<1>2. Legacy[User] \in Nat /\ Legacy # None /\ Nobody \in State
  BY DEF State, Field, Nobody
<1>3. NoRec \in Rec /\ NoRec.tx = 0 /\ NoRec.val = 0
  BY <1>1 DEF NoRec, Rec
<1>4. [k \in Key |-> None] \in [Key -> Rec \cup {None}]
  OBVIOUS
<1>5. Old \in Head /\ Old.tx = 0 /\ Old.user = Legacy[User] /\ Pending(Old) = {}
  BY <1>1, <1>2, <1>4 DEF Old, Head, Pending
<1> QED
  BY <1>1, <1>2, <1>3, <1>5

\* A committed state is a state: its fields are values.
LEMMA Committed ==
    ASSUME TypeOK, NEW t \in Tx, hist[t] # None
    PROVE  hist[t] \in State /\ \A f \in Field : hist[t][f] \in Nat /\ hist[t][f] # None
<1>1. hist[t] \in State
  BY DEF TypeOK
<1> QED
  BY <1>1 DEF State

\* The fields of an account file, and of a record a pending list holds.
LEMMA Files ==
    ASSUME NEW h \in Head
    PROVE  /\ h.tx \in Tx /\ h.tx \in Nat /\ h.user \in Nat
           /\ Pending(h) \subseteq Key
           /\ h.pending \in [Key -> Rec \cup {None}]
           /\ \A k \in Pending(h) : /\ h.pending[k] \in Rec /\ h.pending[k].tx \in Nat
                                    /\ h.pending[k].tx \in Tx /\ h.pending[k].val \in Nat
BY Values DEF Head, Pending, Rec

\* No record is newer than the newest decision.
LEMMA RecordsOld ==
    ASSUME TypeOK, Decided, NEW k \in Key
    PROVE  record[k] \in Rec /\ record[k].tx \in Nat /\ record[k].tx <= head.tx
<1>1. record[k] \in Rec /\ record[k].tx \in Nat /\ head \in Head /\ head.tx \in Nat
  BY Values DEF TypeOK, Rec, Head
<1>2. CASE k \in Pending(head)
  <2>1. head.pending[k].tx \in Nat /\ head.pending[k].tx < head.tx
    BY <1>1, <1>2, Files DEF Decided
  <2>2. record[k] \in {head.pending[k], [tx |-> head.tx, val |-> hist[head.tx][k]]}
    BY <1>2 DEF Decided
  <2> QED
    BY <1>1, <2>1, <2>2
<1>3. CASE k \notin Pending(head)
  BY <1>1, <1>3 DEF Decided
<1> QED
  BY <1>1, <1>2, <1>3

\* Once every record is in its place, each holds what the newest transaction
\* made of it.
LEMMA AllInPlace ==
    ASSUME TypeOK, Decided, Settled, head.tx # 0, NEW k \in Key
    PROVE  record[k].val = hist[head.tx][k]
<1>1. CASE k \in Pending(head)
  <2>1. head.pending[k].tx \in Nat /\ head.tx \in Nat /\ head.pending[k].tx < head.tx
    BY <1>1, Files DEF Decided, TypeOK
  <2>2. record[k] \in {head.pending[k], [tx |-> head.tx, val |-> hist[head.tx][k]]}
    BY <1>1 DEF Decided
  <2> QED
    BY <1>1, <2>1, <2>2 DEF Settled
<1>2. CASE k \notin Pending(head)
  BY <1>2 DEF Decided
<1> QED
  BY <1>1, <1>2

\* The account file itself is known, and so is the empty one.
LEMMA HeadKnown ==
    ASSUME TypeOK, Decided
    PROVE  Known(head) /\ Known(Old)
<1>1. Known(head)
  <2>1. head.tx <= head.tx
    BY Files DEF TypeOK
  <2> QED
    BY <2>1 DEF Known, Decided
<1>2. Known(Old)
  BY Values, Files DEF Known, Decided, TypeOK
<1> QED
  BY <1>1, <1>2

\* What every step leaves true of the objects: T is the only
\* transaction it may prepare or publish.
Onward(T) ==
    /\ head.tx <= head'.tx /\ (head' # head => head.tx < head'.tx)
    /\ ntx <= ntx'
    /\ \A t \in Tx : t # T \/ hist[t] # None =>
          hist'[t] = hist[t] /\ \A k \in Key : prepared'[k][t] = prepared[k][t]
    /\ \A k \in Key : record[k].tx <= record'[k].tx
    /\ head' # head => Settled /\ record' = record
    /\ head' = head =>
          \A k \in Key : record'[k] # record[k] =>
             k \in Pending(head) /\ record[k].tx < head.tx /\ record'[k].tx = head.tx

\* A known account file stays known.
LEMMA KnownOn ==
    ASSUME TypeOK, TypeOK', Decided, NEW T, Onward(T), NEW h \in Head, Known(h)
    PROVE  /\ Known(h)'
           /\ hist'[h.tx] = hist[h.tx]
           /\ head' = h => head' = head
<1>1. h.tx \in Tx /\ h.tx \in Nat /\ head.tx \in Nat /\ head'.tx \in Nat
  BY Files DEF TypeOK
<1>2. hist'[h.tx] = hist[h.tx] /\ \A k \in Key : prepared'[k][h.tx] = prepared[k][h.tx]
  BY <1>1 DEF Onward, Known
<1>3. h.tx <= head'.tx /\ (h.tx = head'.tx => head' = head /\ h = head)
  BY <1>1 DEF Onward, Known
<1>4. ASSUME NEW k \in Pending(h), h # head'
      PROVE  h.tx <= record'[k].tx
  <2>1. k \in Key /\ record[k].tx \in Nat /\ record'[k].tx \in Nat
    BY <1>4, Files, Values DEF TypeOK, Rec
  <2>2. record[k].tx <= record'[k].tx
    BY <2>1 DEF Onward
  <2>3. CASE h # head
    BY <1>1, <1>4, <2>1, <2>2, <2>3 DEF Known
  <2>4. CASE h = head
    BY <1>1, <1>4, <2>1, <2>2, <2>4 DEF Onward, Settled
  <2> QED
    BY <2>3, <2>4
<1>5. \A k \in Pending(h) : k \in Key
  BY Files
<1>6. Known(h)'
  BY <1>2, <1>3, <1>4, <1>5 DEF Known, Pending
<1> QED
  BY <1>2, <1>3, <1>6

\* The records of a decision that are in their places stay there.
LEMMA PlaceKept ==
    ASSUME TypeOK, TypeOK', Decided, NEW T, Onward(T), head' = head,
           NEW k \in Key, record[k].tx = head.tx
    PROVE  record'[k] = record[k]
<1>1. record[k].tx \in Nat /\ head.tx \in Nat
  BY RecordsOld, Files DEF TypeOK
<1> QED
  BY <1>1 DEF Onward

LEMMA SettledOn ==
    ASSUME TypeOK, TypeOK', Decided, NEW T, Onward(T), head' = head, Settled
    PROVE  Settled' /\ record' = record
<1>1. record \in [Key -> Rec] /\ record' \in [Key -> Rec]
  BY DEF TypeOK
<1>2. ASSUME NEW k \in Key
      PROVE  record'[k] = record[k]
  BY <1>2, PlaceKept DEF Onward, Settled
<1>3. record' = record
  BY <1>1, <1>2
<1> QED
  BY <1>3 DEF Settled, Pending

\* An offer stays an offer unless its own transaction is touched.
LEMMA OfferOn ==
    ASSUME TypeOK, TypeOK', Decided, NEW T, Onward(T),
           NEW old \in Head, NEW new \in Head, NEW d \in State, NEW K \in SUBSET Key,
           Known(old), Offer(old, new, d, K), new.tx # T
    PROVE  Offer(old, new, d, K)'
<1>1. new.tx \in Tx /\ new.tx \in Nat /\ ntx \in Nat /\ ntx' \in Nat
  BY Files, Values DEF TypeOK
<1>2. hist'[new.tx] = hist[new.tx] /\ \A k \in Key : prepared'[k][new.tx] = prepared[k][new.tx]
  BY <1>1 DEF Onward
<1>3. hist'[old.tx] = hist[old.tx] /\ (head' = old => head' = head)
  BY KnownOn
<1>4. new.tx \in 1 .. ntx'
  BY <1>1 DEF Offer, Onward
<1>5. \A k \in Pending(new) : k \in Key
  BY Files
<1>6. head' = old => Settled' /\ record' = record /\ head = old
  BY <1>3, SettledOn DEF Offer
<1> QED
  BY <1>2, <1>3, <1>4, <1>5, <1>6 DEF Offer, Pending

LEMMA LateHeadOn ==
    ASSUME TypeOK, TypeOK', Decided, NEW T, Onward(T),
           NEW p \in lateHeads, LateHeadInv(p), p.new.tx # T
    PROVE  Known(p.old)' /\ Offer(p.old, p.new, p.data, {})'
<1>1. p.old \in Head /\ p.new \in Head /\ p.data \in State /\ {} \in SUBSET Key
  BY DEF TypeOK
<1>2. PICK old \in Head, new \in Head, d \in State :
         p.old = old /\ p.new = new /\ p.data = d
  BY <1>1
<1>3. Known(old) /\ Offer(old, new, d, {})
  BY <1>2 DEF LateHeadInv
<1>4. Known(old)'
  BY <1>3, KnownOn
<1>5. Offer(old, new, d, {})'
  BY <1>1, <1>2, <1>3, OfferOn
<1> QED
  BY <1>2, <1>4, <1>5

\* A record on its way stays good.
LEMMA LateRecordOn ==
    ASSUME TypeOK, TypeOK', Decided, NEW T, Onward(T), NEW p \in lateRecords, LateRecordInv(p)
    PROVE  LateRecordInv(p)'
<1>1. p.key \in Key /\ p.old.tx \in Nat /\ p.new.tx \in Nat
  BY Values DEF TypeOK, Rec
<1>2. /\ head.tx \in Tx /\ head.tx \in Nat /\ head'.tx \in Nat
      /\ record[p.key].tx \in Nat /\ record'[p.key].tx \in Nat
  BY <1>1, Files, Values DEF TypeOK, Rec
<1>3. p.new.tx <= head'.tx /\ (p.new.tx = head'.tx => head' = head /\ p.new.tx = head.tx)
  BY <1>1, <1>2 DEF Onward, LateRecordInv
<1>4. hist'[head.tx] = hist[head.tx]
  BY <1>2 DEF Onward, Decided
<1>5. ASSUME p.new.tx # head'.tx
      PROVE  p.new.tx <= record'[p.key].tx
  <2>1. CASE p.new.tx # head.tx
    BY <1>1, <1>2, <2>1 DEF Onward, LateRecordInv
  <2>2. CASE p.new.tx = head.tx
    BY <1>1, <1>2, <1>5, <2>2 DEF Onward, LateRecordInv, Settled
  <2> QED
    BY <2>1, <2>2
<1>6. p.new.tx = head'.tx => /\ p.key \in Pending(head') /\ p.old = head'.pending[p.key]
                             /\ p.new.val = hist'[head'.tx][p.key]
  BY <1>3, <1>4 DEF LateRecordInv
<1> QED
  BY <1>3, <1>5, <1>6 DEF LateRecordInv, Pending

\* The local variables of a node, which another node's steps leave alone.
Same(n) ==
    /\ pc'[n] = pc[n] /\ why'[n] = why[n] /\ loaded'[n] = loaded[n] /\ data'[n] = data[n]
    /\ hd'[n] = hd[n] /\ etag'[n] = etag[n] /\ final'[n] = final[n] /\ got'[n] = got[n]
    /\ todo'[n] = todo[n] /\ buf'[n] = buf[n] /\ next'[n] = next[n]

\* The types of one node's variables.
LEMMA NodeTypes ==
    ASSUME TypeOK, NEW n \in Node
    PROVE  /\ pc[n] \in PC /\ why[n] \in Ops /\ loaded[n] \in BOOLEAN
           /\ data[n] \in State /\ buf[n] \in State
           /\ hd[n] \in Head /\ etag[n] \in Head /\ got[n] \in Head /\ next[n] \in Head
           /\ final[n] \in Tx /\ final[n] \in Nat /\ todo[n] \in SUBSET Key
           /\ hd[n].tx \in Nat /\ etag[n].tx \in Nat /\ got[n].tx \in Nat /\ next[n].tx \in Nat
           /\ head \in Head /\ head.tx \in Nat /\ ntx \in Nat
BY Values, Files DEF TypeOK

\* What the cache of a node stands for survives any step.
LEMMA CacheOn ==
    ASSUME TypeOK, TypeOK', Decided, NEW T, Onward(T), NEW n \in Node,
           Known(hd[n]), Known(etag[n]), Cached(n),
           hd'[n] = hd[n], etag'[n] = etag[n], data'[n] = data[n],
           final[n] <= head.tx, final[n] = head.tx => Settled
    PROVE  /\ Known(hd[n])' /\ Known(etag[n])'
           /\ loaded[n] \/ pc[n] \in {"ready", "flush", "prepare"} =>
                 data'[n] = hist'[hd'[n].tx] /\ (head' = etag'[n] => hd'[n] = etag'[n])
           /\ final[n] <= head'.tx /\ (final[n] = head'.tx => Settled')
<1>1. PICK h \in Head, e \in Head : hd[n] = h /\ etag[n] = e
  BY NodeTypes
<1>2. Known(h) /\ Known(e)
  BY <1>1
<1>3. /\ Known(h)' /\ hist'[h.tx] = hist[h.tx] /\ (head' = h => head' = head)
      /\ Known(e)' /\ (head' = e => head' = head)
  BY <1>2, KnownOn
<1>4. Known(hd[n])' /\ Known(etag[n])'
  BY <1>1, <1>3
<1>5. loaded[n] \/ pc[n] \in {"ready", "flush", "prepare"} =>
         data'[n] = hist'[hd'[n].tx] /\ (head' = etag'[n] => hd'[n] = etag'[n])
  BY <1>1, <1>3 DEF Cached
<1>6. final[n] \in Nat /\ head.tx \in Nat /\ head'.tx \in Nat
  BY NodeTypes, Files DEF TypeOK
<1>7. final[n] <= head'.tx /\ (final[n] = head'.tx => head' = head)
  BY <1>6 DEF Onward
<1>8. final[n] = head'.tx => Settled'
  BY <1>7, SettledOn
<1> QED
  BY <1>4, <1>5, <1>7, <1>8

\* A node that does not move keeps its invariant, unless its own transaction
\* is touched.
LEMMA NodeOn ==
    ASSUME TypeOK, TypeOK', Decided, NEW T, Onward(T), NEW n \in Node, NodeInv(n), Same(n),
           pc[n] = "prepare" => next[n].tx # T
    PROVE  NodeInv(n)'
<1>1. /\ Known(hd[n])' /\ Known(etag[n])'
      /\ loaded[n] \/ pc[n] \in {"ready", "flush", "prepare"} =>
            data'[n] = hist'[hd'[n].tx] /\ (head' = etag'[n] => hd'[n] = etag'[n])
      /\ final[n] <= head'.tx /\ (final[n] = head'.tx => Settled')
  BY CacheOn DEF NodeInv, Same, Flushing
<1>2. Cached(n)' /\ Upgraded(n)'
  BY <1>1 DEF Cached, Upgraded, NodeInv, Same
<1>3. PICK g \in Head, h \in Head, e \in Head, w \in Head, K \in SUBSET Key, d \in State :
         g = got[n] /\ h = hd[n] /\ e = etag[n] /\ w = next[n] /\ K = todo[n] /\ d = buf[n]
  BY NodeTypes
<1>4. Known(g) /\ Known(h) /\ Known(e)
  BY <1>3 DEF NodeInv
<1>5. /\ Known(g)' /\ hist'[g.tx] = hist[g.tx] /\ (head' = g => head' = head)
      /\ (head' = h => head' = head)
  BY <1>4, KnownOn
<1>6. Known(got[n])'
  BY <1>3, <1>5 DEF Same
<1>7. Reading(n)'
  BY <1>3, <1>5 DEF Reading, NodeInv, Same, Pending
<1>8. Flushing(n)'
  <2>1. /\ final'[n] <= head'.tx /\ (final'[n] = head'.tx => Settled')
        /\ pc'[n] \notin {"records", "flush", "prepare"} => todo'[n] = {}
        /\ why'[n] = "flush" => hd'[n].tx # 0
    BY <1>1 DEF Flushing, NodeInv, Same
  <2>2. ASSUME pc'[n] = "flush"
        PROVE  /\ todo'[n] \subseteq Pending(hd'[n])
               /\ why'[n] # "flush" \/ hd'[n].tx = 0 => Made(hd'[n].tx, data'[n], buf'[n])
    BY <2>2 DEF Flushing, NodeInv, Same
  <2>3. ASSUME pc'[n] = "flush", head' = hd'[n], NEW k \in Pending(head') \ todo'[n]
        PROVE  record'[k].tx = head'.tx
    <3>1. head' = head /\ head = hd[n] /\ pc[n] = "flush"
      BY <1>3, <1>5, <2>3 DEF Same
    <3>2. k \in Pending(head) \ todo[n] /\ k \in Key
      BY <2>3, <3>1 DEF Same, Pending
    <3>3. record[k].tx = head.tx
      BY <3>1, <3>2 DEF NodeInv, Flushing
    <3> QED
      BY <3>1, <3>2, <3>3, PlaceKept
  <2> QED
    BY <2>1, <2>2, <2>3 DEF Flushing, Pending
<1>9. Publishing(n)'
  <2>1. CASE pc[n] = "prepare"
    <3>1. Offer(e, w, d, K) /\ w.tx # T
      BY <1>3, <2>1 DEF NodeInv, Publishing
    <3>2. Offer(e, w, d, K)'
      BY <1>4, <3>1, OfferOn
    <3>3. Offer(etag[n], next[n], buf[n], todo[n])'
      BY <1>3, <3>2 DEF Same
    <3> QED
      BY <2>1, <3>3 DEF Publishing, NodeInv, Same
  <2>2. CASE pc[n] = "readback"
    <3>1. Known(w)
      BY <1>3, <2>2 DEF NodeInv, Publishing
    <3>2. Known(w)' /\ hist'[w.tx] = hist[w.tx]
      BY <3>1, KnownOn
    <3>3. Known(next[n])'
      BY <1>3, <3>2 DEF Same
    <3> QED
      BY <1>3, <2>2, <3>2, <3>3 DEF Publishing, NodeInv, Same
  <2>3. CASE pc[n] \notin {"prepare", "readback"}
    BY <2>3 DEF Publishing, Same
  <2> QED
    BY <2>1, <2>2, <2>3
<1> QED
  BY <1>1, <1>2, <1>6, <1>7, <1>8, <1>9 DEF NodeInv

\* An operation that returns, with an answer or an error, leaves its node in
\* order.
LEMMA LeaveWith ==
    ASSUME TypeOK, TypeOK', Decided, Decided', NEW T, Onward(T), NEW n \in Node, NodeInv(n),
           Leave(n), loaded'[n] => loaded[n] /\ ~Upgrading(n),
           hd'[n] = hd[n], etag'[n] = etag[n], data'[n] = data[n],
           final'[n] <= head'.tx, final'[n] = head'.tx => Settled'
    PROVE  NodeInv(n)'
<1>1. /\ pc'[n] = "idle" /\ got'[n] = Old /\ todo'[n] = {} /\ buf'[n] = Nobody
      /\ next'[n] = Old /\ why'[n] = "read"
  BY DEF Leave, TypeOK
<1>2. /\ Known(hd[n])' /\ Known(etag[n])'
      /\ loaded[n] => data'[n] = hist'[hd'[n].tx] /\ (head' = etag'[n] => hd'[n] = etag'[n])
  BY CacheOn DEF NodeInv, Flushing
<1>3. PICK h \in Head : h = Old /\ Known(h)
  BY Values, HeadKnown
<1>4. Known(h)'
  BY <1>3, KnownOn
<1>5. Known(got[n])'
  BY <1>1, <1>3, <1>4
<1>6. Cached(n)' /\ Upgraded(n)' /\ Reading(n)' /\ Flushing(n)' /\ Publishing(n)'
  BY <1>1, <1>2 DEF NodeInv, Cached, Upgraded, Upgrading, Reading, Flushing, Publishing
<1> QED
  BY <1>2, <1>5, <1>6 DEF NodeInv

LEMMA LeaveOn ==
    ASSUME TypeOK, TypeOK', Decided, Decided', NEW T, Onward(T), NEW n \in Node, NodeInv(n),
           Leave(n), loaded'[n] => loaded[n] /\ ~Upgrading(n),
           hd'[n] = hd[n], etag'[n] = etag[n], data'[n] = data[n], final'[n] = final[n]
    PROVE  NodeInv(n)'
<1>1. final'[n] <= head'.tx /\ (final'[n] = head'.tx => Settled')
  BY CacheOn DEF NodeInv, Flushing
<1> QED
  BY <1>1, LeaveWith

\* The other nodes, which a step of node n leaves alone.
Others(n) == \A m \in Node \ {n} : Same(m)

\* The identifiers stay distinct if nobody draws one.
LEMMA DistinctOn ==
    ASSUME TypeOK, Distinct, lateHeads' \subseteq lateHeads,
           \A m \in Node : pc'[m] = "prepare" => pc[m] = "prepare" /\ next'[m].tx = next[m].tx
    PROVE  Distinct'
BY DEF Distinct

\* A step whose effect on the objects is known keeps the invariant if its own
\* node's part is kept.
LEMMA Together ==
    ASSUME IInv, TypeOK', Decided', Distinct', NEW T, Onward(T),
           \A m \in Node : \/ NodeInv(m)'
                           \/ Same(m) /\ (pc[m] = "prepare" => next[m].tx # T),
           \A p \in lateHeads' : (p \in lateHeads /\ p.new.tx # T) \/ LateHeadInv(p)',
           \A p \in lateRecords' : p \in lateRecords \/ LateRecordInv(p)'
    PROVE  IInv'
<1>1. \A m \in Node : NodeInv(m)'
  BY NodeOn DEF IInv
<1>2. \A p \in lateHeads' : LateHeadInv(p)'
  <2> SUFFICES ASSUME NEW p \in lateHeads', p \in lateHeads, p.new.tx # T
               PROVE  LateHeadInv(p)'
    OBVIOUS
  <2>1. LateHeadInv(p)
    BY DEF IInv
  <2>2. Known(p.old)' /\ Offer(p.old, p.new, p.data, {})'
    BY <2>1, LateHeadOn DEF IInv
  <2> QED
    BY <2>2 DEF LateHeadInv
<1>3. \A p \in lateRecords' : LateRecordInv(p)'
  BY LateRecordOn DEF IInv
<1> QED
  BY <1>1, <1>2, <1>3 DEF IInv

\* No identifier in use is 0.
LEMMA DrawnIds ==
    ASSUME IInv
    PROVE  /\ \A m \in Node : pc[m] = "prepare" => next[m].tx \in 1 .. ntx /\ hist[next[m].tx] = None
           /\ \A p \in lateHeads : p.new.tx \in 1 .. ntx /\ hist[p.new.tx] = None
BY DEF IInv, NodeInv, Publishing, LateHeadInv, Offer

\* A step on local variables only.
LEMMA LocalStep ==
    ASSUME IInv, UNCHANGED <<head, record, prepared, hist>>, ntx' = ntx
    PROVE  Decided' /\ Onward(0)
<1>1. ntx \in Nat /\ head.tx \in Nat /\ \A k \in Key : record[k].tx \in Nat
  BY RecordsOld, Files, Values DEF IInv, TypeOK
<1>2. Onward(0)
  BY <1>1 DEF Onward
<1>3. Decided'
  BY DEF IInv, Decided, Pending
<1> QED
  BY <1>2, <1>3

LEMMA LocalStepKeeps ==
    ASSUME IInv, TypeOK', UNCHANGED <<storeVars, hist>>, NEW n \in Node, Others(n), NodeInv(n)',
           pc'[n] = "prepare" => pc[n] = "prepare" /\ next'[n].tx = next[n].tx
    PROVE  IInv'
<1>1. Decided' /\ Onward(0)
  BY LocalStep DEF storeVars
<1>2. \A m \in Node : pc'[m] = "prepare" => pc[m] = "prepare" /\ next'[m].tx = next[m].tx
  BY DEF Others, Same
<1>3. Distinct'
  BY <1>2, DistinctOn DEF IInv, storeVars
<1>4. \A m \in Node : NodeInv(m)' \/ (Same(m) /\ (pc[m] = "prepare" => next[m].tx # 0))
  BY DrawnIds DEF Others
<1>5. \A p \in lateHeads' : p \in lateHeads /\ p.new.tx # 0
  BY DrawnIds DEF storeVars
<1>6. \A p \in lateRecords' : p \in lateRecords
  BY DEF storeVars
<1> QED
  BY <1>1, <1>3, <1>4, <1>5, <1>6, Together

-----------------------------------------------------------------------------
(***************************************************************************)
(* Each step preserves the invariant: first those that touch only the      *)
(* variables of their own node.                                            *)
(***************************************************************************)
LEMMA LeaveTypes ==
    ASSUME TypeOK, NEW n \in Node, Leave(n)
    PROVE  /\ pc' \in [Node -> PC] /\ why' \in [Node -> Ops] /\ got' \in [Node -> Head]
           /\ todo' \in [Node -> SUBSET Key] /\ buf' \in [Node -> State]
           /\ next' \in [Node -> Head]
           /\ pc'[n] = "idle" /\ got'[n] = Old /\ todo'[n] = {} /\ buf'[n] = Nobody
           /\ next'[n] = Old /\ why'[n] = "read"
BY Values DEF TypeOK, Leave, PC, Ops

\* An operation that fails drops its node's cache or keeps it.
LEMMA Failed ==
    ASSUME TypeOK, NEW n \in Node, Fail(n) \/ FailExist(n)
    PROVE  /\ Leave(n) /\ Others(n) /\ UNCHANGED <<data, hd, etag, final>>
           /\ loaded' \in [Node -> BOOLEAN]
           /\ loaded'[n] => loaded[n] /\ ~Upgrading(n)
<1>1. Leave(n) /\ UNCHANGED <<data, hd, etag, final>>
  BY DEF Fail, FailExist
<1>2. \/ loaded' = [loaded EXCEPT ![n] = @ /\ ~Upgrading(n)]
      \/ loaded' = [loaded EXCEPT ![n] = @ /\ why[n] = "flush" /\ ~Upgrading(n)]
  BY DEF Fail, FailExist
<1>3. (loaded[n] /\ ~Upgrading(n)) \in BOOLEAN
      /\ (loaded[n] /\ why[n] = "flush" /\ ~Upgrading(n)) \in BOOLEAN
  OBVIOUS
<1>4. /\ loaded' \in [Node -> BOOLEAN] /\ (loaded'[n] => loaded[n] /\ ~Upgrading(n))
      /\ \A m \in Node \ {n} : loaded'[m] = loaded[m]
  BY <1>2, <1>3 DEF TypeOK
<1>5. Others(n)
  BY <1>1, <1>4 DEF Others, Same, Leave, TypeOK
<1> QED
  BY <1>1, <1>4, <1>5

LEMMA FailTypes ==
    ASSUME TypeOK, UNCHANGED <<storeVars, hist>>, NEW n \in Node, Fail(n) \/ FailExist(n)
    PROVE  TypeOK'
BY Failed, LeaveTypes DEF TypeOK, storeVars

\* An operation that fails having touched no object.
LEMMA FailStep ==
    ASSUME IInv, UNCHANGED <<storeVars, hist>>, NEW n \in Node, Fail(n) \/ FailExist(n)
    PROVE  IInv'
<1>1. TypeOK /\ Decided /\ NodeInv(n)
  BY DEF IInv
<1>2. TypeOK'
  BY <1>1, FailTypes
<1>3. Decided' /\ Onward(0)
  BY LocalStep DEF storeVars
<1>4. NodeInv(n)'
  BY <1>1, <1>2, <1>3, Failed, LeaveOn
<1> QED
  BY <1>1, <1>2, <1>4, Failed, LeaveTypes, LocalStepKeeps

LEMMA BeginStep ==
    ASSUME IInv, NEW n \in Node, Begin(n)
    PROVE  IInv'
<1>1. TypeOK /\ NodeInv(n) /\ Decided
  BY DEF IInv
<1>2. PICK op \in Ops : (op = "flush" => NeedsFlush(n)) /\ why' = [why EXCEPT ![n] = op]
  BY DEF Begin
<1>3. TypeOK'
  BY <1>1, <1>2 DEF Begin, TypeOK, PC, storeVars, cacheVars, opVars
<1>4. Others(n)
  BY <1>1, <1>2 DEF Begin, Others, Same, TypeOK, storeVars, cacheVars, opVars
<1>5. /\ pc[n] = "idle" /\ pc'[n] = "head" /\ why'[n] = op /\ (op = "flush" => loaded[n])
      /\ UNCHANGED <<storeVars, cacheVars, opVars, hist>>
  BY <1>1, <1>2 DEF Begin, TypeOK, NeedsFlush
<1>6. NodeInv(n)'
  <2>1. Known(hd[n])' /\ Known(etag[n])' /\ Known(got[n])'
    BY <1>1, <1>5 DEF NodeInv, Known, storeVars, cacheVars, opVars
  <2>2. Cached(n)' /\ Upgraded(n)' /\ Reading(n)' /\ Publishing(n)'
    BY <1>1, <1>5 DEF NodeInv, Cached, Upgraded, Reading, Publishing, storeVars, cacheVars, opVars
  <2>3. Flushing(n)'
    BY <1>1, <1>5 DEF NodeInv, Flushing, Upgraded, Settled, storeVars, cacheVars, opVars
  <2> QED
    BY <2>1, <2>2, <2>3 DEF NodeInv
<1> QED
  BY <1>3, <1>4, <1>5, <1>6, LocalStepKeeps

LEMMA UnchangedStep ==
    ASSUME IInv, NEW n \in Node, Unchanged(n)
    PROVE  IInv'
<1>1. TypeOK /\ NodeInv(n) /\ Decided
  BY DEF IInv
<1>2. TypeOK'
  BY <1>1 DEF Unchanged, TypeOK, PC, storeVars, cacheVars, opVars
<1>3. Others(n)
  BY <1>1 DEF Unchanged, Others, Same, TypeOK, storeVars, cacheVars, opVars
<1>4. /\ pc[n] = "head" /\ pc'[n] = "ready" /\ loaded[n]
      /\ UNCHANGED <<storeVars, why, cacheVars, opVars, hist>>
  BY <1>1 DEF Unchanged, TypeOK
<1>5. NodeInv(n)'
  <2>1. Known(hd[n])' /\ Known(etag[n])' /\ Known(got[n])'
    BY <1>1, <1>4 DEF NodeInv, Known, storeVars, cacheVars, opVars
  <2>2. Cached(n)' /\ Upgraded(n)' /\ Reading(n)' /\ Publishing(n)'
    BY <1>1, <1>4 DEF NodeInv, Cached, Upgraded, Reading, Publishing, storeVars, cacheVars, opVars
  <2>3. Flushing(n)'
    BY <1>1, <1>4 DEF NodeInv, Flushing, Settled, storeVars, cacheVars, opVars
  <2> QED
    BY <2>1, <2>2, <2>3 DEF NodeInv
<1> QED
  BY <1>2, <1>3, <1>4, <1>5, LocalStepKeeps

LEMMA LoadLegacyStep ==
    ASSUME IInv, NEW n \in Node, LoadLegacy(n)
    PROVE  IInv'
<1>1. TypeOK /\ NodeInv(n) /\ Decided
  BY DEF IInv
<1>2. TypeOK'
  BY <1>1, Values DEF LoadLegacy, TypeOK, PC, storeVars
<1>3. Others(n)
  BY <1>1 DEF LoadLegacy, Others, Same, TypeOK, storeVars
<1>4. /\ pc[n] = "head" /\ pc'[n] = "flush" /\ head.tx = 0 /\ data'[n] = Legacy
      /\ hd'[n] = head /\ etag'[n] = head /\ buf'[n] = Legacy
      /\ UNCHANGED <<head, record, prepared, hist, why, final, got, todo>>
  BY <1>1 DEF LoadLegacy, TypeOK, storeVars
<1>5. NodeInv(n)'
  <2>1. Known(head) /\ hist[0] = Legacy /\ head = Old
    BY <1>1, <1>4, HeadKnown DEF Decided
  <2>2. Known(hd[n])' /\ Known(etag[n])'
    BY <1>4, <2>1 DEF Known
  <2>3. Known(got[n])'
    BY <1>1, <1>4 DEF NodeInv, Known
  <2>4. Cached(n)' /\ Upgraded(n)' /\ Reading(n)' /\ Publishing(n)'
    BY <1>4, <2>1 DEF Cached, Upgraded, Reading, Publishing
  <2>5. Flushing(n)'
    <3>1. why[n] # "flush"
      BY <1>1, <1>4, NodeTypes DEF NodeInv, Flushing, Known
    <3>2. todo[n] = {} /\ Pending(head) = {}
      BY <1>1, <1>4, <2>1, Values DEF NodeInv, Flushing
    <3>3. Made(hd'[n].tx, data'[n], buf'[n])
      BY <1>4 DEF Made
    <3> QED
      BY <1>1, <1>4, <3>1, <3>2, <3>3 DEF NodeInv, Flushing, Settled, Pending
  <2> QED
    BY <2>2, <2>3, <2>4, <2>5 DEF NodeInv
<1> QED
  BY <1>2, <1>3, <1>4, <1>5, LocalStepKeeps DEF LoadLegacy

LEMMA GetHeadStep ==
    ASSUME IInv, NEW n \in Node, GetHead(n)
    PROVE  IInv'
<1>1. TypeOK /\ NodeInv(n) /\ Decided
  BY DEF IInv
<1>2. TypeOK'
  BY <1>1 DEF GetHead, TypeOK, PC, storeVars, cacheVars
<1>3. Others(n)
  BY <1>1 DEF GetHead, Others, Same, TypeOK, storeVars, cacheVars
<1>4. /\ pc[n] = "head" /\ pc'[n] = "list" /\ head.tx # 0 /\ got'[n] = head
      /\ UNCHANGED <<storeVars, hist, why, cacheVars, todo, buf, next>>
  BY <1>1 DEF GetHead, TypeOK
<1>5. NodeInv(n)'
  <2>1. Known(got[n])'
    BY <1>1, <1>4, HeadKnown DEF Known, storeVars
  <2>2. Known(hd[n])' /\ Known(etag[n])'
    BY <1>1, <1>4 DEF NodeInv, Known, storeVars, cacheVars
  <2>3. Cached(n)' /\ Upgraded(n)' /\ Reading(n)' /\ Publishing(n)'
    BY <1>1, <1>4 DEF NodeInv, Cached, Upgraded, Reading, Publishing, storeVars, cacheVars
  <2>4. Flushing(n)'
    BY <1>1, <1>4 DEF NodeInv, Flushing, Settled, storeVars, cacheVars
  <2> QED
    BY <2>1, <2>2, <2>3, <2>4 DEF NodeInv
<1> QED
  BY <1>2, <1>3, <1>4, <1>5, LocalStepKeeps

LEMMA ListStep ==
    ASSUME IInv, NEW n \in Node, List(n)
    PROVE  IInv'
<1>1. TypeOK /\ NodeInv(n) /\ Decided
  BY DEF IInv
<1> DEFINE seen == {k \in Key : record[k].tx # 0}
           start == [Nobody EXCEPT ![User] = got[n].user]
<1>2. /\ start \in State /\ start[User] = got[n].user
      /\ \A k \in Key : start[k] = 0
  BY <1>1, NodeTypes, Files, Values DEF State, Field, Nobody
<1>3. pc' = [pc EXCEPT ![n] = "records"] /\ todo' = [todo EXCEPT ![n] = seen]
      /\ buf' = [buf EXCEPT ![n] = start]
      /\ UNCHANGED <<storeVars, why, cacheVars, got, next, hist>>
  BY DEF List
<1>4. pc[n] = "list" /\ pc'[n] = "records" /\ todo'[n] = seen /\ buf'[n] = start
  BY <1>1, <1>3 DEF List, TypeOK
<1>5. TypeOK'
  <2>1. seen \in SUBSET Key
    OBVIOUS
  <2> HIDE DEF seen, start
  <2> QED
    BY <1>1, <1>2, <1>3, <2>1 DEF TypeOK, PC, storeVars, cacheVars
<1>6. Others(n)
  <2> HIDE DEF seen, start
  <2> QED
    BY <1>1, <1>3 DEF Others, Same, TypeOK, storeVars, cacheVars
<1>7. ASSUME head' = got'[n], NEW k \in Key \ (Pending(got'[n]) \cup todo'[n])
      PROVE  buf'[n][k] = hist'[got'[n].tx][k]
  <2>1. head = got[n] /\ head.tx # 0 /\ k \in Key /\ k \notin Pending(head) /\ k \notin seen
    BY <1>1, <1>3, <1>4, <1>7 DEF NodeInv, Reading, storeVars
  <2>2. record[k] = NoRec /\ record[k].val = hist[head.tx][k]
    BY <1>1, <2>1 DEF Decided
  <2> QED
    BY ZenonT(40), <1>2, <1>3, <1>4, <2>1, <2>2, Values
<1>8. NodeInv(n)'
  <2>1. Known(hd[n])' /\ Known(etag[n])' /\ Known(got[n])'
    BY <1>1, <1>3 DEF NodeInv, Known, storeVars, cacheVars
  <2>2. Cached(n)' /\ Upgraded(n)' /\ Publishing(n)'
    BY <1>1, <1>3, <1>4 DEF NodeInv, Cached, Upgraded, Publishing, storeVars, cacheVars
  <2>3. Reading(n)'
    BY <1>1, <1>2, <1>3, <1>4, <1>7 DEF NodeInv, Reading, Pending
  <2>4. Flushing(n)'
    BY <1>1, <1>3, <1>4 DEF NodeInv, Flushing, Settled, storeVars, cacheVars
  <2> QED
    BY <2>1, <2>2, <2>3, <2>4 DEF NodeInv
<1> QED
  BY <1>3, <1>4, <1>5, <1>6, <1>8, LocalStepKeeps

LEMMA GetRecordStep ==
    ASSUME IInv, NEW n \in Node, NEW k \in Key, GetRecord(n, k)
    PROVE  IInv'
<1>1. TypeOK /\ NodeInv(n) /\ Decided
  BY DEF IInv
<1> DEFINE d == [buf[n] EXCEPT ![k] = record[k].val]
<1>2. d \in State /\ d[User] = buf[n][User] /\ d[k] = record[k].val
      /\ \A j \in Key \ {k} : d[j] = buf[n][j]
  BY <1>1, NodeTypes, Values DEF TypeOK, Rec, State, Field
<1>3. /\ buf' = [buf EXCEPT ![n] = d] /\ todo' = [todo EXCEPT ![n] = todo[n] \ {k}]
      /\ UNCHANGED <<storeVars, pc, why, cacheVars, got, next, hist>>
  BY <1>1 DEF GetRecord, TypeOK
<1>4. pc[n] = "records" /\ k \in todo[n] /\ buf'[n] = d /\ todo'[n] = todo[n] \ {k}
  BY <1>1, <1>3 DEF GetRecord, TypeOK
<1> HIDE DEF d
<1>5. TypeOK'
  <2>1. todo[n] \ {k} \in SUBSET Key
    BY <1>1, NodeTypes
  <2> QED
    BY <1>1, <1>2, <1>3, <2>1 DEF TypeOK, storeVars, cacheVars
<1>6. Others(n)
  BY <1>1, <1>3 DEF Others, Same, TypeOK, storeVars, cacheVars
<1>7. ASSUME head' = got'[n], NEW j \in Key \ (Pending(got'[n]) \cup todo'[n])
      PROVE  buf'[n][j] = hist'[got'[n].tx][j]
  <2>1. head = got[n] /\ head.tx # 0 /\ j \in Key /\ j \notin Pending(got[n])
    BY <1>1, <1>3, <1>4, <1>7 DEF NodeInv, Reading, storeVars
  <2>2. CASE j = k
    BY <1>1, <1>2, <1>3, <1>4, <2>1, <2>2 DEF Decided
  <2>3. CASE j # k
    BY <1>1, <1>2, <1>3, <1>4, <1>7, <2>1, <2>3 DEF NodeInv, Reading
  <2> QED
    BY <2>2, <2>3
<1>8. NodeInv(n)'
  <2>1. Known(hd[n])' /\ Known(etag[n])' /\ Known(got[n])'
    BY <1>1, <1>3 DEF NodeInv, Known, storeVars, cacheVars
  <2>2. Cached(n)' /\ Upgraded(n)' /\ Publishing(n)'
    BY <1>1, <1>3, <1>4 DEF NodeInv, Cached, Upgraded, Publishing, storeVars, cacheVars
  <2>3. Reading(n)'
    BY <1>1, <1>2, <1>3, <1>4, <1>7 DEF NodeInv, Reading, Pending
  <2>4. Flushing(n)'
    BY <1>1, <1>3, <1>4 DEF NodeInv, Flushing, Settled, storeVars, cacheVars
  <2> QED
    BY <2>1, <2>2, <2>3, <2>4 DEF NodeInv
<1> QED
  BY <1>3, <1>4, <1>5, <1>6, <1>8, LocalStepKeeps

\* What a reader put together, if the account file is still the one it began
\* with, is the state that file committed.
LEMMA OverlayRight ==
    ASSUME IInv, NEW n \in Node, pc[n] = "records", todo[n] = {}, head = got[n]
    PROVE  Overlay(got[n], buf[n]) = hist[got[n].tx] /\ hist[got[n].tx] \in State
<1>1. TypeOK /\ NodeInv(n) /\ Decided
  BY DEF IInv
<1>2. hist[head.tx] \in State
  BY <1>1, Committed, Files DEF TypeOK, Decided
<1>3. ASSUME NEW f \in Field
      PROVE  (IF f \in Pending(head) THEN prepared[f][head.tx] ELSE buf[n][f]) = hist[head.tx][f]
  <2>1. CASE f = User
    BY <1>1, <2>1 DEF NodeInv, Reading, Decided, Pending
  <2>2. CASE f \in Pending(head)
    BY <1>1, <2>2 DEF Decided
  <2>3. CASE f # User /\ f \notin Pending(head)
    BY <1>1, <2>3 DEF NodeInv, Reading, Field
  <2> QED
    BY <2>1, <2>2, <2>3
<1>4. hist[head.tx] = [f \in Field |-> hist[head.tx][f]]
  BY <1>2 DEF State
<1>5. Overlay(got[n], buf[n]) = [f \in Field |-> hist[head.tx][f]]
  BY <1>3 DEF Overlay
<1> QED
  BY <1>2, <1>4, <1>5

LEMMA RebuiltStep ==
    ASSUME IInv, NEW n \in Node, Rebuilt(n)
    PROVE  IInv'
<1>1. TypeOK /\ NodeInv(n) /\ Decided
  BY DEF IInv
<1> DEFINE d == Overlay(got[n], buf[n])
<1>2. d = hist[got[n].tx] /\ d \in State
  BY OverlayRight DEF Rebuilt, StillCurrent
<1>3. /\ pc' = [pc EXCEPT ![n] = "ready"] /\ loaded' = [loaded EXCEPT ![n] = TRUE]
      /\ data' = [data EXCEPT ![n] = d] /\ hd' = [hd EXCEPT ![n] = got[n]]
      /\ etag' = [etag EXCEPT ![n] = got[n]] /\ got' = [got EXCEPT ![n] = Old]
      /\ buf' = [buf EXCEPT ![n] = Nobody]
      /\ UNCHANGED <<storeVars, why, final, todo, next, hist>>
      /\ pc[n] = "records" /\ todo[n] = {} /\ head = got[n]
  BY DEF Rebuilt, StillCurrent
<1> HIDE DEF d
<1>4. /\ pc'[n] = "ready" /\ data'[n] = d /\ hd'[n] = got[n] /\ etag'[n] = got[n]
      /\ got'[n] = Old
  BY <1>1, <1>3 DEF TypeOK
<1>5. TypeOK'
  <2>1. got[n] \in Head /\ Old \in Head /\ Nobody \in State
    BY <1>1, NodeTypes, Values
  <2> QED
    BY <1>1, <1>2, <1>3, <2>1 DEF TypeOK, PC, storeVars
<1>6. Others(n)
  BY <1>1, <1>3 DEF Others, Same, TypeOK, storeVars
<1>7. NodeInv(n)'
  <2>1. Known(hd[n])' /\ Known(etag[n])'
    BY SMTT(30), <1>1, <1>3, <1>4 DEF NodeInv, Known, storeVars
  <2>2. Known(got[n])'
    BY <1>1, <1>3, <1>4, HeadKnown DEF Known, storeVars
  <2>3. Cached(n)' /\ Upgraded(n)' /\ Publishing(n)' /\ Reading(n)'
    BY <1>1, <1>2, <1>3, <1>4 DEF NodeInv, Cached, Upgraded, Publishing, Reading
  <2>4. Flushing(n)'
    BY <1>1, <1>3, <1>4 DEF NodeInv, Flushing, Settled, storeVars, Reading
  <2> QED
    BY <2>1, <2>2, <2>3, <2>4 DEF NodeInv
<1> QED
  BY <1>3, <1>4, <1>5, <1>6, <1>7, LocalStepKeeps

LEMMA ServeReadStep ==
    ASSUME IInv, NEW n \in Node, ServeRead(n)
    PROVE  IInv'
<1>1. TypeOK /\ NodeInv(n) /\ Decided /\ Leave(n) /\ pc[n] = "ready"
      /\ UNCHANGED <<storeVars, cacheVars, hist>>
  BY DEF IInv, ServeRead
<1>2. TypeOK'
  BY <1>1, LeaveTypes DEF TypeOK, storeVars, cacheVars
<1>3. Others(n)
  BY <1>1 DEF Others, Same, Leave, TypeOK, cacheVars
<1>4. Decided' /\ Onward(0)
  BY <1>1, LocalStep DEF storeVars
<1>5. NodeInv(n)'
  BY <1>1, <1>2, <1>4, LeaveOn DEF Upgrading, cacheVars
<1> QED
  BY <1>1, <1>2, <1>3, <1>5, LeaveTypes, LocalStepKeeps

LEMMA StartFlushStep ==
    ASSUME IInv, NEW n \in Node, StartFlush(n)
    PROVE  IInv'
<1>1. TypeOK /\ NodeInv(n) /\ Decided
  BY DEF IInv
<1>2. ToFlush(n) \in SUBSET Key /\ ToFlush(n) \subseteq Pending(hd[n])
  BY DEF ToFlush, Pending
<1>3. /\ pc[n] = "ready" /\ why[n] = "flush" /\ pc' = [pc EXCEPT ![n] = "flush"]
      /\ todo' = [todo EXCEPT ![n] = ToFlush(n)]
      /\ UNCHANGED <<storeVars, why, cacheVars, got, buf, next, hist>>
  BY DEF StartFlush
<1>4. pc'[n] = "flush" /\ todo'[n] = ToFlush(n)
  BY <1>1, <1>3 DEF TypeOK
<1>5. TypeOK'
  BY <1>1, <1>2, <1>3 DEF TypeOK, PC, storeVars, cacheVars
<1>6. Others(n)
  BY <1>1, <1>3 DEF Others, Same, TypeOK, storeVars, cacheVars
<1>7. ASSUME head = hd[n], NEW k \in Pending(head) \ ToFlush(n)
      PROVE  record[k].tx = head.tx
  BY <1>1, <1>7 DEF ToFlush, NodeInv, Flushing, Settled
<1>8. NodeInv(n)'
  <2>1. Known(hd[n])' /\ Known(etag[n])' /\ Known(got[n])'
    BY <1>1, <1>3 DEF NodeInv, Known, storeVars, cacheVars
  <2>2. Cached(n)' /\ Upgraded(n)' /\ Publishing(n)' /\ Reading(n)'
    BY <1>1, <1>3, <1>4 DEF NodeInv, Cached, Upgraded, Publishing, Reading, storeVars, cacheVars
  <2>3. Flushing(n)'
    BY <1>1, <1>2, <1>3, <1>4, <1>7 DEF NodeInv, Flushing, Settled, Upgraded, storeVars, cacheVars, Pending
  <2> QED
    BY <2>1, <2>2, <2>3 DEF NodeInv
<1> QED
  BY <1>3, <1>4, <1>5, <1>6, <1>8, LocalStepKeeps

LEMMA StartBatchStep ==
    ASSUME IInv, NEW n \in Node, StartBatch(n)
    PROVE  IInv'
<1>1. TypeOK /\ NodeInv(n) /\ Decided
  BY DEF IInv
<1>2. PICK bt \in Batches :
         IF Applied(bt, data[n]) = data[n] /\ Versioned(n)
         THEN Leave(n)
         ELSE /\ pc'   = [pc EXCEPT ![n] = "flush"]
              /\ todo' = [todo EXCEPT ![n] = ToFlush(n)]
              /\ buf'  = [buf EXCEPT ![n] = Applied(bt, data[n])]
              /\ UNCHANGED <<why, got, next>>
  BY DEF StartBatch
<1>3. pc[n] = "ready" /\ why[n] = "batch" /\ UNCHANGED <<storeVars, cacheVars, hist>>
  BY DEF StartBatch
<1>4. CASE Leave(n)
  <2>1. TypeOK'
    BY <1>1, <1>3, <1>4, LeaveTypes DEF TypeOK, storeVars, cacheVars
  <2>2. Others(n)
    BY <1>1, <1>3, <1>4 DEF Others, Same, Leave, TypeOK, cacheVars
  <2>3. Decided' /\ Onward(0)
    BY <1>3, LocalStep DEF storeVars
  <2>4. NodeInv(n)'
    BY <1>1, <1>3, <1>4, <2>1, <2>3, LeaveOn DEF Upgrading, cacheVars
  <2> QED
    BY <1>1, <1>3, <1>4, <2>1, <2>2, <2>4, LeaveTypes, LocalStepKeeps
<1>5. CASE /\ pc'   = [pc EXCEPT ![n] = "flush"]
           /\ todo' = [todo EXCEPT ![n] = ToFlush(n)]
           /\ buf'  = [buf EXCEPT ![n] = Applied(bt, data[n])]
           /\ UNCHANGED <<why, got, next>>
  <2>1. ToFlush(n) \in SUBSET Key /\ ToFlush(n) \subseteq Pending(hd[n])
    BY DEF ToFlush, Pending
  <2>2. Applied(bt, data[n]) \in State
    <3>1. \A f \in Field : bt[f] \in {"add", "del", "keep"} /\ data[n][f] \in Nat
      BY <1>1, NodeTypes DEF State
    <3>2. \A f \in Field : Change(bt[f], data[n][f]) \in Nat
      BY <3>1 DEF Change
    <3> QED
      BY <3>2 DEF Applied, State
  <2>3. /\ pc'[n] = "flush" /\ todo'[n] = ToFlush(n) /\ buf'[n] = Applied(bt, data[n])
    BY <1>1, <1>5 DEF TypeOK
  <2>4. TypeOK'
    BY <1>1, <1>3, <1>5, <2>1, <2>2 DEF TypeOK, PC, storeVars, cacheVars
  <2>5. Others(n)
    BY <1>1, <1>3, <1>5 DEF Others, Same, TypeOK, storeVars, cacheVars
  <2>6. ASSUME head = hd[n], NEW k \in Pending(head) \ ToFlush(n)
        PROVE  record[k].tx = head.tx
    BY <1>1, <2>6 DEF ToFlush, NodeInv, Flushing, Settled
  <2>7. Made(hd[n].tx, data[n], Applied(bt, data[n]))
    BY DEF Made
  <2>8. NodeInv(n)'
    <3>1. Known(hd[n])' /\ Known(etag[n])' /\ Known(got[n])'
      BY <1>1, <1>3, <1>5 DEF NodeInv, Known, storeVars, cacheVars
    <3>2. Cached(n)' /\ Upgraded(n)' /\ Publishing(n)' /\ Reading(n)'
      BY <1>1, <1>3, <1>5, <2>3 DEF NodeInv, Cached, Upgraded, Publishing, Reading, storeVars, cacheVars
    <3>3. Flushing(n)'
      BY <1>1, <1>3, <1>5, <2>1, <2>3, <2>6, <2>7
      DEF NodeInv, Flushing, Settled, storeVars, cacheVars, Pending
    <3> QED
      BY <3>1, <3>2, <3>3 DEF NodeInv
  <2> QED
    BY <1>3, <2>3, <2>4, <2>5, <2>8, LocalStepKeeps
<1> QED
  BY <1>2, <1>4, <1>5

\* A record found in its place, or just moved there, leaves the list.
LEMMA DoneInv ==
    ASSUME TypeOK, TypeOK', Decided, Onward(0), NEW n \in Node, NEW k \in Key, NodeInv(n),
           pc[n] = "flush", head' = head, FlushDone(n, k),
           head = hd[n] => record'[k].tx = head.tx
    PROVE  NodeInv(n)' /\ Others(n)
<1>1. /\ todo' = [todo EXCEPT ![n] = todo[n] \ {k}]
      /\ UNCHANGED <<pc, got, buf, next, why, cacheVars>>
  BY DEF FlushDone
<1>2. todo'[n] = todo[n] \ {k}
  BY <1>1 DEF TypeOK
<1>3. Others(n)
  BY <1>1 DEF Others, Same, TypeOK, cacheVars
<1>4. /\ Known(hd[n])' /\ Known(etag[n])'
      /\ data'[n] = hist'[hd'[n].tx] /\ (head' = etag'[n] => hd'[n] = etag'[n])
      /\ final[n] <= head'.tx /\ (final[n] = head'.tx => Settled')
  BY <1>1, CacheOn DEF NodeInv, cacheVars, Flushing
<1>5. PICK g \in Head : g = got[n] /\ Known(g)
  BY NodeTypes DEF NodeInv
<1>6. Known(got[n])'
  BY <1>1, <1>5, KnownOn
<1>7. Cached(n)' /\ Upgraded(n)' /\ Reading(n)' /\ Publishing(n)'
  BY <1>1, <1>4 DEF Cached, Upgraded, Reading, Publishing, cacheVars, NodeInv
<1>8. Flushing(n)'
  <2>1. ASSUME head' = hd'[n], NEW j \in Pending(head') \ todo'[n]
        PROVE  record'[j].tx = head'.tx
    <3>1. head = hd[n] /\ j \in Key /\ j \in Pending(head) /\ (j = k \/ j \notin todo[n])
      BY <1>1, <1>2, <2>1 DEF cacheVars, Pending
    <3>2. CASE j = k
      BY <3>1, <3>2
    <3>3. CASE j \notin todo[n]
      BY <3>1, <3>3, PlaceKept DEF NodeInv, Flushing
    <3> QED
      BY <3>1, <3>2, <3>3
  <2> QED
    BY <1>1, <1>2, <1>4, <2>1 DEF NodeInv, Flushing, cacheVars, Pending
<1> QED
  BY <1>3, <1>4, <1>6, <1>7, <1>8 DEF NodeInv

LEMMA FlushSkipStep ==
    ASSUME IInv, NEW n \in Node, NEW k \in Key, FlushSkip(n, k)
    PROVE  IInv'
<1>1. TypeOK /\ NodeInv(n) /\ Decided
  BY DEF IInv
<1>2. /\ pc[n] = "flush" /\ record[k].tx = hd[n].tx /\ FlushDone(n, k)
      /\ UNCHANGED <<storeVars, hist>>
  BY DEF FlushSkip
<1>3. TypeOK'
  <2>1. todo[n] \ {k} \in SUBSET Key
    BY <1>1, NodeTypes
  <2> QED
    BY <1>1, <1>2, <2>1 DEF TypeOK, FlushDone, storeVars, cacheVars
<1>4. Decided' /\ Onward(0)
  BY <1>2, LocalStep DEF storeVars
<1>5. NodeInv(n)' /\ Others(n)
  BY <1>1, <1>2, <1>3, <1>4, DoneInv DEF storeVars
<1> QED
  BY <1>2, <1>3, <1>5, LocalStepKeeps DEF FlushDone

LEMMA FlushEndStep ==
    ASSUME IInv, NEW n \in Node, FlushEnd(n)
    PROVE  IInv'
<1>1. TypeOK /\ NodeInv(n) /\ Decided
  BY DEF IInv
<1>2. /\ pc[n] = "flush" /\ why[n] = "flush" /\ todo[n] = {} /\ Leave(n)
      /\ final' = [final EXCEPT ![n] = hd[n].tx]
      /\ UNCHANGED <<storeVars, loaded, data, hd, etag, hist>>
  BY DEF FlushEnd
<1>3. final'[n] = hd[n].tx /\ hd[n].tx \in Tx
  BY <1>1, <1>2, NodeTypes, Files DEF TypeOK
<1>4. TypeOK'
  BY <1>1, <1>2, <1>3, LeaveTypes DEF TypeOK, storeVars
<1>5. Others(n)
  BY <1>1, <1>2 DEF Others, Same, Leave, TypeOK
<1>6. Decided' /\ Onward(0)
  BY <1>2, LocalStep DEF storeVars
<1>7. final'[n] <= head'.tx /\ (final'[n] = head'.tx => Settled')
  BY <1>1, <1>2, <1>3 DEF NodeInv, Known, Flushing, Settled, storeVars, Pending
<1>8. ~Upgrading(n)
  BY <1>1, <1>2 DEF NodeInv, Flushing, Upgrading
<1>9. NodeInv(n)'
  BY <1>1, <1>2, <1>4, <1>6, <1>7, <1>8, LeaveWith
<1> QED
  BY <1>1, <1>2, <1>4, <1>5, <1>9, LeaveTypes, LocalStepKeeps

LEMMA AbortStep ==
    ASSUME IInv, NEW n \in Node,
           Abort(n) \/ PublishConflict(n) \/ \E k \in Key : FlushConflict(n, k)
    PROVE  IInv'
BY FailStep DEF Abort, PublishConflict, FlushConflict

LEMMA CrashStep ==
    ASSUME IInv, NEW n \in Node, Crash(n)
    PROVE  IInv'
<1>1. TypeOK /\ NodeInv(n) /\ Decided
  BY DEF IInv
<1>2. /\ Leave(n) /\ loaded' = [loaded EXCEPT ![n] = FALSE]
      /\ data' = [data EXCEPT ![n] = Nobody] /\ hd' = [hd EXCEPT ![n] = Old]
      /\ etag' = [etag EXCEPT ![n] = Old] /\ final' = [final EXCEPT ![n] = 0]
      /\ UNCHANGED <<storeVars, hist>>
  BY DEF Crash
<1>3. TypeOK'
  BY <1>1, <1>2, LeaveTypes, Values DEF TypeOK, storeVars
<1>4. Others(n)
  BY <1>1, <1>2 DEF Others, Same, Leave, TypeOK
<1>5. /\ loaded'[n] = FALSE /\ hd'[n] = Old /\ etag'[n] = Old /\ final'[n] = 0
      /\ pc'[n] = "idle" /\ got'[n] = Old /\ todo'[n] = {} /\ why'[n] = "read"
  BY <1>1, <1>2, LeaveTypes DEF TypeOK
<1>6. NodeInv(n)'
  <2>1. Known(hd[n])' /\ Known(etag[n])' /\ Known(got[n])'
    BY <1>1, <1>2, <1>5, HeadKnown DEF Known, storeVars
  <2>2. Cached(n)' /\ Upgraded(n)' /\ Reading(n)' /\ Publishing(n)'
    BY <1>5 DEF Cached, Upgraded, Reading, Publishing
  <2>3. 0 = head.tx => Settled
    BY <1>1, Values DEF Decided, Settled
  <2>4. Flushing(n)'
    BY <1>1, <1>2, <1>5, <2>3, NodeTypes DEF Flushing, Settled, storeVars
  <2> QED
    BY <2>1, <2>2, <2>4 DEF NodeInv
<1> QED
  BY <1>2, <1>3, <1>4, <1>5, <1>6, LocalStepKeeps

LEMMA ReadbackStep ==
    ASSUME IInv, NEW n \in Node, Readback(n)
    PROVE  IInv'
<1>1. TypeOK /\ NodeInv(n) /\ Decided
  BY DEF IInv
<1>2. /\ pc[n] = "readback"
      /\ hd' = [hd EXCEPT ![n] = next[n]] /\ final' = [final EXCEPT ![n] = 0]
      /\ data' = [data EXCEPT ![n] = buf[n]] /\ UNCHANGED <<storeVars, hist>>
  BY DEF Readback
<1>3. \/ head = next[n] /\ etag' = [etag EXCEPT ![n] = head] /\ UNCHANGED loaded
      \/ loaded' = [loaded EXCEPT ![n] = FALSE] /\ UNCHANGED etag
  BY DEF Readback
<1>4. \/ /\ pc'   = [pc EXCEPT ![n] = "ready"]
         /\ buf'  = [buf EXCEPT ![n] = Nobody]
         /\ next' = [next EXCEPT ![n] = Old]
         /\ UNCHANGED <<why, got, todo>>
      \/ Leave(n)
  BY DEF Readback
<1>5. /\ etag' \in [Node -> Head] /\ loaded' \in [Node -> BOOLEAN]
      /\ (head = next[n] /\ etag'[n] = next[n]) \/ (loaded'[n] = FALSE /\ etag'[n] = etag[n])
      /\ \A m \in Node \ {n} : etag'[m] = etag[m] /\ loaded'[m] = loaded[m]
  BY <1>1, <1>3 DEF TypeOK
<1>6. /\ pc' \in [Node -> PC] /\ why' \in [Node -> Ops] /\ got' \in [Node -> Head]
      /\ todo' \in [Node -> SUBSET Key] /\ buf' \in [Node -> State] /\ next' \in [Node -> Head]
      /\ \/ pc'[n] = "ready" /\ got'[n] = got[n] /\ todo'[n] = todo[n] /\ why'[n] = why[n]
         \/ pc'[n] = "idle" /\ got'[n] = Old /\ todo'[n] = {} /\ why'[n] = "read"
  <2>1. CASE Leave(n)
    BY <1>1, <2>1, LeaveTypes
  <2>2. CASE ~Leave(n)
    <3>1. /\ pc' = [pc EXCEPT ![n] = "ready"] /\ buf' = [buf EXCEPT ![n] = Nobody]
          /\ next' = [next EXCEPT ![n] = Old] /\ UNCHANGED <<why, got, todo>>
      BY <1>4, <2>2
    <3>2. pc' \in [Node -> PC] /\ pc'[n] = "ready"
      BY <1>1, <3>1 DEF TypeOK, PC
    <3>3. buf' \in [Node -> State] /\ next' \in [Node -> Head]
      BY <1>1, <3>1, Values DEF TypeOK
    <3> QED
      BY <1>1, <3>1, <3>2, <3>3 DEF TypeOK
  <2> QED
    BY <2>1, <2>2
<1>7. hd'[n] = next[n] /\ final'[n] = 0 /\ data'[n] = buf[n]
  BY <1>1, <1>2 DEF TypeOK
<1>8. TypeOK'
  <2>1. hd' \in [Node -> Head] /\ final' \in [Node -> Tx] /\ data' \in [Node -> State]
    BY <1>1, <1>2, Values DEF TypeOK
  <2> QED
    BY <1>1, <1>2, <1>5, <1>6, <2>1 DEF TypeOK, storeVars
<1>9. Others(n)
  BY <1>1, <1>2, <1>4, <1>5 DEF Others, Same, Leave, TypeOK
<1>10. NodeInv(n)'
  <2>1. /\ Known(next[n]) /\ hd[n].tx < next[n].tx /\ etag[n].tx < next[n].tx
        /\ hist[next[n].tx] = buf[n] /\ next[n].tx <= head.tx
    BY <1>1, <1>2 DEF NodeInv, Publishing, Known
  <2>2. next[n].tx \in Nat /\ hd[n].tx \in Nat /\ etag[n].tx \in Nat /\ head.tx \in Nat
    BY <1>1, NodeTypes
  <2>3. next[n].tx # 0 /\ head.tx # 0
    BY <2>1, <2>2
  <2>4. Known(hd[n])' /\ Known(etag[n])'
    BY SMTT(30), <1>1, <1>2, <1>5, <1>7, <2>1 DEF NodeInv, Known, storeVars
  <2>5. Known(got[n])'
    BY <1>1, <1>2, <1>6, HeadKnown DEF NodeInv, Known, storeVars
  <2>6. Cached(n)'
    <3>1. head' = etag'[n] => hd'[n] = etag'[n]
      BY <1>2, <1>5, <1>7, <2>1, <2>2 DEF storeVars
    <3>2. data'[n] = hist'[hd'[n].tx]
      BY <1>2, <1>7, <2>1
    <3> QED
      BY <3>1, <3>2 DEF Cached
  <2>7. Upgraded(n)' /\ Reading(n)' /\ Publishing(n)'
    BY <1>6, <1>7, <2>3 DEF Upgraded, Reading, Publishing
  <2>8. Flushing(n)'
    BY <1>1, <1>2, <1>6, <1>7, <2>2, <2>3 DEF Flushing, NodeInv, storeVars
  <2> QED
    BY <2>4, <2>5, <2>6, <2>7, <2>8 DEF NodeInv
<1> QED
  BY <1>2, <1>6, <1>8, <1>9, <1>10, LocalStepKeeps

-----------------------------------------------------------------------------
(***************************************************************************)
(* Then those that touch the objects.                                      *)
(***************************************************************************)

\* A record of the newest decision moved to its place.
LEMMA MoveOn ==
    ASSUME TypeOK, Decided, NEW k \in Pending(head), record[k] = head.pending[k],
           record' = [record EXCEPT ![k] = [tx |-> head.tx, val |-> hist[head.tx][k]]],
           UNCHANGED <<head, prepared, ntx, hist>>
    PROVE  Decided' /\ Onward(0) /\ record' \in [Key -> Rec] /\ record'[k].tx = head.tx
<1> DEFINE r == [tx |-> head.tx, val |-> hist[head.tx][k]]
<1>1. /\ k \in Key /\ head.tx \in Tx /\ head.tx \in Nat /\ head.pending[k].tx \in Nat
      /\ head.pending[k].tx < head.tx /\ ntx \in Nat
  BY Files, Values DEF TypeOK, Decided
<1>2. hist[head.tx][k] \in Nat
  BY <1>1, Committed DEF Decided, Field
<1>3. r \in Rec /\ r.tx = head.tx /\ r.val = hist[head.tx][k]
  BY <1>1, <1>2 DEF Rec
<1> HIDE DEF r
<1>4. record' = [record EXCEPT ![k] = r]
  BY DEF r
<1>5. /\ record' \in [Key -> Rec] /\ record'[k] = r
      /\ \A j \in Key \ {k} : record'[j] = record[j]
  BY <1>1, <1>3, <1>4 DEF TypeOK
<1>6. \A j \in Key : record[j].tx \in Nat
  BY RecordsOld
<1>7. Onward(0)
  BY <1>1, <1>3, <1>5, <1>6 DEF Onward
<1>8. Decided'
  <2>1. /\ head'.tx <= ntx' /\ hist'[0] = Legacy /\ hist'[head'.tx] # None
        /\ \A t \in Tx : hist'[t] # None => t <= head'.tx
        /\ head'.user = hist'[head'.tx][User]
    BY DEF Decided
  <2>2. head.tx # 0
    BY <1>1
  <2>3. \A j \in Pending(head) :
           /\ prepared'[j][head'.tx] = hist'[head'.tx][j]
           /\ head'.pending[j].tx < head'.tx
           /\ record'[j] \in {head'.pending[j], [tx |-> head'.tx, val |-> hist'[head'.tx][j]]}
    <3> SUFFICES ASSUME NEW j \in Pending(head)
                 PROVE  record'[j] \in {head.pending[j], [tx |-> head.tx, val |-> hist[head.tx][j]]}
      BY DEF Decided
    <3>1. CASE j = k
      BY <1>5, <3>1 DEF r
    <3>2. CASE j # k
      BY <1>5, <3>2 DEF Decided, Pending
    <3> QED
      BY <3>1, <3>2
  <2>4. \A j \in Key \ Pending(head) :
           record'[j].tx <= head'.tx /\ (head'.tx # 0 => record'[j].val = hist'[head'.tx][j])
    BY <1>5 DEF Decided
  <2>5. \A j \in Key : record'[j].tx = 0 => record'[j] = NoRec
    BY <1>3, <1>5, <2>2 DEF Decided
  <2> QED
    BY <2>1, <2>2, <2>3, <2>4, <2>5 DEF Decided, Pending
<1> QED
  BY <1>3, <1>5, <1>7, <1>8

\* A PUT of the flush finds the record as its transaction left it only if that
\* transaction is the newest.
LEMMA MoveIsNewest ==
    ASSUME TypeOK, Decided, NEW h \in Head, Known(h), NEW k \in Pending(h),
           record[k] = h.pending[k]
    PROVE  h = head
<1>1. k \in Key /\ h.tx \in Nat /\ h.pending[k].tx \in Nat /\ h.pending[k].tx < h.tx
  BY Files DEF Known
<1> QED
  BY <1>1 DEF Known

LEMMA FlushMoveStep ==
    ASSUME IInv, NEW n \in Node, NEW k \in Key, FlushMove(n, k)
    PROVE  IInv' /\ Others(n) /\ UNCHANGED <<hd, data>> /\ k \in Pending(head)
           /\ record'[k].tx = head.tx /\ record[k].tx < head.tx
<1>1. TypeOK /\ NodeInv(n) /\ Decided
  BY DEF IInv
<1>2. /\ pc[n] = "flush" /\ k \in todo[n] /\ record[k] = hd[n].pending[k]
      /\ record' = [record EXCEPT ![k] = Moved(n, k)]
      /\ UNCHANGED <<head, prepared, lateHeads, lateRecords, ntx, hist>>
  BY DEF FlushMove, RecordMatches
<1>3. FlushDone(n, k) \/ Fail(n) \/ FailExist(n)
  BY DEF FlushMove
<1>4. k \in Pending(hd[n]) /\ hd[n] \in Head /\ Known(hd[n])
  BY <1>1, <1>2, NodeTypes DEF NodeInv, Flushing
<1>5. hd[n] = head
  BY <1>1, <1>2, <1>4, MoveIsNewest
<1>6. Moved(n, k) = [tx |-> head.tx, val |-> hist[head.tx][k]]
  BY <1>1, <1>4, <1>5 DEF Moved, Decided
<1>7. Decided' /\ Onward(0) /\ record' \in [Key -> Rec] /\ record'[k].tx = head.tx
  BY <1>1, <1>2, <1>4, <1>5, <1>6, MoveOn
<1>8. k \in Pending(head) /\ record[k].tx < head.tx
  BY <1>1, <1>2, <1>4, <1>5 DEF Decided
<1>9. TypeOK' /\ NodeInv(n)' /\ Others(n) /\ UNCHANGED <<hd, data>> /\ (pc'[n] = "prepare" => pc[n] = "prepare")
  <2>1. CASE FlushDone(n, k)
    <3>1. todo[n] \ {k} \in SUBSET Key
      BY <1>1, NodeTypes
    <3>2. TypeOK'
      BY <1>1, <1>2, <1>7, <2>1, <3>1 DEF TypeOK, FlushDone, cacheVars
    <3>3. NodeInv(n)' /\ Others(n)
      BY <1>1, <1>2, <1>7, <2>1, <3>2, DoneInv
    <3> QED
      BY <2>1, <3>2, <3>3 DEF FlushDone, cacheVars
  <2>2. CASE Fail(n) \/ FailExist(n)
    <3>1. TypeOK'
      BY <1>1, <1>2, <1>7, <2>2, Failed, LeaveTypes DEF TypeOK
    <3>2. NodeInv(n)'
      BY <1>1, <1>7, <2>2, <3>1, Failed, LeaveOn
    <3> QED
      BY <1>1, <2>2, <3>1, <3>2, Failed, LeaveTypes
  <2> QED
    BY <1>3, <2>1, <2>2
<1>10. \A m \in Node : pc'[m] = "prepare" => pc[m] = "prepare" /\ next'[m].tx = next[m].tx
  BY <1>2, <1>9 DEF Others, Same
<1>11. Distinct'
  BY <1>1, <1>2, <1>10, DistinctOn DEF IInv
<1>12. \A m \in Node : NodeInv(m)' \/ (Same(m) /\ (pc[m] = "prepare" => next[m].tx # 0))
  BY <1>9, DrawnIds DEF Others
<1>13. /\ \A p \in lateHeads' : p \in lateHeads /\ p.new.tx # 0
       /\ \A p \in lateRecords' : p \in lateRecords
  BY <1>2, DrawnIds
<1> QED
  BY <1>7, <1>8, <1>9, <1>11, <1>12, <1>13, Together

LEMMA LateRecordStep ==
    ASSUME IInv, NEW p \in lateRecords, LateRecord(p)
    PROVE  /\ IInv'
           /\ \A k \in Key : record'[k] # record[k] =>
                 record[k].tx < head.tx /\ record'[k].tx = head.tx
<1>1. TypeOK /\ Decided /\ LateRecordInv(p)
  BY DEF IInv
<1>2. /\ lateRecords' = lateRecords \ {p}
      /\ record' = [record EXCEPT ![p.key] = IF record[p.key] = p.old THEN p.new ELSE record[p.key]]
      /\ UNCHANGED <<head, prepared, lateHeads, ntx, pc, why, cacheVars, opVars, hist>>
  BY <1>1 DEF LateRecord, RecordMatches, TypeOK
<1>3. /\ p.key \in Key /\ p.new \in Rec /\ p.old \in Rec /\ p.new.tx \in Nat /\ p.old.tx \in Nat
      /\ record \in [Key -> Rec]
  BY <1>1, Values DEF TypeOK, Rec
<1>4. /\ Decided' /\ Onward(0) /\ record' \in [Key -> Rec]
      /\ \A k \in Key : record'[k] # record[k] =>
            record[k].tx < head.tx /\ record'[k].tx = head.tx
  <2>1. CASE record[p.key] = p.old
    <3>1. p.new.tx = head.tx
      BY <1>1, <1>3, <2>1 DEF LateRecordInv
    <3>2. /\ p.key \in Pending(head) /\ record[p.key] = head.pending[p.key]
          /\ p.new.val = hist[head.tx][p.key]
      BY <1>1, <2>1, <3>1 DEF LateRecordInv
    <3>3. p.new = [tx |-> head.tx, val |-> hist[head.tx][p.key]]
      BY <1>3, <3>1, <3>2 DEF Rec
    <3>4. record' = [record EXCEPT ![p.key] = [tx |-> head.tx, val |-> hist[head.tx][p.key]]]
      BY <1>2, <2>1, <3>3
    <3>5. Decided' /\ Onward(0) /\ record' \in [Key -> Rec] /\ record'[p.key].tx = head.tx
      BY <1>1, <1>2, <3>2, <3>4, MoveOn
    <3>6. \A k \in Key \ {p.key} : record'[k] = record[k]
      BY <1>3, <3>4
    <3>7. record[p.key].tx < head.tx
      BY <1>1, <2>1, <3>1 DEF LateRecordInv
    <3> QED
      BY <3>5, <3>6, <3>7
  <2>2. CASE record[p.key] # p.old
    <3>1. record' = record
      BY <1>2, <1>3, <2>2
    <3> QED
      BY <1>2, <1>3, <3>1, LocalStep
  <2> QED
    BY <2>1, <2>2
<1>5. TypeOK'
  BY <1>1, <1>2, <1>4 DEF TypeOK, cacheVars, opVars
<1>6. Distinct'
  BY <1>1, <1>2 DEF IInv, Distinct, opVars
<1>7. \A m \in Node : Same(m) /\ (pc[m] = "prepare" => next[m].tx # 0)
  BY <1>2, DrawnIds DEF Same, cacheVars, opVars
<1>8. /\ \A q \in lateHeads' : q \in lateHeads /\ q.new.tx # 0
      /\ \A q \in lateRecords' : q \in lateRecords
  BY <1>2, DrawnIds
<1> QED
  BY <1>4, <1>5, <1>6, <1>7, <1>8, Together

LEMMA FlushLateStep ==
    ASSUME IInv, NEW n \in Node, NEW k \in Key, FlushLate(n, k)
    PROVE  IInv'
<1>1. TypeOK /\ NodeInv(n) /\ Decided
  BY DEF IInv
<1>0. PICK q : q = [key |-> k, old |-> hd[n].pending[k], new |-> Moved(n, k)]
  OBVIOUS
<1>2. /\ pc[n] = "flush" /\ k \in todo[n] /\ lateRecords' = lateRecords \cup {q} /\ Fail(n)
      /\ UNCHANGED <<head, record, prepared, lateHeads, ntx, hist>>
  BY <1>0 DEF FlushLate
<1>3. k \in Pending(hd[n]) /\ hd[n] \in Head /\ Known(hd[n]) /\ head.tx \in Nat
  BY <1>1, <1>2, NodeTypes DEF NodeInv, Flushing
<1>4. hd[n].pending[k] \in Rec /\ hd[n].pending[k].tx < hd[n].tx /\ hd[n].tx \in Tx
  BY <1>3, Files DEF Known
<1>5. prepared[k][hd[n].tx] = hist[hd[n].tx][k] /\ hist[hd[n].tx][k] \in Nat
  BY <1>1, <1>3, <1>4, Committed DEF Known, Field
<1>6. Moved(n, k) \in Rec /\ Moved(n, k).tx = hd[n].tx /\ Moved(n, k).val = hist[hd[n].tx][k]
  BY <1>4, <1>5 DEF Moved, Rec
<1>7. q \in [key : Key, old : Rec, new : Rec] /\ q.key = k /\ q.old = hd[n].pending[k]
      /\ q.new = Moved(n, k)
  BY <1>0, <1>4, <1>6
<1>8. TypeOK'
  BY <1>1, <1>2, <1>7, Failed, LeaveTypes DEF TypeOK
<1>9. Decided' /\ Onward(0)
  BY <1>2, LocalStep
<1>10. NodeInv(n)'
  BY <1>1, <1>2, <1>8, <1>9, Failed, LeaveOn
<1>11. LateRecordInv(q)'
  <2>1. LateRecordInv(q)
    BY <1>3, <1>4, <1>6, <1>7 DEF LateRecordInv, Known
  <2> QED
    BY <1>2, <2>1 DEF LateRecordInv
<1>12. \A m \in Node : NodeInv(m)' \/ (Same(m) /\ (pc[m] = "prepare" => next[m].tx # 0))
  BY <1>1, <1>2, <1>10, Failed, DrawnIds DEF Others
<1>13. \A m \in Node : pc'[m] = "prepare" => pc[m] = "prepare" /\ next'[m].tx = next[m].tx
  BY <1>1, <1>2, Failed, LeaveTypes DEF Others, Same
<1>14. Distinct'
  BY <1>2, <1>13, DistinctOn DEF IInv
<1>15. /\ \A p \in lateHeads' : p \in lateHeads /\ p.new.tx # 0
       /\ \A p \in lateRecords' : p \in lateRecords \/ LateRecordInv(p)'
  BY <1>2, <1>11, DrawnIds
<1> QED
  BY <1>8, <1>9, <1>12, <1>14, <1>15, Together

\* An account file swapped over the one its transaction was prepared on.
LEMMA PublishOn ==
    ASSUME TypeOK, Decided, NEW new \in Head, NEW d \in State, Offer(head, new, d, {}),
           head' = new, hist' = [hist EXCEPT ![new.tx] = d],
           UNCHANGED <<record, prepared, ntx>>
    PROVE  /\ Decided' /\ Onward(new.tx) /\ hist' \in [Tx -> State \cup {None}]
           /\ head.tx < new.tx /\ hist'[new.tx] = d /\ Made(head.tx, hist[head.tx], d)
<1>1. /\ new.tx \in Tx /\ new.tx \in Nat /\ head.tx \in Nat /\ ntx \in Nat /\ head.tx < new.tx
      /\ new.tx <= ntx /\ new.tx # 0 /\ hist[new.tx] = None
  BY Files, Values DEF TypeOK, Offer
<1>2. /\ hist' \in [Tx -> State \cup {None}] /\ hist'[new.tx] = d
      /\ \A t \in Tx \ {new.tx} : hist'[t] = hist[t]
  BY <1>1 DEF TypeOK
<1>3. \A k \in Key : record[k].tx \in Nat /\ record[k].tx <= head.tx
  BY RecordsOld
<1>4. Onward(new.tx)
  BY <1>1, <1>2, <1>3 DEF Onward, Offer
<1>5. Decided'
  <2>1. head'.tx <= ntx' /\ hist'[0] = Legacy /\ hist'[head'.tx] # None
    BY <1>1, <1>2, Values DEF Decided
  <2>2. ASSUME NEW t \in Tx, hist'[t] # None
        PROVE  t <= head'.tx
    <3>1. t \in Nat
      BY Values
    <3> QED
      BY <1>1, <1>2, <2>2, <3>1 DEF Decided
  <2>3. head'.tx # 0 /\ head'.user = hist'[head'.tx][User]
    BY <1>1, <1>2 DEF Offer
  <2>4. ASSUME NEW k \in Pending(new)
        PROVE  /\ prepared'[k][new.tx] = d[k] /\ new.pending[k].tx < new.tx
               /\ record'[k] = new.pending[k]
    <3>1. k \in Key
      BY Files
    <3> QED
      BY <1>1, <1>3, <3>1 DEF Offer
  <2>5. ASSUME NEW k \in Key \ Pending(new)
        PROVE  record'[k].tx <= new.tx /\ record'[k].val = d[k]
    BY <1>1, <1>3 DEF Offer
  <2>6. \A k \in Key : record'[k].tx = 0 => record'[k] = NoRec
    BY DEF Decided
  <2> QED
    BY <1>2, <2>1, <2>2, <2>3, <2>4, <2>5, <2>6 DEF Decided, Pending
<1> QED
  BY <1>1, <1>2, <1>4, <1>5 DEF Offer

LEMMA PublishStep ==
    ASSUME IInv, NEW n \in Node, Publish(n)
    PROVE  /\ IInv' /\ UNCHANGED <<record, hd, data>> /\ next[n].tx \in Tx
           /\ head.tx < next[n].tx /\ Made(head.tx, hist[head.tx], buf[n])
           /\ hist' = [hist EXCEPT ![next[n].tx] = buf[n]]
<1>1. TypeOK /\ NodeInv(n) /\ Decided
  BY DEF IInv
<1>2. /\ pc[n] = "prepare" /\ todo[n] = {} /\ head = etag[n]
      /\ head' = next[n] /\ hist' = [hist EXCEPT ![next[n].tx] = buf[n]]
      /\ UNCHANGED <<record, prepared, lateHeads, lateRecords, ntx>>
  BY DEF Publish, HeadMatches
<1>3. \/ pc' = [pc EXCEPT ![n] = "readback"] /\ UNCHANGED <<why, opVars, cacheVars>>
      \/ Fail(n) \/ FailExist(n)
  BY DEF Publish
<1>4. PICK new \in Head, d \in State : new = next[n] /\ d = buf[n]
  BY <1>1, NodeTypes
<1>5. Offer(head, new, d, {}) /\ hd[n].tx < new.tx
  BY <1>1, <1>2, <1>4 DEF NodeInv, Publishing
<1>6. /\ Decided' /\ Onward(new.tx) /\ hist' \in [Tx -> State \cup {None}]
      /\ head.tx < new.tx /\ hist'[new.tx] = d /\ Made(head.tx, hist[head.tx], d)
  BY <1>1, <1>2, <1>4, <1>5, PublishOn
<1>7. TypeOK' /\ NodeInv(n)' /\ Others(n) /\ UNCHANGED <<hd, data>> /\ pc'[n] # "prepare"
  <2>1. CASE Fail(n) \/ FailExist(n)
    <3>1. TypeOK'
      BY <1>1, <1>2, <1>4, <1>6, <2>1, Failed, LeaveTypes DEF TypeOK
    <3>2. NodeInv(n)'
      BY <1>1, <1>6, <2>1, <3>1, Failed, LeaveOn
    <3> QED
      BY <1>1, <2>1, <3>1, <3>2, Failed, LeaveTypes
  <2>2. CASE pc' = [pc EXCEPT ![n] = "readback"] /\ UNCHANGED <<why, opVars, cacheVars>>
    <3>1. pc'[n] = "readback"
      BY <1>1, <2>2 DEF TypeOK
    <3>2. TypeOK'
      BY <1>1, <1>2, <1>4, <1>6, <2>2 DEF TypeOK, PC, opVars, cacheVars
    <3>3. Others(n)
      BY <1>1, <2>2 DEF Others, Same, TypeOK, opVars, cacheVars
    <3>4. /\ Known(hd[n])' /\ Known(etag[n])'
          /\ data'[n] = hist'[hd'[n].tx] /\ (head' = etag'[n] => hd'[n] = etag'[n])
          /\ final[n] <= head'.tx /\ (final[n] = head'.tx => Settled')
      BY <1>1, <1>2, <1>6, <2>2, <3>2, CacheOn DEF NodeInv, Flushing, cacheVars
    <3>5. PICK g \in Head : g = got[n] /\ Known(g)
      BY <1>1, NodeTypes DEF NodeInv
    <3>6. Known(got[n])'
      BY <1>1, <1>6, <2>2, <3>2, <3>5, KnownOn DEF opVars
    <3>7. Cached(n)' /\ Upgraded(n)' /\ Reading(n)' /\ Flushing(n)'
      BY <1>1, <1>2, <2>2, <3>1, <3>4
      DEF Cached, Upgraded, Reading, Flushing, NodeInv, opVars, cacheVars
    <3>8. Publishing(n)'
      <4>0. head'.tx \in Nat
        BY <1>2, <1>4, Files
      <4>1. Known(head)'
        BY <1>6, <4>0 DEF Known, Decided, Pending
      <4>2. Known(next[n])'
        BY <1>2, <2>2, <4>1 DEF opVars, Known
      <4> QED
        BY <1>2, <1>4, <1>5, <1>6, <2>2, <3>1, <4>2 DEF Publishing, opVars, cacheVars
    <3> QED
      BY <2>2, <3>1, <3>2, <3>3, <3>4, <3>6, <3>7, <3>8 DEF NodeInv, cacheVars
  <2> QED
    BY <1>3, <2>1, <2>2
<1>8. \A m \in Node : NodeInv(m)' \/ (Same(m) /\ (pc[m] = "prepare" => next[m].tx # new.tx))
  BY <1>2, <1>4, <1>7 DEF Others, IInv, Distinct
<1>9. \A m \in Node : pc'[m] = "prepare" => pc[m] = "prepare" /\ next'[m].tx = next[m].tx
  BY <1>7 DEF Others, Same
<1>10. Distinct'
  BY <1>2, <1>9, DistinctOn DEF IInv
<1>11. /\ \A p \in lateHeads' : p \in lateHeads /\ p.new.tx # new.tx
       /\ \A p \in lateRecords' : p \in lateRecords
  BY <1>2, <1>4 DEF IInv, Distinct
<1>12. IInv'
  BY <1>6, <1>7, <1>8, <1>10, <1>11, Together
<1> QED
  BY <1>2, <1>4, <1>6, <1>7, <1>12, Files

LEMMA LateHeadStep ==
    ASSUME IInv, NEW p \in lateHeads, LateHead(p)
    PROVE  /\ IInv' /\ UNCHANGED <<record, hd, data>>
           /\ \/ hist' = hist
              \/ /\ p.new.tx \in Tx /\ head.tx < p.new.tx
                 /\ Made(head.tx, hist[head.tx], p.data)
                 /\ hist' = [hist EXCEPT ![p.new.tx] = p.data]
<1>1. TypeOK /\ Decided /\ LateHeadInv(p)
  BY DEF IInv
<1>2. /\ lateHeads' = lateHeads \ {p}
      /\ UNCHANGED <<record, prepared, lateRecords, ntx, pc, why, cacheVars, opVars>>
  BY DEF LateHead
<1>3. p.new \in Head /\ p.data \in State /\ p.new.tx \in Tx
  BY <1>1, Files DEF TypeOK
<1>4. \A m \in Node : Same(m)
  BY <1>2 DEF Same, cacheVars, opVars
<1>5. Distinct'
  BY <1>1, <1>2 DEF IInv, Distinct, opVars
<1>6. CASE head = p.old
  <2>1. head' = p.new /\ hist' = [hist EXCEPT ![p.new.tx] = p.data]
    BY <1>6 DEF LateHead, HeadMatches
  <2>2. Offer(head, p.new, p.data, {})
    BY <1>1, <1>6 DEF LateHeadInv
  <2>3. /\ Decided' /\ Onward(p.new.tx) /\ hist' \in [Tx -> State \cup {None}]
        /\ head.tx < p.new.tx /\ Made(head.tx, hist[head.tx], p.data)
    BY <1>1, <1>2, <1>3, <2>1, <2>2, PublishOn
  <2>4. TypeOK'
    BY <1>1, <1>2, <1>3, <2>1, <2>3 DEF TypeOK, cacheVars, opVars
  <2>5. \A m \in Node : pc[m] = "prepare" => next[m].tx # p.new.tx
    BY DEF IInv, Distinct
  <2>6. /\ \A q \in lateHeads' : q \in lateHeads /\ q.new.tx # p.new.tx
        /\ \A q \in lateRecords' : q \in lateRecords
    BY <1>2 DEF IInv, Distinct
  <2>7. IInv'
    BY <1>4, <1>5, <2>3, <2>4, <2>5, <2>6, Together
  <2> QED
    BY <1>2, <1>3, <2>1, <2>3, <2>7 DEF cacheVars
<1>7. CASE head # p.old
  <2>1. UNCHANGED <<head, hist>>
    BY <1>7 DEF LateHead, HeadMatches
  <2>2. Decided' /\ Onward(0)
    BY <1>2, <2>1, LocalStep
  <2>3. TypeOK'
    BY <1>1, <1>2, <2>1 DEF TypeOK, cacheVars, opVars
  <2>4. /\ \A q \in lateHeads' : q \in lateHeads /\ q.new.tx # 0
        /\ \A q \in lateRecords' : q \in lateRecords
        /\ \A m \in Node : pc[m] = "prepare" => next[m].tx # 0
    BY <1>2, DrawnIds
  <2>5. IInv'
    BY <1>4, <1>5, <2>2, <2>3, <2>4, Together
  <2> QED
    BY <1>2, <2>1, <2>5 DEF cacheVars
<1> QED
  BY <1>6, <1>7

LEMMA PublishLateStep ==
    ASSUME IInv, NEW n \in Node, PublishLate(n)
    PROVE  IInv'
<1>1. TypeOK /\ NodeInv(n) /\ Decided
  BY DEF IInv
<1>2. PICK q : q = [old |-> etag[n], new |-> next[n], data |-> buf[n]]
  OBVIOUS
<1>3. /\ pc[n] = "prepare" /\ todo[n] = {} /\ lateHeads' = lateHeads \cup {q} /\ Fail(n)
      /\ UNCHANGED <<head, record, prepared, lateRecords, ntx, hist>>
  BY <1>2 DEF PublishLate
<1>4. /\ q \in [old : Head, new : Head, data : State]
      /\ q.old = etag[n] /\ q.new = next[n] /\ q.data = buf[n]
  BY <1>1, <1>2, NodeTypes
<1>5. TypeOK'
  BY <1>1, <1>3, <1>4, Failed, LeaveTypes DEF TypeOK
<1>6. Decided' /\ Onward(0)
  BY <1>3, LocalStep
<1>7. NodeInv(n)'
  BY <1>1, <1>3, <1>5, <1>6, Failed, LeaveOn
<1>8. LateHeadInv(q)'
  <2>1. Known(q.old) /\ Offer(q.old, q.new, q.data, {})
    BY <1>1, <1>3, <1>4 DEF NodeInv, Publishing
  <2> QED
    BY <1>3, <2>1 DEF LateHeadInv, Known, Offer, Settled
<1>9. \A m \in Node : NodeInv(m)' \/ (Same(m) /\ (pc[m] = "prepare" => next[m].tx # 0))
  BY <1>1, <1>3, <1>7, Failed, DrawnIds DEF Others
<1>10. \A m \in Node : pc'[m] = "prepare" => m # n /\ pc[m] = "prepare" /\ next'[m].tx = next[m].tx
  BY <1>1, <1>3, Failed, LeaveTypes DEF Others, Same
<1>11. Distinct'
  <2>1. \A m, k \in Node : pc'[m] = "prepare" /\ pc'[k] = "prepare" /\ next'[m].tx = next'[k].tx => m = k
    BY <1>10 DEF IInv, Distinct
  <2>2. \A m \in Node, p \in lateHeads' : pc'[m] = "prepare" => next'[m].tx # p.new.tx
    BY <1>3, <1>4, <1>10 DEF IInv, Distinct
  <2>3. \A p, r \in lateHeads' : p.new.tx = r.new.tx => p = r
    BY <1>3, <1>4 DEF IInv, Distinct
  <2> QED
    BY <2>1, <2>2, <2>3 DEF Distinct
<1>12. /\ \A p \in lateHeads' : (p \in lateHeads /\ p.new.tx # 0) \/ LateHeadInv(p)'
       /\ \A p \in lateRecords' : p \in lateRecords
  BY <1>3, <1>8, DrawnIds
<1> QED
  BY <1>5, <1>6, <1>9, <1>11, <1>12, Together

\* A transaction drawn once the records of its base are in place.
LEMMA DrawStep ==
    ASSUME IInv, NEW n \in Node, Draw(n)
    PROVE  IInv'
<1>1. TypeOK /\ NodeInv(n) /\ Decided
  BY DEF IInv
<1>2. PICK w : w = [Old EXCEPT !.tx = ntx + 1, !.user = buf[n][User]]
  OBVIOUS
<1>0. PICK K \in SUBSET Key : K = Written(n)
  BY DEF Written
<1>3. /\ pc[n] = "flush" /\ todo[n] = {} /\ ntx < MaxTx /\ (why[n] = "flush" => hd[n].tx = 0)
      /\ ntx' = ntx + 1 /\ pc' = [pc EXCEPT ![n] = "prepare"]
      /\ final' = [final EXCEPT ![n] = hd[n].tx] /\ next' = [next EXCEPT ![n] = w]
      /\ todo' = [todo EXCEPT ![n] = K]
      /\ UNCHANGED <<head, record, prepared, lateHeads, lateRecords, why, loaded, data, hd, etag,
                     got, buf, hist>>
  BY <1>0, <1>2 DEF Draw, Upgrading
<1>4. ntx \in Nat /\ head.tx \in Nat /\ hd[n].tx \in Nat /\ etag[n].tx \in Nat /\ hd[n].tx \in Tx
  BY <1>1, NodeTypes, Files
<1>5. ntx + 1 \in Tx
  BY <1>3, <1>4 DEF Tx
<1>6. buf[n][User] \in Nat
  BY <1>1, NodeTypes DEF State, Field
<1>7. w = [tx |-> ntx + 1, user |-> buf[n][User], pending |-> [k \in Key |-> None]]
  BY <1>2 DEF Old
<1>8. /\ w \in Head /\ w.tx = ntx + 1 /\ w.user = buf[n][User] /\ Pending(w) = {}
  BY <1>5, <1>6, <1>7 DEF Head, Pending
<1>10. /\ pc'[n] = "prepare" /\ final'[n] = hd[n].tx /\ next'[n] = w /\ todo'[n] = K
  BY <1>1, <1>3 DEF TypeOK
<1>11. TypeOK'
  BY <1>1, <1>3, <1>4, <1>5, <1>8 DEF TypeOK, PC
<1>12. Others(n)
  BY <1>1, <1>3 DEF Others, Same, TypeOK
<1>13. Onward(0)
  <2>1. \A k \in Key : record[k].tx \in Nat
    BY <1>1, RecordsOld
  <2> QED
    BY <1>3, <1>4, <2>1 DEF Onward
<1>14. Decided'
  BY <1>1, <1>3, <1>4 DEF Decided, Pending
<1>15. hd[n].tx <= head.tx /\ etag[n].tx <= head.tx /\ head.tx <= ntx
  BY <1>1 DEF NodeInv, Known, Decided
<1>16. head = hd[n] => Settled
  BY <1>1, <1>3 DEF NodeInv, Flushing, Settled
<1>17. Offer(etag[n], w, buf[n], K)'
  <2>1. w.tx \in 1 .. ntx' /\ etag[n].tx < w.tx
    BY <1>3, <1>4, <1>8, <1>15
  <2>2. hist[w.tx] = None
    BY <1>1, <1>4, <1>5, <1>8, <1>15 DEF Decided
  <2>3. head = etag[n] => head = hd[n] /\ hd[n] = etag[n] /\ data[n] = hist[head.tx]
    BY <1>1, <1>3 DEF NodeInv, Cached
  <2>4. head = etag[n] => Settled /\ Made(etag[n].tx, hist[etag[n].tx], buf[n])
    BY <1>1, <1>3, <1>16, <2>3 DEF NodeInv, Flushing
  <2>5. ASSUME head = etag[n], NEW k \in Key \ K
        PROVE  buf[n][k] = record[k].val
    <3>1. CASE hd[n].tx = 0
      <4>1. buf[n][k] = 0
        BY <1>0, <1>3, <2>5, <3>1 DEF Written, Upgrading
      <4>2. record[k] = NoRec
        BY <1>1, <2>3, <2>5, <3>1 DEF Decided
      <4> QED
        BY <4>1, <4>2, Values
    <3>2. CASE hd[n].tx # 0
      <4>1. buf[n][k] = data[n][k]
        BY <1>0, <2>5, <3>2 DEF Written, Upgrading
      <4>2. record[k].val = hist[head.tx][k]
        BY <1>1, <1>16, <2>3, <2>5, <3>2, AllInPlace
      <4> QED
        BY <2>3, <2>5, <4>1, <4>2
    <3> QED
      BY <3>1, <3>2
  <2> QED
    BY <1>3, <1>8, <2>1, <2>2, <2>4, <2>5 DEF Offer, Settled, Pending
<1>18. NodeInv(n)'
  <2>1. Known(hd[n])' /\ Known(etag[n])' /\ Known(got[n])'
    BY <1>1, <1>3 DEF NodeInv, Known
  <2>2. Cached(n)' /\ Upgraded(n)' /\ Reading(n)'
    BY <1>1, <1>3, <1>10 DEF NodeInv, Cached, Upgraded, Reading
  <2>3. Flushing(n)'
    <3>1. final'[n] <= head'.tx /\ (final'[n] = head'.tx => Settled')
      BY <1>1, <1>3, <1>10, <1>15, <1>16 DEF NodeInv, Known, Settled, Pending
    <3> QED
      BY <1>1, <1>3, <1>10, <3>1 DEF NodeInv, Flushing
  <2>4. Publishing(n)'
    <3>1. Offer(etag[n], next[n], buf[n], todo[n])'
      BY <1>10, <1>17
    <3> QED
      BY <1>3, <1>4, <1>8, <1>10, <1>15, <3>1 DEF Publishing
  <2> QED
    BY <2>1, <2>2, <2>3, <2>4 DEF NodeInv
<1>19. Distinct'
  <2>1. \A m \in Node \ {n} : pc'[m] = "prepare" =>
           pc[m] = "prepare" /\ next'[m].tx = next[m].tx /\ next'[m].tx # next'[n].tx
    BY <1>4, <1>8, <1>10, <1>12, DrawnIds DEF Others, Same
  <2>2. \A p \in lateHeads : p.new.tx # next'[n].tx
    BY <1>4, <1>8, <1>10, DrawnIds
  <2> QED
    BY <1>3, <2>1, <2>2 DEF IInv, Distinct
<1>20. /\ \A m \in Node : NodeInv(m)' \/ (Same(m) /\ (pc[m] = "prepare" => next[m].tx # 0))
       /\ \A p \in lateHeads' : p \in lateHeads /\ p.new.tx # 0
       /\ \A p \in lateRecords' : p \in lateRecords
  BY <1>3, <1>12, <1>18, DrawnIds DEF Others
<1> QED
  BY <1>11, <1>13, <1>14, <1>19, <1>20, Together

LEMMA PrepareStep ==
    ASSUME IInv, NEW n \in Node, NEW k \in Key, Prepare(n, k)
    PROVE  IInv'
<1>1. TypeOK /\ NodeInv(n) /\ Decided
  BY DEF IInv
<1>0. next[n].tx \in Tx /\ record[k] \in Rec /\ buf[n][k] \in Nat
  <2>1. next[n] \in Head /\ buf[n] \in State
    BY <1>1, NodeTypes
  <2> QED
    BY <1>1, <2>1, Files DEF TypeOK, State, Field
<1>2. PICK T \in Tx, r \in Rec, v \in Nat :
         T = next[n].tx /\ r = record[k] /\ v = buf[n][k]
  BY <1>0
<1>22. PICK w : w = [next[n] EXCEPT !.pending = [next[n].pending EXCEPT ![k] = r]]
  OBVIOUS
<1>3. /\ pc[n] = "prepare" /\ k \in todo[n]
      /\ prepared' = [prepared EXCEPT ![k] = [prepared[k] EXCEPT ![T] = v]]
      /\ next' = [next EXCEPT ![n] = w] /\ todo' = [todo EXCEPT ![n] = todo[n] \ {k}]
      /\ UNCHANGED <<head, record, lateHeads, lateRecords, ntx, pc, why, cacheVars, got, buf, hist>>
  <2>1. /\ pc[n] = "prepare" /\ k \in todo[n]
        /\ todo' = [todo EXCEPT ![n] = todo[n] \ {k}]
        /\ UNCHANGED <<head, record, lateHeads, lateRecords, ntx, pc, why, cacheVars, got, buf, hist>>
    BY <1>1 DEF Prepare, TypeOK
  <2>2. prepared' = [prepared EXCEPT ![k] = [prepared[k] EXCEPT ![T] = v]]
    BY <1>1, <1>2 DEF Prepare, TypeOK
  <2>3. next' = [next EXCEPT ![n] = w]
    BY <1>1, <1>2, <1>22 DEF Prepare, TypeOK
  <2> QED
    BY <2>1, <2>2, <2>3
<1>4. /\ next[n] \in Head /\ next[n].tx = T /\ next[n].user \in Nat
      /\ next[n].pending \in [Key -> Rec \cup {None}] /\ r # None
  BY <1>1, <1>2, NodeTypes, Files
<1>5. PICK P \in [Key -> Rec \cup {None}] :
         /\ P = [next[n].pending EXCEPT ![k] = r] /\ P[k] = r
         /\ \A j \in Key \ {k} : P[j] = next[n].pending[j]
  <2> DEFINE Q == [next[n].pending EXCEPT ![k] = r]
  <2>1. Q \in [Key -> Rec \cup {None}] /\ Q[k] = r /\ \A j \in Key \ {k} : Q[j] = next[n].pending[j]
    BY <1>4
  <2> QED
    BY <2>1
<1>6. w = [tx |-> T, user |-> next[n].user, pending |-> P]
  <2>1. w = [next[n] EXCEPT !.pending = P]
    BY <1>5, <1>22
  <2> QED
    BY <1>4, <2>1 DEF Head
<1>7. /\ w \in Head /\ w.tx = T /\ w.user = next[n].user /\ w.pending = P
      /\ Pending(w) = Pending(next[n]) \cup {k}
  BY <1>4, <1>5, <1>6 DEF Head, Pending
<1>8. /\ next'[n] = w /\ todo'[n] = todo[n] \ {k} /\ pc'[n] = "prepare"
      /\ todo[n] \ {k} \in SUBSET Key
  BY <1>1, <1>3, NodeTypes DEF TypeOK
<1>9. /\ prepared' \in [Key -> [Tx -> Nat \cup {None}]] /\ prepared'[k][T] = v
      /\ \A j \in Key \ {k} : prepared'[j] = prepared[j]
      /\ \A t \in Tx \ {T} : prepared'[k][t] = prepared[k][t]
  <2>1. PICK F \in [Tx -> Nat \cup {None}] :
           /\ F = [prepared[k] EXCEPT ![T] = v] /\ F[T] = v
           /\ \A t \in Tx \ {T} : F[t] = prepared[k][t]
    <3> DEFINE Q == [prepared[k] EXCEPT ![T] = v]
    <3>1. prepared[k] \in [Tx -> Nat \cup {None}]
      BY <1>1 DEF TypeOK
    <3>2. Q \in [Tx -> Nat \cup {None}] /\ Q[T] = v /\ \A t \in Tx \ {T} : Q[t] = prepared[k][t]
      BY <3>1
    <3> QED
      BY <3>2
  <2>2. prepared' = [prepared EXCEPT ![k] = F]
    BY <1>3, <2>1
  <2> QED
    BY <1>1, <2>1, <2>2 DEF TypeOK
<1>10. TypeOK'
  BY <1>1, <1>3, <1>7, <1>8, <1>9 DEF TypeOK, cacheVars
<1>11. Others(n)
  BY <1>1, <1>3 DEF Others, Same, TypeOK, cacheVars
<1>12. Offer(etag[n], next[n], buf[n], todo[n]) /\ hd[n].tx < T
  BY <1>1, <1>2, <1>3 DEF NodeInv, Publishing
<1>13. hist[T] = None /\ T # head.tx /\ head.tx \in Tx
  BY <1>1, <1>2, <1>12, NodeTypes, Files DEF Offer, Decided
<1>14. Onward(T)
  <2>1. \A j \in Key : record[j].tx \in Nat
    BY <1>1, RecordsOld
  <2>2. head.tx \in Nat /\ ntx \in Nat
    BY <1>1, NodeTypes
  <2>3. \A t \in Tx : t # T \/ hist[t] # None => \A j \in Key : prepared'[j][t] = prepared[j][t]
    BY <1>9, <1>13
  <2> QED
    BY <1>3, <2>1, <2>2, <2>3 DEF Onward
<1>15. Decided'
  <2>1. \A j \in Pending(head) : prepared'[j][head.tx] = prepared[j][head.tx]
    BY <1>9, <1>13 DEF Pending
  <2> QED
    BY <1>1, <1>3, <2>1 DEF Decided, Pending
<1>16. Offer(etag[n], w, buf[n], todo[n] \ {k})'
  <2>1. /\ w.tx \in 1 .. ntx /\ etag[n].tx < w.tx /\ hist[w.tx] = None /\ w.user = buf[n][User]
        /\ (todo[n] \ {k}) \cap Pending(w) = {}
    BY <1>2, <1>7, <1>12 DEF Offer
  <2>2. ASSUME NEW j \in Pending(w)
        PROVE  prepared'[j][w.tx] = buf[n][j]
    <3>1. CASE j = k
      BY <1>2, <1>7, <1>9, <3>1
    <3>2. CASE j # k
      BY <1>2, <1>7, <1>9, <1>12, <2>2, <3>2 DEF Offer, Pending
    <3> QED
      BY <3>1, <3>2
  <2>3. ASSUME head = etag[n]
        PROVE  /\ Settled /\ Made(etag[n].tx, hist[etag[n].tx], buf[n])
               /\ \A j \in Pending(w) : w.pending[j] = record[j]
               /\ \A j \in Key \ (Pending(w) \cup (todo[n] \ {k})) : buf[n][j] = record[j].val
    <3>1. ASSUME NEW j \in Pending(w)
          PROVE  w.pending[j] = record[j]
      <4>1. CASE j = k
        BY <1>2, <1>5, <1>7, <4>1
      <4>2. CASE j # k
        BY <1>5, <1>7, <1>12, <2>3, <3>1, <4>2 DEF Offer, Pending
      <4> QED
        BY <4>1, <4>2
    <3> QED
      BY <1>7, <1>12, <2>3, <3>1 DEF Offer
  <2> QED
    BY <1>3, <2>1, <2>2, <2>3 DEF Offer, Settled, Pending, cacheVars
<1>17. NodeInv(n)'
  <2>1. PICK h \in Head, e \in Head, g \in Head :
           h = hd[n] /\ e = etag[n] /\ g = got[n] /\ Known(h) /\ Known(e) /\ Known(g)
    BY <1>1, NodeTypes DEF NodeInv
  <2>2. Known(h)' /\ Known(e)' /\ Known(g)'
    BY <1>1, <1>10, <1>14, <2>1, KnownOn
  <2>3. Known(hd[n])' /\ Known(etag[n])' /\ Known(got[n])'
    BY <1>3, <2>1, <2>2 DEF cacheVars
  <2>4. Cached(n)' /\ Upgraded(n)' /\ Reading(n)'
    BY <1>1, <1>3, <1>8 DEF NodeInv, Cached, Upgraded, Reading, cacheVars
  <2>5. Flushing(n)'
    BY <1>1, <1>3, <1>8 DEF NodeInv, Flushing, Settled, Pending, cacheVars
  <2>6. Publishing(n)'
    <3>1. Offer(etag[n], next[n], buf[n], todo[n])'
      BY <1>8, <1>16
    <3> QED
      BY <1>3, <1>7, <1>8, <1>12, <3>1 DEF Publishing, cacheVars
  <2> QED
    BY <2>3, <2>4, <2>5, <2>6 DEF NodeInv
<1>18. \A m \in Node : pc'[m] = "prepare" => pc[m] = "prepare" /\ next'[m].tx = next[m].tx
  BY <1>3, <1>4, <1>7, <1>8, <1>11 DEF Others, Same
<1>19. Distinct'
  BY <1>3, <1>18, DistinctOn DEF IInv
<1>20. \A m \in Node : NodeInv(m)' \/ (Same(m) /\ (pc[m] = "prepare" => next[m].tx # T))
  BY <1>2, <1>3, <1>11, <1>17 DEF Others, IInv, Distinct
<1>21. /\ \A p \in lateHeads' : p \in lateHeads /\ p.new.tx # T
       /\ \A p \in lateRecords' : p \in lateRecords
  BY <1>2, <1>3 DEF IInv, Distinct
<1> QED
  BY <1>10, <1>14, <1>15, <1>19, <1>20, <1>21, Together

-----------------------------------------------------------------------------
(***************************************************************************)
(* The theorems.                                                           *)
(***************************************************************************)
LEMMA Start == Init => IInv
<1> SUFFICES ASSUME Init
             PROVE  IInv
  OBVIOUS
<1>1. TypeOK
  <2>1. [k \in Key |-> [t \in Tx |-> None]] \in [Key -> [Tx -> Nat \cup {None}]]
    OBVIOUS
  <2>2. [t \in Tx |-> IF t = 0 THEN Legacy ELSE None] \in [Tx -> State \cup {None}]
    BY Values
  <2>3. [k \in Key |-> NoRec] \in [Key -> Rec]
    BY Values
  <2>4. {} \in SUBSET Key
    OBVIOUS
  <2> QED
    BY <2>1, <2>2, <2>3, <2>4, Values DEF Init, TypeOK, PC, Ops
<1>2. /\ head = Old /\ ntx = 0 /\ hist[0] = Legacy
      /\ \A t \in Tx : hist[t] # None => t = 0
      /\ \A k \in Key : record[k] = NoRec
  BY Values DEF Init
<1>3. Decided
  BY <1>2, Values DEF Decided
<1>4. Distinct
  BY DEF Init, Distinct
<1>5. ASSUME NEW n \in Node
      PROVE  NodeInv(n)
  <2>1. /\ pc[n] = "idle" /\ why[n] = "read" /\ loaded[n] = FALSE /\ hd[n] = Old
        /\ etag[n] = Old /\ got[n] = Old /\ final[n] = 0 /\ todo[n] = {}
    BY DEF Init
  <2>2. Known(Old)
    BY <1>1, <1>3, HeadKnown
  <2>3. Settled
    BY <1>2, Values DEF Settled
  <2> QED
    BY <1>2, <2>1, <2>2, <2>3, Values
    DEF NodeInv, Cached, Upgraded, Reading, Flushing, Publishing
<1>6. lateHeads = {} /\ lateRecords = {}
  BY DEF Init
<1> QED
  BY <1>1, <1>3, <1>4, <1>5, <1>6 DEF IInv

LEMMA Invariance == IInv /\ [Next]_vars => IInv'
<1> SUFFICES ASSUME IInv, [Next]_vars
             PROVE  IInv'
  OBVIOUS
<1>1. ASSUME NEW n \in Node, Begin(n) \/ ServeRead(n) \/ Abort(n) \/ Crash(n)
      PROVE  IInv'
  BY <1>1, BeginStep, ServeReadStep, AbortStep, CrashStep
<1>2. ASSUME NEW n \in Node, Refresh(n)
      PROVE  IInv'
  BY <1>2, UnchangedStep, LoadLegacyStep, GetHeadStep, ListStep, GetRecordStep, RebuiltStep
  DEF Refresh
<1>3. ASSUME NEW n \in Node, Flush(n)
      PROVE  IInv'
  BY <1>3, StartFlushStep, FlushSkipStep, FlushMoveStep, AbortStep, FlushLateStep, FlushEndStep
  DEF Flush
<1>4. ASSUME NEW n \in Node, Persist(n)
      PROVE  IInv'
  BY <1>4, StartBatchStep, DrawStep, PrepareStep, PublishStep, AbortStep, PublishLateStep,
     ReadbackStep
  DEF Persist
<1>5. ASSUME NEW p \in lateRecords, LateRecord(p)
      PROVE  IInv'
  BY <1>5, LateRecordStep
<1>6. ASSUME NEW p \in lateHeads, LateHead(p)
      PROVE  IInv'
  BY <1>6, LateHeadStep
<1>7. ASSUME UNCHANGED vars
      PROVE  IInv'
  <2>1. /\ UNCHANGED <<head, record, prepared, lateHeads, lateRecords, ntx, hist>>
        /\ UNCHANGED <<pc, why, loaded, data, hd, etag, final, got, todo, buf, next>>
    BY <1>7 DEF vars, storeVars, cacheVars, opVars
  <2>2. TypeOK'
    BY <2>1 DEF IInv, TypeOK
  <2>3. Decided' /\ Onward(0)
    BY <2>1, LocalStep
  <2>4. Distinct'
    BY <2>1 DEF IInv, Distinct
  <2>5. \A n \in Node : Same(n) /\ (pc[n] = "prepare" => next[n].tx # 0)
    BY <2>1, DrawnIds DEF Same
  <2>6. /\ \A p \in lateHeads' : p \in lateHeads /\ p.new.tx # 0
        /\ \A p \in lateRecords' : p \in lateRecords
    BY <2>1, DrawnIds
  <2> QED
    BY <2>2, <2>3, <2>4, <2>5, <2>6, Together
<1> QED
  BY <1>1, <1>2, <1>3, <1>4, <1>5, <1>6, <1>7 DEF Next

\* Every reachable state satisfies the inductive invariant.
THEOREM Inductive == Spec => []IInv
BY Start, Invariance, PTL DEF Spec

\* The variables keep their types: in particular a record always has a value,
\* so the prepare object that the flush moved it from existed.
THEOREM TypeCorrectness == Spec => []TypeOK
<1>1. IInv => TypeOK
  BY DEF IInv
<1> QED
  BY <1>1, Inductive, PTL

\* Whatever any node was doing when it stopped, and whatever PUT the server
\* still applies, the objects yield the account the last published transaction
\* produced.
THEOREM RecoveredWhole == Spec => []Recoverable
<1>1. IInv => Recoverable
  <2> SUFFICES ASSUME IInv, head.tx # 0
               PROVE  Stored = hist[head.tx]
    BY DEF Recoverable
  <2>1. TypeOK /\ Decided
    BY DEF IInv
  <2>2. hist[head.tx] \in State
    BY <2>1, Files, Committed DEF TypeOK, Decided
  <2>3. ASSUME NEW f \in Field
        PROVE  (IF f = User THEN head.user
                ELSE IF f \in Pending(head) THEN prepared[f][head.tx]
                ELSE record[f].val) = hist[head.tx][f]
    BY <2>1 DEF Decided, Field
  <2> QED
    BY <2>2, <2>3 DEF Stored, State
<1> QED
  BY <1>1, Inductive, PTL

\* No cache mixes the records of two transactions.
THEOREM CacheWhole == Spec => []CachedIsCommitted
<1>1. IInv => CachedIsCommitted
  BY DEF IInv, NodeInv, Cached, CachedIsCommitted
<1> QED
  BY <1>1, Inductive, PTL

\* The steps that move records.
LEMMA RecordMoves ==
    ASSUME IInv, [Next]_vars, NEW k \in Key, record'[k] # record[k]
    PROVE  record[k].tx < head.tx /\ record'[k].tx = head.tx
<1>1. CASE \E n \in Node, j \in Key : FlushMove(n, j)
  <2>1. PICK n \in Node, j \in Key : FlushMove(n, j)
    BY <1>1
  <2>2. record'[j].tx = head.tx /\ record[j].tx < head.tx
    BY <2>1, FlushMoveStep
  <2>3. j = k
    BY <2>1 DEF FlushMove, IInv, TypeOK
  <2> QED
    BY <2>2, <2>3
<1>2. CASE \E p \in lateRecords : LateRecord(p)
  BY <1>2, LateRecordStep
<1>3. CASE /\ ~\E n \in Node, j \in Key : FlushMove(n, j)
           /\ ~\E p \in lateRecords : LateRecord(p)
  <2>1. ASSUME NEW n \in Node, Flush(n)
        PROVE  record' = record
    BY <1>3, <2>1 DEF Flush, StartFlush, FlushSkip, FlushConflict, FlushLate, FlushEnd, storeVars
  <2>2. ASSUME NEW n \in Node, Refresh(n)
        PROVE  record' = record
    BY <2>2 DEF Refresh, Unchanged, LoadLegacy, GetHead, List, GetRecord, Rebuilt, storeVars
  <2>3. ASSUME NEW n \in Node, Persist(n)
        PROVE  record' = record
    BY <2>3 DEF Persist, StartBatch, Draw, Prepare, Publish, PublishConflict, PublishLate,
                Readback, storeVars
  <2>4. ASSUME NEW n \in Node, Begin(n) \/ ServeRead(n) \/ Abort(n) \/ Crash(n)
        PROVE  record' = record
    BY <2>4 DEF Begin, ServeRead, Abort, Crash, storeVars
  <2>5. ASSUME NEW p \in lateHeads, LateHead(p)
        PROVE  record' = record
    BY <2>5 DEF LateHead
  <2>6. UNCHANGED vars => record' = record
    BY DEF vars, storeVars
  <2> QED
    BY <1>3, <2>1, <2>2, <2>3, <2>4, <2>5, <2>6 DEF Next
<1> QED
  BY <1>1, <1>2, <1>3

\* No flush, however old its view or late its PUT, replaces the record of a
\* newer transaction, and only published transactions reach the records.
THEOREM RecordsOnlyForward == Spec => RecordsForward
<1>1. IInv /\ [Next]_vars =>
         [ \A k \in Key : record'[k] # record[k] =>
              /\ record[k].tx < record'[k].tx
              /\ hist[record'[k].tx] # None ]_vars
  BY RecordMoves DEF IInv, Decided
<1> QED
  BY <1>1, Inductive, PTL DEF Spec, RecordsForward

-----------------------------------------------------------------------------
(***************************************************************************)
(* The serial account of AccountStore.                                     *)
(***************************************************************************)

\* The newest transaction is the one the account file decides.
LEMMA NewestIs ==
    ASSUME IInv
    PROVE  /\ head.tx \in Account!Committed /\ Account!Newest = head.tx
           /\ \A t \in Tx : hist[t] # None => t \in Account!Committed
<1>1. TypeOK /\ Decided /\ head.tx \in Tx /\ head.tx \in Nat /\ Tx \subseteq Nat
  BY Files, Values DEF IInv, TypeOK
<1>2. Account!Committed = {t \in Tx : hist[t] # None}
  BY DEF Account!Committed, Account!Tx, Tx
<1>3. /\ head.tx \in Account!Committed
      /\ \A t \in Account!Committed : t \in Nat /\ head.tx >= t
  BY <1>1, <1>2 DEF Decided
<1>4. \A x \in Account!Committed :
         (\A y \in Account!Committed : x >= y) => x = head.tx
  BY <1>1, <1>3
<1>5. (CHOOSE x \in Account!Committed : \A y \in Account!Committed : x >= y) = head.tx
  BY <1>3, <1>4
<1>6. Account!Newest = head.tx
  BY <1>5 DEF Account!Newest, Account!Max
<1> QED
  BY <1>2, <1>3, <1>6

\* What node n answers from, as AccountStore sees it.
View(n) == [tx |-> hd[n].tx, data |-> IF hd[n].tx = 0 THEN Legacy ELSE data[n]]

\* A published transaction is a batch, or the upgrade, applied to the newest
\* state.
LEMMA CommitShown ==
    ASSUME IInv, NEW T \in Tx, NEW d, head.tx < T, Made(head.tx, hist[head.tx], d),
           hist' = [hist EXCEPT ![T] = d], UNCHANGED <<hd, data>>
    PROVE  Account!Next
<1>1. T > Account!Newest /\ T \in Account!Tx
  <2>1. T \in Nat /\ head.tx \in Nat
    BY Values, Files DEF IInv, TypeOK
  <2> QED
    BY <2>1, NewestIs DEF Account!Tx, Tx
<1>2. Account!Commit(T, d)
  BY <1>1 DEF Account!Commit
<1>3. CASE head.tx = 0 /\ d = Legacy
  BY <1>1, <1>2, <1>3, NewestIs DEF Account!Next, Account!Upgrade
<1>4. CASE \E bt \in Batches : d = Applied(bt, hist[head.tx])
  <2>1. PICK bt \in Batches : d = Applied(bt, hist[head.tx])
    BY <1>4
  <2>2. \A op, v : Account!Change(op, v) = Change(op, v)
    BY DEF Account!Change, Change
  <2>3. d = Account!Applied(bt, hist[Account!Newest])
    BY <2>1, <2>2, NewestIs DEF Account!Applied, Applied
  <2> QED
    BY <1>1, <1>2, <2>3 DEF Account!Next
<1> QED
  BY <1>3, <1>4 DEF Made

\* The view of node n alone changes, to the state of transaction t.
LEMMA ShowShown ==
    ASSUME NEW n \in Node, NEW t \in Tx, Others(n), hist' = hist,
           View(n)' = [tx |-> t, data |-> hist[t]]
    PROVE  Account!Show(n, t)
<1>1. \A m \in Node \ {n} : View(m)' = View(m)
  BY DEF Others, Same, View
<1>2. [m \in Node |-> View(m)'] = [[m \in Node |-> View(m)] EXCEPT ![n] = [tx |-> t, data |-> hist[t]]]
  BY <1>1
<1> QED
  BY <1>2 DEF Account!Show, View

LEMMA AdoptShown ==
    ASSUME IInv, NEW n \in Node, NEW t \in Tx, Others(n), hist' = hist, hist[t] # None,
           hd[n].tx <= t, View(n)' = [tx |-> t, data |-> hist[t]]
    PROVE  Account!Next
<1>1. Account!Adopt(n, t)
  BY NewestIs, ShowShown DEF Account!Adopt
<1>2. t \in Account!Tx
  BY DEF Account!Tx, Tx
<1> QED
  BY <1>1, <1>2 DEF Account!Next

\* A step that shows and commits nothing.
LEMMA NothingShown ==
    ASSUME hist' = hist, \A m \in Node : View(m)' = View(m)
    PROVE  UNCHANGED (Account!vars)
BY DEF Account!vars, View

LEMMA LoadLegacyShown ==
    ASSUME IInv, NEW n \in Node, LoadLegacy(n)
    PROVE  UNCHANGED (Account!vars)
<1>1. TypeOK /\ NodeInv(n)
  BY DEF IInv
<1>2. /\ head.tx = 0 /\ hist' = hist /\ hd' = [hd EXCEPT ![n] = head]
      /\ data' = [data EXCEPT ![n] = Legacy]
  BY DEF LoadLegacy
<1>3. hd[n].tx = 0
  BY <1>1, <1>2, NodeTypes DEF NodeInv, Known
<1>4. \A m \in Node : View(m)' = View(m)
  BY <1>1, <1>2, <1>3 DEF View, TypeOK
<1> QED
  BY <1>2, <1>4, NothingShown

LEMMA RebuiltShown ==
    ASSUME IInv, NEW n \in Node, Rebuilt(n)
    PROVE  Account!Next
<1>1. TypeOK /\ NodeInv(n) /\ got[n].tx \in Tx
  BY NodeTypes, Files DEF IInv
<1>2. /\ hd' = [hd EXCEPT ![n] = got[n]] /\ data' = [data EXCEPT ![n] = Overlay(got[n], buf[n])]
      /\ hist' = hist /\ pc[n] = "records" /\ todo[n] = {} /\ head = got[n]
  BY DEF Rebuilt, StillCurrent
<1>3. Overlay(got[n], buf[n]) = hist[got[n].tx]
  BY <1>2, OverlayRight
<1>4. Others(n)
  BY <1>1 DEF Rebuilt, Others, Same, TypeOK, storeVars
<1>5. got[n].tx # 0 /\ hist[got[n].tx] # None /\ hd[n].tx <= got[n].tx
  BY <1>1, <1>2 DEF NodeInv, Reading, Known
<1>6. View(n)' = [tx |-> got[n].tx, data |-> hist[got[n].tx]]
  BY <1>1, <1>2, <1>3, <1>5 DEF View, TypeOK
<1> QED
  BY <1>1, <1>2, <1>4, <1>5, <1>6, AdoptShown

LEMMA ReadbackShown ==
    ASSUME IInv, NEW n \in Node, Readback(n)
    PROVE  Account!Next
<1>1. TypeOK /\ NodeInv(n) /\ next[n].tx \in Tx /\ next[n].tx \in Nat /\ hd[n].tx \in Nat
  BY NodeTypes, Files DEF IInv
<1>2. /\ pc[n] = "readback" /\ hd' = [hd EXCEPT ![n] = next[n]]
      /\ data' = [data EXCEPT ![n] = buf[n]] /\ hist' = hist
  BY DEF Readback
<1>3. /\ hd[n].tx < next[n].tx /\ hist[next[n].tx] = buf[n] /\ hist[next[n].tx] # None
  BY <1>1, <1>2 DEF NodeInv, Publishing, Known
<1>4. View(n)' = [tx |-> next[n].tx, data |-> hist[next[n].tx]]
  BY <1>1, <1>2, <1>3 DEF View, TypeOK
<1>5. \A m \in Node \ {n} : View(m)' = View(m)
  BY <1>1, <1>2 DEF View, TypeOK
<1>6. [m \in Node |-> View(m)'] =
         [[m \in Node |-> View(m)] EXCEPT ![n] = [tx |-> next[n].tx, data |-> hist[next[n].tx]]]
  BY <1>4, <1>5
<1>7. Account!Show(n, next[n].tx)
  BY <1>2, <1>6 DEF Account!Show, View
<1>8. Account!Adopt(n, next[n].tx)
  BY <1>1, <1>3, <1>7, NewestIs DEF Account!Adopt
<1>9. next[n].tx \in Account!Tx
  BY <1>1 DEF Account!Tx, Tx
<1> QED
  BY <1>8, <1>9 DEF Account!Next

LEMMA CrashShown ==
    ASSUME IInv, NEW n \in Node, Crash(n)
    PROVE  Account!Next
<1>1. TypeOK /\ hist[0] = Legacy
  BY DEF IInv, Decided
<1>2. Others(n)
  BY <1>1 DEF Crash, Others, Same, Leave, TypeOK
<1>3. View(n)' = [tx |-> 0, data |-> hist[0]] /\ hist' = hist
  BY <1>1, Values DEF Crash, View, TypeOK
<1>4. Account!Restart(n)
  BY <1>2, <1>3, Values, ShowShown DEF Account!Restart
<1> QED
  BY <1>4 DEF Account!Next

\* Every other step leaves what is committed and what is answered alone.
LEMMA AccountStep == IInv /\ [Next]_vars => [Account!Next]_(Account!vars)
<1> SUFFICES ASSUME IInv, [Next]_vars
             PROVE  [Account!Next]_(Account!vars)
  OBVIOUS
<1>0. TypeOK
  BY DEF IInv
<1>1. UNCHANGED <<hd, data, hist>> => UNCHANGED (Account!vars)
  BY NothingShown DEF View
<1>2. ASSUME NEW n \in Node, Begin(n) \/ ServeRead(n) \/ Abort(n)
      PROVE  UNCHANGED <<hd, data, hist>>
  BY <1>2, <1>0, Failed DEF Begin, ServeRead, Abort, cacheVars
<1>3. ASSUME NEW n \in Node, Refresh(n)
      PROVE  [Account!Next]_(Account!vars)
  <2>1. CASE Rebuilt(n)
    BY <2>1, RebuiltShown
  <2>2. CASE LoadLegacy(n)
    BY <2>2, LoadLegacyShown
  <2>3. CASE ~Rebuilt(n) /\ ~LoadLegacy(n)
    <3>1. UNCHANGED <<hd, data, hist>>
      BY <1>3, <2>3 DEF Refresh, Unchanged, GetHead, List, GetRecord, cacheVars
    <3> QED
      BY <1>1, <3>1
  <2> QED
    BY <2>1, <2>2, <2>3
<1>4. ASSUME NEW n \in Node, Flush(n)
      PROVE  UNCHANGED <<hd, data, hist>>
  <2>1. ASSUME NEW k \in Key, FlushMove(n, k)
        PROVE  UNCHANGED <<hd, data, hist>>
    BY <2>1, FlushMoveStep DEF FlushMove
  <2>2. ASSUME NEW k \in Key, FlushSkip(n, k) \/ FlushConflict(n, k) \/ FlushLate(n, k)
        PROVE  UNCHANGED <<hd, data, hist>>
    BY <2>2, <1>0, Failed DEF FlushSkip, FlushConflict, FlushLate, FlushDone, cacheVars
  <2>3. ASSUME StartFlush(n) \/ FlushEnd(n)
        PROVE  UNCHANGED <<hd, data, hist>>
    BY <2>3 DEF StartFlush, FlushEnd, cacheVars
  <2> QED
    BY <1>4, <2>1, <2>2, <2>3 DEF Flush
<1>5. ASSUME NEW n \in Node, Persist(n)
      PROVE  [Account!Next]_(Account!vars)
  <2>1. CASE Publish(n)
    <3>1. PICK T, d : T \in Tx /\ T = next[n].tx /\ d = buf[n]
      BY <2>1, PublishStep
    <3> QED
      BY <2>1, <3>1, PublishStep, CommitShown
  <2>2. CASE Readback(n)
    BY <2>2, ReadbackShown
  <2>3. CASE ~Publish(n) /\ ~Readback(n)
    <3>1. UNCHANGED <<hd, data, hist>>
      BY <1>0, <1>5, <2>3, Failed
      DEF Persist, StartBatch, Draw, Prepare, PublishConflict, PublishLate, cacheVars
    <3> QED
      BY <1>1, <3>1
  <2> QED
    BY <2>1, <2>2, <2>3
<1>6. ASSUME NEW n \in Node, Crash(n)
      PROVE  [Account!Next]_(Account!vars)
  BY <1>6, CrashShown
<1>7. ASSUME NEW p \in lateRecords, LateRecord(p)
      PROVE  UNCHANGED <<hd, data, hist>>
  BY <1>7 DEF LateRecord, cacheVars
<1>8. ASSUME NEW p \in lateHeads, LateHead(p)
      PROVE  [Account!Next]_(Account!vars)
  <2>1. CASE hist' = hist
    BY <1>1, <1>8, <2>1, LateHeadStep
  <2>2. CASE hist' # hist
    <3>1. PICK T, d : T \in Tx /\ T = p.new.tx /\ d = p.data
      BY <1>8, <2>2, LateHeadStep
    <3> QED
      BY <1>8, <2>2, <3>1, LateHeadStep, CommitShown
  <2> QED
    BY <2>1, <2>2
<1>9. UNCHANGED vars => UNCHANGED <<hd, data, hist>>
  BY DEF vars, cacheVars
<1> QED
  BY <1>1, <1>2, <1>3, <1>4, <1>5, <1>6, <1>7, <1>8, <1>9 DEF Next

\* The objects, the flush loops and the caches of all nodes behave as one
\* serial account: each batch is applied whole to the newest state, none is
\* lost, and no running node goes back in time.
THEOREM AccountImplemented == Spec => ImplementsAccount
<1>1. Init => Account!Init
  <2> SUFFICES ASSUME Init
               PROVE  Account!Init
    OBVIOUS
  <2>1. hist = [t \in Account!Tx |-> IF t = 0 THEN Legacy ELSE None]
    BY DEF Init, Account!Tx, Tx
  <2>2. \A n \in Node : View(n) = [tx |-> 0, data |-> Legacy]
    BY Values DEF Init, View
  <2> QED
    BY <2>1, <2>2 DEF Account!Init, View
<1> QED
  BY <1>1, AccountStep, Inductive, PTL DEF Spec, ImplementsAccount, Account!Spec

=============================================================================
