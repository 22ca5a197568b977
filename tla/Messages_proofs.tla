-------------------------- MODULE Messages_proofs ---------------------------
(***************************************************************************)
(* Proofs about how a message comes in and how it is shown.                *)
(*                                                                         *)
(* StreamPool, which receives and ingests it, for any calls and any finite *)
(* set of workers: that its variables keep their types, one result being   *)
(* sent for a task at most, that no job is sent on the closed channel, and *)
(* that a message is received only while a worker stands for it.           *)
(*                                                                         *)
(* Mailbox, where sessions list, flag and remove it, for any emails and    *)
(* sessions: that its variables keep their types, that no UID names two    *)
(* messages, and that EXPUNGE and QUIT destroy what the client saw, unless *)
(* a folder is used before it is set up (EarlyUse).                        *)
(***************************************************************************)
EXTENDS StreamPool, Mailbox, FiniteSetTheorems, WellFoundedInduction, TLAPS

-----------------------------------------------------------------------------
(***************************************************************************)
(* The inductive invariant.                                                *)
(***************************************************************************)

\* Of the account: an email is in folders that are set up, it has UIDs in
\* these only, no two have one UID, and the next UID is above all of them.
MailInv ==
    /\ IsFiniteSet(made) /\ \A e \in Email : mail[e].in # {} => e \in made
    /\ \A e \in Email, b \in Box :
         /\ b \in mail[e].in => folder[b] = "keyed"
         /\ mail[e].uid[b] # 0 => b \in mail[e].in
         /\ mail[e].uid[b] <= top[b]
    /\ \A b \in Box :
         /\ folder[b] = "keyed" => next[b] > top[b]
         /\ folder[b] \in {"absent", "bare"} => top[b] = 0
    /\ \A e, f \in Email, b \in Box :
         mail[e].uid[b] = mail[f].uid[b] /\ mail[e].uid[b] # 0 => e = f

StoreTypes ==
    /\ mail \in [Email -> [in : SUBSET Box, uid : [Box -> Nat], del : BOOLEAN]]
    /\ made \subseteq Email /\ folder \in [Box -> States]
    /\ next \in [Box -> Nat] /\ top \in [Box -> Nat]

SignalTypes == woken \subseteq Session /\ owed \subseteq Session

SessionTypes(x) ==
    /\ x \in SessionState
    /\ \A i \in DOMAIN x.view : x.view[i].uid # 0
    /\ x.at \in {0} \cup DOMAIN x.view
    /\ x.marks \subseteq DOMAIN x.view

\* What has been read of folder b: a UID names one message, for ever; it is
\* not assigned again, and whatever has it now is that message.
Sound(read, b) ==
    /\ read # {} => folder[b] \in {"keyed", "gone"}
    /\ \A p, q \in read : p.uid = q.uid /\ p.uid # 0 => p.id = q.id
    /\ folder[b] = "keyed" =>
         \A p \in read :
           /\ p.uid < next[b]
           /\ \A e \in Email : mail[e].uid[b] = p.uid /\ p.uid # 0 => e = p.id

\* All that a session has of its folder.
Seen(x) == ToSet(x.view) \cup (IF x.buf = Nothing THEN {} ELSE x.buf)

\* A session: where it works on a message there is one, what it lists has each
\* email once, and what it is about to remove is what it showed.
Shape(x) ==
    /\ x.key = "keyed"
    /\ x.pc \in {"flag", "remove", "destroy"} <=> x.at # 0
    /\ x.pc \in {"poll", "idle", "flag"} => x.kind = "imap"
    /\ x.kind = "imap" \/ x.pc = "select" => x.marks = {}
    /\ x.buf # Nothing => IsFiniteSet(x.buf) /\ \A r, q \in x.buf : r.id = q.id => r = q
    /\ x.target # Nothing => x.pc = "destroy" /\ x.target.id = x.view[x.at].id
    /\ x.pc = "destroy" => x.target \in [id : Email, in : SUBSET Box]

SessionInv(x) == Shape(x) /\ Sound(Seen(x), x.box)

MailboxInv == MailboxTypeOK /\ MailInv /\ \A s \in Session : SessionInv(sess[s])
-----------------------------------------------------------------------------
(***************************************************************************)
(* Sequences and sorting.                                                  *)
(***************************************************************************)

\* The number of messages of S with no greater UID.
Rank(S, r) == Cardinality({t \in S : t.uid <= r.uid})

LEMMA RankGrows ==
  ASSUME NEW S, S \subseteq Entry, IsFiniteSet(S), NEW r \in S, NEW t \in S
  PROVE  /\ Rank(S, r) \in 1..Cardinality(S)
         /\ r.uid < t.uid => Rank(S, r) < Rank(S, t)
         /\ r.uid <= t.uid => Rank(S, r) <= Rank(S, t)
<1> DEFINE Below(x) == {y \in S : y.uid <= x.uid}
<1>1. \A y \in S : y.uid \in Nat
  BY DEF Entry
<1>2. \A x \in S : /\ IsFiniteSet(Below(x)) /\ Cardinality(Below(x)) \in Nat
                   /\ Cardinality(Below(x)) <= Cardinality(S)
  <2>1. ASSUME NEW x \in S PROVE Below(x) \in SUBSET S
    OBVIOUS
  <2> QED
    BY <2>1, FS_Subset, FS_CardinalityType
<1>3. r \in Below(r) /\ t \in Below(t)
  BY <1>1
<1>4. Cardinality(Below(r)) # 0
  BY <1>2, <1>3, FS_EmptySet
<1>5. Cardinality(S) \in Nat
  BY FS_CardinalityType
<1>6. ASSUME r.uid <= t.uid PROVE Below(r) \in SUBSET Below(t)
  BY <1>1, <1>6
<1>7. ASSUME r.uid < t.uid PROVE Below(r) # Below(t)
  <2>1. t \notin Below(r)
    BY <1>1, <1>7
  <2> QED
    BY <1>3, <2>1
<1>8. Rank(S, r) = Cardinality(Below(r)) /\ Rank(S, t) = Cardinality(Below(t))
  BY DEF Rank
<1> HIDE DEF Below
<1>9. ASSUME r.uid <= t.uid
      PROVE  /\ Cardinality(Below(r)) <= Cardinality(Below(t))
             /\ Cardinality(Below(r)) = Cardinality(Below(t)) => Below(r) = Below(t)
  BY <1>2, <1>6, <1>9, FS_Subset
<1>10. r.uid < t.uid => r.uid <= t.uid
  BY <1>1
<1> QED
  BY <1>2, <1>4, <1>5, <1>7, <1>8, <1>9, <1>10

\* Messages with different UIDs can be put in the order of their UIDs.
LEMMA Sortable ==
  ASSUME NEW S, S \subseteq Entry, IsFiniteSet(S),
         \A r, t \in S : r.uid = t.uid => r = t
  PROVE  \E q \in [1..Cardinality(S) -> S] :
           \A i, j \in DOMAIN q : i < j => q[i].uid < q[j].uid
<1> DEFINE n == Cardinality(S)
           f == [r \in S |-> Rank(S, r)]
<1>1. \A y \in S : y.uid \in Nat
  BY DEF Entry
<1>2. n \in Nat /\ \A r \in S : Rank(S, r) \in 1..n
  BY FS_CardinalityType, RankGrows
<1>3. ASSUME NEW r \in S, NEW t \in S, r # t PROVE f[r] # f[t]
  <2>1. r.uid < t.uid \/ t.uid < r.uid
    BY <1>1, <1>3
  <2>2. Rank(S, r) < Rank(S, t) \/ Rank(S, t) < Rank(S, r)
    BY <2>1, RankGrows
  <2> QED
    BY <1>2, <2>2
<1>4. f \in Injection(S, 1..n)
  BY <1>2, <1>3 DEF Injection, IsInjective
<1>5. IsFiniteSet(1..n) /\ Cardinality(1..n) = n
  <2>1. 1 \in Int /\ n \in Int /\ n >= 0
    BY <1>2
  <2> HIDE DEF n
  <2>2. IsFiniteSet(1..n) /\ Cardinality(1..n) = IF 1 > n THEN 0 ELSE n - 1 + 1
    BY <2>1, FS_Interval
  <2> QED
    BY <2>1, <2>2
<1>6. f \in Surjection(S, 1..n)
  <2> HIDE DEF f
  <2> QED
    BY <1>4, <1>5, FS_Injection
<1>7. \A i \in 1..n : \E r \in S : Rank(S, r) = i
  BY <1>6 DEF Surjection
<1> DEFINE q == [i \in 1..n |-> CHOOSE r \in S : Rank(S, r) = i]
<1>8. \A i \in 1..n : q[i] \in S /\ Rank(S, q[i]) = i
  BY <1>7
<1>9. ASSUME NEW i \in 1..n, NEW j \in 1..n, i < j PROVE q[i].uid < q[j].uid
  <2>1. q[i] \in S /\ q[j] \in S /\ Rank(S, q[i]) = i /\ Rank(S, q[j]) = j
    BY <1>8
  <2> HIDE DEF q
  <2>2. ~(q[j].uid <= q[i].uid)
    BY <1>2, <1>9, <2>1, RankGrows
  <2> QED
    BY <1>1, <2>1, <2>2
<1>10. q \in [1..n -> S]
  BY <1>8
<1> HIDE DEF q
<1> QED
  BY <1>9, <1>10

\* A listing shows the messages of the folder, in a sequence.
LEMMA ListingShows ==
  ASSUME NEW s \in Session, sess[s].buf \subseteq Entry, IsFiniteSet(sess[s].buf),
         \A r, t \in sess[s].buf : r.uid = t.uid => r = t
  PROVE  /\ Listing(s) \in Seq(Entry)
         /\ \A i \in DOMAIN Listing(s) : Listing(s)[i] \in sess[s].buf
<1> DEFINE n == Cardinality(sess[s].buf)
<1>1. Listing(s) \in [1..n -> sess[s].buf]
  BY Sortable DEF Listing
<1>2. n \in Nat
  BY FS_CardinalityType
<1> HIDE DEF n
<1> QED
  BY <1>1, <1>2

LEMMA Joined ==
  ASSUME NEW T, NEW a \in Seq(T), NEW b \in Seq(T)
  PROVE  /\ a \o b \in Seq(T) /\ DOMAIN (a \o b) = 1..(Len(a) + Len(b))
         /\ \A j \in 1..(Len(a) + Len(b)) :
              (a \o b)[j] = IF j <= Len(a) THEN a[j] ELSE b[j - Len(a)]
  OBVIOUS

\* Without its i-th element a sequence has no others than before.
LEMMA RemovedFrom ==
  ASSUME NEW T, NEW q \in Seq(T), NEW i \in DOMAIN q
  PROVE  /\ RemoveAt(q, i) \in Seq(T)
         /\ \A j \in DOMAIN RemoveAt(q, i) : \E k \in DOMAIN q : RemoveAt(q, i)[j] = q[k]
<1>1. Len(q) \in Nat /\ DOMAIN q = 1..Len(q) /\ i \in 1..Len(q)
  OBVIOUS
<1> DEFINE a == SubSeq(q, 1, i - 1)
           b == SubSeq(q, i + 1, Len(q))
<1>2. a \in Seq(T) /\ Len(a) = i - 1 /\ \A j \in 1..(i - 1) : a[j] = q[j]
  BY <1>1
<1>3. b \in Seq(T) /\ Len(b) = Len(q) - i /\ \A j \in 1..(Len(q) - i) : b[j] = q[i + j]
  BY <1>1
<1>4. RemoveAt(q, i) = a \o b
  BY DEF RemoveAt
<1> HIDE DEF a, b
<1>5. a \o b \in Seq(T) /\ DOMAIN (a \o b) = 1..(Len(q) - 1)
  <2>1. Len(a) + Len(b) = Len(q) - 1
    BY <1>1, <1>2, <1>3
  <2> QED
    BY <1>2, <1>3, <2>1, Joined
<1>6. ASSUME NEW j \in 1..(Len(q) - 1) PROVE \E k \in DOMAIN q : (a \o b)[j] = q[k]
  <2>1. CASE j <= i - 1
    <3>1. (a \o b)[j] = a[j] /\ j \in 1..(i - 1) /\ j \in 1..Len(q)
      BY <1>1, <1>2, <1>3, <2>1
    <3> QED
      BY <1>1, <1>2, <3>1
  <2>2. CASE ~(j <= i - 1)
    <3>1. (a \o b)[j] = b[j - (i - 1)] /\ j - (i - 1) \in 1..(Len(q) - i)
          /\ i + (j - (i - 1)) = j + 1 /\ j + 1 \in 1..Len(q)
      <4>1. Len(a) + Len(b) = Len(q) - 1 /\ ~(j <= Len(a))
        BY <1>1, <1>2, <1>3, <2>2
      <4>2. (a \o b)[j] = b[j - Len(a)]
        <5>1. j \in 1..(Len(a) + Len(b)) /\ a \in Seq(T) /\ b \in Seq(T)
          BY <1>2, <1>3, <4>1
        <5> QED
          BY <4>1, <5>1, Joined
      <4> QED
        BY <1>1, <1>2, <2>2, <4>2
    <3> QED
      BY <1>1, <1>3, <3>1
  <2> QED
    BY <2>1, <2>2
<1> QED
  BY <1>4, <1>5, <1>6

\* The greatest of some of the indices of a sequence.
LEMMA Greatest ==
  ASSUME NEW n \in Nat, NEW S, S \subseteq 1..n, S # {}
  PROVE  Max(S) \in S
<1> DEFINE T == {k \in 0..n : n - k \in S}
           R == {ss \in Nat \X Nat : ss[1] < ss[2]}
<1>1. IsWellFoundedOn(R, Nat)
  BY NatLessThanWellFounded DEF OpToRel
<1>2. T \subseteq Nat /\ T # {}
  <2>1. PICK i \in S : i \in 1..n
    OBVIOUS
  <2>2. n - i \in 0..n /\ n - (n - i) = i
    BY <2>1
  <2>3. n - i \in T
    BY <2>1, <2>2
  <2>4. T \subseteq Nat
    OBVIOUS
  <2> HIDE DEF T
  <2> QED
    BY <2>3, <2>4
<1>3. PICK m \in T : \A k \in T : ~ (<<k, m>> \in R)
  <2> HIDE DEF R, T
  <2> QED
    BY <1>1, <1>2, WFMin
<1>4. n - m \in S
  BY <1>3
<1>5. ASSUME NEW j \in S PROVE n - m >= j
  <2>1. j \in 1..n /\ m \in 0..n /\ n - j \in 0..n /\ n - (n - j) = j
    BY <1>3
  <2>2. n - j \in T
    BY <2>1
  <2>3. <<n - j, m>> \notin R
    BY <1>3, <2>2
  <2>4. ~(n - j < m)
    BY <2>1, <2>3
  <2> QED
    BY <2>1, <2>4
<1> HIDE DEF T, R
<1> QED
  BY <1>4, <1>5 DEF Max
-----------------------------------------------------------------------------
(***************************************************************************)
(* What a step does to what was read.                                      *)
(***************************************************************************)

\* No folder comes back, its next UID only grows, and a UID that a message
\* gets is none below it.
Onward ==
    /\ \A b \in Box :
         /\ folder[b] \in {"keyed", "gone"} => folder'[b] \in {"keyed", "gone"}
         /\ folder[b] # "keyed" /\ folder'[b] = "keyed" => folder[b] \in {"absent", "bare"}
         /\ folder'[b] = "keyed" /\ folder[b] = "keyed" => next'[b] >= next[b]
    /\ \A e \in Email, b \in Box :
         folder[b] = "keyed" /\ folder'[b] = "keyed" =>
           mail'[e].uid[b] = 0 \/ mail'[e].uid[b] = mail[e].uid[b] \/ mail'[e].uid[b] >= next[b]

\* What UidsAscend says of one step.
Ascends ==
    \A e \in Email, b \in Box :
      Shown(mail', e, b) \notin {0, Shown(mail, e, b)} => Shown(mail', e, b) > top[b]

\* Sound, of the state after the step.
SoundAfter(read, b) ==
    /\ read # {} => folder'[b] \in {"keyed", "gone"}
    /\ \A p, q \in read : p.uid = q.uid /\ p.uid # 0 => p.id = q.id
    /\ folder'[b] = "keyed" =>
         \A p \in read :
           /\ p.uid < next'[b]
           /\ \A e \in Email : mail'[e].uid[b] = p.uid /\ p.uid # 0 => e = p.id

LEMMA StillSound ==
  ASSUME MailboxTypeOK, StoreTypes', Onward, NEW read, read \subseteq Entry, NEW b \in Box, Sound(read, b)
  PROVE  SoundAfter(read, b)
<1>1. read # {} => folder'[b] \in {"keyed", "gone"}
  BY DEF Sound, Onward
<1>2. ASSUME folder'[b] = "keyed", NEW p \in read
      PROVE  /\ p.uid < next'[b]
             /\ \A e \in Email : mail'[e].uid[b] = p.uid /\ p.uid # 0 => e = p.id
  <2>1. folder[b] = "keyed"
    BY <1>2 DEF Sound, Onward
  <2>2. p.uid \in Nat /\ next[b] \in Nat /\ next'[b] \in Nat /\ p.uid < next[b]
    BY <2>1, <1>2 DEF Sound, MailboxTypeOK, StoreTypes, Entry
  <2>3. next'[b] >= next[b]
    BY <1>2, <2>1 DEF Onward
  <2>4. ASSUME NEW e \in Email, mail'[e].uid[b] = p.uid, p.uid # 0 PROVE e = p.id
    <3>1. mail'[e].uid[b] = mail[e].uid[b] \/ mail'[e].uid[b] >= next[b]
      BY <1>2, <2>1, <2>4 DEF Onward
    <3>2. mail[e].uid[b] = p.uid
      BY <2>2, <2>4, <3>1
    <3> QED
      BY <1>2, <2>1, <2>4, <3>2 DEF Sound
  <2> QED
    BY <2>2, <2>3, <2>4
<1> QED
  BY <1>1, <1>2 DEF Sound, SoundAfter

\* Less, or the same with other flags.
LEMMA SoundPart ==
  ASSUME NEW part, NEW read, NEW b \in Box, SoundAfter(read, b),
         \A p \in part : \E q \in read : p.id = q.id /\ p.uid = q.uid
  PROVE  SoundAfter(part, b)
<1>1. \A p, q \in part : p.uid = q.uid /\ p.uid # 0 => p.id = q.id
  BY DEF SoundAfter
<1>2. folder'[b] = "keyed" =>
        \A p \in part :
          /\ p.uid < next'[b]
          /\ \A e \in Email : mail'[e].uid[b] = p.uid /\ p.uid # 0 => e = p.id
  BY DEF SoundAfter
<1>3. part # {} => folder'[b] \in {"keyed", "gone"}
  BY DEF SoundAfter
<1> QED
  BY <1>1, <1>2, <1>3 DEF SoundAfter

\* And more, as the folder is now.
LEMMA SoundMore ==
  ASSUME StoreTypes', MailInv', NEW more, more \subseteq Entry, NEW read, NEW b \in Box,
         folder'[b] = "keyed", SoundAfter(read, b), \A p \in more : p.uid = mail'[p.id].uid[b]
  PROVE  SoundAfter(read \cup more, b)
<1>1. \A p \in more : p.id \in Email /\ p.uid \in Nat
  BY DEF Entry
<1>2. \A e, f \in Email : mail'[e].uid[b] = mail'[f].uid[b] /\ mail'[e].uid[b] # 0 => e = f
  BY DEF MailInv
<1>3. ASSUME NEW p \in read \cup more, NEW q \in read \cup more, p.uid = q.uid, p.uid # 0
      PROVE  p.id = q.id
  BY <1>1, <1>2, <1>3 DEF SoundAfter
<1>4. ASSUME NEW p \in more
      PROVE  /\ p.uid < next'[b]
             /\ \A e \in Email : mail'[e].uid[b] = p.uid /\ p.uid # 0 => e = p.id
  <2>1. /\ mail'[p.id].uid[b] <= top'[b] /\ top'[b] < next'[b]
        /\ top'[b] \in Nat /\ next'[b] \in Nat
    BY <1>1 DEF MailInv, StoreTypes
  <2>2. p.uid < next'[b]
    BY <1>1, <2>1
  <2>3. \A e \in Email : mail'[e].uid[b] = p.uid /\ p.uid # 0 => e = p.id
    BY <1>1, <1>2
  <2> QED
    BY <2>2, <2>3
<1> QED
  BY <1>3, <1>4 DEF SoundAfter

LEMMA Fields ==
  ASSUME NEW x \in SessionState
  PROVE  /\ x.view \in Seq(Entry) /\ (x.buf = Nothing \/ x.buf \subseteq Entry) /\ x.at \in Nat
         /\ x.box \in Box /\ x.kind \in {"imap", "pop"} /\ x.idling \in BOOLEAN
         /\ x.marks \subseteq Nat /\ x.key \in States
         /\ (x.target = Nothing \/ x.target \in [id : Email, in : SUBSET Box])
         /\ x.pc \in {"off", "select", "ready", "poll", "idle", "flag", "remove", "destroy", "quit"}
<1>1. x.buf \in (SUBSET Entry) \cup {Nothing}
  BY DEF SessionState
<1>2. x.target \in [id : Email, in : SUBSET Box] \cup {Nothing}
  BY DEF SessionState
<1>3. x.buf = Nothing \/ x.buf \subseteq Entry
  BY <1>1
<1> QED
  BY <1>2, <1>3 DEF SessionState

LEMMA SeenTypes ==
  ASSUME NEW x \in SessionState
  PROVE  Seen(x) \subseteq Entry /\ ToSet(x.view) \subseteq Entry
<1>1. ToSet(x.view) \subseteq Entry
  BY Fields DEF ToSet
<1> QED
  BY <1>1, Fields DEF Seen

\* A session that does nothing.
LEMMA SessionWaits ==
  ASSUME MailboxTypeOK, StoreTypes', Onward, NEW s \in Session, SessionInv(sess[s]), sess'[s] = sess[s]
  PROVE  SessionInv(sess[s])'
<1> DEFINE x == sess[s]
<1>1. x \in SessionState
  BY DEF MailboxTypeOK
<1>2. Seen(x) \subseteq Entry /\ x.box \in Box
  BY <1>1, Fields, SeenTypes
<1>3. Sound(Seen(x), x.box)
  BY DEF SessionInv
<1>4. SoundAfter(Seen(x), x.box)
  BY <1>2, <1>3, StillSound
<1> HIDE DEF x
<1>5. sess'[s] = x /\ SessionInv(x)
  BY DEF x
<1> QED
  BY <1>4, <1>5 DEF SessionInv, Sound, SoundAfter, Seen
-----------------------------------------------------------------------------
(***************************************************************************)
(* Commits of the account.                                                 *)
(***************************************************************************)

\* What every commit leaves.
Moves == StoreTypes' /\ MailInv' /\ Onward /\ Ascends

LEMMA MaxIs ==
  ASSUME NEW S, NEW x \in S, S \subseteq Nat, \A y \in S : y <= x
  PROVE  Max(S) = x
<1>1. x \in S /\ \A y \in S : x >= y
  OBVIOUS
<1>2. Max(S) \in S /\ \A y \in S : Max(S) >= y
  BY <1>1 DEF Max
<1>3. Max(S) <= x /\ Max(S) >= x /\ Max(S) \in Nat /\ x \in Nat
  BY <1>1, <1>2
<1> QED
  BY <1>3

LEMMA ShownUid ==
  ASSUME MailboxTypeOK, MailInv, NEW e \in Email, NEW b \in Box
  PROVE  Shown(mail, e, b) = mail[e].uid[b] /\ mail[e].uid[b] \in Nat
  BY DEF MailboxTypeOK, MailInv, Shown

LEMMA NoCommit ==
  ASSUME MailboxTypeOK, MailInv, UNCHANGED <<mail, made, folder, next, top>>
  PROVE  Moves
<1>1. StoreTypes' /\ MailInv'
  BY DEF MailboxTypeOK, StoreTypes, MailInv, store
<1>2. Onward
  BY DEF MailboxTypeOK, Onward, store
<1>3. Ascends
  BY DEF Ascends, Shown, store
<1> QED
  BY <1>1, <1>2, <1>3 DEF Moves

\* A commit that gives no UID: it files messages in folders that are set up,
\* and whoever leaves one loses its UID there.
LEMMA FileCommit ==
  ASSUME MailboxTypeOK, MailInv, UNCHANGED <<folder, next>>,
         NEW m \in [Email -> [in : SUBSET Box, uid : [Box -> Nat], del : BOOLEAN]], NEW N, Publish(m, N),
         made' \subseteq Email, IsFiniteSet(made'), \A e \in Email : m[e].in # {} => e \in made',
         \A e \in Email, b \in Box :
           /\ b \in m[e].in => folder[b] = "keyed"
           /\ m[e].uid[b] # 0 => b \in m[e].in /\ m[e].uid[b] = mail[e].uid[b]
  PROVE  Moves
<1>1. mail' = m /\ folder' = folder /\ next' = next
  BY DEF Publish
<1>2. top' = top
  <2>1. ASSUME NEW b \in Box PROVE Max({top[b]} \cup {Shown(m, e, b) : e \in Email}) = top[b]
    <3>1. top[b] \in Nat
      BY DEF MailboxTypeOK
    <3>2. ASSUME NEW e \in Email PROVE Shown(m, e, b) \in Nat /\ Shown(m, e, b) <= top[b]
      <4>1. m[e].uid[b] \in Nat /\ mail[e].uid[b] <= top[b]
        BY DEF MailInv
      <4>2. m[e].uid[b] = 0 \/ m[e].uid[b] = mail[e].uid[b]
        OBVIOUS
      <4> QED
        BY <3>1, <4>1, <4>2 DEF Shown
    <3> DEFINE S == {top[b]} \cup {Shown(m, e, b) : e \in Email}
    <3>3. S \subseteq Nat /\ top[b] \in S /\ \A y \in S : y <= top[b]
      BY <3>1, <3>2
    <3> HIDE DEF S
    <3>4. Max(S) = top[b]
      BY <3>3, MaxIs
    <3> QED
      BY <3>4 DEF S
  <2>2. top' = [b \in Box |-> top[b]]
    BY <2>1 DEF Publish
  <2> QED
    BY <2>2 DEF MailboxTypeOK
<1>3. StoreTypes'
  BY <1>1, <1>2 DEF StoreTypes, MailboxTypeOK
<1>4. MailInv'
  <2>1. \A e \in Email, b \in Box :
          /\ b \in m[e].in => folder[b] = "keyed"
          /\ m[e].uid[b] # 0 => b \in m[e].in
          /\ m[e].uid[b] <= top[b]
    <3>1. ASSUME NEW e \in Email, NEW b \in Box PROVE m[e].uid[b] <= top[b]
      <4>1. mail[e].uid[b] <= top[b] /\ top[b] \in Nat
        BY DEF MailInv, MailboxTypeOK
      <4> QED
        BY <4>1
    <3> QED
      BY <3>1
  <2>2. \A e, f \in Email, b \in Box : m[e].uid[b] = m[f].uid[b] /\ m[e].uid[b] # 0 => e = f
    BY DEF MailInv
  <2> QED
    BY <1>1, <1>2, <2>1, <2>2 DEF MailInv
<1>5. Onward
  BY <1>1 DEF Onward, MailboxTypeOK
<1>6. Ascends
  <2>1. ASSUME NEW e \in Email, NEW b \in Box PROVE Shown(m, e, b) \in {0, Shown(mail, e, b)}
    <3>1. Shown(mail, e, b) = mail[e].uid[b]
      BY ShownUid
    <3> QED
      BY <3>1 DEF Shown
  <2> QED
    BY <1>1, <2>1 DEF Ascends
<1> QED
  BY <1>3, <1>4, <1>5, <1>6 DEF Moves

\* An UID is the folder's next one.
LEMMA UidCommit ==
  ASSUME MailboxTypeOK, MailInv, NEW e \in Email, NEW b \in Box, NEW N, Assign(e, b, N),
         UNCHANGED <<folder, made>>
  PROVE  Moves /\ (UNCHANGED signals \/ Signal(N))
<1>1. CASE ~(b \in mail[e].in /\ mail[e].uid[b] = 0)
  BY <1>1, NoCommit DEF Assign, Quiet, store
<1>2. CASE b \in mail[e].in /\ mail[e].uid[b] = 0
  <2>1. folder[b] = "keyed" /\ next[b] > top[b] /\ next[b] \in Nat /\ top[b] \in Nat
    BY <1>2 DEF MailInv, MailboxTypeOK
  <2>2. Fresh(b) = next[b]
    <3>1. \A y \in {1, next[b]} : y <= next[b] /\ y \in Nat
      BY <2>1
    <3>2. next[b] \in {1, next[b]} /\ {1, next[b]} \subseteq Nat
      BY <3>1
    <3> QED
      BY <3>1, <3>2, MaxIs DEF Fresh
  <2> DEFINE m == [mail EXCEPT ![e].uid[b] = next[b]]
  <2>3. mail' = m /\ next' = [next EXCEPT ![b] = next[b] + 1] /\ Signal(N) /\ folder' = folder
        /\ made' = made
        /\ top' = [c \in Box |-> Max({top[c]} \cup {Shown(m, f, c) : f \in Email})]
    <3>1. Publish([mail EXCEPT ![e].uid[b] = Fresh(b)], N) /\ next' = [next EXCEPT ![b] = Fresh(b) + 1]
      BY <1>2 DEF Assign
    <3>2. Publish(m, N) /\ next' = [next EXCEPT ![b] = next[b] + 1]
      BY <2>2, <3>1
    <3> HIDE DEF m
    <3> QED
      BY <3>2 DEF Publish
  <2>4. /\ m \in [Email -> [in : SUBSET Box, uid : [Box -> Nat], del : BOOLEAN]]
        /\ \A f \in Email : m[f].in = mail[f].in
        /\ \A f \in Email, c \in Box :
             m[f].uid[c] = IF f = e /\ c = b THEN next[b] ELSE mail[f].uid[c]
    BY SMTT(30), <2>1 DEF MailboxTypeOK
  <2> HIDE DEF m
  <2>5. \A f \in Email, c \in Box : Shown(m, f, c) = m[f].uid[c]
    BY <1>2, <2>4, ShownUid DEF MailInv, Shown
  <2>6. \A c \in Box : top'[c] = IF c = b THEN next[b] ELSE top[c]
    <3>1. ASSUME NEW c \in Box
          PROVE  Max({top[c]} \cup {Shown(m, f, c) : f \in Email}) = IF c = b THEN next[b] ELSE top[c]
      <4> DEFINE S == {top[c]} \cup {Shown(m, f, c) : f \in Email}
                 x == IF c = b THEN next[b] ELSE top[c]
      <4>1. top[c] \in Nat /\ \A f \in Email : mail[f].uid[c] <= top[c] /\ mail[f].uid[c] \in Nat
        BY DEF MailInv, MailboxTypeOK
      <4>2. \A f \in Email : Shown(m, f, c) \in Nat /\ Shown(m, f, c) <= x
        BY <2>1, <2>4, <2>5, <4>1
      <4>3. x \in S
        <5>1. c = b => Shown(m, e, c) = next[b]
          BY <2>4, <2>5
        <5> QED
          BY <5>1
      <4>4. S \subseteq Nat /\ \A y \in S : y <= x
        BY <2>1, <4>1, <4>2
      <4> HIDE DEF S, x
      <4>5. Max(S) = x
        BY <4>3, <4>4, MaxIs
      <4> QED
        BY <4>5 DEF S, x
    <3> QED
      BY <2>3, <3>1
  <2>7. \A c \in Box : next'[c] = IF c = b THEN next[b] + 1 ELSE next[c]
    BY <2>3 DEF MailboxTypeOK
  <2>8. StoreTypes'
    <3>1. top' \in [Box -> Nat]
      <4>1. \A c \in Box : top'[c] \in Nat
        BY <2>1, <2>6 DEF MailboxTypeOK
      <4> QED
        BY <2>3, <4>1
    <3> QED
      <4>1. next[b] + 1 \in Nat /\ next \in [Box -> Nat]
        BY <2>1 DEF MailboxTypeOK
      <4>2. next' \in [Box -> Nat]
        BY <2>3, <4>1
      <4> QED
        BY <2>3, <2>4, <3>1, <4>2 DEF StoreTypes, MailboxTypeOK
  <2>9. MailInv'
    <3>1. \A f \in Email, c \in Box :
            /\ c \in m[f].in => folder[c] = "keyed"
            /\ m[f].uid[c] # 0 => c \in m[f].in
      BY <1>2, <2>4 DEF MailInv
    <3>2. ASSUME NEW f \in Email, NEW c \in Box PROVE m[f].uid[c] <= top'[c]
      <4>1. mail[f].uid[c] <= top[c] /\ mail[f].uid[c] \in Nat /\ top[c] \in Nat
        BY DEF MailInv, MailboxTypeOK
      <4> QED
        BY <2>1, <2>4, <2>6, <4>1
    <3>3. ASSUME NEW c \in Box
          PROVE  /\ folder[c] = "keyed" => next'[c] > top'[c]
                 /\ folder[c] \in {"absent", "bare"} => top'[c] = 0
      BY <2>1, <2>6, <2>7 DEF MailInv
    <3>4. ASSUME NEW f \in Email, NEW g \in Email, NEW c \in Box, m[f].uid[c] = m[g].uid[c],
                 m[f].uid[c] # 0
          PROVE  f = g
      <4>1. mail[f].uid[c] <= top[c] /\ mail[g].uid[c] <= top[c] /\ mail[f].uid[c] \in Nat
            /\ mail[g].uid[c] \in Nat /\ top[c] \in Nat
        BY DEF MailInv, MailboxTypeOK
      <4>2. mail[f].uid[c] = mail[g].uid[c] /\ mail[f].uid[c] # 0 => f = g
        BY DEF MailInv
      <4> QED
        BY <2>1, <2>4, <3>4, <4>1, <4>2
    <3>5. \A f \in Email : m[f].in # {} => f \in made
      BY <2>4 DEF MailInv
    <3>6. IsFiniteSet(made)
      BY DEF MailInv
    <3>7. mail' = m /\ folder' = folder /\ made' = made
      BY <2>3
    <3> QED
      BY SMTT(30), <3>1, <3>2, <3>3, <3>4, <3>5, <3>6, <3>7 DEF MailInv
  <2>10. Onward
    <3>1. \A f \in Email, c \in Box : mail'[f].uid[c] = mail[f].uid[c] \/ mail'[f].uid[c] >= next[c]
      BY <2>1, <2>3, <2>4
    <3>2. \A c \in Box : next'[c] >= next[c]
      BY <2>7 DEF MailboxTypeOK
    <3> QED
      BY <2>3, <3>1, <3>2 DEF Onward
  <2>11. Ascends
    BY <2>1, <2>3, <2>4, <2>5, ShownUid DEF Ascends
  <2> QED
    BY <2>3, <2>8, <2>9, <2>10, <2>11 DEF Moves
<1> QED
  BY <1>1, <1>2
LEMMA StoredMail ==
  ASSUME NEW x \in [in : SUBSET Box, uid : [Box -> Nat], del : BOOLEAN]
  PROVE  /\ Stored(x) \in [in : SUBSET Box, uid : [Box -> Nat], del : BOOLEAN]
         /\ Stored(x).in = x.in /\ Stored(x).del = x.del
         /\ \A b \in Box : Stored(x).uid[b] = IF b \in x.in THEN x.uid[b] ELSE 0
  BY DEF Stored

LEMMA NoMailType ==
  /\ NoMail \in [in : SUBSET Box, uid : [Box -> Nat], del : BOOLEAN]
  /\ NoMail.in = {} /\ \A b \in Box : NoMail.uid[b] = 0
  BY DEF NoMail

\* One message is filed elsewhere, or goes, or is new without a UID.
LEMMA OneFiled ==
  ASSUME MailboxTypeOK, MailInv, UNCHANGED <<folder, next>>, NEW e \in Email,
         NEW x \in [in : SUBSET Box, uid : [Box -> Nat], del : BOOLEAN],
         NEW N, Publish([mail EXCEPT ![e] = x], N),
         made' = made \cup {e} \/ (made' = made /\ e \in made),
         \A b \in Box : /\ b \in x.in => folder[b] = "keyed"
                        /\ x.uid[b] # 0 => b \in x.in /\ x.uid[b] = mail[e].uid[b]
  PROVE  Moves
<1> DEFINE m == [mail EXCEPT ![e] = x]
<1>1. m \in [Email -> [in : SUBSET Box, uid : [Box -> Nat], del : BOOLEAN]]
  BY DEF MailboxTypeOK
<1>2. \A f \in Email : m[f] = IF f = e THEN x ELSE mail[f]
  BY DEF MailboxTypeOK
<1>3. made' \subseteq Email /\ IsFiniteSet(made') /\ e \in made' /\ made \subseteq made'
  <2>1. made \subseteq Email /\ IsFiniteSet(made)
    BY DEF MailboxTypeOK, MailInv
  <2>2. IsFiniteSet(made \cup {e})
    BY <2>1, FS_AddElement
  <2> QED
    BY <2>1, <2>2
<1>4. Publish(m, N)
  OBVIOUS
<1> HIDE DEF m
<1>5. \A f \in Email : m[f].in # {} => f \in made'
  BY <1>2, <1>3 DEF MailInv
<1>6. \A f \in Email, b \in Box :
        /\ b \in m[f].in => folder[b] = "keyed"
        /\ m[f].uid[b] # 0 => b \in m[f].in /\ m[f].uid[b] = mail[f].uid[b]
  BY <1>2 DEF MailInv
<1> QED
  BY <1>1, <1>3, <1>4, <1>5, <1>6, FileCommit

\* The steps of clients and deliveries, and of the creation of a folder.
StoreStep ==
    \/ \E b \in Box : Import(b) \/ Create(b) \/ CreateMetadata(b) \/ DeleteMailbox(b)
    \/ \E e \in Email, b \in Box : UidCall(e, b)
    \/ \E e \in Email : \E boxes \in SUBSET Box : JmapSet(e, boxes)
    \/ \E n \in Node : Tick(n)

LEMMA ImportMoves ==
  ASSUME MailboxTypeOK, MailInv, ~EarlyUse, NEW b \in Box, Import(b)
  PROVE  Moves
<1> DEFINE e == CHOOSE x \in Email \ made : TRUE
           x == [NoMail EXCEPT !.in = {b}]
<1>1. e \in Email
  BY DEF Import, MailboxTypeOK
<1>2. folder[b] = "keyed"
  BY DEF Import, Usable
<1>3. /\ x \in [in : SUBSET Box, uid : [Box -> Nat], del : BOOLEAN]
      /\ x.in = {b} /\ \A c \in Box : x.uid[c] = 0
  BY DEF NoMail
<1>4. PICK N \in Heard : Publish([mail EXCEPT ![e] = x], N)
  BY DEF Import
<1>5. made' = made \cup {e} /\ UNCHANGED <<folder, next>>
  BY DEF Import
<1> HIDE DEF e, x
<1> QED
  BY <1>1, <1>2, <1>3, <1>4, <1>5, OneFiled

LEMMA JmapSetMoves ==
  ASSUME MailboxTypeOK, MailInv, ~EarlyUse, NEW e \in Email, NEW boxes \in SUBSET Box, JmapSet(e, boxes)
  PROVE  Moves
<1> DEFINE y == [mail[e] EXCEPT !.in = boxes]
           x == IF boxes = {} THEN NoMail ELSE Stored(y)
<1>1. y \in [in : SUBSET Box, uid : [Box -> Nat], del : BOOLEAN] /\ y.in = boxes
      /\ y.uid = mail[e].uid
  BY DEF MailboxTypeOK
<1>2. \A b \in boxes : folder[b] = "keyed"
  BY DEF JmapSet, Usable
<1>3. PICK N \in Heard : Publish([mail EXCEPT ![e] = x], N)
  BY DEF JmapSet
<1>6. UNCHANGED <<folder, next, made>> /\ e \in made
  BY DEF JmapSet, MailInv
<1> HIDE DEF y
<1>4. x \in [in : SUBSET Box, uid : [Box -> Nat], del : BOOLEAN]
  BY <1>1, StoredMail, NoMailType
<1>5. \A b \in Box : /\ b \in x.in => folder[b] = "keyed"
                     /\ x.uid[b] # 0 => b \in x.in /\ x.uid[b] = mail[e].uid[b]
  <2>1. CASE boxes = {}
    BY <2>1, NoMailType
  <2>2. CASE boxes # {}
    BY <1>1, <1>2, <2>2, StoredMail
  <2> QED
    BY <2>1, <2>2
<1> HIDE DEF x
<1> QED
  BY <1>3, <1>4, <1>5, <1>6, OneFiled

LEMMA FolderMoves ==
  ASSUME MailboxTypeOK, MailInv, ~EarlyUse, NEW b \in Box,
         Create(b) \/ CreateMetadata(b) \/ DeleteMailbox(b)
  PROVE  Moves
<1>1. CASE Create(b)
  <2>1. /\ folder[b] = "absent" /\ folder' = [folder EXCEPT ![b] = "bare"]
        /\ UNCHANGED <<mail, made, next, top>>
    BY <1>1 DEF Create
  <2>2. \A c \in Box : folder'[c] = IF c = b THEN "bare" ELSE folder[c]
    BY <2>1 DEF MailboxTypeOK
  <2>3. StoreTypes'
    BY <2>1 DEF StoreTypes, MailboxTypeOK, States
  <2>4. MailInv'
    BY <2>1, <2>2 DEF MailInv
  <2>5. Onward
    BY <2>1, <2>2 DEF Onward, MailboxTypeOK
  <2>6. Ascends
    BY <2>1 DEF Ascends, Shown
  <2> QED
    BY <2>3, <2>4, <2>5, <2>6 DEF Moves
<1>2. CASE CreateMetadata(b)
  <2>1. /\ folder[b] = "bare" /\ folder' = [folder EXCEPT ![b] = "keyed"]
        /\ next' = [next EXCEPT ![b] = 1] /\ UNCHANGED <<mail, made, top>>
    BY <1>2 DEF CreateMetadata
  <2>2. \A c \in Box : /\ folder'[c] = IF c = b THEN "keyed" ELSE folder[c]
                       /\ next'[c] = IF c = b THEN 1 ELSE next[c]
    BY <2>1 DEF MailboxTypeOK
  <2>3. StoreTypes'
    BY <2>1 DEF StoreTypes, MailboxTypeOK, States
  <2>4. MailInv'
    BY <2>1, <2>2 DEF MailInv
  <2>5. Onward
    BY <2>1, <2>2 DEF Onward, MailboxTypeOK
  <2>6. Ascends
    BY <2>1 DEF Ascends, Shown
  <2> QED
    BY <2>3, <2>4, <2>5, <2>6 DEF Moves
<1>3. CASE DeleteMailbox(b)
  <2> DEFINE M(e) == IF mail[e].in = {b} THEN NoMail ELSE Stored([mail[e] EXCEPT !.in = @ \ {b}])
  <2>1. /\ folder[b] = "keyed" /\ folder' = [folder EXCEPT ![b] = "gone"]
        /\ mail' = [e \in Email |-> M(e)]
        /\ next' = [next EXCEPT ![b] = 0] /\ top' = [top EXCEPT ![b] = 0] /\ made' = made
    BY <1>3 DEF DeleteMailbox, Usable
  <2>2. \A c \in Box : /\ folder'[c] = IF c = b THEN "gone" ELSE folder[c]
                       /\ next'[c] = IF c = b THEN 0 ELSE next[c]
                       /\ top'[c] = IF c = b THEN 0 ELSE top[c]
    BY <2>1 DEF MailboxTypeOK
  <2>3. ASSUME NEW e \in Email
        PROVE  /\ M(e) \in [in : SUBSET Box, uid : [Box -> Nat], del : BOOLEAN]
               /\ M(e).in = mail[e].in \ {b}
               /\ \A c \in Box : M(e).uid[c] = IF c = b THEN 0 ELSE mail[e].uid[c]
    <3> DEFINE y == [mail[e] EXCEPT !.in = @ \ {b}]
    <3>1. y \in [in : SUBSET Box, uid : [Box -> Nat], del : BOOLEAN]
          /\ y.in = mail[e].in \ {b} /\ y.uid = mail[e].uid
      BY DEF MailboxTypeOK
    <3>2. M(e) = IF mail[e].in = {b} THEN NoMail ELSE Stored(y)
      OBVIOUS
    <3>3. \A c \in Box : mail[e].uid[c] # 0 => c \in mail[e].in
      BY DEF MailInv
    <3> HIDE DEF y, M
    <3>4. CASE mail[e].in = {b}
      BY <3>2, <3>3, <3>4, NoMailType
    <3>5. CASE mail[e].in # {b}
      BY <3>1, <3>2, <3>3, <3>5, StoredMail
    <3> QED
      BY <3>4, <3>5
  <2>4. /\ mail' \in [Email -> [in : SUBSET Box, uid : [Box -> Nat], del : BOOLEAN]]
        /\ \A e \in Email : mail'[e].in = mail[e].in \ {b}
        /\ \A e \in Email, c \in Box : mail'[e].uid[c] = IF c = b THEN 0 ELSE mail[e].uid[c]
    <3> HIDE DEF M
    <3> QED
      BY <2>1, <2>3
  <2> HIDE DEF M
  <2>5. StoreTypes'
    BY <2>1, <2>4 DEF StoreTypes, MailboxTypeOK, States
  <2>6. MailInv'
    BY <2>1, <2>2, <2>4 DEF MailInv, MailboxTypeOK
  <2>7. Onward
    BY <2>1, <2>2, <2>4 DEF Onward, MailboxTypeOK
  <2>8. Ascends
    <3>1. ASSUME NEW e \in Email, NEW c \in Box
          PROVE  Shown(mail', e, c) \in {0, Shown(mail, e, c)}
      BY <2>4 DEF Shown
    <3> QED
      BY <3>1 DEF Ascends
  <2> QED
    BY <2>5, <2>6, <2>7, <2>8 DEF Moves
<1> QED
  BY <1>1, <1>2, <1>3

LEMMA StoreStepMoves ==
  ASSUME MailboxTypeOK, MailInv, ~EarlyUse, StoreStep
  PROVE  Moves /\ sess' = sess /\ SignalTypes'
<1>1. sess' = sess /\ SignalTypes'
  BY DEF StoreStep, Import, UidCall, JmapSet, Create, CreateMetadata, DeleteMailbox, Tick, Publish,
         Signal, Listening, Assign, Quiet, signals, MailboxTypeOK, SignalTypes
<1>2. ASSUME NEW e \in Email, NEW b \in Box, UidCall(e, b) PROVE Moves
  BY <1>2, UidCommit DEF UidCall
<1>3. ASSUME NEW n \in Node, Tick(n) PROVE Moves
  <2>1. UNCHANGED <<mail, made, folder, next, top>>
    BY <1>3 DEF Tick, store
  <2> QED
    BY <1>1, <2>1, NoCommit
<1> QED
  BY <1>1, <1>2, <1>3, ImportMoves, JmapSetMoves, FolderMoves DEF StoreStep
-----------------------------------------------------------------------------
(***************************************************************************)
(* Steps of a session.                                                     *)
(***************************************************************************)

\* The invariant is kept, and UIDs ascend.
StepOK == MailboxInv' /\ Ascends

LEMMA OneSession ==
  ASSUME MailboxInv, NEW s \in Session, NEW y, Step(s, y), Moves, SignalTypes',
         SessionTypes(y), Shape(y), SoundAfter(Seen(y), y.box)
  PROVE  StepOK
<1>1. /\ sess \in [Session -> SessionState] /\ y \in SessionState
      /\ sess' = [sess EXCEPT ![s] = y]
  BY DEF MailboxInv, MailboxTypeOK, SessionTypes, Step
<1>2. sess' \in [Session -> SessionState] /\ sess'[s] = y
      /\ \A t \in Session \ {s} : sess'[t] = sess[t]
  BY <1>1
<1>3. \A t \in Session : SessionTypes(sess'[t])
  <2>1. \A t \in Session : SessionTypes(sess[t])
    BY <1>1 DEF MailboxInv, MailboxTypeOK, SessionTypes
  <2> QED
    BY <1>2, <2>1
<1>4. MailboxTypeOK'
  BY <1>2, <1>3 DEF MailboxTypeOK, StoreTypes, SignalTypes, Moves, SessionTypes
<1>5. ASSUME NEW t \in Session PROVE SessionInv(sess[t])'
  <2>1. CASE t = s
    BY <1>2, <2>1 DEF SessionInv, Sound, SoundAfter, Seen
  <2>2. CASE t # s
    BY <1>2, <2>2, SessionWaits DEF MailboxInv, Moves
  <2> QED
    BY <2>1, <2>2
<1> QED
  BY <1>4, <1>5 DEF StepOK, MailboxInv, Moves

LEMMA SessionOK ==
  ASSUME MailboxInv, NEW s \in Session
  PROVE  sess[s] \in SessionState /\ SessionTypes(sess[s]) /\ Shape(sess[s])
         /\ Sound(Seen(sess[s]), sess[s].box)
  BY DEF MailboxInv, MailboxTypeOK, SessionTypes, SessionInv

\* The signals of the processes, and whoever hears them.
LEMMA Signalled ==
  ASSUME MailboxInv, NEW s \in Session,
         UNCHANGED signals \/ Deafen(s) \/ (\E N : Signal(N))
           \/ (woken' = AfterPoll(s) /\ UNCHANGED owed)
  PROVE  SignalTypes'
  BY DEF signals, Deafen, Signal, Listening, AfterPoll, SignalTypes, MailboxInv, MailboxTypeOK

\* A session goes on with what it had read, or less.
LEMMA Continues ==
  ASSUME MailboxInv, NEW s \in Session, NEW y, Step(s, y), Moves, SignalTypes',
         SessionTypes(y), Shape(y), y.box = sess[s].box,
         \A p \in Seen(y) : \E q \in Seen(sess[s]) : p.id = q.id /\ p.uid = q.uid
  PROVE  StepOK
<1>1. sess[s] \in SessionState /\ Sound(Seen(sess[s]), sess[s].box) /\ sess[s].box \in Box
  BY SessionOK, Fields
<1>2. Seen(sess[s]) \subseteq Entry
  BY <1>1, SeenTypes
<1>3. SoundAfter(Seen(sess[s]), sess[s].box)
  BY <1>1, <1>2, StillSound DEF MailboxInv, Moves
<1>4. SoundAfter(Seen(y), y.box)
  <2> DEFINE read == Seen(sess[s])
             b    == sess[s].box
             part == Seen(y)
  <2>1. SoundAfter(read, b) /\ b \in Box /\ \A p \in part : \E q \in read : p.id = q.id /\ p.uid = q.uid
    BY <1>1, <1>3
  <2> HIDE DEF read, b, part
  <2>2. SoundAfter(part, b)
    BY <2>1, SoundPart
  <2> QED
    BY <2>2 DEF b, part
<1> QED
  BY <1>4, OneSession

\* A session begins, or ends.
LEMMA Restarts ==
  ASSUME MailboxInv, NEW s \in Session, NEW y, Step(s, y), Moves, SignalTypes',
         SessionTypes(y), Shape(y), y.view = <<>>, y.buf = Nothing
  PROVE  StepOK
<1>1. Seen(y) = {}
  BY DEF Seen, ToSet
<1> QED
  BY <1>1, OneSession DEF SoundAfter

LEMMA OffOK == SessionTypes(Off) /\ Shape(Off) /\ Off.view = <<>> /\ Off.buf = Nothing
  BY DEF SessionTypes, Shape, Off, SessionState, Entry, Box, States

\* A session waits for the next command.
LEMMA ReadyOK ==
  ASSUME NEW x \in SessionState, SessionTypes(x), x.key = "keyed", x.kind = "imap" => x.marks = {}
  PROVE  /\ SessionTypes(Ready(x)) /\ Shape(Ready(x)) /\ Ready(x).box = x.box
         /\ Seen(Ready(x)) = ToSet(x.view)
  BY DEF SessionTypes, Shape, Ready, SessionState, Seen

LEMMA NothingCommitted ==
  ASSUME MailboxInv, UNCHANGED store
  PROVE  Moves
  BY NoCommit DEF MailboxInv, store

\* To work on a message, or on the next one.
LEMMA WorkOK ==
  ASSUME MailboxInv, NEW s \in Session, NEW label \in {"flag", "remove"},
         sess[s].pc \in {"ready", "quit"}, label = "flag" => sess[s].kind = "imap",
         NEW i \in DOMAIN sess[s].view, Work1(s, label, i)
  PROVE  StepOK
<1> DEFINE x == sess[s]
           y == [x EXCEPT !.pc = label, !.at = i]
<1>1. x \in SessionState /\ SessionTypes(x) /\ Shape(x)
  BY SessionOK
<1>2. i \in Nat \ {0}
  BY <1>1, Fields
<1>3. Step(s, y) /\ UNCHANGED signals /\ Moves
  BY NothingCommitted DEF Work1
<1>4. i \in DOMAIN x.view /\ x.pc \in {"ready", "quit"} /\ (label = "flag" => x.kind = "imap")
  OBVIOUS
<1> HIDE DEF x
<1>5. SessionTypes(y)
  BY <1>1, <1>2, <1>4 DEF SessionTypes, SessionState
<1>6. Shape(y)
  BY <1>1, <1>2, <1>4 DEF Shape, SessionState
<1>7. Seen(y) = Seen(x) /\ y.box = x.box
  BY <1>1 DEF Seen, SessionState
<1> HIDE DEF y
<1>8. SignalTypes'
  BY <1>3, Signalled
<1> QED
  BY <1>3, <1>5, <1>6, <1>7, <1>8, Continues DEF x

LEMMA WorkStep ==
  ASSUME MailboxInv, NEW s \in Session,
         \/ Expunge(s)
         \/ \E i \in DOMAIN sess[s].view : Flag(s, i) \/ Quit(s, i)
  PROVE  StepOK
<1>1. sess[s] \in SessionState /\ sess[s].view \in Seq(Entry)
  BY SessionOK, Fields
<1>2. CASE Expunge(s)
  <2>1. Deleted(s) # {} /\ Deleted(s) \subseteq DOMAIN sess[s].view
    BY <1>2 DEF Expunge, Deleted
  <2>2. Len(sess[s].view) \in Nat /\ DOMAIN sess[s].view = 1..Len(sess[s].view)
    BY <1>1
  <2>3. Max(Deleted(s)) \in DOMAIN sess[s].view
    BY <2>1, <2>2, Greatest
  <2> QED
    BY <1>2, <2>3, WorkOK DEF Expunge
<1>3. ASSUME NEW i \in DOMAIN sess[s].view, Flag(s, i) PROVE StepOK
  BY <1>3, WorkOK DEF Flag
<1>4. ASSUME NEW i \in DOMAIN sess[s].view, Quit(s, i) PROVE StepOK
  BY <1>4, WorkOK DEF Quit
<1> QED
  BY <1>2, <1>3, <1>4

LEMMA SelectStep ==
  ASSUME MailboxInv, ~EarlyUse, NEW s \in Session, NEW b \in Box, Select(s, b)
  PROVE  StepOK
<1>1. PICK k \in {"imap", "pop"} :
         Step(s, [Off EXCEPT !.pc = "select", !.kind = k, !.box = b, !.key = folder[b]])
  BY DEF Select
<1>2. folder[b] = "keyed" /\ UNCHANGED signals /\ Moves
  BY NothingCommitted DEF Select, Usable
<1> DEFINE y == [Off EXCEPT !.pc = "select", !.kind = k, !.box = b, !.key = "keyed"]
<1>3. SessionTypes(y) /\ Shape(y) /\ y.view = <<>> /\ y.buf = Nothing
  <2>1. Off \in SessionState /\ Off.view = <<>> /\ Off.buf = Nothing /\ Off.at = 0 /\ Off.marks = {}
        /\ Off.target = Nothing /\ "keyed" \in States
    BY OffOK DEF SessionTypes, Off, States
  <2> DEFINE x == Off
  <2>2. x \in SessionState /\ x.view = <<>> /\ x.buf = Nothing /\ x.at = 0 /\ x.marks = {}
        /\ x.target = Nothing /\ y = [x EXCEPT !.pc = "select", !.kind = k, !.box = b, !.key = "keyed"]
    BY <2>1
  <2> HIDE DEF x, y
  <2>3. y \in SessionState /\ y.view = <<>> /\ y.buf = Nothing /\ y.at = 0 /\ y.marks = {}
        /\ y.target = Nothing /\ y.key = "keyed" /\ y.pc = "select"
    BY <2>1, <2>2 DEF SessionState
  <2> QED
    BY <2>3 DEF SessionTypes, Shape
<1>4. Step(s, y) /\ SignalTypes'
  BY <1>1, <1>2, Signalled
<1> HIDE DEF y
<1> QED
  BY <1>2, <1>3, <1>4, Restarts

LEMMA LeaveStep ==
  ASSUME MailboxInv, NEW s \in Session, Leave(s)
  PROVE  StepOK
<1>1. Step(s, Off) /\ SignalTypes' /\ Moves
  BY NothingCommitted, Signalled DEF Leave
<1> QED
  BY <1>1, OffOK, Restarts

\* Poll, IDLE and its end, and DELE and RSET.
LEMMA PlainStep ==
  ASSUME MailboxInv, NEW s \in Session,
         \/ Poll(s) \/ Idle(s) \/ IdleStop(s)
         \/ \E i \in DOMAIN sess[s].view : Mark(s, i)
  PROVE  StepOK
<1> SUFFICES ASSUME NEW x, x = sess[s] PROVE StepOK
  OBVIOUS
<1>1. x \in SessionState /\ SessionTypes(x) /\ Shape(x)
  BY SessionOK
<1>2. UNCHANGED store /\ SignalTypes'
  BY Signalled DEF Poll, Idle, IdleStop, Mark
<1>3. Moves
  BY <1>2, NothingCommitted
<1>4. ASSUME NEW y, Step(s, y), SessionTypes(y), Shape(y), y.view = x.view, y.buf = x.buf,
             y.box = x.box
      PROVE  StepOK
  <2>1. Seen(y) = Seen(x)
    BY <1>4 DEF Seen
  <2> QED
    BY <1>2, <1>3, <1>4, <2>1, Continues
<1>5. CASE Poll(s)
  <2>1. Step(s, [x EXCEPT !.pc = "poll"]) /\ x.pc = "ready" /\ x.kind = "imap"
    BY <1>5 DEF Poll
  <2>2. SessionTypes([x EXCEPT !.pc = "poll"]) /\ Shape([x EXCEPT !.pc = "poll"])
        /\ [x EXCEPT !.pc = "poll"].view = x.view /\ [x EXCEPT !.pc = "poll"].buf = x.buf
        /\ [x EXCEPT !.pc = "poll"].box = x.box
    BY <1>1, <2>1 DEF SessionTypes, Shape, SessionState
  <2> QED
    BY <1>4, <2>1, <2>2
<1>6. CASE Idle(s)
  <2> DEFINE y == [x EXCEPT !.pc = "poll", !.idling = TRUE]
  <2>1. Step(s, y) /\ x.pc \in {"ready", "idle"} /\ x.kind = "imap"
    BY <1>6 DEF Idle
  <2>2. SessionTypes(y) /\ Shape(y) /\ y.view = x.view /\ y.buf = x.buf /\ y.box = x.box
    BY <1>1, <2>1 DEF SessionTypes, Shape, SessionState
  <2> HIDE DEF y
  <2> QED
    BY <1>4, <2>1, <2>2
<1>7. CASE IdleStop(s)
  <2> DEFINE y == [x EXCEPT !.pc = "ready", !.idling = FALSE]
  <2>1. Step(s, y) /\ x.pc = "idle"
    BY <1>7 DEF IdleStop
  <2>2. SessionTypes(y) /\ Shape(y) /\ y.view = x.view /\ y.buf = x.buf /\ y.box = x.box
    BY <1>1, <2>1 DEF SessionTypes, Shape, SessionState
  <2> HIDE DEF y
  <2> QED
    BY <1>4, <2>1, <2>2
<1>8. ASSUME NEW i \in DOMAIN x.view, Mark(s, i) PROVE StepOK
  <2>1. PICK marks \in {x.marks \cup {i}, {}} : Step(s, [x EXCEPT !.marks = marks])
    BY <1>8 DEF Mark
  <2> DEFINE y == [x EXCEPT !.marks = marks]
  <2>2. x.kind = "pop" /\ x.pc = "ready" /\ i \in Nat /\ marks \subseteq DOMAIN x.view
        /\ marks \subseteq Nat
    BY <1>1, <1>8, Fields DEF Mark, SessionTypes
  <2>3. SessionTypes(y) /\ Shape(y) /\ y.view = x.view /\ y.buf = x.buf /\ y.box = x.box
    BY <1>1, <2>2 DEF SessionTypes, Shape, SessionState
  <2> HIDE DEF y
  <2> QED
    BY <1>4, <2>1, <2>3 DEF y
<1> QED
  BY <1>5, <1>6, <1>7, <1>8

\* The listing: all messages of the folder are read.
LEMMA ReadStep ==
  ASSUME MailboxInv, NEW s \in Session, ListRead(s)
  PROVE  StepOK
<1> SUFFICES ASSUME NEW x, x = sess[s] PROVE StepOK
  OBVIOUS
<1> DEFINE b   == x.box
           got == {[id |-> e, uid |-> mail[e].uid[b], del |-> mail[e].del] : e \in In(b)}
           y   == [x EXCEPT !.buf = got]
<1>1. x \in SessionState /\ SessionTypes(x) /\ Shape(x) /\ Sound(Seen(x), b) /\ b \in Box
      /\ Seen(x) \subseteq Entry
  BY SessionOK, Fields, SeenTypes
<1>2. UNCHANGED store /\ Moves /\ SignalTypes'
  BY NothingCommitted, Signalled DEF ListRead
<1>3. CASE ~Exists(s)
  <2>1. Step(s, Off)
    BY <1>3 DEF ListRead
  <2> QED
    BY <1>2, <2>1, OffOK, Restarts
<1>4. CASE Exists(s)
  <2>1. Step(s, y) /\ x.pc \in {"select", "poll", "remove", "flag"} /\ x.buf = Nothing
    BY <1>4 DEF ListRead
  <2>2. folder[b] = "keyed"
    BY <1>1, <1>4 DEF Exists, Shape
  <2>3. /\ got \subseteq Entry /\ \A r \in got : r.uid = mail[r.id].uid[b] /\ r.id \in made
        /\ \A r, q \in got : r.id = q.id => r = q
    BY <1>1 DEF In, Entry, MailboxInv, MailboxTypeOK, MailInv
  <2> HIDE DEF got
  <2>4. IsFiniteSet(got)
    <3> DEFINE f == [r \in got |-> r.id]
    <3>1. f \in Injection(got, made)
      BY <2>3 DEF Injection, IsInjective
    <3>2. IsFiniteSet(made)
      BY DEF MailboxInv, MailInv
    <3> QED
      BY <3>1, <3>2, FS_Injection
  <2>5. SessionTypes(y)
    BY <1>1, <2>3 DEF SessionTypes, SessionState
  <2>6. Shape(y)
    BY <1>1, <2>1, <2>3, <2>4 DEF Shape, SessionState
  <2>7. y.box = b /\ Seen(y) \subseteq Seen(x) \cup got
    <3>1. y.view = x.view /\ y.box = b /\ y.buf = got
      BY <1>1 DEF SessionState
    <3>2. Seen(y) \subseteq ToSet(x.view) \cup got
      BY <3>1 DEF Seen
    <3>3. ToSet(x.view) \subseteq Seen(x)
      BY DEF Seen
    <3> QED
      BY <3>1, <3>2, <3>3
  <2>8. SoundAfter(Seen(x), b)
    BY <1>1, <1>2, StillSound DEF MailboxInv, Moves
  <2>9. SoundAfter(Seen(x) \cup got, b)
    <3>1. mail' = mail /\ folder' = folder
      BY <1>2 DEF store
    <3>2. folder'[b] = "keyed" /\ \A r \in got : r.uid = mail'[r.id].uid[b]
      BY <2>2, <2>3, <3>1
    <3> DEFINE read == Seen(x)
    <3> HIDE DEF read
    <3>3. SoundAfter(read, b)
      BY <2>8 DEF read
    <3> HIDE DEF b
    <3>4. SoundAfter(read \cup got, b)
      BY <1>1, <1>2, <2>3, <3>2, <3>3, SoundMore DEF Moves
    <3> QED
      BY <3>4 DEF read
  <2> HIDE DEF y
  <2>10. SoundAfter(Seen(y), y.box)
    <3> DEFINE part == Seen(y)
               read == Seen(x) \cup got
    <3>1. part \subseteq read /\ SoundAfter(read, b) /\ b \in Box /\ y.box = b
      BY <1>1, <2>7, <2>9
    <3> HIDE DEF part, read, b
    <3>2. SoundAfter(part, b)
      BY <3>1, SoundPart
    <3> QED
      BY <3>1, <3>2 DEF part
  <2> QED
    BY <1>2, <2>1, <2>5, <2>6, <2>10, OneSession
<1> QED
  BY <1>3, <1>4

\* And a UID is given to one that has none.
LEMMA AssignStep ==
  ASSUME MailboxInv, NEW s \in Session, ListAssign(s)
  PROVE  StepOK
<1> SUFFICES ASSUME NEW x, x = sess[s] PROVE StepOK
  OBVIOUS
<1> DEFINE b == x.box
<1>1. x \in SessionState /\ SessionTypes(x) /\ Shape(x) /\ Sound(Seen(x), b) /\ b \in Box
      /\ Seen(x) \subseteq Entry
  BY SessionOK, Fields, SeenTypes
<1>2. x.buf # Nothing /\ x.buf \subseteq Entry /\ x.buf \subseteq Seen(x)
  BY <1>1, Fields DEF ListAssign, Seen
<1>3. PICK r \in x.buf : /\ r.uid = 0 /\ \E N \in Own(s) : Assign(r.id, b, N)
                         /\ Step(s, [x EXCEPT !.buf = (@ \ {r}) \cup
                              {q \in {[r EXCEPT !.uid = mail'[r.id].uid[b]]} : b \in mail[r.id].in}])
  BY DEF ListAssign
<1>4. r \in Entry /\ r.id \in Email /\ UNCHANGED <<folder, made>>
  BY <1>2, <1>3 DEF Entry, ListAssign
<1>5. Moves /\ SignalTypes'
  <2>1. PICK N \in Own(s) : Assign(r.id, b, N)
    BY <1>3
  <2>2. Moves /\ (UNCHANGED signals \/ Signal(N))
    BY <1>1, <1>4, <2>1, UidCommit DEF MailboxInv
  <2> QED
    BY <2>2, Signalled
<1> SUFFICES ASSUME NEW n, n = [r EXCEPT !.uid = mail'[r.id].uid[b]] PROVE StepOK
  OBVIOUS
<1>6. n \in Entry /\ n.id = r.id /\ n.uid = mail'[n.id].uid[b]
  BY <1>1, <1>4, <1>5 DEF Moves, StoreTypes, Entry
<1> DEFINE more == {q \in {n} : b \in mail[r.id].in}
           got  == (x.buf \ {r}) \cup more
           y    == [x EXCEPT !.buf = got]
<1>7. Step(s, y) /\ y.buf = got /\ y.view = x.view /\ y.box = b
  BY <1>1, <1>3 DEF SessionState
<1>8. more \subseteq {n} /\ more \subseteq Entry
  BY <1>6
<1>9. got \subseteq Entry /\ IsFiniteSet(got) /\ \A p, q \in got : p.id = q.id => p = q
  <2>1. IsFiniteSet(x.buf) /\ \A p, q \in x.buf : p.id = q.id => p = q
    BY <1>1, <1>2 DEF Shape
  <2>2. \A p, q \in got : p.id = q.id => p = q
    <3>1. \A p \in x.buf \ {r} : p.id # n.id
      BY <1>3, <1>6, <2>1
    <3> HIDE DEF more
    <3> QED
      BY <1>8, <2>1, <3>1
  <2>3. IsFiniteSet(got)
    <3>1. got \subseteq x.buf \cup {n}
      BY <1>8
    <3>2. IsFiniteSet(x.buf \cup {n})
      BY <2>1, FS_AddElement
    <3> QED
      BY <3>1, <3>2, FS_Subset
  <2> QED
    BY <1>2, <1>8, <2>2, <2>3
<1>10. SoundAfter(Seen(x), b)
  BY <1>1, <1>5, StillSound DEF MailboxInv, Moves
<1>11. SoundAfter(Seen(x) \cup more, b)
  <2> DEFINE read == Seen(x)
  <2>1. more = {} \/ (more = {n} /\ b \in mail[r.id].in)
    OBVIOUS
  <2> HIDE DEF read, more
  <2>2. CASE more = {}
    BY <1>10, <2>2 DEF read
  <2>3. CASE more = {n} /\ b \in mail[r.id].in
    <3>1. folder'[b] = "keyed" /\ \A p \in more : p.uid = mail'[p.id].uid[b]
      BY <1>1, <1>4, <1>6, <2>3 DEF MailboxInv, MailInv
    <3>2. SoundAfter(read, b) /\ b \in Box
      BY <1>1, <1>10 DEF read
    <3> HIDE DEF b
    <3>3. SoundAfter(read \cup more, b)
      BY <1>5, <1>8, <3>1, <3>2, SoundMore DEF Moves
    <3> QED
      BY <3>3 DEF read
  <2> QED
    BY <2>1, <2>2, <2>3
<1> HIDE DEF more
<1>12. SoundAfter(Seen(y), y.box)
  <2>1. Seen(y) \subseteq Seen(x) \cup more
    <3> HIDE DEF y
    <3>1. Seen(y) \subseteq ToSet(x.view) \cup got
      BY <1>7 DEF Seen
    <3>2. ToSet(x.view) \subseteq Seen(x)
      BY DEF Seen
    <3> QED
      BY <1>2, <3>1, <3>2
  <2> DEFINE part == Seen(y)
             read == Seen(x) \cup more
  <2>2. part \subseteq read /\ SoundAfter(read, b) /\ b \in Box /\ y.box = b
    BY <1>1, <1>7, <1>11, <2>1
  <2> HIDE DEF part, read, b, y
  <2>3. SoundAfter(part, b)
    BY <2>2, SoundPart
  <2> QED
    BY <2>2, <2>3 DEF part
<1> HIDE DEF got
<1>13. SessionTypes(y)
  BY <1>1, <1>9 DEF SessionTypes, SessionState
<1>14. Shape(y)
  BY <1>1, <1>9 DEF Shape, SessionState
<1> HIDE DEF y
<1> QED
  BY <1>5, <1>7, <1>12, <1>13, <1>14, OneSession

\* A complete listing becomes the snapshot.
LEMMA ListedOK ==
  ASSUME MailboxInv, NEW s \in Session, Listed(s)
  PROVE  /\ sess[s].buf \subseteq Entry /\ sess[s].buf \subseteq Seen(sess[s])
         /\ \A r \in sess[s].buf : r.uid # 0
         /\ Listing(s) \in Seq(Entry)
         /\ \A i \in DOMAIN Listing(s) : Listing(s)[i] \in sess[s].buf
<1>1. sess[s] \in SessionState /\ Shape(sess[s]) /\ Sound(Seen(sess[s]), sess[s].box)
  BY SessionOK
<1>2. /\ sess[s].buf # Nothing /\ sess[s].buf \subseteq Entry /\ sess[s].buf \subseteq Seen(sess[s])
      /\ \A r \in sess[s].buf : r.uid # 0
  BY <1>1, Fields DEF Listed, Seen
<1>3. /\ IsFiniteSet(sess[s].buf)
      /\ \A r, t \in sess[s].buf : r.uid = t.uid => r = t
  <2>1. ASSUME NEW r \in sess[s].buf, NEW t \in sess[s].buf, r.uid = t.uid PROVE r = t
    <3>1. r.id = t.id
      BY <1>1, <1>2, <2>1 DEF Sound
    <3> QED
      BY <1>1, <1>2, <3>1 DEF Shape
  <2> QED
    BY <1>1, <1>2, <2>1 DEF Shape
<1> QED
  BY <1>2, <1>3, ListingShows

LEMMA SnapshotStep ==
  ASSUME MailboxInv, NEW s \in Session, SelectDone(s) \/ PollDone(s)
  PROVE  StepOK
<1> SUFFICES ASSUME NEW x, x = sess[s], NEW v, v = Listing(s) PROVE StepOK
  OBVIOUS
<1>1. x \in SessionState /\ SessionTypes(x) /\ Shape(x)
  BY SessionOK
<1>2. Listed(s)
  BY DEF SelectDone, PollDone
<1>3. /\ v \in Seq(Entry) /\ x.buf \subseteq Seen(x)
      /\ \A i \in DOMAIN v : v[i] \in Seen(x) /\ v[i].uid # 0
  BY <1>2, ListedOK
<1>4. UNCHANGED store /\ SignalTypes'
  BY Signalled DEF SelectDone, PollDone
<1>5. Moves
  BY <1>4, NothingCommitted
<1>6. CASE SelectDone(s)
  <2> DEFINE z == [x EXCEPT !.view = v]
             y == Ready(z)
  <2>1. Step(s, y) /\ x.pc = "select"
    BY <1>6 DEF SelectDone
  <2>2. z \in SessionState /\ z.key = x.key /\ z.marks = x.marks /\ z.box = x.box /\ z.view = v
    BY <1>1, <1>3 DEF SessionState
  <2>3. x.key = "keyed" /\ x.marks = {}
    BY <1>1, <2>1 DEF Shape
  <2> HIDE DEF z
  <2>4. /\ SessionTypes(y) /\ Shape(y) /\ y.box = x.box /\ Seen(y) = ToSet(v)
    BY ZenonT(40), <1>3, <2>2, <2>3 DEF SessionTypes, Shape, Ready, SessionState, Seen
  <2>5. \A p \in Seen(y) : p \in Seen(x)
    BY <1>3, <2>4 DEF ToSet
  <2> HIDE DEF y
  <2> QED
    BY <1>4, <1>5, <2>1, <2>4, <2>5, Continues
<1>7. CASE PollDone(s)
  <2> DEFINE z == [x EXCEPT !.pc = IF x.idling THEN "idle" ELSE "ready", !.buf = Nothing]
  <2>1. PICK w \in {v, x.view} : Step(s, [z EXCEPT !.view = w])
    <3>1. z.view = x.view
      BY <1>1 DEF SessionState
    <3>2. [z EXCEPT !.view = x.view] = z
      BY <1>1, <3>1 DEF SessionState
    <3>3. Step(s, [z EXCEPT !.view = v]) \/ Step(s, z)
      BY <1>7 DEF PollDone
    <3> HIDE DEF z
    <3> QED
      BY <3>2, <3>3
  <2> DEFINE y == [z EXCEPT !.view = w]
  <2>2. x.pc = "poll" /\ x.kind = "imap" /\ x.marks = {} /\ x.target = Nothing /\ x.key = "keyed"
    BY <1>1, <1>7 DEF PollDone, Shape
  <2>3. /\ z \in SessionState /\ z.pc \in {"idle", "ready"} /\ z.kind = "imap" /\ z.marks = {}
        /\ z.target = Nothing /\ z.key = "keyed" /\ z.buf = Nothing /\ z.box = x.box /\ z.at = x.at
    BY ZenonT(40), <1>1, <2>2 DEF SessionState
  <2> HIDE DEF z
  <2>4. w \in Seq(Entry) /\ \A i \in DOMAIN w : w[i] \in Seen(x) /\ w[i].uid # 0
    BY <1>1, <1>3, Fields DEF SessionTypes, Seen, ToSet
  <2>5. CASE x.at = 0
    <3>1. /\ SessionTypes(y) /\ Shape(y) /\ y.box = x.box /\ y.view = w /\ y.buf = Nothing
      BY <2>3, <2>4, <2>5 DEF SessionTypes, Shape, SessionState
    <3>2. \A p \in Seen(y) : p \in Seen(x)
      BY <2>4, <3>1 DEF Seen, ToSet
    <3> HIDE DEF y
    <3> QED
      BY <1>4, <1>5, <2>1, <3>1, <3>2, Continues DEF y
  <2>6. x.at = 0
    BY <1>1, <2>2 DEF Shape
  <2> QED
    BY <2>5, <2>6
<1> QED
  BY <1>6, <1>7

\* STORE on a message that is listed, on one that is not, or on one that goes
\* in between.
LEMMA FlagStep ==
  ASSUME MailboxInv, NEW s \in Session, FlagSet(s)
  PROVE  StepOK
<1> SUFFICES ASSUME NEW x, x = sess[s] PROVE StepOK
  OBVIOUS
<1>1. x \in SessionState /\ SessionTypes(x) /\ Shape(x)
  BY SessionOK
<1>2. x.pc = "flag" /\ x.buf \subseteq Entry /\ UNCHANGED <<made, folder>>
  BY ListedOK DEF FlagSet
<1>3. /\ x.view \in Seq(Entry) /\ x.at \in DOMAIN x.view /\ x.marks = {} /\ x.key = "keyed"
      /\ x.target = Nothing /\ x.kind = "imap"
  BY <1>1, <1>2, Fields DEF Shape, SessionTypes
<1>4. ASSUME NEW v \in Seq(Entry), Step(s, Ready([x EXCEPT !.view = v])), Moves,
             SignalTypes',
             DOMAIN v = DOMAIN x.view,
             \A i \in DOMAIN v : v[i].id = x.view[i].id /\ v[i].uid = x.view[i].uid
      PROVE  StepOK
  <2> DEFINE z == [x EXCEPT !.view = v]
             y == Ready(z)
  <2>1. z \in SessionState /\ z.key = "keyed" /\ z.marks = {} /\ z.box = x.box /\ z.view = v
    BY <1>1, <1>3, <1>4 DEF SessionState
  <2>2. \A i \in DOMAIN v : v[i].uid # 0
    BY <1>1, <1>4 DEF SessionTypes
  <2> HIDE DEF z
  <2>3. SessionTypes(y) /\ Shape(y) /\ y.box = x.box /\ Seen(y) = ToSet(v)
    BY <1>4, <2>1, <2>2 DEF SessionTypes, Shape, Ready, SessionState, Seen
  <2>4. \A p \in Seen(y) : \E q \in Seen(x) : p.id = q.id /\ p.uid = q.uid
    <3>1. ASSUME NEW i \in DOMAIN v PROVE \E q \in Seen(x) : v[i].id = q.id /\ v[i].uid = q.uid
      <4>1. x.view[i] \in Seen(x)
        BY <1>4 DEF ToSet, Seen
      <4> QED
        BY <1>4, <4>1
    <3> HIDE DEF y
    <3> QED
      BY <2>3, <3>1 DEF ToSet
  <2>5. Step(s, y)
    BY <1>4 DEF z
  <2> HIDE DEF y
  <2> QED
    BY <1>4, <2>3, <2>4, <2>5, Continues
<1>5. ASSUME NEW value \in BOOLEAN
      PROVE  \E v \in Seq(Entry) :
               /\ [x EXCEPT !.view[x.at].del = value] = [x EXCEPT !.view = v]
               /\ DOMAIN v = DOMAIN x.view
               /\ \A i \in DOMAIN v : v[i].id = x.view[i].id /\ v[i].uid = x.view[i].uid
  <2> DEFINE v == [x.view EXCEPT ![x.at].del = value]
  <2>1. v \in Seq(Entry) /\ DOMAIN v = DOMAIN x.view
        /\ \A i \in DOMAIN v : v[i].id = x.view[i].id /\ v[i].uid = x.view[i].uid
    <3>1. x.view[x.at] \in Entry
      BY <1>3
    <3> DEFINE n == [x.view[x.at] EXCEPT !.del = value]
    <3>2. n \in Entry /\ n.id = x.view[x.at].id /\ n.uid = x.view[x.at].uid
      BY <3>1 DEF Entry
    <3>3. v = [x.view EXCEPT ![x.at] = n]
      OBVIOUS
    <3> HIDE DEF n, v
    <3>4. v \in Seq(Entry) /\ DOMAIN v = DOMAIN x.view
          /\ \A i \in DOMAIN v : v[i] = IF i = x.at THEN n ELSE x.view[i]
      BY <1>3, <3>2, <3>3
    <3> QED
      BY <3>2, <3>4
  <2>2. [x EXCEPT !.view[x.at].del = value] = [x EXCEPT !.view = v]
    BY <1>1 DEF SessionState
  <2> HIDE DEF v
  <2> QED
    BY <2>1, <2>2
<1>6. ASSUME NEW value \in BOOLEAN, Step(s, Ready([x EXCEPT !.view[x.at].del = value])), Moves,
             SignalTypes'
      PROVE  StepOK
  BY <1>4, <1>5, <1>6
<1>7. CASE Found(s) = {} /\ Quiet /\ Step(s, Ready([x EXCEPT !.view[x.at].del = FALSE]))
  <2>1. Moves /\ SignalTypes'
    BY <1>2, <1>7, NoCommit, Signalled DEF Quiet, MailboxInv
  <2> QED
    BY <1>6, <1>7, <2>1
<1>8. ASSUME Moves, SignalTypes', Step(s, Ready(x)) PROVE StepOK
  <2>1. [x EXCEPT !.view = x.view] = x
    BY <1>1 DEF SessionState
  <2>2. Step(s, Ready([x EXCEPT !.view = x.view]))
    BY <1>8, <2>1
  <2> QED
    BY <1>3, <1>4, <1>8, <2>2
<1>9. ASSUME Quiet PROVE Moves /\ SignalTypes'
  BY <1>2, <1>9, NoCommit, Signalled DEF Quiet, MailboxInv
<1>10. ASSUME NEW r \in Found(s), mail[r.id].in # {}, UNCHANGED next,
              NEW N, Publish([mail EXCEPT ![r.id].del = TRUE], N)
       PROVE  Moves /\ SignalTypes'
  <2>1. r.id \in Email
    BY <1>2 DEF Found, Entry
  <2> DEFINE m == [mail[r.id] EXCEPT !.del = TRUE]
  <2>2. /\ m \in [in : SUBSET Box, uid : [Box -> Nat], del : BOOLEAN]
        /\ m.in = mail[r.id].in /\ m.uid = mail[r.id].uid
        /\ Publish([mail EXCEPT ![r.id] = m], N)
    <3>1. /\ mail[r.id] \in [in : SUBSET Box, uid : [Box -> Nat], del : BOOLEAN]
          /\ [mail EXCEPT ![r.id].del = TRUE] = [mail EXCEPT ![r.id] = m]
      BY <2>1 DEF MailboxInv, MailboxTypeOK
    <3>2. /\ m \in [in : SUBSET Box, uid : [Box -> Nat], del : BOOLEAN]
          /\ m.in = mail[r.id].in /\ m.uid = mail[r.id].uid
      BY <3>1
    <3> HIDE DEF m
    <3> QED
      BY <1>10, <3>1, <3>2
  <2>3. r.id \in made /\ \A b \in Box : /\ b \in m.in => folder[b] = "keyed"
                                        /\ m.uid[b] # 0 => b \in m.in /\ m.uid[b] = mail[r.id].uid[b]
    BY <1>10, <2>1, <2>2 DEF MailboxInv, MailInv
  <2> HIDE DEF m
  <2>4. Moves
    BY ZenonT(40), <1>2, <1>10, <2>1, <2>2, <2>3, OneFiled DEF MailboxInv
  <2>5. SignalTypes'
    BY <1>10, Signalled DEF Publish
  <2> QED
    BY <2>4, <2>5
<1>11. \/ Found(s) = {} /\ Quiet /\ Step(s, Ready([x EXCEPT !.view[x.at].del = FALSE]))
       \/ \E r \in Found(s) :
            IF mail[r.id].in = {} THEN Quiet /\ Step(s, Ready(x))
            ELSE \E N \in Own(s) :
                   /\ Publish([mail EXCEPT ![r.id].del = TRUE], N) /\ UNCHANGED next
                   /\ \/ Step(s, Ready([x EXCEPT !.view[x.at].del = TRUE]))
                      \/ Step(s, Ready(x))
  BY DEF FlagSet
<1> QED
  BY <1>6, <1>7, <1>8, <1>9, <1>10, <1>11

\* The session is done with the message in hand.
LEMMA RemovedOK ==
  ASSUME NEW x \in SessionState, SessionTypes(x), Shape(x), x.pc \in {"remove", "destroy"}
  PROVE  /\ SessionTypes(Removed(x)) /\ Shape(Removed(x)) /\ Removed(x).box = x.box
         /\ \A p \in Seen(Removed(x)) : p \in Seen(x)
<1>1. x.key = "keyed" /\ (x.kind = "imap" => x.marks = {}) /\ x.at \in DOMAIN x.view
      /\ x.view \in Seq(Entry) /\ \A i \in DOMAIN x.view : x.view[i].uid # 0
  BY Fields DEF Shape, SessionTypes
<1>2. ToSet(x.view) \subseteq Seen(x)
  BY DEF Seen
<1>3. ASSUME NEW v \in Seq(Entry), NEW marks \in SUBSET x.marks, x.kind = "imap" \/ v = x.view,
             \A j \in DOMAIN v : \E k \in DOMAIN x.view : v[j] = x.view[k]
      PROVE  LET y == Ready([x EXCEPT !.view = v, !.marks = marks])
             IN  /\ SessionTypes(y) /\ Shape(y) /\ y.box = x.box
                 /\ \A p \in Seen(y) : p \in Seen(x)
  <2> DEFINE z == [x EXCEPT !.view = v, !.marks = marks]
  <2>1. /\ z \in SessionState /\ z.key = "keyed" /\ z.marks = marks /\ z.box = x.box /\ z.view = v
        /\ z.kind = x.kind /\ z.at = x.at
    BY <1>1, <1>3, Fields DEF SessionState
  <2>2. marks \subseteq DOMAIN v
    BY <1>1, <1>3 DEF SessionTypes
  <2>3. \A i \in DOMAIN v : v[i].uid # 0
    BY <1>1, <1>3
  <2> HIDE DEF z
  <2>4. SessionTypes(Ready(z)) /\ Shape(Ready(z)) /\ Ready(z).box = x.box /\ Seen(Ready(z)) = ToSet(v)
    BY <1>1, <1>3, <2>1, <2>2, <2>3 DEF SessionTypes, Shape, Ready, SessionState, Seen
  <2>5. ToSet(v) \subseteq ToSet(x.view)
    BY <1>3 DEF ToSet
  <2> QED
    BY <1>2, <2>4, <2>5 DEF z
<1>4. CASE x.kind = "imap"
  <2> DEFINE v == RemoveAt(x.view, x.at)
  <2>1. v \in Seq(Entry) /\ \A j \in DOMAIN v : \E k \in DOMAIN x.view : v[j] = x.view[k]
    BY <1>1, RemovedFrom
  <2>2. Removed(x) = Ready([x EXCEPT !.view = v])
    BY <1>4 DEF Removed
  <2> HIDE DEF v
  <2>3. Ready([x EXCEPT !.view = v]) = Ready([x EXCEPT !.view = v, !.marks = x.marks])
    BY DEF Ready, SessionState
  <2> QED
    <3> DEFINE y == Ready([x EXCEPT !.view = v, !.marks = x.marks])
    <3>1. /\ SessionTypes(y) /\ Shape(y) /\ y.box = x.box
          /\ \A p \in Seen(y) : p \in Seen(x)
      BY <1>3, <1>4, <2>1
    <3>2. Removed(x) = y
      BY <2>2, <2>3
    <3> HIDE DEF y
    <3> QED
      BY <3>1, <3>2
<1>5. CASE x.kind # "imap"
  <2> DEFINE marks == x.marks \ {x.at}
             y     == Ready([x EXCEPT !.view = x.view, !.marks = marks])
  <2>1. Removed(x) = [y EXCEPT !.pc = "quit"]
    BY <1>5 DEF Removed, SessionState
  <2>2. /\ SessionTypes(y) /\ Shape(y) /\ y.box = x.box
        /\ \A p \in Seen(y) : p \in Seen(x)
    BY <1>1, <1>3
  <2>3. y.pc = "ready" /\ y.kind = x.kind /\ y \in SessionState
    BY <2>2 DEF Ready, SessionState, SessionTypes
  <2> HIDE DEF y
  <2>4. SessionTypes([y EXCEPT !.pc = "quit"]) /\ Shape([y EXCEPT !.pc = "quit"])
        /\ [y EXCEPT !.pc = "quit"].box = y.box /\ Seen([y EXCEPT !.pc = "quit"]) = Seen(y)
    BY <1>5, <2>2, <2>3 DEF SessionTypes, Shape, SessionState, Seen
  <2> QED
    BY <2>1, <2>2, <2>4
<1> QED
  BY <1>4, <1>5

\* A command fails: its session waits for the next one, or is gone.
LEMMA GivesUp ==
  ASSUME MailboxInv, NEW s \in Session, Step(s, Failed(sess[s])), Moves, SignalTypes'
  PROVE  StepOK
<1> SUFFICES ASSUME NEW x, x = sess[s] PROVE StepOK
  OBVIOUS
<1>1. x \in SessionState /\ SessionTypes(x) /\ Shape(x)
  BY SessionOK
<1>2. CASE x.kind = "imap" /\ x.pc # "select"
  <2> DEFINE z == Ready(x)
             y == [z EXCEPT !.idling = FALSE]
  <2>1. Step(s, y)
    BY <1>2 DEF Failed
  <2>2. SessionTypes(z) /\ Shape(z) /\ z.box = x.box /\ Seen(z) = ToSet(x.view) /\ z \in SessionState
    BY <1>1, <1>2, ReadyOK DEF Shape, SessionTypes
  <2> HIDE DEF z
  <2>3. SessionTypes(y) /\ Shape(y) /\ y.box = x.box /\ Seen(y) = Seen(z)
    BY <2>2 DEF SessionTypes, Shape, SessionState, Seen
  <2> HIDE DEF y
  <2>4. \A p \in Seen(y) : \E q \in Seen(x) : p.id = q.id /\ p.uid = q.uid
    BY <2>2, <2>3 DEF Seen
  <2> QED
    BY <2>1, <2>3, <2>4, Continues
<1>3. CASE ~(x.kind = "imap" /\ x.pc # "select")
  <2>1. Step(s, Off)
    BY <1>3 DEF Failed
  <2> QED
    BY <2>1, OffOK, Restarts
<1> QED
  BY <1>2, <1>3

\* And it may fail at any request.
LEMMA FailStep ==
  ASSUME MailboxInv, NEW s \in Session, Fail(s)
  PROVE  StepOK
<1>1. Step(s, Failed(sess[s])) /\ Moves /\ SignalTypes'
  BY NothingCommitted, Signalled DEF Fail
<1> QED
  BY <1>1, GivesUp

\* Where the message in hand has been dealt with.
LEMMA RemovalOver ==
  ASSUME MailboxInv, NEW s \in Session, sess[s].pc \in {"remove", "destroy"},
         Step(s, Removed(sess[s])), Moves, SignalTypes'
  PROVE  StepOK
<1> SUFFICES ASSUME NEW x, x = sess[s] PROVE StepOK
  OBVIOUS
<1>1. x \in SessionState /\ SessionTypes(x) /\ Shape(x) /\ x.pc \in {"remove", "destroy"}
  BY SessionOK
<1>2. /\ SessionTypes(Removed(x)) /\ Shape(Removed(x)) /\ Removed(x).box = x.box
      /\ \A p \in Seen(Removed(x)) : p \in Seen(x)
  BY <1>1, RemovedOK
<1> DEFINE y == Removed(x)
<1>3. /\ Step(s, y) /\ SessionTypes(y) /\ Shape(y) /\ y.box = x.box
      /\ \A p \in Seen(y) : \E q \in Seen(x) : p.id = q.id /\ p.uid = q.uid
  BY <1>2
<1> HIDE DEF y
<1> QED
  BY <1>3, Continues

\* The email that the session's UID names is the one that it showed.
LEMMA FindStep ==
  ASSUME MailboxInv, NEW s \in Session, RemoveFind(s)
  PROVE  StepOK
<1> SUFFICES ASSUME NEW x, x = sess[s] PROVE StepOK
  OBVIOUS
<1>1. x \in SessionState /\ SessionTypes(x) /\ Shape(x) /\ Sound(Seen(x), x.box)
  BY SessionOK
<1>2. x.pc = "remove" /\ x.buf \subseteq Entry /\ x.buf \subseteq Seen(x)
  BY ListedOK DEF RemoveFind
<1>3. UNCHANGED store /\ SignalTypes'
  BY Signalled DEF RemoveFind
<1>4. Moves
  BY <1>3, NothingCommitted
<1>5. CASE Step(s, Removed(x))
  BY <1>2, <1>3, <1>4, <1>5, RemovalOver
<1>6. ASSUME NEW r \in Found(s),
             Step(s, [x EXCEPT !.pc = "destroy", !.buf = Nothing,
                               !.target = [id |-> r.id, in |-> mail[r.id].in]])
      PROVE  StepOK
  <2> SUFFICES ASSUME NEW tgt, tgt = [id |-> r.id, in |-> mail[r.id].in] PROVE StepOK
    OBVIOUS
  <2> DEFINE y == [x EXCEPT !.pc = "destroy", !.buf = Nothing, !.target = tgt]
  <2>1. r \in x.buf /\ r.uid = x.view[x.at].uid /\ r.id \in Email
    BY <1>2 DEF Found, Entry
  <2>2. x.at \in DOMAIN x.view /\ x.at # 0 /\ x.view[x.at].uid # 0
    BY <1>1, <1>2 DEF Shape, SessionTypes
  <2>3. x.view[x.at].id = r.id
    <3>1. x.view[x.at] \in Seen(x)
      BY <2>2 DEF Seen, ToSet
    <3> QED
      BY <1>1, <1>2, <2>1, <2>2, <3>1 DEF Sound
  <2>4. tgt \in [id : Email, in : SUBSET Box] /\ tgt.id = x.view[x.at].id
    BY <2>1, <2>3 DEF MailboxInv, MailboxTypeOK
  <2>5. /\ y \in SessionState /\ y.pc = "destroy" /\ y.buf = Nothing /\ y.target = tgt
        /\ y.view = x.view /\ y.at = x.at /\ y.box = x.box /\ y.marks = x.marks
        /\ y.key = x.key /\ y.kind = x.kind
    BY <1>1, <2>4 DEF SessionState
  <2> HIDE DEF y
  <2>6. SessionTypes(y) /\ Shape(y)
    BY <1>1, <2>2, <2>4, <2>5 DEF SessionTypes, Shape
  <2>7. \A p \in Seen(y) : p \in Seen(x)
    BY <2>5 DEF Seen
  <2>8. Step(s, y)
    BY <1>6 DEF y
  <2> QED
    BY <1>3, <1>4, <2>5, <2>6, <2>7, <2>8, Continues
<1>7. \/ Step(s, Removed(x))
      \/ \E r \in Found(s) :
           Step(s, [x EXCEPT !.pc = "destroy", !.buf = Nothing,
                             !.target = [id |-> r.id, in |-> mail[r.id].in]])
  BY DEF RemoveFind
<1> QED
  BY <1>5, <1>6, <1>7

LEMMA DestroyStep ==
  ASSUME MailboxInv, NEW s \in Session, RemoveSet(s)
  PROVE  StepOK
<1> SUFFICES ASSUME NEW x, x = sess[s] PROVE StepOK
  OBVIOUS
<1> DEFINE e    == x.target.id
           left == IF Cardinality(x.target.in) = 1 THEN {} ELSE mail[e].in \ {x.box}
           m    == [mail[e] EXCEPT !.in = left]
           n    == IF left = {} THEN NoMail ELSE Stored(m)
<1>1. x \in SessionState /\ Shape(x) /\ x.pc = "destroy" /\ UNCHANGED <<made, folder>>
  BY SessionOK DEF RemoveSet
<1>2. e \in Email
  BY <1>1 DEF Shape
<1>3. \/ Quiet /\ Step(s, Failed(x))
      \/ \E N \in Own(s) :
           /\ Publish([mail EXCEPT ![e] = n], N) /\ mail[e].in # {}
           /\ Step(s, Removed(x)) \/ Step(s, Failed(x))
           /\ UNCHANGED next
  BY DEF RemoveSet
<1>4. CASE Quiet /\ Step(s, Failed(x))
  <2>1. Moves /\ SignalTypes'
    BY <1>1, <1>4, NoCommit, Signalled DEF Quiet, MailboxInv
  <2> QED
    BY <1>4, <2>1, GivesUp
<1>5. ASSUME NEW N, Publish([mail EXCEPT ![e] = n], N), mail[e].in # {}, UNCHANGED next,
             Step(s, Removed(x)) \/ Step(s, Failed(x))
      PROVE  StepOK
  <2>1. /\ m \in [in : SUBSET Box, uid : [Box -> Nat], del : BOOLEAN]
        /\ m.in = left /\ m.uid = mail[e].uid /\ left \subseteq mail[e].in
    <3>1. mail[e] \in [in : SUBSET Box, uid : [Box -> Nat], del : BOOLEAN]
      BY <1>2 DEF MailboxInv, MailboxTypeOK
    <3>2. left \subseteq mail[e].in
      OBVIOUS
    <3> HIDE DEF left, e
    <3> QED
      BY <3>1, <3>2
  <2> HIDE DEF m, left
  <2>2. n \in [in : SUBSET Box, uid : [Box -> Nat], del : BOOLEAN]
    BY <2>1, StoredMail, NoMailType
  <2>3. \A b \in Box : /\ b \in n.in => folder[b] = "keyed"
                       /\ n.uid[b] # 0 => b \in n.in /\ n.uid[b] = mail[e].uid[b]
    <3>1. CASE left = {}
      BY <3>1, NoMailType
    <3>2. CASE left # {}
      BY <1>2, <2>1, <3>2, StoredMail DEF MailboxInv, MailInv
    <3> QED
      BY <3>1, <3>2
  <2>4. e \in made
    BY <1>2, <1>5 DEF MailboxInv, MailInv
  <2> HIDE DEF n, e
  <2>5. Moves /\ SignalTypes'
    <3>1. Moves
      BY <1>1, <1>2, <1>5, <2>2, <2>3, <2>4, OneFiled DEF MailboxInv
    <3> QED
      BY <1>5, <3>1, Signalled DEF Publish
  <2> QED
    BY <1>1, <1>5, <2>5, RemovalOver, GivesUp
<1> QED
  BY <1>3, <1>4, <1>5

\* Every step of the specification, by whose it is.
LEMMA NextStep ==
  ASSUME MailboxInv, ~EarlyUse, MailboxNext
  PROVE  StepOK
<1>1. CASE StoreStep
  <2>1. Moves /\ sess' = sess /\ SignalTypes'
    BY <1>1, StoreStepMoves DEF MailboxInv
  <2>2. ASSUME NEW s \in Session PROVE SessionInv(sess[s])'
    BY <2>1, <2>2, SessionWaits DEF MailboxInv, Moves
  <2>3. MailboxTypeOK'
    BY <2>1 DEF MailboxInv, MailboxTypeOK, StoreTypes, SignalTypes, Moves
  <2> QED
    BY <2>1, <2>2, <2>3 DEF StepOK, MailboxInv, Moves
<1>2. ASSUME NEW s \in Session, NEW b \in Box, Select(s, b) PROVE StepOK
  BY <1>2, SelectStep
<1>3. ASSUME NEW s \in Session, Command(s) PROVE StepOK
  BY <1>3, ReadStep, AssignStep, SnapshotStep, FlagStep, FindStep, DestroyStep DEF Command
<1>4. ASSUME NEW s \in Session,
             Fail(s) \/ Poll(s) \/ Idle(s) \/ IdleStop(s) \/ Leave(s) \/ Expunge(s)
      PROVE  StepOK
  BY <1>4, FailStep, PlainStep, LeaveStep, WorkStep
<1>5. ASSUME NEW s \in Session, NEW i \in DOMAIN sess[s].view, Flag(s, i) \/ Mark(s, i) \/ Quit(s, i)
      PROVE  StepOK
  BY <1>5, PlainStep, WorkStep
<1> QED
  BY <1>1, <1>2, <1>3, <1>4, <1>5 DEF MailboxNext, StoreStep

\* At the start nothing is filed and nobody has read anything.
LEMMA InitMailboxInv ==
  ASSUME MailboxInit
  PROVE  MailboxInv
<1>1. MailboxTypeOK
  <2>1. SessionTypes(Off)
    BY OffOK
  <2>2. StoreTypes
    BY DEF MailboxInit, StoreTypes, NoMail, Box, States
  <2>3. Off \in SessionState
    BY <2>1 DEF SessionTypes
  <2>4. sess \in [Session -> SessionState] /\ \A s \in Session : SessionTypes(sess[s])
    <3> DEFINE o == Off
    <3>1. sess = [s \in Session |-> o] /\ o \in SessionState /\ SessionTypes(o)
      BY <2>1, <2>3 DEF MailboxInit
    <3> HIDE DEF o
    <3> QED
      BY <3>1
  <2> QED
    BY <2>2, <2>4 DEF MailboxInit, MailboxTypeOK, StoreTypes, SessionTypes
<1>2. MailInv
  <2>1. made = {} /\ IsFiniteSet(made)
    BY FS_EmptySet DEF MailboxInit
  <2>2. \A e \in Email : mail[e].in = {} /\ \A b \in Box : mail[e].uid[b] = 0
    BY DEF MailboxInit, NoMail
  <2>3. \A b \in Box : top[b] = 0 /\ folder[b] = (IF b = Inbox THEN "keyed" ELSE "absent")
                       /\ next[b] = IF b = Inbox THEN 1 ELSE 0
    BY DEF MailboxInit
  <2> QED
    BY <2>1, <2>2, <2>3 DEF MailInv
<1>3. ASSUME NEW s \in Session PROVE SessionInv(sess[s])
  <2>1. sess[s] = Off
    BY DEF MailboxInit
  <2>2. Shape(Off) /\ Seen(Off) = {}
    BY OffOK DEF Seen, ToSet
  <2> QED
    BY <2>1, <2>2 DEF SessionInv, Sound
<1> QED
  BY <1>1, <1>2, <1>3 DEF MailboxInv

LEMMA SpecIInv ==
  ASSUME ~EarlyUse
  PROVE  MailboxSpec => []MailboxInv
<1>1. MailboxInit => MailboxInv
  BY InitMailboxInv
<1>2. MailboxInv /\ [MailboxNext]_mailboxVars => MailboxInv'
  <2>1. ASSUME MailboxInv, MailboxNext PROVE MailboxInv'
    BY <2>1, NextStep DEF StepOK
  <2>2. ASSUME MailboxInv, UNCHANGED mailboxVars PROVE MailboxInv'
    BY <2>2 DEF mailboxVars, store, signals, MailboxInv, MailboxTypeOK, MailInv, SessionInv, Sound
  <2> QED
    BY <2>1, <2>2
<1> QED
  BY <1>1, <1>2, PTL DEF MailboxSpec

-----------------------------------------------------------------------------
(***************************************************************************)
(* The theorems.  A folder that is used between the two transactions of    *)
(* its creation may give a UID twice (the run mailbox_uid): they suppose   *)
(* that none is.                                                           *)
(***************************************************************************)

\* The inductive invariant holds of the folders and all their sessions.
THEOREM MailboxInvariance == ~EarlyUse => (MailboxSpec => []MailboxInv)
  BY SpecIInv

\* All variables keep their types, and what a session has in hand and has
\* marked is in its snapshot, whatever the other sessions and clients do.
THEOREM MailTypes == ~EarlyUse => (MailboxSpec => []MailboxTypeOK)
<1> SUFFICES ASSUME ~EarlyUse PROVE MailboxSpec => []MailboxTypeOK
  OBVIOUS
<1>1. MailboxInv => MailboxTypeOK
  BY DEF MailboxInv
<1> QED
  BY <1>1, SpecIInv, PTL

\* EXPUNGE and QUIT destroy the email that the client saw under its number:
\* in every snapshot a UID names one message, now and later.
THEOREM RemovedAsShown == ~EarlyUse => (MailboxSpec => []RemovesMeant)
<1> SUFFICES ASSUME ~EarlyUse PROVE MailboxSpec => []RemovesMeant
  OBVIOUS
<1>1. MailboxInv => RemovesMeant
  BY DEF MailboxInv, SessionInv, Shape, RemovesMeant
<1> QED
  BY <1>1, SpecIInv, PTL

\* A UID that a message gets is above all that its folder ever gave.
THEOREM NoUidTwice == ~EarlyUse => (MailboxSpec => UidsAscend)
<1> SUFFICES ASSUME ~EarlyUse PROVE MailboxSpec => UidsAscend
  OBVIOUS
<1>1. MailboxInv /\ [MailboxNext]_mailboxVars => [Ascends]_mailboxVars
  <2>1. ASSUME MailboxInv, MailboxNext PROVE Ascends
    BY <2>1, NextStep DEF StepOK
  <2> QED
    BY <2>1
<1>2. Ascends <=> \A e \in Email, b \in Box :
                    Shown(mail', e, b) \notin {0, Shown(mail, e, b)} => Shown(mail', e, b) > top[b]
  BY DEF Ascends
<1> QED
  BY <1>1, <1>2, SpecIInv, PTL DEF MailboxSpec, UidsAscend

-----------------------------------------------------------------------------
(***************************************************************************)
(* The pool.                                                               *)
(***************************************************************************)

USE WorkerAssumption, NoneAssumption

-----------------------------------------------------------------------------
(***************************************************************************)
(* The inductive invariant.                                                *)
(***************************************************************************)

\* The call has not sent its job.
Before(c) == pc[c] \in {"idle", "rlock", "submit"}

\* The task of the call is nobody's yet to answer, or not any more.
Unanswered(c) == ~Before(c) /\ answers[c] = 0

\* A task is in the channel once, or with one worker, until it is answered.
OneHand ==
    /\ \A c \in Call : Before(c) => answers[c] = 0
    /\ \A i \in DOMAIN jobs : Unanswered(jobs[i])
    /\ \A i, j \in DOMAIN jobs : jobs[i] = jobs[j] => i = j
    /\ \A w \in Worker :
         /\ job[w] = None <=> wpc[w] \in {"idle", "exit"}
         /\ job[w] # None => Unanswered(job[w])
         /\ \A i \in DOMAIN jobs : jobs[i] # job[w]
         /\ \A v \in Worker : job[v] = job[w] /\ job[v] # None => v = w

\* Who is in Submit holds the lock, so that Close has not passed it.
Locked ==
    /\ closed <=> closer \in {"wait", "done"}
    /\ closed => readers = {}
    /\ \A c \in Call : pc[c] = "submit" => c \in readers

\* A task that was started is with its worker until its reception is over.
Stands ==
    /\ \A c \in started \ received :
         \E w \in Worker : job[w] = c /\ wpc[w] \in {"ingest", "hold"}
    /\ \A c \in Call : /\ Before(c) \/ pc[c] = "admit" => c \notin received
                       /\ pc[c] = "receive" => c \in started \ received

IInv == TypeOK /\ OneHand /\ Locked /\ Stands

LEMMA WorkersNat == Cardinality(Worker) \in Nat
  BY FS_CardinalityType

LEMMA InitIInv == Init => IInv
<1> SUFFICES ASSUME Init PROVE IInv
  OBVIOUS
<1>1. TypeOK
  <2>1. jobs \in Seq(Call) /\ Len(jobs) = 0
    BY DEF Init
  <2>2. /\ answers \in [Call -> 0..1]
        /\ job \in [Worker -> Call \cup {None}]
    BY DEF Init
  <2>3. /\ wpc \in [Worker -> {"idle", "check", "ingest", "hold", "send", "exit"}]
        /\ result \in [Call -> {"none", "canceled", "ok", "failed"}]
    BY DEF Init
  <2>4. /\ pc \in [Call -> {"idle", "rlock", "submit", "admit", "receive",
                            "await", "end"}]
        /\ live \in [Call -> BOOLEAN]
    BY DEF Init
  <2>5. /\ {open, closed} \subseteq BOOLEAN
        /\ closer \in {"idle", "lock", "wait", "done"}
    BY DEF Init
  <2>6. /\ readers \subseteq Call /\ started \subseteq Call
        /\ received \subseteq Call
        /\ whole \subseteq received /\ stored \subseteq whole
    BY DEF Init
  <2>7. Len(jobs) <= Cardinality(Worker)
    BY <2>1, WorkersNat
  <2> QED
    BY <2>1, <2>2, <2>3, <2>4, <2>5, <2>6, <2>7 DEF TypeOK
<1>2. OneHand
  BY DEF Init, OneHand, Before, Unanswered
<1>3. Locked
  BY DEF Init, Locked
<1>4. Stands
  BY DEF Init, Stands, Before
<1> QED
  BY <1>1, <1>2, <1>3, <1>4 DEF IInv

-----------------------------------------------------------------------------
(***************************************************************************)
(* Each part is preserved.                                                 *)
(***************************************************************************)

LEMMA TypeStep == IInv /\ [Next]_vars => TypeOK'
<1> SUFFICES ASSUME IInv, [Next]_vars PROVE TypeOK'
  OBVIOUS
<1> USE DEF IInv, TypeOK
<1>1. CASE UNCHANGED vars
  BY <1>1 DEF vars, poolVars, callVars, workerVars
<1>2. ASSUME NEW c \in Call, Begin(c) PROVE TypeOK'
  BY <1>2 DEF Begin, poolVars, workerVars
<1>3. ASSUME NEW c \in Call, SubmitLock(c) PROVE TypeOK'
  BY <1>3 DEF SubmitLock, Return, workerVars
<1>4. ASSUME NEW c \in Call, SubmitCancelled(c) PROVE TypeOK'
  BY <1>4 DEF SubmitCancelled, Return, workerVars
<1>5. ASSUME NEW c \in Call, Enqueue(c) PROVE TypeOK'
  BY <1>5, WorkersNat DEF Enqueue, Capacity, workerVars
<1>6. ASSUME NEW c \in Call, Admitted(c) PROVE TypeOK'
  BY <1>6 DEF Admitted, poolVars, workerVars
<1>7. ASSUME NEW c \in Call, AdmitCancelled(c) PROVE TypeOK'
  BY <1>7 DEF AdmitCancelled, NothingReceived, poolVars, workerVars
<1>8. ASSUME NEW c \in Call, ReceiveEnds(c) PROVE TypeOK'
  BY <1>8 DEF ReceiveEnds, poolVars, workerVars
<1>9. ASSUME NEW c \in Call, Await(c) PROVE TypeOK'
  BY <1>9 DEF Await, Return, poolVars, workerVars
<1>10. ASSUME NEW c \in Call, Cancel(c) PROVE TypeOK'
  BY <1>10 DEF Cancel, poolVars, workerVars
<1>11. ASSUME NEW w \in Worker, WorkerTake(w) PROVE TypeOK'
  BY <1>11, WorkersNat DEF WorkerTake, callVars
<1>12. ASSUME NEW w \in Worker, WorkerExit(w) PROVE TypeOK'
  BY <1>12 DEF WorkerExit, poolVars, callVars
<1>13. ASSUME NEW w \in Worker, WorkerCheck(w) PROVE TypeOK'
  BY <1>13 DEF WorkerCheck, OneHand, poolVars
<1>14. ASSUME NEW w \in Worker, NEW r \in {"ok", "failed"}, Ingested(w, r)
       PROVE  TypeOK'
  BY <1>14 DEF Ingested, OneHand, poolVars
<1>15. ASSUME NEW w \in Worker, WorkerHold(w) PROVE TypeOK'
  BY <1>15 DEF WorkerHold, poolVars, callVars
<1>16. ASSUME NEW w \in Worker, WorkerSend(w) PROVE TypeOK'
  BY <1>16 DEF WorkerSend, OneHand, Unanswered, poolVars, callVars
<1>17. CASE CloseCancel \/ CloseStep
  BY <1>17 DEF CloseCancel, CloseStep, CloseJobs, CloseDone, callVars, workerVars
<1> QED
  BY <1>1, <1>2, <1>3, <1>4, <1>5, <1>6, <1>7, <1>8, <1>9, <1>10, <1>11,
     <1>12, <1>13, <1>14, <1>15, <1>16, <1>17
  DEF Next, CallStep, WorkerStep, IngestEnds, IngestFails

LEMMA OneHandStep == IInv /\ [Next]_vars => OneHand'
<1> SUFFICES ASSUME IInv, [Next]_vars PROVE OneHand'
  OBVIOUS
<1> USE DEF IInv, TypeOK, OneHand, Before, Unanswered
<1>1. CASE UNCHANGED vars
  BY <1>1 DEF vars, poolVars, callVars, workerVars
<1>2. ASSUME NEW c \in Call, Begin(c) PROVE OneHand'
  BY <1>2 DEF Begin, poolVars, workerVars
<1>3. ASSUME NEW c \in Call, SubmitLock(c) PROVE OneHand'
  BY <1>3 DEF SubmitLock, Return, workerVars
<1>4. ASSUME NEW c \in Call, SubmitCancelled(c) PROVE OneHand'
  BY <1>4 DEF SubmitCancelled, Return, workerVars
<1>5. ASSUME NEW c \in Call, Enqueue(c) PROVE OneHand'
  BY <1>5 DEF Enqueue, workerVars
<1>6. ASSUME NEW c \in Call, Admitted(c) PROVE OneHand'
  BY <1>6 DEF Admitted, poolVars, workerVars
<1>7. ASSUME NEW c \in Call, AdmitCancelled(c) PROVE OneHand'
  BY <1>7 DEF AdmitCancelled, poolVars, workerVars
<1>8. ASSUME NEW c \in Call, ReceiveEnds(c) PROVE OneHand'
  BY <1>8 DEF ReceiveEnds, poolVars, workerVars
<1>9. ASSUME NEW c \in Call, Await(c) PROVE OneHand'
  BY <1>9 DEF Await, Return, poolVars, workerVars
<1>10. ASSUME NEW c \in Call, Cancel(c) PROVE OneHand'
  BY <1>10 DEF Cancel, poolVars, workerVars
<1>11. ASSUME NEW w \in Worker, WorkerTake(w) PROVE OneHand'
  BY <1>11 DEF WorkerTake, callVars
<1>12. ASSUME NEW w \in Worker, WorkerExit(w) PROVE OneHand'
  BY <1>12 DEF WorkerExit, poolVars, callVars
<1>13. ASSUME NEW w \in Worker, WorkerCheck(w) PROVE OneHand'
  BY <1>13 DEF WorkerCheck, poolVars
<1>14. ASSUME NEW w \in Worker, NEW r \in {"ok", "failed"}, Ingested(w, r)
       PROVE  OneHand'
  BY <1>14 DEF Ingested, poolVars
<1>15. ASSUME NEW w \in Worker, WorkerHold(w) PROVE OneHand'
  BY <1>15 DEF WorkerHold, poolVars, callVars
<1>16. ASSUME NEW w \in Worker, WorkerSend(w) PROVE OneHand'
  BY <1>16 DEF WorkerSend, poolVars, callVars
<1>17. CASE CloseCancel \/ CloseStep
  BY <1>17 DEF CloseCancel, CloseStep, CloseJobs, CloseDone, callVars, workerVars
<1> QED
  BY <1>1, <1>2, <1>3, <1>4, <1>5, <1>6, <1>7, <1>8, <1>9, <1>10, <1>11,
     <1>12, <1>13, <1>14, <1>15, <1>16, <1>17
  DEF Next, CallStep, WorkerStep, IngestEnds, IngestFails

LEMMA LockedStep == IInv /\ [Next]_vars => Locked'
<1> SUFFICES ASSUME IInv, [Next]_vars PROVE Locked'
  OBVIOUS
<1> USE DEF IInv, TypeOK, Locked
<1>1. CASE UNCHANGED vars
  BY <1>1 DEF vars, poolVars, callVars
<1>2. ASSUME NEW c \in Call, Begin(c) \/ CallStep(c) \/ Cancel(c)
      PROVE  Locked'
  BY <1>2
  DEF CallStep, Begin, SubmitLock, SubmitCancelled, Enqueue, Admitted,
      AdmitCancelled, ReceiveEnds, Await, Cancel, Return, poolVars
<1>3. ASSUME NEW w \in Worker, WorkerStep(w) \/ IngestFails(w)
      PROVE  Locked'
  BY <1>3
  DEF WorkerStep, WorkerTake, WorkerExit, WorkerCheck, IngestEnds,
      IngestFails, Ingested, WorkerHold, WorkerSend, poolVars, callVars
<1>4. CASE CloseCancel \/ CloseStep
  BY <1>4
  DEF CloseCancel, CloseStep, CloseJobs, CloseDone, LockFree, callVars
<1> QED
  BY <1>1, <1>2, <1>3, <1>4 DEF Next

LEMMA StandsStep == IInv /\ [Next]_vars => Stands'
<1> SUFFICES ASSUME IInv, [Next]_vars PROVE Stands'
  OBVIOUS
<1> USE DEF IInv, TypeOK, Stands, Before
<1>1. CASE UNCHANGED vars
  BY <1>1 DEF vars, callVars, workerVars
<1>2. ASSUME NEW c \in Call, Begin(c) \/ CallStep(c) \/ Cancel(c)
      PROVE  Stands'
  BY <1>2
  DEF CallStep, Begin, SubmitLock, SubmitCancelled, Enqueue, Admitted,
      AdmitCancelled, NothingReceived, ReceiveEnds, Await, Cancel, Return,
      workerVars
<1>3. ASSUME NEW w \in Worker, WorkerTake(w) PROVE Stands'
  BY <1>3 DEF WorkerTake, callVars
<1>4. ASSUME NEW w \in Worker, WorkerExit(w) PROVE Stands'
  BY <1>4 DEF WorkerExit, callVars
<1>5. ASSUME NEW w \in Worker, WorkerCheck(w) PROVE Stands'
  BY <1>5 DEF WorkerCheck
<1>6. ASSUME NEW w \in Worker, NEW r \in {"ok", "failed"}, Ingested(w, r)
      PROVE  Stands'
  BY <1>6 DEF Ingested
<1>7. ASSUME NEW w \in Worker, WorkerHold(w) PROVE Stands'
  BY <1>7 DEF WorkerHold, HelpersGone, callVars
<1>8. ASSUME NEW w \in Worker, WorkerSend(w) PROVE Stands'
  BY <1>8 DEF WorkerSend, callVars
<1>9. CASE CloseCancel \/ CloseStep
  BY <1>9
  DEF CloseCancel, CloseStep, CloseJobs, CloseDone, callVars, workerVars
<1> QED
  BY <1>1, <1>2, <1>3, <1>4, <1>5, <1>6, <1>7, <1>8, <1>9
  DEF Next, WorkerStep, IngestEnds, IngestFails

-----------------------------------------------------------------------------
(***************************************************************************)
(* The theorems.                                                           *)
(***************************************************************************)

LEMMA Invariance == Spec => []IInv
<1>1. IInv /\ [Next]_vars => IInv'
  BY TypeStep, OneHandStep, LockedStep, StandsStep DEF IInv
<1> QED
  BY InitIInv, <1>1, PTL DEF Spec

\* The variables keep their types; in particular a task is answered once at
\* most (newStreamTaskPool's workers), so that no worker blocks on an answer.
THEOREM PoolTypeCorrect == Spec => []TypeOK
<1>1. IInv => TypeOK
  BY DEF IInv
<1> QED
  BY <1>1, Invariance, PTL

\* Close and Submit agree on the lock: however many calls submit, none is at
\* its send when the channel is closed.
THEOREM NeverSendsOnClosed == Spec => []NoSendOnClosed
<1>1. IInv => NoSendOnClosed
  BY DEF IInv, Locked, NoSendOnClosed
<1> QED
  BY <1>1, Invariance, PTL

\* storeMailStream receives only under a worker's admission: two receptions
\* have two workers, so at most Worker of them hold blocks at a time.
THEOREM ReceptionsAdmitted == Spec => []HelpersHeld
<1>1. IInv => HelpersHeld
  BY DEF IInv, Stands, HelpersHeld
<1> QED
  BY <1>1, Invariance, PTL
=============================================================================
