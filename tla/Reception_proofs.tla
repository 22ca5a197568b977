-------------------------- MODULE Reception_proofs --------------------------
(***************************************************************************)
(* Proofs about Reception for any directory, sessions and submission.  A   *)
(* lookup finds what the directory means, unless it is rewritten meanwhile; *)
(* a message that is accepted is complete, a task is the last thing that a *)
(* transaction leaves, forwarding ends, and a recipient on record as       *)
(* accepted was served.                                                    *)
(***************************************************************************)
EXTENDS Reception, FiniteSetTheorems, TLAPS

USE ReceptionAssumption

-----------------------------------------------------------------------------
(***************************************************************************)
(* Lookups.                                                                *)
(***************************************************************************)

\* What a lookup has, whatever the directory was when it read it.
Steady(x) ==
    /\ x.for = "none" <=> x.next = "none"
    /\ x.for # "none" => x.from \in User
    /\ x.next \in {"kind"} \cup Link => x.at \in User
    /\ x.next \in Link => x.at \in x.seen /\ x.next \in Kinds(x)
    /\ x.next = "found" => x.at \in Address /\ (Kinds(x) # Link => x.at \in User)
    /\ x.at \in Ext => x.owner \in User

\* What it has read is the directory's, if that is the same: the names that it
\* has come by are on the trail, and each leads to the next.
Followed(x) ==
    /\ x.seen \cup {x.at} \subseteq Trail(x.from, Kinds(x))
    /\ x.from \in x.seen \cup {x.at}
    /\ \A v \in x.seen : Is(v, Kinds(x))
    /\ \A v \in x.seen :
         (v = x.at => x.next \notin Link) => Target(v) \in x.seen \cup {x.at, None}
    /\ x.next \in Link => dir[x.at].kind = x.next
    /\ x.next = "found" => x.at \in Ends
    /\ x.next = "refused" =>
         \/ Meant(x.from, Kinds(x)) = {}
         \/ Cardinality(Trail(x.from, Kinds(x)) \cap User) > Hops

LookOK(x) == Steady(x) /\ (x.still /\ x.for # "none" => Followed(x))

LooksOK ==
    /\ look \in [{"smtp", "jmap"} -> Lookups]
    /\ \A w \in {"smtp", "jmap"} : LookOK(look[w])

\* An entry points to an address or nowhere, and an alias to a local name.
LEMMA Pointers ==
  ASSUME dir \in Dirs, NEW u \in User, NEW l \in Link
  PROVE  /\ dir[u].to[l] \in Address \cup {None}
         /\ l = "alias" => dir[u].to[l] \in User \cup {None}
<1>1. dir[u] \in Entry
  OBVIOUS
<1>2. dir[u].to \in [Link -> Address \cup {None}]
  BY <1>1 DEF Entry
<1> QED
  BY <1>2, AliasAssumption

\* The trail goes from link to link, and stays in every closed set.
LEMMA TrailStarts ==
  ASSUME NEW from \in User, NEW kinds
  PROVE  from \in Trail(from, kinds)
  BY DEF Trail, Address

LEMMA TrailGoesOn ==
  ASSUME NEW from, NEW kinds, NEW v \in Trail(from, kinds), Is(v, kinds), Target(v) \in Address
  PROVE  Target(v) \in Trail(from, kinds)
<1>1. ASSUME NEW S \in SUBSET Address, from \in S, Closed(S, kinds) PROVE Target(v) \in S
  <2>1. v \in S
    BY <1>1 DEF Trail
  <2> QED
    BY <1>1, <2>1 DEF Closed
<1> QED
  BY <1>1 DEF Trail

LEMMA TrailWithin ==
  ASSUME NEW from, NEW kinds, NEW S \in SUBSET Address, from \in S, Closed(S, kinds)
  PROVE  Trail(from, kinds) \subseteq S
  BY DEF Trail

\* Where the names read lead to no others, the trail has no others; and as all
\* but the last go on, it can end in the last alone.
LEMMA EndsHere ==
  ASSUME NEW from, NEW kinds \in SUBSET Link, NEW seen \in SUBSET User, NEW S \in SUBSET Address,
         from \in S, seen \subseteq S, \A v \in seen : Is(v, kinds),
         \A v \in S : Is(v, kinds) => Target(v) \in S \cup {None}
  PROVE  /\ Trail(from, kinds) \subseteq S
         /\ Meant(from, kinds) \subseteq S \ seen
<1>1. Trail(from, kinds) \subseteq S
  BY TrailWithin DEF Closed
<1>2. \A v \in seen : v \notin Ends
  BY DEF Ends, Is, Link
<1> QED
  BY <1>1, <1>2 DEF Meant

\* A lookup that ends where the directory does not go on.
LEMMA FoundMeant ==
  ASSUME NEW x \in Lookups, Followed(x), x.next = "found", Steady(x)
  PROVE  Meant(x.from, Kinds(x)) = {x.at}
<1> DEFINE S == x.seen \cup {x.at}
           K == Kinds(x)
<1>1. x.seen \in SUBSET User /\ K \in SUBSET Link /\ x.at \in Ends /\ x.at \in Address
  BY DEF Lookups, Kinds, Link, Followed, Steady
<1>2. ~Is(x.at, K)
  BY <1>1 DEF Ends, Is, Link
<1>3. S \in SUBSET Address /\ x.from \in S /\ x.at \in Trail(x.from, K)
  BY <1>1 DEF Followed, Address
<1>4. \A v \in S : Is(v, K) => Target(v) \in S \cup {None}
  BY <1>2 DEF Followed, Link
<1>5. \A v \in x.seen : Is(v, K)
  BY DEF Followed
<1>6. x.seen \subseteq S
  OBVIOUS
<1> HIDE DEF K, S
<1>7. Meant(x.from, K) \subseteq S \ x.seen
  BY <1>1, <1>3, <1>4, <1>5, <1>6, EndsHere
<1>8. x.at \in Meant(x.from, K)
  BY <1>1, <1>3 DEF Meant
<1> QED
  BY <1>7, <1>8 DEF K, S

LEMMA NoLookupOK == NoLookup \in Lookups /\ LookOK(NoLookup)
  BY DEF NoLookup, Lookups, LookOK, Steady, Link, Address

LEMMA LookStays ==
  ASSUME NEW x, LookOK(x), dir' = dir
  PROVE  LookOK(x)'
  BY DEF LookOK, Steady, Followed, Trail, Meant, Ends, Closed, Is, Target

\* One lookup goes on, or nothing happens to any.
LEMMA LooksNext ==
  ASSUME LooksOK, dir' = dir, NEW w \in {"smtp", "jmap"}, NEW y \in Lookups, LookOK(y), Lookup(w, y)
  PROVE  LooksOK'
<1>1. look' \in [{"smtp", "jmap"} -> Lookups]
  BY DEF LooksOK, Lookup
<1>2. ASSUME NEW v \in {"smtp", "jmap"} PROVE LookOK(look[v])'
  <2>1. look'[v] = IF v = w THEN y ELSE look[v]
    BY DEF LooksOK, Lookup
  <2>2. \E z : z = look'[v] /\ LookOK(z)
    BY <2>1 DEF LooksOK
  <2>3. PICK z : z = look'[v] /\ LookOK(z)
    BY <2>2
  <2>4. LookOK(z)'
    BY <2>3, LookStays
  <2> QED
    BY <2>3, <2>4 DEF LookOK, Steady, Followed
<1> QED
  BY <1>1, <1>2 DEF LooksOK

LEMMA LooksSame ==
  ASSUME LooksOK, UNCHANGED <<dir, look>>
  PROVE  LooksOK'
  BY DEF LooksOK, LookOK, Steady, Followed, Trail, Meant, Ends, Closed, Is, Target

LEMMA LooksAnswered ==
  ASSUME LooksOK, dir' = dir, NEW w \in {"smtp", "jmap"}, UNCHANGED look \/ Lookup(w, NoLookup)
  PROVE  LooksOK'
  BY LooksSame, LooksNext, NoLookupOK

\* A lookup begins at the name itself.
LEMMA AskOK ==
  ASSUME LooksOK, NEW w \in {"smtp", "jmap"}, NEW what \in {"auth", "mail", "rcpt", "submit"},
         NEW name \in User, Ask(w, what, name)
  PROVE  LooksOK'
<1> DEFINE y == [NoLookup EXCEPT !.for = what, !.from = name, !.at = name, !.next = "kind"]
<1>0. y = [[[[NoLookup EXCEPT !.for = what] EXCEPT !.from = name] EXCEPT !.at = name]
               EXCEPT !.next = "kind"]
  OBVIOUS
<1>5. Lookup(w, y) /\ dir' = dir
  BY DEF Ask, Asking
<1> HIDE DEF y
<1>2. /\ y \in Lookups /\ y.for = what /\ y.from = name /\ y.at = name /\ y.next = "kind"
      /\ y.seen = {}
  <2>1. NoLookup \in Lookups /\ NoLookup.seen = {}
    BY NoLookupOK DEF NoLookup
  <2>2. PICK y1 : y1 = [NoLookup EXCEPT !.for = what]
    OBVIOUS
  <2>3. y1 \in Lookups /\ y1.for = what /\ y1.seen = {}
    BY <2>1, <2>2 DEF Lookups
  <2>4. PICK y2 : y2 = [y1 EXCEPT !.from = name]
    OBVIOUS
  <2>5. y2 \in Lookups /\ y2.for = what /\ y2.from = name /\ y2.seen = {}
    BY <2>3, <2>4 DEF Lookups
  <2>6. PICK y3 : y3 = [y2 EXCEPT !.at = name]
    OBVIOUS
  <2>7. /\ y3 \in Lookups /\ y3.for = what /\ y3.from = name /\ y3.at = name /\ y3.seen = {}
    BY <2>5, <2>6 DEF Lookups, Address
  <2>8. y = [y3 EXCEPT !.next = "kind"]
    BY Zenon, <1>0, <2>2, <2>4, <2>6
  <2> QED
    BY <2>7, <2>8 DEF Lookups
<1>3. Followed(y)
  BY <1>2, TrailStarts DEF Followed, Link
<1>4. Steady(y)
  BY <1>2 DEF Steady, Link, Address
<1> QED
  BY <1>2, <1>3, <1>4, <1>5, LooksNext DEF LookOK

\* The kind of a name is read, or it is one too many.
LEMMA KindOK ==
  ASSUME LooksOK, dir \in Dirs, NEW w \in {"smtp", "jmap"}, ReadKind(w)
  PROVE  LooksOK'
<1> SUFFICES ASSUME NEW x, x = look[w] PROVE LooksOK'
  OBVIOUS
<1> DEFINE K    == Kinds(x)
           kind == dir[x.at].kind
           S    == x.seen \cup {x.at}
<1>1. /\ x \in Lookups /\ Steady(x) /\ x.next = "kind" /\ dir' = dir
      /\ x.for # "none" /\ x.at \in User /\ x.at \in Address
      /\ x.seen \in SUBSET User /\ K \in SUBSET Link /\ x.from \in User
  BY DEF LooksOK, LookOK, ReadKind, Asking, Steady, Lookups, Kinds, Link, Address
<1>2. x.still => Followed(x)
  BY <1>1 DEF LooksOK, LookOK
<1>3. ASSUME Lookup(w, [x EXCEPT !.next = "refused"]),
             Followed(x) => \/ Meant(x.from, K) = {}
                            \/ Cardinality(Trail(x.from, K) \cap User) > Hops
      PROVE  LooksOK'
  <2> DEFINE y == [x EXCEPT !.next = "refused"]
  <2>1. /\ y \in Lookups /\ y.next = "refused" /\ y.for = x.for /\ y.from = x.from /\ y.at = x.at
        /\ y.seen = x.seen /\ y.still = x.still /\ y.owner = x.owner
    BY <1>1 DEF Lookups
  <2> HIDE DEF y
  <2>2. Kinds(y) = K
    BY <2>1 DEF Kinds
  <2>3. Steady(y)
    BY <1>1, <2>1 DEF Steady, Link
  <2>4. Followed(x) => Followed(y)
    BY <1>1, <1>3, <2>1, <2>2 DEF Followed, Link
  <2> QED
    BY <1>1, <1>2, <1>3, <2>1, <2>3, <2>4, LooksNext DEF LookOK, y
<1>4. CASE x.at \in x.seen
  <2>1. ASSUME Followed(x) PROVE Meant(x.from, K) = {}
    <3>1. \A v \in x.seen : Is(v, K) /\ Target(v) \in x.seen \cup {None}
      BY <1>1, <1>4, <2>1 DEF Followed, Link
    <3>2. x.from \in x.seen /\ x.seen \in SUBSET Address
      BY <1>1, <1>4, <2>1 DEF Followed, Address
    <3> HIDE DEF K
    <3>3. x.seen \subseteq x.seen /\ \A v \in x.seen : Is(v, K) => Target(v) \in x.seen \cup {None}
      BY <3>1
    <3>4. Meant(x.from, K) \subseteq x.seen \ x.seen
      BY <1>1, <3>1, <3>2, <3>3, EndsHere
    <3> QED
      BY <3>4
  <2> QED
    BY <1>3, <1>4, <2>1 DEF ReadKind, TooFar
<1>5. CASE x.at \notin x.seen /\ Cardinality(x.seen) >= Hops
  <2>1. ASSUME Followed(x) PROVE Cardinality(Trail(x.from, K) \cap User) > Hops
    <3> DEFINE T == Trail(x.from, K) \cap User
    <3>1. S \subseteq T /\ T \subseteq User /\ IsFiniteSet(User)
      BY <1>1, <2>1 DEF Followed
    <3> HIDE DEF T
    <3>2. IsFiniteSet(T) /\ IsFiniteSet(x.seen) /\ Cardinality(T) \in Nat
          /\ Cardinality(x.seen) \in Nat
      BY <1>1, <3>1, FS_Subset, FS_CardinalityType
    <3>3. Cardinality(S) = Cardinality(x.seen) + 1 /\ Cardinality(S) <= Cardinality(T)
      BY <1>5, <3>1, <3>2, FS_AddElement, FS_Subset
    <3> QED
      BY <1>5, <3>2, <3>3 DEF T
  <2> QED
    BY <1>3, <1>5, <2>1 DEF ReadKind, TooFar
<1>6. CASE ~TooFar(x) /\ kind = "account"
  <2> DEFINE y == [x EXCEPT !.next = "found"]
  <2>1. /\ y \in Lookups /\ y.next = "found" /\ y.for = x.for /\ y.from = x.from /\ y.at = x.at
        /\ y.seen = x.seen /\ y.still = x.still /\ y.owner = x.owner
    BY <1>1 DEF Lookups
  <2>2. Lookup(w, y)
    BY <1>6 DEF ReadKind
  <2> HIDE DEF y
  <2>3. Kinds(y) = K
    BY <2>1 DEF Kinds
  <2>4. Steady(y)
    BY <1>1, <2>1 DEF Steady, Link
  <2>5. Followed(x) => Followed(y)
    BY <1>1, <1>6, <2>1, <2>3 DEF Followed, Link, Ends
  <2> QED
    BY <1>1, <1>2, <2>1, <2>2, <2>4, <2>5, LooksNext DEF LookOK
<1>7. CASE ~TooFar(x) /\ kind # "account" /\ kind \in K
  <2> DEFINE y == [x EXCEPT !.next = kind, !.seen = x.seen \cup {x.at}]
  <2>1. /\ y \in Lookups /\ y.next = kind /\ y.for = x.for /\ y.from = x.from /\ y.at = x.at
        /\ y.seen = S /\ y.still = x.still /\ y.owner = x.owner
    BY <1>1, <1>7 DEF Lookups
  <2>2. Lookup(w, y)
    BY <1>7 DEF ReadKind
  <2> HIDE DEF y
  <2>3. Kinds(y) = K
    BY <2>1 DEF Kinds
  <2>4. Steady(y)
    BY <1>1, <1>7, <2>1, <2>3 DEF Steady, Link
  <2>5. ASSUME Followed(x) PROVE Followed(y)
    <3>1. Is(x.at, K) /\ y.next \in Link /\ y.next = kind
      BY <1>1, <1>7, <2>1 DEF Is
    <3>2. \A v \in y.seen : v # x.at => v \in x.seen
      BY <2>1
    <3> QED
      BY <1>1, <2>1, <2>3, <2>5, <3>1, <3>2 DEF Followed, Link
  <2> QED
    BY <1>1, <1>2, <2>1, <2>2, <2>4, <2>5, LooksNext DEF LookOK
<1>8. CASE x.at \notin x.seen /\ ~TooFar(x) /\ kind # "account" /\ kind \notin K
  <2>1. ASSUME Followed(x) PROVE Meant(x.from, K) = {}
    <3>1. ~Is(x.at, K) /\ x.at \notin Ends
      BY <1>1, <1>8 DEF Is, Ends
    <3>2. \A v \in S : Is(v, K) => Target(v) \in S \cup {None}
      BY <1>1, <2>1, <3>1 DEF Followed, Link
    <3>3. x.from \in S /\ S \in SUBSET Address /\ \A v \in x.seen : Is(v, K)
      BY <1>1, <2>1 DEF Followed, Address
    <3> HIDE DEF K, S
    <3>4. x.seen \subseteq S
      BY DEF S
    <3>5. Meant(x.from, K) \subseteq S \ x.seen
      BY <1>1, <3>2, <3>3, <3>4, EndsHere
    <3> QED
      BY <3>1, <3>5 DEF Meant, S
  <2> QED
    BY <1>3, <1>8, <2>1 DEF ReadKind
<1>9. TooFar(x) <=> x.at \in x.seen \/ Cardinality(x.seen) >= Hops
  BY DEF TooFar
<1> QED
  BY <1>4, <1>5, <1>6, <1>7, <1>8, <1>9

\* The content of an alias or a proxy is read, which its kind was read to be.
LEMMA TargetOK ==
  ASSUME LooksOK, dir \in Dirs, NEW w \in {"smtp", "jmap"}, ReadTarget(w)
  PROVE  LooksOK'
<1> SUFFICES ASSUME NEW x, x = look[w] PROVE LooksOK'
  OBVIOUS
<1> DEFINE K  == Kinds(x)
           to == dir[x.at].to[x.next]
<1>1. /\ x \in Lookups /\ Steady(x) /\ x.next \in Link /\ dir' = dir
      /\ x.for # "none" /\ x.at \in User /\ x.at \in x.seen /\ x.next \in K
      /\ x.seen \in SUBSET User /\ K \in SUBSET Link /\ x.from \in User
      /\ x.owner \in User \cup {None}
  BY DEF LooksOK, LookOK, ReadTarget, Asking, Steady, Lookups, Kinds, Link
<1>2. x.still => Followed(x)
  BY <1>1 DEF LooksOK, LookOK
<1>3. to \in Address \cup {None} /\ (x.next = "alias" => to \in User \cup {None})
  BY <1>1, Pointers
<1>4. Followed(x) => Target(x.at) = to /\ Is(x.at, K)
  BY <1>1 DEF Followed, Target
<1>5. CASE to = None
  <2> DEFINE y == [x EXCEPT !.next = "refused"]
  <2>1. /\ y \in Lookups /\ y.next = "refused" /\ y.for = x.for /\ y.from = x.from /\ y.at = x.at
        /\ y.seen = x.seen /\ y.still = x.still /\ y.owner = x.owner
    BY <1>1 DEF Lookups
  <2>2. Lookup(w, y)
    BY <1>5 DEF ReadTarget
  <2> HIDE DEF y
  <2>3. Kinds(y) = K
    BY <2>1 DEF Kinds
  <2>4. Steady(y)
    BY <1>1, <2>1 DEF Steady, Link
  <2>5. ASSUME Followed(x) PROVE Followed(y)
    <3>1. \A v \in x.seen : Is(v, K) /\ Target(v) \in x.seen \cup {None}
      BY <1>1, <1>4, <1>5, <2>5 DEF Followed, Link
    <3>2. x.from \in x.seen /\ x.seen \in SUBSET Address
      BY <1>1, <2>5 DEF Followed, Address
    <3>3. Meant(x.from, K) = {}
      <4> HIDE DEF K
      <4>1. Meant(x.from, K) \subseteq x.seen \ x.seen
        BY <1>1, <3>1, <3>2, EndsHere
      <4> QED
        BY <4>1
    <3> QED
      BY <1>1, <2>1, <2>3, <2>5, <3>1, <3>3 DEF Followed, Link
  <2> QED
    BY <1>1, <1>2, <2>1, <2>2, <2>4, <2>5, LooksNext DEF LookOK
<1>6. CASE to # None
  <2> SUFFICES ASSUME NEW n, n = IF to \in Ext THEN "found" ELSE "kind",
                      NEW o, o = IF x.owner = None /\ x.next = "proxy" THEN x.at ELSE x.owner
               PROVE  LooksOK'
    OBVIOUS
  <2> DEFINE y == [x EXCEPT !.at = to, !.next = n, !.owner = o]
  <2>1. to \in Address /\ (n = "kind" => to \in User) /\ n \in {"found", "kind"}
        /\ o \in User \cup {None} /\ (to \in Ext => o \in User)
    <3>1. to \in Ext => x.next = "proxy"
      BY <1>1, <1>3 DEF Link, Address
    <3> QED
      BY <1>1, <1>3, <1>6, <3>1 DEF Address
  <2>2. Lookup(w, y)
    BY <1>6 DEF ReadTarget
  <2> HIDE DEF to
  <2>3. /\ y \in Lookups /\ y.next = n /\ y.for = x.for /\ y.from = x.from /\ y.at = to
        /\ y.seen = x.seen /\ y.still = x.still /\ y.owner = o
    <3>1. PICK y1 : y1 = [x EXCEPT !.at = to]
      OBVIOUS
    <3>2. /\ y1 \in Lookups /\ y1.for = x.for /\ y1.from = x.from /\ y1.at = to
          /\ y1.seen = x.seen /\ y1.still = x.still
      BY <1>1, <2>1, <3>1 DEF Lookups
    <3>3. PICK y2 : y2 = [y1 EXCEPT !.next = n]
      OBVIOUS
    <3>4. /\ y2 \in Lookups /\ y2.for = x.for /\ y2.from = x.from /\ y2.at = to
          /\ y2.next = n /\ y2.seen = x.seen /\ y2.still = x.still
      BY <2>1, <3>2, <3>3 DEF Lookups
    <3>5. y = [y2 EXCEPT !.owner = o]
      BY Zenon, <3>1, <3>3
    <3> HIDE DEF y
    <3> QED
      BY <2>1, <3>4, <3>5 DEF Lookups
  <2> HIDE DEF y
  <2>4. Kinds(y) = K
    BY <2>3 DEF Kinds
  <2>5. K # Link => to \in User
    BY <1>1, <1>3, <1>6 DEF Kinds, Link, to
  <2>6. Steady(y)
    BY <1>1, <2>1, <2>3, <2>4, <2>5 DEF Steady, Link
  <2>7. ASSUME Followed(x) PROVE Followed(y)
    <3>1. x.at \in Trail(x.from, K) /\ Target(x.at) = to /\ Is(x.at, K)
      BY <1>4, <2>7 DEF Followed, to
    <3>2. to \in Trail(x.from, K)
      <4> HIDE DEF K
      <4> QED
        BY <2>1, <3>1, TrailGoesOn
    <3>3. n = "found" => to \in Ends
      BY <2>1 DEF Ends, to
    <3>4. \A v \in x.seen : Target(v) \in x.seen \cup {to, None}
      BY <1>1, <2>7, <3>1 DEF Followed
    <3> QED
      BY <1>1, <2>1, <2>3, <2>4, <2>7, <3>2, <3>3, <3>4 DEF Followed, Link
  <2> QED
    BY <1>1, <1>2, <2>2, <2>3, <2>6, <2>7, LooksNext DEF LookOK
<1> QED
  BY <1>5, <1>6

\* What the administrator changes, no lookup is held to.
LEMMA RewireOK ==
  ASSUME LooksOK, Rewire
  PROVE  LooksOK'
<1>1. ASSUME NEW w \in {"smtp", "jmap"}
      PROVE  look'[w] \in Lookups /\ LookOK(look[w])'
  <2>1. look'[w] = Changed(look[w]) /\ look[w] \in Lookups /\ Steady(look[w])
    BY DEF Rewire, LooksOK, LookOK
  <2> DEFINE x == look[w]
             y == look'[w]
  <2>2. /\ y \in Lookups /\ y.next = x.next /\ y.for = x.for /\ y.from = x.from /\ y.at = x.at
        /\ y.seen = x.seen /\ y.owner = x.owner /\ (y.for # "none" => ~y.still)
    <3>1. CASE x.for = "none"
      <4>1. y = x
        BY <2>1, <3>1 DEF Changed
      <4> QED
        BY <2>1, <3>1, <4>1
    <3>2. CASE x.for # "none"
      <4>1. y = [x EXCEPT !.still = FALSE] /\ x \in Lookups
        BY <2>1, <3>2 DEF Changed
      <4> HIDE DEF x, y
      <4>2. PICK b : b \in BOOLEAN /\ b = FALSE
        OBVIOUS
      <4>3. y = [x EXCEPT !.still = b]
        BY Zenon, <4>1, <4>2
      <4>4. /\ y \in Lookups /\ y.next = x.next /\ y.for = x.for /\ y.from = x.from
            /\ y.at = x.at /\ y.seen = x.seen /\ y.owner = x.owner /\ y.still = b
        BY <4>1, <4>2, <4>3 DEF Lookups
      <4> QED
        BY Zenon, <4>2, <4>4
    <3> QED
      BY <3>1, <3>2
  <2>3. Kinds(y) = Kinds(x)
    BY <2>2 DEF Kinds
  <2>4. Steady(y)
    BY <2>1, <2>2, <2>3 DEF Steady
  <2> QED
    BY <2>2, <2>4 DEF LookOK, Steady
<1>2. look' = [w \in {"smtp", "jmap"} |-> look'[w]]
  BY DEF Rewire, LooksOK
<1> QED
  BY <1>1, <1>2 DEF LooksOK

-----------------------------------------------------------------------------
(***************************************************************************)
(* The inductive invariant.                                                *)
(***************************************************************************)

\* The transaction so far: the ends of its recipients are what it will serve.
Transaction ==
    /\ sess.asked = sess.recipients \cup sess.remote
    /\ sess.copied \subseteq sess.recipients
    /\ sess.left \subseteq sess.recipients
    /\ sess.pc = "local" => sess.recipients \ sess.left \subseteq sess.copied
    /\ sess.pc \in {"sent", "task", "ok"} => sess.recipients \subseteq sess.copied
    /\ sess.pc \in {"task", "ok"} /\ sess.user # None => sess.sent
    /\ sess.pc = "ok" => sess.queued = sess.remote

\* The task is the last of it, and is only answered after.
TaskWritten ==
    sess.queued # {} =>
        /\ sess.pc \in {"ok", "failed"} /\ sess.queued = sess.remote
        /\ sess.recipients \subseteq sess.copied
        /\ sess.user # None => sess.sent

\* The header counts all proxies but the one of a submission.
Counted == \A m \in out \cup {sess.mail} : m.passed <= m.hops + 1

\* Who is accepted, on record or in the results of the call, was served.
ServedBefore ==
    \A a \in Wanted : sub.call[a] = "accepted" \/ sub.record[a] = "accepted" => a \in sub.served

\* The session waits for its lookup, and takes no other command meanwhile.
Waiting ==
    /\ ~Free("smtp") => sess.pc \in {"idle", "mail"}
    /\ look["smtp"].for = "rcpt" => sess.pc = "mail"
    /\ look["smtp"].for = "auth" => sess.pc = "idle"

IInv == TypeOK /\ LooksOK /\ Waiting /\ Transaction /\ TaskWritten /\ Counted /\ ServedBefore

\* A session, field by field.
Sess(pc, user, recipients, remote, proxies, left, mail, asked, copied, sent, queued) ==
    [pc |-> pc, user |-> user, recipients |-> recipients, remote |-> remote,
     proxies |-> proxies, left |-> left, mail |-> mail, asked |-> asked,
     copied |-> copied, sent |-> sent, queued |-> queued]

LEMMA PlainMail == Plain \in Message /\ Plain.passed = 0 /\ Plain.hops = 0
  BY DEF Plain, Message

LEMMA FreshSession ==
  ASSUME NEW u \in User \cup {None}
  PROVE  /\ [Fresh EXCEPT !.user = u] = Sess("idle", u, {}, {}, {}, {}, Plain, {}, {}, FALSE, {})
         /\ [[Fresh EXCEPT !.user = u] EXCEPT !.pc = "mail"]
              = Sess("mail", u, {}, {}, {}, {}, Plain, {}, {}, FALSE, {})
         /\ Fresh = Sess("idle", None, {}, {}, {}, {}, Plain, {}, {}, FALSE, {})
<1>1. Fresh = Sess("idle", None, {}, {}, {}, {}, Plain, {}, {}, FALSE, {})
  BY DEF Fresh, Sess
<1>2. ASSUME NEW b, NEW z, z = Sess("idle", None, {}, {}, {}, {}, Plain, {}, {}, b, {})
      PROVE  [z EXCEPT !.user = u] = Sess("idle", u, {}, {}, {}, {}, Plain, {}, {}, b, {})
  BY SMTT(30), <1>2 DEF Sess
<1>3. ASSUME NEW b, NEW p, NEW z, z = Sess("idle", u, {}, {}, {}, {}, Plain, {}, {}, b, {})
      PROVE  [z EXCEPT !.pc = p] = Sess(p, u, {}, {}, {}, {}, Plain, {}, {}, b, {})
  BY SMTT(30), <1>3 DEF Sess
<1> QED
  BY Zenon, <1>1, <1>2, <1>3

\* A step of a lookup on its own.
LEMMA LookupStep ==
  ASSUME IInv, Asking, LooksOK', Waiting'
  PROVE  IInv'
<1>1. TypeOK'
  BY DEF IInv, Asking, TypeOK, LooksOK
<1>2. Transaction' /\ TaskWritten' /\ Counted' /\ ServedBefore'
  BY DEF IInv, Asking, Transaction, TaskWritten, Counted, ServedBefore
<1> QED
  BY <1>1, <1>2 DEF IInv

\* A command asks, which is where the session then waits.
LEMMA SessionAsks ==
  ASSUME IInv, NEW what \in {"auth", "mail", "rcpt"}, NEW name \in User,
         Ask("smtp", what, name), sess.pc \in {"idle", "mail"},
         what = "rcpt" => sess.pc = "mail", what = "auth" => sess.pc = "idle"
  PROVE  IInv'
<1>1. LooksOK' /\ Asking
  BY AskOK DEF IInv, Ask
<1>2. look'["smtp"].for = what
  BY DEF Ask, Lookup, IInv, LooksOK, NoLookup
<1>3. Waiting'
  BY <1>1, <1>2 DEF Waiting, Asking, Free
<1> QED
  BY <1>1, <1>3, LookupStep

\* A step of the session: what it asked is answered, or it waits for nothing.
Undisturbed ==
    /\ UNCHANGED <<dir, out, sub>>
    /\ \/ Lookup("smtp", NoLookup)
       \/ UNCHANGED look /\ (Free("smtp") \/ sess.pc \notin {"idle", "mail"})

LEMMA Undistracted ==
  ASSUME IInv, UNCHANGED dir,
         \/ Lookup("smtp", NoLookup)
         \/ UNCHANGED look /\ (Free("smtp") \/ sess.pc \notin {"idle", "mail"})
  PROVE  LooksOK' /\ Waiting'
<1>1. LooksOK'
  BY LooksAnswered DEF IInv
<1>2. look'["smtp"].for = "none"
  BY DEF IInv, LooksOK, Lookup, NoLookup, Waiting, Free
<1> QED
  BY <1>1, <1>2 DEF Waiting, Free

\* A session at the start of a transaction.
LEMMA CleanSession ==
  ASSUME IInv, Undisturbed, NEW u \in User \cup {None}, NEW step \in {"idle", "mail"},
         sess' = Sess(step, u, {}, {}, {}, {}, Plain, {}, {}, FALSE, {})
  PROVE  IInv'
<1>0. LooksOK' /\ Waiting'
  BY Undistracted DEF Undisturbed
<1>1. sess' \in Sessions
  BY PlainMail DEF Sessions, Sess
<1>2. /\ sess'.pc = step /\ sess'.asked = {} /\ sess'.recipients = {} /\ sess'.remote = {}
      /\ sess'.copied = {} /\ sess'.left = {} /\ sess'.queued = {} /\ sess'.proxies = {}
      /\ sess'.mail = Plain
  BY DEF Sess
<1>3. TypeOK'
  BY <1>0, <1>1, <1>2 DEF IInv, TypeOK, Undisturbed, LooksOK
<1>4. Transaction' /\ TaskWritten'
  BY <1>2 DEF Transaction, TaskWritten
<1>6. out' = out /\ sub' = sub
  BY DEF Undisturbed
<1>5. Counted' /\ ServedBefore'
  <2>1. Plain.passed <= Plain.hops + 1
    BY PlainMail
  <2>2. Counted'
    BY <1>2, <1>6, <2>1 DEF IInv, Counted
  <2> QED
    BY <1>6, <2>2 DEF IInv, ServedBefore
<1> QED
  BY <1>0, <1>3, <1>4, <1>5 DEF IInv

LEMMA SessionNext ==
  ASSUME IInv, Session
  PROVE  IInv'
<1> DEFINE s == sess
<1>0. /\ s \in Sessions /\ TypeOK /\ Transaction /\ TaskWritten /\ Counted /\ ServedBefore
      /\ dir \in Dirs /\ s.proxies \subseteq s.remote \X User
      /\ s.pc \in {"idle", "mail", "store", "local", "sent", "task", "ok", "failed"}
      /\ s.user \in User \cup {None} /\ s.recipients \in SUBSET User
      /\ s.remote \in SUBSET Ext /\ s.proxies \in SUBSET (Ext \X User)
      /\ s.left \in SUBSET User /\ s.mail \in Message /\ s.asked \in SUBSET Address
      /\ s.copied \in SUBSET User /\ s.sent \in BOOLEAN /\ s.queued \in SUBSET Ext
      /\ LooksOK /\ Waiting
  BY DEF IInv, TypeOK, Sessions
<1> HIDE DEF s
<1>1. s = sess
  BY DEF s
\* A step of the session on its own.
<1>2. ASSUME Undisturbed, sess' \in Sessions, sess'.proxies \subseteq sess'.remote \X User,
             Transaction', TaskWritten', sess'.mail.passed <= sess'.mail.hops + 1
      PROVE  IInv'
  <2>0. LooksOK' /\ Waiting'
    BY <1>2, Undistracted DEF Undisturbed
  <2>1. TypeOK'
    BY <1>0, <1>2, <2>0 DEF TypeOK, Undisturbed, LooksOK
  <2>2. Counted' /\ ServedBefore'
    BY <1>0, <1>2 DEF Counted, ServedBefore, Undisturbed
  <2> QED
    BY <1>2, <2>0, <2>1, <2>2 DEF IInv
<1>3. s.mail.passed <= s.mail.hops + 1
  BY <1>0, <1>1 DEF Counted
<1>4. ASSUME NEW u \in User, Auth(u) \/ MailFrom(u) \/ Rcpt(u) PROVE IInv'
  BY <1>4, SessionAsks DEF Auth, MailFrom, Rcpt
<1>16. CASE AuthEnds
  <2> DEFINE end == look["smtp"].at
  <2>1. end \in User
    BY <1>0, <1>16 DEF AuthEnds, Found, LooksOK, LookOK, Steady, Kinds, Link
  <2>2. s.pc = "idle" /\ Undisturbed
    BY <1>0, <1>1, <1>16 DEF AuthEnds, Found, Waiting, Answered, Undisturbed
  <2>3. sess' = Sess(s.pc, end, s.recipients, s.remote, s.proxies, s.left, s.mail,
                     s.asked, s.copied, s.sent, s.queued)
    BY <1>0, <1>1, <1>16 DEF AuthEnds, Sessions, Sess
  <2> HIDE DEF end
  <2>4. sess' \in Sessions
    BY <1>0, <2>1, <2>3 DEF Sessions, Sess
  <2>5. Transaction' /\ TaskWritten'
    BY <1>0, <1>1, <2>2, <2>3 DEF Transaction, TaskWritten, Sess
  <2> QED
    BY <1>0, <1>2, <1>3, <2>2, <2>3, <2>4, <2>5 DEF Sess
<1>5. CASE Mail \/ MailEnds
  <2>1. sess' = [[Fresh EXCEPT !.user = s.user] EXCEPT !.pc = "mail"] /\ Undisturbed
    BY <1>1, <1>5 DEF Mail, MailEnds, Cleared, Quiet, Answered, Undisturbed
  <2> QED
    BY <1>0, <2>1, FreshSession, CleanSession
<1>6. CASE Reset
  <2>1. sess' = [Fresh EXCEPT !.user = s.user] /\ Undisturbed
    BY <1>1, <1>6 DEF Reset, Cleared, Quiet, Undisturbed
  <2> QED
    BY <1>0, <2>1, FreshSession, CleanSession
<1>7. CASE Drop
  BY <1>7, FreshSession, CleanSession DEF Drop, Answered, Undisturbed
<1>17. CASE CommandFails
  <2>1. Undisturbed /\ sess' = sess
    BY <1>17 DEF CommandFails, Answered, Undisturbed
  <2>2. Transaction' /\ TaskWritten'
    BY <1>0, <2>1 DEF Transaction, TaskWritten
  <2> QED
    BY <1>0, <1>1, <1>2, <1>3, <2>1, <2>2
\* A recipient more, with the proxy that is told of failures.
<1>8. ASSUME NEW l \in SUBSET User, NEW f \in SUBSET Ext, NEW o \in SUBSET (f \X User),
             s.pc = "mail", Undisturbed,
             sess' = Sess(s.pc, s.user, s.recipients \cup l, s.remote \cup f, s.proxies \cup o,
                          s.left, s.mail, s.asked \cup (l \cup f), s.copied, s.sent, s.queued)
      PROVE  IInv'
  <2> DEFINE r == s.recipients \cup l
             m == s.remote \cup f
             x == s.proxies \cup o
             k == s.asked \cup (l \cup f)
  <2>1. /\ r \in SUBSET User /\ m \in SUBSET Ext /\ x \in SUBSET (Ext \X User)
        /\ x \subseteq m \X User /\ k \in SUBSET Address
    BY <1>0, <1>8 DEF Address
  <2>2. sess' = Sess(s.pc, s.user, r, m, x, s.left, s.mail, k, s.copied, s.sent, s.queued)
    BY <1>8
  <2>3. /\ k = r \cup m /\ s.copied \subseteq r /\ s.left \subseteq r /\ s.queued = {}
    BY <1>0, <1>1, <1>8 DEF Transaction, TaskWritten
  <2> HIDE DEF r, m, x, k
  <2>4. sess' \in Sessions
    BY <1>0, <2>1, <2>2 DEF Sessions, Sess
  <2>5. Transaction' /\ TaskWritten'
    BY <1>8, <2>2, <2>3 DEF Transaction, TaskWritten, Sess
  <2> QED
    BY <1>2, <1>3, <1>8, <2>1, <2>2, <2>4, <2>5 DEF Sess
<1>18. ASSUME NEW a \in Ext, RcptOutside(a) PROVE IInv'
  <2>1. sess' = Sess(s.pc, s.user, s.recipients \cup {}, s.remote \cup {a}, s.proxies \cup {},
                     s.left, s.mail, s.asked \cup ({} \cup {a}), s.copied, s.sent, s.queued)
    BY <1>0, <1>1, <1>18 DEF RcptOutside, Sessions, Sess
  <2>2. s.pc = "mail" /\ Undisturbed
    BY <1>1, <1>18 DEF RcptOutside, Quiet, Undisturbed
  <2>3. {} \in SUBSET User /\ {a} \in SUBSET Ext /\ {} \in SUBSET ({a} \X User)
    OBVIOUS
  <2> QED
    BY Zenon, <1>8, <2>1, <2>2, <2>3
<1>19. CASE RcptEnds
  <2> DEFINE end == look["smtp"].at
             o   == look["smtp"].owner
  <2>1. s.pc = "mail" /\ Undisturbed
    BY <1>0, <1>1, <1>19 DEF RcptEnds, Found, Waiting, Answered, Undisturbed
  <2>2. end \in Address /\ (end \in Ext => o \in User)
    BY <1>0, <1>19 DEF RcptEnds, Found, LooksOK, LookOK, Steady
  <2>3. CASE end \in User
    <3>1. sess' = Sess(s.pc, s.user, s.recipients \cup {end}, s.remote \cup {}, s.proxies \cup {},
                       s.left, s.mail, s.asked \cup ({end} \cup {}), s.copied, s.sent, s.queued)
      BY <1>0, <1>1, <1>19, <2>3 DEF RcptEnds, Sessions, Sess
    <3>2. {end} \in SUBSET User /\ {} \in SUBSET Ext /\ {} \in SUBSET ({} \X User)
      BY <2>3
    <3> HIDE DEF end
    <3> QED
      BY Zenon, <1>8, <2>1, <3>1, <3>2
  <2>4. CASE end \notin User
    <3>1. end \in Ext /\ o \in User
      BY <2>2, <2>4 DEF Address
    <3>2. sess' = Sess(s.pc, s.user, s.recipients \cup {}, s.remote \cup {end},
                       s.proxies \cup {<<end, o>>}, s.left, s.mail,
                       s.asked \cup ({} \cup {end}), s.copied, s.sent, s.queued)
      BY <1>0, <1>1, <1>19, <2>4 DEF RcptEnds, Sessions, Sess
    <3> HIDE DEF end, o
    <3>3. {} \in SUBSET User /\ {end} \in SUBSET Ext /\ {<<end, o>>} \in SUBSET ({end} \X User)
      BY <3>1
    <3> QED
      BY Zenon, <1>8, <2>1, <3>2, <3>3
  <2> QED
    BY <2>3, <2>4
<1>9. CASE Data
  <2>1. PICK m \in {Plain} \cup out :
           sess' = Sess("store", s.user, s.recipients, s.remote, s.proxies, s.left, m,
                        s.asked, s.copied, s.sent, s.queued)
    BY ZenonT(40), <1>0, <1>1, <1>9 DEF Data, Sessions, Sess
  <2>2. m \in Message /\ m.passed <= m.hops + 1
    BY <1>0, <2>1, PlainMail DEF Counted, TypeOK, Plain
  <2>3. s.pc = "mail" /\ Undisturbed
    BY <1>1, <1>9 DEF Data, Quiet, Undisturbed
  <2>4. sess' \in Sessions
    BY <1>0, <2>1, <2>2 DEF Sessions, Sess
  <2>5. Transaction' /\ TaskWritten'
    BY <1>0, <1>1, <2>1, <2>3 DEF Transaction, TaskWritten, Sess
  <2> QED
    BY <1>0, <1>2, <2>1, <2>2, <2>3, <2>4, <2>5 DEF Sess
<1>10. CASE Store
  <2>1. s.pc = "store" /\ Undisturbed
    BY <1>1, <1>10 DEF Store, Quiet, Undisturbed
  <2>2. PICK step \in {"local", "failed"}, l \in {s.recipients, s.left}, m \in {s.mail, Forwarded(s.mail)} :
           /\ sess' = Sess(step, s.user, s.recipients, s.remote, s.proxies, l, m,
                           s.asked, s.copied, s.sent, s.queued)
           /\ step = "local" => l = s.recipients
           /\ m # s.mail => s.mail.hops < HopLimit
    <3>1. CASE s.proxies = {}
      <4>1. sess' = Sess("local", s.user, s.recipients, s.remote, s.proxies, s.recipients, s.mail,
                         s.asked, s.copied, s.sent, s.queued)
        BY <1>0, <1>1, <1>10, <3>1 DEF Store, Sessions, Sess
      <4> QED
        BY <4>1
    <3>2. CASE s.proxies # {} /\ HopsLeft
      <4>1. sess' = Sess("local", s.user, s.recipients, s.remote, s.proxies, s.recipients,
                         Forwarded(s.mail), s.asked, s.copied, s.sent, s.queued)
        BY <1>0, <1>1, <1>10, <3>2 DEF Store, Sessions, Sess
      <4> QED
        BY <1>1, <3>2, <4>1 DEF HopsLeft
    <3>3. CASE s.proxies # {} /\ ~HopsLeft
      <4>1. sess' = Sess("failed", s.user, s.recipients, s.remote, s.proxies, s.left, s.mail,
                         s.asked, s.copied, s.sent, s.queued)
        BY <1>0, <1>1, <1>10, <3>3 DEF Store, Sessions, Sess
      <4> QED
        BY <4>1
    <3> QED
      BY <3>1, <3>2, <3>3
  <2>3. m \in Message /\ m.passed <= m.hops + 1
    BY <1>0, <1>3, <2>2 DEF Forwarded, Message
  <2>4. sess' \in Sessions
    BY <1>0, <2>2, <2>3 DEF Sessions, Sess
  <2>5. Transaction' /\ TaskWritten'
    BY <1>0, <1>1, <2>1, <2>2 DEF Transaction, TaskWritten, Sess
  <2> QED
    BY <1>0, <1>2, <2>1, <2>2, <2>3, <2>4, <2>5 DEF Sess
<1>11. CASE Deliver
  <2>1. PICK a \in s.left, step \in {"local", "failed"} :
           sess' = Sess(step, s.user, s.recipients, s.remote, s.proxies, s.left \ {a}, s.mail,
                        s.asked, s.copied \cup {a}, s.sent, s.queued)
    <3>1. PICK a \in s.left, step \in {"local", "failed"} :
             sess' = [s EXCEPT !.pc = step, !.left = @ \ {a}, !.copied = @ \cup {a}]
      BY <1>1, <1>11 DEF Deliver
    <3>2. sess' = Sess(step, s.user, s.recipients, s.remote, s.proxies, s.left \ {a}, s.mail,
                       s.asked, s.copied \cup {a}, s.sent, s.queued)
      BY <1>0, <3>1 DEF Sessions, Sess
    <3> QED
      BY <3>2
  <2>2. s.pc = "local" /\ Undisturbed
    BY <1>1, <1>11 DEF Deliver, Quiet, Undisturbed
  <2>3. sess' \in Sessions
    BY <1>0, <2>1 DEF Sessions, Sess
  <2>4. Transaction' /\ TaskWritten'
    BY <1>0, <1>1, <2>1, <2>2 DEF Transaction, TaskWritten, Sess
  <2> QED
    BY <1>0, <1>2, <1>3, <2>1, <2>2, <2>3, <2>4 DEF Sess
<1>12. CASE LocalEnds
  <2>1. /\ sess' = Sess("sent", s.user, s.recipients, s.remote, s.proxies, {}, s.mail,
                        s.asked, s.copied, s.sent, s.queued)
        /\ s.pc = "local" /\ s.left = {} /\ Undisturbed
    BY <1>0, <1>1, <1>12 DEF LocalEnds, LocalDone, Quiet, Undisturbed, Sessions, Sess
  <2>2. sess' \in Sessions
    BY <1>0, <2>1 DEF Sessions, Sess
  <2>3. Transaction' /\ TaskWritten'
    BY <1>0, <1>1, <2>1 DEF Transaction, TaskWritten, Sess
  <2> QED
    BY <1>0, <1>2, <1>3, <2>1, <2>2, <2>3 DEF Sess
<1>13. CASE DataFails
  <2>1. /\ sess' = Sess("failed", s.user, s.recipients, s.remote, s.proxies, {}, s.mail,
                        s.asked, s.copied, s.sent, s.queued)
        /\ s.pc \in {"store", "local", "sent", "task"} /\ Undisturbed
    BY <1>0, <1>1, <1>13 DEF DataFails, Quiet, Undisturbed, Sessions, Sess
  <2>2. sess' \in Sessions
    BY <1>0, <2>1 DEF Sessions, Sess
  <2>3. Transaction' /\ TaskWritten'
    BY <1>0, <1>1, <2>1 DEF Transaction, TaskWritten, Sess
  <2> QED
    BY <1>0, <1>2, <1>3, <2>1, <2>2, <2>3 DEF Sess
<1>14. CASE Archive
  <2> DEFINE d == s.user # None
  <2>1. PICK step \in {"task", "failed"} :
           sess' = Sess(step, s.user, s.recipients, s.remote, s.proxies, s.left, s.mail,
                        s.asked, s.copied, d, s.queued)
    <3>1. PICK step \in {"task", "failed"} : sess' = [s EXCEPT !.pc = step, !.sent = d]
      BY <1>1, <1>14 DEF Archive
    <3>2. PICK t : t = [s EXCEPT !.pc = step]
      OBVIOUS
    <3>3. t = Sess(step, s.user, s.recipients, s.remote, s.proxies, s.left, s.mail,
                   s.asked, s.copied, s.sent, s.queued)
      BY <1>0, <3>2 DEF Sessions, Sess
    <3>4. sess' = [t EXCEPT !.sent = d]
      BY Zenon, <3>1, <3>2
    <3> HIDE DEF d
    <3>5. sess' = Sess(step, s.user, s.recipients, s.remote, s.proxies, s.left, s.mail,
                       s.asked, s.copied, d, s.queued)
      BY SMTT(30), <3>3, <3>4 DEF Sess
    <3> QED
      BY <3>5
  <2>2. s.pc = "sent" /\ Undisturbed /\ d \in BOOLEAN /\ (s.user # None => d)
    BY <1>1, <1>14 DEF Archive, Quiet, Undisturbed
  <2> HIDE DEF d
  <2>3. sess' \in Sessions
    BY <1>0, <2>1, <2>2 DEF Sessions, Sess
  <2>4. s.queued = {}
    BY <1>0, <1>1, <2>2 DEF TaskWritten
  <2>5. Transaction' /\ TaskWritten'
    BY <1>0, <1>1, <2>1, <2>2, <2>4 DEF Transaction, TaskWritten, Sess
  <2> QED
    BY <1>0, <1>2, <1>3, <2>1, <2>2, <2>3, <2>5 DEF Sess
<1>15. CASE Enqueue
  <2>0. s.pc = "task" /\ UNCHANGED <<dir, look, sub>>
    BY <1>1, <1>15 DEF Enqueue
  <2>1. CASE s.remote = {} /\ sess' = [s EXCEPT !.pc = "ok"] /\ UNCHANGED out
    <3>1. /\ sess' = Sess("ok", s.user, s.recipients, s.remote, s.proxies, s.left, s.mail,
                          s.asked, s.copied, s.sent, s.queued)
          /\ Undisturbed
      BY <1>0, <1>1, <2>0, <2>1 DEF Undisturbed, Sessions, Sess
    <3>2. sess' \in Sessions
      BY <1>0, <3>1 DEF Sessions, Sess
    <3>3. Transaction' /\ TaskWritten'
      BY <1>0, <1>1, <2>0, <2>1, <3>1 DEF Transaction, TaskWritten, Sess
    <3> QED
      BY <1>0, <1>2, <1>3, <3>1, <3>2, <3>3 DEF Sess
  <2>2. CASE /\ Leaves(s.mail)
             /\ \E pc \in {"ok", "failed"} :
                    sess' = [s EXCEPT !.pc = pc, !.queued = s.remote]
    <3>1. PICK step \in {"ok", "failed"} :
             sess' = Sess(step, s.user, s.recipients, s.remote, s.proxies, s.left, s.mail,
                          s.asked, s.copied, s.sent, s.remote)
      BY <1>0, <2>2 DEF Sessions, Sess
    <3>2. out' \subseteq out \cup {s.mail}
      BY <2>2 DEF Leaves
    <3>3. sess' \in Sessions
      BY <1>0, <3>1 DEF Sessions, Sess
    <3>4. LooksOK' /\ Waiting'
      BY <1>1, <2>0, Undistracted
    <3>5. TypeOK'
      BY <1>0, <2>0, <3>1, <3>2, <3>3, <3>4 DEF TypeOK, Sess, LooksOK
    <3>6. Transaction' /\ TaskWritten'
      BY <1>0, <1>1, <2>0, <3>1 DEF Transaction, TaskWritten, Sess
    <3>7. Counted' /\ ServedBefore'
      BY <1>0, <1>1, <2>0, <3>1, <3>2 DEF Counted, ServedBefore, Sess
    <3> QED
      BY <3>4, <3>5, <3>6, <3>7 DEF IInv
  <2> QED
    BY <1>1, <1>15, <2>1, <2>2 DEF Enqueue
<1> QED
  BY <1>4, <1>5, <1>6, <1>7, <1>9, <1>10, <1>11, <1>12, <1>13, <1>14, <1>15, <1>16, <1>17,
     <1>18, <1>19 DEF Session

LEMMA SubmissionNext ==
  ASSUME IInv, Submission
  PROVE  IInv'
<1> DEFINE Subs == [pc : {"idle", "run"}, left : SUBSET Wanted, call : [Wanted -> Results],
                    record : [Wanted -> Results], served : SUBSET Wanted]
           s == sub
<1>0. /\ s \in Subs /\ TypeOK /\ Transaction /\ TaskWritten /\ Counted /\ ServedBefore
      /\ s.pc \in {"idle", "run"} /\ s.left \in SUBSET Wanted /\ s.call \in [Wanted -> Results]
      /\ s.record \in [Wanted -> Results] /\ s.served \in SUBSET Wanted
      /\ dir \in Dirs /\ LooksOK /\ Waiting
  BY DEF IInv, TypeOK
<1>1. s = sub
  OBVIOUS
<1> HIDE DEF s
<1> DEFINE Sub(p, l, c, r, v) == [pc |-> p, left |-> l, call |-> c, record |-> r, served |-> v]
<1>2. ASSUME NEW p \in {"idle", "run"}, NEW l \in SUBSET Wanted, NEW c \in [Wanted -> Results],
             NEW r \in [Wanted -> Results], NEW v \in SUBSET Wanted, sub' = Sub(p, l, c, r, v),
             \A a \in Wanted : c[a] = "accepted" \/ r[a] = "accepted" => a \in v,
             out' \subseteq Message, \A m \in out' : m.passed <= m.hops + 1, Calm,
             UNCHANGED look \/ Answer
      PROVE  IInv'
  <2>0. LooksOK'
    BY <1>0, <1>2, LooksAnswered DEF Calm, Answer
  <2>1. sub' \in Subs
    BY <1>2
  <2>2. TypeOK'
    BY <1>0, <1>2, <2>0, <2>1 DEF TypeOK, Calm, LooksOK
  <2>3. Transaction' /\ TaskWritten'
    BY <1>0, <1>2 DEF Transaction, TaskWritten, Calm
  <2>4. Counted' /\ ServedBefore'
    BY <1>0, <1>2 DEF Counted, ServedBefore, Calm
  <2>5. look'["smtp"] = look["smtp"]
    BY <1>0, <1>2 DEF Answer, Lookup, LooksOK
  <2>6. Waiting'
    BY <1>0, <1>2, <2>5 DEF Waiting, Calm, Free
  <2> QED
    BY <2>0, <2>2, <2>3, <2>4, <2>6 DEF IInv
<1>3. /\ \A a \in Wanted : s.call[a] = "accepted" \/ s.record[a] = "accepted" => a \in s.served
      /\ out \subseteq Message /\ \A m \in out : m.passed <= m.hops + 1
      /\ NoResults \in [Wanted -> Results] /\ \A a \in Wanted : NoResults[a] # "accepted"
  BY <1>0, <1>1 DEF ServedBefore, TypeOK, Counted, NoResults, Results
<1>4. CASE Submit
  <2>1. PICK l \in SUBSET Wanted : sub' = Sub("run", l, s.call, s.record, s.served)
    BY <1>0, <1>1, <1>4 DEF Submit
  <2>2. Calm /\ out' = out /\ look' = look
    BY <1>4 DEF Submit
  <2> HIDE DEF Sub
  <2> QED
    BY <1>0, <1>2, <1>3, <2>1, <2>2
<1>5. CASE SubmitLost
  <2>1. sub' = Sub("idle", {}, NoResults, s.record, s.served)
    BY <1>0, <1>1, <1>5 DEF SubmitLost
  <2>2. Calm /\ out' = out /\ Answer
    BY <1>5 DEF SubmitLost
  <2> HIDE DEF Sub
  <2> QED
    BY <1>0, <1>2, <1>3, <2>1, <2>2
<1>6. CASE SubmitEnds
  <2> DEFINE r == [a \in Wanted |-> Outcome(a)]
  <2>1. sub' = Sub("idle", {}, NoResults, r, s.served)
    BY <1>0, <1>1, <1>6 DEF SubmitEnds
  <2>2. \A a \in Wanted : r[a] \in {s.record[a], s.call[a]}
    BY <1>1 DEF Outcome
  <2>3. r \in [Wanted -> Results]
    BY <1>0, <2>2
  <2>4. \A a \in Wanted : r[a] = "accepted" => a \in s.served
    BY <1>3, <2>2
  <2>5. Calm /\ out' = out /\ look' = look
    BY <1>6 DEF SubmitEnds
  <2> HIDE DEF Sub, r
  <2> QED
    BY <1>0, <1>2, <1>3, <2>1, <2>3, <2>4, <2>5
\* A recipient has its result, and is served if it is accepted.
<1>7. ASSUME NEW a \in Wanted, NEW res \in Results, NEW v \in SUBSET Wanted,
             sub' = Sub(s.pc, s.left \ {a}, [s.call EXCEPT ![a] = res], s.record, v),
             s.served \subseteq v, res = "accepted" => a \in v, Calm, Answer,
             out' \subseteq Message, \A m \in out' : m.passed <= m.hops + 1
      PROVE  IInv'
  <2> DEFINE c == [s.call EXCEPT ![a] = res]
  <2>1. c \in [Wanted -> Results] /\ \A b \in Wanted : c[b] = IF b = a THEN res ELSE s.call[b]
    BY <1>0
  <2>2. \A b \in Wanted : c[b] = "accepted" \/ s.record[b] = "accepted" => b \in v
    BY <1>3, <1>7, <2>1
  <2>3. sub' = Sub(s.pc, s.left \ {a}, c, s.record, v) /\ s.left \ {a} \in SUBSET Wanted
    BY <1>0, <1>7
  <2> HIDE DEF Sub, c
  <2> QED
    BY <1>0, <1>2, <1>7, <2>1, <2>2, <2>3
<1>8. ASSUME NEW a \in Wanted, NEW res \in {"failed", "rejected"}, sub' = Result(a, res),
             UNCHANGED out, Calm, Answer
      PROVE  IInv'
  <2>1. sub' = Sub(s.pc, s.left \ {a}, [s.call EXCEPT ![a] = res], s.record, s.served)
    BY <1>0, <1>1, <1>8 DEF Result
  <2>2. res \in Results /\ res # "accepted"
    BY DEF Results
  <2> HIDE DEF Sub
  <2> QED
    BY <1>0, <1>3, <1>7, <1>8, <2>1, <2>2
<1>9. ASSUME NEW a \in Wanted, NEW end \in Address, SubmitOne(a, end) PROVE IInv'
  <2>1. ASSUME sub' = Served(a), Calm, Answer, UNCHANGED out \/ Leaves(Direct(a))
        PROVE  IInv'
    <3>1. sub' = Sub(s.pc, s.left \ {a}, [s.call EXCEPT ![a] = "accepted"], s.record,
                     s.served \cup {a})
      BY <1>0, <1>1, <2>1 DEF Served, Result
    <3>2. Direct(a) \in Message /\ Direct(a).passed <= Direct(a).hops + 1
      BY DEF Direct, Plain, Message
    <3>3. out' \subseteq Message /\ \A m \in out' : m.passed <= m.hops + 1
      BY <1>3, <2>1, <3>2 DEF Leaves
    <3>4. /\ "accepted" \in Results /\ s.served \cup {a} \in SUBSET Wanted
          /\ s.served \subseteq s.served \cup {a} /\ a \in s.served \cup {a}
      BY <1>0 DEF Results
    <3> HIDE DEF Sub
    <3>5. PICK res, v : res = "accepted" /\ v = s.served \cup {a}
      OBVIOUS
    <3> QED
      BY <1>7, <2>1, <3>1, <3>3, <3>4, <3>5
  <2>2. /\ Calm /\ Answer
        /\ \/ sub' = Served(a) /\ (UNCHANGED out \/ Leaves(Direct(a)))
           \/ \E res \in {"failed", "rejected"} : sub' = Result(a, res) /\ UNCHANGED out
    BY <1>9 DEF SubmitOne
  <2> QED
    BY <1>8, <2>1, <2>2
<1>10. ASSUME NEW a \in Wanted, SubmitRejects(a) PROVE IInv'
  BY <1>8, <1>10 DEF SubmitRejects
<1>11. ASSUME NEW a \in Wanted, SubmitAsk(a) PROVE IInv'
  <2>1. Ask("jmap", "submit", a) /\ a \in User
    BY <1>0, <1>11 DEF SubmitAsk
  <2>2. LooksOK' /\ Asking
    BY <1>0, <2>1, AskOK DEF Ask
  <2>3. look'["smtp"] = look["smtp"]
    BY <1>0, <2>1 DEF Ask, Lookup, LooksOK
  <2>4. Waiting'
    BY <1>0, <2>2, <2>3 DEF Waiting, Asking, Free
  <2> QED
    BY <2>2, <2>4, LookupStep
<1> QED
  BY <1>4, <1>5, <1>6, <1>9, <1>10, <1>11 DEF Submission

LEMMA InitIInv ==
  ASSUME Init
  PROVE  IInv
<1>1. sess = Sess("idle", None, {}, {}, {}, {}, Plain, {}, {}, FALSE, {})
  BY FreshSession DEF Init
<1>2. sess \in Sessions /\ sess.proxies = {} /\ sess.mail = Plain
  BY <1>1, PlainMail DEF Sess, Sessions
<1>3. NoResults \in [Wanted -> Results] /\ \A a \in Wanted : NoResults[a] # "accepted"
  BY DEF NoResults, Results
<1>7. LooksOK
  BY NoLookupOK DEF Init, LooksOK
<1>8. look["smtp"].for = "none"
  BY DEF Init, NoLookup
<1>9. Waiting
  BY <1>8 DEF Waiting, Free
<1>4. TypeOK
  BY <1>2, <1>3, <1>7 DEF Init, TypeOK, Unsent, LooksOK
<1>5. Transaction /\ TaskWritten
  BY <1>1 DEF Transaction, TaskWritten, Sess
<1>6. Counted /\ ServedBefore
  BY <1>2, <1>3, PlainMail DEF Init, Counted, ServedBefore, Unsent
<1> QED
  BY <1>4, <1>5, <1>6, <1>7, <1>9 DEF IInv

LEMMA NextIInv ==
  ASSUME IInv, [Next]_vars
  PROVE  IInv'
<1>1. CASE Rewire
  <2>1. LooksOK' /\ dir' \in Dirs
    BY <1>1, RewireOK DEF IInv, Rewire
  <2>2. look'["smtp"].for = look["smtp"].for
    BY <1>1 DEF IInv, LooksOK, Rewire, Changed, Lookups
  <2>3. Waiting'
    BY <1>1, <2>2 DEF IInv, Waiting, Rewire, Free
  <2>4. TypeOK'
    BY <1>1, <2>1 DEF IInv, TypeOK, Rewire, LooksOK
  <2>5. Transaction' /\ TaskWritten' /\ Counted' /\ ServedBefore'
    BY <1>1 DEF IInv, Rewire, Transaction, TaskWritten, Counted, ServedBefore
  <2> QED
    BY <2>1, <2>3, <2>4, <2>5 DEF IInv
<1>2. ASSUME NEW w \in {"smtp", "jmap"}, ReadKind(w) \/ ReadTarget(w) PROVE IInv'
  <2>1. LooksOK' /\ Asking
    BY <1>2, KindOK, TargetOK DEF IInv, TypeOK, ReadKind, ReadTarget
  <2>2. look'["smtp"].for = look["smtp"].for
    <3>1. ASSUME NEW y, Lookup(w, y), y.for = look[w].for
          PROVE  look'["smtp"].for = look["smtp"].for
      BY <3>1 DEF IInv, LooksOK, Lookup
    <3>2. look[w] \in Lookups
      BY DEF IInv, LooksOK
    <3>3. CASE ReadKind(w)
      BY <3>1, <3>2, <3>3 DEF ReadKind, Lookups
    <3>4. CASE ReadTarget(w)
      BY <3>1, <3>2, <3>4 DEF ReadTarget, Lookups
    <3> QED
      BY <1>2, <3>3, <3>4
  <2>3. Waiting'
    BY <2>1, <2>2 DEF IInv, Waiting, Asking, Free
  <2> QED
    BY <2>1, <2>3, LookupStep
<1>3. CASE UNCHANGED vars
  <2>1. LooksOK' /\ Asking
    BY <1>3, LooksSame DEF vars, IInv, Asking
  <2>2. Waiting'
    BY <1>3 DEF vars, IInv, Waiting, Free
  <2> QED
    BY <2>1, <2>2, LookupStep
<1> QED
  BY <1>1, <1>2, <1>3, SessionNext, SubmissionNext DEF Next, Reads

-----------------------------------------------------------------------------
(***************************************************************************)
(* The theorems.                                                           *)
(***************************************************************************)

LEMMA Invariance == Spec => []IInv
  BY InitIInv, NextIInv, PTL DEF Spec

\* The session, the messages outside and the submission keep their shapes: in
\* particular no message passes the hop limit of its header, and a proxy is
\* only kept with its outside address.
THEOREM TypeCorrectness == Spec => []TypeOK
<1>1. IInv => TypeOK
  BY DEF IInv
<1> QED
  BY <1>1, Invariance, PTL

\* Whatever the directory, and however many names it has: a lookup that is not
\* disturbed by a rewrite is followed to the end that the entries mean, and is
\* refused only if they mean none or the chain is longer than 16 names.
THEOREM RoutesMeant == Spec => []RouteRight
<1>1. ASSUME IInv PROVE RouteRight
  <2>1. SUFFICES ASSUME NEW w \in {"smtp", "jmap"}, look[w].still, look[w].next \in {"found", "refused"}
                 PROVE  /\ look[w].next = "found" => Meant(look[w].from, Kinds(look[w])) = {look[w].at}
                        /\ look[w].next = "refused" =>
                             \/ Meant(look[w].from, Kinds(look[w])) = {}
                             \/ Cardinality(Trail(look[w].from, Kinds(look[w])) \cap User) > Hops
    BY DEF RouteRight
  <2>2. look[w] \in Lookups /\ Steady(look[w]) /\ Followed(look[w])
    BY <1>1, <2>1 DEF IInv, LooksOK, LookOK, Steady
  <2>3. look[w].next = "found" => Meant(look[w].from, Kinds(look[w])) = {look[w].at}
    BY <2>2, FoundMeant
  <2> QED
    BY <2>2, <2>3 DEF Followed
<1> QED
  BY <1>1, Invariance, PTL

\* "250" to DATA means that every accepted recipient has been served, at the end
\* that its lookup found read by read, and no one of an earlier transaction.
THEOREM AcceptedComplete == Spec => []AcceptedWhole
<1>1. IInv => AcceptedWhole
  BY DEF IInv, AcceptedWhole, Transaction, TaskWritten
<1> QED
  BY <1>1, Invariance, PTL

\* A transaction that leaves a task has left all its local copies before.
THEOREM TaskAfterCopies == Spec => []TaskLast
<1>1. ASSUME IInv PROVE TaskLast
  <2>1. sess.asked = sess.recipients \cup sess.remote /\ sess.remote \cap User = {}
    BY <1>1 DEF IInv, Transaction, TypeOK, Sessions
  <2> QED
    BY <1>1, <2>1 DEF IInv, TaskWritten, TaskLast
<1> QED
  BY <1>1, Invariance, PTL

\* Whatever comes back however often, no message passes our proxies more than
\* the header's limit and the one hop of a submission allow.
THEOREM ForwardingBounded == Spec => []ForwardingEnds
<1>1. IInv => ForwardingEnds
  BY DEF IInv, TypeOK, Counted, ForwardingEnds, Message
<1> QED
  BY <1>1, Invariance, PTL

\* A recorded acceptance is never a promise: the recipient has been served.
THEOREM SubmissionServes == Spec => []AcceptedServed
<1>1. IInv => AcceptedServed
  BY DEF IInv, ServedBefore, AcceptedServed
<1> QED
  BY <1>1, Invariance, PTL
=============================================================================
