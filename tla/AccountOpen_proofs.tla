------------------------- MODULE AccountOpen_proofs -------------------------
(***************************************************************************)
(* Proofs about AccountOpen, for any nodes, calls, folders and histories:  *)
(* one opening at a time on a node, the published image is complete unless *)
(* a repeated PUT misled its publisher, and all nodes have that one.       *)
(***************************************************************************)
EXTENDS AccountOpen, FiniteSetTheorems, WellFoundedInduction, TLAPS

USE OpenAssumption, ValuesAssumption

-----------------------------------------------------------------------------
(***************************************************************************)
(* The maximum of a finite set: the least finite set without one would     *)
(* have one after all.                                                     *)
(***************************************************************************)
LEMMA MaxExists ==
  ASSUME NEW S, IsFiniteSet(S), S # {}, S \subseteq Nat
  PROVE  Max(S) \in S /\ \A x \in S : x <= Max(S)
<1> DEFINE HasMax(U) == \E m \in U : \A x \in U : x <= m
           Bad == {U \in FiniteSubsetsOf(S) : U # {} /\ ~HasMax(U)}
<1>1. Bad = {}
  <2> SUFFICES ASSUME Bad # {} PROVE FALSE
    OBVIOUS
  <2>1. PICK U \in Bad : \A V \in Bad : <<V, U>> \notin StrictSubsetOrdering(S)
    BY FS_StrictSubsetOrderingWellFounded, WFMin
  <2>2. U \in SUBSET S /\ IsFiniteSet(U) /\ U # {} /\ ~HasMax(U)
    BY DEF FiniteSubsetsOf
  <2>3. PICK u \in U : TRUE
    BY <2>2
  <2> DEFINE V == U \ {u}
  <2>4. V \in FiniteSubsetsOf(S) /\ <<V, U>> \in StrictSubsetOrdering(S)
    BY <2>2, FS_RemoveElement DEF FiniteSubsetsOf, StrictSubsetOrdering
  <2>5. V = {} \/ HasMax(V)
    BY <2>1, <2>4
  <2>6. CASE V = {}
    BY <2>2, <2>6
  <2>7. CASE HasMax(V)
    <3>1. PICK m \in V : \A x \in V : x <= m
      BY <2>7
    <3>2. u \in Nat /\ m \in Nat /\ m \in U /\ \A x \in U : x \in Nat /\ (x = u \/ x <= m)
      BY <2>2, <3>1
    <3>3. HasMax(U)
      <4>1. CASE u <= m
        BY <3>2, <4>1
      <4>2. CASE m <= u
        BY <3>2, <4>2
      <4> QED
        BY <3>2, <4>1, <4>2
    <3> QED
      BY <2>2, <3>3
  <2> QED
    BY <2>5, <2>6, <2>7
<1>2. HasMax(S)
  BY <1>1 DEF FiniteSubsetsOf
<1>3. PICK m \in S : \A x \in S : x <= m
  BY <1>2
<1>4. \A x \in S : m >= x
  BY <1>3
<1> QED
  BY <1>4 DEF Max

-----------------------------------------------------------------------------
(***************************************************************************)
(* The inductive invariant.                                                *)
(***************************************************************************)

\* What has been imported of a folder is all that there was.
Kept(image, b) ==
    /\ image.uids[b] = legacy[b].uids
    /\ legacy[b].counter <= image.next[b]
    /\ \A u \in image.uids[b] : u < image.next[b]

Whole(image) == image.box = Folders /\ \A b \in Folders : Kept(image, b)

\* What an opener may publish.
Fit(image) == Whole(image) \/ (misled /\ image.box = {})

\* Of a call: its result is the published image; its own image is right as far
\* as it goes; it misses the file only if it was misled; it waits for an opening.
CallOK(c) ==
    /\ call[c].got \notin {None, Failed} => call[c].got = file
    /\ call[c].pc = "import"  => /\ call[c].built \in Image
                                 /\ call[c].built.box \subseteq Folders
                                 /\ \A b \in call[c].built.box : Kept(call[c].built, b)
    /\ call[c].pc = "publish" => call[c].built \in Image /\ Whole(call[c].built)
    /\ call[c].pc = "load"    => file # None \/ misled
    /\ call[c].pc = "create"  => misled
    /\ call[c].pc = "wait"    => call[c].on \in Opening(At[c])

NodeOK(n) ==
    /\ ready[n] # None => ready[n] = file /\ Opening(n) = {}
    /\ \A c, d \in Opening(n) : c = d

StoreOK == (file # None => Fit(file)) /\ \A image \in late : Fit(image)

IInv ==
    /\ TypeOK /\ StoreOK
    /\ \A c \in Call : CallOK(c)
    /\ \A n \in Node : NodeOK(n)

LEMMA NextUidBounds ==
  ASSUME TypeOK, NEW b \in Box
  PROVE  /\ NextUid(b) \in 0 .. MaxUid + 1 /\ legacy[b].counter <= NextUid(b)
         /\ legacy[b].uids \in SUBSET (1 .. MaxUid)
         /\ \A u \in legacy[b].uids : u < NextUid(b)
<1>1. /\ legacy[b].uids \in SUBSET (1 .. MaxUid)
      /\ legacy[b].counter \in 0 .. MaxUid + 1
  BY DEF TypeOK, Old
<1> DEFINE S == {1, legacy[b].counter} \cup {u + 1 : u \in legacy[b].uids}
<1>2. S \subseteq 0 .. MaxUid + 1
  BY <1>1
<1>3. S # {} /\ S \subseteq Nat
  BY <1>2
<1> HIDE DEF S
<1>4. IsFiniteSet(S)
  <2>1. 0 \in Int /\ MaxUid + 1 \in Int
    OBVIOUS
  <2>2. IsFiniteSet(0 .. MaxUid + 1)
    BY <2>1, FS_Interval
  <2> QED
    BY <1>2, <2>2, FS_Subset
<1>5. Max(S) \in S /\ \A x \in S : x <= Max(S)
  BY <1>3, <1>4, MaxExists
<1>6. NextUid(b) = Max(S)
  BY DEF NextUid, S
<1> HIDE DEF NextUid
<1>7. NextUid(b) \in 0 .. MaxUid + 1 /\ \A x \in S : x <= NextUid(b)
  BY <1>2, <1>5, <1>6
<1>8. legacy[b].counter \in S /\ \A u \in legacy[b].uids : u \in Nat /\ u + 1 \in S
  BY <1>1 DEF S
<1>9. \A u \in legacy[b].uids : u \in Nat /\ u + 1 <= NextUid(b)
  BY <1>7, <1>8
<1> QED
  BY <1>1, <1>7, <1>8, <1>9

LEMMA ImportKeeps ==
  ASSUME TypeOK, NEW image \in Image, NEW b \in Box
  PROVE  /\ Imported(image, b) \in Image
         /\ Imported(image, b).box = image.box \cup {b}
         /\ Kept(Imported(image, b), b)
         /\ \A d \in Box : Kept(image, d) => Kept(Imported(image, b), d)
<1>1. /\ NextUid(b) \in 0 .. MaxUid + 1 /\ legacy[b].counter <= NextUid(b)
      /\ legacy[b].uids \in SUBSET (1 .. MaxUid)
      /\ \A u \in legacy[b].uids : u < NextUid(b)
  BY NextUidBounds
<1> DEFINE one   == [image EXCEPT !.box = @ \cup {b}]
           two   == [one EXCEPT !.uids = [@ EXCEPT ![b] = legacy[b].uids]]
           three == [two EXCEPT !.next = [@ EXCEPT ![b] = NextUid(b)]]
<1>2. one \in Image /\ one.box = image.box \cup {b}
      /\ one.uids = image.uids /\ one.next = image.next
  BY DEF Image
<1> HIDE DEF one
<1>3. /\ two \in Image /\ two.box = image.box \cup {b}
      /\ two.uids = [image.uids EXCEPT ![b] = legacy[b].uids] /\ two.next = image.next
  BY <1>1, <1>2 DEF Image
<1> HIDE DEF two
<1>4. /\ three \in Image /\ three.box = image.box \cup {b}
      /\ three.uids = [image.uids EXCEPT ![b] = legacy[b].uids]
      /\ three.next = [image.next EXCEPT ![b] = NextUid(b)]
  BY <1>1, <1>3 DEF Image
<1> HIDE DEF three
<1>5. Imported(image, b) = three
  BY <1>1 DEF Imported, Image, one, two, three
<1>6. image.uids \in [Box -> SUBSET (1 .. MaxUid)] /\ image.next \in [Box -> 0 .. MaxUid + 1]
  BY DEF Image
<1> QED
  BY <1>1, <1>4, <1>5, <1>6 DEF Kept

LEMMA BlankImage ==
  ASSUME NEW c \in Call
  PROVE  Blank(c) \in Image /\ Blank(c).box = {}
  BY DEF Blank, Image

-----------------------------------------------------------------------------
(***************************************************************************)
(* Steps: of one call, of an opening that ends, of a node that crashes.    *)
(***************************************************************************)

LEMMA InitInv == Init => IInv
<1> SUFFICES ASSUME Init PROVE IInv
  OBVIOUS
<1>1. Idle \in CallState
  BY DEF Idle, CallState
<1>2. TypeOK
  BY <1>1 DEF Init, TypeOK
<1>3. \A c \in Call : call[c].pc = "idle" /\ call[c].got = None
  BY DEF Init, Idle
<1> QED
  BY <1>2, <1>3 DEF Init, IInv, StoreOK, CallOK, NodeOK, Opening, At_, Opens

\* The published image is fit and stays; what is under way is fit.
StoreStep ==
    /\ legacy' = legacy
    /\ misled' \in BOOLEAN /\ (misled => misled')
    /\ file' \in Image \cup {None} /\ late' \subseteq Image
    /\ file # None => file' = file
    /\ StoreOK'

\* What a call may become, given that no opening ends.
Sound(c, r) ==
    /\ r \in CallState
    /\ r.got \notin {None, Failed} => r.got = file'
    /\ r.pc = "import"  => /\ r.built \in Image
                           /\ r.built.box \subseteq Folders
                           /\ \A b \in r.built.box : Kept(r.built, b)
    /\ r.pc = "publish" => r.built \in Image /\ Whole(r.built)
    /\ r.pc = "load"    => file' # None \/ misled'
    /\ r.pc = "create"  => misled'
    /\ r.pc = "wait"    => r.on \in Opening(At[c])
    /\ \/ r.pc \in Opens <=> call[c].pc \in Opens
       \/ r.pc \in Opens /\ NoEntry(At[c])

LEMMA CallStep ==
  ASSUME IInv, StoreStep, NEW c \in Call, NEW r, Sound(c, r),
         call' = [call EXCEPT ![c] = r], ready' = ready
  PROVE  IInv'
<1>0. /\ TypeOK /\ \A d \in Call : CallOK(d)
      /\ \A n \in Node : NodeOK(n)
  BY DEF IInv
<1>1. TypeOK'
  BY <1>0 DEF TypeOK, StoreStep, Sound
<1>2. /\ call'[c] = r
      /\ \A d \in Call \ {c} : call'[d] = call[d]
  BY <1>0 DEF TypeOK
<1>3. \A n \in Node : /\ Opening(n) \subseteq Opening(n)'
                      /\ Opening(n)' \subseteq Opening(n) \cup {c}
                      /\ c \in Opening(n)' => c \in Opening(n) \/ (n = At[c] /\ NoEntry(n))
  BY <1>2 DEF Opening, At_, Opens, Sound, Opens
<1>4. ASSUME NEW d \in Call PROVE CallOK(d)'
  <2>1. At[d] \in Node /\ Opening(At[d]) \subseteq Opening(At[d])'
    BY <1>3
  <2>2. CASE d = c
    BY <1>2, <2>1, <2>2 DEF CallOK, Sound, StoreStep, Whole, Kept, Folders
  <2>3. CASE d # c
    <3>1. CallOK(d) /\ call'[d] = call[d]
      BY <1>0, <1>2, <2>3
    <3>2. call[d].got \notin {None, Failed} => call[d].got = file'
      <4>1. call[d] \in CallState
        BY <1>0 DEF TypeOK
      <4>2. call[d].got \in Image \cup {None, Failed}
        BY <4>1 DEF CallState
      <4> QED
        BY <3>1, <4>2 DEF CallOK, StoreStep
    <3> QED
      BY <2>1, <3>1, <3>2 DEF CallOK, StoreStep, Whole, Kept, Folders
  <2> QED
    BY <2>2, <2>3
<1>5. ASSUME NEW n \in Node PROVE NodeOK(n)'
  BY <1>0, <1>3 DEF NodeOK, StoreStep, NoEntry
<1> QED
  BY <1>1, <1>4, <1>5 DEF IInv, StoreStep

LEMMA FinishStep ==
  ASSUME IInv, StoreStep, NEW c \in Call, call[c].pc \in Opens,
         NEW res, res = Failed \/ (res = file' /\ file' # None), Finish(c, res)
  PROVE  IInv'
<1>0. /\ TypeOK /\ \A d \in Call : CallOK(d) /\ call[d] \in CallState
      /\ \A n \in Node : NodeOK(n) /\ At[c] \in Node
  BY DEF IInv, TypeOK
<1>1. res \in Image \cup {Failed}
  BY DEF StoreStep
<1>2. ready' \in [Node -> Image \cup {None}]
      /\ \A n \in Node : ready'[n] = IF n = At[c] /\ res # Failed THEN file' ELSE ready[n]
  BY <1>0, <1>1 DEF Finish, Remembered, TypeOK
<1> DEFINE Next_(w) == IF w \in Woken(c)
                       THEN [call[w] EXCEPT !.pc = IF w = c THEN "done" ELSE "told",
                                            !.on = None, !.built = None, !.got = res]
                       ELSE call[w]
<1>3. ASSUME NEW w \in Woken(c)
      PROVE  /\ w \in Call /\ Next_(w) \in CallState /\ Next_(w).got = res
             /\ Next_(w).pc \in {"done", "told"}
  <2>1. w \in Call
    BY DEF Woken
  <2> DEFINE a == [call[w] EXCEPT !.pc = IF w = c THEN "done" ELSE "told"]
             b == [a EXCEPT !.on = None]
             d == [b EXCEPT !.built = None]
             e == [d EXCEPT !.got = res]
  <2>2. a \in CallState /\ a.pc \in {"done", "told"}
    BY <1>0, <2>1 DEF CallState
  <2> HIDE DEF a
  <2>3. b \in CallState /\ b.pc \in {"done", "told"}
    BY <2>2 DEF CallState
  <2> HIDE DEF b
  <2>4. d \in CallState /\ d.pc \in {"done", "told"}
    BY <2>3 DEF CallState
  <2> HIDE DEF d
  <2>5. e \in CallState /\ e.pc \in {"done", "told"} /\ e.got = res
    BY <1>1, <2>4 DEF CallState
  <2> HIDE DEF e
  <2>6. Next_(w) = e
    BY <1>0, <2>1 DEF a, b, d, e, CallState
  <2> QED
    BY <2>1, <2>5, <2>6
<1>4. call' = [w \in Call |-> Next_(w)]
  BY DEF Finish
<1>5. \A w \in Call \ Woken(c) : Next_(w) = call[w]
  OBVIOUS
<1> HIDE DEF Next_
<1>6. /\ call' \in [Call -> CallState]
      /\ \A w \in Woken(c) : call'[w].pc \in {"done", "told"} /\ call'[w].got = res
      /\ \A w \in Call \ Woken(c) : call'[w] = call[w]
  BY <1>0, <1>3, <1>4, <1>5
<1>7. TypeOK'
  BY <1>0, <1>2, <1>6 DEF TypeOK, StoreStep
<1>8. \A n \in Node : Opening(n)' = Opening(n) \ {c}
  <2>1. \A w \in Woken(c) \ {c} : call[w].pc \notin Opens
    BY DEF Woken, Opens
  <2>2. c \in Woken(c) /\ Woken(c) \subseteq Call
    BY DEF Woken
  <2> QED
    BY <1>6, <2>1, <2>2 DEF Opening, At_, Opens
<1>9. ASSUME NEW w \in Call PROVE CallOK(w)'
  <2>1. CASE w \in Woken(c)
    BY <1>6, <2>1 DEF CallOK
  <2>2. CASE w \notin Woken(c)
    <3>1. CallOK(w) /\ call'[w] = call[w] /\ At[w] \in Node
      BY <1>0, <1>6, <2>2
    <3>2. call[w].pc = "wait" => call[w].on # c
      BY <2>2 DEF Woken
    <3>3. call[w].got \notin {None, Failed} => call[w].got = file'
      <4>1. call[w].got \in Image \cup {None, Failed}
        BY <1>0 DEF CallState
      <4> QED
        BY <3>1, <4>1 DEF CallOK, StoreStep
    <3> QED
      BY <1>8, <3>1, <3>2, <3>3 DEF CallOK, StoreStep, Whole, Kept, Folders
  <2> QED
    BY <2>1, <2>2
<1>10. ASSUME NEW n \in Node PROVE NodeOK(n)'
  <2>1. c \in Opening(At[c])
    BY DEF Opening, At_, Opens
  <2>2. Opening(At[c]) = {c}
    BY <1>0, <2>1 DEF NodeOK
  <2> QED
    BY <1>0, <1>2, <1>8, <2>2 DEF NodeOK, StoreStep
<1> QED
  BY <1>7, <1>9, <1>10 DEF IInv, StoreStep

LEMMA CrashStep == ASSUME IInv, NEW n \in Node, Crash(n) PROVE IInv'
<1>0. /\ TypeOK /\ StoreOK /\ \A d \in Call : CallOK(d) /\ call[d] \in CallState
      /\ \A m \in Node : NodeOK(m)
  BY DEF IInv, TypeOK
<1>1. Idle \in CallState /\ Idle.pc = "idle" /\ Idle.got = None
  BY DEF Idle, CallState
<1>2. /\ call' \in [Call -> CallState]
      /\ \A c \in Call : call'[c] = IF At[c] = n THEN Idle ELSE call[c]
  BY <1>0, <1>1 DEF Crash
<1>3. /\ ready' \in [Node -> Image \cup {None}]
      /\ \A m \in Node : ready'[m] = IF m = n THEN None ELSE ready[m]
  BY <1>0 DEF Crash, TypeOK
<1>4. UNCHANGED <<legacy, file, late, misled>>
  BY DEF Crash
<1>5. /\ TypeOK'
      /\ StoreOK'
  <2>1. TypeOK'
    BY <1>0, <1>2, <1>3, <1>4 DEF TypeOK
  <2>2. StoreOK'
    BY <1>0, <1>4 DEF StoreOK, Fit, Whole, Kept, Folders
  <2> QED
    BY <2>1, <2>2
<1>6. \A m \in Node : Opening(m)' = IF m = n THEN {} ELSE Opening(m)
  BY <1>1, <1>2 DEF Opening, At_, Opens
<1>7. \A c \in Call : CallOK(c)'
  BY <1>0, <1>1, <1>2, <1>4, <1>6 DEF CallOK, Whole, Kept, Folders
<1>8. \A m \in Node : NodeOK(m)'
  BY <1>0, <1>3, <1>4, <1>6 DEF NodeOK
<1> QED
  BY <1>5, <1>7, <1>8 DEF IInv

LEMMA SameStore ==
  ASSUME IInv, UNCHANGED <<legacy, file, late, misled>>
  PROVE  StoreStep
  BY DEF IInv, TypeOK, StoreStep, StoreOK, Fit, Whole, Kept, Folders

LEMMA CreateStep ==
  ASSUME IInv, NEW image \in Image, file = None => Fit(image), file' = Created(image),
         legacy' = legacy, late' \subseteq late, misled' = misled
  PROVE  StoreStep /\ file' # None
  BY DEF IInv, TypeOK, StoreStep, StoreOK, Fit, Whole, Kept, Folders, Created

\* A record with one or two fields changed.
LEMMA CallFields ==
  ASSUME TypeOK, NEW c \in Call
  PROVE  /\ call[c] \in CallState /\ At[c] \in Node
         /\ \A pc \in {"wait", "told", "done", "get", "import", "publish", "load", "create"} :
              LET r == [call[c] EXCEPT !.pc = pc] IN
              /\ r \in CallState /\ r.pc = pc /\ r.on = call[c].on
              /\ r.built = call[c].built /\ r.got = call[c].got
  BY DEF TypeOK, CallState

LEMMA WaitingStep ==
  ASSUME IInv, NEW c \in Call, OpenFirst(c) \/ OpenWait(c) \/ OpenReady(c)
  PROVE  IInv'
<1>0. /\ TypeOK /\ CallOK(c) /\ NodeOK(At[c]) /\ call[c] \in CallState
      /\ call \in [Call -> CallState]
  BY CallFields DEF IInv, TypeOK
<1>1. StoreStep /\ ready' = ready /\ file' = file /\ call[c].pc = "idle"
  BY SameStore DEF OpenFirst, OpenWait, OpenReady
<1>2. CASE OpenFirst(c)
  <2> DEFINE r == [call[c] EXCEPT !.pc = "get"]
  <2>1. r \in CallState /\ r.pc = "get" /\ r.got = call[c].got
    BY <1>0, CallFields
  <2>2. call' = [call EXCEPT ![c] = r] /\ NoEntry(At[c])
    BY <1>2 DEF OpenFirst, Goto
  <2> HIDE DEF r
  <2>3. Sound(c, r)
    BY <1>0, <1>1, <2>1, <2>2 DEF Sound, CallOK, Opens
  <2> QED
    BY <1>1, <2>2, <2>3, CallStep
<1>3. CASE OpenWait(c)
  <2>1. PICK d \in Opening(At[c]) :
          call' = [call EXCEPT ![c].pc = "wait", ![c].on = d]
    BY <1>3 DEF OpenWait
  <2>2. d \in Call
    BY DEF Opening, At_, Opens
  <2> DEFINE q == [call[c] EXCEPT !.pc = "wait"]
             r == [q EXCEPT !.on = d]
  <2>3. q \in CallState /\ q.pc = "wait" /\ q.got = call[c].got
    BY <1>0, CallFields
  <2>4. call' = [call EXCEPT ![c] = r]
    BY <1>0, <2>1 DEF CallState
  <2> HIDE DEF q
  <2>5. r \in CallState /\ r.pc = "wait" /\ r.got = call[c].got /\ r.on = d
    BY <2>2, <2>3 DEF CallState
  <2> HIDE DEF r
  <2>6. Sound(c, r)
    BY <1>0, <1>1, <2>1, <2>5 DEF Sound, CallOK, Opens
  <2> QED
    BY <1>1, <2>4, <2>6, CallStep
<1>4. CASE OpenReady(c)
  <2> DEFINE q == [call[c] EXCEPT !.pc = "told"]
             r == [q EXCEPT !.got = ready[At[c]]]
  <2>1. ready[At[c]] \in Image /\ ready[At[c]] = file
    BY <1>0, <1>4, CallFields DEF OpenReady, TypeOK, NodeOK
  <2>2. q \in CallState /\ q.pc = "told"
    BY <1>0, CallFields
  <2>3. call' = [call EXCEPT ![c] = r]
    BY <1>0, <1>4 DEF OpenReady, CallState
  <2> HIDE DEF q
  <2>4. r \in CallState /\ r.pc = "told" /\ r.got = file
    BY <2>1, <2>2 DEF CallState
  <2> HIDE DEF r
  <2>5. Sound(c, r)
    BY <1>1, <2>4 DEF Sound, Opens
  <2> QED
    BY <1>1, <2>3, <2>5, CallStep
<1> QED
  BY <1>2, <1>3, <1>4

LEMMA ReturnStep ==
  ASSUME IInv, NEW c \in Call, Return(c) \/ GiveUp(c) \/ Forget(c) \/ Cancel(c)
  PROVE  IInv'
<1>0. /\ TypeOK /\ CallOK(c) /\ call[c] \in CallState
      /\ call \in [Call -> CallState]
  BY DEF IInv, TypeOK
<1>1. StoreStep /\ ready' = ready /\ file' = file /\ misled' = misled
  BY SameStore DEF Return, GiveUp, Forget, Cancel
<1>2. ASSUME NEW r, r \in CallState, r.got \in {call[c].got, Failed, None},
             call' = [call EXCEPT ![c] = r],
             \/ r.pc \in {"done", "idle"} /\ call[c].pc \notin Opens
             \/ r.pc = call[c].pc /\ r.on = call[c].on /\ r.built = call[c].built
      PROVE  IInv'
  <2>1. Sound(c, r)
    BY <1>0, <1>1, <1>2 DEF Sound, CallOK, Opens
  <2> QED
    BY <1>1, <1>2, <2>1, CallStep
<1> DEFINE q == [call[c] EXCEPT !.pc = "done"]
<1>3. q \in CallState /\ q.pc = "done" /\ q.got = call[c].got
  BY <1>0, CallFields
<1>4. CASE Return(c)
  <2>1. CASE call' = [call EXCEPT ![c].pc = "done"]
    BY <1>2, <1>3, <1>4, <2>1 DEF Return, Opens
  <2>2. CASE call' = [call EXCEPT ![c].pc = "done", ![c].got = Failed]
    <3> DEFINE r == [q EXCEPT !.got = Failed]
    <3>1. call' = [call EXCEPT ![c] = r]
      BY <1>0, <2>2 DEF CallState
    <3> HIDE DEF q
    <3>2. r \in CallState /\ r.pc = "done" /\ r.got = Failed
      BY <1>3 DEF CallState
    <3> QED
      BY <1>2, <1>4, <3>1, <3>2 DEF Return, Opens
  <2> QED
    BY <1>4, <2>1, <2>2 DEF Return
<1>5. CASE GiveUp(c)
  <2> DEFINE p == [q EXCEPT !.on = None]
             r == [p EXCEPT !.got = Failed]
  <2>1. call' = [call EXCEPT ![c] = r]
    BY <1>0, <1>5 DEF GiveUp, CallState
  <2> HIDE DEF q
  <2>2. p \in CallState /\ p.pc = "done"
    BY <1>3 DEF CallState
  <2> HIDE DEF p
  <2>3. r \in CallState /\ r.pc = "done" /\ r.got = Failed
    BY <2>2 DEF CallState
  <2> QED
    BY <1>2, <1>5, <2>1, <2>3 DEF GiveUp, Opens
<1>6. CASE Forget(c)
  <2>1. Idle \in CallState /\ Idle.pc = "idle" /\ Idle.got = None
    BY DEF Idle, CallState
  <2> QED
    BY <1>2, <1>6, <2>1 DEF Forget, Opens
<1>7. CASE Cancel(c)
  <2> DEFINE r == [call[c] EXCEPT !.live = FALSE]
  <2>1. /\ r \in CallState /\ r.pc = call[c].pc /\ r.on = call[c].on
        /\ r.built = call[c].built /\ r.got = call[c].got
    BY <1>0 DEF CallState
  <2>2. call' = [call EXCEPT ![c] = r]
    BY <1>7 DEF Cancel
  <2> HIDE DEF r
  <2> QED
    BY <1>2, <2>1, <2>2
<1> QED
  BY <1>4, <1>5, <1>6, <1>7

LEMMA OpenerStep ==
  ASSUME IInv, NEW c \in Call,
         Get(c) \/ Import(c) \/ Stage(c) \/ Publish(c) \/ Load(c) \/ CreateEmpty(c)
  PROVE  IInv'
<1>0. /\ TypeOK /\ StoreOK /\ CallOK(c) /\ call[c] \in CallState
      /\ call \in [Call -> CallState] /\ call[c].pc \in Opens
  BY DEF IInv, TypeOK, Opens, Get, Import, Stage, Publish, Load, CreateEmpty
<1>1. CASE UNCHANGED <<legacy, file, late, misled>> /\ Finish(c, Failed)
  BY <1>0, <1>1, SameStore, FinishStep
<1>2. CASE Fail(c)
  BY <1>1, <1>2 DEF Fail
<1>3. ASSUME NEW pc \in {"load", "create", "publish"}, Goto(c, pc), ready' = ready,
             StoreStep, pc = "load" => file' # None \/ misled', pc = "create" => misled',
             pc = "publish" => call[c].built \in Image /\ Whole(call[c].built)
      PROVE  IInv'
  <2> DEFINE r == [call[c] EXCEPT !.pc = pc]
  <2>1. r \in CallState /\ r.pc = pc /\ r.got = call[c].got /\ r.built = call[c].built
    BY <1>0, <1>3 DEF CallState
  <2>2. call' = [call EXCEPT ![c] = r]
    BY <1>3 DEF Goto
  <2> HIDE DEF r
  <2>3. r.got \notin {None, Failed} => r.got = file'
    BY <1>0, <1>3, <2>1 DEF CallOK, StoreStep, CallState
  <2>4. Sound(c, r)
    BY <1>0, <1>3, <2>1, <2>3 DEF Sound, Opens
  <2> QED
    BY <1>3, <2>2, <2>4, CallStep
<1>4. CASE Get(c)
  <2>1. CASE file # None /\ Goto(c, "load") /\ UNCHANGED <<legacy, file, late, ready, misled>>
    BY <1>3, <2>1, SameStore
  <2>2. CASE /\ call' = [call EXCEPT ![c].pc = "import", ![c].built = Blank(c)]
             /\ UNCHANGED <<legacy, file, late, ready, misled>>
    <3> DEFINE q == [call[c] EXCEPT !.pc = "import"]
               r == [q EXCEPT !.built = Blank(c)]
    <3>1. q \in CallState /\ q.pc = "import" /\ q.got = call[c].got
      BY <1>0, CallFields
    <3>2. call' = [call EXCEPT ![c] = r]
      BY <1>0, <2>2 DEF CallState
    <3> HIDE DEF q
    <3>3. r \in CallState /\ r.pc = "import" /\ r.got = call[c].got /\ r.built = Blank(c)
      BY <3>1, BlankImage DEF CallState
    <3> HIDE DEF r
    <3>4. Sound(c, r)
      BY <1>0, <2>2, <3>3, BlankImage DEF Sound, CallOK, Opens
    <3> QED
      BY <2>2, <3>2, <3>4, CallStep, SameStore
  <2> QED
    BY <1>2, <1>4, <2>1, <2>2 DEF Get
<1>5. CASE Import(c)
  <2>1. ASSUME NEW b \in Folders \ call[c].built.box,
               call' = [call EXCEPT ![c].built = Imported(@, b)],
               UNCHANGED <<legacy, file, late, ready, misled>>
        PROVE  IInv'
    <3>1. /\ call[c].built \in Image /\ call[c].built.box \subseteq Folders
          /\ \A d \in call[c].built.box : Kept(call[c].built, d)
          /\ b \in Box /\ Folders \subseteq Box /\ call[c].pc = "import"
      BY <1>0, <1>5 DEF CallOK, Import, Folders
    <3> DEFINE image == Imported(call[c].built, b)
               r == [call[c] EXCEPT !.built = image]
    <3>2. /\ image \in Image /\ image.box = call[c].built.box \cup {b}
          /\ \A d \in image.box : Kept(image, d)
      <4>1. /\ image \in Image /\ image.box = call[c].built.box \cup {b}
            /\ Kept(image, b)
            /\ \A d \in Box : Kept(call[c].built, d) => Kept(image, d)
        BY <1>0, <3>1, ImportKeeps
      <4> HIDE DEF image
      <4> QED
        BY <3>1, <4>1
    <3>3. call' = [call EXCEPT ![c] = r]
      BY <1>0, <2>1 DEF CallState
    <3> HIDE DEF image
    <3>4. r \in CallState /\ r.pc = "import" /\ r.got = call[c].got /\ r.built = image
      BY <1>0, <3>1, <3>2 DEF CallState
    <3> HIDE DEF r
    <3>5. Sound(c, r)
      BY <1>0, <2>1, <3>1, <3>2, <3>4 DEF Sound, CallOK, Opens
    <3> QED
      BY <2>1, <3>3, <3>5, CallStep, SameStore
  <2> QED
    BY <1>2, <1>5, <2>1 DEF Import
<1>6. CASE Stage(c)
  <2>1. call[c].built \in Image /\ Whole(call[c].built)
    BY <1>0, <1>6 DEF Stage, Complete, CallOK, Whole
  <2> QED
    BY <1>3, <1>6, <2>1, SameStore DEF Stage
<1>7. ASSUME NEW image \in Image, Fit(image), PutLost(c, image)
      PROVE  IInv'
  <2>1. CASE file' = Created(image) /\ UNCHANGED late
    BY <1>0, <1>7, <2>1, CreateStep, FinishStep DEF PutLost
  <2>2. CASE late' = late \cup {image} /\ UNCHANGED file
    <3>1. StoreStep
      BY <1>0, <1>7, <2>2 DEF PutLost, TypeOK, StoreStep, StoreOK, Fit, Whole, Kept, Folders
    <3> QED
      BY <1>0, <1>7, <3>1, FinishStep DEF PutLost
  <2> QED
    BY <1>7, <2>1, <2>2 DEF PutLost
<1>8. CASE Publish(c)
  <2>1. call[c].built \in Image /\ Fit(call[c].built)
    BY <1>0, <1>8 DEF Publish, CallOK, Fit
  <2>2. CASE /\ file' = Created(call[c].built) /\ Goto(c, "load")
             /\ UNCHANGED <<legacy, late, ready, misled>>
    BY <1>3, <2>1, <2>2, CreateStep
  <2>3. CASE /\ Goto(c, "load") /\ misled' = (misled \/ file = None)
             /\ UNCHANGED <<legacy, file, late, ready>>
    <3>1. StoreStep
      BY <1>0, <2>3 DEF TypeOK, StoreStep, StoreOK, Fit, Whole, Kept, Folders
    <3> QED
      BY <1>0, <1>3, <2>3, <3>1 DEF TypeOK
  <2> QED
    BY <1>2, <1>7, <1>8, <2>1, <2>2, <2>3 DEF Publish
<1>9. CASE Load(c)
  <2>1. CASE file # None /\ Finish(c, file) /\ UNCHANGED <<legacy, file, late, misled>>
    BY <1>0, <2>1, SameStore, FinishStep
  <2>2. CASE file = None /\ Goto(c, "create") /\ UNCHANGED <<legacy, file, late, ready, misled>>
    BY <1>0, <1>3, <1>9, <2>2, SameStore DEF Load, CallOK
  <2> QED
    BY <1>2, <1>9, <2>1, <2>2 DEF Load
<1>10. CASE CreateEmpty(c)
  <2>1. Blank(c) \in Image /\ Fit(Blank(c))
    BY <1>0, <1>10, BlankImage DEF CreateEmpty, CallOK, Fit
  <2>2. CASE /\ file = None /\ file' = Blank(c)
             /\ Finish(c, file') /\ UNCHANGED <<legacy, late, misled>>
    <3>1. file' = Created(Blank(c))
      BY <2>2 DEF Created
    <3>2. StoreStep /\ file' # None
      BY <2>1, <2>2, <3>1, CreateStep
    <3> QED
      BY <1>0, <2>2, <3>2, FinishStep
  <2> QED
    BY <1>2, <1>7, <1>10, <2>1, <2>2 DEF CreateEmpty
<1> QED
  BY <1>4, <1>5, <1>6, <1>8, <1>9, <1>10

LEMMA LateStep == ASSUME IInv, LateApply PROVE IInv'
<1>1. PICK image \in late :
        /\ file' = Created(image) /\ late' = late \ {image}
        /\ UNCHANGED <<legacy, ready, call, misled>>
  BY DEF LateApply
<1>2. image \in Image /\ Fit(image)
  BY DEF IInv, TypeOK, StoreOK
<1>3. StoreStep
  BY <1>1, <1>2, CreateStep
<1>4. TypeOK'
  BY <1>1, <1>3 DEF IInv, TypeOK, StoreStep
<1>5. \A n \in Node : Opening(n)' = Opening(n)
  BY <1>1 DEF Opening, At_, Opens
<1>6. ASSUME NEW c \in Call PROVE CallOK(c)'
  <2>1. CallOK(c) /\ call[c].got \in Image \cup {None, Failed} /\ call' = call /\ At[c] \in Node
    BY <1>1 DEF IInv, TypeOK, CallState
  <2> QED
    BY <1>3, <1>5, <2>1 DEF CallOK, StoreStep, Whole, Kept, Folders
<1>7. ASSUME NEW n \in Node PROVE NodeOK(n)'
  <2>1. NodeOK(n) /\ ready' = ready
    BY <1>1 DEF IInv
  <2> QED
    BY <1>3, <1>5, <2>1 DEF NodeOK, StoreStep
<1> QED
  BY <1>3, <1>4, <1>6, <1>7 DEF IInv, StoreStep

-----------------------------------------------------------------------------
(***************************************************************************)
(* Theorems.                                                               *)
(***************************************************************************)

\* The invariant of openJMAPAccount and of the bootstrap it may run
\* (main.go openJMAPAccountUncached, jmapBootstrapStore).
THEOREM Invariance == Spec => []IInv
<1>1. IInv /\ [Next]_vars => IInv'
  <2> SUFFICES ASSUME IInv, [Next]_vars PROVE IInv'
    OBVIOUS
  <2>1. CASE UNCHANGED vars
    BY <2>1 DEF vars, IInv, TypeOK, StoreOK, CallOK, NodeOK, Opening, At_, Opens, Fit, Whole, Kept, Folders
  <2>2. CASE Next
    BY <2>2, WaitingStep, ReturnStep, OpenerStep, CrashStep, LateStep
       DEF Next, Open, Advance
  <2> QED
    BY <2>1, <2>2
<1> QED
  BY <1>1, InitInv, PTL DEF Spec

\* Every variable keeps its type (main.go jmapAccountOpen, jmapBootstrapStore).
THEOREM TypeCorrectness == Spec => []TypeOK
  BY Invariance, PTL DEF IInv

\* Whatever is handed out on any node is the one image that was published
\* ("concurrent nodes agree on one complete image", main.go:4998).
THEOREM OneImage == Spec => []NodesAgree
<1>1. IInv => NodesAgree
  BY DEF IInv, NodesAgree, NodeOK, CallOK
<1> QED
  BY <1>1, Invariance, PTL

\* The published image has every folder and message, and a UID counter beyond
\* both the old counter and the old messages; only an opener misled by a record
\* it had prepared itself publishes an empty one, and nobody a partial one
\* (main.go openJMAPAccountUncached, jmapOwnerState.refresh).
THEOREM ImageComplete == Spec => []CompleteImage
<1>1. IInv => CompleteImage
  BY DEF IInv, CompleteImage, StoreOK, Fit, Whole, Kept
<1> QED
  BY <1>1, Invariance, PTL

\* A node opens an account once at a time, and who waits will be woken (main.go
\* openJMAPAccount).
THEOREM OpenedOnce == Spec => []OneOpening
<1>1. IInv => OneOpening
  <2> SUFFICES ASSUME IInv PROVE OneOpening
    OBVIOUS
  <2>1. ASSUME NEW n \in Node PROVE Cardinality(Opening(n)) <= 1
    <3>1. CASE Opening(n) = {}
      BY <3>1, FS_EmptySet
    <3>2. ASSUME NEW c \in Opening(n) PROVE Cardinality(Opening(n)) <= 1
      <4>1. Opening(n) = {c}
        BY <3>2 DEF IInv, NodeOK
      <4>2. Cardinality({c}) = 1
        BY FS_Singleton
      <4> QED
        BY <4>1, <4>2
    <3> QED
      BY <3>1, <3>2
  <2> QED
    BY <2>1 DEF IInv, OneOpening, NodeOK, CallOK
<1> QED
  BY <1>1, Invariance, PTL
=============================================================================
