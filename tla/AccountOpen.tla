---------------------------- MODULE AccountOpen ----------------------------
(***************************************************************************)
(* Opening an account.  On each node the first caller opens it and the     *)
(* others wait for its result; an account that has no account file yet is  *)
(* built in memory from its legacy folders and messages, one folder after  *)
(* the other, and published by one conditional PUT, which nodes may race.  *)
(* main.go: openJMAPAccount, openJMAPAccountUncached, newJMAPAccount and   *)
(* jmapBootstrapStore.                                                     *)
(*                                                                         *)
(* An image is told apart by the call that built it, whose random ids it   *)
(* carries.  The SDK repeats a PUT whose reply was lost, and the second    *)
(* attempt finds the object of the first.  What becomes of the account     *)
(* file afterwards is OwnerStore's.                                        *)
(***************************************************************************)
EXTENDS Naturals, FiniteSets, FiniteSetsExt

CONSTANTS
    Node,
    Call,      \* calls of openJMAPAccount, each repeated at will
    At,        \* call -> its node
    Box,       \* folders, numbered in the order of their names
    Standard,  \* the folders that every account gets
    MaxUid,    \* bound on the UIDs of legacy messages
    Legacy,    \* the legacy folders an account may have, see Old
    MaxLate,   \* bound on the PUTs that may be under way after their client
               \* gave them up
    None,
    Failed     \* the result of a call that fails

\* The counter of a folder that has none, or that a slow writer left behind.
Old == [used : BOOLEAN, uids : SUBSET (1 .. MaxUid), counter : 0 .. MaxUid + 1]

Image == [by : Call, box : SUBSET Box, uids : [Box -> SUBSET (1 .. MaxUid)],
          next : [Box -> 0 .. MaxUid + 1]]

ASSUME OpenAssumption ==
    /\ At \in [Call -> Node] /\ Standard \subseteq Box /\ Box \subseteq Nat
    /\ MaxUid \in Nat /\ MaxLate \in Nat
    /\ Legacy \subseteq [Box -> Old]

ASSUME ValuesAssumption ==
    None \notin Image \cup Call /\ Failed \notin Image \cup {None}

VARIABLES
    legacy,  \* the old objects: folder -> [used, uids, counter]
    file,    \* the account file's first image, or None
    late,    \* images whose PUT may still reach the store
    ready,   \* node -> the image its opened account was loaded from
    call,    \* call -> its state
    misled   \* history: an opener took a record it had prepared itself for
             \* an account file, and there was none

vars == <<legacy, file, late, ready, call, misled>>

Blank(c) == [by |-> c, box |-> {}, uids |-> [b \in Box |-> {}],
             next |-> [b \in Box |-> 0]]

\* A call: where it is, whether its context lives, the opener it waits for,
\* the image it builds, and its result.
CallState ==
    [pc : {"idle", "wait", "told", "done", "get", "import", "publish", "load",
           "create"},
     live : BOOLEAN, on : Call \cup {None}, built : Image \cup {None},
     got : Image \cup {None, Failed}]

Idle == [pc |-> "idle", live |-> TRUE, on |-> None, built |-> None, got |-> None]

Init ==
    /\ legacy \in Legacy
    /\ file  = None
    /\ late  = {}
    /\ ready = [n \in Node |-> None]
    /\ call  = [c \in Call |-> Idle]
    /\ misled = FALSE

-----------------------------------------------------------------------------
(* The entry of the account in jmapAccounts. *)

At_(n)     == {c \in Call : At[c] = n}
Opens      == {"get", "import", "publish", "load", "create"}
Opening(n) == {c \in At_(n) : call[c].pc \in Opens}

\* No entry, neither a finished one nor one under way.
Mutant_NoResult(n) == ready[n] = None
NoEntry(n) == ready[n] = None /\ Opening(n) = {}

Goto(c, pc) == call' = [call EXCEPT ![c].pc = pc]

\* The first caller inserts the entry and opens.
OpenFirst(c) ==
    /\ call[c].pc = "idle" /\ NoEntry(At[c])
    /\ Goto(c, "get")
    /\ UNCHANGED <<legacy, file, late, ready, misled>>

\* Whoever finds the entry waits for it.
OpenWait(c) ==
    /\ call[c].pc = "idle"
    /\ \E d \in Opening(At[c]) :
           call' = [call EXCEPT ![c].pc = "wait", ![c].on = d]
    /\ UNCHANGED <<legacy, file, late, ready, misled>>

\* An entry that is done answers at once, if the context lets it.
OpenReady(c) ==
    /\ call[c].pc = "idle" /\ ready[At[c]] # None
    /\ call' = [call EXCEPT ![c].pc = "told", ![c].got = ready[At[c]]]
    /\ UNCHANGED <<legacy, file, late, ready, misled>>

\* The opener drops the entry if it failed, wakes those that wait for it, and
\* returns.
Mutant_KeepFailed(res) == TRUE
Remembered(res) == res # Failed

Mutant_WakeOpener(c) == {c}
Woken(c) == {c} \cup {w \in Call : call[w].pc = "wait" /\ call[w].on = c}

Finish(c, res) ==
    /\ ready' = [ready EXCEPT ![At[c]] = IF Remembered(res) THEN res ELSE @]
    /\ call' = [w \in Call |->
                  IF w \in Woken(c)
                  THEN [call[w] EXCEPT !.pc = IF w = c THEN "done" ELSE "told",
                                       !.on = None, !.built = None, !.got = res]
                  ELSE call[w]]

Fail(c) == Finish(c, Failed) /\ UNCHANGED <<legacy, file, late, misled>>

\* Both channels of a waiter's select may be ready.
Return(c) ==
    /\ call[c].pc = "told"
    /\ \/ call' = [call EXCEPT ![c].pc = "done"]
       \/ ~call[c].live /\ call' = [call EXCEPT ![c].pc = "done", ![c].got = Failed]
    /\ UNCHANGED <<legacy, file, late, ready, misled>>

GiveUp(c) ==
    /\ call[c].pc = "wait" /\ ~call[c].live
    /\ call' = [call EXCEPT ![c].pc = "done", ![c].on = None, ![c].got = Failed]
    /\ UNCHANGED <<legacy, file, late, ready, misled>>

Forget(c) ==
    /\ call[c].pc = "done"
    /\ call' = [call EXCEPT ![c] = Idle]
    /\ UNCHANGED <<legacy, file, late, ready, misled>>

Cancel(c) ==
    /\ call[c].live /\ call[c].pc \in Opens \cup {"wait", "told"}
    /\ call' = [call EXCEPT ![c].live = FALSE]
    /\ UNCHANGED <<legacy, file, late, ready, misled>>

-----------------------------------------------------------------------------
(* The opener. *)

\* An account file is loaded, its absence starts the bootstrap, and any other
\* answer ends the call.
Get(c) ==
    /\ call[c].pc = "get"
    /\ \/ file # None /\ Goto(c, "load") /\ UNCHANGED <<legacy, file, late, ready, misled>>
       \/ /\ file = None
          /\ call' = [call EXCEPT ![c].pc = "import", ![c].built = Blank(c)]
          /\ UNCHANGED <<legacy, file, late, ready, misled>>
       \/ Fail(c)

\* The legacy catalog, with the standard folders it lacks.
Folders == {b \in Box : legacy[b].used} \cup Standard

\* UIDs are kept.  The counter may lag behind them, and stands for 1 if absent.
Mutant_CounterNext(b) == Max({1, legacy[b].counter})
NextUid(b) == Max({1, legacy[b].counter} \cup {u + 1 : u \in legacy[b].uids})

Imported(image, b) ==
    [image EXCEPT !.box = @ \cup {b}, !.uids[b] = legacy[b].uids,
                  !.next[b] = NextUid(b)]

\* The next mailbox, its messages and its private metadata, in the staged
\* image.
Import(c) ==
    LET rest == Folders \ call[c].built.box IN
    /\ call[c].pc = "import"
    /\ \/ /\ \E b \in rest :
                /\ \A d \in rest : b <= d
                /\ call' = [call EXCEPT ![c].built = Imported(@, b)]
          /\ UNCHANGED <<legacy, file, late, ready, misled>>
       \/ Fail(c)

\* The identity is the last record; a context that has ended ends the call.
Mutant_Incomplete(c) == call[c].live
Complete(c) == call[c].live /\ Folders = call[c].built.box

Stage(c) ==
    /\ call[c].pc = "import" /\ Complete(c)
    /\ Goto(c, "publish")
    /\ UNCHANGED <<legacy, file, late, ready, misled>>

\* Create: the store takes the image only if there is no account file.
Mutant_Put(image) == image
Created(image) == IF file = None THEN image ELSE file

\* A PUT of this image as the account file, which is the first one, or comes
\* too late.  Its reply may be lost; one that timed out is applied now, later
\* or never.
PutLost(c, image) ==
    /\ \/ file' = Created(image) /\ UNCHANGED late
       \/ /\ Cardinality(late) < MaxLate
          /\ late' = late \cup {image} /\ UNCHANGED file
    /\ Finish(c, Failed)
    /\ UNCHANGED <<legacy, misled>>

\* Prepared records precede the file.  Every error of a PUT ends the call but
\* that of an existing object, which is taken for another node's account file:
\* it may be this node's own, or one of the prepared records, applied by the
\* first of two attempts.
Publish(c) ==
    /\ call[c].pc = "publish"
    /\ \/ file' = Created(call[c].built) /\ Goto(c, "load")
          /\ UNCHANGED <<legacy, late, ready, misled>>
       \/ /\ Goto(c, "load") /\ misled' = (misled \/ file = None)
          /\ UNCHANGED <<legacy, file, late, ready>>
       \/ PutLost(c, call[c].built)
       \/ Fail(c)

LateApply ==
    \E image \in late :
        /\ file' = Created(image)
        /\ late' = late \ {image}
        /\ UNCHANGED <<legacy, ready, call, misled>>

\* newJMAPAccount reads the account file, and takes a missing one for an old
\* account without records,
Load(c) ==
    /\ call[c].pc = "load"
    /\ \/ file # None /\ Finish(c, file) /\ UNCHANGED <<legacy, file, late, misled>>
       \/ file = None /\ Goto(c, "create") /\ UNCHANGED <<legacy, file, late, ready, misled>>
       \/ Fail(c)

\* which it publishes; here an existing object is an error.
CreateEmpty(c) ==
    /\ call[c].pc = "create"
    /\ \/ /\ file = None /\ file' = Blank(c)
          /\ Finish(c, file') /\ UNCHANGED <<legacy, late, misled>>
       \/ PutLost(c, Blank(c))
       \/ Fail(c)

\* A PUT that a crash leaves under way is one that gives up and crashes.
Crash(n) ==
    /\ ready' = [ready EXCEPT ![n] = None]
    /\ call' = [c \in Call |-> IF At[c] = n THEN Idle ELSE call[c]]
    /\ UNCHANGED <<legacy, file, late, misled>>

-----------------------------------------------------------------------------
Open(c) == OpenFirst(c) \/ OpenWait(c) \/ OpenReady(c)

Advance(c) ==
    \/ Return(c) \/ GiveUp(c) \/ Get(c) \/ Import(c)
    \/ Stage(c) \/ Publish(c) \/ Load(c) \/ CreateEmpty(c)

Next ==
    \/ \E c \in Call : Open(c) \/ Advance(c) \/ Forget(c) \/ Cancel(c)
    \/ \E n \in Node : Crash(n)
    \/ LateApply

Spec == Init /\ [][Next]_vars

\* Every request is answered or times out, so an opener goes on.
FairSpec == Spec /\ \A c \in Call : WF_vars(Advance(c))

-----------------------------------------------------------------------------
(* Properties. *)

\* The shape of the state.
TypeOK ==
    /\ legacy \in [Box -> Old]
    /\ file \in Image \cup {None} /\ late \subseteq Image
    /\ ready \in [Node -> Image \cup {None}]
    /\ call \in [Call -> CallState]
    /\ misled \in BOOLEAN

\* Two nodes may build different images of one account, with different ids.
\* Whatever is handed out on any node, and kept, is the published one
\* ("concurrent nodes agree on one complete image", main.go:4998).
NodesAgree ==
    /\ \A n \in Node : ready[n] # None => ready[n] = file
    /\ \A c \in Call : call[c].got \notin {None, Failed} => call[c].got = file

\* The published image is never partial: it has every legacy and standard
\* folder, each message under its old UID, and no UID will be given twice
\* though the counter and the messages were separate objects.  It is empty,
\* against main.go:4998, only after an opener was misled by a repeated PUT;
\* nothing else, no race, failure or late PUT, publishes anything less.
CompleteImage ==
    \/ file = None
    \/ /\ file.box = Folders
       /\ \A b \in Folders : /\ file.uids[b] = legacy[b].uids
                             /\ legacy[b].counter <= file.next[b]
                             /\ \A u \in file.uids[b] : u < file.next[b]
    \/ misled /\ file.box = {}

\* A node opens an account once at a time, and not again once it has it; who
\* waits, waits for an opening under way, so that its end will wake it.
OneOpening ==
    /\ \A n \in Node : Cardinality(Opening(n)) <= 1
    /\ \A n \in Node : ready[n] # None => Opening(n) = {}
    /\ \A c \in Call : call[c].pc = "wait" => call[c].on \in Opening(At[c])

\* Every call returns, whoever opens, fails, or is cancelled.
OpenReturns == \A c \in Call : []<>(call[c].pc \in {"done", "idle"})
=============================================================================
