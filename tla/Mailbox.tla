------------------------------ MODULE Mailbox ------------------------------
(***************************************************************************)
(* The folders of one account as IMAP and POP3 show them.  UIDs are given  *)
(* by transactions on the account that JMAP shares; a session works on a   *)
(* snapshot of one folder, compares it with a new one when it polls, and   *)
(* names messages to the account by UID.  main.go: jmapAccount.uid,        *)
(* messages, jmapUpdateCatalog, importStoredMail, imapStreamSession and    *)
(* popMailbox.                                                             *)
(*                                                                         *)
(* One JMAP call or Update is one commit of the account, which OwnerStore  *)
(* is shown to implement; a read sees the last commit.  (A node's cache    *)
(* may miss the commits of other nodes for a second; for that node they    *)
(* come so much later.)  Only the process to which a commit is confirmed   *)
(* signals it, and only to its own sessions.  The mutex mu and the         *)
(* maildrop's lock exclude sessions of the same node only and are left     *)
(* out.  \Deleted stands for all flags.                                    *)
(***************************************************************************)
EXTENDS Naturals, Sequences, FiniteSets, SequencesExt, FiniteSetsExt

CONSTANTS
    Email,     \* emails that may be created
    Inbox,     \* the folder that POP3 serves, as old as the account
    Work,      \* a folder that a client creates, and may delete
    Node,      \* processes
    Session,   \* protocol sessions, each used by one client after the other
    At,        \* session -> its process
    Nothing,
    EarlyUse,  \* Work may be used before its creator is done with it
    MaxUid,    \* bound: JMAP clients file no emails in a folder when its
               \* next UID is above it,
    MaxUids    \* nor in any when the next UIDs of all add up to more

Box == {Inbox, Work}

ASSUME AtAssumption    == At \in [Session -> Node]
ASSUME EarlyAssumption == EarlyUse \in BOOLEAN /\ MaxUid \in [Box -> Nat]
                          /\ MaxUids \in Nat

VARIABLES
    mail,    \* email -> [in: its folders, uid: folder -> UID or 0, del: flag]
    made,    \* emails created so far
    folder,  \* folder -> "absent", "bare" (no metadata yet), "keyed", "gone"
    next,    \* folder -> fmaNext, 0 when it has none
    top,     \* history: folder -> the greatest UID a message ever had in it
    sess,    \* session -> its state
    woken,   \* sessions in IDLE whose signal has been closed
    owed     \* history: sessions in IDLE whose process has signalled, for a
             \* commit or by its ticker, since they last went round

store       == <<mail, made, folder, next, top>>
signals     == <<woken, owed>>
mailboxVars == <<store, sess, signals>>

NoMail == [in |-> {}, uid |-> [b \in Box |-> 0], del |-> FALSE]

\* A session: what it does, its protocol, its folder and the state of the
\* key it opened it by, its snapshot, the listing under way, the index of the
\* message in hand, the email found under that message's UID with the folders
\* read for it, whether IDLE runs, and the message numbers marked by DELE.
Off == [pc |-> "off", kind |-> "imap", box |-> Inbox, key |-> "keyed",
        view |-> <<>>, buf |-> Nothing, at |-> 0, target |-> Nothing,
        idling |-> FALSE, marks |-> {}]

In(b)  == {e \in Email : b \in mail[e].in}
Now(s) == In(sess[s].box)
Step(s, x) == sess' = [sess EXCEPT ![s] = x]

\* getFolder and inbox.exists: a folder answers to a key made of its id until
\* its metadata is written, and to its own key afterwards.
Usable(b) == folder[b] = "keyed" \/ (EarlyUse /\ folder[b] = "bare")
Exists(s) == folder[sess[s].box] = sess[s].key

\* The UID of an email as sessions see it.
Shown(m, e, b) == IF b \in m[e].in THEN m[e].uid[b] ELSE 0

-----------------------------------------------------------------------------
(* Commits of the account. *)

\* WriteBatch forgets the UIDs of folders that the email has left.
Mutant_KeepUid(m) == m
Stored(m) == [m EXCEPT !.uid = [b \in Box |-> IF b \in m.in THEN @[b] ELSE 0]]

\* notifyIMAP closes the signal that the sessions of its process hold in IDLE.
Listening(N) == {s \in Session : sess[s].idling /\ At[s] \in N}

\* The processes to which a commit is confirmed: the one that made it, or none
\* when the reply was lost, or when the repeated PUT found its own object.
Heard == {{}} \cup {{n} : n \in Node}
Own(s) == {{}, {At[s]}}

Signal(N) == woken' = woken \cup Listening(N) /\ owed' = owed \cup Listening(N)

Publish(m, N) ==
    /\ mail' = m
    /\ top'  = [b \in Box |-> Max({top[b]} \cup {Shown(m, e, b) : e \in Email})]
    /\ Signal(N)

Quiet == UNCHANGED <<mail, next, top, signals>>

\* fmaNext, or 1 for a folder without one.
Fresh(b) == Max({1, next[b]})

\* jmapAccount.uid in one Update; an email that has left the folder is an
\* error, and one with a UID keeps it.
Assign(e, b, N) ==
    IF b \in mail[e].in /\ mail[e].uid[b] = 0
    THEN /\ Publish([mail EXCEPT ![e].uid[b] = Fresh(b)], N)
         /\ next' = [next EXCEPT ![b] = Fresh(b) + 1]
    ELSE Quiet

\* Email/import.  The importer of an APPEND, a COPY or a delivery asks for
\* the UID next, unless it fails; a JMAP client does not, and leaves it to the
\* listings of other sessions.
Import(b) ==
    LET e == CHOOSE x \in Email \ made : TRUE
    IN  /\ made # Email /\ Usable(b)
        /\ made' = made \cup {e}
        /\ \E N \in Heard : Publish([mail EXCEPT ![e] = [NoMail EXCEPT !.in = {b}]], N)
        /\ UNCHANGED <<folder, next, sess>>

UidCall(e, b) ==
    /\ e \in In(b) /\ mail[e].uid[b] = 0
    /\ \E N \in Heard : Assign(e, b, N)
    /\ UNCHANGED <<made, folder, sess>>

\* A JMAP client files an email elsewhere, or destroys it.
JmapSet(e, boxes) ==
    /\ mail[e].in # {} /\ boxes # mail[e].in
    /\ \A b \in boxes : Usable(b) /\ Fresh(b) <= MaxUid[b]
    /\ boxes = {} \/ Fresh(Inbox) + Fresh(Work) <= MaxUids
    /\ \E N \in Heard :
         Publish([mail EXCEPT ![e] =
                    IF boxes = {} THEN NoMail ELSE Stored([@ EXCEPT !.in = boxes])], N)
    /\ UNCHANGED <<made, folder, next, sess>>

\* CreateMailbox: Mailbox/set makes the folder, and a transaction of its own
\* writes its key, its validity and Next: 1.
Create(b) ==
    /\ folder[b] = "absent"
    /\ folder' = [folder EXCEPT ![b] = "bare"]
    /\ \E N \in Heard : Signal(N)
    /\ UNCHANGED <<mail, made, next, top, sess>>

CreateMetadata(b) ==
    /\ folder[b] = "bare"
    /\ folder' = [folder EXCEPT ![b] = "keyed"]
    /\ next'   = [next EXCEPT ![b] = 1]
    /\ \E N \in Heard : Signal(N)
    /\ UNCHANGED <<mail, made, top, sess>>

\* DeleteMailbox, with onDestroyRemoveEmails.
DeleteMailbox(b) ==
    /\ b # Inbox /\ Usable(b)
    /\ folder' = [folder EXCEPT ![b] = "gone"]
    /\ mail' = [e \in Email |->
                  IF mail[e].in = {b} THEN NoMail
                  ELSE Stored([mail[e] EXCEPT !.in = @ \ {b}])]
    /\ next' = [next EXCEPT ![b] = 0] /\ top' = [top EXCEPT ![b] = 0]
    /\ \E N \in Heard : Signal(N)
    /\ UNCHANGED <<made, sess>>

\* The ticker of serveDomainQueue signals without a commit: what other
\* processes commit, or commit unconfirmed, is heard by it alone.
Tick(n) ==
    /\ Signal({n})
    /\ UNCHANGED <<store, sess>>

-----------------------------------------------------------------------------
(* Sessions.  To select, poll or look a UID up, a session lists its folder: *)
(* it reads all emails, and then has a UID given to each without one.      *)

Select(s, b) ==
    /\ sess[s].pc = "off" /\ Usable(b)
    /\ \E k \in {"imap", "pop"} :
         /\ k = "pop" => b = Inbox
         /\ Step(s, [Off EXCEPT !.pc = "select", !.kind = k, !.box = b, !.key = folder[b]])
    /\ UNCHANGED <<store, signals>>

ListRead(s) ==
    LET b == sess[s].box
    IN  /\ sess[s].pc \in {"select", "poll", "remove", "flag"} /\ sess[s].buf = Nothing
        /\ IF Exists(s)
           THEN Step(s, [sess[s] EXCEPT !.buf =
                  {[id |-> e, uid |-> mail[e].uid[b], del |-> mail[e].del] : e \in In(b)}])
           ELSE Step(s, Off)
        /\ UNCHANGED <<store, signals>>

ListAssign(s) ==
    LET b == sess[s].box
    IN  /\ sess[s].buf # Nothing
        /\ \E r \in sess[s].buf :
             /\ r.uid = 0
             /\ \E N \in Own(s) : Assign(r.id, b, N)
             /\ Step(s, [sess[s] EXCEPT !.buf = (@ \ {r}) \cup
                  {q \in {[r EXCEPT !.uid = mail'[r.id].uid[b]]} : b \in mail[r.id].in}])
        /\ UNCHANGED <<made, folder>>

Listed(s)  == sess[s].buf # Nothing /\ \A r \in sess[s].buf : r.uid # 0
Listing(s) == CHOOSE q \in [1..Cardinality(sess[s].buf) -> sess[s].buf] :
                \A i, j \in DOMAIN q : i < j => q[i].uid < q[j].uid
Ready(x)   == [x EXCEPT !.pc = "ready", !.buf = Nothing, !.at = 0, !.target = Nothing]

SelectDone(s) ==
    /\ sess[s].pc = "select" /\ Listed(s)
    /\ Step(s, Ready([sess[s] EXCEPT !.view = Listing(s)]))
    /\ UNCHANGED <<store, signals>>

Poll(s) ==
    /\ sess[s].pc = "ready" /\ sess[s].kind = "imap"
    /\ Step(s, [sess[s] EXCEPT !.pc = "poll"])
    /\ UNCHANGED <<store, signals>>

\* The signal is taken before the listing: what happens during it is heard.
Mutant_SignalLate(s) == woken \ {s}
AfterPoll(s) == woken

\* imapStreamSession.Poll: a command during which EXPUNGE must not be sent
\* keeps the old snapshot when messages are gone.
PollDone(s) ==
    LET x      == sess[s]
        gone   == \E r \in ToSet(x.view) : \A q \in x.buf : q.uid # r.uid
        polled == [x EXCEPT !.pc = IF x.idling THEN "idle" ELSE "ready", !.buf = Nothing]
    IN  /\ x.pc = "poll" /\ Listed(s)
        /\ \/ Step(s, [polled EXCEPT !.view = Listing(s)])
           \/ gone /\ ~x.idling /\ Step(s, polled)
        /\ woken' = AfterPoll(s)
        /\ UNCHANGED <<store, owed>>

Deafen(s) == woken' = woken \ {s} /\ owed' = owed \ {s}

\* IDLE takes the signal and then polls, each time round.
Idle(s) ==
    /\ sess[s].kind = "imap"
    /\ sess[s].pc = "ready" \/ (sess[s].pc = "idle" /\ s \in woken)
    /\ Deafen(s)
    /\ Step(s, [sess[s] EXCEPT !.pc = "poll", !.idling = TRUE])
    /\ UNCHANGED store

IdleStop(s) ==
    /\ sess[s].pc = "idle"
    /\ Deafen(s)
    /\ Step(s, [sess[s] EXCEPT !.pc = "ready", !.idling = FALSE])
    /\ UNCHANGED store

\* UNSELECT, LOGOUT or a broken connection; closing a POP3 session rolls its
\* marks back.
Leave(s) ==
    /\ sess[s].pc \in {"ready", "quit"} /\ Step(s, Off)
    /\ UNCHANGED <<store, signals>>

\* STORE on one message; EXPUNGE, which goes from the last message to the
\* first by the flags of the snapshot; QUIT, which deletes what is marked in
\* any order.
Deleted(s)  == {i \in DOMAIN sess[s].view : sess[s].view[i].del}
Work1(s, label, i) ==
    /\ Step(s, [sess[s] EXCEPT !.pc = label, !.at = i])
    /\ UNCHANGED <<store, signals>>

Flag(s, i) ==
    sess[s].kind = "imap" /\ sess[s].pc = "ready" /\ Work1(s, "flag", i)

Expunge(s) ==
    /\ sess[s].kind = "imap" /\ sess[s].pc = "ready" /\ Deleted(s) # {}
    /\ Work1(s, "remove", Max(Deleted(s)))

Quit(s, i) ==
    sess[s].pc \in {"ready", "quit"} /\ i \in sess[s].marks /\ Work1(s, "remove", i)

\* DELE marks a message, RSET unmarks all.
Mark(s, i) ==
    /\ sess[s].kind = "pop" /\ sess[s].pc = "ready"
    /\ \/ Step(s, [sess[s] EXCEPT !.marks = @ \cup {i}])
       \/ Step(s, [sess[s] EXCEPT !.marks = {}])
    /\ UNCHANGED <<store, signals>>

\* ids[uid] of the listing.
Mutant_ByNumber(s) == {Listing(s)[i] : i \in {sess[s].at} \cap DOMAIN Listing(s)}
Found(s) == {r \in sess[s].buf : r.uid = sess[s].view[sess[s].at].uid}

\* jmapUpdateFlags: a message that is not listed any more loses its flags in
\* the snapshot, and one that is destroyed in between fails the command.
FlagSet(s) ==
    LET x    == sess[s]
        seen(value) == Step(s, Ready([x EXCEPT !.view[x.at].del = value]))
    IN  /\ x.pc = "flag" /\ Listed(s)
        /\ \/ Found(s) = {} /\ Quiet /\ seen(FALSE)
           \/ \E r \in Found(s), value \in {TRUE} :
                IF mail[r.id].in = {} THEN Quiet /\ Step(s, Ready(x))
                ELSE /\ \E N \in Own(s) :
                          /\ Publish([mail EXCEPT ![r.id].del = value], N)
                          /\ seen(value) \/ (N = {} /\ Step(s, Ready(x)))
                     /\ UNCHANGED next
        /\ UNCHANGED <<made, folder>>

\* The message in hand is removed, or was gone already: on to the next.
Removed(x) ==
    IF x.kind = "imap" THEN Ready([x EXCEPT !.view = RemoveAt(@, x.at)])
    ELSE [Ready([x EXCEPT !.marks = @ \ {x.at}]) EXCEPT !.pc = "quit"]

\* A command that fails ends IDLE; a failed SELECT, login or QUIT its session.
Failed(x) ==
    IF x.kind = "imap" /\ x.pc # "select" THEN [Ready(x) EXCEPT !.idling = FALSE]
    ELSE Off

\* Any of its requests may fail.
Fail(s) ==
    /\ sess[s].pc \in {"select", "poll", "flag", "remove", "destroy"}
    /\ Step(s, Failed(sess[s]))
    /\ Deafen(s)
    /\ UNCHANGED store

\* jmapRemoveMessage looks the UID up and reads the email's folders.
RemoveFind(s) ==
    LET x == sess[s]
    IN  /\ x.pc = "remove" /\ Listed(s)
        /\ \/ \E r \in Found(s) :
                /\ mail[r.id].in # {}
                /\ Step(s, [x EXCEPT !.pc = "destroy", !.buf = Nothing,
                                     !.target = [id |-> r.id, in |-> mail[r.id].in]])
           \/ /\ \A r \in Found(s) : mail[r.id].in = {}
              /\ Step(s, Removed(x))
        /\ UNCHANGED <<store, signals>>

\* Email/set takes the folder off an email that had several and destroys one
\* that had no other; it fails when the email is gone or would have none.
RemoveSet(s) ==
    LET x    == sess[s]
        e    == x.target.id
        left == IF Cardinality(x.target.in) = 1 THEN {} ELSE mail[e].in \ {x.box}
    IN  /\ x.pc = "destroy"
        /\ IF mail[e].in = {} \/ (left = {} /\ Cardinality(x.target.in) > 1)
           THEN Quiet /\ Step(s, Failed(x))
           ELSE /\ \E N \in Own(s) :
                     /\ Publish([mail EXCEPT ![e] =
                          IF left = {} THEN NoMail ELSE Stored([@ EXCEPT !.in = left])], N)
                     /\ Step(s, Removed(x)) \/ (N = {} /\ Step(s, Failed(x)))
                /\ UNCHANGED next
        /\ UNCHANGED <<made, folder>>

-----------------------------------------------------------------------------
MailboxInit ==
    /\ mail   = [e \in Email |-> NoMail] /\ made = {}
    /\ folder = [b \in Box |-> IF b = Inbox THEN "keyed" ELSE "absent"]
    /\ next   = [b \in Box |-> IF b = Inbox THEN 1 ELSE 0]
    /\ top    = [b \in Box |-> 0]
    /\ sess   = [s \in Session |-> Off]
    /\ woken  = {} /\ owed = {}

Command(s) == ListRead(s) \/ ListAssign(s) \/ SelectDone(s) \/ PollDone(s)
                \/ FlagSet(s) \/ RemoveFind(s) \/ RemoveSet(s)
IdleRound(s) == sess[s].pc = "idle" /\ Idle(s)

MailboxNext ==
    \/ \E b \in Box : Import(b) \/ Create(b) \/ CreateMetadata(b) \/ DeleteMailbox(b)
    \/ \E e \in Email, b \in Box : UidCall(e, b)
    \/ \E e \in Email : \E boxes \in SUBSET Box : JmapSet(e, boxes)
    \/ \E n \in Node : Tick(n)
    \/ \E s \in Session :
         \/ \E b \in Box : Select(s, b)
         \/ Command(s) \/ Fail(s) \/ Poll(s) \/ Idle(s) \/ IdleStop(s) \/ Leave(s) \/ Expunge(s)
         \/ \E i \in DOMAIN sess[s].view : Flag(s, i) \/ Mark(s, i) \/ Quit(s, i)

MailboxSpec == MailboxInit /\ [][MailboxNext]_mailboxVars

\* The server runs the commands it has begun, and IDLE goes round when its
\* signal is closed; a session does one thing at a time.  Nothing is asked of
\* clients, nor of the ticker.
FairMailboxSpec == MailboxSpec /\ \A s \in Session : WF_mailboxVars(Command(s) \/ IdleRound(s))

-----------------------------------------------------------------------------
(* Properties *)

Entry  == [id : Email, uid : Nat, del : BOOLEAN]
States == {"absent", "bare", "keyed", "gone"}

SessionState ==
    [pc     : {"off", "select", "ready", "poll", "idle", "flag", "remove", "destroy", "quit"},
     kind   : {"imap", "pop"}, box : Box, key : States,
     view   : Seq(Entry), buf : (SUBSET Entry) \cup {Nothing}, at : Nat,
     target : [id : Email, in : SUBSET Box] \cup {Nothing},
     idling : BOOLEAN, marks : SUBSET Nat]

\* The types of all variables; a snapshot has UIDs for all its messages, and
\* what a session works on and has marked is in it.
MailboxTypeOK ==
    /\ mail \in [Email -> [in : SUBSET Box, uid : [Box -> Nat], del : BOOLEAN]]
    /\ made \subseteq Email
    /\ folder \in [Box -> States]
    /\ next \in [Box -> Nat] /\ top \in [Box -> Nat]
    /\ woken \subseteq Session /\ owed \subseteq Session
    /\ sess \in [Session -> SessionState]
    /\ \A s \in Session :
         /\ \A i \in DOMAIN sess[s].view : sess[s].view[i].uid # 0
         /\ sess[s].at \in {0} \cup DOMAIN sess[s].view
         /\ sess[s].marks \subseteq DOMAIN sess[s].view

\* A message that appears in a folder has a UID above every UID that any
\* message ever had there: none is reused, neither by a second message nor
\* by one that comes back.
UidsAscend ==
    [][\A e \in Email, b \in Box :
         Shown(mail', e, b) \notin {0, Shown(mail, e, b)} =>
           Shown(mail', e, b) > top[b]]_mailboxVars

\* EXPUNGE and QUIT destroy the email that the session's client saw under
\* that number, however long ago, and never another in its place.
RemovesMeant ==
    \A s \in Session : sess[s].target # Nothing =>
        sess[s].target.id = sess[s].view[sess[s].at].id

\* The snapshot of a client in IDLE gains every message that comes and loses
\* every one that goes, once a commit is confirmed to the client's own process
\* or its ticker signals, whatever is committed during the poll; without the
\* ticker, it may miss what other processes commit, or what its own commits
\* without learning of it.  (Poll then announces what differs, but an arrival
\* only if the number of messages has changed.)
Behind(s, e) ==
    sess[s].idling /\ (\E r \in ToSet(sess[s].view) : r.id = e) # (e \in Now(s))

IdleFollows ==
    \A s \in Session, e \in Email :
        s \in owed /\ Behind(s, e) ~> ~Behind(s, e)
=============================================================================
