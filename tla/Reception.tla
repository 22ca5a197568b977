----------------------------- MODULE Reception -----------------------------
(***************************************************************************)
(* Mail enters the system: an SMTP session and a JMAP submission resolve   *)
(* recipients through the directory of accounts, aliases and proxies, and  *)
(* store a message with its local copies, the sender's copy and the task   *)
(* of its remote recipients, one after the other.  main.go: smtpSession,   *)
(* resolveIdentity, resolveDelivery, deliverMailStream, proxyStreamPrefix  *)
(* and jmapSubmitter.                                                      *)
(*                                                                         *)
(* A name is looked up with one read of the store after the other, and the *)
(* administrator may rewrite the directory between any two of them.        *)
(*                                                                         *)
(* There is one message body, sent again and again.  Mail that has left    *)
(* the system may come back to it.  Recipients are sets: the order of RCPT *)
(* only decides which copies exist when one fails, and any may.            *)
(***************************************************************************)
EXTENDS Naturals, FiniteSets

CONSTANTS
    User,      \* local names: accounts, aliases and proxies
    Ext,       \* addresses of domains that are not hosted here
    None,
    Dirs,      \* the directories that the administrator may set up
    Wanted,    \* the recipients of the submission
    Hops,      \* 16: names looked up for one recipient
    HopLimit,  \* 16: proxies that a message may pass, by its header
    MaxOut     \* bound on the messages under way outside

Address == User \cup Ext

\* An entry of the directory: the content of .kind, and of .alias and .proxy,
\* where one may be left over from a former kind.
Link  == {"alias", "proxy"}
Entry == [kind : {"account", "none"} \cup Link, to : [Link -> Address \cup {None}]]

ASSUME ReceptionAssumption ==
    /\ Hops \in Nat \ {0} /\ HopLimit \in Nat \ {0} /\ MaxOut \in Nat
    /\ Wanted \subseteq Address /\ User \cap Ext = {} /\ None \notin Address
    /\ Dirs \subseteq [User -> Entry] /\ IsFiniteSet(User)

\* An alias names an account, alias or proxy of its own domain (aliasTarget).
ASSUME AliasAssumption ==
    \A d \in Dirs, u \in User : d[u].to["alias"] \in User \cup {None}

VARIABLES
    dir,   \* the directory
    look,  \* the lookups under way of the SMTP session and the submission
    sess,  \* the SMTP session
    out,   \* forwarded messages in the outbound queue, or sent, that may come
           \* back: a message that no proxy has forwarded is like a new one
    sub    \* the JMAP submission

vars == <<dir, look, sess, out, sub>>

-----------------------------------------------------------------------------
(* What the documentation promises of a name, whatever the way to find it:  *)
(* the account or outside address in which the chain of its entries ends.   *)

Is(u, kinds) == u \in User /\ dir[u].kind \in kinds
Target(u)    == dir[u].to[dir[u].kind]
Ends         == Ext \cup {u \in User : dir[u].kind = "account"}

Closed(S, kinds)   == \A u \in S : Is(u, kinds) => Target(u) \in S \cup {None}
Trail(from, kinds) ==
    {b \in Address : \A S \in SUBSET Address : from \in S /\ Closed(S, kinds) => b \in S}
Meant(from, kinds) == Trail(from, kinds) \cap Ends

-----------------------------------------------------------------------------
(* State. *)

\* A message as others see it: the hops in its header, and the proxies that
\* forwarded it outside.
Plain == [hops |-> 0, passed |-> 0]

\* recipients, remote and proxies are the session's; left are the copies to
\* make, mail the message of DATA.  asked, copied and queued are history: the
\* ends at which the recipients of this transaction were accepted, the copies
\* made, whether the sender has one and the remote recipients queued since MAIL.
Fresh == [pc |-> "idle", user |-> None, recipients |-> {}, remote |-> {},
          proxies |-> {}, left |-> {}, mail |-> Plain,
          asked |-> {}, copied |-> {}, sent |-> FALSE, queued |-> {}]

\* The recipients of a submission still to be tried, the results of the call
\* and those on record, and history: recipients that were served.
NoResults == [a \in Wanted |-> "none"]
Unsent == [pc |-> "idle", left |-> {}, call |-> NoResults,
           record |-> NoResults, served |-> {}]

\* A lookup: what for, the name asked for, the name it has come to, what to
\* read of it next ("kind", "alias", "proxy") or how it ended, the names read
\* before, and the first proxy on the way, which is told of failures.  still is
\* history: the directory has been the same since it began.
NoLookup == [for |-> "none", from |-> None, at |-> None, next |-> "none",
             seen |-> {}, owner |-> None, still |-> TRUE]

Init ==
    /\ dir \in Dirs
    /\ look = [w \in {"smtp", "jmap"} |-> NoLookup]
    /\ sess = Fresh
    /\ out  = {}
    /\ sub  = Unsent

\* The administrator writes the directory objects at any time.
Changed(x) == IF x.for = "none" THEN x ELSE [x EXCEPT !.still = FALSE]

Rewire ==
    /\ dir' \in Dirs \ {dir}
    /\ look' = [w \in DOMAIN look |-> Changed(look[w])]
    /\ UNCHANGED <<sess, out, sub>>

-----------------------------------------------------------------------------
(* Lookups, a read of the store at a time: resolveIdentity, which follows   *)
(* aliases to the account of a login or a sender, and resolveDelivery, which *)
(* follows proxies as well.                                                  *)

Kinds(x) == IF x.for \in {"rcpt", "submit"} THEN Link ELSE {"alias"}

Free(w)        == look[w].for = "none"
Found(w, what) == look[w].for = what /\ look[w].next = "found"
Lookup(w, x)   == look' = [look EXCEPT ![w] = x]
Asking         == UNCHANGED <<dir, sess, out, sub>>

Ask(w, what, name) ==
    /\ Free(w)
    /\ Lookup(w, [NoLookup EXCEPT !.for = what, !.from = name, !.at = name, !.next = "kind"])
    /\ Asking

\* A name read before is a loop, and after so many the chain is too long.
Mutant_OneLookupLess(x) == x.at \in x.seen \/ Cardinality(x.seen) >= Hops - 1
TooFar(x) == x.at \in x.seen \/ Cardinality(x.seen) >= Hops

\* An account must have a password, whose read may only fail.
ReadKind(w) ==
    LET x    == look[w]
        kind == dir[x.at].kind
    IN  /\ x.next = "kind"
        /\ Lookup(w, IF TooFar(x) THEN [x EXCEPT !.next = "refused"]
                     ELSE IF kind = "account" THEN [x EXCEPT !.next = "found"]
                     ELSE IF kind \in Kinds(x)
                     THEN [x EXCEPT !.next = kind, !.seen = @ \cup {x.at}]
                     ELSE [x EXCEPT !.next = "refused"])
        /\ Asking

ReadTarget(w) ==
    LET x  == look[w]
        to == dir[x.at].to[x.next]
    IN  /\ x.next \in Link
        /\ Lookup(w, IF to = None THEN [x EXCEPT !.next = "refused"]
                     ELSE [x EXCEPT !.at    = to,
                                    !.next  = IF to \in Ext THEN "found" ELSE "kind",
                                    !.owner = IF @ = None /\ x.next = "proxy" THEN x.at ELSE @])
        /\ Asking

-----------------------------------------------------------------------------
(* The SMTP session. *)

Quiet == UNCHANGED <<dir, look, out, sub>>

\* The command that asked has its answer.
Answered == Lookup("smtp", NoLookup) /\ UNCHANGED <<dir, out, sub>>

\* The name is refused, its password or another identity that the login asks
\* for does not fit, or the store fails: the command fails, nothing else.
CommandFails ==
    /\ ~Free("smtp")
    /\ UNCHANGED sess
    /\ Answered

Auth(u) ==
    /\ sess.pc = "idle" /\ sess.user = None
    /\ Ask("smtp", "auth", u)

AuthEnds ==
    /\ Found("smtp", "auth")
    /\ sess' = [sess EXCEPT !.user = look["smtp"].at]
    /\ Answered

\* Reset forgets all recipients; the login stays.
Mutant_ResetKeepsProxies == [Fresh EXCEPT !.user = sess.user, !.proxies = sess.proxies,
                                          !.remote = sess.remote]
Cleared == [Fresh EXCEPT !.user = sess.user]

\* Who has logged in sends under a name of that account.
Mail ==
    /\ sess.pc \in {"idle", "mail"} /\ sess.user = None /\ Free("smtp")
    /\ sess' = [Cleared EXCEPT !.pc = "mail"]
    /\ Quiet

MailFrom(from) ==
    /\ sess.pc \in {"idle", "mail"} /\ sess.user # None
    /\ Ask("smtp", "mail", from)

MailEnds ==
    /\ Found("smtp", "mail") /\ look["smtp"].at = sess.user
    /\ sess' = [Cleared EXCEPT !.pc = "mail"]
    /\ Answered

\* RCPT: only a logged-in sender names outside addresses; a local name is
\* looked up, for an account, or an outside address and the proxy to tell.
RcptOutside(to) ==
    /\ sess.pc = "mail" /\ sess.user # None /\ Free("smtp")
    /\ sess' = [sess EXCEPT !.remote = @ \cup {to}, !.asked = @ \cup {to}]
    /\ Quiet

Rcpt(to) ==
    /\ sess.pc = "mail"
    /\ Ask("smtp", "rcpt", to)

RcptEnds ==
    LET end == look["smtp"].at
    IN  /\ Found("smtp", "rcpt")
        /\ sess' = IF end \in User
                   THEN [sess EXCEPT !.recipients = @ \cup {end}, !.asked = @ \cup {end}]
                   ELSE [sess EXCEPT !.remote  = @ \cup {end}, !.asked = @ \cup {end},
                                     !.proxies = @ \cup {<<end, look["smtp"].owner>>}]
        /\ Answered

\* The library resets the session after DATA and on RSET.
Reset ==
    /\ sess.pc \in {"mail", "ok", "failed"} /\ Free("smtp")
    /\ sess' = Cleared
    /\ Quiet

\* A failed step ends DATA with an error; the client may try again.
DataFails ==
    /\ sess.pc \in {"store", "local", "sent", "task"}
    /\ sess' = [sess EXCEPT !.pc = "failed", !.left = {}]
    /\ Quiet

\* DATA stores the stream and, if a proxy is among the recipients, reads the
\* hops of its header; too many end it.
Mutant_HopUnread == TRUE
HopsLeft == sess.mail.hops < HopLimit

Mutant_SameHops(m) == [m EXCEPT !.passed = @ + 1]
Forwarded(m) == [hops |-> m.hops + 1, passed |-> m.passed + 1]
Leaves(m)    == out' = out \cup ({m} \ {Plain}) /\ Cardinality(out') <= MaxOut

Data ==
    /\ sess.pc = "mail" /\ Free("smtp") /\ sess.recipients \cup sess.remote # {}
    /\ \E m \in {Plain} \cup out :
           sess' = [sess EXCEPT !.pc = "store", !.mail = m]
    /\ Quiet

Store ==
    /\ sess.pc = "store"
    /\ sess' = IF sess.proxies = {}
               THEN [sess EXCEPT !.pc = "local", !.left = sess.recipients]
               ELSE IF HopsLeft
               THEN [sess EXCEPT !.pc = "local", !.left = sess.recipients,
                                 !.mail = Forwarded(@)]
               ELSE [sess EXCEPT !.pc = "failed"]
    /\ Quiet

\* One copy.  An error may follow it, as its UID is given by a second commit.
Deliver ==
    /\ sess.pc = "local"
    /\ \E a \in sess.left : \E pc \in {"local", "failed"} :
           sess' = [sess EXCEPT !.pc = pc, !.left = @ \ {a}, !.copied = @ \cup {a}]
    /\ Quiet

Mutant_NotAll == sess.copied # {} \/ sess.left = {}
LocalDone == sess.left = {}

LocalEnds ==
    /\ sess.pc = "local" /\ LocalDone
    /\ sess' = [sess EXCEPT !.pc = "sent", !.left = {}]
    /\ Quiet

\* The sender's copy; an existing one of the same body serves.
Archive ==
    /\ sess.pc = "sent"
    /\ \E pc \in {"task", "failed"} : sess' = [sess EXCEPT !.pc = pc, !.sent = sess.user # None]
    /\ Quiet

\* The task is written last; the reply to that PUT may be lost.
Enqueue ==
    /\ sess.pc = "task"
    /\ \/ sess.remote = {} /\ sess' = [sess EXCEPT !.pc = "ok"] /\ UNCHANGED out
       \/ /\ sess.remote # {} /\ Leaves(sess.mail)
          /\ \E pc \in {"ok", "failed"} :
                 sess' = [sess EXCEPT !.pc = pc, !.queued = sess.remote]
    /\ UNCHANGED <<dir, look, sub>>

\* The node or the connection dies; stored objects stay.
Drop == sess # Fresh /\ sess' = Fresh /\ Answered

-----------------------------------------------------------------------------
(* The JMAP submission.  The worker that calls Submit, records its results  *)
(* and repeats the recipients without a final one is the JMAP library's.    *)

Calm     == UNCHANGED <<dir, sess>>
Answer   == Lookup("jmap", NoLookup)

Final(a) == sub.record[a] \in {"accepted", "rejected"}

Submit ==
    /\ sub.pc = "idle" /\ \E a \in Wanted : ~Final(a)
    /\ sub' = [sub EXCEPT !.pc = "run", !.left = {a \in Wanted : ~Final(a)}]
    /\ Calm /\ UNCHANGED <<look, out>>

SubmitAsk(a) ==
    /\ sub.pc = "run" /\ a \in sub.left \cap User
    /\ Ask("jmap", "submit", a)

\* A recipient has its turn, and for a local name what its lookup has found.
Reached(a, end) ==
    \/ a \in Ext /\ Free("jmap") /\ end = a
    \/ Found("jmap", "submit") /\ look["jmap"].from = a /\ end = look["jmap"].at

\* The message goes to an account, or outside without another header.
Direct(a)      == [Plain EXCEPT !.passed = IF a \in User THEN 1 ELSE 0]
Result(a, res) == [sub EXCEPT !.left = @ \ {a}, !.call[a] = res]
Served(a)      == [Result(a, "accepted") EXCEPT !.served = @ \cup {a}]

SubmitOne(a, end) ==
    /\ sub.pc = "run" /\ a \in sub.left /\ Reached(a, end)
    /\ \/ end \in User /\ sub' = Served(a) /\ UNCHANGED out
       \/ end \in Ext /\ sub' = Served(a) /\ Leaves(Direct(a))
       \/ \E res \in {"failed", "rejected"} : sub' = Result(a, res) /\ UNCHANGED out
    /\ Calm /\ Answer

\* A name that cannot be looked up, whatever the reason, is rejected for good.
SubmitRejects(a) ==
    /\ look["jmap"].for = "submit" /\ look["jmap"].from = a /\ look["jmap"].next # "found"
    /\ sub' = Result(a, "rejected")
    /\ Calm /\ Answer /\ UNCHANGED out

\* Whoever has not been tried when the call ends has no result.
Mutant_AllGood(a) == IF sub.call[a] = "none" THEN "accepted" ELSE sub.call[a]
Outcome(a) == IF sub.call[a] = "none" THEN sub.record[a] ELSE sub.call[a]

SubmitEnds ==
    /\ sub.pc = "run" /\ Free("jmap")
    /\ sub' = [sub EXCEPT !.pc = "idle", !.left = {}, !.call = NoResults,
                          !.record = [a \in Wanted |-> Outcome(a)]]
    /\ Calm /\ UNCHANGED <<look, out>>

\* The worker dies, or its claim passes to another, before it records them.
SubmitLost ==
    /\ sub.pc = "run"
    /\ sub' = [sub EXCEPT !.pc = "idle", !.left = {}, !.call = NoResults]
    /\ Calm /\ Answer /\ UNCHANGED out

-----------------------------------------------------------------------------
Session ==
    \/ \E u \in User : Auth(u) \/ MailFrom(u) \/ Rcpt(u)
    \/ \E a \in Ext : RcptOutside(a)
    \/ Mail \/ AuthEnds \/ MailEnds \/ RcptEnds \/ CommandFails
    \/ Reset \/ Data \/ Store \/ Deliver \/ LocalEnds \/ Archive \/ Enqueue
    \/ DataFails \/ Drop

Submission ==
    \/ Submit \/ SubmitEnds \/ SubmitLost
    \/ \E a \in Wanted : SubmitAsk(a) \/ SubmitRejects(a)
    \/ \E a \in Wanted, end \in Address : SubmitOne(a, end)

Reads == \E w \in {"smtp", "jmap"} : ReadKind(w) \/ ReadTarget(w)

Next == Session \/ Submission \/ Reads \/ Rewire

Spec == Init /\ [][Next]_vars

-----------------------------------------------------------------------------
(* Properties. *)

\* A lookup during which the directory stays the same finds what the directory
\* means, of a recipient or a login: the one end of the chain, however it is
\* made.  It refuses a name only if its chain ends nowhere, as a loop does, or
\* has more names than may be looked up (resolveDelivery, resolveIdentity;
\* README.md:738-740, 749).
RouteRight ==
    \A w \in {"smtp", "jmap"} :
        LET x == look[w]
        IN  x.still =>
              /\ x.next = "found" => Meant(x.from, Kinds(x)) = {x.at}
              /\ x.next = "refused" =>
                   \/ Meant(x.from, Kinds(x)) = {}
                   \/ Cardinality(Trail(x.from, Kinds(x)) \cap User) > Hops

\* After "250" to DATA, every recipient of the transaction that was accepted
\* has its copy or its place in a task, at the end that its lookup found, and
\* the sender a copy: nothing the client was told is left to a later step.  And
\* no recipient or proxy of an earlier transaction, finished, failed or reset,
\* leaks into this one, whoever has logged in in between.
AcceptedWhole ==
    /\ sess.copied \cup sess.queued \subseteq sess.asked
    /\ sess.pc = "ok" =>
          /\ sess.asked \subseteq sess.copied \cup sess.queued
          /\ sess.user # None => sess.sent

\* A task is only written when the local copies are there: whatever fails
\* before, and however often the client retries, nothing has been sent outside
\* for a transaction that was refused half way.
TaskLast ==
    sess.queued # {} =>
        /\ sess.asked \cap User \subseteq sess.copied
        /\ sess.user # None => sess.sent

\* A message that comes back from outside passes our proxies a bounded number
\* of times: the header counts it.  A submission forwards it once more than
\* README.md:748-749 allow, as it adds no header.
ForwardingEnds == \A m \in out : m.passed <= HopLimit + 1

\* A recipient on record as accepted was served, though calls end early, are
\* repeated, or lose their results, and lookups fail.
AcceptedServed == \A a \in Wanted : sub.record[a] = "accepted" => a \in sub.served

\* The shape of the state; every proxy has its outside address among the
\* remote recipients.
Message == [hops : 0 .. HopLimit, passed : Nat]
Sessions ==
    [pc : {"idle", "mail", "store", "local", "sent", "task", "ok", "failed"},
     user : User \cup {None}, recipients : SUBSET User, remote : SUBSET Ext,
     proxies : SUBSET (Ext \X User), left : SUBSET User, mail : Message,
     asked : SUBSET Address, copied : SUBSET User, sent : BOOLEAN, queued : SUBSET Ext]
Results == {"none", "accepted", "rejected", "failed"}

Lookups ==
    [for : {"none", "auth", "mail", "rcpt", "submit"}, from : User \cup {None},
     at : Address \cup {None}, next : {"none", "kind", "found", "refused"} \cup Link,
     seen : SUBSET User, owner : User \cup {None}, still : BOOLEAN]

TypeOK ==
    /\ dir \in Dirs /\ look \in [{"smtp", "jmap"} -> Lookups] /\ out \subseteq Message
    /\ sess \in Sessions /\ sess.proxies \subseteq sess.remote \X User
    /\ sub \in [pc : {"idle", "run"}, left : SUBSET Wanted,
               call : [Wanted -> Results], record : [Wanted -> Results],
               served : SUBSET Wanted]
=============================================================================
