---------------------------- MODULE AccountStore ----------------------------
(***************************************************************************)
(* What the S3-backed JMAP account store promises its callers (README.md,  *)
(* "Each batch writes immutable prepare objects, then publishes the        *)
(* transaction decision with an ETag condition"): batches are applied      *)
(* whole and one after the other, each to the newest state; a node answers *)
(* reads from one committed state; and as long as it runs neither a later  *)
(* read nor a write it confirms takes it back to an earlier one.           *)
(* OwnerStore implements it with one object per record, an account file    *)
(* and per-node caches.                                                    *)
(***************************************************************************)
EXTENDS Integers, FiniteSetsExt

CONSTANTS
    Node,     \* processes serving the account
    Field,    \* the keys of the account
    Batches,  \* the batches clients send
    Legacy,   \* the account when the history begins
    MaxTx,    \* bound: transactions drawn
    None      \* "not committed"

VARIABLES
    hist,   \* the state each committed transaction produced
    view    \* the transaction and the state each node answers from

vars == <<hist, view>>

Tx        == 0..MaxTx
Committed == {t \in Tx : hist[t] # None}
Newest    == Max(Committed)

\* A batch creates or increments a value, deletes it, or leaves it alone.
Change(op, v) == CASE op = "add"  -> v + 1
                   [] op = "del"  -> 0
                   [] op = "keep" -> v

Applied(b, s) == [f \in Field |-> Change(b[f], s[f])]

Init ==
    /\ hist = [t \in Tx |-> IF t = 0 THEN Legacy ELSE None]
    /\ view = [n \in Node |-> [tx |-> 0, data |-> Legacy]]

Commit(t, s) ==
    /\ t > Newest
    /\ hist' = [hist EXCEPT ![t] = s]
    /\ UNCHANGED view

\* The upgrade of a legacy account changes its layout, not its content.
Upgrade(t) == Newest = 0 /\ Commit(t, Legacy)

Show(n, t) ==
    /\ view' = [view EXCEPT ![n] = [tx |-> t, data |-> hist[t]]]
    /\ UNCHANGED hist

Adopt(n, t) == t \in Committed /\ view[n].tx <= t /\ Show(n, t)

Restart(n) == Show(n, 0)

Next ==
    \/ \E n \in Node : Restart(n) \/ \E t \in Tx : Adopt(n, t)
    \/ \E t \in Tx : \/ Upgrade(t)
                     \/ \E b \in Batches : Commit(t, Applied(b, hist[Newest]))

Spec == Init /\ [][Next]_vars
=============================================================================
