----------------------------- MODULE MCMailbox -----------------------------
(* Instances of Mailbox for TLC. *)
EXTENDS Mailbox

CONSTANTS e1, e2, s1, n1

TwoEmails  == {e1, e2}
OneSession == {s1}
OneNode    == {n1}
AtOne      == [s \in Session |-> n1]

NoFiling == [b \in Box |-> 0]
Refiling == [b \in Box |-> IF b = Inbox THEN 1 ELSE 2]
=============================================================================
