-------------------------- MODULE OutboundDelivery --------------------------
(***************************************************************************)
(* What the outbound queue promises for one message, seen from its sender: *)
(* every remote recipient ends delivered or failed, once; "delivered" is   *)
(* recorded only after a remote server accepted the message, at least once *)
(* and possibly more often; and the message leaves the queue only when     *)
(* nobody is pending, each failure has been reported and the sender has a  *)
(* copy.  No crash or stale worker loses it before that.  README.md,       *)
(* "Queue ownership and recovery".  OutboundTask implements it.            *)
(***************************************************************************)
CONSTANTS
    Rcpt,  \* the remote recipients of the message
    Gone   \* the message has left the queue

VARIABLES
    ledger,    \* the recorded outcome of each recipient, or Gone
    accepted,  \* recipients a remote server took the message for
    reported,  \* recipients whose failure was reported to the sender
    archived   \* the sender's Sent folder has a copy

vars == <<ledger, accepted, reported, archived>>

Queued == ledger # Gone

Init ==
    /\ ledger   = [r \in Rcpt |-> "pending"]
    /\ accepted = {}
    /\ reported = {}
    /\ archived \in BOOLEAN

\* A remote server accepts the message, perhaps not for the first time.
Accept(r) ==
    /\ accepted' = accepted \cup {r}
    /\ UNCHANGED <<ledger, reported, archived>>

Settle(r, outcome) ==
    /\ Queued /\ ledger[r] = "pending"
    /\ ledger' = [ledger EXCEPT ![r] = outcome]
    /\ UNCHANGED <<accepted, reported, archived>>

Confirm(r) == r \in accepted /\ Settle(r, "delivered")

Fail(r) == Settle(r, "failed")

\* Failures are reported when nobody is pending any more.
Report(R) ==
    /\ Queued => \A r \in Rcpt : ledger[r] # "pending"
    /\ Queued => \A r \in R : ledger[r] = "failed"
    /\ ~Queued => R \subseteq reported
    /\ reported' = reported \cup R
    /\ UNCHANGED <<ledger, accepted, archived>>

Archive ==
    /\ archived' = TRUE
    /\ UNCHANGED <<ledger, accepted, reported>>

Remove ==
    /\ Queued /\ archived
    /\ \A r \in Rcpt : \/ ledger[r] = "delivered"
                       \/ ledger[r] = "failed" /\ r \in reported
    /\ ledger' = Gone
    /\ UNCHANGED <<accepted, reported, archived>>

Next ==
    \/ \E r \in Rcpt : Accept(r) \/ Confirm(r) \/ Fail(r)
    \/ \E R \in SUBSET Rcpt : Report(R)
    \/ Archive \/ Remove

Spec == Init /\ [][Next]_vars
=============================================================================
