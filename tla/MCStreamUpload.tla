--------------------------- MODULE MCStreamUpload ---------------------------
(* Instances of StreamUpload for TLC. *)
EXTENDS StreamUpload

CONSTANTS u1, u2, o1, n1, x1

TwoUploads == {u1, u2}
OneOther   == {o1}
OneName    == {n1}
OneHandle  == {x1}
OneSlot    == {1}
Procs      == (Handler \X Slot) \cup Other
=============================================================================
