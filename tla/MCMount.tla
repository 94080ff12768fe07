------------------------------ MODULE MCMount ------------------------------
(* Mount with no more than model values for its constants. *)
EXTENDS Mount
=============================================================================
