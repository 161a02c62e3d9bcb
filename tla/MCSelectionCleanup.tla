------------------------ MODULE MCSelectionCleanup --------------------------
(* Instances of SelectionCleanup for TLC. *)
EXTENDS SelectionCleanup
=============================================================================
