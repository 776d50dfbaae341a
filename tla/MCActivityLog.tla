----------------------------- MODULE MCActivityLog -----------------------------
(* Small instances of ActivityLog for TLC. *)
EXTENDS ActivityLog, TLC

CONSTANTS p1, p2

MCProcess  == {p1, p2}
MCSymmetry == Permutations(MCProcess)
===============================================================================
