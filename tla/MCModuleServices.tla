--------------------------- MODULE MCModuleServices ---------------------------
(* Small instances of ModuleServices for TLC. *)
EXTENDS ModuleServices, TLC

CONSTANTS r1, r2, r3

MCRunspace  == {r1, r2}
MCRunspaces == {r1, r2, r3}
MCSymmetry  == Permutations(MCRunspaces)
===============================================================================
