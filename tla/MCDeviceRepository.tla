-------------------------- MODULE MCDeviceRepository --------------------------
(* Small instances of DeviceRepository for TLC: one app and two shells for the  *)
(* safety of the store, one of each where liveness makes symmetry unsound.      *)
EXTENDS DeviceRepository, TLC

CONSTANTS a1, s1, s2, d1, d2

MCApp     == {a1}
MCShells  == {s1, s2}
MCShell   == {s1}
MCDevices == {d1, d2}
MCDevice  == {d1}

\* Shells are interchangeable, and so are devices.
MCSymmetry == Permutations(MCShells) \cup Permutations(MCDevices)
===============================================================================
