--------------------------- MODULE MCShowcaseSystem ---------------------------
(* Small instances of ShowcaseSystem for TLC: the two devices DeviceSeed starts *)
(* in trouble, one degraded and one offline, or one healthy device.             *)
EXTENDS ShowcaseSystem, TLC

CONSTANTS a1, a2, s1, s2, d1, d2

MCApp    == {a1}
MCApps   == {a1, a2}
MCShell  == {s1}
MCShells == {s1, s2}

MCDevice  == {d1}
MCDevices == {d1, d2}

MCHealthySeed  == d1 :> "Online"
MCOfflineSeed  == d1 :> "Offline"
MCSeeds        == d1 :> "Degraded" @@ d2 :> "Offline"

MCSymmetry == Permutations(MCApps) \cup Permutations(MCShells)
===============================================================================
