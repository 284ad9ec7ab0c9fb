------------------------------ MODULE MCWpaAuth ------------------------------
(* Instances of WpaAuth for TLC. *)
EXTENDS WpaAuth, TLC

AllWPA2 == [s \in STA |-> "WPA2"]
AllWPA == [s \in STA |-> "WPA"]
AllPSK == [s \in STA |-> "PSK"]
AllEAP == [s \in STA |-> "EAP"]
OneGroup == <<"default">>
TwoGroups == <<"default", "vlan1">>
MixedPSK == [s \in STA |-> IF s = "a" THEN "PSK" ELSE "NOPSK"]
Symmetry == Permutations(STA)
=============================================================================
