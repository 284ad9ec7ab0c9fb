------------------------------ MODULE MCHandshake ------------------------------
(* Instances of Handshake for TLC. *)
EXTENDS Handshake

AllWPA2 == [s \in STA |-> "WPA2"]
AllWPA == [s \in STA |-> "WPA"]
AllPSK == [s \in STA |-> "PSK"]
OneGroup == <<"default">>
=============================================================================
