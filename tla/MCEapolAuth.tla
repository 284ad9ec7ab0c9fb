---------------------------- MODULE MCEapolAuth ----------------------------
(* Instances of EapolAuth for TLC. *)
EXTENDS EapolAuth

OneMethod == <<"tls">>

Conf(w, e, p) == [wpa |-> w, eap_server |-> e, eap_reauth_period |-> p]

AllConfs == {Conf(TRUE, TRUE, 0), Conf(TRUE, FALSE, 0), Conf(FALSE, TRUE, 1)}
Bounds == [c \in AllConfs |-> IF c = Conf(TRUE, TRUE, 0) THEN 2 ELSE 1]

WpaServer == {Conf(TRUE, TRUE, 0)}
WpaServerBounds == [c \in WpaServer |-> 2]

=============================================================================
