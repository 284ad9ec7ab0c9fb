--------------------------- MODULE MCRadiusClient ---------------------------
(* Instances of RadiusClient for TLC. *)
EXTENDS RadiusClient

Conf(auth, acct, retry) == [auth |-> auth, acct |-> acct, retry_primary_interval |-> retry]

\* One server of each kind, a second server with another secret or with the
\* same secret, only authentication and only accounting.
AllConfs == {Conf(<<"x">>, <<"x">>, FALSE), Conf(<<"x", "y">>, <<"x", "y">>, TRUE),
             Conf(<<"x", "x">>, <<"x">>, FALSE), Conf(<<"x">>, <<>>, FALSE),
             Conf(<<>>, <<"x", "y">>, TRUE)}
OneServer == {Conf(<<"x">>, <<"x">>, FALSE)}
=============================================================================
