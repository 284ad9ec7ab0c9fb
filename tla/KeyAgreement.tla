----------------------------- MODULE KeyAgreement -----------------------------
(***************************************************************************)
(* What the 4-way handshake promises about pairwise keys, without frames,  *)
(* timers or state machines: the AP's driver is only ever given the key    *)
(* that the station's driver was given last, and never a second time.      *)
(* Keys are <<ANonce, SNonce>>, nonces grow.                               *)
(***************************************************************************)
EXTENDS Naturals

CONSTANTS STA

VARIABLES
    station,    \* station[s]: the key the driver of s was given last
    ap,         \* ap[s]: the key the AP's driver uses for s now
    last,       \* last[s]: the key the AP's driver was given last for s
    times       \* times[s]: how often the AP's driver was given one for s

kvars == <<station, ap, last, times>>

Key == Nat \X Nat
None == <<0, 0>>

Newer(k, l) == k[1] >= l[1] /\ k[2] > l[2]

KInit ==
    /\ station = [s \in STA |-> None]
    /\ ap = [s \in STA |-> None]
    /\ last = [s \in STA |-> None]
    /\ times = [s \in STA |-> 0]

\* A repeated message 3/4 gives the station's driver the same key again, which
\* changes nothing: a stuttering step.
StationInstalls(s) ==
    /\ station'[s] \in Key
    /\ station' = [station EXCEPT ![s] = station'[s]]
    /\ Newer(station'[s], station[s])
    /\ UNCHANGED <<ap, last, times>>

ApInstalls(s) ==
    /\ Newer(station[s], last[s])
    /\ ap' = [ap EXCEPT ![s] = station[s]]
    /\ last' = [last EXCEPT ![s] = station[s]]
    /\ times' = [times EXCEPT ![s] = @ + 1]
    /\ UNCHANGED station

ApRemoves(s) ==
    /\ ap' = [ap EXCEPT ![s] = None]
    /\ UNCHANGED <<station, last, times>>

KNext == \E s \in STA : StationInstalls(s) \/ ApInstalls(s) \/ ApRemoves(s)

KSpec == KInit /\ [][KNext]_kvars
=============================================================================
