------------------------------ MODULE Handshake ------------------------------
(***************************************************************************)
(* The authenticator of WpaAuth and the supplicants of Supplicant, joined  *)
(* by the EAPOL-Key frames in the air: the 4-way handshake and the group   *)
(* key handshake with nonces, replay counters, MICs and keys.              *)
(*                                                                         *)
(* Every step of the authenticator is a step of WpaAuth together with what *)
(* the same code does to the data WpaAuth leaves out: nonces, PTK, replay  *)
(* counters and the frame sent.  Where WpaAuth chooses freely (whether a   *)
(* MIC is right, whether a replay counter is pending) the frame decides.   *)
(* Supplicants run between two events of the authenticator: the steps of   *)
(* one handler and those of a station commute.  Stations use WPA-PSK, send *)
(* no EAPOL-Key Requests and repeat their own IE in message 2/4.  Frames   *)
(* stay in the air for the association they were sent in, those in         *)
(* StaleFrames also for the associations after it.                         *)
(***************************************************************************)
EXTENDS WpaAuth

CONSTANTS
    RandomPoolReady,  \* the answers random_pool_ready() may give
    StaleFrames,      \* messages that may be delivered in a later association
                      \* than the one they were sent in
    MaxCounter,       \* bound: a group's Counter when GTK rekeying starts
    MaxANonce,        \* bound: that Counter when a station associates
    MaxReplayCounter  \* bound: a station's replay counter when PTK rekeying
                      \* starts

VARIABLES supp, air,  \* see Supplicant
    auth,             \* auth[s]: nonces, keys, replay counters of the AP for s
    gk                \* gk[g]: Counter, GTK and GN of struct wpa_group

INSTANCE Supplicant

data == <<supp, air, auth, gk>>
allvars == <<vars, data>>

RSNA_MAX_EAPOL_RETRIES == 4

ASSUME HandshakeAssumption ==
    /\ \A s \in STA : KeyMgmt[s] = "PSK"
    /\ RequestKinds = {}
    /\ RandomPoolReady \subseteq BOOLEAN
    /\ StaleFrames \subseteq {"1/4", "2/4", "3/4", "4/4", "1/2", "2/2"}
    /\ MaxCounter \in Nat /\ MaxANonce \in Nat /\ MaxReplayCounter \in Nat

AuthData ==
    [ANonce |-> 0, SNonce |-> 0, PTK |-> NoKey,
     mic |-> NoKey,             \* last_rx_eapol_key
     counter |-> 0,             \* key_replay[0].counter
     pending |-> 0,             \* how many of key_replay[0..] are valid
     key |-> NoKey,             \* the pairwise key in the driver
     last |-> NoKey,            \* history: the pairwise key installed last,
     times |-> 0]               \* history: how often one was installed

\* GTK[GN] = CalcGTK(), from the next value of Counter.
wpa_gtk_update(k) == [k EXCEPT !.GTK[k.GN] = k.Counter, !.Counter = @ + 1]

HInit ==
    /\ Init
    /\ SuppInit
    /\ auth = [s \in STA |-> AuthData]
    /\ gk = [g \in Group |->
               wpa_gtk_update([Counter |-> 1, GTK |-> [i \in 1..2 |-> 0], GN |-> 1])]

GTK(s) == LET k == gk[sm[s].group] IN <<k.GN, k.GTK[k.GN]>>

-----------------------------------------------------------------------------
(* What the steps of WpaAuth do to the data.                               *)

\* key_replay is shifted and its first entry incremented, whatever happens.
NextReplayCounter(a) ==
    [a EXCEPT !.counter = @ + 1,
              !.pending = IF @ < RSNA_MAX_EAPOL_RETRIES THEN @ + 1 ELSE @]

\* __wpa_send_eapol: a frame with a MIC is not sent without a valid PTK.
__wpa_send_eapol(s, msg, nonce, gtk) ==
    LET a == NextReplayCounter(auth[s])
        f == Frame(msg, a.counter, nonce, IF msg = "1/4" THEN NoKey ELSE a.PTK, gtk)
    IN  /\ auth' = [auth EXCEPT ![s] = a]
        /\ air' = IF msg = "1/4" \/ sm[s].PTK_valid
                  THEN [air EXCEPT ![s] = @ \cup {f}] ELSE air

\* The retry limit is not passed: WpaAuth has armed a timer for the frame.
Sends(s) == sm'[s].timers > sm[s].timers

SendOrNot(s, msg, nonce, gtk) ==
    /\ IF Sends(s) THEN __wpa_send_eapol(s, msg, nonce, gtk)
                   ELSE UNCHANGED <<auth, air>>
    /\ UNCHANGED <<supp, gk>>

\* wpa_remove_ptk: the PTK and the key in the driver.
RemovePTK(a) == [a EXCEPT !.PTK = NoKey, !.key = NoKey]

Mutant_replay_left_valid(a) == [a EXCEPT !.counter = 0]

\* os_memset(&sm->key_replay, 0, ...): replay counters start again.
ClearKeyReplay(a) == [a EXCEPT !.counter = 0, !.pending = 0]

AuthOnly(s, a) ==
    /\ auth' = [auth EXCEPT ![s] = a]
    /\ UNCHANGED <<supp, air, gk>>

wpa_replay_counter_valid(a, rc) == rc \in (a.counter - a.pending + 1)..a.counter

\* A frame of s that wpa_receive does not drop for its replay counter.
Arrives(s, f, msg) ==
    /\ f \in air[s] /\ f.msg = msg
    /\ wpa_replay_counter_valid(auth[s], f.rc)

-----------------------------------------------------------------------------
(* WPA_PTK and WPA_PTK_GROUP.                                              *)

HAuthentication2(s, ready) ==
    LET g == sm[s].group
        k == IF group[g].first_sta_seen THEN gk[g] ELSE wpa_gtk_update(gk[g])
    IN  /\ PTK_AUTHENTICATION2(s, ready)
        /\ auth' = [auth EXCEPT ![s].ANonce = k.Counter]
        /\ gk' = [gk EXCEPT ![g] = [k EXCEPT !.Counter = @ + 1]]
        /\ UNCHANGED <<supp, air>>

HPtkCalcNegotiating(s) ==
    LET ptk == <<auth[s].ANonce, auth[s].SNonce>>
        ok == auth[s].mic = ptk
    IN  /\ PTK_PTKCALCNEGOTIATING(s, ok)
        /\ AuthOnly(s, IF ok THEN [auth[s] EXCEPT !.PTK = ptk] ELSE auth[s])

HPtkInitDone(s, ok) ==
    /\ PTK_PTKINITDONE(s, ok)
    /\ AuthOnly(s, IF ok THEN [auth[s] EXCEPT !.key = auth[s].PTK,
                                               !.last = auth[s].PTK,
                                               !.times = @ + 1]
                   ELSE auth[s])

\* The states of the machines, each with its data.
HMachines(s) ==
    \/ PTK_INITIALIZE(s) /\ AuthOnly(s, RemovePTK(auth[s]))
    \/ PTK_AUTHENTICATION(s) /\ AuthOnly(s, [auth[s] EXCEPT !.PTK = NoKey])
    \/ \E ready \in RandomPoolReady : HAuthentication2(s, ready)
    \/ PTK_PTKSTART(s) /\ SendOrNot(s, "1/4", auth[s].ANonce, NoKey)
    \/ HPtkCalcNegotiating(s)
    \/ /\ PTK_PTKINITNEGOTIATING(s)
       /\ SendOrNot(s, "3/4", auth[s].ANonce,
                    IF Version[s] = "WPA2" THEN GTK(s) ELSE NoKey)
    \/ \E ok \in BOOLEAN : HPtkInitDone(s, ok)
    \/ GROUP_REKEYNEGOTIATING(s) /\ SendOrNot(s, "1/2", 0, GTK(s))
    \/ /\ \/ PTK_stay(s) \/ PTK_DISCONNECT(s) \/ PTK_DISCONNECTED(s)
          \/ PTK_INITPSK(s) \/ PTK_PTKCALCNEGOTIATING2(s)
          \/ GROUP_stay(s) \/ GROUP_IDLE(s) \/ GROUP_REKEYESTABLISHED(s)
          \/ GROUP_KEYERROR(s) \/ GSM_setkeysdone(s) \/ GSM_stay(s)
          \/ wpa_group_update_sta(s)
       /\ UNCHANGED data

-----------------------------------------------------------------------------
(* Group rekeying.                                                         *)

HSetKeys ==
    /\ REKEY_setkeys
    /\ LET g == Head(rekeyq)
       IN  gk' = [gk EXCEPT ![g] = wpa_gtk_update([gk[g] EXCEPT !.GN = 3 - @])]
    /\ UNCHANGED <<supp, air, auth>>

CounterBelow(n) == \A g \in Group : gk[g].Counter < n

HRekey ==
    \/ HSetKeys
    \/ (REKEY_setkeysdone \/ REKEY_stay \/ EACH_done) /\ UNCHANGED data
    \/ wpa_rekey_gtk /\ CounterBelow(MaxCounter) /\ UNCHANGED data

-----------------------------------------------------------------------------
(* Events of the AP.  A station that authenticates or leaves has left its  *)
(* association first; the Association Response starts one on both sides.   *)

HAssociation(s) ==
    \/ handle_assoc(s) /\ UNCHANGED data
    \/ /\ handle_auth(s)
       /\ ~supp[s].joined
       /\ AuthOnly(s, RemovePTK(auth[s]))
    \/ /\ handle_assoc_cb(s) /\ CounterBelow(MaxANonce)
       /\ sm'[s].group = sm[s].group     \* no station has a VLAN of its own
       /\ auth' = [auth EXCEPT ![s] = RemovePTK(@)]
       /\ supp' = [supp EXCEPT ![s] = wpa_sm_notify_assoc(@)]
       /\ air' = [air EXCEPT ![s] = {f \in @ : f.msg \in StaleFrames}]
       /\ UNCHANGED gk
    \/ /\ CONT_assoc(s)
       /\ AuthOnly(s, IF sm[s].started THEN ClearKeyReplay(auth[s]) ELSE auth[s])
    \/ CONT_auth(s) /\ UNCHANGED data
    \/ CONT_reauth(s) /\ AuthOnly(s, RemovePTK(auth[s]))

HDeparture(s) ==
    \/ /\ handle_disassoc(s) \/ handle_deauth(s)
       /\ ~supp[s].joined
       /\ AuthOnly(s, RemovePTK(auth[s]))
    \/ ap_handle_timer_disassoc(s) /\ UNCHANGED data
    \/ /\ ap_handle_timer_remove(s) \/ CONT_free(s)
       /\ AuthOnly(s, [AuthData EXCEPT !.last = auth[s].last, !.times = auth[s].times])

HTimeout(s) ==
    \/ wpa_send_eapol_timeout(s) /\ UNCHANGED data
    \/ /\ wpa_rekey_ptk(s)
       /\ auth[s].counter < MaxReplayCounter
       /\ UNCHANGED data

\* wpa_receive: the kind of the frame, then the MIC if there is a PTK.
Kind == [msg \in {"2/4", "4/4", "2/2"} |->
           CASE msg = "2/4" -> "PAIRWISE_2"
             [] msg = "4/4" -> "PAIRWISE_4"
             [] msg = "2/2" -> "GROUP_2"]

HReceive(s, f) ==
    \/ /\ Arrives(s, f, "2/4")
       /\ wpa_receive_entropy(s)
       /\ UNCHANGED data
    \/ \E msg \in DOMAIN Kind :
         /\ Arrives(s, f, msg)
         /\ \/ /\ sm[s].PTK_valid /\ f.mic # auth[s].PTK
               /\ wpa_receive_bad_mic(s, Kind[msg])
               /\ UNCHANGED data
            \/ /\ sm[s].PTK_valid => f.mic = auth[s].PTK
               /\ wpa_receive_key(s, Kind[msg])
               /\ AuthOnly(s, [auth[s] EXCEPT !.pending = 0, !.mic = f.mic,
                                              !.SNonce = f.nonce])

HSupplicant(s) ==
    /\ pc = "idle"
    /\ Leave(s) \/ wpa_sm_rx_eapol(s)
    /\ UNCHANGED <<vars, auth, gk>>

HNext ==
    \/ HRekey
    \/ \E s \in STA :
         \/ HMachines(s) \/ HAssociation(s) \/ HDeparture(s) \/ HTimeout(s)
         \/ \E f \in air[s] : HReceive(s, f)
         \/ HSupplicant(s)

HSpec == HInit /\ [][HNext]_allvars

-----------------------------------------------------------------------------
(* Properties.                                                             *)

Keys == Nat \X Nat
Frames == [msg : {"1/4", "2/4", "3/4", "4/4", "1/2", "2/2"}, rc : Nat,
           nonce : Nat, mic : Keys, gtk : Keys]

\* The data have their types; the pending replay counters are counters the AP
\* has used in this association, and some are pending iff WpaAuth says so.
HandshakeTypeOK ==
    /\ \A s \in STA :
         /\ air[s] \subseteq Frames
         /\ supp[s] \in [joined : BOOLEAN, anonce : Nat, snonce : Nat,
                         renew_snonce : BOOLEAN, tptk : Keys, ptk : Keys,
                         rx : Nat, key : Keys, gtk : Keys, last : Keys]
         /\ auth[s] \in [ANonce : Nat, SNonce : Nat, PTK : Keys, mic : Keys,
                         counter : Nat, pending : 0..RSNA_MAX_EAPOL_RETRIES,
                         key : Keys, last : Keys, times : Nat]
         /\ auth[s].pending <= auth[s].counter
         /\ sm[s].replay_valid <=> auth[s].pending > 0
    /\ gk \in [Group -> [Counter : Nat, GTK : [1..2 -> Nat], GN : 1..2]]

\* The station believes in the association the AP has.
InTouch(s) == pc = "idle" /\ Associated(s) /\ supp[s].joined

\* Once the AP has completed a 4-way handshake, both drivers use the same
\* pairwise key, also after lost and repeated messages, after PTK rekeying and
\* after (re)associations whose old frames are still under way.
Agreement ==
    \A s \in STA : InTouch(s) /\ sm[s].wpa_ptk_state = "PTKINITDONE"
                     /\ sm[s].pairwise_set
        => auth[s].key # NoKey /\ auth[s].key = supp[s].key

\* The pairwise keys are installed as KeyAgreement promises: the AP only takes
\* into use a key that the station has installed last, and never one twice.
Abstract == INSTANCE KeyAgreement
              WITH station <- [s \in STA |-> supp[s].last],
                   ap <- [s \in STA |-> auth[s].key],
                   last <- [s \in STA |-> auth[s].last],
                   times <- [s \in STA |-> auth[s].times]

ImplementsKeyAgreement == Abstract!KSpec

\* Within an association the station never goes back to an older GTK: frames
\* that are repeated or overtaken by later ones are dropped.
NoGTKRollback ==
    [][\A s \in STA : supp[s].joined /\ supp'[s].joined
                       => supp'[s].gtk[2] >= supp[s].gtk[2]]_supp

\* Between events, and when no GTK rekeying is under way, a station the AP
\* counts as having the GTK (has_GTK, set on message 4/4 or 2/2) really has the
\* one the AP uses.
HoldsCurrentGTK ==
    \A s \in STA : /\ InTouch(s) /\ sm[s].wpa_ptk_state = "PTKINITDONE"
                    /\ sm[s].pairwise_set /\ sm[s].has_GTK
                    /\ group[sm[s].group].state = "SETKEYSDONE"
        => supp[s].gtk = GTK(s)

=============================================================================
