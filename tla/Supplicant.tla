------------------------------ MODULE Supplicant ------------------------------
(***************************************************************************)
(* The wpa_supplicant key management machine                               *)
(* (athr-hostap/src/rsn_supp/wpa.c): one per station, driven by the        *)
(* association events of its driver and by the EAPOL-Key frames of the AP. *)
(*                                                                         *)
(* A nonce is a number: each new one is larger than those before it.  A    *)
(* PTK is the pair <<ANonce, SNonce>> it is derived from (the PSK and the  *)
(* two addresses are fixed), and a MIC is the PTK it was computed with.  A *)
(* GTK is <<key index, nonce>>.  The air keeps every frame it was given,   *)
(* and delivers any of them at any time: frames are lost, duplicated,      *)
(* reordered and delayed, as long as Handshake leaves them in the air.     *)
(***************************************************************************)
EXTENDS Integers

CONSTANTS STA     \* the stations

VARIABLES
    supp,         \* supp[s]: struct wpa_sm of s, with the keys of its driver
    air           \* air[s]: the EAPOL-Key frames sent between s and the AP

NoKey == <<0, 0>>

Frame(msg, rc, nonce, mic, gtk) ==
    [msg |-> msg, rc |-> rc, nonce |-> nonce, mic |-> mic, gtk |-> gtk]

\* The keys are not set and no frame has been verified in this association.
wpa_sm_init ==
    [joined |-> FALSE,            \* associated, as far as the station knows
     anonce |-> 0, snonce |-> 0, renew_snonce |-> TRUE,
     tptk |-> NoKey, ptk |-> NoKey,
     rx |-> 0,                    \* rx_replay_counter, 0: not set
     key |-> NoKey, gtk |-> NoKey,  \* installed last in the driver
     last |-> NoKey]              \* history: the PTK installed last

SuppInit == supp = [s \in STA |-> wpa_sm_init] /\ air = [s \in STA |-> {}]

-----------------------------------------------------------------------------
(* Association events.                                                     *)

wpa_sm_notify_assoc(m) ==
    [m EXCEPT !.joined = TRUE, !.rx = 0, !.renew_snonce = TRUE,
              !.tptk = NoKey, !.ptk = NoKey]

\* wpa_clear_keys; the machine keeps its PTK until the next association.
wpa_supplicant_event_disassoc(m) ==
    [m EXCEPT !.joined = FALSE, !.key = NoKey, !.gtk = NoKey]

\* The station leaves, or its driver reports that the AP is gone.
Leave(s) ==
    /\ supp[s].joined
    /\ supp' = [supp EXCEPT ![s] = wpa_supplicant_event_disassoc(@)]
    /\ UNCHANGED air

-----------------------------------------------------------------------------
(* wpa_sm_rx_eapol.                                                        *)

Mutant_replay_unchecked(m, f) == TRUE

\* rx_replay_counter is set by frames with a MIC and checked for all frames.
ReplayCounterIncreased(m, f) == m.rx = 0 \/ f.rc > m.rx

\* The first frame that verifies with the temporary PTK makes it the PTK.
wpa_supplicant_verify_eapol_key_mic(m, f) ==
    IF m.tptk # NoKey /\ f.mic = m.tptk
    THEN [m EXCEPT !.tptk = NoKey, !.ptk = m.tptk, !.rx = f.rc]
    ELSE [m EXCEPT !.rx = f.rc]

Verifies(m, f) == f.mic # NoKey /\ f.mic \in {m.tptk, m.ptk}

Receives(s, f, msg) ==
    /\ supp[s].joined
    /\ f \in air[s] /\ f.msg = msg
    /\ ReplayCounterIncreased(supp[s], f)
    /\ msg # "1/4" => Verifies(supp[s], f)

Reply(s, m, f) ==
    /\ supp' = [supp EXCEPT ![s] = m]
    /\ air' = [air EXCEPT ![s] = @ \cup {f}]

\* Message 1/4: a temporary PTK, message 2/4 with its SNonce.
wpa_supplicant_process_1_of_4(s, f) ==
    LET sn == IF supp[s].renew_snonce THEN supp[s].snonce + 1 ELSE supp[s].snonce
        ptk == <<f.nonce, sn>>
    IN  /\ Receives(s, f, "1/4")
        /\ Reply(s, [supp[s] EXCEPT !.snonce = sn, !.renew_snonce = FALSE,
                                    !.tptk = ptk, !.anonce = f.nonce],
                 Frame("2/4", f.rc, sn, ptk, NoKey))

Mutant_ptk_installed_once(m) ==
    IF m.key = NoKey THEN [m EXCEPT !.key = m.ptk, !.last = m.ptk] ELSE m

wpa_supplicant_install_gtk(m, gtk) == [m EXCEPT !.gtk = gtk]

wpa_supplicant_install_ptk(m) ==
    [m EXCEPT !.key = m.ptk, !.last = m.ptk]

Mutant_snonce_kept(m, f) ==
    LET i == wpa_supplicant_install_ptk(m)
    IN  IF f.gtk = NoKey THEN i ELSE wpa_supplicant_install_gtk(i, f.gtk)

\* What follows message 4/4: a new SNonce for the next handshake, the keys.
InstallKeys(m, f) ==
    LET i == wpa_supplicant_install_ptk([m EXCEPT !.renew_snonce = TRUE])
    IN  IF f.gtk = NoKey THEN i ELSE wpa_supplicant_install_gtk(i, f.gtk)

\* Message 3/4: message 4/4 and the keys, if ANonce is that of message 1/4.
wpa_supplicant_process_3_of_4(s, f) ==
    LET m == wpa_supplicant_verify_eapol_key_mic(supp[s], f)
    IN  /\ Receives(s, f, "3/4")
        /\ f.nonce = m.anonce
        /\ Reply(s, InstallKeys(m, f), Frame("4/4", f.rc, 0, m.ptk, NoKey))

\* It is not: the station deauthenticates.
wpa_supplicant_reject_3_of_4(s, f) ==
    /\ Receives(s, f, "3/4")
    /\ f.nonce # supp[s].anonce
    /\ supp' = [supp EXCEPT ![s] = wpa_supplicant_event_disassoc(
                                     wpa_supplicant_verify_eapol_key_mic(@, f))]
    /\ UNCHANGED air

\* Message 1/2: the GTK and message 2/2.
wpa_supplicant_process_1_of_2(s, f) ==
    LET m == wpa_supplicant_verify_eapol_key_mic(supp[s], f)
    IN  /\ Receives(s, f, "1/2")
        /\ Reply(s, wpa_supplicant_install_gtk(m, f.gtk),
                 Frame("2/2", f.rc, 0, m.ptk, NoKey))

wpa_sm_rx_eapol(s) ==
    \E f \in air[s] :
        \/ wpa_supplicant_process_1_of_4(s, f)
        \/ wpa_supplicant_process_3_of_4(s, f)
        \/ wpa_supplicant_reject_3_of_4(s, f)
        \/ wpa_supplicant_process_1_of_2(s, f)

=============================================================================
