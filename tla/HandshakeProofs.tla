--------------------------- MODULE HandshakeProofs ---------------------------
(***************************************************************************)
(* Handshake adds data to the authenticator of WpaAuth and lets the frames *)
(* decide what WpaAuth leaves open.  Its steps are therefore steps of      *)
(* WpaAuth, and everything proved of WpaAuth holds here as well.  On that  *)
(* rest the type correctness of the data and HandshakeKeys.                *)
(***************************************************************************)
EXTENDS Handshake, WpaAuthLoop

-----------------------------------------------------------------------------
(* Every step is a step of WpaAuth, or leaves the authenticator alone.     *)

\* A step of a station's machines here is a step of sm_step in WpaAuth.
LEMMA MachinesStep ==
    ASSUME NEW s \in STA, HMachines(s)
    PROVE  Run(s)
  <1>1. HMachines(s) => WPA_PTK(s) \/ WPA_PTK_GROUP(s) \/ GSM_setkeysdone(s)
                          \/ GSM_stay(s) \/ wpa_group_update_sta(s)
    BY HandshakeAssumption
       DEF HMachines, HAuthentication2, HPtkCalcNegotiating, HPtkInitDone, WPA_PTK,
           WPA_PTK_GROUP
  <1> QED
    BY <1>1 DEF Run

\* Receiving a frame from the air is wpa_receive of some frame.
LEMMA ReceiveStep ==
    ASSUME NEW s \in STA, NEW f \in air[s], HReceive(s, f)
    PROVE  wpa_receive(s)
  <1>1. \A msg \in DOMAIN Kind : Kind[msg] \in KeyKinds
    BY DEF Kind, KeyKinds
  <1> QED
    BY <1>1 DEF HReceive, wpa_receive

\* A step of Handshake is one of WpaAuth or leaves its variables alone.
LEMMA StepIsStep == [HNext]_allvars => [Next]_vars
  <1> SUFFICES ASSUME [HNext]_allvars PROVE [Next]_vars
    OBVIOUS
  <1>1. CASE HRekey
    BY <1>1 DEF HRekey, HSetKeys, Next, RunRekey
  <1>2. ASSUME NEW s \in STA, HMachines(s) PROVE Next
    BY <1>2, MachinesStep DEF Next
  <1>3. ASSUME NEW s \in STA, HAssociation(s) PROVE Next
    BY <1>3 DEF HAssociation, Next, Run, StationEvent
  <1>4. ASSUME NEW s \in STA, HDeparture(s) PROVE Next
    BY <1>4 DEF HDeparture, Next, Run, StationEvent
  <1>5. ASSUME NEW s \in STA, HTimeout(s) PROVE Next
    BY <1>5 DEF HTimeout, Next, StationEvent
  <1>6. ASSUME NEW s \in STA, NEW f \in air[s], HReceive(s, f) PROVE Next
    BY <1>6, ReceiveStep DEF Next, StationEvent
  <1>7. ASSUME NEW s \in STA, HSupplicant(s) PROVE UNCHANGED vars
    BY <1>7 DEF HSupplicant
  <1>8. CASE UNCHANGED allvars
    BY <1>8 DEF allvars
  <1> QED
    BY <1>1, <1>2, <1>3, <1>4, <1>5, <1>6, <1>7, <1>8 DEF HNext

\* The authenticator with its data implements the authenticator without them:
\* what WpaAuth promises holds of it, with the frames that stations really send.
THEOREM HandshakeIsAuthenticator == HSpec => Spec
  <1>1. HInit => Init
    BY DEF HInit
  <1> QED
    BY <1>1, StepIsStep, PTL DEF HSpec, Spec

-----------------------------------------------------------------------------
(* Stations without an entry: no handler is under way for one, and its     *)
(* record is the one wpa_auth_sta_deinit left.                             *)

KnownInv ==
    /\ InLoop => Known(cur)
    /\ cont # "none" => Known(caller)
    /\ \A s \in todo : Known(s)
    /\ \A s \in STA : ~Known(s) => sm[s] = wpa_auth_sta_init("none")

\* A step that is about a station with an entry, and leaves it its entry.
LEMMA KnownKept ==
    ASSUME KnownInv, NEW s \in STA, \A u \in STA \ {s} : sm'[u] = sm[u],
           sm'[s].assoc # "none", TypeOK, TypeOK',
           InLoop' => cur' = s \/ (InLoop /\ cur' = cur),
           cont' # "none" => caller' = s \/ (cont # "none" /\ caller' = caller),
           todo' \subseteq todo
    PROVE  KnownInv'
  <1>1. \A u \in STA : Known(u) => Known(u)'
    BY DEF Known
  <1>2. InLoop => cur \in STA
    BY DEF InLoop, TypeOK
  <1>3. (cont # "none" => caller \in STA) /\ todo \subseteq STA
    BY DEF TypeOK
  <1>4. Known(s)'
    BY DEF Known
  <1> QED
    BY <1>1, <1>2, <1>3, <1>4 DEF KnownInv, Known

\* What the states of the two machines do to the entry.
LEMMA MachineEntry ==
    ASSUME TypeOK, NEW s \in STA, WPA_PTK(s) \/ WPA_PTK_GROUP(s)
    PROVE  /\ pc \in {"ptk", "grp"} /\ cur = s
           /\ \E l \in {"grp", "gsm"} : GoTo(l)
           /\ \A u \in STA \ {s} : sm'[u] = sm[u]
           /\ sm'[s].assoc \in {sm[s].assoc, "disassoc"}
  <1>1. sm[s] \in WpaStateMachine /\ DOMAIN sm = STA
    BY DEF TypeOK
  <1>2. /\ pc \in {"ptk", "grp"} /\ cur = s
        /\ \E l \in {"grp", "gsm"} : GoTo(l)
    BY DEF WPA_PTK, PTK_stay, PTK_INITIALIZE, PTK_DISCONNECT, PTK_DISCONNECTED,
           PTK_AUTHENTICATION, PTK_AUTHENTICATION2, PTK_INITPMK, PTK_INITPSK,
           PTK_PTKSTART, PTK_PTKCALCNEGOTIATING, PTK_PTKCALCNEGOTIATING2,
           PTK_PTKINITNEGOTIATING, PTK_PTKINITDONE, EnterPtk, WPA_PTK_GROUP,
           GROUP_stay, GROUP_IDLE, GROUP_REKEYNEGOTIATING, GROUP_REKEYESTABLISHED,
           GROUP_KEYERROR, EnterGroup
  <1>3. CASE PTK_stay(s) \/ GROUP_stay(s)
    BY <1>1, <1>2, <1>3 DEF PTK_stay, GROUP_stay, WpaStateMachine
  <1>4. CASE WPA_PTK(s) /\ ~PTK_stay(s)
    <2> USE <1>1 DEF WpaStateMachine, EnterPtk
    <2>1. CASE PTK_INITIALIZE(s)
      BY <2>1, <1>2 DEF PTK_INITIALIZE, wpa_remove_ptk
    <2>2. CASE PTK_DISCONNECT(s)
      BY <2>2, <1>2 DEF PTK_DISCONNECT, wpa_sta_disconnect
    <2>3. CASE PTK_DISCONNECTED(s)
      BY <2>3, <1>2 DEF PTK_DISCONNECTED
    <2>4. CASE PTK_AUTHENTICATION(s)
      BY <2>4, <1>2 DEF PTK_AUTHENTICATION
    <2>5. CASE \E ready \in BOOLEAN : PTK_AUTHENTICATION2(s, ready)
      BY <2>5, <1>2 DEF PTK_AUTHENTICATION2
    <2>6. CASE PTK_INITPMK(s)
      BY <2>6, <1>2 DEF PTK_INITPMK
    <2>7. CASE PTK_INITPSK(s)
      BY <2>7, <1>2 DEF PTK_INITPSK
    <2>8. CASE PTK_PTKSTART(s)
      BY <2>8, <1>2 DEF PTK_PTKSTART, wpa_send_eapol
    <2>9. CASE \E ok \in BOOLEAN : PTK_PTKCALCNEGOTIATING(s, ok)
      BY <2>9, <1>2 DEF PTK_PTKCALCNEGOTIATING, cancel_eapol_timeout
    <2>10. CASE PTK_PTKCALCNEGOTIATING2(s)
      BY <2>10, <1>2 DEF PTK_PTKCALCNEGOTIATING2
    <2>11. CASE PTK_PTKINITNEGOTIATING(s)
      BY <2>11, <1>2 DEF PTK_PTKINITNEGOTIATING, wpa_send_eapol
    <2>12. CASE \E ok \in BOOLEAN : PTK_PTKINITDONE(s, ok)
      BY <2>12, <1>2 DEF PTK_PTKINITDONE, wpa_sta_disconnect
    <2> QED
      BY <1>4, <2>1, <2>2, <2>3, <2>4, <2>5, <2>6, <2>7, <2>8, <2>9, <2>10, <2>11,
         <2>12 DEF WPA_PTK
  <1>5. CASE WPA_PTK_GROUP(s) /\ ~GROUP_stay(s)
    <2> USE <1>1 DEF WpaStateMachine, EnterGroup
    <2>1. CASE GROUP_IDLE(s)
      BY <2>1, <1>2 DEF GROUP_IDLE
    <2>2. CASE GROUP_REKEYNEGOTIATING(s)
      BY <2>2, <1>2 DEF GROUP_REKEYNEGOTIATING, wpa_send_eapol
    <2>3. CASE GROUP_REKEYESTABLISHED(s)
      BY <2>3, <1>2 DEF GROUP_REKEYESTABLISHED
    <2>4. CASE GROUP_KEYERROR(s)
      BY <2>4, <1>2 DEF GROUP_KEYERROR
    <2> QED
      BY <1>5, <2>1, <2>2, <2>3, <2>4 DEF WPA_PTK_GROUP
  <1> QED
    BY <1>3, <1>4, <1>5

\* A step that changes no machine.
LEMMA KnownSame ==
    ASSUME KnownInv, sm' = sm, InLoop' => InLoop /\ cur' = cur,
           cont' # "none" => cont # "none" /\ caller' = caller,
           \A u \in todo' : u \in todo \/ Known(u)
    PROVE  KnownInv'
  BY DEF KnownInv, Known

\* The calls of a running handler.
LEMMA KnownRun ==
    ASSUME TypeOK, TypeOK', LoopInv, KnownInv, NEW s \in STA, Run(s)
    PROVE  KnownInv'
  <1>1. CASE WPA_PTK(s) \/ WPA_PTK_GROUP(s)
    <2>1. InLoop /\ cur = s
      BY <1>1, MachineEntry DEF InLoop
    <2>2. sm'[s].assoc # "none"
      BY <1>1, <2>1, MachineEntry DEF KnownInv, Known
    <2> QED
      BY <1>1, <2>1, <2>2, MachineEntry, KnownKept DEF GoTo
  <1>2. CASE GSM_setkeysdone(s) \/ GSM_stay(s)
    BY <1>2, KnownSame DEF GSM_setkeysdone, GSM_stay, LoopEnd, GoTo, Finish, InLoop
  <1>3. CASE CONT_assoc(s) \/ CONT_auth(s) \/ CONT_reauth(s) \/ CONT_recv(s)
    <2>1. Known(s) /\ sm[s] \in WpaStateMachine /\ DOMAIN sm = STA
      BY <1>3 DEF CONT_assoc, CONT_auth, CONT_reauth, CONT_recv, KnownInv, TypeOK
    <2>2. \E c : StepLoop(s, c)
      BY <1>3 DEF CONT_assoc, CONT_auth, CONT_reauth, CONT_recv
    <2>3. sm'[s].assoc = sm[s].assoc /\ \A u \in STA \ {s} : sm'[u] = sm[u]
      <3> USE <2>1 DEF WpaStateMachine
      <3>b. ASSUME NEW b \in ieee802_1x_new_station(s)
            PROVE  b \in WpaStateMachine /\ b.assoc = sm[s].assoc
        BY <2>1, NewStationType
      <3>1. CASE CONT_assoc(s)
        BY <3>1, <3>b DEF CONT_assoc
      <3>2. CASE CONT_auth(s)
        BY <3>2 DEF CONT_auth
      <3>3. CASE CONT_reauth(s)
        BY <3>3, <3>b DEF CONT_reauth, Reauthenticate, wpa_remove_ptk
      <3>4. CASE CONT_recv(s)
        BY <3>4 DEF CONT_recv
      <3> QED
        BY <1>3, <3>1, <3>2, <3>3, <3>4
    <2> QED
      BY <2>1, <2>2, <2>3, KnownKept DEF StepLoop, Known
  <1>4. CASE CONT_free(s)
    <2>1. /\ ~InLoop' /\ cont' = "none" /\ todo' = {}
          /\ sm' = [sm EXCEPT ![s] = wpa_auth_sta_init("none")]
      BY <1>4 DEF CONT_free, Finish, wpa_auth_sta_deinit, InLoop
    <2> QED
      BY <2>1 DEF KnownInv, Known, TypeOK
  <1>5. CASE wpa_group_update_sta(s)
    <2>1. Known(s) /\ sm[s] \in WpaStateMachine /\ DOMAIN sm = STA
      BY <1>5 DEF wpa_group_update_sta, EACH_skip, EACH_mark, KnownInv, TypeOK
    <2>2. \E b \in BOOLEAN : sm' = [sm EXCEPT ![s].GUpdateStationKeys = b]
      BY <1>5 DEF wpa_group_update_sta, EACH_skip, EACH_mark
    <2>3. sm'[s].assoc # "none" /\ \A u \in STA \ {s} : sm'[u] = sm[u]
      BY <2>1, <2>2 DEF Known, WpaStateMachine
    <2>4. InLoop' => cur' = s
      BY <1>5 DEF wpa_group_update_sta, EACH_skip, EACH_mark, InLoop
    <2> QED
      BY <1>5, <2>3, <2>4, KnownKept DEF wpa_group_update_sta, EACH_skip, EACH_mark
  <1> QED
    BY <1>1, <1>2, <1>3, <1>4, <1>5 DEF Run

\* The events of a station.
LEMMA KnownEvent ==
    ASSUME TypeOK, TypeOK', LoopInv, KnownInv, NEW s \in STA, StationEvent(s)
    PROVE  KnownInv'
  <1> DEFINE m == sm[s]
  <1>0. /\ pc = "idle" /\ ~InLoop /\ cont = "none" /\ todo = {}
        /\ m \in WpaStateMachine /\ DOMAIN sm = STA
    BY DEF StationEvent, handle_assoc, handle_auth, handle_assoc_cb, handle_disassoc,
           handle_deauth, ap_handle_timer_disassoc, ap_handle_timer_remove,
           wpa_reauth_eapol, wpa_sm_call_step, eapol_keyRun, wpa_auth_sta_set_vlan,
           wpa_send_eapol_timeout, wpa_rekey_ptk, wpa_receive, wpa_receive_entropy,
           wpa_receive_ie_mismatch, wpa_receive_bad_mic, wpa_receive_key,
           wpa_receive_request, wpa_receive_request_gtk, Receivable, InLoop, LoopInv,
           StackInv, TypeOK
  <1>1. CASE ap_handle_timer_remove(s)
    <2>1. /\ sm' = [sm EXCEPT ![s] = wpa_auth_sta_init("none")] /\ UNCHANGED stack
      BY <1>1 DEF ap_handle_timer_remove, wpa_auth_sta_deinit
    <2> QED
      BY <1>0, <2>1 DEF KnownInv, Known, TypeOK, stack, InLoop
  <1>2. ASSUME ~ap_handle_timer_remove(s)
        PROVE  /\ \A u \in STA \ {s} : sm'[u] = sm[u]
               /\ m.assoc # "none" => sm'[s].assoc # "none"
               /\ m.assoc = "none" => handle_assoc(s) \/ m.timers > 0
                                         \/ m.rekey_ptk_timer
               /\ \/ UNCHANGED stack
                  \/ \E c : StepLoop(s, c)
                  \/ pc' = "rekey" /\ caller' = s /\ todo' = {}
    <2> USE <1>0, <1>2 DEF Known, Associated, WpaStateMachine
    <2>1. CASE handle_assoc(s)
      BY <2>1 DEF handle_assoc, wpa_auth_sta_init
    <2>2. CASE handle_auth(s)
      BY <2>2 DEF handle_auth, wpa_remove_ptk
    <2>3. CASE handle_assoc_cb(s)
      BY <2>3 DEF handle_assoc_cb, wpa_remove_ptk
    <2>4. CASE handle_disassoc(s)
      BY <2>4 DEF handle_disassoc, Deauthenticate, wpa_remove_ptk,
                  ieee802_1x_free_station
    <2>5. CASE handle_deauth(s)
      BY <2>5 DEF handle_deauth, Deauthenticate, wpa_remove_ptk,
                  ieee802_1x_free_station
    <2>6. CASE ap_handle_timer_disassoc(s)
      BY <2>6 DEF ap_handle_timer_disassoc, ieee802_1x_free_station
    <2>7. CASE wpa_reauth_eapol(s)
      BY <2>7 DEF wpa_reauth_eapol, Reauthenticate
    <2>8. CASE wpa_sm_call_step(s)
      BY <2>8 DEF wpa_sm_call_step
    <2>9. CASE \E run, avail \in BOOLEAN : eapol_keyRun(s, run, avail)
      BY <2>9 DEF eapol_keyRun
    <2>10. CASE \E g \in Group : wpa_auth_sta_set_vlan(s, g)
      BY <2>10 DEF wpa_auth_sta_set_vlan
    <2>11. CASE wpa_send_eapol_timeout(s)
      BY <2>11 DEF wpa_send_eapol_timeout
    <2>12. CASE wpa_rekey_ptk(s)
      BY <2>12 DEF wpa_rekey_ptk, wpa_request_new_ptk
    <2>13. CASE wpa_receive_entropy(s)
      BY <2>13 DEF wpa_receive_entropy, Receivable, wpa_sta_disconnect
    <2>14. CASE wpa_receive_ie_mismatch(s)
      BY <2>14 DEF wpa_receive_ie_mismatch, Receivable, wpa_sta_disconnect
    <2>15. CASE \E kind \in KeyKinds : wpa_receive_bad_mic(s, kind)
      BY <2>15 DEF wpa_receive_bad_mic, Receivable
    <2>16. CASE \E kind \in KeyKinds : wpa_receive_key(s, kind)
      BY <2>16 DEF wpa_receive_key, Receivable, VerifyMIC, cancel_eapol_timeout
    <2>17. CASE \E kind \in KeyKinds : wpa_receive_request(s, kind)
      BY <2>17 DEF wpa_receive_request, Receivable, VerifyMIC, cancel_eapol_timeout,
                   wpa_request_new_ptk
    <2>18. CASE wpa_receive_request_gtk(s)
      BY <2>18 DEF wpa_receive_request_gtk, Receivable, VerifyMIC,
                   cancel_eapol_timeout, StartRekey
    <2> QED
      BY <2>1, <2>2, <2>3, <2>4, <2>5, <2>6, <2>7, <2>8, <2>9, <2>10, <2>11, <2>12,
         <2>13, <2>14, <2>15, <2>16, <2>17, <2>18 DEF StationEvent, wpa_receive
  <1>3. CASE ~ap_handle_timer_remove(s)
    <2>1. handle_assoc(s) => sm'[s].assoc # "none"
      BY <1>0 DEF handle_assoc, wpa_auth_sta_init
    <2>2. wpa_auth_sta_init("none").timers = 0 /\ ~wpa_auth_sta_init("none").rekey_ptk_timer
      BY DEF wpa_auth_sta_init
    <2>3. sm'[s].assoc # "none"
      BY <1>2, <1>3, <2>1, <2>2 DEF KnownInv, Known
    <2>4. /\ InLoop' => cur' = s
          /\ cont' # "none" => caller' = s
          /\ todo' \subseteq todo
      BY <1>0, <1>2, <1>3 DEF stack, StepLoop, InLoop
    <2> QED
      BY <1>2, <1>3, <2>3, <2>4, KnownKept
  <1> QED
    BY <1>1, <1>3

\* A station without an entry in sta_list takes no part in anything: its record
\* is blank and no handler, rekeying included, is under way for it.
THEOREM StrangersAreBlank == Spec => []KnownInv
  <1>1. Init => KnownInv
    BY DEF Init, KnownInv, InLoop, Known
  <1>2. TypeOK /\ TypeOK' /\ LoopInv /\ KnownInv /\ [Next]_vars => KnownInv'
    <2> SUFFICES ASSUME TypeOK, TypeOK', LoopInv, KnownInv, [Next]_vars
                 PROVE  KnownInv'
      OBVIOUS
    <2>1. CASE RunRekey
      BY <2>1, KnownSame
         DEF RunRekey, REKEY_setkeysdone, REKEY_setkeys, REKEY_stay, EACH_done, GoTo,
             NextGroup, Finish, InLoop
    <2>2. CASE wpa_rekey_gtk
      BY <2>2, KnownSame DEF wpa_rekey_gtk, StartRekey, InLoop
    <2>3. CASE UNCHANGED vars
      BY <2>3, KnownSame DEF vars, InLoop
    <2> QED
      BY <2>1, <2>2, <2>3, KnownRun, KnownEvent DEF Next
  <1> QED
    BY <1>1, <1>2, TypeCorrect, LoopCorrect, PTL DEF Spec

-----------------------------------------------------------------------------
(* The types of the data.                                                  *)

SuppData == [joined : BOOLEAN, anonce : Nat, snonce : Nat, renew_snonce : BOOLEAN,
             tptk : Keys, ptk : Keys, rx : Nat, key : Keys, gtk : Keys, last : Keys]
ApData == [ANonce : Nat, SNonce : Nat, PTK : Keys, mic : Keys, counter : Nat,
           pending : 0..RSNA_MAX_EAPOL_RETRIES, key : Keys, last : Keys, times : Nat]
GroupKeys == [Counter : Nat, GTK : [1..2 -> Nat], GN : 1..2]

DataTypeOK ==
    /\ supp \in [STA -> SuppData] /\ air \in [STA -> SUBSET Frames]
    /\ auth \in [STA -> ApData] /\ gk \in [Group -> GroupKeys]

\* No key is among the keys.
LEMMA NoKeyType == NoKey \in Keys
  BY SMTT(30) DEF NoKey, Keys

\* What the AP's functions make of a station's data is such data again.
LEMMA ApDataType ==
    ASSUME NEW a \in ApData
    PROVE  /\ RemovePTK(a) \in ApData /\ [a EXCEPT !.PTK = NoKey] \in ApData
           /\ NextReplayCounter(a) \in ApData /\ ClearKeyReplay(a) \in ApData
           /\ [AuthData EXCEPT !.last = a.last, !.times = a.times] \in ApData
           /\ NextReplayCounter(a).PTK = a.PTK
           /\ \A k \in Keys : [a EXCEPT !.PTK = k] \in ApData
           /\ [a EXCEPT !.key = a.PTK, !.last = a.PTK, !.times = @ + 1] \in ApData
           /\ \A k \in Keys, n \in Nat :
                [a EXCEPT !.pending = 0, !.mic = k, !.SNonce = n] \in ApData
           /\ \A n \in Nat : [a EXCEPT !.ANonce = n] \in ApData
  <1> USE NoKeyType DEF ApData
  <1>0. /\ a.counter + 1 \in Nat /\ a.times + 1 \in Nat
        /\ 0 \in Nat /\ 0 \in 0..RSNA_MAX_EAPOL_RETRIES
        /\ (IF a.pending < RSNA_MAX_EAPOL_RETRIES THEN a.pending + 1 ELSE a.pending)
              \in 0..RSNA_MAX_EAPOL_RETRIES
    BY DEF RSNA_MAX_EAPOL_RETRIES
  <1>1. RemovePTK(a) \in ApData /\ [a EXCEPT !.PTK = NoKey] \in ApData
    BY DEF RemovePTK
  <1>2. ASSUME NEW c \in Nat, NEW p \in 0..RSNA_MAX_EAPOL_RETRIES
        PROVE  /\ [a EXCEPT !.counter = c, !.pending = p] \in ApData
               /\ [a EXCEPT !.counter = c, !.pending = p].PTK = a.PTK
    OBVIOUS
  <1>3. /\ NextReplayCounter(a) \in ApData /\ NextReplayCounter(a).PTK = a.PTK
        /\ ClearKeyReplay(a) \in ApData
    BY <1>0, <1>2 DEF NextReplayCounter, ClearKeyReplay
  <1>4. ASSUME NEW p \in 0..RSNA_MAX_EAPOL_RETRIES, NEW k \in Keys, NEW n \in Nat
        PROVE  /\ [a EXCEPT !.PTK = k] \in ApData
               /\ [a EXCEPT !.ANonce = n] \in ApData
               /\ [a EXCEPT !.pending = p, !.mic = k, !.SNonce = n] \in ApData
               /\ [a EXCEPT !.key = a.PTK, !.last = a.PTK, !.times = n] \in ApData
    OBVIOUS
  <1>5. AuthData \in ApData
    <2>1. ASSUME NEW z \in Nat, NEW p \in 0..RSNA_MAX_EAPOL_RETRIES
          PROVE  [ANonce |-> z, SNonce |-> z, PTK |-> NoKey, mic |-> NoKey, counter |-> z,
                  pending |-> p, key |-> NoKey, last |-> NoKey, times |-> z] \in ApData
      OBVIOUS
    <2> QED
      BY <1>0, <2>1 DEF AuthData
  <1>6. ASSUME NEW b \in ApData
        PROVE  [b EXCEPT !.last = a.last, !.times = a.times] \in ApData
    OBVIOUS
  <1>7. [AuthData EXCEPT !.last = a.last, !.times = a.times] \in ApData
    BY <1>5, <1>6
  <1> QED
    BY <1>0, <1>1, <1>3, <1>4, <1>7

\* A frame built from its fields is a frame with these fields.
LEMMA FrameType ==
    ASSUME NEW msg \in {"1/4", "2/4", "3/4", "4/4", "1/2", "2/2"}, NEW rc \in Nat,
           NEW nonce \in Nat, NEW mic \in Keys, NEW gtk \in Keys
    PROVE  /\ Frame(msg, rc, nonce, mic, gtk) \in Frames
           /\ Frame(msg, rc, nonce, mic, gtk).msg = msg
           /\ Frame(msg, rc, nonce, mic, gtk).rc = rc
           /\ Frame(msg, rc, nonce, mic, gtk).nonce = nonce
           /\ Frame(msg, rc, nonce, mic, gtk).mic = mic
           /\ Frame(msg, rc, nonce, mic, gtk).gtk = gtk
  BY DEF Frame, Frames

\* A new GTK (wpa_gtk_update) and a counter that is stepped keep the group's
\* data well typed.
LEMMA GroupKeysType ==
    ASSUME NEW k \in GroupKeys
    PROVE  /\ wpa_gtk_update(k) \in GroupKeys
           /\ [k EXCEPT !.Counter = @ + 1] \in GroupKeys
           /\ [k EXCEPT !.GN = 3 - @] \in GroupKeys
  <1>1. k.Counter \in Nat /\ k.Counter + 1 \in Nat /\ k.GN \in 1..2 /\ 3 - k.GN \in 1..2
    BY DEF GroupKeys
  <1>2. ASSUME NEW c \in Nat, NEW n \in Nat, NEW i \in 1..2
        PROVE  /\ [k EXCEPT !.GTK[i] = n, !.Counter = c] \in GroupKeys
               /\ [k EXCEPT !.Counter = c] \in GroupKeys
               /\ [k EXCEPT !.GN = i] \in GroupKeys
    BY DEF GroupKeys
  <1> QED
    BY <1>1, <1>2 DEF wpa_gtk_update

\* The GTK sent to a station is a key with one of the two key indices.
LEMMA GTKType ==
    ASSUME DataTypeOK, TypeOK, NEW s \in STA
    PROVE  GTK(s) \in Keys /\ GTK(s)[1] \in 1..2
  <1>1. gk[sm[s].group] \in GroupKeys
    BY DEF DataTypeOK, TypeOK, WpaStateMachine
  <1> QED
    BY <1>1 DEF GTK, GroupKeys, Keys

\* A frame that the AP sends, or that the retry limit keeps it from sending.
LEMMA SendType ==
    ASSUME DataTypeOK, NEW s \in STA, NEW msg \in {"1/4", "3/4", "1/2"},
           NEW nonce \in Nat, NEW gtk \in Keys, SendOrNot(s, msg, nonce, gtk)
    PROVE  DataTypeOK'
  <1> DEFINE a == NextReplayCounter(auth[s])
             f == Frame(msg, a.counter, nonce, IF msg = "1/4" THEN NoKey ELSE a.PTK, gtk)
  <1>1. a \in ApData
    BY ApDataType DEF DataTypeOK
  <1>2. f \in Frames
    BY <1>1, FrameType, NoKeyType DEF ApData
  <1>3. CASE Sends(s)
    BY <1>1, <1>2, <1>3 DEF SendOrNot, __wpa_send_eapol, DataTypeOK
  <1>4. CASE ~Sends(s)
    BY <1>4 DEF SendOrNot, DataTypeOK
  <1> QED
    BY <1>3, <1>4

\* What the supplicant's functions make of its data is such data again.
LEMMA SuppDataType ==
    ASSUME NEW u \in SuppData, NEW f \in Frames
    PROVE  /\ wpa_sm_notify_assoc(u) \in SuppData
           /\ wpa_supplicant_event_disassoc(u) \in SuppData
           /\ wpa_supplicant_verify_eapol_key_mic(u, f) \in SuppData
           /\ InstallKeys(u, f) \in SuppData
           /\ wpa_supplicant_install_gtk(u, f.gtk) \in SuppData
           /\ \A n \in Nat, a \in Nat :
                [u EXCEPT !.snonce = n, !.renew_snonce = FALSE, !.tptk = <<a, n>>,
                          !.anonce = a] \in SuppData
  <1> USE NoKeyType DEF SuppData, Frames
  <1>1. ASSUME NEW z \in Nat
        PROVE  [u EXCEPT !.joined = TRUE, !.rx = z, !.renew_snonce = TRUE,
                         !.tptk = NoKey, !.ptk = NoKey] \in SuppData
    OBVIOUS
  <1>2. wpa_sm_notify_assoc(u) \in SuppData
    BY <1>1 DEF wpa_sm_notify_assoc
  <1>3. wpa_supplicant_event_disassoc(u) \in SuppData
    BY DEF wpa_supplicant_event_disassoc
  <1>4. wpa_supplicant_verify_eapol_key_mic(u, f) \in SuppData
    BY DEF wpa_supplicant_verify_eapol_key_mic
  <1>5. wpa_supplicant_install_gtk(u, f.gtk) \in SuppData
    BY DEF wpa_supplicant_install_gtk
  <1>6. InstallKeys(u, f) \in SuppData
    BY DEF InstallKeys, wpa_supplicant_install_ptk, wpa_supplicant_install_gtk
  <1>7. ASSUME NEW n \in Nat, NEW a \in Nat
        PROVE  [u EXCEPT !.snonce = n, !.renew_snonce = FALSE, !.tptk = <<a, n>>,
                         !.anonce = a] \in SuppData
    <2>1. <<a, n>> \in Keys
      BY DEF Keys
    <2>2. ASSUME NEW k \in Keys
          PROVE  [u EXCEPT !.snonce = n, !.renew_snonce = FALSE, !.tptk = k,
                           !.anonce = a] \in SuppData
      OBVIOUS
    <2> QED
      BY <2>1, <2>2
  <1> QED
    BY <1>2, <1>3, <1>4, <1>5, <1>6, <1>7

\* A step of a station.
LEMMA SupplicantType ==
    ASSUME DataTypeOK, NEW s \in STA, HSupplicant(s)
    PROVE  DataTypeOK'
  <1> DEFINE u == supp[s]
  <1>0. u \in SuppData /\ air[s] \subseteq Frames /\ UNCHANGED <<auth, gk>>
    BY DEF DataTypeOK, HSupplicant
  <1>1. ASSUME NEW v \in SuppData, supp' = [supp EXCEPT ![s] = v], UNCHANGED air
        PROVE  DataTypeOK'
    BY <1>0, <1>1 DEF DataTypeOK
  <1>2. ASSUME NEW v \in SuppData, NEW g \in Frames, Reply(s, v, g)
        PROVE  DataTypeOK'
    BY <1>0, <1>2 DEF DataTypeOK, Reply
  <1>3. CASE Leave(s)
    <2>1. Frame("1/4", 0, 0, NoKey, NoKey) \in Frames
      BY FrameType, NoKeyType
    <2>2. wpa_supplicant_event_disassoc(u) \in SuppData
      BY <1>0, <2>1, SuppDataType
    <2> QED
      BY <1>1, <1>3, <2>2 DEF Leave
  <1>4. ASSUME NEW f \in air[s], wpa_supplicant_process_1_of_4(s, f)
        PROVE  DataTypeOK'
    <2> DEFINE n == IF u.renew_snonce THEN u.snonce + 1 ELSE u.snonce
               v == [u EXCEPT !.snonce = n, !.renew_snonce = FALSE,
                              !.tptk = <<f.nonce, n>>, !.anonce = f.nonce]
    <2>1. f.rc \in Nat /\ f.nonce \in Nat /\ n \in Nat /\ <<f.nonce, n>> \in Keys
          /\ f \in Frames
      BY <1>0 DEF SuppData, Frames, Keys
    <2>2. Reply(s, v, Frame("2/4", f.rc, n, <<f.nonce, n>>, NoKey))
      BY <1>4 DEF wpa_supplicant_process_1_of_4
    <2> HIDE DEF n
    <2>3. v \in SuppData
      BY <1>0, <2>1, SuppDataType
    <2>4. Frame("2/4", f.rc, n, <<f.nonce, n>>, NoKey) \in Frames
      BY <2>1, FrameType, NoKeyType
    <2> QED
      BY <1>2, <2>2, <2>3, <2>4
  <1>5. ASSUME NEW f \in air[s], wpa_supplicant_process_3_of_4(s, f)
        PROVE  DataTypeOK'
    <2> DEFINE v == wpa_supplicant_verify_eapol_key_mic(u, f)
    <2>1. f \in Frames /\ f.rc \in Nat /\ v \in SuppData
      BY <1>0, SuppDataType DEF Frames
    <2>2. Reply(s, InstallKeys(v, f), Frame("4/4", f.rc, 0, v.ptk, NoKey))
      BY <1>5 DEF wpa_supplicant_process_3_of_4
    <2> HIDE DEF v
    <2>3. InstallKeys(v, f) \in SuppData /\ v.ptk \in Keys
      BY <2>1, SuppDataType DEF SuppData
    <2>4. Frame("4/4", f.rc, 0, v.ptk, NoKey) \in Frames
      BY <2>1, <2>3, FrameType, NoKeyType
    <2> QED
      BY <1>2, <2>2, <2>3, <2>4
  <1>6. ASSUME NEW f \in air[s], wpa_supplicant_reject_3_of_4(s, f)
        PROVE  DataTypeOK'
    <2> DEFINE v == wpa_supplicant_verify_eapol_key_mic(u, f)
    <2>1. f \in Frames /\ v \in SuppData
      BY <1>0, SuppDataType
    <2>2. /\ supp' = [supp EXCEPT ![s] = wpa_supplicant_event_disassoc(v)]
          /\ UNCHANGED air
      BY <1>6 DEF wpa_supplicant_reject_3_of_4
    <2> HIDE DEF v
    <2>3. wpa_supplicant_event_disassoc(v) \in SuppData
      BY <2>1, SuppDataType
    <2> QED
      BY <1>1, <2>2, <2>3
  <1>7. ASSUME NEW f \in air[s], wpa_supplicant_process_1_of_2(s, f)
        PROVE  DataTypeOK'
    <2> DEFINE v == wpa_supplicant_verify_eapol_key_mic(u, f)
    <2>1. f \in Frames /\ f.rc \in Nat /\ v \in SuppData
      BY <1>0, SuppDataType DEF Frames
    <2>2. Reply(s, wpa_supplicant_install_gtk(v, f.gtk),
                Frame("2/2", f.rc, 0, v.ptk, NoKey))
      BY <1>7 DEF wpa_supplicant_process_1_of_2
    <2> HIDE DEF v
    <2>3. wpa_supplicant_install_gtk(v, f.gtk) \in SuppData /\ v.ptk \in Keys
      BY <2>1, SuppDataType DEF SuppData
    <2>4. Frame("2/2", f.rc, 0, v.ptk, NoKey) \in Frames
      BY <2>1, <2>3, FrameType, NoKeyType
    <2> QED
      BY <1>2, <2>2, <2>3, <2>4
  <1> QED
    BY <1>3, <1>4, <1>5, <1>6, <1>7 DEF HSupplicant, wpa_sm_rx_eapol

\* A step of the authenticator that changes nothing but the data of s.
LEMMA AuthOnlyType ==
    ASSUME DataTypeOK, NEW s \in STA, NEW a \in ApData, AuthOnly(s, a)
    PROVE  DataTypeOK'
  BY DEF DataTypeOK, AuthOnly

\* All steps.
LEMMA DataTypeStep ==
    ASSUME TypeOK, DataTypeOK, [HNext]_allvars
    PROVE  DataTypeOK'
  <1>1. ASSUME UNCHANGED data PROVE DataTypeOK'
    BY <1>1 DEF data, DataTypeOK
  <1>2. ASSUME NEW s \in STA PROVE auth[s] \in ApData /\ air[s] \subseteq Frames
    BY DEF DataTypeOK
  <1>3. CASE HRekey
    <2>1. CASE HSetKeys
      <3>1. Head(rekeyq) \in Group
        BY <2>1 DEF HSetKeys, REKEY_setkeys, TypeOK
      <3>2. wpa_gtk_update([gk[Head(rekeyq)] EXCEPT !.GN = 3 - @]) \in GroupKeys
        BY <3>1, GroupKeysType DEF DataTypeOK
      <3> QED
        <4> DEFINE n == wpa_gtk_update([gk[Head(rekeyq)] EXCEPT !.GN = 3 - @])
        <4>1. gk' = [gk EXCEPT ![Head(rekeyq)] = n] /\ UNCHANGED <<supp, air, auth>>
          BY <2>1 DEF HSetKeys
        <4> HIDE DEF n
        <4> QED
          BY <3>1, <3>2, <4>1 DEF DataTypeOK, n
    <2> QED
      BY <1>1, <1>3, <2>1 DEF HRekey
  <1>4. ASSUME NEW s \in STA, HMachines(s) PROVE DataTypeOK'
    <2> USE <1>2, AuthOnlyType, ApDataType
    <2>1. CASE PTK_INITIALIZE(s) /\ AuthOnly(s, RemovePTK(auth[s]))
      BY <2>1
    <2>2. CASE PTK_AUTHENTICATION(s) /\ AuthOnly(s, [auth[s] EXCEPT !.PTK = NoKey])
      BY <2>2
    <2>3. ASSUME NEW ready, HAuthentication2(s, ready) PROVE DataTypeOK'
      <3> DEFINE g == sm[s].group
                 k == IF group[g].first_sta_seen THEN gk[g] ELSE wpa_gtk_update(gk[g])
      <3>1. g \in Group /\ k \in GroupKeys
        BY GroupKeysType DEF TypeOK, WpaStateMachine, DataTypeOK
      <3>2. /\ auth' = [auth EXCEPT ![s].ANonce = k.Counter]
            /\ gk' = [gk EXCEPT ![g] = [k EXCEPT !.Counter = @ + 1]]
            /\ UNCHANGED <<supp, air>>
        BY <2>3 DEF HAuthentication2
      <3> HIDE DEF k
      <3>3. [k EXCEPT !.Counter = @ + 1] \in GroupKeys /\ k.Counter \in Nat
        BY <3>1, GroupKeysType DEF GroupKeys
      <3>4. auth' \in [STA -> ApData]
        BY <3>2, <3>3 DEF DataTypeOK
      <3> QED
        BY <3>1, <3>2, <3>3, <3>4 DEF DataTypeOK
    <2>4. CASE PTK_PTKSTART(s) /\ SendOrNot(s, "1/4", auth[s].ANonce, NoKey)
      BY <2>4, SendType, NoKeyType DEF ApData
    <2>5. CASE HPtkCalcNegotiating(s)
      <3>1. <<auth[s].ANonce, auth[s].SNonce>> \in Keys
        <4>1. auth[s].ANonce \in Nat /\ auth[s].SNonce \in Nat
          BY <1>2 DEF ApData
        <4> QED
          BY <4>1 DEF Keys
      <3> QED
        BY <2>5, <3>1 DEF HPtkCalcNegotiating
    <2>6. CASE /\ PTK_PTKINITNEGOTIATING(s)
               /\ SendOrNot(s, "3/4", auth[s].ANonce,
                            IF Version[s] = "WPA2" THEN GTK(s) ELSE NoKey)
      <3>1. (IF Version[s] = "WPA2" THEN GTK(s) ELSE NoKey) \in Keys
            /\ auth[s].ANonce \in Nat
        BY GTKType, NoKeyType DEF ApData
      <3> QED
        BY <2>6, <3>1, SendType
    <2>7. ASSUME NEW ok \in BOOLEAN, HPtkInitDone(s, ok) PROVE DataTypeOK'
      BY <2>7 DEF HPtkInitDone
    <2>8. CASE GROUP_REKEYNEGOTIATING(s) /\ SendOrNot(s, "1/2", 0, GTK(s))
      BY <2>8, SendType, GTKType
    <2> QED
      BY <1>1, <1>4, <2>1, <2>2, <2>3, <2>4, <2>5, <2>6, <2>7, <2>8 DEF HMachines
  <1>5. ASSUME NEW s \in STA, HAssociation(s) PROVE DataTypeOK'
    <2>1. CASE handle_assoc_cb(s)
      <3>1. ASSUME auth' = [auth EXCEPT ![s] = RemovePTK(@)],
                   supp' = [supp EXCEPT ![s] = wpa_sm_notify_assoc(@)],
                   air' = [air EXCEPT ![s] = {f \in @ : f.msg \in StaleFrames}],
                   UNCHANGED gk
            PROVE  DataTypeOK'
        <4>1. RemovePTK(auth[s]) \in ApData /\ wpa_sm_notify_assoc(supp[s]) \in SuppData
          <5>1. supp[s] \in SuppData /\ Frame("1/4", 0, 0, NoKey, NoKey) \in Frames
            BY FrameType, NoKeyType DEF DataTypeOK
          <5> QED
            BY <1>2, <5>1, ApDataType, SuppDataType
        <4> QED
          BY <3>1, <4>1 DEF DataTypeOK
      <3>2. pc = "idle"
        BY <2>1 DEF handle_assoc_cb
      <3> QED
        BY <1>1, <1>2, <1>5, <3>1, <3>2, AuthOnlyType, ApDataType
           DEF HAssociation, CONT_assoc, CONT_reauth
    <2> QED
      BY <1>1, <1>2, <1>5, <2>1, AuthOnlyType, ApDataType DEF HAssociation
  <1>6. ASSUME NEW s \in STA, HDeparture(s) PROVE DataTypeOK'
    BY <1>1, <1>2, <1>6, AuthOnlyType, ApDataType DEF HDeparture
  <1>7. ASSUME NEW s \in STA, HTimeout(s) PROVE DataTypeOK'
    BY <1>1, <1>7 DEF HTimeout
  <1>8. ASSUME NEW s \in STA, NEW f \in air[s], HReceive(s, f) PROVE DataTypeOK'
    <2>1. f.mic \in Keys /\ f.nonce \in Nat
      BY <1>2 DEF Frames
    <2> QED
      BY <1>1, <1>2, <1>8, <2>1, AuthOnlyType, ApDataType DEF HReceive
  <1>9. CASE UNCHANGED allvars
    BY <1>1, <1>9 DEF allvars
  <1> QED
    BY <1>3, <1>4, <1>5, <1>6, <1>7, <1>8, <1>9, SupplicantType DEF HNext

-----------------------------------------------------------------------------
(* The replay counters that the authenticator awaits.                      *)

ReplayOK(m, a) ==
    /\ a.pending <= a.counter
    /\ m.replay_valid <=> a.pending > 0

ReplayKept == \A s \in STA : ReplayOK(sm[s], auth[s])

\* States that send no frame expect no new replay counter.
LEMMA QuietReplay ==
    ASSUME TypeOK, NEW s \in STA,
           \/ PTK_stay(s) \/ PTK_INITIALIZE(s) \/ PTK_DISCONNECT(s)
           \/ PTK_DISCONNECTED(s) \/ PTK_AUTHENTICATION(s)
           \/ \E ready \in BOOLEAN : PTK_AUTHENTICATION2(s, ready)
           \/ PTK_INITPSK(s) \/ \E ok \in BOOLEAN : PTK_PTKCALCNEGOTIATING(s, ok)
           \/ PTK_PTKCALCNEGOTIATING2(s)
           \/ \E ok \in BOOLEAN : PTK_PTKINITDONE(s, ok)
           \/ GROUP_stay(s) \/ GROUP_IDLE(s) \/ GROUP_REKEYESTABLISHED(s)
           \/ GROUP_KEYERROR(s) \/ GSM_setkeysdone(s) \/ GSM_stay(s)
           \/ wpa_group_update_sta(s)
    PROVE  /\ sm'[s].replay_valid <=> sm[s].replay_valid
           /\ \A u \in STA \ {s} : sm'[u] = sm[u]
  <1>1. sm[s] \in WpaStateMachine /\ DOMAIN sm = STA
    BY DEF TypeOK
  <1> USE <1>1 DEF WpaStateMachine, EnterPtk, EnterGroup
  <1>2. CASE PTK_stay(s)
    BY <1>2 DEF PTK_stay
  <1>3. CASE PTK_INITIALIZE(s)
    BY <1>3 DEF PTK_INITIALIZE, wpa_remove_ptk
  <1>4. CASE PTK_DISCONNECT(s)
    BY <1>4 DEF PTK_DISCONNECT, wpa_sta_disconnect
  <1>5. CASE PTK_DISCONNECTED(s)
    BY <1>5 DEF PTK_DISCONNECTED
  <1>6. CASE PTK_AUTHENTICATION(s)
    BY <1>6 DEF PTK_AUTHENTICATION
  <1>7. CASE \E ready \in BOOLEAN : PTK_AUTHENTICATION2(s, ready)
    BY <1>7 DEF PTK_AUTHENTICATION2
  <1>8. CASE PTK_INITPSK(s)
    BY <1>8 DEF PTK_INITPSK
  <1>9. CASE \E ok \in BOOLEAN : PTK_PTKCALCNEGOTIATING(s, ok)
    <2>1. PICK ok \in BOOLEAN : PTK_PTKCALCNEGOTIATING(s, ok)
      BY <1>9
    <2>2. CASE ok
      BY <2>1, <2>2 DEF PTK_PTKCALCNEGOTIATING, cancel_eapol_timeout
    <2>3. CASE ~ok
      BY <2>1, <2>3 DEF PTK_PTKCALCNEGOTIATING, cancel_eapol_timeout
    <2> QED
      BY <2>2, <2>3
  <1>10. CASE PTK_PTKCALCNEGOTIATING2(s)
    BY <1>10 DEF PTK_PTKCALCNEGOTIATING2
  <1>11. CASE \E ok \in BOOLEAN : PTK_PTKINITDONE(s, ok)
    <2>1. PICK ok \in BOOLEAN : PTK_PTKINITDONE(s, ok)
      BY <1>11
    <2>2. CASE ok
      BY <2>1, <2>2, ZenonT(40) DEF PTK_PTKINITDONE, wpa_sta_disconnect
    <2>3. CASE ~ok
      BY <2>1, <2>3 DEF PTK_PTKINITDONE, wpa_sta_disconnect
    <2> QED
      BY <2>2, <2>3
  <1>12. CASE GROUP_stay(s)
    BY <1>12 DEF GROUP_stay
  <1>13. CASE GROUP_IDLE(s)
    BY <1>13 DEF GROUP_IDLE
  <1>14. CASE GROUP_REKEYESTABLISHED(s)
    BY <1>14 DEF GROUP_REKEYESTABLISHED
  <1>15. CASE GROUP_KEYERROR(s)
    BY <1>15 DEF GROUP_KEYERROR
  <1>16. CASE GSM_setkeysdone(s) \/ GSM_stay(s)
    BY <1>16 DEF GSM_setkeysdone, GSM_stay
  <1>17. CASE wpa_group_update_sta(s)
    BY <1>17 DEF wpa_group_update_sta, EACH_skip, EACH_mark
  <1> QED
    BY <1>2, <1>3, <1>4, <1>5, <1>6, <1>7, <1>8, <1>9, <1>10, <1>11,
       <1>12, <1>13, <1>14, <1>15, <1>16, <1>17

\* A message of the AP is sent iff the machine expects an answer to it.
LEMMA SendReplay ==
    ASSUME TypeOK, NEW s \in STA,
           PTK_PTKSTART(s) \/ PTK_PTKINITNEGOTIATING(s) \/ GROUP_REKEYNEGOTIATING(s)
    PROVE  /\ Sends(s) => sm'[s].replay_valid
           /\ ~Sends(s) => (sm'[s].replay_valid <=> sm[s].replay_valid)
           /\ \A u \in STA \ {s} : sm'[u] = sm[u]
  <1>1. sm[s] \in WpaStateMachine /\ DOMAIN sm = STA
    BY DEF TypeOK
  <1> USE <1>1 DEF WpaStateMachine, EnterPtk, EnterGroup, wpa_send_eapol, Sends
  <1>2. CASE PTK_PTKSTART(s)
    BY <1>2 DEF PTK_PTKSTART
  <1>3. CASE PTK_PTKINITNEGOTIATING(s)
    BY <1>3 DEF PTK_PTKINITNEGOTIATING
  <1>4. CASE GROUP_REKEYNEGOTIATING(s)
    BY <1>4 DEF GROUP_REKEYNEGOTIATING
  <1> QED
    BY <1>2, <1>3, <1>4

\* How the AP's functions bear on the replay counters: sending validates them,
\* the others leave them as they are.
LEMMA ReplayData ==
    ASSUME NEW a \in ApData, NEW m, ReplayOK(m, a), NEW n
    PROVE  /\ n.replay_valid => ReplayOK(n, NextReplayCounter(a))
           /\ (n.replay_valid <=> m.replay_valid) =>
                /\ ReplayOK(n, a) /\ ReplayOK(n, RemovePTK(a))
                /\ \A k : ReplayOK(n, [a EXCEPT !.PTK = k])
                /\ ReplayOK(n, [a EXCEPT !.key = a.PTK, !.last = a.PTK,
                                         !.times = @ + 1])
                /\ \A c : ReplayOK(n, [a EXCEPT !.ANonce = c])
           /\ ~n.replay_valid =>
                /\ ReplayOK(n, ClearKeyReplay(a))
                /\ ReplayOK(n, [AuthData EXCEPT !.last = a.last, !.times = a.times])
                /\ \A k, c : ReplayOK(n, [a EXCEPT !.pending = 0, !.mic = k,
                                                   !.SNonce = c])
  <1> USE DEF ReplayOK, ApData, RSNA_MAX_EAPOL_RETRIES
  <1>1. ASSUME n.replay_valid PROVE ReplayOK(n, NextReplayCounter(a))
    BY <1>1 DEF NextReplayCounter
  <1>2. ASSUME n.replay_valid <=> m.replay_valid
        PROVE  /\ ReplayOK(n, a) /\ ReplayOK(n, RemovePTK(a))
               /\ \A k : ReplayOK(n, [a EXCEPT !.PTK = k])
               /\ ReplayOK(n, [a EXCEPT !.key = a.PTK, !.last = a.PTK, !.times = @ + 1])
               /\ \A c : ReplayOK(n, [a EXCEPT !.ANonce = c])
    BY <1>2 DEF RemovePTK
  <1>3. ASSUME ~n.replay_valid
        PROVE  /\ ReplayOK(n, ClearKeyReplay(a))
               /\ ReplayOK(n, [AuthData EXCEPT !.last = a.last, !.times = a.times])
               /\ \A k, c : ReplayOK(n, [a EXCEPT !.pending = 0, !.mic = k,
                                                  !.SNonce = c])
    <2>1. ReplayOK(n, ClearKeyReplay(a))
      BY <1>3 DEF ClearKeyReplay
    <2>2. ReplayOK(n, [AuthData EXCEPT !.last = a.last, !.times = a.times])
      BY <1>3 DEF AuthData
    <2>3. \A k, c : ReplayOK(n, [a EXCEPT !.pending = 0, !.mic = k, !.SNonce = c])
      BY <1>3
    <2> QED
      BY <2>1, <2>2, <2>3
  <1> QED
    BY <1>1, <1>2, <1>3

\* The events that the authenticator gets no frame with.
LEMMA EventReplay ==
    ASSUME TypeOK, KnownInv, NEW s \in STA,
           \/ handle_assoc(s) \/ handle_auth(s) \/ handle_assoc_cb(s) \/ CONT_auth(s)
           \/ CONT_reauth(s) \/ handle_disassoc(s) \/ handle_deauth(s)
           \/ ap_handle_timer_disassoc(s) \/ wpa_send_eapol_timeout(s)
           \/ wpa_rekey_ptk(s) \/ wpa_receive_entropy(s)
           \/ \E kind : wpa_receive_bad_mic(s, kind)
           \/ CONT_assoc(s) /\ ~sm[s].started
    PROVE  /\ sm'[s].replay_valid <=> sm[s].replay_valid
           /\ \A u \in STA \ {s} : sm'[u] = sm[u]
  <1>1. sm[s] \in WpaStateMachine /\ DOMAIN sm = STA
    BY DEF TypeOK
  <1> USE <1>1 DEF WpaStateMachine, wpa_remove_ptk, ieee802_1x_free_station
  <1>2. CASE handle_assoc(s)
    BY <1>2 DEF handle_assoc, wpa_auth_sta_init, KnownInv, Known
  <1>3. CASE handle_auth(s)
    BY <1>3 DEF handle_auth
  <1>4. CASE handle_assoc_cb(s)
    <2>1. PICK g \in Group :
            sm' = [sm EXCEPT ![s] = [wpa_remove_ptk(sm[s]) EXCEPT !.assoc = "assoc", !.group = g]]
      BY <1>4 DEF handle_assoc_cb
    <2> QED
      BY <2>1
  <1>5. CASE CONT_auth(s)
    BY <1>5 DEF CONT_auth
  <1>b. ASSUME NEW b \in ieee802_1x_new_station(s)
        PROVE  b \in WpaStateMachine /\ b.replay_valid = sm[s].replay_valid
    BY NewStationType
  <1>6. CASE CONT_reauth(s)
    <2>1. PICK b \in ieee802_1x_new_station(s) :
            sm' = [sm EXCEPT ![s] = wpa_remove_ptk(Reauthenticate(b))]
      BY <1>6 DEF CONT_reauth
    <2> QED
      BY <1>b, <2>1 DEF Reauthenticate
  <1>7. CASE handle_disassoc(s)
    BY <1>7 DEF handle_disassoc, Deauthenticate
  <1>8. CASE handle_deauth(s)
    BY <1>8 DEF handle_deauth, Deauthenticate
  <1>9. CASE ap_handle_timer_disassoc(s)
    BY <1>9 DEF ap_handle_timer_disassoc
  <1>10. CASE wpa_send_eapol_timeout(s)
    BY <1>10 DEF wpa_send_eapol_timeout
  <1>11. CASE wpa_rekey_ptk(s)
    BY <1>11 DEF wpa_rekey_ptk, wpa_request_new_ptk
  <1>12. CASE wpa_receive_entropy(s)
    BY <1>12 DEF wpa_receive_entropy, wpa_sta_disconnect
  <1>13. CASE \E kind : wpa_receive_bad_mic(s, kind)
    BY <1>13 DEF wpa_receive_bad_mic
  <1>14. CASE CONT_assoc(s) /\ ~sm[s].started
    <2>1. PICK b \in ieee802_1x_new_station(s) :
            sm' = [sm EXCEPT ![s] = [b EXCEPT !.started = TRUE, !.Init = TRUE]]
      BY <1>14 DEF CONT_assoc
    <2> QED
      BY <1>b, <2>1
  <1> QED
    BY <1>2, <1>3, <1>4, <1>5, <1>6, <1>7, <1>8, <1>9, <1>10, <1>11, <1>12, <1>13,
       <1>14

\* The events that end what the authenticator waits for.
LEMMA ResetReplay ==
    ASSUME TypeOK, NEW s \in STA,
           \/ CONT_assoc(s) /\ sm[s].started
           \/ ap_handle_timer_remove(s) \/ CONT_free(s)
           \/ \E kind : wpa_receive_key(s, kind)
    PROVE  /\ ~sm'[s].replay_valid
           /\ \A u \in STA \ {s} : sm'[u] = sm[u]
  <1>1. sm[s] \in WpaStateMachine /\ DOMAIN sm = STA
    BY DEF TypeOK
  <1> USE <1>1 DEF WpaStateMachine
  <1>2. CASE CONT_assoc(s) /\ sm[s].started
    <2>1. PICK b \in ieee802_1x_new_station(s) :
            sm' = [sm EXCEPT ![s] = [b EXCEPT !.replay_valid = FALSE,
                                              !.ReAuthenticationRequest = TRUE]]
      BY <1>2 DEF CONT_assoc
    <2>2. b \in WpaStateMachine
      BY NewStationType
    <2> QED
      BY <2>1, <2>2
  <1>3. CASE ap_handle_timer_remove(s) \/ CONT_free(s)
    BY <1>3 DEF ap_handle_timer_remove, CONT_free, wpa_auth_sta_deinit,
                wpa_auth_sta_init
  <1>4. CASE \E kind : wpa_receive_key(s, kind)
    <2>1. PICK kind : wpa_receive_key(s, kind)
      BY <1>4
    <2>2. VerifyMIC(sm[s]) \in WpaStateMachine
      BY VerifyMICType
    <2> QED
      BY <2>1, <2>2 DEF wpa_receive_key
  <1> QED
    BY <1>2, <1>3, <1>4

\* All steps.
LEMMA ReplayStep ==
    ASSUME TypeOK, KnownInv, DataTypeOK, ReplayKept, [HNext]_allvars
    PROVE  ReplayKept'
  <1>0. ASSUME NEW s \in STA PROVE auth[s] \in ApData /\ ReplayOK(sm[s], auth[s])
    BY DEF DataTypeOK, ReplayKept
  <1>1. ASSUME NEW s \in STA, \A u \in STA \ {s} : sm'[u] = sm[u],
               NEW a, auth' = [auth EXCEPT ![s] = a], ReplayOK(sm'[s], a)
        PROVE  ReplayKept'
    BY <1>1 DEF ReplayKept, DataTypeOK
  <1>2. ASSUME NEW s \in STA, \A u \in STA \ {s} : sm'[u] = sm[u],
               sm'[s].replay_valid <=> sm[s].replay_valid, auth' = auth
        PROVE  ReplayKept'
    BY <1>0, <1>2, ReplayData DEF ReplayKept
  <1>3. CASE sm' = sm /\ auth' = auth
    BY <1>3 DEF ReplayKept
  <1>4. CASE HRekey
    BY <1>3, <1>4 DEF HRekey, HSetKeys, REKEY_setkeys, REKEY_setkeysdone, REKEY_stay,
       EACH_done, wpa_rekey_gtk, data
  <1>5. ASSUME NEW s \in STA, HMachines(s) PROVE ReplayKept'
    <2>1. CASE PTK_INITIALIZE(s) /\ AuthOnly(s, RemovePTK(auth[s]))
      BY <1>0, <1>1, <2>1, QuietReplay, ReplayData DEF AuthOnly
    <2>2. CASE PTK_AUTHENTICATION(s) /\ AuthOnly(s, [auth[s] EXCEPT !.PTK = NoKey])
      <3> DEFINE b == [auth[s] EXCEPT !.PTK = NoKey]
      <3>1. ReplayOK(sm'[s], b) /\ \A u \in STA \ {s} : sm'[u] = sm[u]
        BY <1>0, <2>2, QuietReplay, ReplayData
      <3>2. auth' = [auth EXCEPT ![s] = b]
        BY <2>2 DEF AuthOnly
      <3> QED
        BY <1>1, <3>1, <3>2
    <2>3. ASSUME NEW ready \in RandomPoolReady, HAuthentication2(s, ready)
          PROVE  ReplayKept'
      <3>1. PTK_AUTHENTICATION2(s, ready) /\ ready \in BOOLEAN
        BY <2>3, HandshakeAssumption DEF HAuthentication2
      <3>2. PICK c : auth' = [auth EXCEPT ![s] = [auth[s] EXCEPT !.ANonce = c]]
        BY <2>3 DEF HAuthentication2
      <3> DEFINE b == [auth[s] EXCEPT !.ANonce = c]
      <3>3. ReplayOK(sm'[s], b) /\ \A u \in STA \ {s} : sm'[u] = sm[u]
        BY <1>0, <3>1, QuietReplay, ReplayData
      <3> QED
        BY <1>1, <3>2, <3>3
    <2>4. ASSUME PTK_PTKSTART(s) \/ PTK_PTKINITNEGOTIATING(s)
                   \/ GROUP_REKEYNEGOTIATING(s),
                 NEW msg, NEW nonce, NEW gtk, SendOrNot(s, msg, nonce, gtk)
          PROVE  ReplayKept'
      <3>1. CASE Sends(s)
        <4>1. auth' = [auth EXCEPT ![s] = NextReplayCounter(auth[s])]
          BY <2>4, <3>1 DEF SendOrNot, __wpa_send_eapol
        <4>2. sm'[s].replay_valid /\ \A u \in STA \ {s} : sm'[u] = sm[u]
          BY <2>4, <3>1, SendReplay
        <4>3. ReplayOK(sm'[s], NextReplayCounter(auth[s]))
          BY <1>0, <4>2, ReplayData
        <4> QED
          BY <1>1, <4>1, <4>2, <4>3
      <3>2. CASE ~Sends(s)
        BY <1>2, <2>4, <3>2, SendReplay DEF SendOrNot
      <3> QED
        BY <3>1, <3>2
    <2>5. CASE HPtkCalcNegotiating(s)
      <3> DEFINE ok == auth[s].mic = <<auth[s].ANonce, auth[s].SNonce>>
      <3>1. PTK_PTKCALCNEGOTIATING(s, ok) /\ ok \in BOOLEAN
        BY <2>5 DEF HPtkCalcNegotiating
      <3>2. \E b \in BOOLEAN : PTK_PTKCALCNEGOTIATING(s, b)
        BY <3>1
      <3>3. CASE ok
        <4> DEFINE b == [auth[s] EXCEPT !.PTK = <<auth[s].ANonce, auth[s].SNonce>>]
        <4>1. ReplayOK(sm'[s], b) /\ \A u \in STA \ {s} : sm'[u] = sm[u]
          BY <1>0, <3>2, QuietReplay, ReplayData
        <4>2. auth' = [auth EXCEPT ![s] = b]
          BY <2>5, <3>3 DEF HPtkCalcNegotiating, AuthOnly
        <4> QED
          BY <1>1, <4>1, <4>2
      <3>4. CASE ~ok
        BY <1>0, <1>1, <2>5, <3>2, <3>4, QuietReplay, ReplayData, ZenonT(40)
           DEF HPtkCalcNegotiating, AuthOnly
      <3> QED
        BY <3>3, <3>4
    <2>6. ASSUME NEW ok \in BOOLEAN, HPtkInitDone(s, ok) PROVE ReplayKept'
      <3>1. PTK_PTKINITDONE(s, ok)
        BY <2>6 DEF HPtkInitDone
      <3>3. CASE ok
        <4> DEFINE b == [auth[s] EXCEPT !.key = auth[s].PTK, !.last = auth[s].PTK,
                                        !.times = @ + 1]
        <4>1. ReplayOK(sm'[s], b) /\ \A u \in STA \ {s} : sm'[u] = sm[u]
          BY <1>0, <3>1, QuietReplay, ReplayData
        <4>2. auth' = [auth EXCEPT ![s] = b]
          BY <2>6, <3>3 DEF HPtkInitDone, AuthOnly
        <4> QED
          BY <1>1, <4>1, <4>2
      <3>4. CASE ~ok
        <4>1. ReplayOK(sm'[s], auth[s]) /\ \A u \in STA \ {s} : sm'[u] = sm[u]
          BY <1>0, <3>1, QuietReplay, ReplayData
        <4>2. auth' = [auth EXCEPT ![s] = auth[s]]
          BY <2>6, <3>4 DEF HPtkInitDone, AuthOnly
        <4> QED
          BY <1>1, <4>1, <4>2
      <3> QED
        BY <3>3, <3>4
    <2>7. CASE /\ \/ PTK_stay(s) \/ PTK_DISCONNECT(s) \/ PTK_DISCONNECTED(s)
                  \/ PTK_INITPSK(s) \/ PTK_PTKCALCNEGOTIATING2(s)
                  \/ GROUP_stay(s) \/ GROUP_IDLE(s) \/ GROUP_REKEYESTABLISHED(s)
                  \/ GROUP_KEYERROR(s) \/ GSM_setkeysdone(s) \/ GSM_stay(s)
                  \/ wpa_group_update_sta(s)
               /\ UNCHANGED data
      BY <1>2, <2>7, QuietReplay DEF data
    <2> QED
      BY <1>5, <2>1, <2>2, <2>3, <2>4, <2>5, <2>6, <2>7 DEF HMachines
  <1>6. ASSUME NEW s \in STA, HAssociation(s) PROVE ReplayKept'
    <2>1. CASE (handle_assoc(s) \/ CONT_auth(s)) /\ UNCHANGED data
      BY <1>2, <2>1, EventReplay DEF data
    <2>2. CASE /\ handle_auth(s) \/ handle_assoc_cb(s) \/ CONT_reauth(s)
               /\ auth' = [auth EXCEPT ![s] = RemovePTK(auth[s])]
      BY <1>0, <1>1, <2>2, EventReplay, ReplayData
    <2>3. CASE /\ CONT_assoc(s)
               /\ AuthOnly(s, IF sm[s].started THEN ClearKeyReplay(auth[s])
                              ELSE auth[s])
      <3>1. CASE sm[s].started
        BY <1>0, <1>1, <2>3, <3>1, ResetReplay, ReplayData DEF AuthOnly
      <3>2. CASE ~sm[s].started
        BY <1>0, <1>1, <2>3, <3>2, EventReplay, ReplayData DEF AuthOnly
      <3> QED
        BY <3>1, <3>2
    <2> QED
      BY <1>6, <2>1, <2>2, <2>3 DEF HAssociation, AuthOnly
  <1>7. ASSUME NEW s \in STA, HDeparture(s) PROVE ReplayKept'
    <2>1. CASE /\ handle_disassoc(s) \/ handle_deauth(s)
               /\ AuthOnly(s, RemovePTK(auth[s]))
      BY <1>0, <1>1, <2>1, EventReplay, ReplayData DEF AuthOnly
    <2>2. CASE ap_handle_timer_disassoc(s) /\ UNCHANGED data
      BY <1>2, <2>2, EventReplay DEF data
    <2>3. CASE /\ ap_handle_timer_remove(s) \/ CONT_free(s)
               /\ AuthOnly(s, [AuthData EXCEPT !.last = auth[s].last,
                                               !.times = auth[s].times])
      <3> DEFINE b == [AuthData EXCEPT !.last = auth[s].last, !.times = auth[s].times]
      <3>1. ReplayOK(sm'[s], b) /\ \A u \in STA \ {s} : sm'[u] = sm[u]
        BY <1>0, <2>3, ResetReplay, ReplayData
      <3>2. auth' = [auth EXCEPT ![s] = b]
        BY <2>3 DEF AuthOnly
      <3> QED
        BY <1>1, <3>1, <3>2
    <2> QED
      BY <1>7, <2>1, <2>2, <2>3 DEF HDeparture
  <1>8. ASSUME NEW s \in STA, HTimeout(s) PROVE ReplayKept'
    BY <1>2, <1>8, EventReplay DEF HTimeout, data
  <1>9. ASSUME NEW s \in STA, NEW f \in air[s], HReceive(s, f) PROVE ReplayKept'
    <2>1. CASE /\ wpa_receive_entropy(s) \/ \E kind : wpa_receive_bad_mic(s, kind)
               /\ UNCHANGED data
      BY <1>2, <2>1, EventReplay DEF data
    <2>2. ASSUME NEW kind, wpa_receive_key(s, kind),
                 AuthOnly(s, [auth[s] EXCEPT !.pending = 0, !.mic = f.mic,
                                             !.SNonce = f.nonce])
          PROVE  ReplayKept'
      <3> DEFINE b == [auth[s] EXCEPT !.pending = 0, !.mic = f.mic, !.SNonce = f.nonce]
      <3>1. ReplayOK(sm'[s], b) /\ \A u \in STA \ {s} : sm'[u] = sm[u]
        BY <1>0, <2>2, ResetReplay, ReplayData
      <3>2. auth' = [auth EXCEPT ![s] = b]
        BY <2>2 DEF AuthOnly
      <3> QED
        BY <1>1, <3>1, <3>2
    <2> QED
      BY <1>9, <2>1, <2>2 DEF HReceive
  <1>10. ASSUME NEW s \in STA, HSupplicant(s) PROVE ReplayKept'
    BY <1>3, <1>10 DEF HSupplicant, vars
  <1>11. CASE UNCHANGED allvars
    BY <1>3, <1>11 DEF allvars, vars, data
  <1> QED
    BY <1>4, <1>5, <1>6, <1>7, <1>8, <1>9, <1>10, <1>11 DEF HNext

\* The data of the handshakes have their types, and the authenticator expects an
\* answer iff it holds a pending replay counter that it has used.
THEOREM DataCorrect == HSpec => [](DataTypeOK /\ ReplayKept)
  <1>1. HInit => DataTypeOK /\ ReplayKept
    <2> SUFFICES ASSUME HInit PROVE DataTypeOK /\ ReplayKept
      OBVIOUS
    <2>1. AuthData \in ApData /\ AuthData.pending = 0 /\ AuthData.counter = 0
      BY NoKeyType DEF AuthData, ApData, RSNA_MAX_EAPOL_RETRIES
    <2>2. wpa_sm_init \in SuppData
      BY NoKeyType DEF wpa_sm_init, SuppData
    <2>3. wpa_gtk_update([Counter |-> 1, GTK |-> [i \in 1..2 |-> 0], GN |-> 1])
             \in GroupKeys
      <3>1. [Counter |-> 1, GTK |-> [i \in 1..2 |-> 0], GN |-> 1] \in GroupKeys
        BY DEF GroupKeys
      <3> QED
        BY <3>1, GroupKeysType
    <2>4. DataTypeOK
      BY <2>1, <2>2, <2>3 DEF HInit, SuppInit, DataTypeOK
    <2>5. \A s \in STA : ~sm[s].replay_valid
      BY DEF HInit, Init, wpa_auth_sta_init
    <2>6. ReplayKept
      BY <2>1, <2>5 DEF HInit, ReplayKept, ReplayOK
    <2> QED
      BY <2>4, <2>6
  <1>2. TypeOK /\ KnownInv /\ DataTypeOK /\ ReplayKept /\ [HNext]_allvars
          => (DataTypeOK /\ ReplayKept)'
    BY DataTypeStep, ReplayStep
  <1> QED
    BY <1>1, <1>2, HandshakeIsAuthenticator, TypeCorrect, StrangersAreBlank, PTL
       DEF HSpec

\* Nonces, keys, frames and replay counters have their types, whatever is lost,
\* repeated or delayed; a station's answer is expected iff a counter is pending.
THEOREM HandshakeTypeCorrect == HSpec => []HandshakeTypeOK
  <1>1. DataTypeOK /\ ReplayKept => HandshakeTypeOK
    BY DEF DataTypeOK, ReplayKept, ReplayOK, HandshakeTypeOK, SuppData, ApData, GroupKeys
  <1> QED
    BY <1>1, DataCorrect, PTL

=============================================================================
