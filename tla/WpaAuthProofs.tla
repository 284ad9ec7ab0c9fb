---------------------------- MODULE WpaAuthProofs ----------------------------
(***************************************************************************)
(* Theorems about the authenticator of WpaAuth, for every set of stations, *)
(* every list of groups and every retry limit.                             *)
(*                                                                         *)
(* The records are large, so they are dealt with in lemmas about the       *)
(* functions that transform them; the proofs about the actions only use    *)
(* that a function maps a WpaStateMachine to a WpaStateMachine.            *)
(***************************************************************************)
EXTENDS WpaAuth, TLAPS, FiniteSetTheorems, SequenceTheorems

SMs == [STA -> WpaStateMachine]
Groups == [Group -> WpaGroup]

-----------------------------------------------------------------------------
(* The transformers of a station's record keep its type.                   *)

\* wpa_remove_ptk clears flags only.
LEMMA RemovePtkType ==
    ASSUME NEW m \in WpaStateMachine
    PROVE  wpa_remove_ptk(m) \in WpaStateMachine
  BY DEF wpa_remove_ptk, WpaStateMachine

\* wpa_request_new_ptk sets and clears flags only.
LEMMA RequestNewPtkType ==
    ASSUME NEW m \in WpaStateMachine
    PROVE  wpa_request_new_ptk(m) \in WpaStateMachine
  BY DEF wpa_request_new_ptk, WpaStateMachine

\* wpa_sta_disconnect leaves the entry of the station disassociated.
LEMMA StaDisconnectType ==
    ASSUME NEW m \in WpaStateMachine
    PROVE  wpa_sta_disconnect(m) \in WpaStateMachine
  BY DEF wpa_sta_disconnect, WpaStateMachine

\* wpa_send_eapol registers one more timeout.
LEMMA SendEapolType ==
    ASSUME NEW m \in WpaStateMachine
    PROVE  wpa_send_eapol(m) \in WpaStateMachine
  <1> DEFINE n == m.timers + 1
  <1>1. n \in Nat
    BY DEF WpaStateMachine
  <1> HIDE DEF n
  <1>2. [m EXCEPT !.replay_valid = TRUE, !.timers = n] \in WpaStateMachine
    BY <1>1 DEF WpaStateMachine
  <1> QED
    BY <1>2 DEF n, wpa_send_eapol

\* eloop_cancel_timeout leaves no registration.
LEMMA CancelType ==
    ASSUME NEW m \in WpaStateMachine
    PROVE  cancel_eapol_timeout(m) \in WpaStateMachine
  BY DEF cancel_eapol_timeout, WpaStateMachine

\* wpa_receive's MIC check keeps the type of the record.
LEMMA VerifyMICType ==
    ASSUME NEW m \in WpaStateMachine
    PROVE  VerifyMIC(m) \in WpaStateMachine
  <1>1. ASSUME NEW n \in WpaStateMachine, NEW b \in BOOLEAN
        PROVE  [n EXCEPT !.MICVerified = b] \in WpaStateMachine
    BY DEF WpaStateMachine
  <1> QED
    BY <1>1, CancelType DEF VerifyMIC

\* A zeroed record is a record.
LEMMA StaInitType ==
    ASSUME NEW a \in {"none", "disassoc", "assoc"}
    PROVE  wpa_auth_sta_init(a) \in WpaStateMachine
  <1>1. DefaultGroup \in Group
    BY ConstantAssumption DEF DefaultGroup, Group
  <1> QED
    BY <1>1 DEF wpa_auth_sta_init, WpaStateMachine, PtkStates, PtkGroupStates,
                KeyFrames

\* Reauthentication turns a pending mark into PtkGroupInit.
LEMMA ReauthenticateType ==
    ASSUME NEW m \in WpaStateMachine
    PROVE  Reauthenticate(m) \in WpaStateMachine
  <1> DEFINE b == m.PtkGroupInit \/ m.GUpdateStationKeys
  <1>1. b \in BOOLEAN
    OBVIOUS
  <1> HIDE DEF b
  <1>2. [m EXCEPT !.PtkGroupInit = b, !.GUpdateStationKeys = FALSE,
                  !.ReAuthenticationRequest = TRUE, !.PTK_valid = FALSE]
          \in WpaStateMachine
    BY <1>1 DEF WpaStateMachine
  <1> QED
    BY <1>2 DEF b, Reauthenticate

\* ieee802_1x_free_station drops the flags of the EAPOL machine.
LEMMA FreeStationType ==
    ASSUME NEW m \in WpaStateMachine
    PROVE  ieee802_1x_free_station(m) \in WpaStateMachine
  BY DEF ieee802_1x_free_station, WpaStateMachine

\* Deauthentication of the station keeps the type of the record.
LEMMA DeauthenticateType ==
    ASSUME NEW m \in WpaStateMachine
    PROVE  Deauthenticate(m) \in WpaStateMachine
  <1> DEFINE n == wpa_remove_ptk(ieee802_1x_free_station(m))
  <1>1. n \in WpaStateMachine
    BY FreeStationType, RemovePtkType
  <1> HIDE DEF n
  <1>2. [n EXCEPT !.DeauthenticationRequest = TRUE] \in WpaStateMachine
    BY <1>1 DEF WpaStateMachine
  <1> QED
    BY <1>2 DEF n, Deauthenticate

-----------------------------------------------------------------------------
(* The transformers of the groups keep their type.                         *)

\* The default group is in the list.
LEMMA DefaultGroupType == DefaultGroup \in Group
  BY ConstantAssumption DEF DefaultGroup, Group

\* The loop head clears a flag only.
LEMMA ClearChangedType ==
    ASSUME NEW gr \in Groups
    PROVE  ClearChanged(gr) \in Groups
  BY DefaultGroupType DEF ClearChanged, Groups, WpaGroup

\* Dropping a mark leaves an integer count.
LEMMA DropMarkType ==
    ASSUME NEW gr \in Groups, NEW m \in WpaStateMachine
    PROVE  DropMark(gr, m) \in Groups
  <1>1. m.group \in Group
    BY DEF WpaStateMachine
  <1> QED
    BY <1>1 DEF DropMark, Groups, WpaGroup

\* wpa_group_ensure_init's flags, for the first station of a group.
LEMMA FirstStationType ==
    ASSUME NEW gr \in Groups, NEW g \in Group, NEW ready \in BOOLEAN
    PROVE  wpa_group_first_station(gr, g, ready) \in Groups
  <1> DEFINE b == gr[g].reject_4way_hs_for_entropy \/ ~ready
  <1>1. b \in BOOLEAN
    OBVIOUS
  <1> HIDE DEF b
  <1>2. [gr EXCEPT ![g].first_sta_seen = TRUE,
                   ![g].reject_4way_hs_for_entropy = b] \in Groups
    BY <1>1 DEF Groups, WpaGroup
  <1> QED
    BY <1>2 DEF b, wpa_group_first_station

\* wpa_group_setkeysdone enters a group state.
LEMMA SetkeysdoneType ==
    ASSUME NEW gr \in Groups, NEW g \in Group
    PROVE  wpa_group_setkeysdone(gr, g) \in Groups
  BY DEF wpa_group_setkeysdone, Groups, WpaGroup, GroupStates

\* Requesting a GTK rekeying sets flags only.
LEMMA RequestGTKReKeyType ==
    ASSUME NEW gr \in Groups, NEW g \in Group
    PROVE  RequestGTKReKey(gr, g) \in Groups
  BY DEF RequestGTKReKey, Groups, WpaGroup

-----------------------------------------------------------------------------
(* Type correctness.  Every action is shown to preserve TypeOK.            *)

\* A station's record is replaced by another one.
LEMMA UpdateType ==
    ASSUME sm \in SMs, NEW s \in STA, NEW m \in WpaStateMachine,
           sm' = [sm EXCEPT ![s] = m]
    PROVE  sm' \in SMs
  BY DEF SMs

\* An event that starts wpa_sm_step's loop for one station.
LEMMA StepLoopType ==
    ASSUME TypeOK, NEW s \in STA, todo = {}, rekeyq = <<>>,
           NEW c \in {"none", "assoc", "auth", "reauth", "free", "recv"},
           StepLoop(s, c),
           sm' \in SMs, group' \in Groups, gtkTimer' \in BOOLEAN
    PROVE  TypeOK'
  BY DEF TypeOK, StepLoop, SMs, Groups

\* An event that runs no loop.
LEMMA NoLoopType ==
    ASSUME TypeOK, UNCHANGED stack,
           sm' \in SMs, group' \in Groups, gtkTimer' \in BOOLEAN
    PROVE  TypeOK'
  BY DEF TypeOK, stack, SMs, Groups

\* The end of an event.
LEMMA FinishType ==
    ASSUME Finish,
           sm' \in SMs, group' \in Groups, gtkTimer' \in BOOLEAN
    PROVE  TypeOK'
  BY DEF TypeOK, Finish, SMs, Groups

\* The next call in wpa_sm_step's loop.
LEMMA InLoopType ==
    ASSUME TypeOK, pc \in {"ptk", "grp", "gsm"},
           NEW l \in {"ptk", "grp", "gsm"}, GoTo(l),
           sm' \in SMs, group' \in Groups, gtkTimer' \in BOOLEAN
    PROVE  TypeOK'
  BY DEF TypeOK, GoTo, SMs, Groups

\* The body of a WPA_PTK state leaves a record m.
LEMMA EnterPtkType ==
    ASSUME TypeOK, NEW s \in STA, NEW t \in PtkStates,
           NEW m \in WpaStateMachine, EnterPtk(s, t, m), group' \in Groups
    PROVE  TypeOK'
  <1> DEFINE b == ~(t = "INITIALIZE" /\ m.Init)
             n == [m EXCEPT !.wpa_ptk_state = t, !.changed = b]
  <1>1. b \in BOOLEAN
    OBVIOUS
  <1> HIDE DEF b
  <1>2. n \in WpaStateMachine
    BY <1>1 DEF WpaStateMachine
  <1>3. sm' = [sm EXCEPT ![s] = n]
    BY DEF EnterPtk, b
  <1> HIDE DEF n
  <1>4. sm' \in SMs
    BY <1>2, <1>3, UpdateType DEF TypeOK, SMs
  <1> QED
    BY <1>4, InLoopType DEF EnterPtk, TypeOK

\* The body of a WPA_PTK_GROUP state leaves a record m.
LEMMA EnterGroupType ==
    ASSUME TypeOK, NEW s \in STA, NEW t \in PtkGroupStates,
           NEW m \in WpaStateMachine, EnterGroup(s, t, m), group' \in Groups
    PROVE  TypeOK'
  <1> DEFINE b == ~(t = "IDLE" /\ m.Init)
             n == [m EXCEPT !.wpa_ptk_group_state = t, !.changed = b]
  <1>1. b \in BOOLEAN
    OBVIOUS
  <1> HIDE DEF b
  <1>2. n \in WpaStateMachine
    BY <1>1 DEF WpaStateMachine
  <1>3. sm' = [sm EXCEPT ![s] = n]
    BY DEF EnterGroup, b
  <1> HIDE DEF n
  <1>4. sm' \in SMs
    BY <1>2, <1>3, UpdateType DEF TypeOK, SMs
  <1> QED
    BY <1>4, InLoopType DEF EnterGroup, TypeOK

\* The states of the 4-way handshake machine.
LEMMA PtkType ==
    ASSUME TypeOK, NEW s \in STA, WPA_PTK(s)
    PROVE  TypeOK'
  <1> DEFINE m == sm[s]
  <1>0. /\ m \in WpaStateMachine /\ sm \in SMs /\ group \in Groups
        /\ m.group \in Group
    BY DEF TypeOK, SMs, Groups, WpaStateMachine
  <1>1. /\ ClearChanged(group) \in Groups
        /\ DropMark(ClearChanged(group), m) \in Groups
    BY <1>0, ClearChangedType, DropMarkType
  <1>2. CASE PTK_stay(s)
    <2>1. [m EXCEPT !.changed = FALSE] \in WpaStateMachine
      BY <1>0 DEF WpaStateMachine
    <2>2. sm' \in SMs
      BY <1>0, <1>2, <2>1, UpdateType DEF PTK_stay
    <2> QED
      BY <1>1, <1>2, <2>2, InLoopType DEF PTK_stay, TypeOK
  <1>3. CASE PTK_INITIALIZE(s)
    <2> DEFINE r == wpa_remove_ptk(m)
               a == r.PInitAKeys /\ Version[s] # "WPA"
               b == r.authorized /\ KeyMgmt[s] = "EAP"
               n == [r EXCEPT !.GUpdateStationKeys = FALSE, !.PInitAKeys = a,
                              !.TimeoutCtr = 0, !.authorized = b]
    <2>1. r \in WpaStateMachine /\ a \in BOOLEAN /\ b \in BOOLEAN
      BY <1>0, RemovePtkType
    <2>2. EnterPtk(s, "INITIALIZE", n)
      BY <1>3 DEF PTK_INITIALIZE
    <2> HIDE DEF r, a, b
    <2>3. n \in WpaStateMachine
      BY <2>1 DEF WpaStateMachine
    <2> QED
      BY <1>1, <1>3, <2>2, <2>3, EnterPtkType DEF PTK_INITIALIZE, PtkStates
  <1>4. CASE PTK_DISCONNECT(s)
    <2>1. [m EXCEPT !.Disconnect = FALSE] \in WpaStateMachine
      BY <1>0 DEF WpaStateMachine
    <2>2. wpa_sta_disconnect([m EXCEPT !.Disconnect = FALSE]) \in WpaStateMachine
      BY <2>1, StaDisconnectType
    <2> QED
      BY <1>1, <1>4, <2>2, EnterPtkType DEF PTK_DISCONNECT, PtkStates
  <1>5. CASE PTK_DISCONNECTED(s)
    <2>1. [m EXCEPT !.DeauthenticationRequest = FALSE] \in WpaStateMachine
      BY <1>0 DEF WpaStateMachine
    <2> QED
      BY <1>1, <1>5, <2>1, EnterPtkType DEF PTK_DISCONNECTED, PtkStates
  <1>6. CASE PTK_AUTHENTICATION(s)
    <2>1. [m EXCEPT !.PTK_valid = FALSE, !.AuthenticationRequest = FALSE]
            \in WpaStateMachine
      BY <1>0 DEF WpaStateMachine
    <2> QED
      BY <1>1, <1>6, <2>1, EnterPtkType DEF PTK_AUTHENTICATION, PtkStates
  <1>7. ASSUME NEW ready \in BOOLEAN, PTK_AUTHENTICATION2(s, ready)
        PROVE  TypeOK'
    <2>1. [m EXCEPT !.ReAuthenticationRequest = FALSE, !.TimeoutCtr = 0]
            \in WpaStateMachine
      BY <1>0 DEF WpaStateMachine
    <2>2. group' \in Groups
      BY <1>0, <1>1, <1>7, FirstStationType DEF PTK_AUTHENTICATION2
    <2> QED
      BY <1>7, <2>1, <2>2, EnterPtkType DEF PTK_AUTHENTICATION2, PtkStates
  <1>8. CASE PTK_INITPMK(s)
    <2>1. [m EXCEPT !.keyRun = FALSE] \in WpaStateMachine
      BY <1>0 DEF WpaStateMachine
    <2> QED
      BY <1>1, <1>8, <2>1, EnterPtkType DEF PTK_INITPMK, PtkStates
  <1>9. CASE PTK_INITPSK(s)
    BY <1>0, <1>1, <1>9, EnterPtkType DEF PTK_INITPSK, PtkStates
  <1>10. CASE PTK_PTKSTART(s)
    <2> DEFINE k == m.TimeoutCtr + 1
               n == [m EXCEPT !.PTKRequest = FALSE, !.TimeoutEvt = FALSE,
                              !.TimeoutCtr = k]
    <2>1. k \in Nat
      BY <1>0 DEF WpaStateMachine
    <2>2. \/ EnterPtk(s, "PTKSTART", n)
          \/ EnterPtk(s, "PTKSTART", wpa_send_eapol(n))
      BY <1>10 DEF PTK_PTKSTART
    <2> HIDE DEF k
    <2>3. n \in WpaStateMachine
      BY <1>0, <2>1 DEF WpaStateMachine
    <2> HIDE DEF n
    <2> QED
      BY <1>1, <1>10, <2>2, <2>3, SendEapolType, EnterPtkType
         DEF PTK_PTKSTART, PtkStates
  <1>11. ASSUME NEW ok \in BOOLEAN, PTK_PTKCALCNEGOTIATING(s, ok)
         PROVE  TypeOK'
    <2> DEFINE n == [m EXCEPT !.EAPOLKey = "none"]
               c == cancel_eapol_timeout(n)
               v == [c EXCEPT !.MICVerified = TRUE, !.PTK_valid = TRUE]
    <2>1. \/ EnterPtk(s, "PTKCALCNEGOTIATING", n)
          \/ EnterPtk(s, "PTKCALCNEGOTIATING", v)
      BY <1>11 DEF PTK_PTKCALCNEGOTIATING
    <2>2. n \in WpaStateMachine
      BY <1>0 DEF WpaStateMachine, KeyFrames
    <2>3. c \in WpaStateMachine
      BY <2>2, CancelType
    <2> HIDE DEF c
    <2>4. v \in WpaStateMachine
      BY <2>3 DEF WpaStateMachine
    <2> HIDE DEF n, v
    <2> QED
      BY <1>1, <1>11, <2>1, <2>2, <2>4, EnterPtkType
         DEF PTK_PTKCALCNEGOTIATING, PtkStates
  <1>12. CASE PTK_PTKCALCNEGOTIATING2(s)
    <2>1. [m EXCEPT !.TimeoutCtr = 0] \in WpaStateMachine
      BY <1>0 DEF WpaStateMachine
    <2> QED
      BY <1>1, <1>12, <2>1, EnterPtkType DEF PTK_PTKCALCNEGOTIATING2, PtkStates
  <1>13. CASE PTK_PTKINITNEGOTIATING(s)
    <2> DEFINE k == m.TimeoutCtr + 1
               n == [m EXCEPT !.TimeoutEvt = FALSE, !.TimeoutCtr = k]
    <2>1. k \in Nat
      BY <1>0 DEF WpaStateMachine
    <2>2. \/ EnterPtk(s, "PTKINITNEGOTIATING", n)
          \/ EnterPtk(s, "PTKINITNEGOTIATING", wpa_send_eapol(n))
      BY <1>13 DEF PTK_PTKINITNEGOTIATING
    <2> HIDE DEF k
    <2>3. n \in WpaStateMachine
      BY <1>0, <2>1 DEF WpaStateMachine
    <2> HIDE DEF n
    <2> QED
      BY <1>1, <1>13, <2>2, <2>3, SendEapolType, EnterPtkType
         DEF PTK_PTKINITNEGOTIATING, PtkStates
  <1>14. ASSUME NEW ok \in BOOLEAN, PTK_PTKINITDONE(s, ok)
         PROVE  TypeOK'
    <2> DEFINE n == [m EXCEPT !.EAPOLKey = "none"]
               a == n.rekey_ptk_timer \/ PtkRekey
               b == n.authorized \/ KeyMgmt[s] # "EAP"
               c == n.PInitAKeys \/ Version[s] = "WPA"
               d == n.has_GTK \/ Version[s] # "WPA"
               v == [n EXCEPT !.pairwise_set = TRUE, !.rekey_ptk_timer = a,
                              !.authorized = b, !.keyAvailable = FALSE,
                              !.PInitAKeys = c, !.has_GTK = d]
    <2>1. \/ EnterPtk(s, "PTKINITDONE", v)
          \/ EnterPtk(s, "PTKINITDONE", wpa_sta_disconnect(n))
      BY <1>14 DEF PTK_PTKINITDONE
    <2>2. n \in WpaStateMachine
      BY <1>0 DEF WpaStateMachine, KeyFrames
    <2>3. a \in BOOLEAN /\ b \in BOOLEAN /\ c \in BOOLEAN /\ d \in BOOLEAN
      OBVIOUS
    <2> HIDE DEF n, a, b, c, d
    <2>4. v \in WpaStateMachine
      BY <2>2, <2>3 DEF WpaStateMachine
    <2> HIDE DEF v
    <2> QED
      BY <1>1, <1>14, <2>1, <2>2, <2>4, StaDisconnectType, EnterPtkType
         DEF PTK_PTKINITDONE, PtkStates
  <1> QED
    BY <1>2, <1>3, <1>4, <1>5, <1>6, <1>7, <1>8, <1>9, <1>10, <1>11, <1>12,
       <1>13, <1>14 DEF WPA_PTK

\* The states of the group key handshake machine.
LEMMA PtkGroupType ==
    ASSUME TypeOK, NEW s \in STA, WPA_PTK_GROUP(s)
    PROVE  TypeOK'
  <1> DEFINE m == sm[s]
  <1>0. /\ m \in WpaStateMachine /\ sm \in SMs /\ group \in Groups
        /\ DropMark(group, m) \in Groups
    BY DropMarkType DEF TypeOK, SMs, Groups
  <1>1. CASE GROUP_stay(s)
    BY <1>0, <1>1, InLoopType DEF GROUP_stay, TypeOK
  <1>2. CASE GROUP_IDLE(s)
    <2>1. [m EXCEPT !.GTimeoutCtr = 0, !.PtkGroupInit = FALSE] \in WpaStateMachine
      BY <1>0 DEF WpaStateMachine
    <2> QED
      BY <1>0, <1>2, <2>1, EnterGroupType DEF GROUP_IDLE, PtkGroupStates
  <1>3. CASE GROUP_REKEYNEGOTIATING(s)
    <2> DEFINE k == m.GTimeoutCtr + 1
               n == [m EXCEPT !.GTimeoutCtr = k]
               b == n.PInitAKeys /\ Version[s] # "WPA"
               v == [n EXCEPT !.PInitAKeys = b, !.TimeoutEvt = FALSE]
    <2>1. k \in Nat /\ b \in BOOLEAN
      BY <1>0 DEF WpaStateMachine
    <2>2. \/ EnterGroup(s, "REKEYNEGOTIATING", n)
          \/ EnterGroup(s, "REKEYNEGOTIATING", wpa_send_eapol(v))
      BY <1>3 DEF GROUP_REKEYNEGOTIATING
    <2> HIDE DEF k
    <2>3. n \in WpaStateMachine
      BY <1>0, <2>1 DEF WpaStateMachine
    <2> HIDE DEF n, b
    <2>4. v \in WpaStateMachine
      BY <2>1, <2>3 DEF WpaStateMachine
    <2> HIDE DEF v
    <2> QED
      BY <1>0, <1>3, <2>2, <2>3, <2>4, SendEapolType, EnterGroupType
         DEF GROUP_REKEYNEGOTIATING, PtkGroupStates
  <1>4. CASE GROUP_REKEYESTABLISHED(s)
    <2>1. [m EXCEPT !.EAPOLKey = "none", !.GUpdateStationKeys = FALSE,
                    !.GTimeoutCtr = 0, !.has_GTK = TRUE] \in WpaStateMachine
      BY <1>0 DEF WpaStateMachine, KeyFrames
    <2> QED
      BY <1>0, <1>4, <2>1, EnterGroupType DEF GROUP_REKEYESTABLISHED, PtkGroupStates
  <1>5. CASE GROUP_KEYERROR(s)
    <2>1. [m EXCEPT !.GUpdateStationKeys = FALSE, !.Disconnect = TRUE]
            \in WpaStateMachine
      BY <1>0 DEF WpaStateMachine
    <2> QED
      BY <1>0, <1>5, <2>1, EnterGroupType DEF GROUP_KEYERROR, PtkGroupStates
  <1> QED
    BY <1>1, <1>2, <1>3, <1>4, <1>5 DEF WPA_PTK_GROUP

\* The loop of wpa_sm_step is repeated or left.
LEMMA LoopEndType ==
    ASSUME TypeOK, NEW s \in STA, NEW b, pc = "gsm", cur = s, LoopEnd(s, b),
           sm' \in SMs, group' \in Groups, gtkTimer' \in BOOLEAN
    PROVE  TypeOK'
  <1>1. CASE GoTo("ptk")
    BY <1>1, InLoopType
  <1>2. CASE Finish
    BY <1>2, FinishType
  <1>3. CASE /\ rekeyq # <<>> /\ pc' = "each" /\ cur' = NoSTA
             /\ UNCHANGED <<cont, caller, todo, rekeyq>>
    BY <1>3 DEF TypeOK, SMs, Groups
  <1>4. ASSUME rekeyq = <<>>, cont # "none", pc' = "cont", cur' = NoSTA,
               UNCHANGED <<cont, caller, todo, rekeyq>>
        PROVE  TypeOK'
    BY <1>4 DEF TypeOK, SMs, Groups
  <1> QED
    BY <1>1, <1>2, <1>3, <1>4 DEF LoopEnd

\* wpa_group_sm_step, at the end of the loop.
LEMMA GsmType ==
    ASSUME TypeOK, NEW s \in STA, GSM_setkeysdone(s) \/ GSM_stay(s)
    PROVE  TypeOK'
  <1>0. /\ sm \in SMs /\ group \in Groups /\ gtkTimer \in BOOLEAN
        /\ sm[s].group \in Group
    BY DEF TypeOK, SMs, Groups, WpaStateMachine
  <1>1. CASE GSM_setkeysdone(s)
    BY <1>0, <1>1, SetkeysdoneType, LoopEndType DEF GSM_setkeysdone
  <1>2. CASE GSM_stay(s)
    BY <1>0, <1>2, LoopEndType DEF GSM_stay
  <1> QED
    BY <1>1, <1>2

\* The next group of the list, or the end of wpa_rekey_gtk.
LEMMA NextGroupType ==
    ASSUME TypeOK, rekeyq # <<>>, todo = {}, NEW gr \in Groups, NextGroup(gr),
           sm' \in SMs, gtkTimer' \in BOOLEAN
    PROVE  TypeOK'
  <1>1. ASSUME Len(rekeyq) > 1, rekeyq' = Tail(rekeyq),
               group' = RequestGTKReKey(gr, rekeyq[2]), pc' = "rekey",
               UNCHANGED <<cur, cont, caller, todo>>
        PROVE  TypeOK'
    <2>1. rekeyq \in Seq(Group) /\ rekeyq[2] \in Group
      BY <1>1 DEF TypeOK
    <2> DEFINE t == Tail(rekeyq)
    <2>a. t \in Seq(Group) /\ Len(t) = Len(rekeyq) - 1
      BY <1>1, <2>1, HeadTailProperties
    <2> HIDE DEF t
    <2>b. t # <<>>
      BY <1>1, <2>1, <2>a
    <2>2. group' \in Groups
      BY <1>1, <2>1, RequestGTKReKeyType
    <2> QED
      BY <1>1, <2>a, <2>b, <2>2 DEF t, TypeOK, SMs, Groups
  <1>2. ASSUME cont = "recv", group' = gr, pc' = "cont", rekeyq' = <<>>,
               UNCHANGED <<cur, cont, caller, todo>>
        PROVE  TypeOK'
    BY <1>2 DEF TypeOK, SMs, Groups
  <1>3. ASSUME group' = gr, Finish
        PROVE  TypeOK'
    BY <1>3, FinishType
  <1> QED
    BY <1>1, <1>2, <1>3 DEF NextGroup

\* wpa_rekey_gtk's own steps.
LEMMA RekeyType ==
    ASSUME TypeOK, RunRekey
    PROVE  TypeOK'
  <1> DEFINE g == Head(rekeyq)
  <1>0. /\ sm \in SMs /\ group \in Groups /\ gtkTimer \in BOOLEAN
        /\ rekeyq \in Seq(Group)
    BY DEF TypeOK, SMs, Groups
  <1>g. ASSUME rekeyq # <<>> PROVE g \in Group
    BY <1>0, <1>g
  <1>1. CASE REKEY_setkeysdone
    <2>1. rekeyq # <<>> /\ todo = {} /\ pc = "rekey"
      BY <1>1 DEF REKEY_setkeysdone, TypeOK
    <2>2. group' \in Groups
      BY <1>0, <1>1, <1>g, <2>1, SetkeysdoneType DEF REKEY_setkeysdone
    <2> QED
      BY <1>0, <1>1, <2>1, <2>2 DEF REKEY_setkeysdone, GoTo, TypeOK, SMs, Groups
  <1>2. CASE REKEY_setkeys
    <2>1. rekeyq # <<>>
      BY <1>2 DEF REKEY_setkeys, TypeOK
    <2> DEFINE r == [group[g] EXCEPT !.state = "SETKEYS", !.changed = TRUE,
                                     !.GTKReKey = FALSE, !.GKeyDoneStations = 0]
    <2>2. group' = [group EXCEPT ![g] = r]
      BY <1>2 DEF REKEY_setkeys
    <2>a. r \in WpaGroup
      <3>1. ASSUME NEW q \in WpaGroup, NEW k \in Int
            PROVE  [q EXCEPT !.state = "SETKEYS", !.changed = TRUE,
                             !.GTKReKey = FALSE, !.GKeyDoneStations = k] \in WpaGroup
        BY DEF WpaGroup, GroupStates
      <3>2. g \in Group
        BY <1>g, <2>1
      <3>3. group[g] \in WpaGroup
        BY <1>0, <3>2 DEF Groups
      <3>4. 0 \in Int
        OBVIOUS
      <3> QED
        BY <3>1, <3>3, <3>4, Zenon
    <2> HIDE DEF r
    <2>3. group' \in Groups
      BY <1>0, <1>g, <2>1, <2>2, <2>a DEF Groups
    <2> QED
      BY <1>0, <1>2, <2>1, <2>3 DEF REKEY_setkeys, TypeOK, SMs, Groups
  <1>3. CASE REKEY_stay
    <2>1. rekeyq # <<>> /\ todo = {}
      BY <1>3 DEF REKEY_stay, TypeOK
    <2>2. [group EXCEPT ![g].changed = FALSE] \in Groups
      BY <1>0, <1>g, <2>1 DEF Groups, WpaGroup
    <2> QED
      BY <1>0, <1>3, <2>1, <2>2, NextGroupType DEF REKEY_stay
  <1>4. CASE EACH_done
    <2>1. rekeyq # <<>> /\ todo = {}
      BY <1>4 DEF EACH_done, TypeOK
    <2>2. CASE NextGroup(group)
      BY <1>0, <1>4, <2>1, <2>2, NextGroupType DEF EACH_done
    <2>3. CASE GoTo("rekey") /\ UNCHANGED group
      BY <1>0, <1>4, <2>1, <2>3 DEF EACH_done, GoTo, TypeOK, SMs, Groups
    <2> QED
      BY <1>4, <2>2, <2>3 DEF EACH_done
  <1> QED
    BY <1>1, <1>2, <1>3, <1>4 DEF RunRekey

\* The callback of wpa_auth_for_each_sta.
LEMMA UpdateStaType ==
    ASSUME TypeOK, NEW s \in STA, wpa_group_update_sta(s)
    PROVE  TypeOK'
  <1>0. /\ sm \in SMs /\ group \in Groups /\ sm[s] \in WpaStateMachine
        /\ sm[s].group \in Group
    BY DEF TypeOK, SMs, Groups, WpaStateMachine
  <1>1. ASSUME NEW b \in BOOLEAN
        PROVE  [sm EXCEPT ![s].GUpdateStationKeys = b] \in SMs
    <2>1. [sm[s] EXCEPT !.GUpdateStationKeys = b] \in WpaStateMachine
      BY <1>0 DEF WpaStateMachine
    <2> QED
      BY <1>0, <2>1 DEF SMs
  <1>2. CASE EACH_skip(s)
    <2>1. sm' \in SMs
      BY <1>1, <1>2 DEF EACH_skip
    <2> QED
      BY <1>0, <1>2, <2>1 DEF EACH_skip, TypeOK, SMs, Groups
  <1>3. CASE EACH_mark(s)
    <2>1. sm' \in SMs
      BY <1>1, <1>3 DEF EACH_mark
    <2>2. group' \in Groups
      BY <1>0, <1>3 DEF EACH_mark, Groups, WpaGroup
    <2> QED
      BY <1>0, <1>3, <2>1, <2>2 DEF EACH_mark, TypeOK, SMs, Groups
  <1> QED
    BY <1>2, <1>3 DEF wpa_group_update_sta

\* A cached PMK changes the flags of the 802.1X machines and the group only.
LEMMA NewStationType ==
    ASSUME NEW s \in STA, sm[s] \in WpaStateMachine, NEW m \in ieee802_1x_new_station(s)
    PROVE  /\ m \in WpaStateMachine
           /\ \/ m = sm[s]
              \/ /\ KeyMgmt[s] = "EAP"
                 /\ \E g \in Group :
                      m = [sm[s] EXCEPT !.keyRun = TRUE, !.keyAvailable = TRUE, !.group = g]
           /\ m.assoc = sm[s].assoc /\ m.replay_valid = sm[s].replay_valid
           /\ m.GUpdateStationKeys = sm[s].GUpdateStationKeys
  <1> DEFINE r(g) == [sm[s] EXCEPT !.keyRun = TRUE, !.keyAvailable = TRUE, !.group = g]
  <1>1. m = sm[s] \/ (KeyMgmt[s] = "EAP" /\ \E g \in Group : m = r(g))
    BY DEF ieee802_1x_new_station
  <1>2. ASSUME NEW g \in Group
        PROVE  /\ r(g) \in WpaStateMachine
               /\ r(g).assoc = sm[s].assoc /\ r(g).replay_valid = sm[s].replay_valid
               /\ r(g).GUpdateStationKeys = sm[s].GUpdateStationKeys
    BY DEF WpaStateMachine
  <1> HIDE DEF r
  <1>3. /\ m \in WpaStateMachine
        /\ m.assoc = sm[s].assoc /\ m.replay_valid = sm[s].replay_valid
        /\ m.GUpdateStationKeys = sm[s].GUpdateStationKeys
    BY <1>1, <1>2
  <1> QED
    BY <1>1, <1>3 DEF r

\* The rest of an event, after the loop of its station.
LEMMA ContType ==
    ASSUME TypeOK, NEW s \in STA,
           \/ CONT_assoc(s) \/ CONT_auth(s) \/ CONT_reauth(s)
           \/ CONT_free(s) \/ CONT_recv(s)
    PROVE  TypeOK'
  <1> DEFINE m == sm[s]
  <1>0. /\ m \in WpaStateMachine /\ sm \in SMs /\ group \in Groups
        /\ gtkTimer \in BOOLEAN
    BY DEF TypeOK, SMs, Groups
  <1>1. pc = "cont" /\ todo = {} /\ rekeyq = <<>>
    BY DEF CONT_assoc, CONT_auth, CONT_reauth, CONT_free, CONT_recv, TypeOK
  <1>2. CASE CONT_assoc(s)
    <2>1. CASE m.started
      <3>1. PICK b \in ieee802_1x_new_station(s) :
              sm' = [sm EXCEPT ![s] = [b EXCEPT !.replay_valid = FALSE,
                                                !.ReAuthenticationRequest = TRUE]]
        BY <1>2, <2>1 DEF CONT_assoc
      <3>2. b \in WpaStateMachine
        BY <1>0, NewStationType
      <3>3. [b EXCEPT !.replay_valid = FALSE, !.ReAuthenticationRequest = TRUE]
              \in WpaStateMachine
        BY <3>2 DEF WpaStateMachine
      <3>4. sm' \in SMs
        BY <1>0, <3>1, <3>3, UpdateType
      <3> QED
        BY <1>0, <1>1, <1>2, <2>1, <3>4, StepLoopType DEF CONT_assoc
    <2>2. CASE ~m.started
      <3>1. PICK b \in ieee802_1x_new_station(s) :
              sm' = [sm EXCEPT ![s] = [b EXCEPT !.started = TRUE, !.Init = TRUE]]
        BY <1>2, <2>2 DEF CONT_assoc
      <3>2. b \in WpaStateMachine
        BY <1>0, NewStationType
      <3>3. [b EXCEPT !.started = TRUE, !.Init = TRUE] \in WpaStateMachine
        BY <3>2 DEF WpaStateMachine
      <3>4. sm' \in SMs
        BY <1>0, <3>1, <3>3, UpdateType
      <3> QED
        BY <1>0, <1>1, <1>2, <2>2, <3>4, StepLoopType DEF CONT_assoc
    <2> QED
      BY <2>1, <2>2
  <1>3. CASE CONT_auth(s)
    <2>1. [m EXCEPT !.Init = FALSE, !.AuthenticationRequest = TRUE]
            \in WpaStateMachine
      BY <1>0 DEF WpaStateMachine
    <2>2. sm' = [sm EXCEPT ![s] = [m EXCEPT !.Init = FALSE,
                                            !.AuthenticationRequest = TRUE]]
      BY <1>0, <1>3 DEF CONT_auth, SMs
    <2>3. sm' \in SMs
      BY <1>0, <2>1, <2>2, UpdateType
    <2> QED
      BY <1>0, <1>1, <1>3, <2>3, StepLoopType DEF CONT_auth
  <1>4. CASE CONT_reauth(s)
    <2>0. PICK b \in ieee802_1x_new_station(s) :
            /\ sm' = [sm EXCEPT ![s] = wpa_remove_ptk(Reauthenticate(b))]
            /\ group' = DropMark(group, b)
      BY <1>4 DEF CONT_reauth
    <2>b. b \in WpaStateMachine
      BY <1>0, NewStationType
    <2>1. wpa_remove_ptk(Reauthenticate(b)) \in WpaStateMachine
      BY <2>b, ReauthenticateType, RemovePtkType
    <2>2. sm' \in SMs
      BY <1>0, <2>0, <2>1, UpdateType
    <2>3. group' \in Groups
      BY <1>0, <2>0, <2>b, DropMarkType
    <2> QED
      BY <1>0, <1>1, <1>4, <2>2, <2>3, StepLoopType DEF CONT_reauth
  <1>5. CASE CONT_free(s)
    <2>1. sm' \in SMs
      BY <1>0, <1>5, StaInitType, UpdateType DEF CONT_free, wpa_auth_sta_deinit
    <2>2. group' \in Groups
      BY <1>0, <1>5, DropMarkType DEF CONT_free, wpa_auth_sta_deinit
    <2>3. gtkTimer' \in BOOLEAN
      BY <1>5 DEF CONT_free, wpa_auth_sta_deinit
    <2> QED
      BY <1>5, <2>1, <2>2, <2>3, FinishType DEF CONT_free
  <1>6. CASE CONT_recv(s)
    <2>1. [m EXCEPT !.EAPOLKey = "REQUEST"] \in WpaStateMachine
      BY <1>0 DEF WpaStateMachine, KeyFrames
    <2>2. sm' \in SMs
      BY <1>0, <1>6, <2>1, UpdateType DEF CONT_recv
    <2> QED
      BY <1>0, <1>1, <1>6, <2>2, StepLoopType DEF CONT_recv
  <1> QED
    BY <1>2, <1>3, <1>4, <1>5, <1>6

\* wpa_rekey_gtk is called, by its timer or for a Request of a station.
LEMMA StartRekeyType ==
    ASSUME TypeOK, NEW s \in STA \cup {NoSTA}, NEW c \in {"none", "recv"},
           StartRekey(c, s), s \in STA \/ c = "none", sm' \in SMs
    PROVE  TypeOK'
  <1>1. group' \in Groups
    BY DefaultGroupType, RequestGTKReKeyType DEF StartRekey, TypeOK, Groups
  <1>2. GroupSeq \in Seq(Group) /\ GroupSeq # <<>> /\ GroupRekey \in BOOLEAN
    BY ConstantAssumption
  <1> QED
    BY <1>1, <1>2 DEF StartRekey, TypeOK, SMs, Groups

\* An EAPOL-Key frame is received.
LEMMA ReceiveType ==
    ASSUME TypeOK, NEW s \in STA, wpa_receive(s)
    PROVE  TypeOK'
  <1> DEFINE m == sm[s]
  <1>0. /\ m \in WpaStateMachine /\ sm \in SMs /\ group \in Groups
        /\ gtkTimer \in BOOLEAN /\ m.group \in Group
    BY DEF TypeOK, SMs, Groups, WpaStateMachine
  <1>1. pc = "idle" /\ todo = {} /\ rekeyq = <<>>
    BY DEF wpa_receive, wpa_receive_entropy, wpa_receive_ie_mismatch,
           wpa_receive_bad_mic, wpa_receive_key, wpa_receive_request,
           wpa_receive_request_gtk, Receivable, TypeOK
  <1>2. CASE wpa_receive_entropy(s)
    <2>1. sm' \in SMs
      BY <1>0, <1>2, StaDisconnectType, UpdateType DEF wpa_receive_entropy
    <2>2. group' \in Groups
      BY <1>0, <1>2 DEF wpa_receive_entropy, Groups, WpaGroup
    <2> QED
      BY <1>0, <1>2, <2>1, <2>2, NoLoopType DEF wpa_receive_entropy
  <1>3. CASE wpa_receive_ie_mismatch(s)
    <2>1. sm' \in SMs
      BY <1>0, <1>3, StaDisconnectType, UpdateType DEF wpa_receive_ie_mismatch
    <2> QED
      BY <1>0, <1>3, <2>1, NoLoopType DEF wpa_receive_ie_mismatch
  <1>4. ASSUME NEW kind \in KeyKinds, wpa_receive_bad_mic(s, kind)
        PROVE  TypeOK'
    <2>1. [m EXCEPT !.MICVerified = FALSE] \in WpaStateMachine
      BY <1>0 DEF WpaStateMachine
    <2>2. sm' \in SMs
      BY <1>0, <1>4, <2>1, UpdateType DEF wpa_receive_bad_mic
    <2> QED
      BY <1>0, <1>4, <2>2, NoLoopType DEF wpa_receive_bad_mic
  <1>5. ASSUME NEW kind \in KeyKinds, wpa_receive_key(s, kind)
        PROVE  TypeOK'
    <2> DEFINE v == VerifyMIC(m)
               k == IF kind = "GROUP_2" THEN "GROUP" ELSE "PAIRWISE"
               n == [v EXCEPT !.replay_valid = FALSE, !.EAPOLKey = k]
    <2>1. v \in WpaStateMachine /\ k \in KeyFrames
      BY <1>0, VerifyMICType DEF KeyFrames
    <2>2. sm' = [sm EXCEPT ![s] = n]
      BY <1>5 DEF wpa_receive_key
    <2> HIDE DEF v, k
    <2>3. n \in WpaStateMachine
      BY <2>1 DEF WpaStateMachine
    <2>4. sm' \in SMs
      BY <1>0, <2>2, <2>3, UpdateType
    <2> QED
      BY <1>0, <1>1, <1>5, <2>4, StepLoopType DEF wpa_receive_key
  <1>6. ASSUME NEW kind \in KeyKinds, wpa_receive_request(s, kind)
        PROVE  TypeOK'
    <2> DEFINE v == VerifyMIC(m)
               n == [v EXCEPT !.EAPOLKey = "REQUEST"]
    <2>1. v \in WpaStateMachine
      BY <1>0, VerifyMICType
    <2>2. \/ sm' = [sm EXCEPT ![s] = n]
          \/ sm' = [sm EXCEPT ![s] = wpa_request_new_ptk(n)]
      BY <1>6 DEF wpa_receive_request
    <2> HIDE DEF v
    <2>3. n \in WpaStateMachine
      BY <2>1 DEF WpaStateMachine, KeyFrames
    <2> HIDE DEF n
    <2>4. wpa_request_new_ptk(n) \in WpaStateMachine
      BY <2>3, RequestNewPtkType
    <2>5. sm' \in SMs
      BY <1>0, <2>2, <2>3, <2>4, UpdateType
    <2> QED
      BY <1>0, <1>1, <1>6, <2>5, StepLoopType DEF wpa_receive_request
  <1>7. CASE wpa_receive_request_gtk(s)
    <2>1. sm' \in SMs
      BY <1>0, <1>7, VerifyMICType, UpdateType DEF wpa_receive_request_gtk
    <2> QED
      BY <1>7, <2>1, StartRekeyType DEF wpa_receive_request_gtk
  <1> QED
    BY <1>2, <1>3, <1>4, <1>5, <1>6, <1>7 DEF wpa_receive

\* The other events of a station.
LEMMA StationEventType ==
    ASSUME TypeOK, NEW s \in STA, StationEvent(s)
    PROVE  TypeOK'
  <1> DEFINE m == sm[s]
  <1>0. /\ m \in WpaStateMachine /\ sm \in SMs /\ group \in Groups
        /\ gtkTimer \in BOOLEAN
    BY DEF TypeOK, SMs, Groups
  <1>1. ASSUME pc = "idle" PROVE todo = {} /\ rekeyq = <<>>
    BY <1>1 DEF TypeOK
  <1>2. CASE handle_assoc(s)
    <2>1. sm' \in SMs
      BY <1>0, <1>2, StaInitType, UpdateType DEF handle_assoc
    <2> QED
      BY <1>0, <1>2, <2>1, NoLoopType DEF handle_assoc
  <1>3. CASE handle_auth(s)
    <2>1. sm' \in SMs
      BY <1>0, <1>3, RemovePtkType, UpdateType DEF handle_auth
    <2> QED
      BY <1>0, <1>1, <1>3, <2>1, StepLoopType DEF handle_auth
  <1>4. CASE handle_assoc_cb(s)
    <2> DEFINE r == wpa_remove_ptk(m)
    <2>1. r \in WpaStateMachine
      BY <1>0, RemovePtkType
    <2>0. PICK g \in Group : sm' = [sm EXCEPT ![s] = [r EXCEPT !.assoc = "assoc", !.group = g]]
      BY <1>4 DEF handle_assoc_cb
    <2> DEFINE n == [r EXCEPT !.assoc = "assoc", !.group = g]
    <2>2. sm' = [sm EXCEPT ![s] = n]
      BY <2>0
    <2> HIDE DEF r
    <2>3. n \in WpaStateMachine
      BY <2>1 DEF WpaStateMachine
    <2>4. sm' \in SMs
      BY <1>0, <2>2, <2>3, UpdateType
    <2> QED
      BY <1>0, <1>1, <1>4, <2>4, StepLoopType DEF handle_assoc_cb
  <1>5. CASE handle_disassoc(s)
    <2>1. sm' \in SMs
      BY <1>0, <1>5, DeauthenticateType, UpdateType DEF handle_disassoc
    <2> QED
      BY <1>0, <1>1, <1>5, <2>1, StepLoopType DEF handle_disassoc
  <1>6. CASE handle_deauth(s)
    <2>1. sm' \in SMs
      BY <1>0, <1>6, DeauthenticateType, UpdateType DEF handle_deauth
    <2> QED
      BY <1>0, <1>1, <1>6, <2>1, StepLoopType DEF handle_deauth
  <1>7. CASE ap_handle_timer_disassoc(s)
    <2>1. sm' \in SMs
      BY <1>0, <1>7, FreeStationType, UpdateType DEF ap_handle_timer_disassoc
    <2> QED
      BY <1>0, <1>7, <2>1, NoLoopType DEF ap_handle_timer_disassoc
  <1>8. CASE ap_handle_timer_remove(s)
    <2>1. sm' \in SMs
      BY <1>0, <1>8, StaInitType, UpdateType
         DEF ap_handle_timer_remove, wpa_auth_sta_deinit
    <2>2. group' \in Groups
      BY <1>0, <1>8, DropMarkType DEF ap_handle_timer_remove, wpa_auth_sta_deinit
    <2>3. gtkTimer' \in BOOLEAN
      BY <1>8 DEF ap_handle_timer_remove, wpa_auth_sta_deinit
    <2> QED
      BY <1>8, <2>1, <2>2, <2>3, NoLoopType DEF ap_handle_timer_remove
  <1>9. CASE wpa_reauth_eapol(s)
    <2>1. sm' \in SMs
      BY <1>0, <1>9, ReauthenticateType, UpdateType DEF wpa_reauth_eapol
    <2>2. group' \in Groups
      BY <1>0, <1>9, DropMarkType DEF wpa_reauth_eapol
    <2> QED
      BY <1>0, <1>1, <1>9, <2>1, <2>2, StepLoopType DEF wpa_reauth_eapol
  <1>10. CASE wpa_sm_call_step(s)
    BY <1>0, <1>1, <1>10, StepLoopType DEF wpa_sm_call_step
  <1>11. ASSUME NEW run \in BOOLEAN, NEW avail \in BOOLEAN, eapol_keyRun(s, run, avail)
         PROVE  TypeOK'
    <2> DEFINE n == [m EXCEPT !.keyRun = run, !.keyAvailable = avail]
    <2>1. n \in WpaStateMachine
      BY <1>0 DEF WpaStateMachine
    <2>2. sm' = [sm EXCEPT ![s] = n]
      BY <1>0, <1>11 DEF eapol_keyRun, SMs
    <2>3. sm' \in SMs
      BY <1>0, <2>1, <2>2, UpdateType
    <2> QED
      BY <1>0, <1>11, <2>3, NoLoopType DEF eapol_keyRun
  <1>12. ASSUME NEW g \in Group, wpa_auth_sta_set_vlan(s, g)
         PROVE  TypeOK'
    <2>1. [m EXCEPT !.group = g] \in WpaStateMachine
      BY <1>0 DEF WpaStateMachine
    <2>2. sm' \in SMs
      BY <1>0, <1>12, <2>1, UpdateType DEF wpa_auth_sta_set_vlan
    <2> QED
      BY <1>0, <1>12, <2>2, NoLoopType DEF wpa_auth_sta_set_vlan
  <1>13. CASE wpa_receive(s)
    BY <1>13, ReceiveType
  <1>14. CASE wpa_send_eapol_timeout(s)
    <2> DEFINE k == m.timers - 1
               n == [m EXCEPT !.timers = k, !.TimeoutEvt = TRUE]
    <2>1. k \in Nat
      BY <1>0, <1>14 DEF wpa_send_eapol_timeout, WpaStateMachine
    <2>2. sm' = [sm EXCEPT ![s] = n]
      BY <1>0, <1>14 DEF wpa_send_eapol_timeout, SMs
    <2> HIDE DEF k
    <2>3. n \in WpaStateMachine
      BY <1>0, <2>1 DEF WpaStateMachine
    <2>4. sm' \in SMs
      BY <1>0, <2>2, <2>3, UpdateType
    <2> QED
      BY <1>0, <1>1, <1>14, <2>4, StepLoopType DEF wpa_send_eapol_timeout
  <1>15. CASE wpa_rekey_ptk(s)
    <2> DEFINE r == wpa_request_new_ptk(m)
               n == [r EXCEPT !.rekey_ptk_timer = FALSE]
    <2>1. r \in WpaStateMachine
      BY <1>0, RequestNewPtkType
    <2>2. sm' = [sm EXCEPT ![s] = n]
      BY <1>15 DEF wpa_rekey_ptk
    <2> HIDE DEF r
    <2>3. n \in WpaStateMachine
      BY <2>1 DEF WpaStateMachine
    <2>4. sm' \in SMs
      BY <1>0, <2>2, <2>3, UpdateType
    <2> QED
      BY <1>0, <1>1, <1>15, <2>4, StepLoopType DEF wpa_rekey_ptk
  <1> QED
    BY <1>2, <1>3, <1>4, <1>5, <1>6, <1>7, <1>8, <1>9, <1>10, <1>11, <1>12,
       <1>13, <1>14, <1>15 DEF StationEvent

\* Every state the authenticator reaches is well typed, and so is the call
\* stack of the handler that runs: for any stations, groups, retry limits and
\* configuration, and whatever frames the stations send.
THEOREM TypeCorrect == Spec => []TypeOK
  <1>1. Init => TypeOK
    <2> SUFFICES ASSUME Init PROVE TypeOK
      OBVIOUS
    <2>1. sm \in SMs
      BY StaInitType DEF Init, SMs
    <2>2. group \in Groups
      BY DEF Init, Groups, WpaGroup, GroupStates
    <2> QED
      BY <2>1, <2>2, ConstantAssumption DEF Init, TypeOK, SMs, Groups
  <1>2. TypeOK /\ [Next]_vars => TypeOK'
    <2> SUFFICES ASSUME TypeOK, [Next]_vars PROVE TypeOK'
      OBVIOUS
    <2>1. ASSUME NEW s \in STA, Run(s) PROVE TypeOK'
      BY <2>1, PtkType, PtkGroupType, GsmType, ContType, UpdateStaType DEF Run
    <2>2. ASSUME NEW s \in STA, StationEvent(s) PROVE TypeOK'
      BY <2>2, StationEventType
    <2>3. CASE RunRekey
      BY <2>3, RekeyType
    <2>4. CASE wpa_rekey_gtk
      BY <2>4, StartRekeyType DEF wpa_rekey_gtk, TypeOK, SMs
    <2>5. CASE UNCHANGED vars
      BY <2>5, NoLoopType DEF vars, stack, TypeOK, SMs, Groups
    <2> QED
      BY <2>1, <2>2, <2>3, <2>4, <2>5 DEF Next
  <1> QED
    BY <1>1, <1>2, PTL DEF Spec

=============================================================================
