------------------------------- MODULE WpaAuth -------------------------------
(***************************************************************************)
(* The hostapd WPA/RSN authenticator (athr-hostap/src/ap/wpa_auth.c): for  *)
(* every station the WPA_PTK state machine (4-way handshake) and the       *)
(* WPA_PTK_GROUP state machine (group key handshake), for every VLAN one   *)
(* group key state machine, and the events of the AP that drive them.      *)
(*                                                                         *)
(* hostapd is a single-threaded event loop: a handler runs to its end      *)
(* before the next one starts.  A handler is nevertheless not atomic here: *)
(* wpa_sm_step() loops over the three machines until nothing changes, and  *)
(* wpa_rekey_gtk() runs that loop for every station from inside the group  *)
(* machine.  The variables pc, cur, cont, caller, todo and rekeyq are the  *)
(* call stack of the handler that is running; events happen when pc is     *)
(* "idle".                                                                 *)
(*                                                                         *)
(* Frame contents are left to a module that refines this one (Handshake).  *)
(* Whether a frame carries an expected replay counter or a correct MIC is  *)
(* a choice here, so what holds here holds whatever the stations send.     *)
(***************************************************************************)
EXTENDS Integers, FiniteSets, Sequences

CONSTANTS
    STA,           \* stations that may associate
    NoSTA,         \* no station: value of cur and caller when none is served
    GroupSeq,      \* the list wpa_auth->group, the default group first
    Version,       \* Version[s] \in {"WPA", "WPA2"}: the protocol s selected
    KeyMgmt,       \* KeyMgmt[s] \in {"PSK", "NOPSK", "EAP"}: its key management;
                   \* NOPSK is PSK with no PSK configured for s
    RequestKinds,  \* kinds of EAPOL-Key Request frames that stations send
    GroupRekey,    \* conf.wpa_group_rekey # 0
    StrictRekey,   \* conf.wpa_strict_rekey
    PtkRekey,      \* conf.wpa_ptk_rekey # 0
    dot11RSNAConfigPairwiseUpdateCount,
    dot11RSNAConfigGroupUpdateCount,
    MaxTimers      \* bound: retransmission timers of a station when an event
                   \* that can arm another one is taken

Group == {GroupSeq[i] : i \in DOMAIN GroupSeq}
DefaultGroup == GroupSeq[1]

Requests == {"REQ_PAIRWISE", "REQ_ERROR", "REQ_GROUP", "REQ_MAC"}

ASSUME ConstantAssumption ==
    /\ IsFiniteSet(STA)
    /\ NoSTA \notin STA
    /\ GroupSeq \in Seq(Group)
    /\ Len(GroupSeq) > 0
    /\ Version \in [STA -> {"WPA", "WPA2"}]
    /\ KeyMgmt \in [STA -> {"PSK", "NOPSK", "EAP"}]
    /\ RequestKinds \subseteq Requests
    /\ GroupRekey \in BOOLEAN
    /\ StrictRekey \in BOOLEAN
    /\ PtkRekey \in BOOLEAN
    /\ dot11RSNAConfigPairwiseUpdateCount \in Nat
    /\ dot11RSNAConfigGroupUpdateCount \in Nat
    /\ MaxTimers \in Nat

VARIABLES
    sm,        \* sm[s]: struct wpa_state_machine of s, with sta->flags
    group,     \* group[g]: struct wpa_group
    gtkTimer,  \* is a wpa_rekey_gtk timeout registered?
    pc,        \* what runs next: "idle", "ptk", "grp", "gsm" (the three calls
               \* in wpa_sm_step), "cont" (the rest of an event), "rekey"
               \* (wpa_rekey_gtk), "each" (wpa_auth_for_each_sta)
    cur,       \* the station whose wpa_sm_step loop runs
    cont,      \* what the event still does after the loop
    caller,    \* the station that event is about
    todo,      \* stations wpa_auth_for_each_sta has not yet called back for
    rekeyq     \* groups wpa_rekey_gtk has not yet finished, the current first

stack == <<pc, cur, cont, caller, todo, rekeyq>>
vars == <<sm, group, gtkTimer, pc, cur, cont, caller, todo, rekeyq>>

PtkStates == {"INITIALIZE", "DISCONNECT", "DISCONNECTED", "AUTHENTICATION",
              "AUTHENTICATION2", "INITPMK", "INITPSK", "PTKSTART",
              "PTKCALCNEGOTIATING", "PTKCALCNEGOTIATING2",
              "PTKINITNEGOTIATING", "PTKINITDONE"}
PtkGroupStates == {"IDLE", "REKEYNEGOTIATING", "REKEYESTABLISHED", "KEYERROR"}
GroupStates == {"SETKEYS", "SETKEYSDONE"}

\* The received frame the machines have not consumed: EAPOLKeyReceived,
\* EAPOLKeyRequest and EAPOLKeyPairwise, which are only read together.
KeyFrames == {"none", "PAIRWISE", "GROUP", "REQUEST"}

WpaStateMachine ==
    [assoc : {"none", "disassoc", "assoc"},  \* entry in sta_list, STA_ASSOC
     group : Group, started : BOOLEAN,
     wpa_ptk_state : PtkStates, wpa_ptk_group_state : PtkGroupStates,
     Init : BOOLEAN, Disconnect : BOOLEAN, DeauthenticationRequest : BOOLEAN,
     AuthenticationRequest : BOOLEAN, ReAuthenticationRequest : BOOLEAN,
     PTKRequest : BOOLEAN, PtkGroupInit : BOOLEAN, PInitAKeys : BOOLEAN,
     TimeoutEvt : BOOLEAN, TimeoutCtr : Nat, GTimeoutCtr : Nat,
     EAPOLKey : KeyFrames, MICVerified : BOOLEAN, replay_valid : BOOLEAN,
     PTK_valid : BOOLEAN, pairwise_set : BOOLEAN, authorized : BOOLEAN,
     GUpdateStationKeys : BOOLEAN, has_GTK : BOOLEAN,
     keyRun : BOOLEAN, keyAvailable : BOOLEAN,   \* eapol_sm, when KeyMgmt is EAP
     changed : BOOLEAN,
     timers : Nat,                   \* wpa_send_eapol_timeout registrations
     rekey_ptk_timer : BOOLEAN]      \* wpa_rekey_ptk registered

WpaGroup ==
    [state : GroupStates, GTKReKey : BOOLEAN, changed : BOOLEAN,
     GKeyDoneStations : Int, first_sta_seen : BOOLEAN,
     reject_4way_hs_for_entropy : BOOLEAN]

\* A zeroed struct wpa_state_machine (wpa_auth_sta_init), with entry flag a.
wpa_auth_sta_init(a) ==
    [assoc |-> a, group |-> DefaultGroup, started |-> FALSE,
     wpa_ptk_state |-> "INITIALIZE", wpa_ptk_group_state |-> "IDLE",
     Init |-> FALSE, Disconnect |-> FALSE, DeauthenticationRequest |-> FALSE,
     AuthenticationRequest |-> FALSE, ReAuthenticationRequest |-> FALSE,
     PTKRequest |-> FALSE, PtkGroupInit |-> FALSE, PInitAKeys |-> FALSE,
     TimeoutEvt |-> FALSE, TimeoutCtr |-> 0, GTimeoutCtr |-> 0,
     EAPOLKey |-> "none", MICVerified |-> FALSE, replay_valid |-> FALSE,
     PTK_valid |-> FALSE, pairwise_set |-> FALSE, authorized |-> FALSE,
     GUpdateStationKeys |-> FALSE, has_GTK |-> FALSE,
     keyRun |-> FALSE, keyAvailable |-> FALSE, changed |-> FALSE,
     timers |-> 0, rekey_ptk_timer |-> FALSE]

\* wpa_init: the group machines have gone GTK_INIT -> SETKEYSDONE, no station.
Init ==
    /\ sm = [s \in STA |-> wpa_auth_sta_init("none")]
    /\ group = [g \in Group |->
                  [state |-> "SETKEYSDONE", GTKReKey |-> FALSE, changed |-> TRUE,
                   GKeyDoneStations |-> 0, first_sta_seen |-> FALSE,
                   reject_4way_hs_for_entropy |-> FALSE]]
    /\ gtkTimer = GroupRekey
    /\ pc = "idle" /\ cur = NoSTA /\ cont = "none" /\ caller = NoSTA
    /\ todo = {} /\ rekeyq = <<>>

-----------------------------------------------------------------------------
(* Effects shared by several handlers, as functions of the station's       *)
(* record m and of the groups gr.                                          *)

wpa_remove_ptk(m) ==
    [m EXCEPT !.PTK_valid = FALSE, !.pairwise_set = FALSE,
              !.rekey_ptk_timer = FALSE]

Mutant_request_keeps_ptk(m) == [m EXCEPT !.PTKRequest = TRUE]

wpa_request_new_ptk(m) == [m EXCEPT !.PTKRequest = TRUE, !.PTK_valid = FALSE]

\* The station is deauthenticated now; its entry is removed by a timer.
wpa_sta_disconnect(m) ==
    [m EXCEPT !.assoc = "disassoc", !.authorized = FALSE]

\* A new replay counter is pending and one more timer is registered.
wpa_send_eapol(m) ==
    [m EXCEPT !.replay_valid = TRUE, !.timers = @ + 1]

cancel_eapol_timeout(m) == [m EXCEPT !.timers = 0]

\* if (sm->GUpdateStationKeys) sm->group->GKeyDoneStations--
DropMark(gr, m) ==
    IF m.GUpdateStationKeys
    THEN [gr EXCEPT ![m.group].GKeyDoneStations = @ - 1]
    ELSE gr

\* group->changed = FALSE at the head of the loop, of the default group.
ClearChanged(gr) == [gr EXCEPT ![DefaultGroup].changed = FALSE]

(* Control: start the loop of s with c as the rest of the event, run the   *)
(* next call in the loop, and leave the loop.                              *)

StepLoop(s, c) ==
    /\ pc' = "ptk" /\ cur' = s /\ cont' = c /\ caller' = s
    /\ UNCHANGED <<todo, rekeyq>>

GoTo(l) == pc' = l /\ UNCHANGED <<cur, cont, caller, todo, rekeyq>>

\* The event is over.
Finish ==
    /\ pc' = "idle" /\ cur' = NoSTA /\ cont' = "none" /\ caller' = NoSTA
    /\ todo' = {} /\ rekeyq' = <<>>

Known(s) == sm[s].assoc # "none"
Associated(s) == sm[s].assoc = "assoc"
MayArm(s) == sm[s].timers < MaxTimers

-----------------------------------------------------------------------------
(* SM_STEP(WPA_PTK): the state entered next, "stay" for none.              *)

\* The requests, which are served in every state, the first one that is set.
PtkRequested(m) ==
    IF m.Init THEN "INITIALIZE"
    ELSE IF m.Disconnect THEN "DISCONNECT"
    ELSE IF m.DeauthenticationRequest THEN "DISCONNECTED"
    ELSE IF m.AuthenticationRequest THEN "AUTHENTICATION"
    ELSE IF m.ReAuthenticationRequest THEN "AUTHENTICATION2"
    ELSE IF m.PTKRequest THEN "PTKSTART"
    ELSE "none"

\* PTKSTART and PTKINITNEGOTIATING wait for a frame, up to the retry limit.
PtkAwait(m, received, next) ==
    IF received THEN next
    ELSE IF m.TimeoutCtr > dot11RSNAConfigPairwiseUpdateCount THEN "DISCONNECT"
    ELSE IF m.TimeoutEvt THEN m.wpa_ptk_state ELSE "stay"

PtkInState(m, mgmt) ==
    CASE m.wpa_ptk_state = "DISCONNECT" -> "DISCONNECTED"
      [] m.wpa_ptk_state = "DISCONNECTED" -> "INITIALIZE"
      [] m.wpa_ptk_state = "AUTHENTICATION" -> "AUTHENTICATION2"
      [] m.wpa_ptk_state = "AUTHENTICATION2" ->
           IF mgmt # "EAP" THEN "INITPSK"
           ELSE IF m.keyRun THEN "INITPMK" ELSE "stay"
      [] m.wpa_ptk_state = "INITPMK" ->
           IF m.keyAvailable THEN "PTKSTART" ELSE "DISCONNECT"
      [] m.wpa_ptk_state = "INITPSK" ->
           IF mgmt = "PSK" THEN "PTKSTART" ELSE "DISCONNECT"
      [] m.wpa_ptk_state = "PTKSTART" ->
           PtkAwait(m, m.EAPOLKey = "PAIRWISE", "PTKCALCNEGOTIATING")
      [] m.wpa_ptk_state = "PTKCALCNEGOTIATING" ->
           IF m.MICVerified THEN "PTKCALCNEGOTIATING2"
           ELSE IF m.EAPOLKey = "PAIRWISE" THEN "PTKCALCNEGOTIATING"
           ELSE IF m.TimeoutEvt THEN "PTKSTART" ELSE "stay"
      [] m.wpa_ptk_state = "PTKCALCNEGOTIATING2" -> "PTKINITNEGOTIATING"
      [] m.wpa_ptk_state = "PTKINITNEGOTIATING" ->
           PtkAwait(m, m.EAPOLKey = "PAIRWISE" /\ m.MICVerified, "PTKINITDONE")
      [] OTHER -> "stay"    \* INITIALIZE, PTKINITDONE

SM_STEP_WPA_PTK(m, mgmt) ==
    IF PtkRequested(m) # "none" THEN PtkRequested(m) ELSE PtkInState(m, mgmt)

\* SM_ENTER(WPA_PTK, t), m being the record its body leaves.  The loop head has
\* cleared changed, SM_ENTRY_MA sets it, and INITIALIZE clears it under Init.
EnterPtk(s, t, m) ==
    /\ pc = "ptk" /\ cur = s
    /\ SM_STEP_WPA_PTK(sm[s], KeyMgmt[s]) = t
    /\ sm' = [sm EXCEPT ![s] = [m EXCEPT !.wpa_ptk_state = t,
                                         !.changed = ~(t = "INITIALIZE" /\ m.Init)]]
    /\ GoTo("grp")
    /\ UNCHANGED gtkTimer

PTK_stay(s) ==
    /\ pc = "ptk" /\ cur = s
    /\ SM_STEP_WPA_PTK(sm[s], KeyMgmt[s]) = "stay"
    /\ sm' = [sm EXCEPT ![s].changed = FALSE]
    /\ group' = ClearChanged(group)
    /\ GoTo("grp")
    /\ UNCHANGED gtkTimer

Mutant_initialize_keeps_ptk(s) ==
    /\ EnterPtk(s, "INITIALIZE",
         [sm[s] EXCEPT !.GUpdateStationKeys = FALSE,
                       !.PInitAKeys = @ /\ Version[s] # "WPA",
                       !.TimeoutCtr = 0,
                       !.authorized = @ /\ KeyMgmt[s] = "EAP"])
    /\ group' = DropMark(ClearChanged(group), sm[s])

Mutant_initialize_if_valid(s) ==
    /\ EnterPtk(s, "INITIALIZE",
         [IF sm[s].PTK_valid THEN wpa_remove_ptk(sm[s]) ELSE sm[s] EXCEPT
            !.GUpdateStationKeys = FALSE,
            !.PInitAKeys = @ /\ Version[s] # "WPA",
            !.TimeoutCtr = 0,
            !.authorized = @ /\ KeyMgmt[s] = "EAP"])
    /\ group' = DropMark(ClearChanged(group), sm[s])

PTK_INITIALIZE(s) ==
    /\ EnterPtk(s, "INITIALIZE",
         [wpa_remove_ptk(sm[s]) EXCEPT
            !.GUpdateStationKeys = FALSE,
            !.PInitAKeys = @ /\ Version[s] # "WPA",
            !.TimeoutCtr = 0,
            !.authorized = @ /\ KeyMgmt[s] = "EAP"])
    /\ group' = DropMark(ClearChanged(group), sm[s])

PTK_DISCONNECT(s) ==
    /\ EnterPtk(s, "DISCONNECT",
                wpa_sta_disconnect([sm[s] EXCEPT !.Disconnect = FALSE]))
    /\ group' = ClearChanged(group)

PTK_DISCONNECTED(s) ==
    /\ EnterPtk(s, "DISCONNECTED",
                [sm[s] EXCEPT !.DeauthenticationRequest = FALSE])
    /\ group' = ClearChanged(group)

PTK_AUTHENTICATION(s) ==
    /\ EnterPtk(s, "AUTHENTICATION",
                [sm[s] EXCEPT !.PTK_valid = FALSE, !.AuthenticationRequest = FALSE])
    /\ group' = ClearChanged(group)

\* ready: random_pool_ready(), asked for the first station of the group only.
wpa_group_first_station(gr, g, ready) ==
    IF gr[g].first_sta_seen THEN gr
    ELSE [gr EXCEPT ![g].first_sta_seen = TRUE,
                    ![g].reject_4way_hs_for_entropy = @ \/ ~ready]

PTK_AUTHENTICATION2(s, ready) ==
    /\ EnterPtk(s, "AUTHENTICATION2",
                [sm[s] EXCEPT !.ReAuthenticationRequest = FALSE, !.TimeoutCtr = 0])
    /\ group' = wpa_group_first_station(ClearChanged(group), sm[s].group, ready)

PTK_INITPMK(s) ==
    /\ EnterPtk(s, "INITPMK", [sm[s] EXCEPT !.keyRun = FALSE])
    /\ group' = ClearChanged(group)

PTK_INITPSK(s) ==
    /\ EnterPtk(s, "INITPSK", sm[s])
    /\ group' = ClearChanged(group)

Mutant_ptkstart_uncounted(s) ==
    /\ EnterPtk(s, "PTKSTART",
                wpa_send_eapol([sm[s] EXCEPT !.PTKRequest = FALSE,
                                             !.TimeoutEvt = FALSE]))
    /\ group' = ClearChanged(group)

\* Message 1/4, unless the retry limit is passed.
PTK_PTKSTART(s) ==
    LET m == [sm[s] EXCEPT !.PTKRequest = FALSE, !.TimeoutEvt = FALSE,
                           !.TimeoutCtr = @ + 1]
    IN  /\ EnterPtk(s, "PTKSTART",
                    IF m.TimeoutCtr > dot11RSNAConfigPairwiseUpdateCount
                    THEN m ELSE wpa_send_eapol(m))
        /\ group' = ClearChanged(group)

\* ok: the MIC of message 2/4 matches the PTK derived from a PMK of s.
PTK_PTKCALCNEGOTIATING(s, ok) ==
    LET m == [sm[s] EXCEPT !.EAPOLKey = "none"]
    IN  /\ EnterPtk(s, "PTKCALCNEGOTIATING",
                    IF ok THEN [cancel_eapol_timeout(m) EXCEPT
                                  !.MICVerified = TRUE, !.PTK_valid = TRUE]
                    ELSE m)
        /\ group' = ClearChanged(group)

PTK_PTKCALCNEGOTIATING2(s) ==
    /\ EnterPtk(s, "PTKCALCNEGOTIATING2", [sm[s] EXCEPT !.TimeoutCtr = 0])
    /\ group' = ClearChanged(group)

\* Message 3/4, unless the retry limit is passed.
PTK_PTKINITNEGOTIATING(s) ==
    LET m == [sm[s] EXCEPT !.TimeoutEvt = FALSE, !.TimeoutCtr = @ + 1]
    IN  /\ EnterPtk(s, "PTKINITNEGOTIATING",
                    IF m.TimeoutCtr > dot11RSNAConfigPairwiseUpdateCount
                    THEN m ELSE wpa_send_eapol(m))
        /\ group' = ClearChanged(group)

\* ok: the driver took the pairwise key.
PTK_PTKINITDONE(s, ok) ==
    LET m == [sm[s] EXCEPT !.EAPOLKey = "none"]
    IN  /\ EnterPtk(s, "PTKINITDONE",
                    IF ok
                    THEN [m EXCEPT !.pairwise_set = TRUE,
                                   !.rekey_ptk_timer = @ \/ PtkRekey,
                                   !.authorized = @ \/ KeyMgmt[s] # "EAP",
                                   !.keyAvailable = FALSE,
                                   !.PInitAKeys = @ \/ Version[s] = "WPA",
                                   !.has_GTK = @ \/ Version[s] # "WPA"]
                    ELSE wpa_sta_disconnect(m))
        /\ group' = ClearChanged(group)

WPA_PTK(s) ==
    \/ PTK_stay(s)
    \/ PTK_INITIALIZE(s)
    \/ PTK_DISCONNECT(s)
    \/ PTK_DISCONNECTED(s)
    \/ PTK_AUTHENTICATION(s)
    \/ \E ready \in BOOLEAN : PTK_AUTHENTICATION2(s, ready)
    \/ PTK_INITPMK(s)
    \/ PTK_INITPSK(s)
    \/ PTK_PTKSTART(s)
    \/ \E ok \in BOOLEAN : PTK_PTKCALCNEGOTIATING(s, ok)
    \/ PTK_PTKCALCNEGOTIATING2(s)
    \/ PTK_PTKINITNEGOTIATING(s)
    \/ \E ok \in BOOLEAN : PTK_PTKINITDONE(s, ok)

-----------------------------------------------------------------------------
(* SM_STEP(WPA_PTK_GROUP) and the states of that machine.                  *)

Mutant_limit_for_rekeying_only(m, version) ==
    CASE m.Init \/ m.PtkGroupInit -> "IDLE"
      [] OTHER ->
    CASE m.wpa_ptk_group_state = "IDLE" ->
           IF m.GUpdateStationKeys \/ (version = "WPA" /\ m.PInitAKeys)
           THEN "REKEYNEGOTIATING" ELSE "stay"
      [] m.wpa_ptk_group_state = "REKEYNEGOTIATING" ->
           IF m.EAPOLKey = "GROUP" /\ m.MICVerified THEN "REKEYESTABLISHED"
           ELSE IF m.GTimeoutCtr > dot11RSNAConfigGroupUpdateCount /\ m.GUpdateStationKeys
                THEN "KEYERROR"
           ELSE IF m.TimeoutEvt THEN "REKEYNEGOTIATING" ELSE "stay"
      [] OTHER -> "IDLE"

SM_STEP_WPA_PTK_GROUP(m, version) ==
    CASE m.Init \/ m.PtkGroupInit -> "IDLE"
      [] OTHER ->
    CASE m.wpa_ptk_group_state = "IDLE" ->
           IF m.GUpdateStationKeys \/ (version = "WPA" /\ m.PInitAKeys)
           THEN "REKEYNEGOTIATING" ELSE "stay"
      [] m.wpa_ptk_group_state = "REKEYNEGOTIATING" ->
           IF m.EAPOLKey = "GROUP" /\ m.MICVerified THEN "REKEYESTABLISHED"
           ELSE IF m.GTimeoutCtr > dot11RSNAConfigGroupUpdateCount THEN "KEYERROR"
           ELSE IF m.TimeoutEvt THEN "REKEYNEGOTIATING" ELSE "stay"
      [] OTHER -> "IDLE"    \* REKEYESTABLISHED, KEYERROR

Mutant_changed_under_init(s, t, m) ==
    /\ pc = "grp" /\ cur = s
    /\ SM_STEP_WPA_PTK_GROUP(sm[s], Version[s]) = t
    /\ sm' = [sm EXCEPT ![s] = [m EXCEPT !.wpa_ptk_group_state = t,
                                         !.changed = TRUE]]
    /\ GoTo("gsm")
    /\ UNCHANGED gtkTimer

EnterGroup(s, t, m) ==
    /\ pc = "grp" /\ cur = s
    /\ SM_STEP_WPA_PTK_GROUP(sm[s], Version[s]) = t
    /\ sm' = [sm EXCEPT ![s] = [m EXCEPT !.wpa_ptk_group_state = t,
                                         !.changed = ~(t = "IDLE" /\ m.Init)]]
    /\ GoTo("gsm")
    /\ UNCHANGED gtkTimer

GROUP_stay(s) ==
    /\ pc = "grp" /\ cur = s
    /\ SM_STEP_WPA_PTK_GROUP(sm[s], Version[s]) = "stay"
    /\ GoTo("gsm")
    /\ UNCHANGED <<sm, group, gtkTimer>>

Mutant_idle_keeps_counter(s) ==
    /\ EnterGroup(s, "IDLE", [sm[s] EXCEPT !.PtkGroupInit = FALSE])
    /\ UNCHANGED group

GROUP_IDLE(s) ==
    /\ EnterGroup(s, "IDLE", [sm[s] EXCEPT !.GTimeoutCtr = 0,
                                           !.PtkGroupInit = FALSE])
    /\ UNCHANGED group

Mutant_rekey_uncounted(s) ==
    /\ EnterGroup(s, "REKEYNEGOTIATING",
                  wpa_send_eapol([sm[s] EXCEPT
                                    !.PInitAKeys = @ /\ Version[s] # "WPA",
                                    !.TimeoutEvt = FALSE]))
    /\ UNCHANGED group

\* Message 1/2, unless the retry limit is passed.
GROUP_REKEYNEGOTIATING(s) ==
    LET m == [sm[s] EXCEPT !.GTimeoutCtr = @ + 1]
    IN  /\ EnterGroup(s, "REKEYNEGOTIATING",
             IF m.GTimeoutCtr > dot11RSNAConfigGroupUpdateCount
             THEN m
             ELSE wpa_send_eapol([m EXCEPT !.PInitAKeys = @ /\ Version[s] # "WPA",
                                           !.TimeoutEvt = FALSE]))
        /\ UNCHANGED group

Mutant_established_keeps_frame(s) ==
    /\ EnterGroup(s, "REKEYESTABLISHED",
                  [sm[s] EXCEPT !.GUpdateStationKeys = FALSE,
                                !.GTimeoutCtr = 0, !.has_GTK = TRUE])
    /\ group' = DropMark(group, sm[s])

GROUP_REKEYESTABLISHED(s) ==
    /\ EnterGroup(s, "REKEYESTABLISHED",
                  [sm[s] EXCEPT !.EAPOLKey = "none", !.GUpdateStationKeys = FALSE,
                                !.GTimeoutCtr = 0, !.has_GTK = TRUE])
    /\ group' = DropMark(group, sm[s])

GROUP_KEYERROR(s) ==
    /\ EnterGroup(s, "KEYERROR",
                  [sm[s] EXCEPT !.GUpdateStationKeys = FALSE, !.Disconnect = TRUE])
    /\ group' = DropMark(group, sm[s])

WPA_PTK_GROUP(s) ==
    \/ GROUP_stay(s)
    \/ GROUP_IDLE(s)
    \/ GROUP_REKEYNEGOTIATING(s)
    \/ GROUP_REKEYESTABLISHED(s)
    \/ GROUP_KEYERROR(s)

-----------------------------------------------------------------------------
(* wpa_group_sm_step() as the last call of the loop, and the loop's end.   *)
(* GTKReKey is set and consumed within wpa_rekey_gtk, so the branches of   *)
(* wpa_group_sm_step that read it are with that handler below.             *)

wpa_group_setkeysdone(gr, g) ==
    [gr EXCEPT ![g].state = "SETKEYSDONE", ![g].changed = TRUE]

AllKeysDone(g) == group[g].state = "SETKEYS" /\ group[g].GKeyDoneStations = 0

\* while (sm->changed || sm->wpa_auth->group->changed)
LoopEnd(s, changed) ==
    \/ /\ changed
       /\ GoTo("ptk")
    \/ /\ ~changed /\ rekeyq # <<>>
       /\ pc' = "each" /\ cur' = NoSTA
       /\ UNCHANGED <<cont, caller, todo, rekeyq>>
    \/ /\ ~changed /\ rekeyq = <<>> /\ cont # "none"
       /\ pc' = "cont" /\ cur' = NoSTA
       /\ UNCHANGED <<cont, caller, todo, rekeyq>>
    \/ /\ ~changed /\ rekeyq = <<>> /\ cont = "none"
       /\ Finish

GSM_setkeysdone(s) ==
    /\ pc = "gsm" /\ cur = s
    /\ AllKeysDone(sm[s].group)
    /\ group' = wpa_group_setkeysdone(group, sm[s].group)
    /\ LoopEnd(s, sm[s].changed \/ group'[DefaultGroup].changed)
    /\ UNCHANGED <<sm, gtkTimer>>

GSM_stay(s) ==
    /\ pc = "gsm" /\ cur = s
    /\ ~AllKeysDone(sm[s].group)
    /\ LoopEnd(s, sm[s].changed \/ group[DefaultGroup].changed)
    /\ UNCHANGED <<sm, group, gtkTimer>>

-----------------------------------------------------------------------------
(* wpa_rekey_gtk() and the callbacks of wpa_auth_for_each_sta in it.       *)

\* group->GTKReKey = TRUE; the first pass of the do-while clears changed.
RequestGTKReKey(gr, g) ==
    [gr EXCEPT ![g].GTKReKey = TRUE, ![g].changed = FALSE]

StartRekey(c, s) ==
    /\ pc' = "rekey" /\ rekeyq' = GroupSeq
    /\ cur' = NoSTA /\ cont' = c /\ caller' = s /\ todo' = {}
    /\ group' = RequestGTKReKey(group, DefaultGroup)
    /\ gtkTimer' = GroupRekey

\* Next group of the list, or the end of wpa_rekey_gtk.
NextGroup(gr) ==
    \/ /\ Len(rekeyq) > 1
       /\ rekeyq' = Tail(rekeyq)
       /\ group' = RequestGTKReKey(gr, rekeyq[2])
       /\ pc' = "rekey"
       /\ UNCHANGED <<cur, cont, caller, todo>>
    \/ /\ Len(rekeyq) = 1 /\ cont = "recv"
       /\ group' = gr
       /\ pc' = "cont" /\ rekeyq' = <<>>
       /\ UNCHANGED <<cur, cont, caller, todo>>
    \/ /\ Len(rekeyq) = 1 /\ cont # "recv"
       /\ group' = gr
       /\ Finish

REKEY_setkeysdone ==
    /\ pc = "rekey"
    /\ AllKeysDone(Head(rekeyq))
    /\ group' = wpa_group_setkeysdone(group, Head(rekeyq))
    /\ GoTo("rekey")
    /\ UNCHANGED <<sm, gtkTimer>>

\* The GTK is replaced and every station is to be told.
REKEY_setkeys ==
    LET g == Head(rekeyq)
    IN  /\ pc = "rekey"
        /\ ~AllKeysDone(g) /\ group[g].GTKReKey
        /\ group' = [group EXCEPT ![g] =
                        [@ EXCEPT !.state = "SETKEYS", !.changed = TRUE,
                                  !.GTKReKey = FALSE, !.GKeyDoneStations = 0]]
        /\ pc' = "each" /\ todo' = {s \in STA : Known(s)}
        /\ UNCHANGED <<sm, gtkTimer, cur, cont, caller, rekeyq>>

REKEY_stay ==
    /\ pc = "rekey"
    /\ ~AllKeysDone(Head(rekeyq)) /\ ~group[Head(rekeyq)].GTKReKey
    /\ NextGroup([group EXCEPT ![Head(rekeyq)].changed = FALSE])
    /\ UNCHANGED <<sm, gtkTimer>>

EACH_skip(s) ==
    /\ pc = "each" /\ s \in todo
    /\ sm[s].wpa_ptk_state # "PTKINITDONE"
    /\ sm' = [sm EXCEPT ![s].GUpdateStationKeys = FALSE]
    /\ todo' = todo \ {s}
    /\ UNCHANGED <<group, gtkTimer, pc, cur, cont, caller, rekeyq>>

Mutant_mark_uncounted(s) ==
    /\ pc = "each" /\ s \in todo
    /\ sm[s].wpa_ptk_state = "PTKINITDONE"
    /\ sm' = [sm EXCEPT ![s].GUpdateStationKeys = TRUE]
    /\ todo' = todo \ {s}
    /\ pc' = "ptk" /\ cur' = s
    /\ UNCHANGED <<group, gtkTimer, cont, caller, rekeyq>>

EACH_mark(s) ==
    /\ pc = "each" /\ s \in todo
    /\ sm[s].wpa_ptk_state = "PTKINITDONE"
    /\ sm' = [sm EXCEPT ![s].GUpdateStationKeys = TRUE]
    /\ group' = [group EXCEPT ![sm[s].group].GKeyDoneStations = @ + 1]
    /\ todo' = todo \ {s}
    /\ pc' = "ptk" /\ cur' = s
    /\ UNCHANGED <<gtkTimer, cont, caller, rekeyq>>

wpa_group_update_sta(s) == EACH_skip(s) \/ EACH_mark(s)

\* All stations told: while (group->changed) of wpa_rekey_gtk.
EACH_done ==
    /\ pc = "each" /\ todo = {}
    /\ \/ group[Head(rekeyq)].changed /\ GoTo("rekey") /\ UNCHANGED group
       \/ ~group[Head(rekeyq)].changed /\ NextGroup(group)
    /\ UNCHANGED <<sm, gtkTimer>>

\* The rekey timer.
wpa_rekey_gtk ==
    /\ pc = "idle" /\ gtkTimer
    /\ \A s \in STA : sm[s].wpa_ptk_state = "PTKINITDONE" => MayArm(s)
    /\ StartRekey("none", NoSTA)
    /\ UNCHANGED sm

-----------------------------------------------------------------------------
(* Events from the station table: association, reassociation, departure.   *)

\* Association Request of a station without an entry.
handle_assoc(s) ==
    /\ pc = "idle" /\ ~Known(s)
    /\ sm' = [sm EXCEPT ![s] = wpa_auth_sta_init("disassoc")]
    /\ UNCHANGED <<group, gtkTimer, stack>>

\* Authentication frame: wpa_auth_sm_event(WPA_AUTH).
handle_auth(s) ==
    /\ pc = "idle" /\ Known(s)
    /\ sm' = [sm EXCEPT ![s] = wpa_remove_ptk(@)]
    /\ StepLoop(s, "none")
    /\ UNCHANGED <<group, gtkTimer>>

\* The Association Response is acknowledged: ap_sta_bind_vlan, which may move the
\* station to another group, wpa_auth_sm_event(WPA_ASSOC), then
\* hostapd_new_assoc_sta, whose part for the authenticator is in CONT_*.
handle_assoc_cb(s) ==
    /\ pc = "idle" /\ Known(s) /\ MayArm(s)
    /\ \E g \in Group :
         sm' = [sm EXCEPT ![s] = [wpa_remove_ptk(@) EXCEPT !.assoc = "assoc", !.group = g]]
    /\ StepLoop(s, IF Associated(s) THEN "reauth" ELSE "assoc")
    /\ UNCHANGED <<group, gtkTimer>>

\* ieee802_1x_new_station, the first part of hostapd_new_assoc_sta: the records it
\* may leave.  Under EAP a PMK in the PMKSA cache, with its VLAN, stands for a
\* successful authentication.
ieee802_1x_new_station(s) ==
    {sm[s]} \cup
    {[sm[s] EXCEPT !.keyRun = TRUE, !.keyAvailable = TRUE, !.group = g] :
       g \in {h \in Group : KeyMgmt[s] = "EAP"}}

\* wpa_auth_sta_associated; it steps twice for a machine not yet started.
CONT_assoc(s) ==
    /\ pc = "cont" /\ caller = s /\ cont = "assoc"
    /\ IF sm[s].started
       THEN /\ \E m \in ieee802_1x_new_station(s) :
                 sm' = [sm EXCEPT ![s] = [m EXCEPT !.replay_valid = FALSE,
                                                   !.ReAuthenticationRequest = TRUE]]
            /\ StepLoop(s, "none")
       ELSE /\ \E m \in ieee802_1x_new_station(s) :
                 sm' = [sm EXCEPT ![s] = [m EXCEPT !.started = TRUE, !.Init = TRUE]]
            /\ StepLoop(s, "auth")
    /\ UNCHANGED <<group, gtkTimer>>

CONT_auth(s) ==
    /\ pc = "cont" /\ caller = s /\ cont = "auth"
    /\ sm' = [sm EXCEPT ![s].Init = FALSE, ![s].AuthenticationRequest = TRUE]
    /\ StepLoop(s, "none")
    /\ UNCHANGED <<group, gtkTimer>>

Mutant_reauth_keeps_ptk(m) ==
    [m EXCEPT !.PtkGroupInit = @ \/ m.GUpdateStationKeys,
              !.GUpdateStationKeys = FALSE, !.ReAuthenticationRequest = TRUE]

\* wpa_auth_sm_event(WPA_REAUTH or WPA_REAUTH_EAPOL) for a started machine.
Reauthenticate(m) ==
    [m EXCEPT !.PtkGroupInit = @ \/ m.GUpdateStationKeys,
              !.GUpdateStationKeys = FALSE,
              !.ReAuthenticationRequest = TRUE, !.PTK_valid = FALSE]

Mutant_reauth_keeps_count(s) ==
    /\ pc = "cont" /\ caller = s /\ cont = "reauth"
    /\ \E m \in ieee802_1x_new_station(s) :
         sm' = [sm EXCEPT ![s] = wpa_remove_ptk(Reauthenticate(m))]
    /\ StepLoop(s, "none")
    /\ UNCHANGED <<group, gtkTimer>>

CONT_reauth(s) ==
    /\ pc = "cont" /\ caller = s /\ cont = "reauth"
    /\ \E m \in ieee802_1x_new_station(s) :
         /\ sm' = [sm EXCEPT ![s] = wpa_remove_ptk(Reauthenticate(m))]
         /\ group' = DropMark(group, m)
    /\ StepLoop(s, "none")
    /\ UNCHANGED gtkTimer

\* EAPOL-Start, or the 802.1X reauthentication timer.
wpa_reauth_eapol(s) ==
    /\ pc = "idle" /\ Associated(s) /\ KeyMgmt[s] = "EAP" /\ MayArm(s)
    /\ sm' = [sm EXCEPT ![s] = Reauthenticate(@)]
    /\ group' = DropMark(group, sm[s])
    /\ StepLoop(s, "none")
    /\ UNCHANGED gtkTimer

\* The eapol_sm of a station that lost its association is freed.
ieee802_1x_free_station(m) ==
    [m EXCEPT !.assoc = "disassoc", !.keyRun = FALSE, !.keyAvailable = FALSE]

\* wpa_auth_sm_event(WPA_DEAUTH or WPA_DISASSOC)
Deauthenticate(m) ==
    [wpa_remove_ptk(ieee802_1x_free_station(m)) EXCEPT
       !.DeauthenticationRequest = TRUE]

handle_disassoc(s) ==
    /\ pc = "idle" /\ Known(s)
    /\ sm' = [sm EXCEPT ![s] = Deauthenticate(@)]
    /\ StepLoop(s, "none")
    /\ UNCHANGED <<group, gtkTimer>>

handle_deauth(s) ==
    /\ pc = "idle" /\ Known(s)
    /\ sm' = [sm EXCEPT ![s] = Deauthenticate(@)]
    /\ StepLoop(s, "free")
    /\ UNCHANGED <<group, gtkTimer>>

\* Inactivity: the entry loses STA_ASSOC, the authenticator is not told.
ap_handle_timer_disassoc(s) ==
    /\ pc = "idle" /\ Associated(s)
    /\ sm' = [sm EXCEPT ![s] = ieee802_1x_free_station(@)]
    /\ UNCHANGED <<group, gtkTimer, stack>>

\* ap_free_sta: wpa_auth_sta_deinit and wpa_free_sta_sm.
wpa_auth_sta_deinit(s) ==
    /\ sm' = [sm EXCEPT ![s] = wpa_auth_sta_init("none")]
    /\ group' = DropMark(group, sm[s])
    /\ gtkTimer' = (gtkTimer \/ (StrictRekey /\ sm[s].has_GTK))

ap_handle_timer_remove(s) ==
    /\ pc = "idle" /\ sm[s].assoc = "disassoc"
    /\ wpa_auth_sta_deinit(s)
    /\ UNCHANGED stack

CONT_free(s) ==
    /\ pc = "cont" /\ caller = s /\ cont = "free"
    /\ wpa_auth_sta_deinit(s)
    /\ Finish

-----------------------------------------------------------------------------
(* Events from IEEE 802.1X.                                                *)

\* The 802.1X machines go their own way, whatever state the WPA machine is in:
\* BE_AUTH SUCCESS sets keyRun, AUTH_PAE AUTHENTICATING and ABORTING clear it.
\* avail: the EAP method has exported key material.
eapol_keyRun(s, run, avail) ==
    /\ pc = "idle" /\ Associated(s) /\ KeyMgmt[s] = "EAP"
    /\ sm' = [sm EXCEPT ![s].keyRun = run, ![s].keyAvailable = avail]
    /\ UNCHANGED <<group, gtkTimer, stack>>

\* wpa_auth_sm_notify's timeout.
wpa_sm_call_step(s) ==
    /\ pc = "idle" /\ Known(s) /\ KeyMgmt[s] = "EAP" /\ MayArm(s)
    /\ StepLoop(s, "none")
    /\ UNCHANGED <<sm, group, gtkTimer>>

\* An Access-Accept assigns the VLAN of group g, whatever state the WPA machine is
\* in.  A group the code adds on demand is there from the start, without stations.
wpa_auth_sta_set_vlan(s, g) ==
    /\ pc = "idle" /\ Associated(s) /\ KeyMgmt[s] = "EAP" /\ sm[s].group # g
    /\ sm' = [sm EXCEPT ![s].group = g]
    /\ UNCHANGED <<group, gtkTimer, stack>>

-----------------------------------------------------------------------------
(* Timeouts of a station.                                                  *)

Mutant_timeout_not_cancelled(s) ==
    /\ pc = "idle" /\ Known(s)
    /\ sm' = [sm EXCEPT ![s].timers = @ - 1, ![s].TimeoutEvt = TRUE]
    /\ StepLoop(s, "none")
    /\ UNCHANGED <<group, gtkTimer>>

wpa_send_eapol_timeout(s) ==
    /\ pc = "idle" /\ sm[s].timers > 0
    /\ sm' = [sm EXCEPT ![s].timers = @ - 1, ![s].TimeoutEvt = TRUE]
    /\ StepLoop(s, "none")
    /\ UNCHANGED <<group, gtkTimer>>

wpa_rekey_ptk(s) ==
    /\ pc = "idle" /\ sm[s].rekey_ptk_timer /\ MayArm(s)
    /\ sm' = [sm EXCEPT ![s] = [wpa_request_new_ptk(@) EXCEPT
                                  !.rekey_ptk_timer = FALSE]]
    /\ StepLoop(s, "none")
    /\ UNCHANGED <<group, gtkTimer>>

-----------------------------------------------------------------------------
(* wpa_receive: an EAPOL-Key frame from an associated station.  Frames     *)
(* that are dropped without an effect are not steps.                       *)

\* The frame's type is expected in this state and its replay counter is
\* pending (wpa_replay_counter_valid); a Request has a counter of its own.
Expected(m, kind) ==
    \/ kind = "PAIRWISE_2" /\ m.replay_valid
          /\ m.wpa_ptk_state \in {"PTKSTART", "PTKCALCNEGOTIATING"}
    \/ kind = "PAIRWISE_4" /\ m.replay_valid
          /\ m.wpa_ptk_state = "PTKINITNEGOTIATING" /\ m.PTK_valid
    \/ kind = "GROUP_2" /\ m.replay_valid
          /\ m.wpa_ptk_group_state = "REKEYNEGOTIATING" /\ m.PTK_valid
    \/ kind \in RequestKinds

Receivable(s, kind) == pc = "idle" /\ Associated(s) /\ Expected(sm[s], kind)

Rejected(s, kind) ==
    kind = "PAIRWISE_2" /\ group[sm[s].group].reject_4way_hs_for_entropy

\* Not enough entropy yet: the first 4-way handshake is rejected.
wpa_receive_entropy(s) ==
    /\ Receivable(s, "PAIRWISE_2") /\ Rejected(s, "PAIRWISE_2")
    /\ sm' = [sm EXCEPT ![s] = wpa_sta_disconnect(@)]
    /\ group' = [group EXCEPT ![sm[s].group].reject_4way_hs_for_entropy = FALSE,
                              ![sm[s].group].first_sta_seen = FALSE]
    /\ UNCHANGED <<gtkTimer, stack>>

\* The IE of message 2/4 is not the one of the association request.
wpa_receive_ie_mismatch(s) ==
    /\ Receivable(s, "PAIRWISE_2") /\ ~Rejected(s, "PAIRWISE_2")
    /\ sm' = [sm EXCEPT ![s] = wpa_sta_disconnect(@)]
    /\ UNCHANGED <<group, gtkTimer, stack>>

\* A wrong MIC, or a Request when there is no PTK to verify it with.
wpa_receive_bad_mic(s, kind) ==
    /\ Receivable(s, kind) /\ ~Rejected(s, kind)
    /\ sm[s].PTK_valid \/ kind \in Requests
    /\ sm' = [sm EXCEPT ![s].MICVerified = FALSE]
    /\ UNCHANGED <<group, gtkTimer, stack>>

\* The MIC is verified if there is a PTK; that cancels the retransmissions.
VerifyMIC(m) ==
    IF m.PTK_valid THEN [cancel_eapol_timeout(m) EXCEPT !.MICVerified = TRUE]
    ELSE [m EXCEPT !.MICVerified = FALSE]

wpa_receive_key(s, kind) ==
    /\ kind \notin Requests
    /\ Receivable(s, kind) /\ ~Rejected(s, kind)
    /\ sm' = [sm EXCEPT ![s] =
                [VerifyMIC(@) EXCEPT
                   !.replay_valid = FALSE,
                   !.EAPOLKey = IF kind = "GROUP_2" THEN "GROUP" ELSE "PAIRWISE"]]
    /\ StepLoop(s, "none")
    /\ UNCHANGED <<group, gtkTimer>>

wpa_receive_request(s, kind) ==
    /\ kind \in Requests \ {"REQ_GROUP"}
    /\ Receivable(s, kind) /\ sm[s].PTK_valid
    /\ LET m == [VerifyMIC(sm[s]) EXCEPT !.EAPOLKey = "REQUEST"]
       IN  sm' = [sm EXCEPT ![s] =
                    IF kind = "REQ_MAC" THEN m ELSE wpa_request_new_ptk(m)]
    /\ StepLoop(s, "none")
    /\ UNCHANGED <<group, gtkTimer>>

\* A Request for a new GTK runs wpa_rekey_gtk before the frame is delivered.
wpa_receive_request_gtk(s) ==
    /\ Receivable(s, "REQ_GROUP") /\ sm[s].PTK_valid
    /\ sm' = [sm EXCEPT ![s] = VerifyMIC(@)]
    /\ StartRekey("recv", s)

Mutant_request_taken_for_answer(s) ==
    /\ pc = "cont" /\ caller = s /\ cont = "recv"
    /\ sm' = [sm EXCEPT ![s].EAPOLKey = "GROUP"]
    /\ StepLoop(s, "none")
    /\ UNCHANGED <<group, gtkTimer>>

CONT_recv(s) ==
    /\ pc = "cont" /\ caller = s /\ cont = "recv"
    /\ sm' = [sm EXCEPT ![s].EAPOLKey = "REQUEST"]
    /\ StepLoop(s, "none")
    /\ UNCHANGED <<group, gtkTimer>>

KeyKinds == {"PAIRWISE_2", "PAIRWISE_4", "GROUP_2"} \cup Requests

wpa_receive(s) ==
    \/ wpa_receive_entropy(s)
    \/ wpa_receive_ie_mismatch(s)
    \/ \E kind \in KeyKinds : \/ wpa_receive_bad_mic(s, kind)
                              \/ wpa_receive_key(s, kind)
                              \/ wpa_receive_request(s, kind)
    \/ wpa_receive_request_gtk(s)

-----------------------------------------------------------------------------
(* The calls of a running handler, and the events.                         *)

Run(s) ==
    \/ WPA_PTK(s) \/ WPA_PTK_GROUP(s) \/ GSM_setkeysdone(s) \/ GSM_stay(s)
    \/ CONT_assoc(s) \/ CONT_auth(s) \/ CONT_reauth(s) \/ CONT_free(s)
    \/ CONT_recv(s)
    \/ wpa_group_update_sta(s)

RunRekey == REKEY_setkeysdone \/ REKEY_setkeys \/ REKEY_stay \/ EACH_done

StationEvent(s) ==
    \/ handle_assoc(s) \/ handle_auth(s) \/ handle_assoc_cb(s)
    \/ handle_disassoc(s) \/ handle_deauth(s)
    \/ ap_handle_timer_disassoc(s) \/ ap_handle_timer_remove(s)
    \/ wpa_reauth_eapol(s) \/ wpa_sm_call_step(s)
    \/ \E run, avail \in BOOLEAN : eapol_keyRun(s, run, avail)
    \/ \E g \in Group : wpa_auth_sta_set_vlan(s, g)
    \/ wpa_receive(s)
    \/ wpa_send_eapol_timeout(s) \/ wpa_rekey_ptk(s)

Next ==
    \/ \E s \in STA : Run(s) \/ StationEvent(s)
    \/ RunRekey
    \/ wpa_rekey_gtk

Spec == Init /\ [][Next]_vars

(* eloop_run() finishes a handler it has called, and on every turn calls    *)
(* the first expired timeout before it looks at the sockets: a running      *)
(* handler makes progress, and a timeout cannot be postponed for ever by    *)
(* other events.  Nothing is assumed of the stations.                       *)
Fairness ==
    /\ WF_vars(RunRekey)
    /\ SF_vars(wpa_rekey_gtk)
    /\ \A s \in STA : WF_vars(Run(s)) /\ SF_vars(wpa_send_eapol_timeout(s))

FairSpec == Spec /\ Fairness

-----------------------------------------------------------------------------
(* Properties.                                                             *)

\* Every variable has its type and the call stack is well formed: a loop has a
\* station, the rest of an event has a caller, and between events nothing is
\* left of wpa_auth_for_each_sta or of the list of groups to rekey.
TypeOK ==
    /\ sm \in [STA -> WpaStateMachine]
    /\ group \in [Group -> WpaGroup]
    /\ gtkTimer \in BOOLEAN
    /\ pc \in {"idle", "ptk", "grp", "gsm", "cont", "rekey", "each"}
    /\ cur \in STA \cup {NoSTA}
    /\ cont \in {"none", "assoc", "auth", "reauth", "free", "recv"}
    /\ caller \in STA \cup {NoSTA}
    /\ todo \subseteq STA
    /\ rekeyq \in Seq(Group)
    /\ pc \in {"ptk", "grp", "gsm"} => cur \in STA \ todo
    /\ cont # "none" => caller \in STA
    /\ pc = "cont" => cont # "none"
    /\ pc \in {"rekey", "each"} => rekeyq # <<>>
    /\ pc \in {"idle", "cont"} => rekeyq = <<>>
    /\ pc \in {"idle", "cont", "rekey"} \/ rekeyq = <<>> => todo = {}

\* No retry counter passes its limit by more than the one attempt that makes
\* its machine give up: every exchange starts from a counter that was reset.
RetriesBounded ==
    \A s \in STA :
        /\ sm[s].TimeoutCtr <= dot11RSNAConfigPairwiseUpdateCount + 1
        /\ sm[s].GTimeoutCtr <= dot11RSNAConfigGroupUpdateCount + 1

Marked(g) == {s \in STA : sm[s].group = g /\ sm[s].GUpdateStationKeys}

\* Between events, GKeyDoneStations counts exactly the stations of the group
\* that are marked with GUpdateStationKeys, whatever (re)association, departure,
\* handshake failure or further rekeying happened while the GTK was distributed.
MarksCounted ==
    pc = "idle" => \A g \in Group :
                     group[g].GKeyDoneStations = Cardinality(Marked(g))

\* A group that is in SETKEYSDONE, i.e. whose new GTK the driver was given for
\* transmission, has no station that still has to be told that GTK; nor has a
\* rekeying that is just telling the stations one by one.
KeysDoneMeansAllTold ==
    \A g \in Group : group[g].state = "SETKEYSDONE" =>
        /\ Marked(g) = {}
        /\ pc \in {"ptk", "grp", "gsm", "each"} /\ rekeyq # <<>>
             => todo = {} \/ Head(rekeyq) # g

\* No received key frame outlives the handler that received it: a machine
\* that is entered later never acts on an old frame.
NoStaleKeyFrame ==
    pc = "idle" => \A s \in STA : sm[s].EAPOLKey \in {"none", "REQUEST"}

\* While message 2/4 is awaited no PTK is valid, however PTKSTART was entered:
\* that message is verified with the PTK derived from it, not with an old one.
NoOldPTKInNewHandshake ==
    \A s \in STA : pc = "idle" /\ sm[s].wpa_ptk_state \in
                       {"PTKSTART", "PTKCALCNEGOTIATING"} => ~sm[s].PTK_valid

\* A machine that fell back to INITIALIZE has released what the station held:
\* its keys, the PTK rekeying timeout, the port and its mark.
InitializedHoldsNothing ==
    \A s \in STA : pc = "idle" /\ sm[s].wpa_ptk_state = "INITIALIZE" =>
        /\ ~sm[s].PTK_valid /\ ~sm[s].pairwise_set /\ ~sm[s].rekey_ptk_timer
        /\ KeyMgmt[s] # "EAP" => ~sm[s].authorized
        /\ ~sm[s].GUpdateStationKeys

\* A request for a new PTK leads to a handshake: at least message 1/4 may still
\* be sent before the retry limit is reached.
NewHandshakeHasRetries ==
    \A s \in STA : sm[s].PTKRequest =>
                     sm[s].TimeoutCtr < dot11RSNAConfigPairwiseUpdateCount

\* The loops of wpa_sm_step and wpa_rekey_gtk end: every event is finished.
HandlersTerminate == pc # "idle" ~> pc = "idle"

Handshaking(s) ==
    /\ Associated(s)
    /\ sm[s].wpa_ptk_state \in {"PTKSTART", "PTKCALCNEGOTIATING",
                                "PTKINITNEGOTIATING"}

\* A 4-way handshake that nothing drives any more.  A station has one
\* retransmission timeout for both its handshakes: a response to the group key
\* handshake, still accepted during a PTK rekeying, cancels it.
HandshakeTimerLost(s) ==
    pc = "idle" /\ Handshaking(s) /\ sm[s].timers = 0

\* A 4-way handshake is completed, given up or replaced by a new one, also if
\* the station never answers or answers with wrong MICs, unless it has lost
\* its retransmission timeout.
HandshakeResolves ==
    \A s \in STA : Handshaking(s) ~> (~Handshaking(s) \/ HandshakeTimerLost(s) \/
                                       sm[s].wpa_ptk_state = "AUTHENTICATION2")

\* A group key handshake that nothing drives any more: the station is awaited
\* but no retransmission timeout is registered.
TimerLost(s) ==
    /\ pc = "idle" /\ sm[s].GUpdateStationKeys
    /\ sm[s].wpa_ptk_group_state = "REKEYNEGOTIATING" /\ sm[s].timers = 0

\* GTK rekeying ends in SETKEYSDONE, whatever the stations answer or fail to
\* answer, unless a group key handshake has lost its retransmission timeout:
\* nothing else can hold it up.
GTKRekeyCompletesUnlessTimerLost ==
    \A g \in Group : group[g].state = "SETKEYS" ~>
        group[g].state = "SETKEYSDONE" \/ \E s \in STA : TimerLost(s)

\* GTK rekeying completes: the group does not stay in SETKEYS, so that the GTK
\* really is replaced every wpa_group_rekey seconds.
GTKRekeyCompletes ==
    \A g \in Group : group[g].state = "SETKEYS" ~> group[g].state = "SETKEYSDONE"
=============================================================================
