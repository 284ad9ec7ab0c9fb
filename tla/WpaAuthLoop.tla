----------------------------- MODULE WpaAuthLoop -----------------------------
(***************************************************************************)
(* What wpa_sm_step() leaves behind.  The loop runs until neither machine  *)
(* of the station moves, so that between events every station is settled:  *)
(* no request is pending, no retry counter is past its limit and no        *)
(* received frame is left.  From that follow NoStaleKeyFrame,              *)
(* RetriesBounded, NoOldPTKInNewHandshake and InitializedHoldsNothing, for *)
(* every set of stations, list of groups and retry limit.                  *)
(*                                                                         *)
(* None of the four is inductive: a counter past its limit, a frame or a   *)
(* PTK in PTKCALCNEGOTIATING do occur inside the loop, and what matters is *)
(* that the calls still to come take care of them.  LoopInv therefore says *)
(* of every station's record what holds at the place of the loop where the *)
(* station is, and of the call stack which station that is.                *)
(***************************************************************************)
EXTENDS WpaAuthProofs

-----------------------------------------------------------------------------
(* The inductive invariant, in parts.  m is a station's record and w the   *)
(* place where it is: "ptk", "grp" and "gsm" in its loop, "auth" before    *)
(* the second step of wpa_auth_sta_associated, "out" everywhere else.      *)

\* SM_STEP(WPA_PTK) has nothing to do, except for a PMK that EAP delivered.
PtkQuiet(m, mgmt) ==
    /\ PtkRequested(m) = "none"
    /\ m.wpa_ptk_state \in {"INITIALIZE", "AUTHENTICATION2", "PTKSTART",
                            "PTKCALCNEGOTIATING", "PTKINITNEGOTIATING",
                            "PTKINITDONE"}
    /\ m.wpa_ptk_state \in {"PTKSTART", "PTKINITNEGOTIATING"} =>
         m.TimeoutCtr <= dot11RSNAConfigPairwiseUpdateCount
    /\ m.wpa_ptk_state = "PTKCALCNEGOTIATING" => ~m.MICVerified
    /\ m.wpa_ptk_state \in {"PTKSTART", "PTKCALCNEGOTIATING",
                            "PTKINITNEGOTIATING"} => ~m.TimeoutEvt
    /\ m.wpa_ptk_state = "AUTHENTICATION2" => mgmt = "EAP"

\* SM_STEP(WPA_PTK_GROUP) has nothing to do.
GroupQuiet(m, version) ==
    /\ ~m.PtkGroupInit
    /\ \/ /\ m.wpa_ptk_group_state = "IDLE"
          /\ ~m.GUpdateStationKeys /\ ~(version = "WPA" /\ m.PInitAKeys)
       \/ /\ m.wpa_ptk_group_state = "REKEYNEGOTIATING"
          /\ m.GTimeoutCtr <= dot11RSNAConfigGroupUpdateCount
          /\ ~m.TimeoutEvt

HoldsNothing(m, mgmt) ==
    /\ ~m.PTK_valid /\ ~m.pairwise_set /\ ~m.rekey_ptk_timer
    /\ mgmt # "EAP" => ~m.authorized
    /\ ~m.GUpdateStationKeys

\* Keys: a handshake that is about to start has no PTK, and a PTK derived from
\* message 2/4 takes the machine on to message 3/4.
KeysKept(m, mgmt) ==
    /\ m.wpa_ptk_state = "INITIALIZE" => HoldsNothing(m, mgmt)
    /\ m.wpa_ptk_state \in {"AUTHENTICATION", "AUTHENTICATION2", "INITPMK",
                            "INITPSK", "PTKSTART"} => ~m.PTK_valid
    /\ m.wpa_ptk_state = "PTKCALCNEGOTIATING" /\ m.PTK_valid => m.MICVerified
    /\ m.ReAuthenticationRequest \/ m.PTKRequest => ~m.PTK_valid

\* Counters: past the limit the machine can only give up, which resets them.
CountersKept(m) ==
    /\ m.wpa_ptk_state = "INITIALIZE" => m.TimeoutCtr = 0
    /\ \/ m.TimeoutCtr <= dot11RSNAConfigPairwiseUpdateCount
       \/ /\ m.TimeoutCtr = dot11RSNAConfigPairwiseUpdateCount + 1
          /\ m.wpa_ptk_state \in {"PTKSTART", "PTKINITNEGOTIATING",
                                  "DISCONNECT", "DISCONNECTED"}
          /\ ~m.AuthenticationRequest /\ ~m.ReAuthenticationRequest
          /\ ~m.PTKRequest /\ m.EAPOLKey # "PAIRWISE"
    /\ m.GTimeoutCtr <= dot11RSNAConfigGroupUpdateCount + 1
    /\ m.wpa_ptk_group_state \in {"IDLE", "REKEYESTABLISHED"} =>
         m.GTimeoutCtr = 0

\* Frames: the next call of the machine that the frame is for consumes it.
FrameKept(m, w) ==
    /\ m.EAPOLKey = "PAIRWISE" =>
         /\ w = "ptk" /\ PtkRequested(m) = "none"
         /\ \/ m.wpa_ptk_state = "PTKSTART"
            \/ m.wpa_ptk_state = "PTKCALCNEGOTIATING" /\ ~m.MICVerified
            \/ m.wpa_ptk_state = "PTKINITNEGOTIATING" /\ m.MICVerified
    /\ m.EAPOLKey = "GROUP" =>
         /\ w \in {"ptk", "grp"} /\ ~m.Init /\ ~m.PtkGroupInit
         /\ m.wpa_ptk_group_state = "REKEYNEGOTIATING" /\ m.MICVerified

\* Places: a machine that did not move in this turn of the loop is quiet.
PlaceKept(m, w, mgmt, version) ==
    /\ w = "out" => PtkQuiet(m, mgmt) /\ GroupQuiet(m, version)
    /\ w = "auth" => m.wpa_ptk_state = "INITIALIZE"
    /\ w \in {"grp", "gsm"} /\ m.Init => m.wpa_ptk_state = "INITIALIZE"
    /\ w = "grp" => m.changed \/ m.Init \/ PtkQuiet(m, mgmt)
    /\ w = "gsm" => m.changed \/ m.Init \/ (PtkQuiet(m, mgmt) /\ GroupQuiet(m, version))

MachineInv(m, w, mgmt, version) ==
    /\ KeysKept(m, mgmt) /\ CountersKept(m) /\ FrameKept(m, w)
    /\ PlaceKept(m, w, mgmt, version)

InLoop == pc \in {"ptk", "grp", "gsm"}

Where(s) ==
    IF InLoop /\ cur = s THEN pc
    ELSE IF pc = "cont" /\ cont = "auth" /\ caller = s THEN "auth" ELSE "out"

\* The loop of an event runs for the event's station, Init is set during the
\* first step of wpa_auth_sta_associated only, and a reassociating station has
\* no PTK when wpa_auth_sta_associated is called.
StackInv ==
    /\ InLoop /\ rekeyq = <<>> => caller = cur
    /\ cont \in {"assoc", "auth", "reauth", "free"} => rekeyq = <<>>
    /\ pc = "idle" => cont = "none"
    /\ cont = "assoc" => ~sm[caller].PTK_valid
    /\ cont = "auth" => sm[caller].Init
    /\ \A s \in STA :
         /\ sm[s].Init => cont = "auth" /\ caller = s
         /\ sm[s].EAPOLKey = "PAIRWISE" => cont = "none"

LoopInv == StackInv /\ \A s \in STA : MachineInv(sm[s], Where(s), KeyMgmt[s], Version[s])

\* What the calls in the loop do to the fields StackInv is about.
LoopStep(m, n) ==
    /\ n.Init = m.Init
    /\ n.PTK_valid => m.PTK_valid \/ m.EAPOLKey = "PAIRWISE"

-----------------------------------------------------------------------------
(* Control: how a step moves the station in and out of its loop.           *)

\* A station that the running handler is not stepping is outside the loop.
LEMMA OthersOut ==
    ASSUME NEW s \in STA, NEW u \in STA \ {s},
           InLoop => cur = s, pc = "cont" => caller = s
    PROVE  Where(u) = "out"
  BY DEF Where

\* A station outside its loop is settled: its fields that StackInv is about.
LEMMA OutSettled ==
    ASSUME TypeOK, LoopInv, NEW u \in STA, Where(u) = "out"
    PROVE  /\ ~sm[u].Init /\ sm[u].EAPOLKey \in {"none", "REQUEST"}
           /\ MachineInv(sm[u], "out", KeyMgmt[u], Version[u])
  <1>1. MachineInv(sm[u], "out", KeyMgmt[u], Version[u]) /\ sm[u] \in WpaStateMachine
    BY DEF LoopInv, TypeOK
  <1> QED
    BY <1>1 DEF MachineInv, PlaceKept, PtkQuiet, PtkRequested, FrameKept,
                WpaStateMachine, KeyFrames

\* A call of the loop goes on to the next call, for the same station.
LEMMA CallStep ==
    ASSUME TypeOK, LoopInv, NEW s \in STA, pc \in {"ptk", "grp"}, cur = s,
           NEW l \in {"grp", "gsm"}, GoTo(l),
           \A u \in STA \ {s} : sm'[u] = sm[u], LoopStep(sm[s], sm'[s]),
           MachineInv(sm'[s], l, KeyMgmt[s], Version[s])
    PROVE  LoopInv'
  <1>1. InLoop /\ InLoop' /\ cur' = s /\ Where(s)' = l
    BY DEF InLoop, GoTo, Where
  <1>2. ASSUME NEW u \in STA \ {s}
        PROVE  Where(u) = "out" /\ Where(u)' = "out"
    BY <1>1, OthersOut DEF Where, InLoop
  <1>3. sm'[s].EAPOLKey # "PAIRWISE"
    BY DEF MachineInv, FrameKept
  <1>4. StackInv'
    BY <1>1, <1>2, <1>3, OutSettled DEF StackInv, LoopInv, LoopStep, GoTo, InLoop,
       TypeOK
  <1>5. \A u \in STA : MachineInv(sm'[u], Where(u)', KeyMgmt[u], Version[u])
    BY <1>1, <1>2, OutSettled
  <1> QED
    BY <1>4, <1>5 DEF LoopInv

\* A handler starts the loop of the station it is about.
LEMMA StartLoop ==
    ASSUME TypeOK, LoopInv, NEW s \in STA, NEW c, StepLoop(s, c),
           pc = "idle" \/ (pc = "cont" /\ caller = s),
           \A u \in STA \ {s} : sm'[u] = sm[u],
           MachineInv(sm'[s], "ptk", KeyMgmt[s], Version[s]),
           sm'[s].Init <=> c = "auth",
           c = "assoc" => ~sm'[s].PTK_valid,
           sm'[s].EAPOLKey = "PAIRWISE" => c = "none"
    PROVE  LoopInv'
  <1>1. /\ ~InLoop /\ InLoop' /\ cur' = s /\ caller' = s /\ cont' = c
        /\ Where(s)' = "ptk" /\ rekeyq' = <<>>
    BY DEF InLoop, StepLoop, Where, TypeOK
  <1>2. ASSUME NEW u \in STA \ {s}
        PROVE  Where(u) = "out" /\ Where(u)' = "out"
    BY <1>1, OthersOut DEF Where, InLoop
  <1>4. StackInv'
    BY <1>1, <1>2, OutSettled DEF StackInv, LoopInv, InLoop
  <1>5. \A u \in STA : MachineInv(sm'[u], Where(u)', KeyMgmt[u], Version[u])
    BY <1>1, <1>2, OutSettled
  <1> QED
    BY <1>4, <1>5 DEF LoopInv

\* A step that runs no loop and, of the machines, changes one at most.
LEMMA NoLoop ==
    ASSUME TypeOK, LoopInv, NEW s \in STA, ~InLoop', pc' = "cont" => cont' = "recv",
           pc' = "idle" => cont' = "none",
           cont' \in {"none", "recv"},
           \A u \in STA \ {s} : sm'[u] = sm[u] /\ Where(u) = "out",
           MachineInv(sm'[s], "out", KeyMgmt[s], Version[s]), ~sm'[s].Init
    PROVE  LoopInv'
  <1>1. \A u \in STA : Where(u)' = "out"
    BY DEF Where
  <1>3. sm'[s].EAPOLKey # "PAIRWISE"
    BY DEF MachineInv, FrameKept
  <1>4. StackInv'
    BY <1>1, <1>3, OutSettled DEF StackInv, InLoop
  <1>5. \A u \in STA : MachineInv(sm'[u], Where(u)', KeyMgmt[u], Version[u])
    BY <1>1, OutSettled
  <1> QED
    BY <1>4, <1>5 DEF LoopInv

\* A step that runs no loop and changes no machine.
LEMMA NoStation ==
    ASSUME TypeOK, LoopInv, ~InLoop, ~InLoop', pc # "cont",
           pc' = "cont" => cont' = "recv", pc' = "idle" => cont' = "none",
           cont' \in {"none", "recv"}, sm' = sm
    PROVE  LoopInv'
  <1>1. \A u \in STA : Where(u) = "out" /\ Where(u)' = "out"
    BY DEF Where
  <1>4. StackInv'
    BY <1>1, OutSettled DEF StackInv, InLoop
  <1>5. \A u \in STA : MachineInv(sm'[u], Where(u)', KeyMgmt[u], Version[u])
    BY <1>1, OutSettled
  <1> QED
    BY <1>4, <1>5 DEF LoopInv

-----------------------------------------------------------------------------
(* SM_STEP(WPA_PTK).  n is the record that the body of the state entered   *)
(* leaves of m.                                                            *)

\* A machine that does not move is quiet.
LEMMA PtkStayQuiet ==
    ASSUME NEW m \in WpaStateMachine, NEW mgmt,
           SM_STEP_WPA_PTK(m, mgmt) = "stay"
    PROVE  PtkQuiet(m, mgmt)
  BY ConstantAssumption DEF SM_STEP_WPA_PTK, PtkRequested, PtkInState, PtkAwait,
     PtkQuiet, WpaStateMachine, PtkStates

\* What SM_ENTER(WPA_PTK, t) does with the record r its body leaves.
LEMMA EnterPtkStep ==
    ASSUME TypeOK, LoopInv, NEW s \in STA, NEW t, NEW r, EnterPtk(s, t, r)
    PROVE  /\ sm[s] \in WpaStateMachine /\ MachineInv(sm[s], "ptk", KeyMgmt[s], Version[s])
           /\ SM_STEP_WPA_PTK(sm[s], KeyMgmt[s]) = t
           /\ \E c \in BOOLEAN :
                /\ sm'[s] = [r EXCEPT !.wpa_ptk_state = t, !.changed = c]
                /\ ~c => r.Init
           /\ t # "INITIALIZE" =>
                sm'[s] = [r EXCEPT !.wpa_ptk_state = t, !.changed = TRUE]
           /\ LoopStep(sm[s], sm'[s]) /\ MachineInv(sm'[s], "grp", KeyMgmt[s], Version[s])
                => LoopInv'
  <1>1. pc = "ptk" /\ cur = s /\ Where(s) = "ptk" /\ GoTo("grp")
    BY DEF EnterPtk, Where, InLoop
  <1>2. \A u \in STA \ {s} : sm'[u] = sm[u]
    BY DEF EnterPtk, TypeOK
  <1> QED
    BY <1>1, <1>2, CallStep DEF EnterPtk, TypeOK, LoopInv

\* INITIALIZE releases the keys, the mark and the counter, also under Init.
LEMMA Loop_INITIALIZE ==
    ASSUME TypeOK, LoopInv, NEW s \in STA, PTK_INITIALIZE(s)
    PROVE  LoopInv'
  <1> DEFINE r(m, mgmt) ==
               [wpa_remove_ptk(m) EXCEPT
                 !.GUpdateStationKeys = FALSE,
                 !.PInitAKeys = @ /\ Version[s] # "WPA",
                 !.TimeoutCtr = 0,
                 !.authorized = @ /\ mgmt = "EAP"]
  <1>1. EnterPtk(s, "INITIALIZE", r(sm[s], KeyMgmt[s]))
    BY DEF PTK_INITIALIZE
  <1>2. ASSUME NEW m \in WpaStateMachine, NEW mgmt, NEW version,
               MachineInv(m, "ptk", mgmt, version),
               SM_STEP_WPA_PTK(m, mgmt) = "INITIALIZE", NEW c \in BOOLEAN, ~c => m.Init,
               NEW n, n = [r(m, mgmt) EXCEPT !.wpa_ptk_state = "INITIALIZE",
                                             !.changed = c]
        PROVE  LoopStep(m, n) /\ MachineInv(n, "grp", mgmt, version)
    BY <1>2, ConstantAssumption DEF SM_STEP_WPA_PTK, PtkRequested, PtkInState,
       PtkAwait, MachineInv, KeysKept, CountersKept, FrameKept, PlaceKept,
       HoldsNothing, LoopStep, wpa_remove_ptk, WpaStateMachine, PtkStates,
       KeyFrames, PtkGroupStates
  <1>3. r(sm[s], KeyMgmt[s]).Init <=> sm[s].Init
    BY DEF TypeOK, wpa_remove_ptk, WpaStateMachine
  <1> HIDE DEF r
  <1>4. PICK c \in BOOLEAN :
          /\ sm'[s] = [r(sm[s], KeyMgmt[s]) EXCEPT !.wpa_ptk_state = "INITIALIZE",
                                                   !.changed = c]
          /\ ~c => sm[s].Init
    BY <1>1, <1>3, EnterPtkStep
  <1>5a. /\ sm[s] \in WpaStateMachine /\ MachineInv(sm[s], "ptk", KeyMgmt[s], Version[s])
         /\ SM_STEP_WPA_PTK(sm[s], KeyMgmt[s]) = "INITIALIZE"
    BY <1>1, EnterPtkStep
  <1>5. LoopStep(sm[s], sm'[s]) /\ MachineInv(sm'[s], "grp", KeyMgmt[s], Version[s])
    BY <1>2, <1>4, <1>5a
  <1> QED
    BY <1>1, <1>5, EnterPtkStep

\* DISCONNECT is left for DISCONNECTED, whatever the counter is.
LEMMA Loop_DISCONNECT ==
    ASSUME TypeOK, LoopInv, NEW s \in STA, PTK_DISCONNECT(s)
    PROVE  LoopInv'
  <1> DEFINE r(m, mgmt) ==
               wpa_sta_disconnect([m EXCEPT !.Disconnect = FALSE])
  <1>1. EnterPtk(s, "DISCONNECT", r(sm[s], KeyMgmt[s]))
    BY DEF PTK_DISCONNECT
  <1>2. ASSUME NEW m \in WpaStateMachine, NEW mgmt, NEW version,
               MachineInv(m, "ptk", mgmt, version),
               SM_STEP_WPA_PTK(m, mgmt) = "DISCONNECT",
               NEW n, n = [r(m, mgmt) EXCEPT !.wpa_ptk_state = "DISCONNECT",
                                             !.changed = TRUE]
        PROVE  LoopStep(m, n) /\ MachineInv(n, "grp", mgmt, version)
    BY <1>2, ConstantAssumption DEF SM_STEP_WPA_PTK, PtkRequested, PtkInState,
       PtkAwait, MachineInv, KeysKept, CountersKept, FrameKept, PlaceKept,
       HoldsNothing, LoopStep, wpa_sta_disconnect, WpaStateMachine, PtkStates,
       KeyFrames, PtkGroupStates
  <1> HIDE DEF r
  <1>4. sm'[s] = [r(sm[s], KeyMgmt[s]) EXCEPT !.wpa_ptk_state = "DISCONNECT",
                                              !.changed = TRUE]
    BY <1>1, EnterPtkStep
  <1>5. LoopStep(sm[s], sm'[s]) /\ MachineInv(sm'[s], "grp", KeyMgmt[s], Version[s])
    BY <1>1, <1>2, <1>4, EnterPtkStep
  <1> QED
    BY <1>1, <1>5, EnterPtkStep

\* DISCONNECTED is left for INITIALIZE, whatever the counter is.
LEMMA Loop_DISCONNECTED ==
    ASSUME TypeOK, LoopInv, NEW s \in STA, PTK_DISCONNECTED(s)
    PROVE  LoopInv'
  <1> DEFINE r(m, mgmt) ==
               [m EXCEPT !.DeauthenticationRequest = FALSE]
  <1>1. EnterPtk(s, "DISCONNECTED", r(sm[s], KeyMgmt[s]))
    BY DEF PTK_DISCONNECTED
  <1>2. ASSUME NEW m \in WpaStateMachine, NEW mgmt, NEW version,
               MachineInv(m, "ptk", mgmt, version),
               SM_STEP_WPA_PTK(m, mgmt) = "DISCONNECTED",
               NEW n, n = [r(m, mgmt) EXCEPT !.wpa_ptk_state = "DISCONNECTED",
                                             !.changed = TRUE]
        PROVE  LoopStep(m, n) /\ MachineInv(n, "grp", mgmt, version)
    BY <1>2, ConstantAssumption DEF SM_STEP_WPA_PTK, PtkRequested, PtkInState,
       PtkAwait, MachineInv, KeysKept, CountersKept, FrameKept, PlaceKept,
       HoldsNothing, LoopStep, WpaStateMachine, PtkStates, KeyFrames,
       PtkGroupStates
  <1> HIDE DEF r
  <1>4. sm'[s] = [r(sm[s], KeyMgmt[s]) EXCEPT !.wpa_ptk_state = "DISCONNECTED",
                                              !.changed = TRUE]
    BY <1>1, EnterPtkStep
  <1>5. LoopStep(sm[s], sm'[s]) /\ MachineInv(sm'[s], "grp", KeyMgmt[s], Version[s])
    BY <1>1, <1>2, <1>4, EnterPtkStep
  <1> QED
    BY <1>1, <1>5, EnterPtkStep

\* AUTHENTICATION drops the PTK.
LEMMA Loop_AUTHENTICATION ==
    ASSUME TypeOK, LoopInv, NEW s \in STA, PTK_AUTHENTICATION(s)
    PROVE  LoopInv'
  <1> DEFINE r(m, mgmt) ==
               [m EXCEPT !.PTK_valid = FALSE, !.AuthenticationRequest = FALSE]
  <1>1. EnterPtk(s, "AUTHENTICATION", r(sm[s], KeyMgmt[s]))
    BY DEF PTK_AUTHENTICATION
  <1>2. ASSUME NEW m \in WpaStateMachine, NEW mgmt, NEW version,
               MachineInv(m, "ptk", mgmt, version),
               SM_STEP_WPA_PTK(m, mgmt) = "AUTHENTICATION",
               NEW n, n = [r(m, mgmt) EXCEPT !.wpa_ptk_state = "AUTHENTICATION",
                                             !.changed = TRUE]
        PROVE  LoopStep(m, n) /\ MachineInv(n, "grp", mgmt, version)
    BY <1>2, ConstantAssumption DEF SM_STEP_WPA_PTK, PtkRequested, PtkInState,
       PtkAwait, MachineInv, KeysKept, CountersKept, FrameKept, PlaceKept,
       HoldsNothing, LoopStep, WpaStateMachine, PtkStates, KeyFrames,
       PtkGroupStates
  <1> HIDE DEF r
  <1>4. sm'[s] = [r(sm[s], KeyMgmt[s]) EXCEPT !.wpa_ptk_state = "AUTHENTICATION",
                                              !.changed = TRUE]
    BY <1>1, EnterPtkStep
  <1>5. LoopStep(sm[s], sm'[s]) /\ MachineInv(sm'[s], "grp", KeyMgmt[s], Version[s])
    BY <1>1, <1>2, <1>4, EnterPtkStep
  <1> QED
    BY <1>1, <1>5, EnterPtkStep

\* AUTHENTICATION2 resets the counter; the PTK is gone with the request.
LEMMA Loop_AUTHENTICATION2 ==
    ASSUME TypeOK, LoopInv, NEW s \in STA, NEW ready \in BOOLEAN, PTK_AUTHENTICATION2(s, ready)
    PROVE  LoopInv'
  <1> DEFINE r(m, mgmt) ==
               [m EXCEPT !.ReAuthenticationRequest = FALSE, !.TimeoutCtr = 0]
  <1>1. EnterPtk(s, "AUTHENTICATION2", r(sm[s], KeyMgmt[s]))
    BY DEF PTK_AUTHENTICATION2
  <1>2. ASSUME NEW m \in WpaStateMachine, NEW mgmt, NEW version,
               MachineInv(m, "ptk", mgmt, version),
               SM_STEP_WPA_PTK(m, mgmt) = "AUTHENTICATION2",
               NEW n, n = [r(m, mgmt) EXCEPT !.wpa_ptk_state = "AUTHENTICATION2",
                                             !.changed = TRUE]
        PROVE  LoopStep(m, n) /\ MachineInv(n, "grp", mgmt, version)
    BY <1>2, ConstantAssumption DEF SM_STEP_WPA_PTK, PtkRequested, PtkInState,
       PtkAwait, MachineInv, KeysKept, CountersKept, FrameKept, PlaceKept,
       HoldsNothing, LoopStep, WpaStateMachine, PtkStates, KeyFrames,
       PtkGroupStates
  <1> HIDE DEF r
  <1>4. sm'[s] = [r(sm[s], KeyMgmt[s]) EXCEPT !.wpa_ptk_state = "AUTHENTICATION2",
                                              !.changed = TRUE]
    BY <1>1, EnterPtkStep
  <1>5. LoopStep(sm[s], sm'[s]) /\ MachineInv(sm'[s], "grp", KeyMgmt[s], Version[s])
    BY <1>1, <1>2, <1>4, EnterPtkStep
  <1> QED
    BY <1>1, <1>5, EnterPtkStep

\* INITPMK takes the key of the EAPOL machine.
LEMMA Loop_INITPMK ==
    ASSUME TypeOK, LoopInv, NEW s \in STA, PTK_INITPMK(s)
    PROVE  LoopInv'
  <1> DEFINE r(m, mgmt) ==
               [m EXCEPT !.keyRun = FALSE]
  <1>1. EnterPtk(s, "INITPMK", r(sm[s], KeyMgmt[s]))
    BY DEF PTK_INITPMK
  <1>2. ASSUME NEW m \in WpaStateMachine, NEW mgmt, NEW version,
               MachineInv(m, "ptk", mgmt, version),
               SM_STEP_WPA_PTK(m, mgmt) = "INITPMK",
               NEW n, n = [r(m, mgmt) EXCEPT !.wpa_ptk_state = "INITPMK",
                                             !.changed = TRUE]
        PROVE  LoopStep(m, n) /\ MachineInv(n, "grp", mgmt, version)
    BY <1>2, ConstantAssumption DEF SM_STEP_WPA_PTK, PtkRequested, PtkInState,
       PtkAwait, MachineInv, KeysKept, CountersKept, FrameKept, PlaceKept,
       HoldsNothing, LoopStep, WpaStateMachine, PtkStates, KeyFrames,
       PtkGroupStates
  <1> HIDE DEF r
  <1>4. sm'[s] = [r(sm[s], KeyMgmt[s]) EXCEPT !.wpa_ptk_state = "INITPMK",
                                              !.changed = TRUE]
    BY <1>1, EnterPtkStep
  <1>5. LoopStep(sm[s], sm'[s]) /\ MachineInv(sm'[s], "grp", KeyMgmt[s], Version[s])
    BY <1>1, <1>2, <1>4, EnterPtkStep
  <1> QED
    BY <1>1, <1>5, EnterPtkStep

\* INITPSK leaves the flags alone.
LEMMA Loop_INITPSK ==
    ASSUME TypeOK, LoopInv, NEW s \in STA, PTK_INITPSK(s)
    PROVE  LoopInv'
  <1> DEFINE r(m, mgmt) ==
               m
  <1>1. EnterPtk(s, "INITPSK", r(sm[s], KeyMgmt[s]))
    BY DEF PTK_INITPSK
  <1>2. ASSUME NEW m \in WpaStateMachine, NEW mgmt, NEW version,
               MachineInv(m, "ptk", mgmt, version),
               SM_STEP_WPA_PTK(m, mgmt) = "INITPSK",
               NEW n, n = [r(m, mgmt) EXCEPT !.wpa_ptk_state = "INITPSK",
                                             !.changed = TRUE]
        PROVE  LoopStep(m, n) /\ MachineInv(n, "grp", mgmt, version)
    BY <1>2, ConstantAssumption DEF SM_STEP_WPA_PTK, PtkRequested, PtkInState,
       PtkAwait, MachineInv, KeysKept, CountersKept, FrameKept, PlaceKept,
       HoldsNothing, LoopStep, WpaStateMachine, PtkStates, KeyFrames,
       PtkGroupStates
  <1> HIDE DEF r
  <1>4. sm'[s] = [r(sm[s], KeyMgmt[s]) EXCEPT !.wpa_ptk_state = "INITPSK",
                                              !.changed = TRUE]
    BY <1>1, EnterPtkStep
  <1>5. LoopStep(sm[s], sm'[s]) /\ MachineInv(sm'[s], "grp", KeyMgmt[s], Version[s])
    BY <1>1, <1>2, <1>4, EnterPtkStep
  <1> QED
    BY <1>1, <1>5, EnterPtkStep

\* PTKSTART counts: it is entered at most once with the counter at its limit.
LEMMA Loop_PTKSTART ==
    ASSUME TypeOK, LoopInv, NEW s \in STA, PTK_PTKSTART(s)
    PROVE  LoopInv'
  <1> DEFINE r(m, mgmt) ==
               LET k == [m EXCEPT !.PTKRequest = FALSE, !.TimeoutEvt = FALSE,
                                  !.TimeoutCtr = @ + 1]
               IN  IF k.TimeoutCtr > dot11RSNAConfigPairwiseUpdateCount
                   THEN k ELSE wpa_send_eapol(k)
  <1>1. EnterPtk(s, "PTKSTART", r(sm[s], KeyMgmt[s]))
    BY DEF PTK_PTKSTART
  <1>2. ASSUME NEW m \in WpaStateMachine, NEW mgmt, NEW version,
               MachineInv(m, "ptk", mgmt, version),
               SM_STEP_WPA_PTK(m, mgmt) = "PTKSTART",
               NEW n, n = [r(m, mgmt) EXCEPT !.wpa_ptk_state = "PTKSTART",
                                             !.changed = TRUE]
        PROVE  LoopStep(m, n) /\ MachineInv(n, "grp", mgmt, version)
    BY <1>2, ConstantAssumption DEF SM_STEP_WPA_PTK, PtkRequested, PtkInState,
       PtkAwait, MachineInv, KeysKept, CountersKept, FrameKept, PlaceKept,
       HoldsNothing, LoopStep, wpa_send_eapol, WpaStateMachine, PtkStates,
       KeyFrames, PtkGroupStates
  <1> HIDE DEF r
  <1>4. sm'[s] = [r(sm[s], KeyMgmt[s]) EXCEPT !.wpa_ptk_state = "PTKSTART",
                                              !.changed = TRUE]
    BY <1>1, EnterPtkStep
  <1>5. LoopStep(sm[s], sm'[s]) /\ MachineInv(sm'[s], "grp", KeyMgmt[s], Version[s])
    BY <1>1, <1>2, <1>4, EnterPtkStep
  <1> QED
    BY <1>1, <1>5, EnterPtkStep

\* PTKCALCNEGOTIATING consumes message 2/4 or leaves no PTK.
LEMMA Loop_PTKCALCNEGOTIATING ==
    ASSUME TypeOK, LoopInv, NEW s \in STA, NEW ok \in BOOLEAN, PTK_PTKCALCNEGOTIATING(s, ok)
    PROVE  LoopInv'
  <1> DEFINE r(m, mgmt) ==
               LET k == [m EXCEPT !.EAPOLKey = "none"]
               IN  IF ok THEN [cancel_eapol_timeout(k) EXCEPT
                                 !.MICVerified = TRUE, !.PTK_valid = TRUE]
                   ELSE k
  <1>1. EnterPtk(s, "PTKCALCNEGOTIATING", r(sm[s], KeyMgmt[s]))
    BY DEF PTK_PTKCALCNEGOTIATING
  <1>2. ASSUME NEW m \in WpaStateMachine, NEW mgmt, NEW version,
               MachineInv(m, "ptk", mgmt, version),
               SM_STEP_WPA_PTK(m, mgmt) = "PTKCALCNEGOTIATING",
               NEW n, n = [r(m, mgmt) EXCEPT !.wpa_ptk_state = "PTKCALCNEGOTIATING",
                                             !.changed = TRUE]
        PROVE  LoopStep(m, n) /\ MachineInv(n, "grp", mgmt, version)
    BY <1>2, ConstantAssumption DEF SM_STEP_WPA_PTK, PtkRequested, PtkInState,
       PtkAwait, MachineInv, KeysKept, CountersKept, FrameKept, PlaceKept,
       HoldsNothing, LoopStep, cancel_eapol_timeout, WpaStateMachine,
       PtkStates, KeyFrames, PtkGroupStates
  <1> HIDE DEF r
  <1>4. sm'[s] = [r(sm[s], KeyMgmt[s]) EXCEPT !.wpa_ptk_state = "PTKCALCNEGOTIATING",
                                              !.changed = TRUE]
    BY <1>1, EnterPtkStep
  <1>5. LoopStep(sm[s], sm'[s]) /\ MachineInv(sm'[s], "grp", KeyMgmt[s], Version[s])
    BY <1>1, <1>2, <1>4, EnterPtkStep
  <1> QED
    BY <1>1, <1>5, EnterPtkStep

\* PTKCALCNEGOTIATING2 resets the counter for message 3/4.
LEMMA Loop_PTKCALCNEGOTIATING2 ==
    ASSUME TypeOK, LoopInv, NEW s \in STA, PTK_PTKCALCNEGOTIATING2(s)
    PROVE  LoopInv'
  <1> DEFINE r(m, mgmt) ==
               [m EXCEPT !.TimeoutCtr = 0]
  <1>1. EnterPtk(s, "PTKCALCNEGOTIATING2", r(sm[s], KeyMgmt[s]))
    BY DEF PTK_PTKCALCNEGOTIATING2
  <1>2. ASSUME NEW m \in WpaStateMachine, NEW mgmt, NEW version,
               MachineInv(m, "ptk", mgmt, version),
               SM_STEP_WPA_PTK(m, mgmt) = "PTKCALCNEGOTIATING2",
               NEW n, n = [r(m, mgmt) EXCEPT !.wpa_ptk_state = "PTKCALCNEGOTIATING2",
                                             !.changed = TRUE]
        PROVE  LoopStep(m, n) /\ MachineInv(n, "grp", mgmt, version)
    BY <1>2, ConstantAssumption DEF SM_STEP_WPA_PTK, PtkRequested, PtkInState,
       PtkAwait, MachineInv, KeysKept, CountersKept, FrameKept, PlaceKept,
       HoldsNothing, LoopStep, WpaStateMachine, PtkStates, KeyFrames,
       PtkGroupStates
  <1> HIDE DEF r
  <1>4. sm'[s] = [r(sm[s], KeyMgmt[s]) EXCEPT !.wpa_ptk_state = "PTKCALCNEGOTIATING2",
                                              !.changed = TRUE]
    BY <1>1, EnterPtkStep
  <1>5. LoopStep(sm[s], sm'[s]) /\ MachineInv(sm'[s], "grp", KeyMgmt[s], Version[s])
    BY <1>1, <1>2, <1>4, EnterPtkStep
  <1> QED
    BY <1>1, <1>5, EnterPtkStep

\* PTKINITNEGOTIATING counts like PTKSTART.
LEMMA Loop_PTKINITNEGOTIATING ==
    ASSUME TypeOK, LoopInv, NEW s \in STA, PTK_PTKINITNEGOTIATING(s)
    PROVE  LoopInv'
  <1> DEFINE r(m, mgmt) ==
               LET k == [m EXCEPT !.TimeoutEvt = FALSE, !.TimeoutCtr = @ + 1]
               IN  IF k.TimeoutCtr > dot11RSNAConfigPairwiseUpdateCount
                   THEN k ELSE wpa_send_eapol(k)
  <1>1. EnterPtk(s, "PTKINITNEGOTIATING", r(sm[s], KeyMgmt[s]))
    BY DEF PTK_PTKINITNEGOTIATING
  <1>2. ASSUME NEW m \in WpaStateMachine, NEW mgmt, NEW version,
               MachineInv(m, "ptk", mgmt, version),
               SM_STEP_WPA_PTK(m, mgmt) = "PTKINITNEGOTIATING",
               NEW n, n = [r(m, mgmt) EXCEPT !.wpa_ptk_state = "PTKINITNEGOTIATING",
                                             !.changed = TRUE]
        PROVE  LoopStep(m, n) /\ MachineInv(n, "grp", mgmt, version)
    BY <1>2, ConstantAssumption DEF SM_STEP_WPA_PTK, PtkRequested, PtkInState,
       PtkAwait, MachineInv, KeysKept, CountersKept, FrameKept, PlaceKept,
       HoldsNothing, LoopStep, wpa_send_eapol, WpaStateMachine, PtkStates,
       KeyFrames, PtkGroupStates
  <1> HIDE DEF r
  <1>4. sm'[s] = [r(sm[s], KeyMgmt[s]) EXCEPT !.wpa_ptk_state = "PTKINITNEGOTIATING",
                                              !.changed = TRUE]
    BY <1>1, EnterPtkStep
  <1>5. LoopStep(sm[s], sm'[s]) /\ MachineInv(sm'[s], "grp", KeyMgmt[s], Version[s])
    BY <1>1, <1>2, <1>4, EnterPtkStep
  <1> QED
    BY <1>1, <1>5, EnterPtkStep

\* PTKINITDONE consumes message 4/4.
LEMMA Loop_PTKINITDONE ==
    ASSUME TypeOK, LoopInv, NEW s \in STA, NEW ok \in BOOLEAN, PTK_PTKINITDONE(s, ok)
    PROVE  LoopInv'
  <1> DEFINE r(m, mgmt) ==
               LET k == [m EXCEPT !.EAPOLKey = "none"]
               IN  IF ok
                   THEN [k EXCEPT !.pairwise_set = TRUE,
                                  !.rekey_ptk_timer = @ \/ PtkRekey,
                                  !.authorized = @ \/ mgmt # "EAP",
                                  !.keyAvailable = FALSE,
                                  !.PInitAKeys = @ \/ Version[s] = "WPA",
                                  !.has_GTK = @ \/ Version[s] # "WPA"]
                   ELSE wpa_sta_disconnect(k)
  <1>1. EnterPtk(s, "PTKINITDONE", r(sm[s], KeyMgmt[s]))
    BY DEF PTK_PTKINITDONE
  <1>2. ASSUME NEW m \in WpaStateMachine, NEW mgmt, NEW version,
               MachineInv(m, "ptk", mgmt, version),
               SM_STEP_WPA_PTK(m, mgmt) = "PTKINITDONE",
               NEW n, n = [r(m, mgmt) EXCEPT !.wpa_ptk_state = "PTKINITDONE",
                                             !.changed = TRUE]
        PROVE  LoopStep(m, n) /\ MachineInv(n, "grp", mgmt, version)
    BY <1>2, ConstantAssumption DEF SM_STEP_WPA_PTK, PtkRequested, PtkInState,
       PtkAwait, MachineInv, KeysKept, CountersKept, FrameKept, PlaceKept,
       HoldsNothing, LoopStep, wpa_sta_disconnect, WpaStateMachine, PtkStates,
       KeyFrames, PtkGroupStates
  <1> HIDE DEF r
  <1>4. sm'[s] = [r(sm[s], KeyMgmt[s]) EXCEPT !.wpa_ptk_state = "PTKINITDONE",
                                              !.changed = TRUE]
    BY <1>1, EnterPtkStep
  <1>5. LoopStep(sm[s], sm'[s]) /\ MachineInv(sm'[s], "grp", KeyMgmt[s], Version[s])
    BY <1>1, <1>2, <1>4, EnterPtkStep
  <1> QED
    BY <1>1, <1>5, EnterPtkStep

\* The WPA_PTK machine.
LEMMA PtkLoop ==
    ASSUME TypeOK, LoopInv, NEW s \in STA, WPA_PTK(s)
    PROVE  LoopInv'
  <1>1. CASE PTK_stay(s)
    <2> DEFINE m == sm[s]
               n == [m EXCEPT !.changed = FALSE]
    <2>1. /\ pc = "ptk" /\ cur = s /\ GoTo("grp") /\ m \in WpaStateMachine
          /\ SM_STEP_WPA_PTK(m, KeyMgmt[s]) = "stay"
          /\ MachineInv(m, "ptk", KeyMgmt[s], Version[s])
          /\ \A u \in STA \ {s} : sm'[u] = sm[u]
          /\ sm'[s] = n
      BY <1>1 DEF PTK_stay, TypeOK, LoopInv, Where, InLoop
    <2> HIDE DEF m
    <2>2. LoopStep(m, n) /\ PtkQuiet(n, KeyMgmt[s])
      BY <2>1, PtkStayQuiet DEF LoopStep, PtkQuiet, PtkRequested, WpaStateMachine
    <2>3. MachineInv(n, "grp", KeyMgmt[s], Version[s])
      <3>1. m.EAPOLKey # "PAIRWISE"
        BY <2>1 DEF SM_STEP_WPA_PTK, PtkRequested, PtkInState, PtkAwait,
           MachineInv, FrameKept, WpaStateMachine, PtkStates
      <3> QED
        BY <2>1, <2>2, <3>1 DEF MachineInv, KeysKept, CountersKept, FrameKept,
           PlaceKept, HoldsNothing, PtkQuiet, PtkRequested, WpaStateMachine
    <2> HIDE DEF n
    <2> QED
      BY <2>1, <2>2, <2>3, CallStep DEF m
  <1> QED
    BY <1>1, Loop_INITIALIZE, Loop_DISCONNECT, Loop_DISCONNECTED,
       Loop_AUTHENTICATION, Loop_AUTHENTICATION2, Loop_INITPMK, Loop_INITPSK,
       Loop_PTKSTART, Loop_PTKCALCNEGOTIATING, Loop_PTKCALCNEGOTIATING2,
       Loop_PTKINITNEGOTIATING, Loop_PTKINITDONE DEF WPA_PTK

-----------------------------------------------------------------------------
(* SM_STEP(WPA_PTK_GROUP).                                                 *)

\* A group key machine that does not move is quiet.
LEMMA GroupStayQuiet ==
    ASSUME NEW m \in WpaStateMachine, NEW version,
           SM_STEP_WPA_PTK_GROUP(m, version) = "stay"
    PROVE  GroupQuiet(m, version) /\ ~m.Init
  BY ConstantAssumption DEF SM_STEP_WPA_PTK_GROUP, GroupQuiet, WpaStateMachine,
     PtkGroupStates

\* What SM_ENTER(WPA_PTK_GROUP, t) does with the record r its body leaves.
LEMMA EnterGroupStep ==
    ASSUME TypeOK, LoopInv, NEW s \in STA, NEW t, NEW r, EnterGroup(s, t, r)
    PROVE  /\ sm[s] \in WpaStateMachine /\ MachineInv(sm[s], "grp", KeyMgmt[s], Version[s])
           /\ SM_STEP_WPA_PTK_GROUP(sm[s], Version[s]) = t
           /\ \E c \in BOOLEAN :
                /\ sm'[s] = [r EXCEPT !.wpa_ptk_group_state = t, !.changed = c]
                /\ ~c => r.Init
           /\ t # "IDLE" =>
                sm'[s] = [r EXCEPT !.wpa_ptk_group_state = t, !.changed = TRUE]
           /\ LoopStep(sm[s], sm'[s]) /\ MachineInv(sm'[s], "gsm", KeyMgmt[s], Version[s])
                => LoopInv'
  <1>1. pc = "grp" /\ cur = s /\ Where(s) = "grp" /\ GoTo("gsm")
    BY DEF EnterGroup, Where, InLoop
  <1>2. \A u \in STA \ {s} : sm'[u] = sm[u]
    BY DEF EnterGroup, TypeOK
  <1> QED
    BY <1>1, <1>2, CallStep DEF EnterGroup, TypeOK, LoopInv

\* IDLE resets the counter, also under Init.
LEMMA Loop_IDLE ==
    ASSUME TypeOK, LoopInv, NEW s \in STA, GROUP_IDLE(s)
    PROVE  LoopInv'
  <1> DEFINE r(m) ==
               [m EXCEPT !.GTimeoutCtr = 0, !.PtkGroupInit = FALSE]
  <1>1. EnterGroup(s, "IDLE", r(sm[s]))
    BY DEF GROUP_IDLE
  <1>2. ASSUME NEW m \in WpaStateMachine, NEW mgmt, NEW version,
               MachineInv(m, "grp", mgmt, version),
               SM_STEP_WPA_PTK_GROUP(m, version) = "IDLE", NEW c \in BOOLEAN, ~c => m.Init,
               NEW n, n = [r(m) EXCEPT !.wpa_ptk_group_state = "IDLE",
                                       !.changed = c]
        PROVE  LoopStep(m, n) /\ MachineInv(n, "gsm", mgmt, version)
    BY <1>2, ConstantAssumption DEF SM_STEP_WPA_PTK_GROUP, PtkRequested,
       MachineInv, KeysKept, CountersKept, FrameKept, PlaceKept, HoldsNothing,
       LoopStep, WpaStateMachine, PtkStates, KeyFrames, PtkGroupStates
  <1>3. r(sm[s]).Init <=> sm[s].Init
    BY DEF TypeOK, WpaStateMachine
  <1> HIDE DEF r
  <1>4. PICK c \in BOOLEAN :
          /\ sm'[s] = [r(sm[s]) EXCEPT !.wpa_ptk_group_state = "IDLE",
                                       !.changed = c]
          /\ ~c => sm[s].Init
    BY <1>1, <1>3, EnterGroupStep
  <1>5. /\ sm[s] \in WpaStateMachine /\ MachineInv(sm[s], "grp", KeyMgmt[s], Version[s])
        /\ SM_STEP_WPA_PTK_GROUP(sm[s], Version[s]) = "IDLE"
    BY <1>1, EnterGroupStep
  <1>6. LoopStep(sm[s], sm'[s]) /\ MachineInv(sm'[s], "gsm", KeyMgmt[s], Version[s])
    BY <1>2, <1>4, <1>5
  <1> QED
    BY <1>1, <1>6, EnterGroupStep

\* REKEYNEGOTIATING counts: it is not entered with the counter past its limit.
LEMMA Loop_REKEYNEGOTIATING ==
    ASSUME TypeOK, LoopInv, NEW s \in STA, GROUP_REKEYNEGOTIATING(s)
    PROVE  LoopInv'
  <1> DEFINE r(m) ==
               LET k == [m EXCEPT !.GTimeoutCtr = @ + 1]
               IN  IF k.GTimeoutCtr > dot11RSNAConfigGroupUpdateCount
                   THEN k
                   ELSE wpa_send_eapol([k EXCEPT
                          !.PInitAKeys = @ /\ Version[s] # "WPA",
                          !.TimeoutEvt = FALSE])
  <1>1. EnterGroup(s, "REKEYNEGOTIATING", r(sm[s]))
    BY DEF GROUP_REKEYNEGOTIATING
  <1>2. ASSUME NEW m \in WpaStateMachine, NEW mgmt, NEW version,
               MachineInv(m, "grp", mgmt, version),
               SM_STEP_WPA_PTK_GROUP(m, version) = "REKEYNEGOTIATING",
               NEW n, n = [r(m) EXCEPT !.wpa_ptk_group_state = "REKEYNEGOTIATING",
                                       !.changed = TRUE]
        PROVE  LoopStep(m, n) /\ MachineInv(n, "gsm", mgmt, version)
    BY <1>2, ConstantAssumption DEF SM_STEP_WPA_PTK_GROUP, PtkRequested,
       MachineInv, KeysKept, CountersKept, FrameKept, PlaceKept, HoldsNothing,
       LoopStep, wpa_send_eapol, WpaStateMachine, PtkStates, KeyFrames,
       PtkGroupStates
  <1> HIDE DEF r
  <1>4. sm'[s] = [r(sm[s]) EXCEPT !.wpa_ptk_group_state = "REKEYNEGOTIATING",
                                  !.changed = TRUE]
    BY <1>1, EnterGroupStep
  <1>5. /\ sm[s] \in WpaStateMachine /\ MachineInv(sm[s], "grp", KeyMgmt[s], Version[s])
        /\ SM_STEP_WPA_PTK_GROUP(sm[s], Version[s]) = "REKEYNEGOTIATING"
    BY <1>1, EnterGroupStep
  <1>6. LoopStep(sm[s], sm'[s]) /\ MachineInv(sm'[s], "gsm", KeyMgmt[s], Version[s])
    BY <1>2, <1>4, <1>5
  <1> QED
    BY <1>1, <1>6, EnterGroupStep

\* REKEYESTABLISHED consumes message 2/2.
LEMMA Loop_REKEYESTABLISHED ==
    ASSUME TypeOK, LoopInv, NEW s \in STA, GROUP_REKEYESTABLISHED(s)
    PROVE  LoopInv'
  <1> DEFINE r(m) ==
               [m EXCEPT !.EAPOLKey = "none", !.GUpdateStationKeys = FALSE,
                          !.GTimeoutCtr = 0, !.has_GTK = TRUE]
  <1>1. EnterGroup(s, "REKEYESTABLISHED", r(sm[s]))
    BY DEF GROUP_REKEYESTABLISHED
  <1>2. ASSUME NEW m \in WpaStateMachine, NEW mgmt, NEW version,
               MachineInv(m, "grp", mgmt, version),
               SM_STEP_WPA_PTK_GROUP(m, version) = "REKEYESTABLISHED",
               NEW n, n = [r(m) EXCEPT !.wpa_ptk_group_state = "REKEYESTABLISHED",
                                       !.changed = TRUE]
        PROVE  LoopStep(m, n) /\ MachineInv(n, "gsm", mgmt, version)
    BY <1>2, ConstantAssumption DEF SM_STEP_WPA_PTK_GROUP, PtkRequested,
       MachineInv, KeysKept, CountersKept, FrameKept, PlaceKept, HoldsNothing,
       LoopStep, WpaStateMachine, PtkStates, KeyFrames, PtkGroupStates
  <1> HIDE DEF r
  <1>4. sm'[s] = [r(sm[s]) EXCEPT !.wpa_ptk_group_state = "REKEYESTABLISHED",
                                  !.changed = TRUE]
    BY <1>1, EnterGroupStep
  <1>5. /\ sm[s] \in WpaStateMachine /\ MachineInv(sm[s], "grp", KeyMgmt[s], Version[s])
        /\ SM_STEP_WPA_PTK_GROUP(sm[s], Version[s]) = "REKEYESTABLISHED"
    BY <1>1, EnterGroupStep
  <1>6. LoopStep(sm[s], sm'[s]) /\ MachineInv(sm'[s], "gsm", KeyMgmt[s], Version[s])
    BY <1>2, <1>4, <1>5
  <1> QED
    BY <1>1, <1>6, EnterGroupStep

\* KEYERROR asks the other machine to disconnect.
LEMMA Loop_KEYERROR ==
    ASSUME TypeOK, LoopInv, NEW s \in STA, GROUP_KEYERROR(s)
    PROVE  LoopInv'
  <1> DEFINE r(m) ==
               [m EXCEPT !.GUpdateStationKeys = FALSE, !.Disconnect = TRUE]
  <1>1. EnterGroup(s, "KEYERROR", r(sm[s]))
    BY DEF GROUP_KEYERROR
  <1>2. ASSUME NEW m \in WpaStateMachine, NEW mgmt, NEW version,
               MachineInv(m, "grp", mgmt, version),
               SM_STEP_WPA_PTK_GROUP(m, version) = "KEYERROR",
               NEW n, n = [r(m) EXCEPT !.wpa_ptk_group_state = "KEYERROR",
                                       !.changed = TRUE]
        PROVE  LoopStep(m, n) /\ MachineInv(n, "gsm", mgmt, version)
    BY <1>2, ConstantAssumption DEF SM_STEP_WPA_PTK_GROUP, PtkRequested,
       MachineInv, KeysKept, CountersKept, FrameKept, PlaceKept, HoldsNothing,
       LoopStep, WpaStateMachine, PtkStates, KeyFrames, PtkGroupStates
  <1> HIDE DEF r
  <1>4. sm'[s] = [r(sm[s]) EXCEPT !.wpa_ptk_group_state = "KEYERROR",
                                  !.changed = TRUE]
    BY <1>1, EnterGroupStep
  <1>5. /\ sm[s] \in WpaStateMachine /\ MachineInv(sm[s], "grp", KeyMgmt[s], Version[s])
        /\ SM_STEP_WPA_PTK_GROUP(sm[s], Version[s]) = "KEYERROR"
    BY <1>1, EnterGroupStep
  <1>6. LoopStep(sm[s], sm'[s]) /\ MachineInv(sm'[s], "gsm", KeyMgmt[s], Version[s])
    BY <1>2, <1>4, <1>5
  <1> QED
    BY <1>1, <1>6, EnterGroupStep

\* The WPA_PTK_GROUP machine.
LEMMA PtkGroupLoop ==
    ASSUME TypeOK, LoopInv, NEW s \in STA, WPA_PTK_GROUP(s)
    PROVE  LoopInv'
  <1>1. CASE GROUP_stay(s)
    <2> DEFINE m == sm[s]
    <2>1. /\ pc = "grp" /\ cur = s /\ GoTo("gsm") /\ m \in WpaStateMachine
          /\ SM_STEP_WPA_PTK_GROUP(m, Version[s]) = "stay"
          /\ MachineInv(m, "grp", KeyMgmt[s], Version[s])
          /\ \A u \in STA \ {s} : sm'[u] = sm[u]
          /\ sm'[s] = m
      BY <1>1 DEF GROUP_stay, TypeOK, LoopInv, Where, InLoop
    <2> HIDE DEF m
    <2>2. MachineInv(m, "gsm", KeyMgmt[s], Version[s])
      <3>1. m.EAPOLKey # "GROUP"
        BY <2>1 DEF SM_STEP_WPA_PTK_GROUP, MachineInv, FrameKept,
           WpaStateMachine, PtkGroupStates
      <3> QED
        BY <2>1, <3>1, GroupStayQuiet DEF MachineInv, FrameKept, PlaceKept
    <2> QED
      BY <2>1, <2>2, CallStep DEF m, LoopStep
  <1> QED
    BY <1>1, Loop_IDLE, Loop_REKEYNEGOTIATING, Loop_REKEYESTABLISHED,
       Loop_KEYERROR DEF WPA_PTK_GROUP

-----------------------------------------------------------------------------
(* The end of the loop, and GTK rekeying.                                  *)

\* The loop is only left by a machine that is quiet, or for the second step of
\* wpa_auth_sta_associated.
LEMMA GsmLoop ==
    ASSUME TypeOK, LoopInv, NEW s \in STA, GSM_setkeysdone(s) \/ GSM_stay(s)
    PROVE  LoopInv'
  <1> DEFINE m == sm[s]
  <1>1. /\ pc = "gsm" /\ cur = s /\ sm' = sm /\ InLoop
        /\ m \in WpaStateMachine /\ MachineInv(m, "gsm", KeyMgmt[s], Version[s])
    BY DEF GSM_setkeysdone, GSM_stay, TypeOK, LoopInv, Where, InLoop
  <1>2. PICK changed \in BOOLEAN : LoopEnd(s, changed) /\ (m.changed => changed)
    BY DEF GSM_setkeysdone, GSM_stay
  <1>3. \A u \in STA \ {s} : Where(u) = "out"
    BY <1>1, OthersOut
  <1>4. m.EAPOLKey \notin {"PAIRWISE", "GROUP"}
    BY <1>1 DEF MachineInv, FrameKept
  <1>5. CASE changed
    <2>1. /\ InLoop' /\ cur' = s /\ Where(s)' = "ptk" /\ GoTo("ptk")
          /\ \A u \in STA \ {s} : Where(u)' = "out"
      BY <1>1, <1>2, <1>5 DEF LoopEnd, GoTo, Where, InLoop
    <2>2. MachineInv(m, "ptk", KeyMgmt[s], Version[s])
      BY <1>1, <1>4 DEF MachineInv, FrameKept, PlaceKept
    <2>3. StackInv'
      BY <1>1, <2>1 DEF LoopInv, StackInv, InLoop, GoTo
    <2> QED
      BY <1>1, <1>3, <2>1, <2>2, <2>3, OutSettled DEF LoopInv
  <1>6. CASE ~changed
    <2>1. ~InLoop' /\ (pc' = "cont" => cont' = cont /\ caller = s /\ caller' = s)
      BY <1>1, <1>2, <1>6 DEF LoopEnd, Finish, InLoop, LoopInv, StackInv
    <2>2. \A u \in STA \ {s} : Where(u)' = "out"
      BY <2>1 DEF Where
    <2>3. m.Init \/ (PtkQuiet(m, KeyMgmt[s]) /\ GroupQuiet(m, Version[s]))
      BY <1>1, <1>2, <1>6 DEF MachineInv, PlaceKept
    <2>4. Where(s)' = IF pc' = "cont" /\ cont = "auth" THEN "auth" ELSE "out"
      BY <2>1 DEF Where
    <2>5. m.Init <=> pc' = "cont" /\ cont = "auth"
      <3>1. m.Init => cont = "auth" /\ caller = s /\ rekeyq = <<>>
        BY DEF LoopInv, StackInv
      <3>2. cont = "auth" => sm[caller].Init
        BY DEF LoopInv, StackInv
      <3> QED
        BY <1>2, <1>6, <2>1, <3>1, <3>2 DEF LoopEnd
    <2>6. MachineInv(m, Where(s)', KeyMgmt[s], Version[s])
      BY <1>1, <1>4, <2>3, <2>4, <2>5 DEF MachineInv, FrameKept, PlaceKept
    <2>7. StackInv'
      BY <1>1, <1>2, <1>4, <1>6, <2>1, <2>5, <1>3, OutSettled
         DEF LoopInv, StackInv, LoopEnd, Finish, InLoop, TypeOK
    <2> QED
      BY <1>1, <1>3, <2>2, <2>6, <2>7, OutSettled DEF LoopInv
  <1> QED
    BY <1>5, <1>6

\* wpa_rekey_gtk itself does not touch the machines of the stations.
LEMMA RekeyLoop ==
    ASSUME TypeOK, LoopInv, RunRekey
    PROVE  LoopInv'
  <1>1. pc \in {"rekey", "each"} /\ rekeyq # <<>> /\ sm' = sm
    BY DEF RunRekey, REKEY_setkeysdone, REKEY_setkeys, REKEY_stay, EACH_done, TypeOK
  <1>2. cont \in {"none", "recv"}
    BY <1>1 DEF LoopInv, StackInv, TypeOK
  <1>3. ASSUME NEW gr, NextGroup(gr)
        PROVE  /\ pc' \in {"rekey", "cont", "idle"} /\ cont' \in {"none", "recv"}
               /\ pc' = "cont" => cont' = "recv"
               /\ pc' = "idle" => cont' = "none"
    BY <1>2, <1>3 DEF NextGroup, Finish
  <1>4. /\ pc' \in {"rekey", "each", "cont", "idle"} /\ cont' \in {"none", "recv"}
        /\ pc' = "cont" => cont' = "recv"
        /\ pc' = "idle" => cont' = "none"
    BY <1>2, <1>3 DEF RunRekey, REKEY_setkeysdone, REKEY_setkeys, REKEY_stay,
       EACH_done, GoTo
  <1> QED
    BY <1>1, <1>4, NoStation DEF InLoop

\* wpa_group_update_sta: a settled station is marked and its loop started, or
\* its mark is cleared.
LEMMA UpdateStaLoop ==
    ASSUME TypeOK, LoopInv, NEW s \in STA, wpa_group_update_sta(s)
    PROVE  LoopInv'
  <1> DEFINE m == sm[s]
  <1>1. /\ pc = "each" /\ rekeyq # <<>> /\ cont \in {"none", "recv"}
        /\ ~InLoop /\ \A u \in STA : Where(u) = "out"
        /\ m \in WpaStateMachine /\ MachineInv(m, "out", KeyMgmt[s], Version[s])
    BY DEF wpa_group_update_sta, EACH_skip, EACH_mark, TypeOK, LoopInv, StackInv,
           InLoop, Where
  <1>2. CASE EACH_skip(s)
    <2> DEFINE n == [m EXCEPT !.GUpdateStationKeys = FALSE]
    <2>1. sm'[s] = n /\ \A u \in STA \ {s} : sm'[u] = sm[u]
      BY <1>2 DEF EACH_skip, TypeOK
    <2>2. ~InLoop' /\ pc' = "each" /\ cont' = cont
      BY <1>1, <1>2 DEF EACH_skip, InLoop
    <2> HIDE DEF m
    <2>3. MachineInv(n, "out", KeyMgmt[s], Version[s]) /\ ~n.Init
      BY <1>1 DEF MachineInv, KeysKept, CountersKept, FrameKept, PlaceKept,
         HoldsNothing, PtkQuiet, GroupQuiet, PtkRequested, WpaStateMachine
    <2> HIDE DEF n
    <2> QED
      BY <1>1, <2>1, <2>2, <2>3, NoLoop
  <1>3. CASE EACH_mark(s)
    <2> DEFINE n == [m EXCEPT !.GUpdateStationKeys = TRUE]
    <2>1. sm'[s] = n /\ \A u \in STA \ {s} : sm'[u] = sm[u]
      BY <1>3 DEF EACH_mark, TypeOK
    <2>2. /\ InLoop' /\ pc' = "ptk" /\ cur' = s /\ cont' = cont /\ caller' = caller
          /\ rekeyq' = rekeyq /\ m.wpa_ptk_state = "PTKINITDONE"
      BY <1>1, <1>3 DEF EACH_mark, InLoop
    <2> HIDE DEF m
    <2>3. /\ MachineInv(n, "ptk", KeyMgmt[s], Version[s]) /\ ~n.Init
          /\ n.EAPOLKey # "PAIRWISE"
      BY <1>1, <2>2 DEF MachineInv, KeysKept, CountersKept, FrameKept, PlaceKept,
         PtkQuiet, PtkRequested, WpaStateMachine
    <2> HIDE DEF n
    <2>4. StackInv'
      BY <1>1, <2>1, <2>2, <2>3, OutSettled DEF StackInv
    <2>5. \A u \in STA : Where(u)' = IF u = s THEN "ptk" ELSE "out"
      BY <2>2 DEF Where
    <2> QED
      BY <1>1, <2>1, <2>3, <2>4, <2>5, OutSettled DEF LoopInv
  <1> QED
    BY <1>2, <1>3 DEF wpa_group_update_sta

-----------------------------------------------------------------------------
(* The rest of an event.                                                   *)

\* A zeroed record is settled.
LEMMA StaInitLoop ==
    ASSUME NEW a, NEW mgmt, NEW version
    PROVE  /\ MachineInv(wpa_auth_sta_init(a), "out", mgmt, version)
           /\ ~wpa_auth_sta_init(a).Init
  BY ConstantAssumption DEF wpa_auth_sta_init, MachineInv, KeysKept, CountersKept,
     FrameKept, PlaceKept, HoldsNothing, PtkQuiet, GroupQuiet, PtkRequested

\* hostapd_new_assoc_sta, ap_free_sta and the end of wpa_receive.
LEMMA ContLoop ==
    ASSUME TypeOK, LoopInv, NEW s \in STA,
           CONT_assoc(s) \/ CONT_auth(s) \/ CONT_reauth(s) \/ CONT_free(s)
             \/ CONT_recv(s)
    PROVE  LoopInv'
  <1> DEFINE m == sm[s]
  <1>1. /\ pc = "cont" /\ caller = s /\ ~InLoop /\ m \in WpaStateMachine
        /\ MachineInv(m, Where(s), KeyMgmt[s], Version[s])
        /\ \A u \in STA \ {s} : Where(u) = "out" /\ sm'[u] = sm[u]
    BY DEF CONT_assoc, CONT_auth, CONT_reauth, CONT_free, CONT_recv,
           wpa_auth_sta_deinit, TypeOK, LoopInv, InLoop, Where
  <1>2. cont # "auth" => MachineInv(m, "out", KeyMgmt[s], Version[s]) /\ ~m.Init
    BY <1>1, OutSettled DEF Where
  <1>3. ASSUME NEW c, NEW n, StepLoop(s, c), sm'[s] = n,
               MachineInv(n, "ptk", KeyMgmt[s], Version[s]), n.Init <=> c = "auth",
               c # "assoc", n.EAPOLKey # "PAIRWISE"
        PROVE  LoopInv'
    BY <1>1, <1>3, StartLoop
  <1>b. ASSUME cont # "auth", NEW b \in ieee802_1x_new_station(s)
        PROVE  /\ b \in WpaStateMachine /\ MachineInv(b, "out", KeyMgmt[s], Version[s])
               /\ ~b.Init /\ b.PTK_valid = m.PTK_valid
    <2>1. CASE b = m
      BY <1>1, <1>2, <1>b, <2>1
    <2>2. ASSUME NEW g \in Group,
                 b = [m EXCEPT !.keyRun = TRUE, !.keyAvailable = TRUE, !.group = g]
          PROVE  MachineInv(b, "out", KeyMgmt[s], Version[s]) /\ ~b.Init
                   /\ b.PTK_valid = m.PTK_valid
      <3> HIDE DEF m
      <3> QED
        BY <1>1, <1>2, <1>b, <2>2 DEF MachineInv, KeysKept, CountersKept, FrameKept,
           PlaceKept, HoldsNothing, PtkQuiet, GroupQuiet, PtkRequested, WpaStateMachine
    <2>3. b \in WpaStateMachine
      BY <1>1, NewStationType
    <2>4. b = m \/ \E g \in Group :
            b = [m EXCEPT !.keyRun = TRUE, !.keyAvailable = TRUE, !.group = g]
      BY <1>1, NewStationType
    <2> QED
      BY <2>1, <2>2, <2>3, <2>4
  <1>4. CASE CONT_assoc(s) /\ m.started
    <2>0. PICK b \in ieee802_1x_new_station(s) :
            /\ cont = "assoc"
            /\ sm' = [sm EXCEPT ![s] = [b EXCEPT !.replay_valid = FALSE,
                                                 !.ReAuthenticationRequest = TRUE]]
      BY <1>4 DEF CONT_assoc
    <2> DEFINE n == [b EXCEPT !.replay_valid = FALSE,
                              !.ReAuthenticationRequest = TRUE]
    <2>1. sm'[s] = n /\ StepLoop(s, "none") /\ ~m.PTK_valid /\ cont = "assoc"
      BY <1>1, <1>4, <2>0 DEF CONT_assoc, TypeOK, LoopInv, StackInv
    <2> HIDE DEF m
    <2>2. MachineInv(n, "ptk", KeyMgmt[s], Version[s]) /\ ~n.Init /\ n.EAPOLKey # "PAIRWISE"
      BY <1>b, <2>1, ConstantAssumption DEF MachineInv, KeysKept,
         CountersKept, FrameKept, PlaceKept, HoldsNothing, PtkQuiet, PtkRequested,
         WpaStateMachine
    <2> HIDE DEF n
    <2> QED
      BY <1>3, <2>1, <2>2
  <1>5. CASE CONT_assoc(s) /\ ~m.started
    <2>0. PICK b \in ieee802_1x_new_station(s) :
            /\ cont = "assoc"
            /\ sm' = [sm EXCEPT ![s] = [b EXCEPT !.started = TRUE, !.Init = TRUE]]
      BY <1>5 DEF CONT_assoc
    <2> DEFINE n == [b EXCEPT !.started = TRUE, !.Init = TRUE]
    <2>1. sm'[s] = n /\ StepLoop(s, "auth") /\ cont = "assoc"
      BY <1>1, <1>5, <2>0 DEF CONT_assoc, TypeOK
    <2> HIDE DEF m
    <2>2. MachineInv(n, "ptk", KeyMgmt[s], Version[s]) /\ n.Init /\ n.EAPOLKey # "PAIRWISE"
      BY <1>b, <2>1, ConstantAssumption DEF MachineInv, KeysKept,
         CountersKept, FrameKept, PlaceKept, HoldsNothing, PtkQuiet, PtkRequested,
         WpaStateMachine
    <2> HIDE DEF n
    <2> QED
      BY <1>3, <2>1, <2>2
  <1>6. CASE CONT_auth(s)
    <2> DEFINE n == [m EXCEPT !.Init = FALSE, !.AuthenticationRequest = TRUE]
    <2>1. /\ sm'[s] = n /\ StepLoop(s, "none")
          /\ MachineInv(m, "auth", KeyMgmt[s], Version[s])
      BY <1>1, <1>6 DEF CONT_auth, TypeOK, Where, InLoop
    <2> HIDE DEF m
    <2>2. MachineInv(n, "ptk", KeyMgmt[s], Version[s]) /\ ~n.Init /\ n.EAPOLKey # "PAIRWISE"
      BY <1>1, <2>1, ConstantAssumption DEF MachineInv, KeysKept, CountersKept,
         FrameKept, PlaceKept, HoldsNothing, WpaStateMachine
    <2> HIDE DEF n
    <2> QED
      BY <1>3, <2>1, <2>2
  <1>7. CASE CONT_reauth(s)
    <2>0. PICK b \in ieee802_1x_new_station(s) :
            sm' = [sm EXCEPT ![s] = wpa_remove_ptk(Reauthenticate(b))]
      BY <1>7 DEF CONT_reauth
    <2> DEFINE n == wpa_remove_ptk(Reauthenticate(b))
    <2>1. sm'[s] = n /\ StepLoop(s, "none") /\ cont = "reauth"
      BY <1>1, <1>7, <2>0 DEF CONT_reauth, TypeOK
    <2> HIDE DEF m
    <2>2. /\ MachineInv(n, "ptk", KeyMgmt[s], Version[s])
          /\ ~n.Init /\ n.EAPOLKey # "PAIRWISE"
      BY <1>b, <2>1, ConstantAssumption DEF MachineInv, KeysKept,
         CountersKept, FrameKept, PlaceKept, HoldsNothing, PtkQuiet, PtkRequested,
         WpaStateMachine, wpa_remove_ptk, Reauthenticate, KeyFrames
    <2> HIDE DEF n
    <2> QED
      BY <1>3, <2>1, <2>2
  <1>8. CASE CONT_free(s)
    <2>1. sm'[s] = wpa_auth_sta_init("none") /\ Finish
      BY <1>1, <1>8 DEF CONT_free, wpa_auth_sta_deinit, TypeOK
    <2> QED
      BY <1>1, <2>1, StaInitLoop, NoLoop DEF Finish, InLoop
  <1>9. CASE CONT_recv(s)
    <2> DEFINE n == [m EXCEPT !.EAPOLKey = "REQUEST"]
    <2>1. sm'[s] = n /\ StepLoop(s, "none") /\ cont = "recv"
      BY <1>1, <1>9 DEF CONT_recv, TypeOK
    <2> HIDE DEF m
    <2>2. MachineInv(n, "ptk", KeyMgmt[s], Version[s]) /\ ~n.Init /\ n.EAPOLKey # "PAIRWISE"
      BY <1>1, <1>2, <2>1, ConstantAssumption DEF MachineInv, KeysKept,
         CountersKept, FrameKept, PlaceKept, HoldsNothing, WpaStateMachine
    <2> HIDE DEF n
    <2> QED
      BY <1>3, <2>1, <2>2
  <1> QED
    BY <1>4, <1>5, <1>6, <1>7, <1>8, <1>9

-----------------------------------------------------------------------------
(* The events.                                                             *)

\* What every event starts from: the station is settled.
LEMMA EventStart ==
    ASSUME TypeOK, LoopInv, NEW s \in STA, pc = "idle"
    PROVE  /\ sm[s] \in WpaStateMachine /\ MachineInv(sm[s], "out", KeyMgmt[s], Version[s])
           /\ ~InLoop /\ cont = "none" /\ \A u \in STA : Where(u) = "out"
  <1>1. ~InLoop /\ \A u \in STA : Where(u) = "out"
    BY DEF InLoop, Where
  <1> QED
    BY <1>1 DEF LoopInv, StackInv, TypeOK

\* An event that starts the loop of its station.
LEMMA EventLoop ==
    ASSUME TypeOK, LoopInv, NEW s \in STA, pc = "idle",
           NEW c \in {"none", "assoc", "reauth", "free"}, StepLoop(s, c),
           NEW n, sm' = [sm EXCEPT ![s] = n],
           MachineInv(n, "ptk", KeyMgmt[s], Version[s]), ~n.Init,
           c = "assoc" => ~n.PTK_valid, n.EAPOLKey = "PAIRWISE" => c = "none"
    PROVE  LoopInv'
  <1>1. sm'[s] = n /\ \A u \in STA \ {s} : sm'[u] = sm[u]
    BY DEF TypeOK
  <1> QED
    BY <1>1, StartLoop

\* An event that starts no loop.
LEMMA EventNoLoop ==
    ASSUME TypeOK, LoopInv, NEW s \in STA, pc = "idle", UNCHANGED stack,
           NEW n, sm' = [sm EXCEPT ![s] = n],
           MachineInv(n, "out", KeyMgmt[s], Version[s]), ~n.Init
    PROVE  LoopInv'
  <1>1. sm'[s] = n /\ \A u \in STA \ {s} : sm'[u] = sm[u]
    BY DEF TypeOK
  <1>2. ~InLoop' /\ pc' = "idle" /\ cont' = "none"
    BY EventStart DEF stack, InLoop
  <1> QED
    BY <1>1, <1>2, EventStart, NoLoop

\* What changes a settled record without setting a request keeps it settled:
\* the flags of the EAPOL machine, the association, the group, the port, the
\* replay counter and the timers are not read by the invariant.
LEMMA SettledKept ==
    ASSUME NEW m \in WpaStateMachine, NEW mgmt, NEW version,
           MachineInv(m, "out", mgmt, version)
    PROVE  /\ ~m.Init
           /\ LET n == ieee802_1x_free_station(m)
              IN  MachineInv(n, "out", mgmt, version) /\ ~n.Init
           /\ LET n == wpa_sta_disconnect(m)
              IN  MachineInv(n, "out", mgmt, version) /\ ~n.Init
           /\ \A b, c \in BOOLEAN :
                LET n == [m EXCEPT !.keyRun = b, !.keyAvailable = c]
                IN  MachineInv(n, "out", mgmt, version) /\ ~n.Init
           /\ \A g \in Group :
                LET n == [m EXCEPT !.group = g]
                IN  MachineInv(n, "out", mgmt, version) /\ ~n.Init
           /\ LET n == [m EXCEPT !.MICVerified = FALSE]
              IN  MachineInv(n, "out", mgmt, version) /\ ~n.Init
           /\ m.PTK_valid => LET n == VerifyMIC(m)
                             IN  MachineInv(n, "out", mgmt, version) /\ ~n.Init
  <1> USE DEF MachineInv, KeysKept, CountersKept, FrameKept, PlaceKept,
              HoldsNothing, PtkQuiet, GroupQuiet, PtkRequested, WpaStateMachine
  <1>1. ~m.Init
    OBVIOUS
  <1>2. LET n == ieee802_1x_free_station(m)
        IN  MachineInv(n, "out", mgmt, version) /\ ~n.Init
    BY DEF ieee802_1x_free_station
  <1>3. LET n == wpa_sta_disconnect(m)
        IN  MachineInv(n, "out", mgmt, version) /\ ~n.Init
    BY DEF wpa_sta_disconnect
  <1>4. ASSUME NEW b \in BOOLEAN, NEW c \in BOOLEAN
        PROVE  LET n == [m EXCEPT !.keyRun = b, !.keyAvailable = c]
               IN  MachineInv(n, "out", mgmt, version) /\ ~n.Init
    OBVIOUS
  <1>5. ASSUME NEW g \in Group
        PROVE  LET n == [m EXCEPT !.group = g]
               IN  MachineInv(n, "out", mgmt, version) /\ ~n.Init
    OBVIOUS
  <1>6. LET n == [m EXCEPT !.MICVerified = FALSE]
        IN  MachineInv(n, "out", mgmt, version) /\ ~n.Init
    OBVIOUS
  <1>7. ASSUME m.PTK_valid
        PROVE  LET n == VerifyMIC(m)
               IN  MachineInv(n, "out", mgmt, version) /\ ~n.Init
    BY <1>7 DEF VerifyMIC, cancel_eapol_timeout
  <1> QED
    BY <1>1, <1>2, <1>3, <1>4, <1>5, <1>6, <1>7

\* A settled record that is given a request is fit for its loop.
LEMMA RequestKept ==
    ASSUME NEW m \in WpaStateMachine, NEW mgmt, NEW version,
           MachineInv(m, "out", mgmt, version)
    PROVE  /\ LET n == wpa_remove_ptk(m)
              IN  /\ MachineInv(n, "ptk", mgmt, version) /\ ~n.Init /\ ~n.PTK_valid
                  /\ n.EAPOLKey # "PAIRWISE"
           /\ \A g \in Group :
              LET n == [wpa_remove_ptk(m) EXCEPT !.assoc = "assoc", !.group = g]
              IN  /\ MachineInv(n, "ptk", mgmt, version) /\ ~n.Init /\ ~n.PTK_valid
                  /\ n.EAPOLKey # "PAIRWISE"
           /\ LET n == Reauthenticate(m)
              IN  MachineInv(n, "ptk", mgmt, version) /\ ~n.Init
           /\ LET n == Deauthenticate(m)
              IN  /\ MachineInv(n, "ptk", mgmt, version) /\ ~n.Init
                  /\ n.EAPOLKey # "PAIRWISE"
           /\ MachineInv(m, "ptk", mgmt, version)
           /\ m.timers > 0 =>
                LET n == [m EXCEPT !.timers = @ - 1, !.TimeoutEvt = TRUE]
                IN  MachineInv(n, "ptk", mgmt, version) /\ ~n.Init
           /\ LET n == [wpa_request_new_ptk(m) EXCEPT !.rekey_ptk_timer = FALSE]
              IN  MachineInv(n, "ptk", mgmt, version) /\ ~n.Init
  <1> USE ConstantAssumption
          DEF MachineInv, KeysKept, CountersKept, FrameKept, PlaceKept,
              HoldsNothing, PtkQuiet, GroupQuiet, PtkRequested, WpaStateMachine
  <1>1. LET n == wpa_remove_ptk(m)
        IN  /\ MachineInv(n, "ptk", mgmt, version) /\ ~n.Init /\ ~n.PTK_valid
            /\ n.EAPOLKey # "PAIRWISE"
    BY DEF wpa_remove_ptk
  <1>2. ASSUME NEW g \in Group
        PROVE  LET n == [wpa_remove_ptk(m) EXCEPT !.assoc = "assoc", !.group = g]
               IN  /\ MachineInv(n, "ptk", mgmt, version) /\ ~n.Init /\ ~n.PTK_valid
                   /\ n.EAPOLKey # "PAIRWISE"
    BY DEF wpa_remove_ptk
  <1>3. LET n == Reauthenticate(m)
        IN  MachineInv(n, "ptk", mgmt, version) /\ ~n.Init
    BY DEF Reauthenticate
  <1>4. LET n == Deauthenticate(m)
        IN  MachineInv(n, "ptk", mgmt, version) /\ ~n.Init /\ n.EAPOLKey # "PAIRWISE"
    BY DEF Deauthenticate, wpa_remove_ptk, ieee802_1x_free_station
  <1>5. MachineInv(m, "ptk", mgmt, version)
    OBVIOUS
  <1>6. ASSUME m.timers > 0
        PROVE  LET n == [m EXCEPT !.timers = @ - 1, !.TimeoutEvt = TRUE]
               IN  MachineInv(n, "ptk", mgmt, version) /\ ~n.Init
    BY <1>6
  <1>7. LET n == [wpa_request_new_ptk(m) EXCEPT !.rekey_ptk_timer = FALSE]
        IN  MachineInv(n, "ptk", mgmt, version) /\ ~n.Init
    BY DEF wpa_request_new_ptk
  <1> QED
    BY <1>1, <1>2, <1>3, <1>4, <1>5, <1>6, <1>7

\* A frame that wpa_receive accepts is one the next call consumes: message 4/4
\* and message 2/2 are only accepted with a PTK, which verifies them, and there
\* is none while message 2/4 is awaited.
LEMMA FrameAccepted ==
    ASSUME NEW m \in WpaStateMachine, NEW mgmt, NEW version,
           MachineInv(m, "out", mgmt, version),
           NEW kind \in KeyKinds \ Requests, Expected(m, kind),
           NEW n, n = [VerifyMIC(m) EXCEPT
                         !.replay_valid = FALSE,
                         !.EAPOLKey = IF kind = "GROUP_2" THEN "GROUP"
                                      ELSE "PAIRWISE"]
    PROVE  MachineInv(n, "ptk", mgmt, version) /\ ~n.Init
  <1> USE ConstantAssumption
          DEF MachineInv, KeysKept, CountersKept, FrameKept, PlaceKept,
              HoldsNothing, PtkQuiet, GroupQuiet, PtkRequested, WpaStateMachine,
              VerifyMIC, cancel_eapol_timeout
  <1>1. CASE kind = "GROUP_2"
    BY <1>1 DEF Expected, Requests
  <1>2. CASE kind = "PAIRWISE_4"
    BY <1>2 DEF Expected, Requests
  <1>3. CASE kind = "PAIRWISE_2"
    BY <1>3 DEF Expected, Requests
  <1> QED
    BY <1>1, <1>2, <1>3 DEF KeyKinds, Requests

\* wpa_receive.
LEMMA ReceiveLoop ==
    ASSUME TypeOK, LoopInv, NEW s \in STA, wpa_receive(s)
    PROVE  LoopInv'
  <1> DEFINE m == sm[s]
  <1>0. pc = "idle"
    BY DEF wpa_receive, wpa_receive_entropy, wpa_receive_ie_mismatch,
           wpa_receive_bad_mic, wpa_receive_key, wpa_receive_request,
           wpa_receive_request_gtk, Receivable
  <1>1. /\ m \in WpaStateMachine /\ MachineInv(m, "out", KeyMgmt[s], Version[s])
        /\ ~InLoop /\ cont = "none" /\ \A u \in STA : Where(u) = "out"
    BY <1>0, EventStart
  <1>2. CASE wpa_receive_entropy(s) \/ wpa_receive_ie_mismatch(s)
    <2>1. sm' = [sm EXCEPT ![s] = wpa_sta_disconnect(m)] /\ UNCHANGED stack
      BY <1>2 DEF wpa_receive_entropy, wpa_receive_ie_mismatch
    <2> QED
      BY <1>0, <1>1, <2>1, SettledKept, EventNoLoop
  <1>3. ASSUME NEW kind \in KeyKinds, wpa_receive_bad_mic(s, kind)
        PROVE  LoopInv'
    <2>1. /\ sm' = [sm EXCEPT ![s] = [m EXCEPT !.MICVerified = FALSE]]
          /\ UNCHANGED stack
      BY <1>3 DEF wpa_receive_bad_mic
    <2> QED
      BY <1>0, <1>1, <2>1, SettledKept, EventNoLoop
  <1>4. ASSUME NEW kind \in KeyKinds, wpa_receive_key(s, kind)
        PROVE  LoopInv'
    <2> DEFINE n == [VerifyMIC(m) EXCEPT
                       !.replay_valid = FALSE,
                       !.EAPOLKey = IF kind = "GROUP_2" THEN "GROUP"
                                    ELSE "PAIRWISE"]
    <2>1. /\ sm' = [sm EXCEPT ![s] = n] /\ StepLoop(s, "none")
          /\ kind \in KeyKinds \ Requests /\ Expected(m, kind)
      BY <1>4 DEF wpa_receive_key, Receivable
    <2>2. MachineInv(n, "ptk", KeyMgmt[s], Version[s]) /\ ~n.Init
      BY <1>1, <2>1, FrameAccepted
    <2> HIDE DEF n
    <2> QED
      BY <1>0, <2>1, <2>2, EventLoop
  <1>5. ASSUME NEW kind \in KeyKinds, wpa_receive_request(s, kind)
        PROVE  LoopInv'
    <2> DEFINE k == [VerifyMIC(m) EXCEPT !.EAPOLKey = "REQUEST"]
               n == IF kind = "REQ_MAC" THEN k ELSE wpa_request_new_ptk(k)
    <2>1. /\ sm' = [sm EXCEPT ![s] = n] /\ StepLoop(s, "none") /\ m.PTK_valid
      BY <1>5 DEF wpa_receive_request
    <2> HIDE DEF m
    <2>2. MachineInv(n, "ptk", KeyMgmt[s], Version[s]) /\ ~n.Init
      BY <1>1, <2>1, ConstantAssumption DEF VerifyMIC, cancel_eapol_timeout,
         wpa_request_new_ptk, MachineInv, KeysKept, CountersKept, FrameKept,
         PlaceKept, HoldsNothing, PtkQuiet, PtkRequested, WpaStateMachine
    <2> HIDE DEF n
    <2> QED
      BY <1>0, <2>1, <2>2, EventLoop
  <1>6. CASE wpa_receive_request_gtk(s)
    <2> DEFINE n == VerifyMIC(m)
    <2>1. /\ sm'[s] = n /\ m.PTK_valid
          /\ \A u \in STA \ {s} : sm'[u] = sm[u]
          /\ pc' = "rekey" /\ cont' = "recv"
      BY <1>6 DEF wpa_receive_request_gtk, StartRekey, TypeOK
    <2>2. MachineInv(n, "out", KeyMgmt[s], Version[s]) /\ ~n.Init
      BY <1>1, <2>1, SettledKept
    <2> HIDE DEF n
    <2> QED
      BY <1>1, <2>1, <2>2, NoLoop DEF InLoop
  <1> QED
    BY <1>2, <1>3, <1>4, <1>5, <1>6 DEF wpa_receive

\* The events of a station.
LEMMA StationEventLoop ==
    ASSUME TypeOK, LoopInv, NEW s \in STA, StationEvent(s)
    PROVE  LoopInv'
  <1> DEFINE m == sm[s]
  <1>1. ASSUME pc = "idle"
        PROVE  /\ m \in WpaStateMachine /\ MachineInv(m, "out", KeyMgmt[s], Version[s])
               /\ ~m.Init
    BY <1>1, EventStart, SettledKept
  <1>2. CASE handle_assoc(s) \/ ap_handle_timer_remove(s)
    <2>1. PICK a : sm' = [sm EXCEPT ![s] = wpa_auth_sta_init(a)]
      BY <1>2 DEF handle_assoc, ap_handle_timer_remove, wpa_auth_sta_deinit
    <2>2. pc = "idle" /\ UNCHANGED stack
      BY <1>2 DEF handle_assoc, ap_handle_timer_remove
    <2> QED
      BY <2>1, <2>2, StaInitLoop, EventNoLoop
  <1>3. CASE handle_auth(s)
    <2>1. /\ pc = "idle" /\ sm' = [sm EXCEPT ![s] = wpa_remove_ptk(m)]
          /\ StepLoop(s, "none")
      BY <1>3 DEF handle_auth
    <2> QED
      BY <1>1, <2>1, RequestKept, EventLoop
  <1>4. CASE handle_assoc_cb(s)
    <2>1. PICK g \in Group :
          /\ pc = "idle"
          /\ sm' = [sm EXCEPT ![s] = [wpa_remove_ptk(m) EXCEPT !.assoc = "assoc", !.group = g]]
          /\ StepLoop(s, IF Associated(s) THEN "reauth" ELSE "assoc")
      BY <1>4 DEF handle_assoc_cb
    <2> QED
      BY <1>1, <2>1, RequestKept, EventLoop
  <1>5. CASE handle_disassoc(s)
    <2>1. /\ pc = "idle" /\ sm' = [sm EXCEPT ![s] = Deauthenticate(m)]
          /\ StepLoop(s, "none")
      BY <1>5 DEF handle_disassoc
    <2> QED
      BY <1>1, <2>1, RequestKept, EventLoop
  <1>6. CASE handle_deauth(s)
    <2>1. /\ pc = "idle" /\ sm' = [sm EXCEPT ![s] = Deauthenticate(m)]
          /\ StepLoop(s, "free")
      BY <1>6 DEF handle_deauth
    <2> QED
      BY <1>1, <2>1, RequestKept, EventLoop
  <1>7. CASE ap_handle_timer_disassoc(s)
    <2>1. /\ pc = "idle" /\ UNCHANGED stack
          /\ sm' = [sm EXCEPT ![s] = ieee802_1x_free_station(m)]
      BY <1>7 DEF ap_handle_timer_disassoc
    <2> QED
      BY <1>1, <2>1, SettledKept, EventNoLoop
  <1>8. CASE wpa_reauth_eapol(s)
    <2>1. /\ pc = "idle" /\ sm' = [sm EXCEPT ![s] = Reauthenticate(m)]
          /\ StepLoop(s, "none")
      BY <1>8 DEF wpa_reauth_eapol
    <2> QED
      BY <1>1, <2>1, RequestKept, EventLoop
  <1>9. CASE wpa_sm_call_step(s)
    <2>1. /\ pc = "idle" /\ sm' = [sm EXCEPT ![s] = m] /\ StepLoop(s, "none")
      BY <1>9 DEF wpa_sm_call_step, TypeOK
    <2> QED
      BY <1>1, <2>1, RequestKept, EventLoop
  <1>10. ASSUME NEW run \in BOOLEAN, NEW avail \in BOOLEAN, eapol_keyRun(s, run, avail)
         PROVE  LoopInv'
    <2>1. /\ pc = "idle" /\ UNCHANGED stack
          /\ sm' = [sm EXCEPT ![s] = [m EXCEPT !.keyRun = run,
                                               !.keyAvailable = avail]]
      BY <1>10 DEF eapol_keyRun, TypeOK
    <2> QED
      BY <1>1, <2>1, SettledKept, EventNoLoop
  <1>11. ASSUME NEW g \in Group, wpa_auth_sta_set_vlan(s, g)
         PROVE  LoopInv'
    <2>1. /\ pc = "idle" /\ UNCHANGED stack
          /\ sm' = [sm EXCEPT ![s] = [m EXCEPT !.group = g]]
      BY <1>11 DEF wpa_auth_sta_set_vlan, TypeOK
    <2> QED
      BY <1>1, <2>1, SettledKept, EventNoLoop
  <1>12. CASE wpa_send_eapol_timeout(s)
    <2>1. /\ pc = "idle" /\ m.timers > 0 /\ StepLoop(s, "none")
          /\ sm' = [sm EXCEPT ![s] = [m EXCEPT !.timers = @ - 1,
                                               !.TimeoutEvt = TRUE]]
      BY <1>12 DEF wpa_send_eapol_timeout, TypeOK
    <2> QED
      BY <1>1, <2>1, RequestKept, EventLoop
  <1>13. CASE wpa_rekey_ptk(s)
    <2>1. /\ pc = "idle" /\ StepLoop(s, "none")
          /\ sm' = [sm EXCEPT ![s] = [wpa_request_new_ptk(m) EXCEPT
                                        !.rekey_ptk_timer = FALSE]]
      BY <1>13 DEF wpa_rekey_ptk
    <2> QED
      BY <1>1, <2>1, RequestKept, EventLoop
  <1> QED
    BY <1>2, <1>3, <1>4, <1>5, <1>6, <1>7, <1>8, <1>9, <1>10, <1>11, <1>12,
       <1>13, ReceiveLoop DEF StationEvent

-----------------------------------------------------------------------------
(* The theorems.                                                           *)

\* Between events both machines of every station have come to rest: no request
\* is left pending and SM_STEP finds nothing to do, unless EAP has just
\* delivered a PMK, for which wpa_auth_sm_notify has registered a step.
Settled ==
    pc = "idle" => \A s \in STA :
        /\ \/ SM_STEP_WPA_PTK(sm[s], KeyMgmt[s]) = "stay"
           \/ sm[s].keyRun /\ SM_STEP_WPA_PTK(sm[s], KeyMgmt[s]) = "INITPMK"
        /\ SM_STEP_WPA_PTK_GROUP(sm[s], Version[s]) = "stay"

\* LoopInv is an invariant of the authenticator: whatever order associations,
\* departures, frames, timeouts and rekeyings come in, every call in
\* wpa_sm_step's loop finds the record as the calls before it must leave it.
THEOREM LoopCorrect == Spec => []LoopInv
  <1>1. Init => LoopInv
    <2> SUFFICES ASSUME Init PROVE LoopInv
      OBVIOUS
    <2>1. \A s \in STA : sm[s] = wpa_auth_sta_init("none") /\ Where(s) = "out"
      BY DEF Init, Where, InLoop
    <2>2. wpa_auth_sta_init("none").EAPOLKey = "none"
      BY DEF wpa_auth_sta_init
    <2>3. StackInv
      BY <2>1, <2>2, StaInitLoop DEF Init, StackInv, InLoop
    <2> QED
      BY <2>1, <2>3, StaInitLoop DEF LoopInv
  <1>2. TypeOK /\ LoopInv /\ [Next]_vars => LoopInv'
    <2> SUFFICES ASSUME TypeOK, LoopInv, [Next]_vars PROVE LoopInv'
      OBVIOUS
    <2>1. ASSUME NEW s \in STA, Run(s) PROVE LoopInv'
      BY <2>1, PtkLoop, PtkGroupLoop, GsmLoop, ContLoop, UpdateStaLoop DEF Run
    <2>2. ASSUME NEW s \in STA, StationEvent(s) PROVE LoopInv'
      BY <2>2, StationEventLoop
    <2>3. CASE RunRekey
      BY <2>3, RekeyLoop
    <2>4. CASE wpa_rekey_gtk
      <3>1. ~InLoop /\ ~InLoop' /\ pc = "idle" /\ pc' = "rekey" /\ cont' = "none"
            /\ sm' = sm
        BY <2>4 DEF wpa_rekey_gtk, StartRekey, InLoop
      <3> QED
        BY <3>1, NoStation
    <2>5. CASE UNCHANGED vars
      BY <2>5 DEF vars, LoopInv, StackInv, Where, InLoop
    <2> QED
      BY <2>1, <2>2, <2>3, <2>4, <2>5 DEF Next
  <1> QED
    BY <1>1, <1>2, TypeCorrect, PTL DEF Spec

\* No step is lost: when wpa_sm_step's loop ends, and it ends only when neither
\* machine moved, no event that came meanwhile is left for a later call.
THEOREM AlwaysSettled == Spec => []Settled
  <1>1. TypeOK /\ LoopInv => Settled
    <2> SUFFICES ASSUME TypeOK, LoopInv, pc = "idle", NEW s \in STA
                 PROVE  /\ \/ SM_STEP_WPA_PTK(sm[s], KeyMgmt[s]) = "stay"
                           \/ /\ sm[s].keyRun
                              /\ SM_STEP_WPA_PTK(sm[s], KeyMgmt[s]) = "INITPMK"
                        /\ SM_STEP_WPA_PTK_GROUP(sm[s], Version[s]) = "stay"
      BY DEF Settled
    <2> DEFINE m == sm[s]
    <2>1. /\ m \in WpaStateMachine /\ PtkQuiet(m, KeyMgmt[s])
          /\ GroupQuiet(m, Version[s]) /\ m.EAPOLKey \in {"none", "REQUEST"}
      BY EventStart, OutSettled DEF MachineInv, PlaceKept
    <2> HIDE DEF m
    <2>2. \/ SM_STEP_WPA_PTK(m, KeyMgmt[s]) = "stay"
          \/ m.keyRun /\ SM_STEP_WPA_PTK(m, KeyMgmt[s]) = "INITPMK"
      BY <2>1, ConstantAssumption DEF PtkQuiet, SM_STEP_WPA_PTK, PtkInState,
         PtkAwait, WpaStateMachine
    <2>3. SM_STEP_WPA_PTK_GROUP(m, Version[s]) = "stay"
      BY <2>1, ConstantAssumption DEF PtkQuiet, PtkRequested, GroupQuiet,
         SM_STEP_WPA_PTK_GROUP, WpaStateMachine
    <2> QED
      BY <2>2, <2>3 DEF m
  <1> QED
    BY <1>1, TypeCorrect, LoopCorrect, PTL

\* No received key frame outlives the handler that received it.
THEOREM FramesAlwaysConsumed == Spec => []NoStaleKeyFrame
  <1>1. TypeOK /\ LoopInv => NoStaleKeyFrame
    BY EventStart, OutSettled DEF NoStaleKeyFrame
  <1> QED
    BY <1>1, TypeCorrect, LoopCorrect, PTL

\* Neither retry counter passes its limit by more than one, whatever restarts
\* the exchange it counts.
THEOREM RetriesAlwaysBounded == Spec => []RetriesBounded
  <1>1. TypeOK /\ LoopInv => RetriesBounded
    BY ConstantAssumption
       DEF RetriesBounded, TypeOK, WpaStateMachine, LoopInv, MachineInv, CountersKept
  <1> QED
    BY <1>1, TypeCorrect, LoopCorrect, PTL

\* While message 2/4 is awaited no PTK of an earlier handshake is valid.
THEOREM HandshakeStartsWithoutPTK == Spec => []NoOldPTKInNewHandshake
  <1>1. TypeOK /\ LoopInv => NoOldPTKInNewHandshake
    <2> SUFFICES ASSUME TypeOK, LoopInv, NEW s \in STA, pc = "idle",
                        sm[s].wpa_ptk_state \in {"PTKSTART", "PTKCALCNEGOTIATING"}
                 PROVE  ~sm[s].PTK_valid
      BY DEF NoOldPTKInNewHandshake
    <2> QED
      BY EventStart DEF MachineInv, KeysKept, PlaceKept, PtkQuiet
  <1> QED
    BY <1>1, TypeCorrect, LoopCorrect, PTL

\* A station in INITIALIZE holds no key, no mark, no rekeying timeout and, unless
\* 802.1X controls it, no open port, by whichever path it got there.
THEOREM InitializeAlwaysReleases == Spec => []InitializedHoldsNothing
  <1>1. TypeOK /\ LoopInv => InitializedHoldsNothing
    BY DEF InitializedHoldsNothing, LoopInv, MachineInv, KeysKept, HoldsNothing
  <1> QED
    BY <1>1, TypeCorrect, LoopCorrect, PTL

=============================================================================
