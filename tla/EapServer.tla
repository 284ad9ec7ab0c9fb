----------------------------- MODULE EapServer -----------------------------
(***************************************************************************)
(* The EAP authenticator of hostapd (athr-hostap/src/eap_server/           *)
(* eap_server.c): the RFC 4137 full authenticator machine EAP, run for one *)
(* station, either with the integrated EAP server (eap.eap_server) or in   *)
(* pass-through to a RADIUS server.                                        *)
(*                                                                         *)
(* The machine is an operator on a record g: g.eap is struct eap_sm,       *)
(* g.eap_if the struct eap_eapol_interface it shares with the EAPOL        *)
(* machines (module EapolAuth), which decide when it runs.                 *)
(* Of an EAP request only its presence is kept, of a response its type and *)
(* whether its identifier is currentId; what a method makes of a response  *)
(* is a choice.                                                            *)
(* The machine of the RADIUS server (backend_auth) is not modelled.        *)
(***************************************************************************)
EXTENDS Integers, Sequences

CONSTANTS
    UserMethods,          \* methods of the user database entry, in order
    MaxRetrans,           \* sm->MaxRetrans (5)
    RTOInit, RTOMax,      \* retransmission timeouts in seconds (3 and 20)
    EAP_MAX_AUTH_ROUNDS,  \* 50
    MaxEapSteps           \* bound: iterations of eap_server_sm_step

Methods == {UserMethods[i] : i \in DOMAIN UserMethods}

ASSUME EapAssumption ==
    /\ UserMethods \in Seq(Methods)
    /\ {"none", "old", "identity", "nak"} \cap Methods = {}
    /\ MaxRetrans \in Nat /\ EAP_MAX_AUTH_ROUNDS \in Nat
    /\ RTOInit \in Nat \ {0} /\ RTOMax \in Nat \ {0} /\ MaxEapSteps \in Nat

\* eapRespData: none, the type of a response to the last request, or "old", a
\* response whose identifier is not currentId.
Responses == {"old", "identity", "nak"} \cup Methods

EapStates ==
    {"DISABLED", "INITIALIZE", "IDLE", "RECEIVED", "INTEGRITY_CHECK",
     "METHOD_RESPONSE", "METHOD_REQUEST", "PROPOSE_METHOD", "SELECT_ACTION",
     "SEND_REQUEST", "DISCARD", "NAK", "RETRANSMIT", "SUCCESS", "FAILURE",
     "TIMEOUT_FAILURE", "INITIALIZE_PASSTHROUGH", "IDLE2", "RETRANSMIT2",
     "RECEIVED2", "DISCARD2", "SEND_REQUEST2", "AAA_REQUEST", "AAA_RESPONSE",
     "AAA_IDLE", "TIMEOUT_FAILURE2", "FAILURE2", "SUCCESS2"}

EapType ==
    [state : EapStates, changed : BOOLEAN, eap_server : BOOLEAN,
     hasId : BOOLEAN,                               \* currentId # -1
     retransCount : 0 .. MaxRetrans + 1, num_rounds : 0 .. EAP_MAX_AUTH_ROUNDS + 2,
     m : {"none", "identity"} \cup Methods,         \* sm->m and currentMethod
     mState : {"continue", "success", "failure"},   \* isDone() and isSuccess()
     methodState : {"PROPOSED", "CONTINUE", "END"},
     decision : {"FAILURE", "SUCCESS", "CONTINUE", "PASSTHROUGH"},
     method_pending : {"NONE", "WAIT", "CONT"},
     identity : {"none", "known", "unknown"},       \* is it in the user database
     hasUser : BOOLEAN, user : Seq(Methods),        \* sm->user and its methods
     user_eap_method_index : Nat,
     update_user : BOOLEAN, start_reauth : BOOLEAN,
     lastReqData : BOOLEAN]

EapIfType ==
    [portEnabled : BOOLEAN, retransWhile : Nat,
     \* of a buffer: is there data
     eapReq : BOOLEAN, eapNoReq : BOOLEAN, eapReqData : BOOLEAN,
     eapResp : BOOLEAN, eapRespData : Responses \cup {"none"},
     eapSuccess : BOOLEAN, eapFail : BOOLEAN, eapTimeout : BOOLEAN,
     eapRestart : BOOLEAN, eapKeyData : BOOLEAN, eapKeyAvailable : BOOLEAN,
     aaaEapReq : BOOLEAN, aaaEapReqData : BOOLEAN,
     aaaEapResp : BOOLEAN, aaaEapRespData : BOOLEAN,
     aaaSuccess : BOOLEAN, aaaFail : BOOLEAN, aaaEapKeyAvailable : BOOLEAN]

\* eap_server_sm_init: the zeroed machine.
eap_server_sm_init(server) ==
    [state |-> "DISABLED", changed |-> FALSE, eap_server |-> server,
     hasId |-> TRUE, retransCount |-> 0, num_rounds |-> 0,
     m |-> "none", mState |-> "continue", methodState |-> "PROPOSED",
     decision |-> "SUCCESS", method_pending |-> "NONE", identity |-> "none",
     hasUser |-> FALSE, user |-> <<>>, user_eap_method_index |-> 0,
     update_user |-> FALSE, start_reauth |-> FALSE, lastReqData |-> FALSE]

EapIfInit ==
    [portEnabled |-> FALSE, retransWhile |-> 0,
     eapReq |-> FALSE, eapNoReq |-> FALSE, eapReqData |-> FALSE,
     eapResp |-> FALSE, eapRespData |-> "none",
     eapSuccess |-> FALSE, eapFail |-> FALSE, eapTimeout |-> FALSE,
     eapRestart |-> FALSE, eapKeyData |-> FALSE, eapKeyAvailable |-> FALSE,
     aaaEapReq |-> FALSE, aaaEapReqData |-> FALSE,
     aaaEapResp |-> FALSE, aaaEapRespData |-> FALSE,
     aaaSuccess |-> FALSE, aaaFail |-> FALSE, aaaEapKeyAvailable |-> FALSE]

-----------------------------------------------------------------------------
(* Policy and helpers *)

\* Back-off without a hint of the method: doubled for every retransmission.
eap_sm_calculateTimeout(retransCount) ==
    LET rto[i \in 0 .. retransCount] ==
          IF i = 0 THEN RTOInit
          ELSE IF 2 * rto[i - 1] >= RTOMax THEN RTOMax ELSE 2 * rto[i - 1]
    IN rto[retransCount]

\* A Nak leaves, of the methods not proposed yet, those on its list.
eap_sm_process_nak(e, list) ==
    LET kept[n \in 0 .. Len(e.user)] ==
          IF n <= e.user_eap_method_index THEN SubSeq(e.user, 1, n)
          ELSE IF e.user[n] \in list THEN Append(kept[n - 1], e.user[n]) ELSE kept[n - 1]
    IN [e EXCEPT !.user = kept[Len(e.user)]]

MethodLeft(e) == e.hasUser /\ e.user_eap_method_index < Len(e.user)

\* The method to propose, and the machine once it has been chosen.
eap_sm_Policy_getNextMethod(e) ==
    IF e.identity = "none" \/ ~e.hasId
    THEN [e EXCEPT !.m = "identity", !.update_user = TRUE]
    ELSE [e EXCEPT !.m = e.user[e.user_eap_method_index + 1],
                   !.user_eap_method_index = @ + 1]

\* The decision of SELECT_ACTION and the machine it leaves.
eap_sm_Policy_getDecision(e) ==
    LET decide(d, x) == [decision |-> d, eap |-> x]
        reload == (~e.hasUser \/ e.update_user) /\ e.identity # "none" /\ ~e.start_reauth
        loaded == [(IF reload
                    THEN [e EXCEPT !.hasUser = TRUE, !.user = UserMethods,
                                   !.user_eap_method_index = 0, !.update_user = FALSE]
                    ELSE e) EXCEPT !.start_reauth = FALSE]
    IN CASE ~e.eap_server /\ e.identity # "none" /\ ~e.start_reauth ->
              decide("PASSTHROUGH", e)
         [] OTHER ->
              IF e.m \in Methods /\ e.mState = "success"
              THEN decide("SUCCESS", [e EXCEPT !.update_user = TRUE])
              ELSE IF e.m # "none" /\ e.mState = "failure"
              THEN decide("FAILURE", [e EXCEPT !.update_user = TRUE])
              ELSE IF reload /\ e.identity = "unknown"
              THEN decide("FAILURE", [e EXCEPT !.hasUser = FALSE])
              ELSE IF MethodLeft(loaded) \/ e.identity = "none" \/ ~e.hasId
              THEN decide("CONTINUE", loaded)
              ELSE decide("FAILURE", loaded)

-----------------------------------------------------------------------------
(* SM_STEP(EAP): the state it enters, or "stay" *)

EapInState(e, i) ==
    CASE e.state = "INITIALIZE" -> "SELECT_ACTION"
      [] e.state = "DISABLED" -> "INITIALIZE"
      [] e.state = "IDLE" ->
           IF i.retransWhile = 0 THEN "RETRANSMIT"
           ELSE IF i.eapResp THEN "RECEIVED" ELSE "stay"
      [] e.state = "RETRANSMIT" ->
           IF e.retransCount > MaxRetrans THEN "TIMEOUT_FAILURE" ELSE "IDLE"
      [] e.state = "RECEIVED" ->
           IF i.eapRespData = "nak" /\ e.methodState = "PROPOSED" THEN "NAK"
           ELSE IF i.eapRespData = e.m THEN "INTEGRITY_CHECK" ELSE "DISCARD"
      [] e.state \in {"DISCARD", "SEND_REQUEST"} -> "IDLE"
      [] e.state = "INTEGRITY_CHECK" -> "checked"
      [] e.state = "METHOD_REQUEST" -> "SEND_REQUEST"
      [] e.state = "METHOD_RESPONSE" ->
           IF e.methodState = "END" THEN "SELECT_ACTION"
           ELSE IF e.method_pending = "WAIT" THEN "stay"
           ELSE IF e.method_pending = "CONT" THEN "METHOD_RESPONSE"
           ELSE "METHOD_REQUEST"
      [] e.state = "PROPOSE_METHOD" -> "METHOD_REQUEST"
      [] e.state = "NAK" -> "SELECT_ACTION"
      [] e.state = "SELECT_ACTION" ->
           IF e.decision = "PASSTHROUGH" THEN "INITIALIZE_PASSTHROUGH"
           ELSE IF e.decision = "CONTINUE" THEN "PROPOSE_METHOD"
           ELSE e.decision    \* SUCCESS or FAILURE
      [] e.state = "INITIALIZE_PASSTHROUGH" ->
           IF ~e.hasId THEN "AAA_IDLE" ELSE "AAA_REQUEST"
      [] e.state = "IDLE2" ->
           IF i.eapResp THEN "RECEIVED2"
           ELSE IF i.retransWhile = 0 THEN "RETRANSMIT2" ELSE "stay"
      [] e.state = "RETRANSMIT2" ->
           IF e.retransCount > MaxRetrans THEN "TIMEOUT_FAILURE2" ELSE "IDLE2"
      [] e.state = "RECEIVED2" -> 
           IF i.eapRespData \in {"none", "old"} THEN "DISCARD2" ELSE "AAA_REQUEST"
      [] e.state \in {"DISCARD2", "SEND_REQUEST2"} -> "IDLE2"
      [] e.state = "AAA_REQUEST" -> "AAA_IDLE"
      [] e.state = "AAA_RESPONSE" -> "SEND_REQUEST2"
      [] e.state = "AAA_IDLE" ->
           IF i.aaaFail THEN "FAILURE2"
           ELSE IF i.aaaSuccess THEN "SUCCESS2"
           ELSE IF i.aaaEapReq THEN "AAA_RESPONSE" ELSE "stay"
      [] OTHER -> "stay"    \* the final states

\* "checked" leaves it open whether the method ignores the response,
\* "rounds" is the abort after EAP_MAX_AUTH_ROUNDS.
SM_STEP_EAP(e, i) ==
    IF i.eapRestart /\ i.portEnabled THEN "INITIALIZE"
    ELSE IF ~i.portEnabled THEN IF e.state = "DISABLED" THEN "stay" ELSE "DISABLED"
    ELSE IF e.num_rounds = EAP_MAX_AUTH_ROUNDS + 1 THEN "rounds"
    ELSE IF e.num_rounds > EAP_MAX_AUTH_ROUNDS THEN "stay"
    ELSE EapInState(e, i)

-----------------------------------------------------------------------------
(* SM_STATE(EAP, ...): what the body of a state does to g *)

\* eap_copy_buf: a missing source leaves the destination.
eap_copy_buf(dst, src) == dst \/ src

\* A new currentId makes the response at hand an old one.
NewId(g) == [g EXCEPT !.eap_if.eapRespData = IF @ = "none" THEN @ ELSE "old"]

EAP_DISABLED(g) == [g EXCEPT !.eap.num_rounds = 0]

Mutant_initialize_keeps_restart(g) ==
    [NewId(g) EXCEPT !.eap.hasId = FALSE, !.eap.m = "none", !.eap.mState = "continue",
              !.eap.user_eap_method_index = 0, !.eap.num_rounds = 0,
              !.eap.method_pending = "NONE",
              !.eap_if.eapSuccess = FALSE, !.eap_if.eapFail = FALSE,
              !.eap_if.eapTimeout = FALSE,
              !.eap_if.eapKeyData = FALSE, !.eap_if.eapKeyAvailable = FALSE]

Mutant_initialize_keeps_success(g) ==
    [NewId(g) EXCEPT !.eap.hasId = FALSE, !.eap.m = "none", !.eap.mState = "continue",
              !.eap.user_eap_method_index = 0, !.eap.num_rounds = 0,
              !.eap.method_pending = "NONE", !.eap_if.eapFail = FALSE,
              !.eap_if.eapTimeout = FALSE, !.eap_if.eapRestart = FALSE,
              !.eap_if.eapKeyData = FALSE, !.eap_if.eapKeyAvailable = FALSE]

EAP_INITIALIZE(g) ==
    [NewId(g) EXCEPT !.eap.hasId = FALSE, !.eap.m = "none", !.eap.mState = "continue",
              !.eap.user_eap_method_index = 0, !.eap.num_rounds = 0,
              !.eap.method_pending = "NONE",
              !.eap_if.eapSuccess = FALSE, !.eap_if.eapFail = FALSE,
              !.eap_if.eapTimeout = FALSE, !.eap_if.eapRestart = FALSE,
              !.eap_if.eapKeyData = FALSE, !.eap_if.eapKeyAvailable = FALSE]

EAP_IDLE(g) ==
    [g EXCEPT !.eap_if.retransWhile = eap_sm_calculateTimeout(g.eap.retransCount)]

EAP_RETRANSMIT(g) ==
    LET counted == [g EXCEPT !.eap.retransCount = @ + 1]
    IN IF counted.eap.retransCount <= MaxRetrans /\ g.eap.lastReqData
       THEN [counted EXCEPT !.eap_if.eapReqData = TRUE, !.eap_if.eapReq = TRUE]
       ELSE counted

\* The response is parsed where it is used, in EapInState.
EAP_RECEIVED(g) == [g EXCEPT !.eap.num_rounds = @ + 1]

EAP_DISCARD(g) == [g EXCEPT !.eap_if.eapResp = FALSE, !.eap_if.eapNoReq = TRUE]

EAP_SEND_REQUEST(g) ==
    IF g.eap_if.eapReqData
    THEN [g EXCEPT !.eap.retransCount = 0, !.eap.lastReqData = TRUE,
                   !.eap_if.eapResp = FALSE, !.eap_if.eapReq = TRUE]
    ELSE [EAP_DISCARD(g) EXCEPT !.eap.retransCount = 0, !.eap_if.eapReq = FALSE]

\* eap_identity_process stores the identity, which ends the method.
eap_identity_process(g) ==
    {[g EXCEPT !.eap.identity = who, !.eap.update_user = @ \/ g.eap.identity # "none",
               !.eap.mState = "success", !.eap.methodState = "END",
               !.eap_if.eapKeyData = FALSE] : who \in {"known", "unknown"}}

\* What another method may do with a response: go on, wait for pending data,
\* or end, with or without key material.
method_process(g) ==
    {[g EXCEPT !.eap.methodState = "CONTINUE", !.eap.method_pending = p] :
       p \in {g.eap.method_pending, "WAIT"}}
    \cup {[g EXCEPT !.eap.mState = r[1], !.eap.methodState = "END",
                    !.eap_if.eapKeyData = r[2]] :
            r \in {<<"success", TRUE>>, <<"success", FALSE>>, <<"failure", FALSE>>}}

\* A pending method is entered again when its data has arrived.
EAP_METHOD_RESPONSE(g) ==
    LET h == IF g.eap.method_pending = "CONT"
             THEN [g EXCEPT !.eap.method_pending = "NONE"] ELSE g
    IN IF g.eap.m = "identity" THEN eap_identity_process(h) ELSE method_process(h)

\* buildReq may fail; eap_sm_nextId gives the request a new identifier.
EAP_METHOD_REQUEST(g) ==
    {[NewId(g) EXCEPT !.eap.hasId = TRUE, !.eap_if.eapReqData = built] :
       built \in {TRUE} \cup (IF g.eap.m = "identity" THEN {} ELSE {FALSE})}

EAP_PROPOSE_METHOD(g) ==
    LET e == eap_sm_Policy_getNextMethod(g.eap)
    IN [g EXCEPT !.eap = [e EXCEPT !.mState = "continue",
                            !.methodState = IF e.m = "identity" THEN "CONTINUE"
                                            ELSE "PROPOSED"]]

\* list is the list of the Nak; an expanded Nak has none and removes nothing.
EAP_NAK(g) ==
    LET e == [g.eap EXCEPT !.m = "none", !.mState = "continue"]
    IN {[g EXCEPT !.eap = x] :
          x \in {e} \cup {eap_sm_process_nak(e, list) : list \in SUBSET Methods}}

EAP_SELECT_ACTION(g) ==
    LET d == eap_sm_Policy_getDecision(g.eap)
    IN [g EXCEPT !.eap = [d.eap EXCEPT !.decision = d.decision]]

EAP_FAILURE(g) ==
    [g EXCEPT !.eap.lastReqData = FALSE, !.eap_if.eapReqData = TRUE,
              !.eap_if.eapFail = TRUE]

EAP_SUCCESS(g) ==
    [g EXCEPT !.eap.lastReqData = FALSE, !.eap_if.eapReqData = TRUE,
              !.eap_if.eapKeyAvailable = @ \/ g.eap_if.eapKeyData,
              !.eap_if.eapSuccess = TRUE]

EAP_INITIALIZE_PASSTHROUGH(g) == [g EXCEPT !.eap_if.aaaEapRespData = FALSE]

Mutant_timeout_not_reported(g) == g

EAP_TIMEOUT_FAILURE(g) == [g EXCEPT !.eap_if.eapTimeout = TRUE]

EAP_AAA_REQUEST(g) ==
    [g EXCEPT !.eap_if.aaaEapRespData = @ \/ g.eap_if.eapRespData # "none"]

EAP_AAA_IDLE(g) ==
    [g EXCEPT !.eap_if.aaaFail = FALSE, !.eap_if.aaaSuccess = FALSE,
              !.eap_if.aaaEapReq = FALSE, !.eap_if.aaaEapResp = TRUE]

EAP_AAA_RESPONSE(g) ==
    LET req == eap_copy_buf(g.eap_if.eapReqData, g.eap_if.aaaEapReqData)
    IN [NewId(g) EXCEPT !.eap.hasId = req, !.eap_if.eapReqData = req]

EAP_FAILURE2(g) ==
    [g EXCEPT !.eap_if.eapReqData = eap_copy_buf(@, g.eap_if.aaaEapReqData),
              !.eap_if.eapFail = TRUE]

EAP_SUCCESS2(g) ==
    [g EXCEPT !.eap.start_reauth = TRUE,
              !.eap_if.eapReqData = eap_copy_buf(@, g.eap_if.aaaEapReqData),
              !.eap_if.eapKeyAvailable = g.eap_if.aaaEapKeyAvailable,
              !.eap_if.eapKeyData = g.eap_if.aaaEapKeyAvailable,
              !.eap_if.eapSuccess = TRUE]

\* SM_ENTER(EAP, t): the states that the body of t may leave.
EapEnter(g, t) ==
    LET bodies ==
          CASE t = "DISABLED" -> {EAP_DISABLED(g)}
            [] t = "INITIALIZE" -> {EAP_INITIALIZE(g)}
            [] t \in {"IDLE", "IDLE2"} -> {EAP_IDLE(g)}
            [] t \in {"RETRANSMIT", "RETRANSMIT2"} -> {EAP_RETRANSMIT(g)}
            [] t = "RECEIVED" -> {EAP_RECEIVED(g)}
            [] t \in {"DISCARD", "DISCARD2"} -> {EAP_DISCARD(g)}
            [] t \in {"SEND_REQUEST", "SEND_REQUEST2"} -> {EAP_SEND_REQUEST(g)}
            [] t = "METHOD_RESPONSE" -> EAP_METHOD_RESPONSE(g)
            [] t = "METHOD_REQUEST" -> EAP_METHOD_REQUEST(g)
            [] t = "PROPOSE_METHOD" -> {EAP_PROPOSE_METHOD(g)}
            [] t = "NAK" -> EAP_NAK(g)
            [] t = "SELECT_ACTION" -> {EAP_SELECT_ACTION(g)}
            [] t = "FAILURE" -> {EAP_FAILURE(g)}
            [] t = "SUCCESS" -> {EAP_SUCCESS(g)}
            [] t = "INITIALIZE_PASSTHROUGH" -> {EAP_INITIALIZE_PASSTHROUGH(g)}
            [] t \in {"TIMEOUT_FAILURE", "TIMEOUT_FAILURE2"} -> {EAP_TIMEOUT_FAILURE(g)}
            [] t = "AAA_REQUEST" -> {EAP_AAA_REQUEST(g)}
            [] t = "AAA_IDLE" -> {EAP_AAA_IDLE(g)}
            [] t = "AAA_RESPONSE" -> {EAP_AAA_RESPONSE(g)}
            [] t = "FAILURE2" -> {EAP_FAILURE2(g)}
            [] t = "SUCCESS2" -> {EAP_SUCCESS2(g)}
            [] t \in {"RECEIVED2", "INTEGRITY_CHECK"} -> {g}
    IN {[h EXCEPT !.eap.state = t, !.eap.changed = TRUE] : h \in bodies}

\* One iteration of the loop of eap_server_sm_step.
EapStep(g) ==
    LET t == SM_STEP_EAP(g.eap, g.eap_if)
    IN CASE t = "stay" -> {[g EXCEPT !.eap.changed = FALSE]}
         [] t = "rounds" -> EapEnter([g EXCEPT !.eap.num_rounds = @ + 1], "FAILURE")
         [] t = "checked" -> EapEnter(g, "DISCARD") \cup EapEnter(g, "METHOD_RESPONSE")
         [] OTHER -> EapEnter(g, t)

\* eap_server_sm_step runs the machine until nothing changes: the states it
\* may leave.  Its loop is unbounded in the code and cut here after
\* MaxEapSteps iterations; module EapolAuth checks that it never is.
eap_server_sm_step(g) ==
    LET after[n \in 0 .. MaxEapSteps] ==
          IF n = 0 THEN EapStep(g)
          ELSE UNION {IF h.eap.changed THEN EapStep(h) ELSE {h} : h \in after[n - 1]}
    IN after[MaxEapSteps]

=============================================================================
