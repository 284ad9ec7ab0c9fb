--------------------------- MODULE EapolAuthRuns ---------------------------
(***************************************************************************)
(* Every run of eapol_sm_step_run comes to rest, and what it leaves behind *)
(* is right, if the constants leave a run as much room as LongRuns asks.   *)
(*                                                                         *)
(* Linked and the predicates that extend it at the points of a pass tie    *)
(* the state of AUTH_PAE to that of BE_AUTH and of the EAP machine.  Work  *)
(* counts the passes a run may still take: each machine that changes its   *)
(* state lowers it and none raises it.                                     *)
(***************************************************************************)
EXTENDS EapolAuthProofs

-----------------------------------------------------------------------------
(* How the machines are tied to one another.                               *)

Succeeded == {"SUCCESS", "SUCCESS2"}
Failed == {"FAILURE", "FAILURE2"}
TimedOut == {"TIMEOUT_FAILURE", "TIMEOUT_FAILURE2"}

\* States of the EAP machine that belong to pass-through.
PassThrough ==
    {"INITIALIZE_PASSTHROUGH", "IDLE2", "RETRANSMIT2", "RECEIVED2", "DISCARD2",
     "SEND_REQUEST2", "AAA_REQUEST", "AAA_RESPONSE", "AAA_IDLE", "TIMEOUT_FAILURE2",
     "FAILURE2", "SUCCESS2"}

\* The results of BE_AUTH, which it leaves in the next pass, and the states in
\* which it exchanges packets.
Results == {"SUCCESS", "FAIL", "TIMEOUT"}
Exchanging == {"REQUEST", "RESPONSE", "IGNORE"}

Idle(m) == m.be_auth = "IDLE" /\ ~m.authStart

\* AUTH_PAE has something of the EAP machine to authenticate with.
Offered(i) == i.eapReq \/ i.eapSuccess \/ i.eapFail

\* The integrated server and the RADIUS server are not used together; a
\* station is associated as long as its port is enabled.
Wired(g) ==
    /\ g.eap_if.portEnabled <=> g.sta = "assoc"
    /\ g.eap.eap_server = conf.eap_server
    /\ g.awaiting \/ g.eap_if.aaaEapResp => ~conf.eap_server
    /\ conf.eap_server =>
         /\ g.eap.state \notin PassThrough
         /\ g.eap.state = "SELECT_ACTION" => g.eap.decision # "PASSTHROUGH"

\* The signals of the EAP machine agree with its state.
Signals(e, i) ==
    /\ i.eapSuccess => e.state \in Succeeded
    /\ e.state \in Failed => i.eapFail /\ ~i.eapTimeout
    /\ i.eapTimeout => e.state \in Succeeded \cup TimedOut

\* While AUTH_PAE authenticates, the flags that BE_AUTH has set agree with the
\* state it is in, and once it is idle there is one.
Authenticating(m, e) ==
    /\ m.authSuccess => e.state \in Succeeded /\ (m.be_auth = "SUCCESS" \/ Idle(m))
    /\ m.authFail /\ conf.eap_server => m.be_auth \in {"SUCCESS", "FAIL"} \/ Idle(m)
    /\ Idle(m) => m.authSuccess \/ m.authFail \/ m.authTimeout
    /\ m.be_auth = "SUCCESS" => m.authSuccess
    /\ m.be_auth = "FAIL" => m.authFail
    /\ m.be_auth = "TIMEOUT" => m.authTimeout

\* What an enabled port may count on in each state of AUTH_PAE.
Tied(m, e, i) ==
    /\ Signals(e, i)
    /\ i.eapRestart => m.auth_pae = "RESTART"
    /\ m.keyDone \/ m.auth_pae = "AUTHENTICATED" => m.portValid
    /\ m.auth_pae = "HELD" => m.authPortStatus = "Unauthorized"
    /\ m.auth_pae = "DISCONNECTED" => m.reAuthCount = 0
    /\ m.auth_pae = "AUTHENTICATING" => Authenticating(m, e)

\* All of these hold at every point of a run.
Linked(g) ==
    /\ Wired(g)
    /\ g.sm.auth_pae = "AUTHENTICATED" => g.eap.state \in Succeeded
    /\ g.eap_if.portEnabled => Tied(g.sm, g.eap, g.eap_if)

\* The EAP machine between a restart and its first request, the request to the
\* RADIUS server, or the failure of a user that is not known.
Restarted(e, i) ==
    /\ ~i.eapSuccess /\ ~i.eapTimeout /\ (i.eapFail => e.eap_server)
    /\ \/ /\ e.state \in {"INITIALIZE", "SELECT_ACTION"}
          /\ e.num_rounds = 0 /\ ~i.eapFail /\ e.m = "none" /\ ~e.hasId
          /\ e.state = "SELECT_ACTION" =>
               e.decision # "SUCCESS" /\ (e.decision = "FAILURE" => e.eap_server)
       \/ /\ e.state \in {"PROPOSE_METHOD", "METHOD_REQUEST"}
          /\ e.num_rounds = 0 /\ ~i.eapFail
       \/ /\ e.state \in {"SEND_REQUEST", "IDLE"}
          /\ e.num_rounds = 0 /\ ~i.eapFail /\ ~i.eapResp
          /\ e.state = "IDLE" => i.retransWhile > 0
       \/ /\ e.state = "INITIALIZE_PASSTHROUGH"
          /\ e.num_rounds = 0 /\ ~i.eapFail /\ ~e.hasId
       \/ /\ e.state = "AAA_IDLE"
          /\ e.num_rounds = 0 /\ ~i.eapFail
          /\ ~i.aaaFail /\ ~i.aaaSuccess /\ ~i.aaaEapReq
       \/ e.state = "FAILURE" /\ e.eap_server /\ i.eapFail

\* Before a pass, with the port enabled.
Between(m, e, i) ==
    /\ m.auth_pae = "RESTART" /\ ~i.eapRestart =>
         m.be_auth \notin Results /\ Restarted(e, i)
    /\ m.auth_pae = "CONNECTING" /\ Offered(i) =>
         m.be_auth \notin Results /\ (m.be_auth = "RESPONSE" => m.aWhile > 0)
    /\ m.be_auth = "INITIALIZE" => m.auth_pae = "ABORTING"
    /\ conf.eap_server /\ m.be_auth \in Exchanging => m.auth_pae = "AUTHENTICATING"
    /\ conf.eap_server /\ m.authStart => m.auth_pae = "AUTHENTICATING" \/ m.be_auth = "INITIALIZE"

BeforePass(g) ==
    /\ Linked(g) /\ ~g.sm.authAbort
    /\ g.eap.num_rounds # EAP_MAX_AUTH_ROUNDS + 1
    /\ g.eap_if.portEnabled => Between(g.sm, g.eap, g.eap_if)

\* After AUTH_PAE and before BE_AUTH, with the port enabled.
Midway(m, e, i) ==
    /\ m.auth_pae = "RESTART" => i.eapRestart
    /\ m.auth_pae = "CONNECTING" /\ Offered(i) =>
         /\ m.be_auth \notin Results
         /\ ~i.eapSuccess /\ ~i.eapTimeout /\ (i.eapFail => conf.eap_server)
    /\ m.be_auth = "INITIALIZE" => m.auth_pae \in {"ABORTING", "RESTART", "DISCONNECTED"}
    /\ conf.eap_server /\ m.be_auth \in Exchanging =>
         m.auth_pae = "AUTHENTICATING" \/ m.authAbort
    /\ conf.eap_server /\ m.authStart =>
         \/ m.auth_pae = "AUTHENTICATING" \/ m.authAbort
         \/ m.be_auth \in Results \cup {"INITIALIZE"}

AfterPae(g) ==
    /\ Linked(g)
    /\ g.sm.authAbort => g.eap_if.portEnabled /\ g.sm.auth_pae = "ABORTING"
    /\ g.eap.num_rounds # EAP_MAX_AUTH_ROUNDS + 1
    /\ g.eap_if.portEnabled => Midway(g.sm, g.eap, g.eap_if)

\* While the EAP machine runs: the port machines rest.
PortRests(g) ==
    /\ Linked(g) /\ ~g.sm.authAbort
    /\ g.eap.num_rounds = EAP_MAX_AUTH_ROUNDS + 1 => g.eap.state = "RECEIVED"
    /\ g.sm.be_auth \notin Results \cup {"INITIALIZE"}
    /\ g.sm.be_auth = "RESPONSE" => g.sm.aWhile > 0
    /\ g.sm.auth_pae \notin {"DISCONNECTED", "ABORTING"}
    /\ g.eap_if.portEnabled <=> g.sm.auth_pae # "INITIALIZE"
    /\ g.eap_if.portEnabled =>
         /\ g.sm.auth_pae = "RESTART" /\ ~g.eap_if.eapRestart => Restarted(g.eap, g.eap_if)
         /\ conf.eap_server /\ g.sm.be_auth \in Exchanging => g.sm.auth_pae = "AUTHENTICATING"
         /\ conf.eap_server /\ g.sm.authStart => g.sm.auth_pae = "AUTHENTICATING"

\* Between events.
Settled(g) ==
    /\ BeforePass(g)
    /\ g.eap_if.portEnabled =>
         /\ g.sm.auth_pae # "RESTART"
         /\ g.sm.auth_pae = "CONNECTING" => ~Offered(g.eap_if)
         /\ g.eap.state \in Failed =>
              g.sm.authPortStatus # "Authorized" \/ g.sm.be_auth \in {"REQUEST", "IGNORE"}

-----------------------------------------------------------------------------
(* How many passes a run may still take.                                   *)

\* What the EAP machine does next.
EapMoves(g) == IF SM_STEP_EAP(g.eap, g.eap_if) = "stay" THEN 0 ELSE 1

\* What BE_AUTH has left to do.
BeWork(m) ==
    (CASE m.be_auth = "IDLE" -> IF m.authStart THEN 5 ELSE 0
       [] m.be_auth = "REQUEST" -> 4
       [] m.be_auth = "IGNORE" -> 5
       [] m.be_auth = "RESPONSE" -> 6
       [] OTHER -> 1)
    + (IF m.eapolEap THEN 4 ELSE 0)

\* What REAUTH_TIMER has left to do, a re-authentication included.
TimerWork(m) ==
    IF m.reauth_timer = "REAUTHENTICATE" THEN 1
    ELSE IF m.reAuthWhen = 0 /\ conf.eap_reauth_period # 0 THEN 18 ELSE 0

\* How far AUTH_PAE is from a state in which it rests.
PaeWork(m, i) ==
    CASE m.auth_pae = "INITIALIZE" -> 11
      [] m.auth_pae = "DISCONNECTED" -> 10
      [] m.auth_pae = "RESTART" -> IF m.reAuthCount < reAuthMax THEN 8 ELSE 12
      [] m.auth_pae = "CONNECTING" -> IF m.reAuthCount <= reAuthMax THEN 7 ELSE 11
      [] m.auth_pae = "AUTHENTICATING" -> 1
      [] m.auth_pae = "AUTHENTICATED" -> 0
      [] m.auth_pae = "ABORTING" ->
           IF ~m.authAbort THEN 14 ELSE IF i.eapTimeout THEN 0 ELSE 16
      [] m.auth_pae = "HELD" -> IF m.quietWhile = 0 THEN 14 ELSE 0

\* A new authentication is due, which is asked for once: the flags are cleared
\* on the way to it.
StartsOver(m, i) ==
    \/ m.auth_pae \in {"CONNECTING", "AUTHENTICATING", "AUTHENTICATED"} /\ m.reAuthenticate
    \/ /\ m.auth_pae \in {"AUTHENTICATING", "AUTHENTICATED"}
       /\ m.eapolStart \/ m.eapolLogoff
    \/ /\ m.auth_pae = "AUTHENTICATING" /\ ~i.eapTimeout
       /\ m.authTimeout \/ (m.be_auth = "RESPONSE" /\ m.aWhile = 0)

PortWork(m, i) ==
    IF i.portEnabled
    THEN 4 + PaeWork(m, i) + (IF StartsOver(m, i) THEN 16 ELSE 0)
           + (IF m.eapolLogoff THEN 4 ELSE 0)
    ELSE IF m.auth_pae = "INITIALIZE" THEN 0 ELSE 1

Work(g) ==
    EapMoves(g) + BeWork(g.sm) + TimerWork(g.sm) + PortWork(g.sm, g.eap_if)

-----------------------------------------------------------------------------
(* The fields that a step of each machine changes.                         *)

\* The fields of the interface that the port machines leave alone.
Kin(i, j) ==
    /\ j.retransWhile = i.retransWhile /\ j.eapSuccess = i.eapSuccess
    /\ j.eapFail = i.eapFail /\ j.eapTimeout = i.eapTimeout
    /\ j.aaaEapReq = i.aaaEapReq /\ j.aaaSuccess = i.aaaSuccess
    /\ j.aaaFail = i.aaaFail /\ j.aaaEapResp = i.aaaEapResp

\* The fields of the port that AUTH_PAE sets, from m to n.
PaeFields(m, n) ==
    LET into(s) == n.auth_pae = s /\ m.auth_pae # s
    IN /\ n.be_auth = m.be_auth /\ n.reauth_timer = m.reauth_timer
       /\ n.portValid = m.portValid /\ n.eapolEap = m.eapolEap
       /\ n.aWhile = m.aWhile /\ n.reAuthWhen = m.reAuthWhen
       /\ n.authPortStatus = IF into("DISCONNECTED") \/ into("HELD") THEN "Unauthorized"
                             ELSE IF into("AUTHENTICATED") THEN "Authorized"
                             ELSE m.authPortStatus
       /\ n.eapolStart <=> m.eapolStart /\ ~into("AUTHENTICATING")
       /\ n.eapolLogoff <=> m.eapolLogoff /\ ~into("DISCONNECTED") /\ ~into("HELD")
       /\ n.authStart <=> m.authStart \/ into("AUTHENTICATING")
       /\ n.authAbort <=> m.authAbort \/ into("ABORTING")
       /\ n.authSuccess <=> m.authSuccess /\ ~into("AUTHENTICATING")
       /\ n.authFail <=> m.authFail /\ ~into("AUTHENTICATING")
       /\ n.authTimeout <=> m.authTimeout /\ ~into("AUTHENTICATING")
       /\ n.reAuthenticate <=> m.reAuthenticate /\ ~into("CONNECTING")
       /\ n.reAuthCount = IF into("DISCONNECTED") \/ into("AUTHENTICATED") THEN 0
                          ELSE IF into("CONNECTING") THEN m.reAuthCount + 1
                          ELSE m.reAuthCount
       /\ n.keyDone <=> m.keyDone /\ ~into("AUTHENTICATING") /\ ~into("ABORTING")
       /\ n.quietWhile = IF into("HELD") THEN quietPeriod ELSE m.quietWhile

PaeEffect(g, h) ==
    /\ h.eap = g.eap /\ h.sta = g.sta /\ h.awaiting = g.awaiting /\ h.hist.cut = g.hist.cut
    /\ h.sm.auth_pae = IF g.eap_if.portEnabled THEN PaeInState(g.sm, g.eap_if)
                       ELSE "INITIALIZE"
    /\ PaeFields(g.sm, h.sm) /\ Kin(g.eap_if, h.eap_if)
    /\ h.eap_if.portEnabled = g.eap_if.portEnabled /\ h.eap_if.eapReq = g.eap_if.eapReq
    /\ h.eap_if.eapResp = g.eap_if.eapResp
    /\ h.eap_if.eapRestart <=> \/ g.eap_if.eapRestart
                               \/ h.sm.auth_pae = "RESTART" /\ g.sm.auth_pae # "RESTART"

\* The assignments of the bodies of AUTH_PAE, as records.
LEMMA PaeRecords ==
    ASSUME NEW m \in PortType, NEW t \in {"INITIALIZE", "DISCONNECTED", "RESTART", "CONNECTING",
                    "AUTHENTICATING", "AUTHENTICATED", "ABORTING", "HELD"}, NEW n
    PROVE  /\ n = [m EXCEPT !.auth_pae = t]
              /\ (t \in {m.auth_pae, "INITIALIZE"} \/ t = "RESTART") => PaeFields(m, n)
           /\ n = [m EXCEPT !.authPortStatus = "Unauthorized", !.reAuthCount = 0,
                            !.eapolLogoff = FALSE, !.auth_pae = t]
              /\ t # m.auth_pae /\ t = "DISCONNECTED" => PaeFields(m, n)
           /\ n = [m EXCEPT !.reAuthenticate = FALSE, !.reAuthCount = @ + 1, !.auth_pae = t]
              /\ t # m.auth_pae /\ t = "CONNECTING" => PaeFields(m, n)
           /\ n = [m EXCEPT !.authPortStatus = "Unauthorized", !.quietWhile = quietPeriod,
                            !.eapolLogoff = FALSE, !.auth_pae = t]
              /\ t # m.auth_pae /\ t = "HELD" => PaeFields(m, n)
           /\ n = [m EXCEPT !.authPortStatus = "Authorized", !.reAuthCount = 0, !.auth_pae = t]
              /\ t # m.auth_pae /\ t = "AUTHENTICATED" => PaeFields(m, n)
           /\ n = [m EXCEPT !.eapolStart = FALSE, !.authSuccess = FALSE,
                     !.authFail = FALSE, !.authTimeout = FALSE, !.authStart = TRUE,
                     !.keyRun = FALSE, !.keyDone = FALSE, !.auth_pae = t]
              /\ t # m.auth_pae /\ t = "AUTHENTICATING" => PaeFields(m, n)
           /\ n = [m EXCEPT !.authAbort = TRUE, !.keyRun = FALSE, !.keyDone = FALSE,
                            !.auth_pae = t]
              /\ t # m.auth_pae /\ t = "ABORTING" => PaeFields(m, n)
  <1>1. n = [m EXCEPT !.auth_pae = t]
          /\ (t \in {m.auth_pae, "INITIALIZE"} \/ t = "RESTART") => PaeFields(m, n)
    BY DEF PortType, PaeFields
  <1>2. n = [m EXCEPT !.authPortStatus = "Unauthorized", !.reAuthCount = 0,
                      !.eapolLogoff = FALSE, !.auth_pae = t]
          /\ t # m.auth_pae /\ t = "DISCONNECTED" => PaeFields(m, n)
    BY DEF PortType, PaeFields
  <1>3. n = [m EXCEPT !.reAuthenticate = FALSE, !.reAuthCount = @ + 1, !.auth_pae = t]
          /\ t # m.auth_pae /\ t = "CONNECTING" => PaeFields(m, n)
    BY DEF PortType, PaeFields
  <1>4. n = [m EXCEPT !.authPortStatus = "Unauthorized", !.quietWhile = quietPeriod,
                      !.eapolLogoff = FALSE, !.auth_pae = t]
          /\ t # m.auth_pae /\ t = "HELD" => PaeFields(m, n)
    BY DEF PortType, PaeFields
  <1>5. n = [m EXCEPT !.authPortStatus = "Authorized", !.reAuthCount = 0, !.auth_pae = t]
          /\ t # m.auth_pae /\ t = "AUTHENTICATED" => PaeFields(m, n)
    BY DEF PortType, PaeFields
  <1>6. n = [m EXCEPT !.eapolStart = FALSE, !.authSuccess = FALSE,
                     !.authFail = FALSE, !.authTimeout = FALSE, !.authStart = TRUE,
                     !.keyRun = FALSE, !.keyDone = FALSE, !.auth_pae = t]
          /\ t # m.auth_pae /\ t = "AUTHENTICATING" => PaeFields(m, n)
    BY DEF PortType, PaeFields
  <1>7. n = [m EXCEPT !.authAbort = TRUE, !.keyRun = FALSE, !.keyDone = FALSE,
                      !.auth_pae = t]
          /\ t # m.auth_pae /\ t = "ABORTING" => PaeFields(m, n)
    BY DEF PortType, PaeFields
  <1> QED
    BY <1>1, <1>2, <1>3, <1>4, <1>5, <1>6, <1>7
\* h is g with sm and eap_if replaced, and hist.left and pmksa as they may be.
PaeStores(g, h, n, j) ==
    /\ h.eap = g.eap /\ h.sta = g.sta /\ h.awaiting = g.awaiting /\ h.hist.cut = g.hist.cut
    /\ h.sm = n /\ h.eap_if = j

\* A step of AUTH_PAE.
LEMMA PaeStep ==
    ASSUME NEW g, Typed(g)
    PROVE  PaeEffect(g, AUTH_PAE(g))
  <1> DEFINE m == g.sm
             i == g.eap_if
             a == m.auth_pae
             t == IF i.portEnabled THEN PaeInState(m, i) ELSE "INITIALIZE"
             h == AUTH_PAE(g)
             E == CASE t = a \/ t = "INITIALIZE" -> g
                    [] t # a /\ t = "DISCONNECTED" -> PAE_DISCONNECTED(g)
                    [] t # a /\ t = "RESTART" -> PAE_RESTART(g)
                    [] t # a /\ t = "CONNECTING" -> PAE_CONNECTING(g)
                    [] t # a /\ t = "HELD" -> PAE_HELD(g)
                    [] t # a /\ t = "AUTHENTICATED" -> PAE_AUTHENTICATED(g)
                    [] t # a /\ t = "AUTHENTICATING" -> PAE_AUTHENTICATING(g)
                    [] t # a /\ t = "ABORTING" -> PAE_ABORTING(g)
  <1>1. DOMAIN g = Fields /\ m \in PortType /\ i \in EapIfType /\ g.hist \in HistType
    BY PartsOf
  <1>2. t \in {"INITIALIZE", "DISCONNECTED", "RESTART", "CONNECTING", "AUTHENTICATING",
               "AUTHENTICATED", "ABORTING", "HELD"}
    BY <1>1, PaeTarget
  <1>3. h = [E EXCEPT !.sm.auth_pae = t,
                      !.hist.left = @ \/ (a = "AUTHENTICATING" /\ t # "AUTHENTICATING")]
    BY DEF AUTH_PAE
  <1> HIDE DEF t, a
  <1>4. \/ E = g /\ t \in {a, "INITIALIZE"}
        \/ E = PAE_DISCONNECTED(g) /\ t # a /\ t = "DISCONNECTED"
        \/ E = PAE_RESTART(g) /\ t # a /\ t = "RESTART"
        \/ E = PAE_CONNECTING(g) /\ t # a /\ t = "CONNECTING"
        \/ E = PAE_HELD(g) /\ t # a /\ t = "HELD"
        \/ E = PAE_AUTHENTICATED(g) /\ t # a /\ t = "AUTHENTICATED"
        \/ E = PAE_AUTHENTICATING(g) /\ t # a /\ t = "AUTHENTICATING"
        \/ E = PAE_ABORTING(g) /\ t # a /\ t = "ABORTING"
    BY <1>2
  <1> HIDE DEF E, h
  <1>5. SUFFICES \E n, j : /\ PaeStores(g, h, n, j) /\ PaeFields(m, n) /\ n.auth_pae = t
                           /\ \/ j = i /\ ~(t = "RESTART" /\ a # "RESTART")
                              \/ j = [i EXCEPT !.eapRestart = TRUE] /\ t = "RESTART" /\ a # "RESTART"
    <2>1. PICK n, j : /\ PaeStores(g, h, n, j) /\ PaeFields(m, n) /\ n.auth_pae = t
                      /\ \/ j = i /\ ~(t = "RESTART" /\ a # "RESTART")
                         \/ j = [i EXCEPT !.eapRestart = TRUE] /\ t = "RESTART" /\ a # "RESTART"
      BY <1>5
    <2>2. /\ Kin(i, j) /\ j.portEnabled = i.portEnabled /\ j.eapReq = i.eapReq
          /\ j.eapResp = i.eapResp
          /\ j.eapRestart <=> i.eapRestart \/ (t = "RESTART" /\ a # "RESTART")
      BY <1>1, <2>1 DEF Kin, EapIfType
    <2> QED
      BY <2>1, <2>2 DEF PaeStores, PaeEffect, h, t, a
  <1>6. CASE E = g /\ t \in {a, "INITIALIZE"}
    <2>1. PaeStores(g, h, [m EXCEPT !.auth_pae = t], i)
      BY <1>1, <1>3, <1>6 DEF PaeStores, Fields, HistType
    <2>2. [m EXCEPT !.auth_pae = t].auth_pae = t
      BY <1>1 DEF PortType
    <2> QED
      BY <1>1, <1>2, <1>6, <2>1, <2>2, PaeRecords DEF a
  <1>7. CASE E = PAE_DISCONNECTED(g) /\ t # a /\ t = "DISCONNECTED"
    <2> DEFINE n == [m EXCEPT !.authPortStatus = "Unauthorized", !.reAuthCount = 0,
                              !.eapolLogoff = FALSE, !.auth_pae = t]
    <2>1. PaeStores(g, h, n, i)
      BY <1>1, <1>3, <1>7 DEF PaeStores, Fields, HistType, PAE_DISCONNECTED
    <2>2. n.auth_pae = t
      BY <1>1 DEF PortType
    <2> QED
      BY <1>1, <1>2, <1>7, <2>1, <2>2, PaeRecords DEF a
  <1>8. CASE E = PAE_RESTART(g) /\ t # a /\ t = "RESTART"
    <2> DEFINE n == [m EXCEPT !.auth_pae = t]
               j == [i EXCEPT !.eapRestart = TRUE]
    <2>1. PaeStores(g, h, n, j)
      BY <1>1, <1>3, <1>8 DEF PaeStores, Fields, HistType, PAE_RESTART
    <2>2. n.auth_pae = t
      BY <1>1 DEF PortType
    <2>3. PaeFields(m, n)
      BY <1>1, <1>2, <1>8, PaeRecords DEF a
    <2>4. j = [i EXCEPT !.eapRestart = TRUE]
      OBVIOUS
    <2> HIDE DEF n, j
    <2> QED
      BY <1>8, <2>1, <2>2, <2>3, <2>4
  <1>9. CASE E = PAE_CONNECTING(g) /\ t # a /\ t = "CONNECTING"
    <2> DEFINE n == [m EXCEPT !.reAuthenticate = FALSE, !.reAuthCount = @ + 1, !.auth_pae = t]
    <2>1. PaeStores(g, h, n, i)
      BY <1>1, <1>3, <1>9 DEF PaeStores, Fields, HistType, PAE_CONNECTING
    <2>2. n.auth_pae = t
      BY <1>1 DEF PortType
    <2> QED
      BY <1>1, <1>2, <1>9, <2>1, <2>2, PaeRecords DEF a
  <1>10. CASE E = PAE_HELD(g) /\ t # a /\ t = "HELD"
    <2> DEFINE n == [m EXCEPT !.authPortStatus = "Unauthorized", !.quietWhile = quietPeriod,
                              !.eapolLogoff = FALSE, !.auth_pae = t]
    <2>1. PaeStores(g, h, n, i)
      BY <1>1, <1>3, <1>10 DEF PaeStores, Fields, HistType, PAE_HELD
    <2>2. n.auth_pae = t
      BY <1>1 DEF PortType
    <2> QED
      BY <1>1, <1>2, <1>10, <2>1, <2>2, PaeRecords DEF a
  <1>11. CASE E = PAE_AUTHENTICATED(g) /\ t # a /\ t = "AUTHENTICATED"
    <2> DEFINE n == [m EXCEPT !.authPortStatus = "Authorized", !.reAuthCount = 0,
                              !.auth_pae = t]
    <2>1. PaeStores(g, h, n, i)
      BY <1>1, <1>3, <1>11 DEF PaeStores, Fields, HistType, PAE_AUTHENTICATED
    <2>2. n.auth_pae = t
      BY <1>1 DEF PortType
    <2> QED
      BY <1>1, <1>2, <1>11, <2>1, <2>2, PaeRecords DEF a
  <1>12. CASE E = PAE_AUTHENTICATING(g) /\ t # a /\ t = "AUTHENTICATING"
    <2> DEFINE n == [m EXCEPT !.eapolStart = FALSE, !.authSuccess = FALSE,
                     !.authFail = FALSE, !.authTimeout = FALSE, !.authStart = TRUE,
                     !.keyRun = FALSE, !.keyDone = FALSE, !.auth_pae = t]
    <2>1. PaeStores(g, h, n, i)
      BY <1>1, <1>3, <1>12 DEF PaeStores, Fields, HistType, PAE_AUTHENTICATING
    <2>2. n.auth_pae = t
      BY <1>1 DEF PortType
    <2> QED
      BY <1>1, <1>2, <1>12, <2>1, <2>2, PaeRecords DEF a
  <1>13. CASE E = PAE_ABORTING(g) /\ t # a /\ t = "ABORTING"
    <2> DEFINE n == [m EXCEPT !.authAbort = TRUE, !.keyRun = FALSE, !.keyDone = FALSE,
                              !.auth_pae = t]
    <2>1. PaeStores(g, h, n, i)
      BY <1>1, <1>3, <1>13 DEF PaeStores, Fields, HistType, PAE_ABORTING
    <2>2. n.auth_pae = t
      BY <1>1 DEF PortType
    <2> QED
      BY <1>1, <1>2, <1>13, <2>1, <2>2, PaeRecords DEF a
  <1> QED
    BY <1>4, <1>6, <1>7, <1>8, <1>9, <1>10, <1>11, <1>12, <1>13


\* The states of BE_AUTH.
BeStates == {"INITIALIZE", "REQUEST", "RESPONSE", "SUCCESS", "FAIL", "TIMEOUT", "IDLE", "IGNORE"}

\* The fields of the port that BE_AUTH sets when it enters u, from m to n.
BeFields(m, n, u) ==
    /\ n.auth_pae = m.auth_pae /\ n.reauth_timer = m.reauth_timer
    /\ n.authPortStatus = m.authPortStatus /\ n.portValid = m.portValid
    /\ n.eapolStart = m.eapolStart /\ n.eapolLogoff = m.eapolLogoff
    /\ n.reAuthenticate = m.reAuthenticate /\ n.reAuthCount = m.reAuthCount
    /\ n.keyDone = m.keyDone /\ n.quietWhile = m.quietWhile /\ n.reAuthWhen = m.reAuthWhen
    /\ n.authAbort <=> m.authAbort /\ u # "INITIALIZE"
    /\ n.eapolEap <=> m.eapolEap /\ u # "REQUEST" /\ u # "RESPONSE"
    /\ n.authTimeout <=> (m.authTimeout /\ u # "RESPONSE") \/ u = "TIMEOUT"
    /\ n.authSuccess <=> m.authSuccess \/ u = "SUCCESS"
    /\ n.authFail <=> m.authFail \/ u = "FAIL"
    /\ n.authStart <=> m.authStart /\ u # "IDLE"
    /\ n.aWhile = IF u = "RESPONSE" THEN serverTimeout ELSE m.aWhile

\* The fields of the interface, portEnabled excepted.
BeSignals(i, j, u) ==
    /\ Kin(i, j) /\ j.eapRestart = i.eapRestart
    /\ j.eapReq <=> i.eapReq /\ u # "REQUEST"
    /\ j.eapResp <=> i.eapResp \/ u = "RESPONSE"

\* A station that has not answered loses its port.
BeMoved(g, h, u) ==
    /\ h.eap = g.eap /\ h.awaiting = g.awaiting /\ h.hist.cut = g.hist.cut
    /\ BeFields(g.sm, h.sm, u) /\ BeSignals(g.eap_if, h.eap_if, u)
    /\ IF u = "INITIALIZE" /\ g.eap_if.eapTimeout
       THEN h.eap_if.portEnabled = FALSE /\ h.sta = "removing"
       ELSE h.eap_if.portEnabled = g.eap_if.portEnabled /\ h.sta = g.sta

\* A step of BE_AUTH.  RESPONSE may be left for IGNORE on the way.
BeEffect(g, h) ==
    LET t == SM_STEP_BE_AUTH(g.sm, g.eap_if)
    IN  /\ BeMoved(g, h, t)
        /\ t # "stay" => h.sm.be_auth = t
        /\ t = "stay" => \/ h.sm.be_auth = g.sm.be_auth
                         \/ g.sm.be_auth = "RESPONSE" /\ h.sm.be_auth = "IGNORE"

\* h is g with sm and eap_if replaced, and hist.fresh and hist.stale as they may be.
BeStores(g, h, n, j) ==
    /\ h.eap = g.eap /\ h.awaiting = g.awaiting /\ h.hist.cut = g.hist.cut
    /\ h.sm = n /\ h.eap_if = j

\* Entering a state of BE_AUTH.
LEMMA BeEnters ==
    ASSUME NEW g, Typed(g), NEW u \in BeStates
    PROVE  BeMoved(g, BeEnter(g, u), u) /\ BeEnter(g, u).sm.be_auth = u
  <1> DEFINE m == g.sm
             i == g.eap_if
             h == BeEnter(g, u)
             goal == BeMoved(g, h, u) /\ h.sm.be_auth = u
  <1>1. DOMAIN g = Fields /\ m \in PortType /\ i \in EapIfType /\ g.hist \in HistType
    BY PartsOf
  <1>2. ASSUME NEW n, NEW j, BeStores(g, h, n, j), BeFields(m, n, u), n.be_auth = u,
               BeSignals(i, j, u), j.portEnabled = i.portEnabled, h.sta = g.sta,
               ~(u = "INITIALIZE" /\ i.eapTimeout)
        PROVE  goal
    <2> HIDE DEF h
    <2> QED
      BY <1>2 DEF BeStores, BeMoved
  <1>3. CASE u = "INITIALIZE" /\ ~i.eapTimeout
    <2> DEFINE n == [m EXCEPT !.authAbort = FALSE, !.be_auth = u]
               j == [i EXCEPT !.eapNoReq = FALSE]
    <2>1. BeStores(g, h, n, j) /\ h.sta = g.sta
      BY <1>1, <1>3 DEF BeStores, Fields, HistType, BeEnter, BE_INITIALIZE
    <2>3. BeSignals(i, j, u) /\ j.portEnabled = i.portEnabled
      BY <1>1, <1>3 DEF BeSignals, Kin, EapIfType
    <2>4. n = [m EXCEPT !.authAbort = FALSE, !.be_auth = u]
      OBVIOUS
    <2> HIDE DEF m, n, j, h
    <2>2. BeFields(m, n, u) /\ n.be_auth = u
      BY <1>1, <1>3, <2>4 DEF PortType, BeFields
    <2> QED
      BY <1>2, <1>3, <2>1, <2>2, <2>3 DEF h, m
  <1>4. CASE u = "INITIALIZE" /\ i.eapTimeout
    <2> DEFINE n == [m EXCEPT !.authAbort = FALSE, !.be_auth = u]
               j == [i EXCEPT !.eapNoReq = FALSE, !.portEnabled = FALSE]
    <2>1. BeStores(g, h, n, j) /\ h.sta = "removing"
      BY <1>1, <1>4 DEF BeStores, Fields, HistType, BeEnter, BE_INITIALIZE, ap_sta_disconnect
    <2>3. BeSignals(i, j, u) /\ j.portEnabled = FALSE
      BY <1>1, <1>4 DEF BeSignals, Kin, EapIfType
    <2>4. n = [m EXCEPT !.authAbort = FALSE, !.be_auth = u]
      OBVIOUS
    <2> HIDE DEF m, n, j, h
    <2>2. BeFields(m, n, u) /\ n.be_auth = u
      BY <1>1, <1>4, <2>4 DEF PortType, BeFields
    <2> QED
      BY <1>4, <2>1, <2>2, <2>3 DEF BeStores, BeMoved, h, m
  <1>5. CASE u = "REQUEST"
    <2> DEFINE n == [m EXCEPT !.eapolEap = FALSE, !.be_auth = u]
               j == [i EXCEPT !.eapReq = FALSE]
    <2>1. BeStores(g, h, n, j) /\ h.sta = g.sta
      BY <1>1, <1>5 DEF BeStores, Fields, HistType, BeEnter, BE_REQUEST
    <2>3. BeSignals(i, j, u) /\ j.portEnabled = i.portEnabled
      BY <1>1, <1>5 DEF BeSignals, Kin, EapIfType
    <2>4. n = [m EXCEPT !.eapolEap = FALSE, !.be_auth = u]
      OBVIOUS
    <2> HIDE DEF m, n, j, h
    <2>2. BeFields(m, n, u) /\ n.be_auth = u
      BY <1>1, <1>5, <2>4 DEF PortType, BeFields
    <2> QED
      BY <1>2, <1>5, <2>1, <2>2, <2>3 DEF h, m
  <1>6. CASE u = "RESPONSE"
    <2> DEFINE n == [m EXCEPT !.authTimeout = FALSE, !.eapolEap = FALSE,
                              !.aWhile = serverTimeout, !.be_auth = u]
               j == [i EXCEPT !.eapNoReq = FALSE, !.eapResp = TRUE]
    <2>1. BeStores(g, h, n, j) /\ h.sta = g.sta
      BY <1>1, <1>6 DEF BeStores, Fields, HistType, BeEnter, BE_RESPONSE
    <2>3. BeSignals(i, j, u) /\ j.portEnabled = i.portEnabled
      BY <1>1, <1>6 DEF BeSignals, Kin, EapIfType
    <2>4. n = [m EXCEPT !.authTimeout = FALSE, !.eapolEap = FALSE,
                        !.aWhile = serverTimeout, !.be_auth = u]
      OBVIOUS
    <2> HIDE DEF m, n, j, h
    <2>2. BeFields(m, n, u) /\ n.be_auth = u
      BY <1>1, <1>6, <2>4 DEF PortType, BeFields
    <2> QED
      BY <1>2, <1>6, <2>1, <2>2, <2>3 DEF h, m
  <1>7. CASE u = "SUCCESS"
    <2> DEFINE n == [m EXCEPT !.authSuccess = TRUE, !.keyRun = TRUE, !.be_auth = u]
    <2>1. BeStores(g, h, n, i) /\ h.sta = g.sta
      BY <1>1, <1>7 DEF BeStores, Fields, HistType, BeEnter, BE_SUCCESS
    <2>3. BeSignals(i, i, u)
      BY <1>1, <1>7 DEF BeSignals, Kin, EapIfType
    <2>4. n = [m EXCEPT !.authSuccess = TRUE, !.keyRun = TRUE, !.be_auth = u]
      OBVIOUS
    <2> HIDE DEF m, n, h
    <2>2. BeFields(m, n, u) /\ n.be_auth = u
      BY <1>1, <1>7, <2>4 DEF PortType, BeFields
    <2> QED
      BY <1>2, <1>7, <2>1, <2>2, <2>3 DEF h, m
  <1>8. CASE u = "FAIL"
    <2> DEFINE n == [m EXCEPT !.authFail = TRUE, !.be_auth = u]
    <2>1. BeStores(g, h, n, i) /\ h.sta = g.sta
      BY <1>1, <1>8 DEF BeStores, Fields, HistType, BeEnter, BE_FAIL
    <2>3. BeSignals(i, i, u)
      BY <1>1, <1>8 DEF BeSignals, Kin, EapIfType
    <2>4. n = [m EXCEPT !.authFail = TRUE, !.be_auth = u]
      OBVIOUS
    <2> HIDE DEF m, n, h
    <2>2. BeFields(m, n, u) /\ n.be_auth = u
      BY <1>1, <1>8, <2>4 DEF PortType, BeFields
    <2> QED
      BY <1>2, <1>8, <2>1, <2>2, <2>3 DEF h, m
  <1>9. CASE u = "TIMEOUT"
    <2> DEFINE n == [m EXCEPT !.authTimeout = TRUE, !.be_auth = u]
    <2>1. BeStores(g, h, n, i) /\ h.sta = g.sta
      BY <1>1, <1>9 DEF BeStores, Fields, HistType, BeEnter, BE_TIMEOUT
    <2>3. BeSignals(i, i, u)
      BY <1>1, <1>9 DEF BeSignals, Kin, EapIfType
    <2>4. n = [m EXCEPT !.authTimeout = TRUE, !.be_auth = u]
      OBVIOUS
    <2> HIDE DEF m, n, h
    <2>2. BeFields(m, n, u) /\ n.be_auth = u
      BY <1>1, <1>9, <2>4 DEF PortType, BeFields
    <2> QED
      BY <1>2, <1>9, <2>1, <2>2, <2>3 DEF h, m
  <1>10. CASE u = "IDLE"
    <2> DEFINE n == [m EXCEPT !.authStart = FALSE, !.be_auth = u]
    <2>1. BeStores(g, h, n, i) /\ h.sta = g.sta
      BY <1>1, <1>10 DEF BeStores, Fields, HistType, BeEnter, BE_IDLE
    <2>3. BeSignals(i, i, u)
      BY <1>1, <1>10 DEF BeSignals, Kin, EapIfType
    <2>4. n = [m EXCEPT !.authStart = FALSE, !.be_auth = u]
      OBVIOUS
    <2> HIDE DEF m, n, h
    <2>2. BeFields(m, n, u) /\ n.be_auth = u
      BY <1>1, <1>10, <2>4 DEF PortType, BeFields
    <2> QED
      BY <1>2, <1>10, <2>1, <2>2, <2>3 DEF h, m
  <1>11. CASE u = "IGNORE"
    <2> DEFINE n == [m EXCEPT !.be_auth = u]
               j == [i EXCEPT !.eapNoReq = FALSE]
    <2>1. BeStores(g, h, n, j) /\ h.sta = g.sta
      BY <1>1, <1>11 DEF BeStores, Fields, HistType, BeEnter, BE_IGNORE
    <2>3. BeSignals(i, j, u) /\ j.portEnabled = i.portEnabled
      BY <1>1, <1>11 DEF BeSignals, Kin, EapIfType
    <2>4. n = [m EXCEPT !.be_auth = u]
      OBVIOUS
    <2> HIDE DEF m, n, j, h
    <2>2. BeFields(m, n, u) /\ n.be_auth = u
      BY <1>1, <1>11, <2>4 DEF PortType, BeFields
    <2> QED
      BY <1>2, <1>11, <2>1, <2>2, <2>3 DEF h, m
  <1> QED
    BY <1>3, <1>4, <1>5, <1>6, <1>7, <1>8, <1>9, <1>10, <1>11 DEF BeStates

\* The states that SM_STEP(BE_AUTH) goes to.
LEMMA BeTarget ==
    ASSUME NEW m \in PortType, NEW i
    PROVE  SM_STEP_BE_AUTH(m, i) \in BeStates \cup {"stay"}
  BY DEF PortType, BeStates, SM_STEP_BE_AUTH, BeAwaitSupplicant, BeAwaitServer

\* A step of BE_AUTH.
LEMMA BeStep ==
    ASSUME NEW g, RunOK(g)
    PROVE  BeEffect(g, BE_AUTH(g))
  <1> DEFINE t == SM_STEP_BE_AUTH(g.sm, g.eap_if)
             ign == g.sm.be_auth = "RESPONSE" /\ ~g.sm.authAbort /\ g.eap_if.eapNoReq
             k == IF ign THEN BeEnter(g, "IGNORE") ELSE g
  <1>1. Typed(g) /\ g.sm \in PortType /\ g.eap_if \in EapIfType
    BY PartsOf DEF RunOK
  <1>2. t \in BeStates \cup {"stay"}
    BY <1>1, BeTarget
  <1>3. BE_AUTH(g) = IF t = "stay" THEN k ELSE BeEnter(k, t)
    BY DEF BE_AUTH
  <1>4. /\ BeMoved(g, k, "IGNORE") /\ Typed(k)
        /\ \/ k.sm.be_auth = g.sm.be_auth
           \/ g.sm.be_auth = "RESPONSE" /\ k.sm.be_auth = "IGNORE"
    <2>1. CASE ign
      <3>1. k = BeEnter(g, "IGNORE")
        BY <2>1
      <3>2. RunOK(BeEnter(g, "IGNORE"))
        BY BeEnterOK
      <3>3. BeMoved(g, BeEnter(g, "IGNORE"), "IGNORE") /\ BeEnter(g, "IGNORE").sm.be_auth = "IGNORE"
        BY <1>1, BeEnters DEF BeStates
      <3> HIDE DEF k
      <3> QED
        BY <2>1, <3>1, <3>2, <3>3 DEF RunOK
    <2>2. CASE ~ign
      <3>1. k = g
        BY <2>2
      <3>2. BeMoved(g, g, "IGNORE")
        BY <1>1 DEF BeMoved, BeFields, BeSignals, Kin, PortType, EapIfType
      <3> HIDE DEF k
      <3> QED
        BY <1>1, <3>1, <3>2
    <2> QED
      BY <2>1, <2>2
  <1> HIDE DEF k, ign, t
  <1>5. CASE t = "stay"
    <2>1. BE_AUTH(g) = k
      BY <1>3, <1>5
    <2>2. BeMoved(g, k, "stay")
      BY <1>4 DEF BeMoved, BeFields, BeSignals
    <2> QED
      BY <1>4, <1>5, <2>1, <2>2 DEF BeEffect, t
  <1>6. CASE t # "stay"
    <2>1. BE_AUTH(g) = BeEnter(k, t) /\ t \in BeStates
      BY <1>2, <1>3, <1>6
    <2>2. BeMoved(k, BeEnter(k, t), t) /\ BeEnter(k, t).sm.be_auth = t
      BY <1>4, <2>1, BeEnters
    <2> DEFINE h == BeEnter(k, t)
    <2> HIDE DEF h
    <2>3. BeMoved(g, h, t)
      <3>1. BeMoved(g, k, "IGNORE") /\ BeMoved(k, h, t)
        BY <1>4, <2>2 DEF h
      <3>2. BeFields(g.sm, h.sm, t)
        BY <3>1 DEF BeMoved, BeFields
      <3>3. BeSignals(g.eap_if, h.eap_if, t)
        BY <3>1 DEF BeMoved, BeSignals, Kin
      <3>4. k.eap_if.eapTimeout = g.eap_if.eapTimeout
        BY <3>1 DEF BeMoved, BeSignals, Kin
      <3> QED
        BY <3>1, <3>2, <3>3, <3>4 DEF BeMoved
    <2> QED
      BY <1>6, <2>1, <2>2, <2>3 DEF BeEffect, h, t
  <1> QED
    BY <1>5, <1>6

\* What neither the WPA machine nor REAUTH_TIMER touches.
OthersSame(m, n) ==
    /\ n.auth_pae = m.auth_pae /\ n.be_auth = m.be_auth
    /\ n.authPortStatus = m.authPortStatus /\ n.eapolEap = m.eapolEap
    /\ n.eapolStart = m.eapolStart /\ n.eapolLogoff = m.eapolLogoff
    /\ n.authStart = m.authStart /\ n.authAbort = m.authAbort
    /\ n.authSuccess = m.authSuccess /\ n.authFail = m.authFail
    /\ n.authTimeout = m.authTimeout /\ n.reAuthCount = m.reAuthCount
    /\ n.keyDone = m.keyDone /\ n.aWhile = m.aWhile /\ n.quietWhile = m.quietWhile

SignalsSame(i, j) ==
    /\ Kin(i, j) /\ j.eapRestart = i.eapRestart /\ j.eapReq = i.eapReq
    /\ j.eapResp = i.eapResp

\* The WPA machine closes the port or leaves it alone.
MayClose(g, h) ==
    /\ h.eap = g.eap /\ h.awaiting = g.awaiting /\ h.hist = g.hist
    /\ OthersSame(g.sm, h.sm) /\ SignalsSame(g.eap_if, h.eap_if)
    /\ \/ /\ h.sm.portValid = g.sm.portValid /\ h.sta = g.sta
          /\ h.eap_if.portEnabled = g.eap_if.portEnabled
       \/ h.sm.portValid = FALSE /\ h.sta = "removing" /\ h.eap_if.portEnabled = FALSE

TimerSame(m, n) ==
    /\ n.reauth_timer = m.reauth_timer /\ n.reAuthWhen = m.reAuthWhen
    /\ n.reAuthenticate = m.reAuthenticate

\* wpa_sm_step and wpa_reauth.
LEMMA WpaMayClose ==
    ASSUME NEW g, Typed(g)
    PROVE  /\ MayClose(g, wpa_sm_step(g)) /\ TimerSame(g.sm, wpa_sm_step(g).sm)
           /\ MayClose(g, wpa_reauth(g)) /\ TimerSame(g.sm, wpa_reauth(g).sm)
  <1>1. ASSUME NEW k, DOMAIN k = Fields, k.sm \in PortType, k.eap_if \in EapIfType
        PROVE  MayClose(k, wpa_sm_step(k)) /\ TimerSame(k.sm, wpa_sm_step(k).sm)
    <2> DEFINE h == wpa_sm_step(k)
               m == k.sm
               i == k.eap_if
    <2>1. /\ h.eap = k.eap /\ h.hist = k.hist /\ h.awaiting = k.awaiting
          /\ \/ h = k
             \/ /\ h.sm = [m EXCEPT !.keyRun = FALSE]
                /\ h.eap_if = i /\ h.sta = k.sta
             \/ /\ h.sm = [m EXCEPT !.keyRun = FALSE, !.portValid = FALSE]
                /\ h.sta = "removing"
                /\ h.eap_if = [i EXCEPT !.portEnabled = FALSE]
      BY <1>1, WpaStepFields
    <2> HIDE DEF h
    <2>2. CASE h = k
      BY <2>2 DEF MayClose, OthersSame, SignalsSame, Kin, TimerSame, h
    <2>3. CASE h.sm = [m EXCEPT !.keyRun = FALSE] /\ h.eap_if = i /\ h.sta = k.sta
      <3>1. OthersSame(m, h.sm) /\ TimerSame(m, h.sm) /\ h.sm.portValid = m.portValid
        BY <1>1, <2>3 DEF OthersSame, TimerSame, PortType
      <3>2. SignalsSame(i, h.eap_if)
        BY <2>3 DEF SignalsSame, Kin
      <3> QED
        BY <2>1, <2>3, <3>1, <3>2 DEF MayClose, h
    <2>4. CASE /\ h.sm = [m EXCEPT !.keyRun = FALSE, !.portValid = FALSE]
               /\ h.sta = "removing" /\ h.eap_if = [i EXCEPT !.portEnabled = FALSE]
      <3>1. OthersSame(m, h.sm) /\ TimerSame(m, h.sm) /\ h.sm.portValid = FALSE
        BY <1>1, <2>4 DEF OthersSame, TimerSame, PortType
      <3>2. SignalsSame(i, h.eap_if) /\ h.eap_if.portEnabled = FALSE
        BY <1>1, <2>4 DEF SignalsSame, Kin, EapIfType
      <3> QED
        BY <2>1, <2>4, <3>1, <3>2 DEF MayClose, h
    <2> QED
      BY <2>1, <2>2, <2>3, <2>4
  <1>2. DOMAIN g = Fields /\ g.sm \in PortType /\ g.eap_if \in EapIfType
    BY PartsOf
  <1>3. MayClose(g, wpa_sm_step(g)) /\ TimerSame(g.sm, wpa_sm_step(g).sm)
    BY <1>1, <1>2
  <1>4. CASE conf.wpa
    <2> DEFINE k == [g EXCEPT !.wpa = "AUTHENTICATION2"]
    <2>1. /\ DOMAIN k = Fields /\ k.sm = g.sm /\ k.eap_if = g.eap_if /\ k.eap = g.eap
          /\ k.awaiting = g.awaiting /\ k.hist = g.hist /\ k.sta = g.sta
      BY <1>2 DEF Fields
    <2>2. wpa_reauth(g) = wpa_sm_step(k)
      BY <1>4 DEF wpa_reauth
    <2> HIDE DEF k
    <2>3. MayClose(k, wpa_sm_step(k)) /\ TimerSame(k.sm, wpa_sm_step(k).sm)
      BY <1>1, <1>2, <2>1
    <2> QED
      BY <1>3, <2>1, <2>2, <2>3 DEF MayClose
  <1>5. CASE ~conf.wpa
    <2>1. wpa_reauth(g) = g
      BY <1>5 DEF wpa_reauth
    <2> QED
      BY <1>3, <2>1 DEF MayClose, OthersSame, SignalsSame, Kin, TimerSame
  <1> QED
    BY <1>3, <1>4, <1>5

\* REAUTH_TIMER starts again, or asks for a re-authentication.
TimerResets(m) ==
    \/ m.authPortStatus = "Unauthorized" \/ conf.eap_reauth_period = 0
    \/ m.reauth_timer = "REAUTHENTICATE"

TimerFires(m) == ~TimerResets(m) /\ m.reAuthWhen = 0

TimerEffect(g, h) ==
    /\ MayClose(g, h)
    /\ ~TimerFires(g.sm) =>
         /\ h.sm.portValid = g.sm.portValid /\ h.sta = g.sta
         /\ h.eap_if.portEnabled = g.eap_if.portEnabled
    /\ h.sm.reauth_timer = IF TimerResets(g.sm) THEN "INITIALIZE"
                           ELSE IF TimerFires(g.sm) THEN "REAUTHENTICATE"
                           ELSE g.sm.reauth_timer
    /\ h.sm.reAuthWhen = IF TimerResets(g.sm) THEN conf.eap_reauth_period ELSE g.sm.reAuthWhen
    /\ h.sm.reAuthenticate <=> g.sm.reAuthenticate \/ TimerFires(g.sm)

\* A step of REAUTH_TIMER.
LEMMA TimerStep ==
    ASSUME NEW g, RunOK(g), conf \in Confs
    PROVE  TimerEffect(g, REAUTH_TIMER(g))
  <1> DEFINE m == g.sm
             h == REAUTH_TIMER(g)
  <1>1. Typed(g) /\ DOMAIN g = Fields /\ m \in PortType /\ g.eap_if \in EapIfType
    BY PartsOf DEF RunOK
  <1>2. CASE TimerResets(m)
    <2> DEFINE n == [m EXCEPT !.reauth_timer = "INITIALIZE",
                              !.reAuthWhen = conf.eap_reauth_period]
    <2>1. /\ h.eap = g.eap /\ h.awaiting = g.awaiting /\ h.hist = g.hist
          /\ h.sm = n /\ h.eap_if = g.eap_if /\ h.sta = g.sta
      BY <1>1, <1>2 DEF REAUTH_TIMER, TimerResets, Fields
    <2>2. n = [m EXCEPT !.reauth_timer = "INITIALIZE", !.reAuthWhen = conf.eap_reauth_period]
      OBVIOUS
    <2> HIDE DEF n, h, m
    <2>3. /\ OthersSame(m, n) /\ n.portValid = m.portValid /\ n.reauth_timer = "INITIALIZE"
          /\ n.reAuthWhen = conf.eap_reauth_period /\ n.reAuthenticate = m.reAuthenticate
      BY <1>1, <2>2 DEF PortType, OthersSame
    <2>4. SignalsSame(g.eap_if, h.eap_if)
      BY <2>1 DEF SignalsSame, Kin
    <2> QED
      BY <1>2, <2>1, <2>3, <2>4 DEF MayClose, TimerEffect, TimerFires, h, m
  <1>3. CASE TimerFires(m)
    <2> DEFINE k == [g EXCEPT !.sm.reauth_timer = "REAUTHENTICATE", !.sm.reAuthenticate = TRUE]
               n == [m EXCEPT !.reauth_timer = "REAUTHENTICATE", !.reAuthenticate = TRUE]
    <2>1. h = wpa_reauth(k)
      BY <1>3 DEF REAUTH_TIMER, TimerResets, TimerFires
    <2>2. /\ DOMAIN k = Fields /\ k.sm = n /\ k.eap = g.eap /\ k.eap_if = g.eap_if
          /\ k.wpa = g.wpa /\ k.sta = g.sta /\ k.queued = g.queued /\ k.pmksa = g.pmksa
          /\ k.awaiting = g.awaiting /\ k.hist = g.hist
      BY <1>1 DEF Fields
    <2>3. n = [m EXCEPT !.reauth_timer = "REAUTHENTICATE", !.reAuthenticate = TRUE]
      OBVIOUS
    <2> HIDE DEF n, h, m, k
    <2>4. /\ OthersSame(m, n) /\ n.portValid = m.portValid /\ n.reAuthenticate = TRUE
          /\ n.reauth_timer = "REAUTHENTICATE" /\ n.reAuthWhen = m.reAuthWhen
      BY <1>1, <2>3 DEF PortType, OthersSame
    <2>5. n \in PortType
      BY <1>1, <2>3 DEF PortType
    <2>6. Typed(k)
      BY <1>1, <2>2, <2>5, SameMachine DEF Typed
    <2>7. MayClose(k, h) /\ TimerSame(k.sm, h.sm)
      BY <2>1, <2>6, WpaMayClose
    <2>8. MayClose(g, h)
      BY <2>2, <2>4, <2>7 DEF MayClose, OthersSame, m
    <2> QED
      BY <1>3, <2>2, <2>4, <2>7, <2>8 DEF TimerEffect, TimerFires, TimerSame, h, m
  <1>4. CASE ~TimerResets(m) /\ ~TimerFires(m)
    <2>1. h = g
      BY <1>4 DEF REAUTH_TIMER, TimerResets, TimerFires
    <2>2. MayClose(g, g)
      BY DEF MayClose, OthersSame, SignalsSame, Kin
    <2>3. m.reAuthenticate \in BOOLEAN
      BY <1>1 DEF PortType
    <2> HIDE DEF h
    <2> QED
      BY <1>4, <2>1, <2>2, <2>3 DEF TimerEffect, h
  <1> QED
    BY <1>2, <1>3, <1>4 DEF TimerFires

\* What the body of state u of the EAP machine does to the machine, from e to f,
\* where r is the number of rounds it starts with.
EapFields(e, f, u, r) ==
    /\ f.eap_server = e.eap_server
    /\ f.num_rounds = IF u \in {"DISABLED", "INITIALIZE"} THEN 0
                      ELSE IF u = "RECEIVED" THEN r + 1 ELSE r
    /\ u = "INITIALIZE" => ~f.hasId /\ f.m = "none"
    /\ u \notin {"INITIALIZE", "METHOD_REQUEST", "AAA_RESPONSE"} => f.hasId = e.hasId
    /\ u = "METHOD_RESPONSE" => f.method_pending # "CONT"
    /\ u = "SELECT_ACTION" =>
         /\ f.decision = "PASSTHROUGH" => ~e.eap_server
         /\ e.m = "none" /\ ~e.hasId =>
              f.decision # "SUCCESS" /\ (f.decision = "FAILURE" => e.eap_server)
    /\ u = "SELECT_ACTION" => f.m = e.m

\* What it does to the interface, from i to j.
EapSignals(i, j, u) ==
    /\ j.portEnabled = i.portEnabled
    /\ IF u \in {"IDLE", "IDLE2"} THEN j.retransWhile \in Nat /\ j.retransWhile > 0
       ELSE j.retransWhile = i.retransWhile
    /\ j.eapResp <=> /\ i.eapResp
                     /\ u \notin {"DISCARD", "DISCARD2", "SEND_REQUEST", "SEND_REQUEST2"}
    /\ j.eapSuccess <=> (i.eapSuccess /\ u # "INITIALIZE") \/ u \in Succeeded
    /\ j.eapFail <=> (i.eapFail /\ u # "INITIALIZE") \/ u \in Failed
    /\ j.eapTimeout <=> (i.eapTimeout /\ u # "INITIALIZE") \/ u \in TimedOut
    /\ j.eapRestart <=> i.eapRestart /\ u # "INITIALIZE"
    /\ j.aaaFail <=> i.aaaFail /\ u # "AAA_IDLE"
    /\ j.aaaSuccess <=> i.aaaSuccess /\ u # "AAA_IDLE"
    /\ j.aaaEapReq <=> i.aaaEapReq /\ u # "AAA_IDLE"
    /\ j.aaaEapResp <=> i.aaaEapResp \/ u = "AAA_IDLE"

\* The decision of SELECT_ACTION: a machine that has just been initialized does
\* not succeed, and fails only a user that the integrated server does not know.
LEMMA DecisionFields ==
    ASSUME NEW e \in EapType, NEW f,
           f = [eap_sm_Policy_getDecision(e).eap
                  EXCEPT !.decision = eap_sm_Policy_getDecision(e).decision]
    PROVE  EapFields(e, f, "SELECT_ACTION", e.num_rounds)
  <1> DEFINE reload == (~e.hasUser \/ e.update_user) /\ e.identity # "none" /\ ~e.start_reauth
             loaded == [(IF reload
                    THEN [e EXCEPT !.hasUser = TRUE, !.user = UserMethods,
                                   !.user_eap_method_index = 0, !.update_user = FALSE]
                    ELSE e) EXCEPT !.start_reauth = FALSE]
             d == eap_sm_Policy_getDecision(e)
             Same(x) == /\ x.eap_server = e.eap_server /\ x.num_rounds = e.num_rounds
                        /\ x.hasId = e.hasId /\ x.m = e.m /\ DOMAIN x = DOMAIN e
             right == /\ d.decision = "PASSTHROUGH" => ~e.eap_server
                      /\ e.m = "none" /\ ~e.hasId =>
                           d.decision # "SUCCESS" /\ (d.decision = "FAILURE" => e.eap_server)
  <1>1. "none" \notin Methods
    BY EapAssumption
  <1>2. Same(loaded)
    BY DEF EapType
  <1>3. Same([e EXCEPT !.update_user = TRUE]) /\ Same([e EXCEPT !.hasUser = FALSE])
    BY DEF EapType
  <1>4. Same(d.eap) /\ right
    <2>1. CASE ~e.eap_server /\ e.identity # "none" /\ ~e.start_reauth
      <3>1. d = [decision |-> "PASSTHROUGH", eap |-> e]
        BY <2>1 DEF eap_sm_Policy_getDecision
      <3> HIDE DEF d
      <3> QED
        BY <2>1, <3>1
    <2>2. CASE ~(~e.eap_server /\ e.identity # "none" /\ ~e.start_reauth)
      <3>1. CASE e.m \in Methods /\ e.mState = "success"
        <4>1. d = [decision |-> "SUCCESS", eap |-> [e EXCEPT !.update_user = TRUE]]
          BY <2>2, <3>1 DEF eap_sm_Policy_getDecision
        <4> HIDE DEF d
        <4> QED
          BY <1>1, <1>3, <3>1, <4>1
      <3>2. CASE ~(e.m \in Methods /\ e.mState = "success") /\ e.m # "none" /\ e.mState = "failure"
        <4>1. d = [decision |-> "FAILURE", eap |-> [e EXCEPT !.update_user = TRUE]]
          BY <2>2, <3>2 DEF eap_sm_Policy_getDecision
        <4> HIDE DEF d
        <4> QED
          BY <1>3, <3>2, <4>1
      <3>3. CASE /\ ~(e.m \in Methods /\ e.mState = "success")
                 /\ ~(e.m # "none" /\ e.mState = "failure")
                 /\ reload /\ e.identity = "unknown"
        <4>1. d = [decision |-> "FAILURE", eap |-> [e EXCEPT !.hasUser = FALSE]]
          BY <2>2, <3>3 DEF eap_sm_Policy_getDecision
        <4>2. e.eap_server
          BY <2>2, <3>3
        <4> HIDE DEF d, reload
        <4> QED
          BY <1>3, <4>1, <4>2
      <3>4. CASE /\ ~(e.m \in Methods /\ e.mState = "success")
                 /\ ~(e.m # "none" /\ e.mState = "failure")
                 /\ ~(reload /\ e.identity = "unknown")
        <4>1. d = IF MethodLeft(loaded) \/ e.identity = "none" \/ ~e.hasId
                  THEN [decision |-> "CONTINUE", eap |-> loaded]
                  ELSE [decision |-> "FAILURE", eap |-> loaded]
          BY <2>2, <3>4 DEF eap_sm_Policy_getDecision
        <4> HIDE DEF d, loaded
        <4>2. d.eap = loaded /\ d.decision \in {"CONTINUE", "FAILURE"}
              /\ (d.decision = "FAILURE" => e.hasId)
          BY <4>1
        <4> QED
          BY <1>2, <4>2
      <3> QED
        BY <3>1, <3>2, <3>3, <3>4
    <2> QED
      BY <2>1, <2>2
  <1> DEFINE x == d.eap
             D == d.decision
  <1>5. f = [x EXCEPT !.decision = D]
    OBVIOUS
  <1>6. Same(x) /\ /\ D = "PASSTHROUGH" => ~e.eap_server
                   /\ e.m = "none" /\ ~e.hasId =>
                        D # "SUCCESS" /\ (D = "FAILURE" => e.eap_server)
    BY <1>4
  <1> HIDE DEF x, D
  <1>7. /\ f.decision = D /\ f.eap_server = e.eap_server /\ f.num_rounds = e.num_rounds
        /\ f.hasId = e.hasId /\ f.m = e.m
    <2>1. {"decision", "eap_server", "num_rounds", "hasId", "m"} \subseteq DOMAIN x
      BY <1>6 DEF EapType
    <2> QED
      BY <1>5, <1>6, <2>1
  <1> QED
    BY <1>6, <1>7 DEF EapFields

\* The bodies that only set fields: k is g after the body of u.
LEMMA SetterFields ==
    ASSUME NEW g, EapTyped(g), NEW u, NEW k, EapBody(g, u, k),
           u \notin {"RETRANSMIT", "RETRANSMIT2", "SEND_REQUEST", "SEND_REQUEST2",
                     "METHOD_RESPONSE", "METHOD_REQUEST", "PROPOSE_METHOD", "NAK",
                     "SELECT_ACTION", "AAA_RESPONSE"}
    PROVE  EapFields(g.eap, k.eap, u, g.eap.num_rounds) /\ EapSignals(g.eap_if, k.eap_if, u)
  <1> DEFINE e == g.eap
             i == g.eap_if
             f == k.eap
             j == k.eap_if
  <1>1. e \in EapType /\ i \in EapIfType /\ "eap" \in DOMAIN g /\ "eap_if" \in DOMAIN g
    BY DEF EapTyped
  <1>3. CASE u = "DISABLED" /\ k = EAP_DISABLED(g)
    <2>1. /\ f = [e EXCEPT !.num_rounds = 0]
          /\ j = i
      BY <1>1, <1>3 DEF EAP_DISABLED
    <2> HIDE DEF e, i, f, j
    <2>2. EapFields(e, f, u, e.num_rounds)
      BY <1>1, <1>3, <2>1 DEF EapFields, EapType
    <2>3. EapSignals(i, j, u)
      BY <1>1, <1>3, <2>1 DEF EapSignals, EapIfType, Succeeded, Failed, TimedOut
    <2> QED
      BY <2>2, <2>3 DEF e, i, f, j
  <1>4. CASE u = "INITIALIZE" /\ k = EAP_INITIALIZE(g)
    <2>1. /\ f = [e EXCEPT !.hasId = FALSE, !.m = "none", !.mState = "continue",
                           !.user_eap_method_index = 0, !.num_rounds = 0,
                           !.method_pending = "NONE"]
          /\ j = [i EXCEPT !.eapRespData = IF @ = "none" THEN @ ELSE "old",
                           !.eapSuccess = FALSE, !.eapFail = FALSE, !.eapTimeout = FALSE,
                           !.eapRestart = FALSE, !.eapKeyData = FALSE,
                           !.eapKeyAvailable = FALSE]
      BY <1>1, <1>4 DEF EAP_INITIALIZE, NewId
    <2> HIDE DEF e, i, f, j
    <2>2. EapFields(e, f, u, e.num_rounds)
      BY <1>1, <1>4, <2>1 DEF EapFields, EapType
    <2>3. EapSignals(i, j, u)
      BY <1>1, <1>4, <2>1 DEF EapSignals, EapIfType, Succeeded, Failed, TimedOut
    <2> QED
      BY <2>2, <2>3 DEF e, i, f, j
  <1>5. CASE u \in {"IDLE", "IDLE2"} /\ k = EAP_IDLE(g)
    <2> DEFINE T == eap_sm_calculateTimeout(e.retransCount)
    <2>0. T \in Nat \ {0}
      <3>1. e.retransCount \in Nat
        BY <1>1, EapAssumption DEF EapType
      <3> QED
        BY <3>1, TimeoutType
    <2>1. /\ f = e
          /\ j = [i EXCEPT !.retransWhile = T]
      BY <1>1, <1>5 DEF EAP_IDLE
    <2> HIDE DEF e, i, f, j, T
    <2>2. EapFields(e, f, u, e.num_rounds)
      BY <1>1, <1>5, <2>1 DEF EapFields, EapType
    <2>3. EapSignals(i, j, u)
      BY <1>1, <1>5, <2>0, <2>1 DEF EapSignals, EapIfType, Succeeded, Failed, TimedOut
    <2> QED
      BY <2>2, <2>3 DEF e, i, f, j
  <1>6. CASE u = "RECEIVED" /\ k = EAP_RECEIVED(g)
    <2>1. /\ f = [e EXCEPT !.num_rounds = @ + 1]
          /\ j = i
      BY <1>1, <1>6 DEF EAP_RECEIVED
    <2> HIDE DEF e, i, f, j
    <2>2. EapFields(e, f, u, e.num_rounds)
      BY <1>1, <1>6, <2>1 DEF EapFields, EapType
    <2>3. EapSignals(i, j, u)
      BY <1>1, <1>6, <2>1 DEF EapSignals, EapIfType, Succeeded, Failed, TimedOut
    <2> QED
      BY <2>2, <2>3 DEF e, i, f, j
  <1>7. CASE u \in {"DISCARD", "DISCARD2"} /\ k = EAP_DISCARD(g)
    <2>1. /\ f = e
          /\ j = [i EXCEPT !.eapResp = FALSE, !.eapNoReq = TRUE]
      BY <1>1, <1>7 DEF EAP_DISCARD
    <2> HIDE DEF e, i, f, j
    <2>2. EapFields(e, f, u, e.num_rounds)
      BY <1>1, <1>7, <2>1 DEF EapFields, EapType
    <2>3. EapSignals(i, j, u)
      BY <1>1, <1>7, <2>1 DEF EapSignals, EapIfType, Succeeded, Failed, TimedOut
    <2> QED
      BY <2>2, <2>3 DEF e, i, f, j
  <1>8. CASE u = "FAILURE" /\ k = EAP_FAILURE(g)
    <2>1. /\ f = [e EXCEPT !.lastReqData = FALSE]
          /\ j = [i EXCEPT !.eapReqData = TRUE, !.eapFail = TRUE]
      BY <1>1, <1>8 DEF EAP_FAILURE
    <2> HIDE DEF e, i, f, j
    <2>2. EapFields(e, f, u, e.num_rounds)
      BY <1>1, <1>8, <2>1 DEF EapFields, EapType
    <2>3. EapSignals(i, j, u)
      BY <1>1, <1>8, <2>1 DEF EapSignals, EapIfType, Succeeded, Failed, TimedOut
    <2> QED
      BY <2>2, <2>3 DEF e, i, f, j
  <1>9. CASE u = "SUCCESS" /\ k = EAP_SUCCESS(g)
    <2>1. /\ f = [e EXCEPT !.lastReqData = FALSE]
          /\ j = [i EXCEPT !.eapReqData = TRUE, !.eapKeyAvailable = @ \/ i.eapKeyData,
                           !.eapSuccess = TRUE]
      BY <1>1, <1>9 DEF EAP_SUCCESS
    <2> HIDE DEF e, i, f, j
    <2>2. EapFields(e, f, u, e.num_rounds)
      BY <1>1, <1>9, <2>1 DEF EapFields, EapType
    <2>3. EapSignals(i, j, u)
      BY <1>1, <1>9, <2>1 DEF EapSignals, EapIfType, Succeeded, Failed, TimedOut
    <2> QED
      BY <2>2, <2>3 DEF e, i, f, j
  <1>10. CASE u = "INITIALIZE_PASSTHROUGH" /\ k = EAP_INITIALIZE_PASSTHROUGH(g)
    <2>1. /\ f = e
          /\ j = [i EXCEPT !.aaaEapRespData = FALSE]
      BY <1>1, <1>10 DEF EAP_INITIALIZE_PASSTHROUGH
    <2> HIDE DEF e, i, f, j
    <2>2. EapFields(e, f, u, e.num_rounds)
      BY <1>1, <1>10, <2>1 DEF EapFields, EapType
    <2>3. EapSignals(i, j, u)
      BY <1>1, <1>10, <2>1 DEF EapSignals, EapIfType, Succeeded, Failed, TimedOut
    <2> QED
      BY <2>2, <2>3 DEF e, i, f, j
  <1>11. CASE u \in {"TIMEOUT_FAILURE", "TIMEOUT_FAILURE2"} /\ k = EAP_TIMEOUT_FAILURE(g)
    <2>1. /\ f = e
          /\ j = [i EXCEPT !.eapTimeout = TRUE]
      BY <1>1, <1>11 DEF EAP_TIMEOUT_FAILURE
    <2> HIDE DEF e, i, f, j
    <2>2. EapFields(e, f, u, e.num_rounds)
      BY <1>1, <1>11, <2>1 DEF EapFields, EapType
    <2>3. EapSignals(i, j, u)
      BY <1>1, <1>11, <2>1 DEF EapSignals, EapIfType, Succeeded, Failed, TimedOut
    <2> QED
      BY <2>2, <2>3 DEF e, i, f, j
  <1>12. CASE u = "AAA_REQUEST" /\ k = EAP_AAA_REQUEST(g)
    <2>1. /\ f = e
          /\ j = [i EXCEPT !.aaaEapRespData = @ \/ i.eapRespData # "none"]
      BY <1>1, <1>12 DEF EAP_AAA_REQUEST
    <2> HIDE DEF e, i, f, j
    <2>2. EapFields(e, f, u, e.num_rounds)
      BY <1>1, <1>12, <2>1 DEF EapFields, EapType
    <2>3. EapSignals(i, j, u)
      BY <1>1, <1>12, <2>1 DEF EapSignals, EapIfType, Succeeded, Failed, TimedOut
    <2> QED
      BY <2>2, <2>3 DEF e, i, f, j
  <1>13. CASE u = "AAA_IDLE" /\ k = EAP_AAA_IDLE(g)
    <2>1. /\ f = e
          /\ j = [i EXCEPT !.aaaFail = FALSE, !.aaaSuccess = FALSE, !.aaaEapReq = FALSE,
                           !.aaaEapResp = TRUE]
      BY <1>1, <1>13 DEF EAP_AAA_IDLE
    <2> HIDE DEF e, i, f, j
    <2>2. EapFields(e, f, u, e.num_rounds)
      BY <1>1, <1>13, <2>1 DEF EapFields, EapType
    <2>3. EapSignals(i, j, u)
      BY <1>1, <1>13, <2>1 DEF EapSignals, EapIfType, Succeeded, Failed, TimedOut
    <2> QED
      BY <2>2, <2>3 DEF e, i, f, j
  <1>14. CASE u = "FAILURE2" /\ k = EAP_FAILURE2(g)
    <2>1. /\ f = e
          /\ j = [i EXCEPT !.eapReqData = eap_copy_buf(@, i.aaaEapReqData), !.eapFail = TRUE]
      BY <1>1, <1>14 DEF EAP_FAILURE2
    <2> HIDE DEF e, i, f, j
    <2>2. EapFields(e, f, u, e.num_rounds)
      BY <1>1, <1>14, <2>1 DEF EapFields, EapType
    <2>3. EapSignals(i, j, u)
      BY <1>1, <1>14, <2>1 DEF EapSignals, EapIfType, Succeeded, Failed, TimedOut
    <2> QED
      BY <2>2, <2>3 DEF e, i, f, j
  <1>15. CASE u = "SUCCESS2" /\ k = EAP_SUCCESS2(g)
    <2>1. /\ f = [e EXCEPT !.start_reauth = TRUE]
          /\ j = [i EXCEPT !.eapReqData = eap_copy_buf(@, i.aaaEapReqData),
                           !.eapKeyAvailable = i.aaaEapKeyAvailable,
                           !.eapKeyData = i.aaaEapKeyAvailable, !.eapSuccess = TRUE]
      BY <1>1, <1>15 DEF EAP_SUCCESS2
    <2> HIDE DEF e, i, f, j
    <2>2. EapFields(e, f, u, e.num_rounds)
      BY <1>1, <1>15, <2>1 DEF EapFields, EapType
    <2>3. EapSignals(i, j, u)
      BY <1>1, <1>15, <2>1 DEF EapSignals, EapIfType, Succeeded, Failed, TimedOut
    <2> QED
      BY <2>2, <2>3 DEF e, i, f, j
  <1>16. CASE u \in {"RECEIVED2", "INTEGRITY_CHECK"} /\ k = g
    <2>1. EapFields(e, e, u, e.num_rounds)
      BY <1>16 DEF EapFields
    <2>2. EapSignals(i, i, u)
      BY <1>1, <1>16 DEF EapSignals, EapIfType, Succeeded, Failed, TimedOut
    <2> QED
      BY <1>16, <2>1, <2>2
  <1> QED
    BY <1>3, <1>4, <1>5, <1>6, <1>7, <1>8, <1>9, <1>10, <1>11, <1>12, <1>13, <1>14, <1>15, <1>16 DEF EapBody

\* The bodies with alternatives.
LEMMA ChoiceFields ==
    ASSUME NEW g, EapTyped(g), NEW u, NEW k, EapBody(g, u, k),
           u \in {"RETRANSMIT", "RETRANSMIT2", "SEND_REQUEST", "SEND_REQUEST2",
                  "METHOD_RESPONSE", "METHOD_REQUEST", "PROPOSE_METHOD", "NAK",
                  "SELECT_ACTION", "AAA_RESPONSE"}
    PROVE  EapFields(g.eap, k.eap, u, g.eap.num_rounds) /\ EapSignals(g.eap_if, k.eap_if, u)
  <1> DEFINE e == g.eap
             i == g.eap_if
             f == k.eap
             j == k.eap_if
             goal == EapFields(e, f, u, e.num_rounds) /\ EapSignals(i, j, u)
  <1>1. e \in EapType /\ i \in EapIfType /\ "eap" \in DOMAIN g /\ "eap_if" \in DOMAIN g
    BY DEF EapTyped
  <1>2. CASE u \in {"RETRANSMIT", "RETRANSMIT2"} /\ k = EAP_RETRANSMIT(g)
    <2>1. /\ f = [e EXCEPT !.retransCount = @ + 1]
          /\ j = i \/ j = [i EXCEPT !.eapReqData = TRUE, !.eapReq = TRUE]
      BY <1>1, <1>2 DEF EAP_RETRANSMIT
    <2> HIDE DEF e, i, f, j
    <2>2. EapFields(e, f, u, e.num_rounds)
      BY <1>1, <1>2, <2>1 DEF EapFields, EapType
    <2>3. EapSignals(i, j, u)
      <3>1. CASE j = i
        BY <1>1, <1>2, <3>1 DEF EapSignals, EapIfType, Succeeded, Failed, TimedOut
      <3>2. CASE j = [i EXCEPT !.eapReqData = TRUE, !.eapReq = TRUE]
        BY <1>1, <1>2, <3>2 DEF EapSignals, EapIfType, Succeeded, Failed, TimedOut
      <3> QED
        BY <2>1, <3>1, <3>2
    <2> QED
      BY <2>2, <2>3 DEF e, i, f, j
  <1>3. CASE u \in {"SEND_REQUEST", "SEND_REQUEST2"} /\ k = EAP_SEND_REQUEST(g)
    <2>1. CASE i.eapReqData
      <3>1. /\ f = [e EXCEPT !.retransCount = 0, !.lastReqData = TRUE]
            /\ j = [i EXCEPT !.eapResp = FALSE, !.eapReq = TRUE]
        BY <1>1, <1>3, <2>1 DEF EAP_SEND_REQUEST
      <3> HIDE DEF e, i, f, j
      <3>2. EapFields(e, f, u, e.num_rounds)
        BY <1>1, <1>3, <3>1 DEF EapFields, EapType
      <3>3. EapSignals(i, j, u)
        BY <1>1, <1>3, <3>1 DEF EapSignals, EapIfType, Succeeded, Failed, TimedOut
      <3> QED
        BY <3>2, <3>3 DEF e, i, f, j
    <2>2. CASE ~i.eapReqData
      <3>1. /\ f = [e EXCEPT !.retransCount = 0]
            /\ j = [i EXCEPT !.eapResp = FALSE, !.eapNoReq = TRUE, !.eapReq = FALSE]
        BY <1>1, <1>3, <2>2 DEF EAP_SEND_REQUEST, EAP_DISCARD
      <3> HIDE DEF e, i, f, j
      <3>2. EapFields(e, f, u, e.num_rounds)
        BY <1>1, <1>3, <3>1 DEF EapFields, EapType
      <3>3. EapSignals(i, j, u)
        BY <1>1, <1>3, <3>1 DEF EapSignals, EapIfType, Succeeded, Failed, TimedOut
      <3> QED
        BY <3>2, <3>3 DEF e, i, f, j
    <2> QED
      BY <2>1, <2>2
  <1>4. CASE u = "METHOD_RESPONSE" /\ k \in EAP_METHOD_RESPONSE(g)
    <2> DEFINE h == IF e.method_pending = "CONT" THEN [g EXCEPT !.eap.method_pending = "NONE"]
                    ELSE g
               x == h.eap
    <2>1. /\ x.eap_server = e.eap_server /\ x.num_rounds = e.num_rounds /\ x.hasId = e.hasId
          /\ x.method_pending # "CONT" /\ DOMAIN x = DOMAIN e /\ h.eap_if = i
          /\ "eap" \in DOMAIN h /\ "eap_if" \in DOMAIN h
      BY <1>1 DEF EapType
    <2>2. k \in eap_identity_process(h) \cup method_process(h)
      BY <1>4 DEF EAP_METHOD_RESPONSE
    <2> HIDE DEF h
    <2>3. \/ k \in eap_identity_process(h)
          \/ k \in {[h EXCEPT !.eap.methodState = "CONTINUE", !.eap.method_pending = p] :
                      p \in {x.method_pending, "WAIT"}}
          \/ k \in {[h EXCEPT !.eap.mState = r[1], !.eap.methodState = "END",
                              !.eap_if.eapKeyData = r[2]] :
                      r \in {<<"success", TRUE>>, <<"success", FALSE>>, <<"failure", FALSE>>}}
      BY <2>2 DEF method_process
    <2>4. {"eap_server", "num_rounds", "hasId", "method_pending", "methodState", "mState",
           "identity", "update_user"} \subseteq DOMAIN x
      BY <1>1, <2>1 DEF EapType
    <2>5. /\ f.eap_server = e.eap_server /\ f.num_rounds = e.num_rounds /\ f.hasId = e.hasId
          /\ f.method_pending # "CONT"
          /\ \/ j = i \/ \E b : j = [i EXCEPT !.eapKeyData = b]
      <3>1. CASE k \in eap_identity_process(h)
        <4>1. PICK who \in {"known", "unknown"} :
                k = [h EXCEPT !.eap.identity = who,
                              !.eap.update_user = @ \/ x.identity # "none",
                              !.eap.mState = "success", !.eap.methodState = "END",
                              !.eap_if.eapKeyData = FALSE]
          BY <3>1 DEF eap_identity_process
        <4>2. /\ f = [x EXCEPT !.identity = who, !.update_user = @ \/ x.identity # "none",
                               !.mState = "success", !.methodState = "END"]
              /\ j = [i EXCEPT !.eapKeyData = FALSE]
          BY <2>1, <4>1
        <4> HIDE DEF x, f, j, i, e
        <4> QED
          BY <2>1, <2>4, <4>2
      <3>2. CASE k \in {[h EXCEPT !.eap.methodState = "CONTINUE", !.eap.method_pending = p] :
                          p \in {x.method_pending, "WAIT"}}
        <4>1. PICK p \in {x.method_pending, "WAIT"} :
                k = [h EXCEPT !.eap.methodState = "CONTINUE", !.eap.method_pending = p]
          BY <3>2
        <4>2. f = [x EXCEPT !.methodState = "CONTINUE", !.method_pending = p] /\ j = i
          BY <2>1, <4>1
        <4> HIDE DEF x, f, j, i, e
        <4> QED
          BY <2>1, <2>4, <4>2
      <3>3. CASE k \in {[h EXCEPT !.eap.mState = r[1], !.eap.methodState = "END",
                              !.eap_if.eapKeyData = r[2]] :
                      r \in {<<"success", TRUE>>, <<"success", FALSE>>, <<"failure", FALSE>>}}
        <4>1. PICK r \in {<<"success", TRUE>>, <<"success", FALSE>>, <<"failure", FALSE>>} :
                k = [h EXCEPT !.eap.mState = r[1], !.eap.methodState = "END",
                              !.eap_if.eapKeyData = r[2]]
          BY <3>3
        <4>2. /\ f = [x EXCEPT !.mState = r[1], !.methodState = "END"]
              /\ j = [i EXCEPT !.eapKeyData = r[2]]
          BY <2>1, <4>1
        <4> HIDE DEF x, f, j, i, e
        <4> QED
          BY <2>1, <2>4, <4>2
      <3> QED
        BY <2>3, <3>1, <3>2, <3>3
    <2> HIDE DEF e, i, f, j
    <2>6. EapFields(e, f, u, e.num_rounds)
      BY <1>4, <2>5 DEF EapFields
    <2>7. EapSignals(i, j, u)
      BY <1>1, <1>4, <2>5 DEF EapSignals, EapIfType, Succeeded, Failed, TimedOut
    <2> QED
      BY <2>6, <2>7 DEF e, i, f, j
  <1>5. CASE u = "METHOD_REQUEST" /\ k \in EAP_METHOD_REQUEST(g)
    <2>1. PICK built : k = [NewId(g) EXCEPT !.eap.hasId = TRUE, !.eap_if.eapReqData = built]
      BY <1>5 DEF EAP_METHOD_REQUEST
    <2>2. /\ f = [e EXCEPT !.hasId = TRUE]
          /\ j = [i EXCEPT !.eapRespData = IF @ = "none" THEN @ ELSE "old",
                           !.eapReqData = built]
      BY <1>1, <2>1 DEF NewId
    <2> HIDE DEF e, i, f, j
    <2>3. EapFields(e, f, u, e.num_rounds)
      BY <1>1, <1>5, <2>2 DEF EapFields, EapType
    <2>4. EapSignals(i, j, u)
      BY <1>1, <1>5, <2>2 DEF EapSignals, EapIfType, Succeeded, Failed, TimedOut
    <2> QED
      BY <2>3, <2>4 DEF e, i, f, j
  <1>6. CASE u = "PROPOSE_METHOD" /\ k = EAP_PROPOSE_METHOD(g)
    <2> DEFINE x == eap_sm_Policy_getNextMethod(e)
               s == IF x.m = "identity" THEN "CONTINUE" ELSE "PROPOSED"
    <2>1. f = [x EXCEPT !.mState = "continue", !.methodState = s] /\ j = i
      BY <1>1, <1>6 DEF EAP_PROPOSE_METHOD
    <2>2. /\ x.eap_server = e.eap_server /\ x.num_rounds = e.num_rounds
          /\ x.hasId = e.hasId /\ DOMAIN x = DOMAIN e
      BY <1>1 DEF eap_sm_Policy_getNextMethod, EapType
    <2> HIDE DEF e, i, f, j, x, s
    <2>3. f.eap_server = e.eap_server /\ f.num_rounds = e.num_rounds /\ f.hasId = e.hasId
      BY <1>1, <2>1, <2>2 DEF EapType
    <2>4. EapFields(e, f, u, e.num_rounds)
      BY <1>6, <2>3 DEF EapFields
    <2>5. EapSignals(i, j, u)
      BY <1>1, <1>6, <2>1 DEF EapSignals, EapIfType, Succeeded, Failed, TimedOut
    <2> QED
      BY <2>4, <2>5 DEF e, i, f, j
  <1>7. CASE u = "NAK" /\ k \in EAP_NAK(g)
    <2> DEFINE x == [e EXCEPT !.m = "none", !.mState = "continue"]
    <2>1. PICK y \in {x} \cup {eap_sm_process_nak(x, list) : list \in SUBSET Methods} :
            k = [g EXCEPT !.eap = y]
      BY <1>7 DEF EAP_NAK
    <2>2. f = y /\ j = i
      BY <1>1, <2>1
    <2>3. y = x \/ \E v : y = [x EXCEPT !.user = v]
      BY <2>1 DEF eap_sm_process_nak
    <2>4. /\ x.eap_server = e.eap_server /\ x.num_rounds = e.num_rounds
          /\ x.hasId = e.hasId /\ DOMAIN x = DOMAIN e
      BY <1>1 DEF EapType
    <2> HIDE DEF e, i, f, j, x
    <2>5. f.eap_server = e.eap_server /\ f.num_rounds = e.num_rounds /\ f.hasId = e.hasId
      BY <1>1, <2>2, <2>3, <2>4 DEF EapType
    <2>6. EapFields(e, f, u, e.num_rounds)
      BY <1>7, <2>5 DEF EapFields
    <2>7. EapSignals(i, j, u)
      BY <1>1, <1>7, <2>2 DEF EapSignals, EapIfType, Succeeded, Failed, TimedOut
    <2> QED
      BY <2>6, <2>7 DEF e, i, f, j
  <1>8. CASE u = "SELECT_ACTION" /\ k = EAP_SELECT_ACTION(g)
    <2>1. /\ f = [eap_sm_Policy_getDecision(e).eap
                    EXCEPT !.decision = eap_sm_Policy_getDecision(e).decision]
          /\ j = i
      BY <1>1, <1>8 DEF EAP_SELECT_ACTION
    <2> HIDE DEF e, i, f, j
    <2>2. EapFields(e, f, u, e.num_rounds)
      BY <1>1, <1>8, <2>1, DecisionFields
    <2>3. EapSignals(i, j, u)
      BY <1>1, <1>8, <2>1 DEF EapSignals, EapIfType, Succeeded, Failed, TimedOut
    <2> QED
      BY <2>2, <2>3 DEF e, i, f, j
  <1>9. CASE u = "AAA_RESPONSE" /\ k = EAP_AAA_RESPONSE(g)
    <2> DEFINE req == eap_copy_buf(i.eapReqData, i.aaaEapReqData)
    <2>1. /\ f = [e EXCEPT !.hasId = req]
          /\ j = [i EXCEPT !.eapRespData = IF @ = "none" THEN @ ELSE "old",
                           !.eapReqData = req]
      BY <1>1, <1>9 DEF EAP_AAA_RESPONSE, NewId
    <2> HIDE DEF e, i, f, j, req
    <2>2. EapFields(e, f, u, e.num_rounds)
      BY <1>1, <1>9, <2>1 DEF EapFields, EapType
    <2>3. EapSignals(i, j, u)
      BY <1>1, <1>9, <2>1 DEF EapSignals, EapIfType, Succeeded, Failed, TimedOut
    <2> QED
      BY <2>2, <2>3 DEF e, i, f, j
  <1> QED
    BY <1>2, <1>3, <1>4, <1>5, <1>6, <1>7, <1>8, <1>9 DEF EapBody

\* State u has been entered, with r rounds before.
EapMoved(g, h, u, r) ==
    /\ u \in EapStates /\ h.eap.state = u /\ h.eap.changed
    /\ EapFields(g.eap, h.eap, u, r) /\ EapSignals(g.eap_if, h.eap_if, u)

\* Entering a state of the EAP machine.
LEMMA EapEnters ==
    ASSUME NEW g, EapTyped(g), NEW u \in EapStates, NEW h \in EapEnter(g, u), EapTyped(h)
    PROVE  EapMoved(g, h, u, g.eap.num_rounds)
  <1>1. PICK k : EapBody(g, u, k) /\ h = Entered(k, u)
    BY EapBodies, Zenon
  <1> DEFINE f == k.eap
             x == h.eap
             e == g.eap
  <1>2. EapFields(e, f, u, e.num_rounds) /\ EapSignals(g.eap_if, k.eap_if, u)
    BY <1>1, SetterFields, ChoiceFields
  <1>3. x \in EapType /\ "eap" \in DOMAIN h /\ "eap_if" \in DOMAIN h
    BY DEF EapTyped
  <1>4. x = [f EXCEPT !.state = u, !.changed = TRUE] /\ h.eap_if = k.eap_if
    BY <1>1, <1>3 DEF Entered
  <1> HIDE DEF x, f, e
  <1>5. /\ x.state = u /\ x.changed = TRUE /\ x.eap_server = f.eap_server
        /\ x.num_rounds = f.num_rounds /\ x.hasId = f.hasId /\ x.m = f.m
        /\ x.method_pending = f.method_pending /\ x.decision = f.decision
    <2>1. {"state", "changed", "eap_server", "num_rounds", "hasId", "m", "method_pending",
           "decision"} \subseteq DOMAIN f
      BY <1>3, <1>4 DEF EapType
    <2> QED
      BY <1>4, <2>1
  <1>6. EapFields(e, x, u, e.num_rounds)
    BY <1>2, <1>5 DEF EapFields
  <1> QED
    BY <1>2, <1>4, <1>5, <1>6 DEF EapMoved, x, e

\* The machine has not moved.
EapStays(g, h) ==
    /\ h.eap_if = g.eap_if /\ ~h.eap.changed /\ h.eap.state = g.eap.state
    /\ h.eap.eap_server = g.eap.eap_server /\ h.eap.num_rounds = g.eap.num_rounds
    /\ h.eap.hasId = g.eap.hasId /\ h.eap.m = g.eap.m
    /\ h.eap.methodState = g.eap.methodState
    /\ h.eap.method_pending = g.eap.method_pending /\ h.eap.decision = g.eap.decision

\* An iteration of the EAP machine.
EapEffect(g, h) ==
    LET t == SM_STEP_EAP(g.eap, g.eap_if)
        r == g.eap.num_rounds
    IN  \/ t = "stay" /\ EapStays(g, h)
        \/ t = "rounds" /\ EapMoved(g, h, "FAILURE", r + 1)
        \/ t = "checked" /\ (EapMoved(g, h, "DISCARD", r) \/ EapMoved(g, h, "METHOD_RESPONSE", r))
        \/ t \notin {"stay", "rounds", "checked"} /\ EapMoved(g, h, t, r)

\* An iteration of the EAP machine.
LEMMA EapMoves1 ==
    ASSUME NEW g, EapOK(g), NEW h \in EapStep(g)
    PROVE  EapEffect(g, h) /\ EapOK(h) /\ KeepsPort(g, h)
  <1> DEFINE t == SM_STEP_EAP(g.eap, g.eap_if)
             e == g.eap
  <1>1. EapOK(h) /\ KeepsPort(g, h) /\ EapTyped(h) /\ EapTyped(g) /\ e \in EapType
    BY EapStepOK DEF EapOK, EapTyped
  <1>2. /\ t \in {"stay", "rounds", "checked"} \/ t \in EapStates
        /\ t = "rounds" => e.num_rounds = EAP_MAX_AUTH_ROUNDS + 1
    BY StepMayEnter DEF MayEnter
  <1>3. CASE t = "stay"
    <2>1. h = [g EXCEPT !.eap.changed = FALSE]
      BY <1>3 DEF EapStep
    <2>2. h.eap = [e EXCEPT !.changed = FALSE] /\ h.eap_if = g.eap_if
      BY <1>1, <2>1 DEF EapTyped
    <2> HIDE DEF e
    <2>3. EapStays(g, h)
      BY <1>1, <2>2 DEF EapStays, EapType, e
    <2> QED
      BY <1>1, <1>3, <2>3 DEF EapEffect
  <1>4. CASE t = "rounds"
    <2> DEFINE k == [g EXCEPT !.eap.num_rounds = @ + 1]
    <2>1. h \in EapEnter(k, "FAILURE")
      BY <1>4 DEF EapStep
    <2>2. EapTyped(k)
      BY <1>1, <1>2, <1>4, CountersTyped
    <2>3. k.eap = [e EXCEPT !.num_rounds = @ + 1] /\ k.eap_if = g.eap_if
      BY <1>1 DEF EapTyped
    <2>4. "FAILURE" \in EapStates
      BY DEF EapStates
    <2> HIDE DEF k, e
    <2>5. EapMoved(k, h, "FAILURE", k.eap.num_rounds)
      BY <1>1, <2>1, <2>2, <2>4, EapEnters
    <2>6. /\ k.eap.num_rounds = e.num_rounds + 1 /\ k.eap.eap_server = e.eap_server
          /\ k.eap.hasId = e.hasId /\ k.eap.m = e.m
      BY <1>1, <2>3 DEF EapType
    <2>7. EapMoved(g, h, "FAILURE", e.num_rounds + 1)
      BY <2>3, <2>5, <2>6 DEF EapMoved, EapFields, e
    <2> QED
      BY <1>1, <1>4, <2>7 DEF EapEffect, e
  <1>5. CASE t = "checked"
    <2>1. h \in EapEnter(g, "DISCARD") \/ h \in EapEnter(g, "METHOD_RESPONSE")
      BY <1>5 DEF EapStep
    <2>2. "DISCARD" \in EapStates /\ "METHOD_RESPONSE" \in EapStates
      BY DEF EapStates
    <2>3. EapMoved(g, h, "DISCARD", e.num_rounds) \/ EapMoved(g, h, "METHOD_RESPONSE", e.num_rounds)
      BY <1>1, <2>1, <2>2, EapEnters
    <2> QED
      BY <1>1, <1>5, <2>3 DEF EapEffect
  <1>6. CASE t \notin {"stay", "rounds", "checked"}
    <2>1. h \in EapEnter(g, t)
      BY <1>6 DEF EapStep
    <2>2. EapMoved(g, h, t, e.num_rounds)
      BY <1>1, <1>2, <1>6, <2>1, EapEnters
    <2> QED
      BY <1>1, <1>6, <2>2 DEF EapEffect
  <1> QED
    BY <1>3, <1>4, <1>5, <1>6
-----------------------------------------------------------------------------
(* A pass keeps the machines tied.                                         *)

\* AUTH_PAE.
LEMMA PaeKeeps ==
    ASSUME NEW g, Typed(g), BeforePass(g), NEW h, PaeEffect(g, h)
    PROVE  AfterPae(h)
  <1> DEFINE m == g.sm
             e == g.eap
             i == g.eap_if
             n == h.sm
             j == h.eap_if
             a == m.auth_pae
             t == n.auth_pae
  <1>1. /\ a \in {"INITIALIZE", "DISCONNECTED", "RESTART", "CONNECTING", "AUTHENTICATING",
                  "AUTHENTICATED", "ABORTING", "HELD"}
        /\ m.be_auth \in {"INITIALIZE", "REQUEST", "RESPONSE", "SUCCESS", "FAIL", "TIMEOUT",
                          "IDLE", "IGNORE"}
        /\ m.reAuthCount \in Nat /\ i.portEnabled \in BOOLEAN
    BY PartsOf DEF PortType, EapIfType
  <1>2. /\ h.eap = e /\ h.sta = g.sta /\ h.awaiting = g.awaiting
        /\ t = IF i.portEnabled THEN PaeInState(m, i) ELSE "INITIALIZE"
        /\ PaeFields(m, n) /\ Kin(i, j)
        /\ j.portEnabled = i.portEnabled /\ j.eapReq = i.eapReq
        /\ j.eapRestart <=> i.eapRestart \/ (t = "RESTART" /\ a # "RESTART")
    BY DEF PaeEffect
  <1>3. /\ Wired(g) /\ (a = "AUTHENTICATED" => e.state \in Succeeded) /\ ~m.authAbort
        /\ e.num_rounds # EAP_MAX_AUTH_ROUNDS + 1
        /\ i.portEnabled => Tied(m, e, i) /\ Between(m, e, i)
    BY DEF BeforePass, Linked
  <1>4. Wired(h)
    BY <1>2, <1>3 DEF Wired, Kin
  <1>5. CASE ~i.portEnabled
    <2>1. t = "INITIALIZE" /\ ~j.portEnabled /\ ~n.authAbort
      BY <1>2, <1>3, <1>5 DEF PaeFields
    <2> QED
      BY <1>2, <1>3, <1>4, <2>1 DEF AfterPae, Linked
  <1>6. CASE i.portEnabled
    <2> HIDE DEF m, e, i, n, j
    <2>0. a # "INITIALIZE" => t # "INITIALIZE"
      BY <1>1, <1>2, <1>6 DEF PaeInState, PaeAuthenticated
    <2>1. Tied(m, e, i) /\ Between(m, e, i) /\ t = PaeInState(m, i)
      BY <1>2, <1>3, <1>6
    <2>2. t = "AUTHENTICATED" => e.state \in Succeeded /\ n.portValid
      BY <1>1, <1>2, <1>3, <2>1 DEF PaeInState, PaeAuthenticated, Tied, Authenticating, PaeFields
    <2>3. Signals(e, j)
      BY <1>2, <2>1 DEF Tied, Signals, Kin
    <2>4. j.eapRestart => t = "RESTART"
      BY <1>1, <1>2, <2>1 DEF PaeInState, Tied
    <2>5. n.keyDone => n.portValid
      BY <1>2, <2>1 DEF Tied, PaeFields
    <2>6. t = "HELD" => n.authPortStatus = "Unauthorized"
      BY <1>2, <2>1 DEF Tied, PaeFields
    <2>7. t = "DISCONNECTED" => n.reAuthCount = 0
      BY <1>2, <2>1 DEF Tied, PaeFields
    <2>8. ASSUME t = "AUTHENTICATING" PROVE Authenticating(n, e)
      <3>1. CASE a = "AUTHENTICATING"
        BY <1>2, <2>1, <2>8, <3>1 DEF Tied, Authenticating, PaeFields, Idle
      <3>2. CASE a # "AUTHENTICATING"
        <4>1. a = "CONNECTING" /\ Offered(i)
          BY <1>1, <2>1, <2>8, <3>2 DEF PaeInState, PaeAuthenticated, Offered
        <4> QED
          BY <1>2, <2>1, <2>8, <4>1 DEF Between, Authenticating, PaeFields, Idle, Results
      <3> QED
        BY <3>1, <3>2
    <2>9. Tied(n, e, j)
      BY <2>2, <2>3, <2>4, <2>5, <2>6, <2>7, <2>8 DEF Tied
    <2>10. n.authAbort => t = "ABORTING"
      BY <1>2, <1>3 DEF PaeFields
    <2>11. t = "RESTART" => j.eapRestart
      BY <1>2, <2>1 DEF PaeInState
    <2>12. ASSUME t = "CONNECTING", Offered(j)
           PROVE  /\ n.be_auth \notin Results
                  /\ ~j.eapSuccess /\ ~j.eapTimeout /\ (j.eapFail => conf.eap_server)
      <3>1. Offered(i)
        BY <1>2, <2>12 DEF Offered, Kin
      <3>2. a = "RESTART" /\ ~i.eapRestart
        BY <1>1, <2>1, <2>12, <3>1 DEF PaeInState, PaeAuthenticated, Offered
      <3>3. m.be_auth \notin Results /\ Restarted(e, i)
        BY <2>1, <3>2 DEF Between
      <3> QED
        BY <1>2, <1>3, <3>3 DEF Restarted, Kin, PaeFields, Wired, e, i
    <2>13. n.be_auth = "INITIALIZE" => t \in {"ABORTING", "RESTART", "DISCONNECTED"}
      BY <1>2, <1>3, <2>1 DEF Between, PaeFields, PaeInState
    <2>14. conf.eap_server /\ n.be_auth \in Exchanging => t = "AUTHENTICATING" \/ n.authAbort
      BY <1>1, <1>2, <2>1 DEF Between, Tied, Authenticating, PaeFields, PaeInState, Exchanging, Idle
    <2>15. conf.eap_server /\ n.authStart =>
             \/ t = "AUTHENTICATING" \/ n.authAbort
             \/ n.be_auth \in Results \cup {"INITIALIZE"}
      BY <1>1, <1>2, <2>1 DEF Between, Tied, Authenticating, PaeFields, PaeInState, Results, Idle
    <2>16. Midway(n, e, j)
      BY <2>11, <2>12, <2>13, <2>14, <2>15 DEF Midway
    <2> QED
      BY <1>2, <1>3, <1>4, <1>6, <2>2, <2>9, <2>10, <2>16 DEF AfterPae, Linked, m, e, i, n, j
  <1> QED
    BY <1>1, <1>5, <1>6

\* A run has room for all that it may have to do: 100 passes in the code.  After
\* reAuthMax = 0 restarts AUTH_PAE would never wait in CONNECTING, after a
\* quietPeriod of 0 never in HELD.
LongRuns == max_steps >= 65 /\ MaxEapSteps >= 10 /\ quietPeriod > 0 /\ reAuthMax > 0

\* When the EAP machine has nothing to do.
Still(e, i) ==
    /\ ~(i.eapRestart /\ i.portEnabled)
    /\ \/ ~i.portEnabled /\ e.state = "DISABLED"
       \/ /\ i.portEnabled /\ e.num_rounds # EAP_MAX_AUTH_ROUNDS + 1
          /\ \/ e.num_rounds > EAP_MAX_AUTH_ROUNDS
             \/ e.state \in Succeeded \cup Failed \cup TimedOut
             \/ e.state \in {"IDLE", "IDLE2"} /\ i.retransWhile # 0 /\ ~i.eapResp
             \/ /\ e.state = "METHOD_RESPONSE" /\ e.methodState # "END"
                /\ e.method_pending = "WAIT"
             \/ e.state = "AAA_IDLE" /\ ~i.aaaFail /\ ~i.aaaSuccess /\ ~i.aaaEapReq

\* That is when it enters no state.
LEMMA StillStays ==
    ASSUME NEW e \in EapType, NEW i
    PROVE  SM_STEP_EAP(e, i) = "stay" <=> Still(e, i)
  <1>1. e.state \in EapStates /\ e.num_rounds \in Nat /\ EAP_MAX_AUTH_ROUNDS \in Nat
        /\ e.decision \in {"FAILURE", "SUCCESS", "CONTINUE", "PASSTHROUGH"}
    BY EapAssumption DEF EapType
  <1>2. EapInState(e, i) = "stay" <=>
             \/ e.state \in Succeeded \cup Failed \cup TimedOut
             \/ e.state \in {"IDLE", "IDLE2"} /\ i.retransWhile # 0 /\ ~i.eapResp
             \/ /\ e.state = "METHOD_RESPONSE" /\ e.methodState # "END"
                /\ e.method_pending = "WAIT"
             \/ e.state = "AAA_IDLE" /\ ~i.aaaFail /\ ~i.aaaSuccess /\ ~i.aaaEapReq
    BY <1>1 DEF EapInState, EapStates, Succeeded, Failed, TimedOut
  <1> QED
    BY <1>1, <1>2 DEF SM_STEP_EAP, Still

\* The EAP machine has as much to do when its interface has changed in nothing it
\* looks at.
LEMMA SameMoves ==
    ASSUME NEW g, NEW h, g.eap \in EapType, h.eap = g.eap, Kin(g.eap_if, h.eap_if),
           h.eap_if.portEnabled = g.eap_if.portEnabled,
           h.eap_if.eapResp = g.eap_if.eapResp,
           h.eap_if.eapRestart = g.eap_if.eapRestart
    PROVE  EapMoves(h) = EapMoves(g)
  <1>1. Still(h.eap, h.eap_if) <=> Still(g.eap, g.eap_if)
    BY DEF Still, Kin
  <1> QED
    BY <1>1, StillStays DEF EapMoves

\* AUTH_PAE lowers the work when it changes its state.
LEMMA PaeWorks ==
    ASSUME NEW g, Typed(g), BeforePass(g), NEW h, Typed(h), PaeEffect(g, h), LongRuns
    PROVE  /\ Work(h) <= Work(g)
           /\ h.sm.auth_pae # g.sm.auth_pae => Work(h) < Work(g)
  <1> DEFINE m == g.sm
             i == g.eap_if
             n == h.sm
             j == h.eap_if
             a == m.auth_pae
             t == n.auth_pae
  <1>1. /\ a \in {"INITIALIZE", "DISCONNECTED", "RESTART", "CONNECTING", "AUTHENTICATING",
                  "AUTHENTICATED", "ABORTING", "HELD"}
        /\ m.be_auth \in {"INITIALIZE", "REQUEST", "RESPONSE", "SUCCESS", "FAIL", "TIMEOUT",
                          "IDLE", "IGNORE"}
        /\ m.reAuthCount \in Nat /\ i.portEnabled \in BOOLEAN /\ m.aWhile \in Nat
        /\ m.quietWhile \in Nat /\ m.reAuthWhen \in Nat
        /\ i.eapRestart \in BOOLEAN
    BY PartsOf, EapolAssumption DEF PortType, EapIfType
  <1>1a. /\ t \in {"INITIALIZE", "DISCONNECTED", "RESTART", "CONNECTING", "AUTHENTICATING",
                   "AUTHENTICATED", "ABORTING", "HELD"}
         /\ n.reAuthCount \in Nat /\ n.quietWhile \in Nat /\ j.eapRestart \in BOOLEAN
    BY PartsOf, EapolAssumption DEF PortType, EapIfType
  <1>1b. /\ reAuthMax \in Nat /\ reAuthMax > 0 /\ quietPeriod \in Nat /\ quietPeriod > 0
         /\ g.eap \in EapType
    BY EapolAssumption DEF LongRuns, Typed, EapOK, EapTyped
  <1>2. /\ h.eap = g.eap
        /\ t = IF i.portEnabled THEN PaeInState(m, i) ELSE "INITIALIZE"
        /\ PaeFields(m, n) /\ Kin(i, j)
        /\ j.portEnabled = i.portEnabled /\ j.eapResp = i.eapResp
        /\ j.eapRestart <=> i.eapRestart \/ (t = "RESTART" /\ a # "RESTART")
    BY DEF PaeEffect
  <1>3. ~m.authAbort /\ (i.portEnabled => Tied(m, g.eap, i) /\ Between(m, g.eap, i))
    BY DEF BeforePass, Linked
  <1>4. EapMoves(g) \in 0 .. 1 /\ EapMoves(h) \in 0 .. 1
    BY DEF EapMoves
  <1>5. ~(t = "RESTART" /\ a # "RESTART") => EapMoves(h) = EapMoves(g)
    BY <1>1, <1>1a, <1>1b, <1>2, SameMoves
  <1>6. /\ BeWork(m) \in 0 .. 10 /\ BeWork(n) \in 0 .. 10
        /\ t # "AUTHENTICATING" \/ a = t => BeWork(n) = BeWork(m)
        /\ BeWork(n) <= BeWork(m) + 5
    BY <1>1, <1>2 DEF BeWork, PaeFields
  <1>7. TimerWork(m) \in 0 .. 18 /\ TimerWork(n) = TimerWork(m)
    BY <1>1, <1>2 DEF TimerWork, PaeFields
  <1> HIDE DEF m, i, n, j
  <1>8. CASE ~i.portEnabled
    <2>1. PortWork(m, i) \in 0 .. 1 /\ PortWork(n, j) = 0 /\ (t # a => PortWork(m, i) = 1)
      BY <1>1, <1>2, <1>8 DEF PortWork
    <2> QED
      BY <1>2, <1>4, <1>5, <1>6, <1>7, <1>8, <2>1 DEF Work, m, i, n, j
  <1>9. CASE i.portEnabled
    <2>1. t = PaeInState(m, i) /\ Tied(m, g.eap, i) /\ Between(m, g.eap, i)
      BY <1>2, <1>3, <1>9
    <2>2. /\ PortWork(m, i) = 4 + PaeWork(m, i) + (IF StartsOver(m, i) THEN 16 ELSE 0)
                                + (IF m.eapolLogoff THEN 4 ELSE 0)
          /\ PortWork(n, j) = 4 + PaeWork(n, j) + (IF StartsOver(n, j) THEN 16 ELSE 0)
                                + (IF n.eapolLogoff THEN 4 ELSE 0)
      BY <1>2, <1>9 DEF PortWork
    <2>3. PortWork(m, i) \in Nat /\ PortWork(n, j) \in Nat
      BY <1>1, <1>1a, <2>2 DEF PaeWork
    <2>4. CASE t = a
      <3>1. PortWork(n, j) = PortWork(m, i)
        BY <1>1, <1>2, <2>2, <2>4 DEF PaeWork, StartsOver, PaeFields, Kin
      <3> QED
        BY <1>4, <1>5, <1>6, <1>7, <2>3, <2>4, <3>1 DEF Work, m, i, n, j
    <2>5. CASE a = "INITIALIZE" \/ a = "DISCONNECTED"
      <3>0. ~StartsOver(m, i) /\ ~StartsOver(n, j)
        BY <2>1, <2>5 DEF StartsOver, PaeInState
      <3>1a. n.eapolLogoff => m.eapolLogoff
        BY <1>2 DEF PaeFields
      <3>1b. ASSUME a = "INITIALIZE" PROVE PortWork(n, j) + 1 <= PortWork(m, i)
        <4>1. t = "DISCONNECTED"
          BY <2>1, <3>1b DEF PaeInState
        <4>2. PaeWork(n, j) = 10 /\ PaeWork(m, i) = 11
          BY <3>1b, <4>1 DEF PaeWork
        <4> QED
          BY <2>2, <3>0, <3>1a, <3>1b, <4>2
      <3>1c. ASSUME a = "DISCONNECTED" PROVE PortWork(n, j) + 2 <= PortWork(m, i)
        <4>1. t = "RESTART" /\ n.reAuthCount = 0
          BY <1>2, <2>1, <3>1c DEF PaeInState, PaeFields, Tied
        <4>2. PaeWork(n, j) = 8 /\ PaeWork(m, i) = 10
          BY <1>1b, <3>1c, <4>1 DEF PaeWork
        <4> QED
          BY <2>2, <3>0, <3>1a, <3>1c, <4>2
      <3>1. PortWork(n, j) + 1 <= PortWork(m, i)
        BY <2>3, <2>5, <3>1b, <3>1c
      <3>2. a = "DISCONNECTED" => PortWork(n, j) + 2 <= PortWork(m, i)
        BY <3>1c
      <3>3. t = "RESTART" => a = "DISCONNECTED"
        BY <2>1, <2>5 DEF PaeInState
      <3>4. t # "AUTHENTICATING"
        BY <2>1, <2>5 DEF PaeInState
      <3> QED
        BY <1>4, <1>5, <1>6, <1>7, <2>3, <3>1, <3>2, <3>3, <3>4 DEF Work, m, i, n, j
    <2>6. CASE a = "RESTART" /\ t # a
      <3>1. t = "CONNECTING" /\ PortWork(n, j) + 1 <= PortWork(m, i)
        BY <1>1, <1>1b, <1>2, <2>1, <2>2, <2>6 DEF PaeWork, StartsOver, PaeFields, Kin, PaeInState
      <3> QED
        BY <1>4, <1>5, <1>6, <1>7, <2>3, <3>1 DEF Work, m, i, n, j
    <2>7. CASE a = "HELD" /\ t # a
      <3>1. t = "RESTART" /\ PortWork(n, j) + 2 <= PortWork(m, i)
        BY <1>1, <1>1b, <1>2, <2>1, <2>2, <2>7 DEF PaeWork, StartsOver, PaeFields, Kin, PaeInState
      <3> QED
        BY <1>4, <1>5, <1>6, <1>7, <2>3, <3>1 DEF Work, m, i, n, j
    <2>8. CASE a = "CONNECTING" /\ t # a
      <3>1. CASE t = "DISCONNECTED"
        <4>1. PortWork(n, j) + 1 <= PortWork(m, i)
          BY <1>1, <1>1b, <1>2, <2>1, <2>2, <2>8, <3>1
             DEF PaeWork, StartsOver, PaeFields, Kin, PaeInState
        <4> QED
          BY <1>4, <1>5, <1>6, <1>7, <2>3, <3>1, <4>1 DEF Work, m, i, n, j
      <3>2. CASE t = "AUTHENTICATING"
        <4>1. PortWork(n, j) + 6 <= PortWork(m, i)
          BY <1>1, <1>1b, <1>2, <2>1, <2>2, <2>8, <3>2
             DEF PaeWork, StartsOver, PaeFields, Kin, PaeInState, Between, Offered
        <4> QED
          BY <1>4, <1>5, <1>6, <1>7, <2>3, <3>2, <4>1 DEF Work, m, i, n, j
      <3> QED
        BY <2>1, <2>8, <3>1, <3>2 DEF PaeInState
    <2>9. CASE a = "AUTHENTICATED" /\ t # a
      <3>1. t \in {"RESTART", "DISCONNECTED"} /\ PortWork(n, j) + 2 <= PortWork(m, i)
        BY <1>1, <1>1b, <1>2, <2>1, <2>2, <2>9
           DEF PaeWork, StartsOver, PaeFields, Kin, PaeInState, PaeAuthenticated, Tied
      <3> QED
        BY <1>4, <1>5, <1>6, <1>7, <2>3, <3>1 DEF Work, m, i, n, j
    <2>10. CASE a = "AUTHENTICATING" /\ t # a
      <3>1. t \in {"AUTHENTICATED", "HELD", "ABORTING"} /\ PortWork(n, j) + 1 <= PortWork(m, i)
        BY <1>1, <1>1b, <1>2, <1>3, <2>1, <2>2, <2>10
           DEF PaeWork, StartsOver, PaeFields, Kin, PaeInState
      <3> QED
        BY <1>4, <1>5, <1>6, <1>7, <2>3, <3>1 DEF Work, m, i, n, j
    <2>11. CASE a = "ABORTING" /\ t # a
      <3>1. t \in {"RESTART", "DISCONNECTED"} /\ PortWork(n, j) + 2 <= PortWork(m, i)
        BY <1>1, <1>1b, <1>2, <1>3, <2>1, <2>2, <2>11
           DEF PaeWork, StartsOver, PaeFields, Kin, PaeInState
      <3> QED
        BY <1>4, <1>5, <1>6, <1>7, <2>3, <3>1 DEF Work, m, i, n, j
    <2> QED
      BY <1>1, <2>4, <2>5, <2>6, <2>7, <2>8, <2>9, <2>10, <2>11
  <1> QED
    BY <1>1, <1>8, <1>9


\* BE_AUTH.
LEMMA BeKeeps ==
    ASSUME NEW g, Typed(g), AfterPae(g), NEW h, BeEffect(g, h)
    PROVE  BeforePass(h)
  <1> DEFINE m == g.sm
             e == g.eap
             i == g.eap_if
             n == h.sm
             j == h.eap_if
             b == m.be_auth
             c == n.be_auth
             t == SM_STEP_BE_AUTH(m, i)
  <1>1. b \in BeStates /\ m.aWhile \in Nat /\ serverTimeout \in Nat /\ serverTimeout > 0
    BY PartsOf, EapolAssumption DEF PortType, BeStates
  <1>2. /\ h.eap = e /\ h.awaiting = g.awaiting
        /\ BeFields(m, n, t) /\ BeSignals(i, j, t)
        /\ IF t = "INITIALIZE" /\ i.eapTimeout THEN j.portEnabled = FALSE /\ h.sta = "removing"
           ELSE j.portEnabled = i.portEnabled /\ h.sta = g.sta
        /\ t # "stay" => c = t
        /\ t = "stay" => c = b \/ (b = "RESPONSE" /\ c = "IGNORE")
    BY DEF BeEffect, BeMoved
  <1>3. /\ Wired(g) /\ (m.auth_pae = "AUTHENTICATED" => e.state \in Succeeded)
        /\ m.authAbort => i.portEnabled /\ m.auth_pae = "ABORTING"
        /\ e.num_rounds # EAP_MAX_AUTH_ROUNDS + 1
        /\ i.portEnabled => Tied(m, e, i) /\ Midway(m, e, i)
    BY DEF AfterPae, Linked
  <1>4. Wired(h)
    BY <1>2, <1>3 DEF Wired, BeSignals, Kin
  <1>5. t \in BeStates \cup {"stay"} /\ (t = "INITIALIZE" <=> m.authAbort)
    <2>1. m \in PortType
      BY PartsOf
    <2>2. t \in BeStates \cup {"stay"}
      BY <2>1, BeTarget
    <2> HIDE DEF m, i
    <2>3. t = "INITIALIZE" <=> m.authAbort
      BY <1>1 DEF SM_STEP_BE_AUTH, BeAwaitSupplicant, BeAwaitServer, BeStates
    <2> QED
      BY <2>2, <2>3
  <1>6. ~n.authAbort
    BY <1>2, <1>5 DEF BeFields
  <1>7. n.auth_pae = m.auth_pae
    BY <1>2 DEF BeFields
  <1>8. ASSUME j.portEnabled
        PROVE  Tied(n, e, j) /\ Between(n, e, j)
    <2> HIDE DEF m, e, i, n, j
    <2>1. Tied(m, e, i) /\ Midway(m, e, i)
      BY <1>2, <1>3, <1>8
    <2>2. Signals(e, j)
      BY <1>2, <2>1 DEF Tied, Signals, BeSignals, Kin
    <2>3. ASSUME m.auth_pae = "AUTHENTICATING"
          PROVE  Authenticating(n, e)
      <3>1. ~m.authAbort /\ Authenticating(m, e) /\ Signals(e, i)
        BY <1>3, <2>1, <2>3 DEF Tied
      <3>2. CASE t = "stay"
        <4>1. b \notin {"INITIALIZE", "SUCCESS", "FAIL", "TIMEOUT"}
          BY <3>2, <3>1 DEF SM_STEP_BE_AUTH
        <4> QED
          BY <1>2, <3>1, <3>2, <4>1 DEF Authenticating, BeFields, Idle
      <3>3. CASE t # "stay"
        <4>1. CASE b \in {"INITIALIZE", "SUCCESS", "FAIL", "TIMEOUT"}
          <5>1. t = "IDLE" /\ b # "INITIALIZE"
            BY <2>1, <2>3, <3>1, <4>1 DEF SM_STEP_BE_AUTH, Midway
          <5> QED
            BY <1>2, <3>1, <4>1, <5>1 DEF Authenticating, BeFields, Idle
        <4>2. CASE b \in {"REQUEST", "IGNORE"}
          BY <1>2, <3>1, <3>3, <4>2
             DEF Authenticating, BeFields, Idle, SM_STEP_BE_AUTH, BeAwaitSupplicant
        <4>3. CASE b = "RESPONSE"
          BY <1>2, <3>1, <3>3, <4>3
             DEF Authenticating, BeFields, Idle, SM_STEP_BE_AUTH, BeAwaitServer, Signals
        <4>4. CASE b = "IDLE"
          BY <1>2, <3>1, <3>3, <4>4
             DEF Authenticating, BeFields, Idle, SM_STEP_BE_AUTH, Signals
        <4> QED
          BY <1>1, <4>1, <4>2, <4>3, <4>4 DEF BeStates
      <3> QED
        BY <3>2, <3>3
    <2>4. Tied(n, e, j)
      BY <1>2, <2>1, <2>2, <2>3 DEF Tied, BeFields, BeSignals
    <2>5. ~(n.auth_pae = "RESTART" /\ ~j.eapRestart)
      BY <1>2, <2>1 DEF Midway, BeFields, BeSignals
    <2>6. ASSUME n.auth_pae = "CONNECTING", Offered(j)
          PROVE  c \notin Results /\ (c = "RESPONSE" => n.aWhile > 0)
      <3>1. Offered(i)
        BY <1>2, <2>6 DEF Offered, BeSignals, Kin
      <3>2. /\ b \notin Results /\ ~i.eapSuccess /\ ~i.eapTimeout
            /\ i.eapFail => conf.eap_server /\ ~m.authAbort
        BY <1>3, <1>7, <2>1, <2>6, <3>1 DEF Midway
      <3>3. ~m.authAbort /\ (i.eapReq \/ i.eapFail)
        BY <1>3, <1>7, <2>6, <3>1, <3>2 DEF Offered
      <3>4. CASE b = "INITIALIZE"
        BY <1>2, <3>3, <3>4 DEF SM_STEP_BE_AUTH, Results
      <3>5. CASE b \in {"REQUEST", "IGNORE"}
        BY <1>1, <1>2, <3>2, <3>3, <3>5 DEF SM_STEP_BE_AUTH, Results, BeAwaitSupplicant, BeFields
      <3>6. CASE b = "RESPONSE"
        <4>1. i.eapReq
          BY <1>7, <2>1, <2>6, <3>2, <3>3, <3>6 DEF Midway, Exchanging
        <4> QED
          BY <1>2, <3>3, <3>6, <4>1 DEF SM_STEP_BE_AUTH, Results, BeAwaitServer
      <3>7. CASE b = "IDLE"
        <4>1. m.authStart => ~conf.eap_server
          BY <1>7, <2>1, <2>6, <3>3, <3>7 DEF Midway, Results
        <4> QED
          BY <1>2, <3>2, <3>3, <3>7, <4>1 DEF SM_STEP_BE_AUTH, Results
      <3> QED
        BY <1>1, <3>2, <3>4, <3>5, <3>6, <3>7 DEF BeStates, Results
    <2>7. c = "INITIALIZE" => n.auth_pae = "ABORTING"
      <3>1. t = "stay" => b # "INITIALIZE"
        BY DEF SM_STEP_BE_AUTH
      <3> QED
        BY <1>2, <1>3, <1>5, <1>7, <3>1
    <2>8. /\ conf.eap_server /\ c \in Exchanging => n.auth_pae = "AUTHENTICATING"
          /\ conf.eap_server /\ n.authStart => n.auth_pae = "AUTHENTICATING" \/ c = "INITIALIZE"
      <3>1. conf.eap_server /\ b \in Exchanging =>
              m.auth_pae = "AUTHENTICATING" \/ m.authAbort
        BY <2>1 DEF Midway
      <3>2. conf.eap_server /\ m.authStart =>
              \/ m.auth_pae = "AUTHENTICATING" \/ m.authAbort
              \/ b \in Results \cup {"INITIALIZE"}
        BY <2>1 DEF Midway
      <3>3. ~m.authAbort /\ b \in {"INITIALIZE", "SUCCESS", "FAIL", "TIMEOUT"} => c = "IDLE" /\ t = "IDLE"
        BY <1>2 DEF SM_STEP_BE_AUTH
      <3>4. ~m.authAbort /\ b = "IDLE" /\ c \in Exchanging => m.authStart
        BY <1>2 DEF SM_STEP_BE_AUTH, Exchanging
      <3>5. n.authStart => m.authStart /\ t # "IDLE"
        BY <1>2 DEF BeFields
      <3> QED
        BY <1>1, <1>2, <1>5, <1>7, <3>1, <3>2, <3>3, <3>4, <3>5
           DEF BeStates, Results, Exchanging
    <2> QED
      BY <2>4, <2>5, <2>6, <2>7, <2>8 DEF Between
  <1> QED
    BY <1>2, <1>3, <1>4, <1>6, <1>7, <1>8 DEF BeforePass, Linked

\* The WPA machine and REAUTH_TIMER.
LEMMA CloseKeeps ==
    ASSUME NEW g, BeforePass(g), NEW h, MayClose(g, h)
    PROVE  BeforePass(h)
  <1> DEFINE m == g.sm
             e == g.eap
             i == g.eap_if
             n == h.sm
             j == h.eap_if
  <1>2. /\ h.eap = e /\ h.awaiting = g.awaiting
        /\ OthersSame(m, n) /\ SignalsSame(i, j)
        /\ \/ n.portValid = m.portValid /\ h.sta = g.sta /\ j.portEnabled = i.portEnabled
           \/ n.portValid = FALSE /\ h.sta = "removing" /\ j.portEnabled = FALSE
    BY DEF MayClose
  <1>3. /\ Wired(g) /\ (m.auth_pae = "AUTHENTICATED" => e.state \in Succeeded) /\ ~m.authAbort
        /\ e.num_rounds # EAP_MAX_AUTH_ROUNDS + 1
        /\ i.portEnabled => Tied(m, e, i) /\ Between(m, e, i)
    BY DEF BeforePass, Linked
  <1>4. Wired(h)
    BY <1>2, <1>3 DEF Wired, SignalsSame, Kin
  <1>5. ~n.authAbort /\ n.auth_pae = m.auth_pae
    BY <1>2, <1>3 DEF OthersSame
  <1>6. ASSUME j.portEnabled
        PROVE  Tied(n, e, j) /\ Between(n, e, j)
    <2> HIDE DEF m, e, i, n, j
    <2>1. Tied(m, e, i) /\ Between(m, e, i) /\ n.portValid = m.portValid
      BY <1>2, <1>3, <1>6
    <2>2. Signals(e, j)
      BY <1>2, <2>1 DEF Tied, Signals, SignalsSame, Kin
    <2>3. m.auth_pae = "AUTHENTICATING" => Authenticating(n, e)
      BY <1>2, <2>1 DEF Tied, Authenticating, Idle, OthersSame
    <2>4. Tied(n, e, j)
      BY <1>2, <2>1, <2>2, <2>3 DEF Tied, OthersSame, SignalsSame
    <2>5. Restarted(e, i) => Restarted(e, j)
      BY <1>2 DEF Restarted, SignalsSame, Kin
    <2>6. Offered(j) <=> Offered(i)
      BY <1>2 DEF Offered, SignalsSame, Kin
    <2>7. Between(n, e, j)
      BY <1>2, <2>1, <2>5, <2>6 DEF Between, OthersSame, SignalsSame
    <2> QED
      BY <2>4, <2>7
  <1> QED
    BY <1>2, <1>3, <1>4, <1>5, <1>6 DEF BeforePass, Linked

\* BE_AUTH lowers the work when it changes its state.
LEMMA BeWorks ==
    ASSUME NEW g, Typed(g), AfterPae(g), NEW h, Typed(h), BeEffect(g, h), LongRuns
    PROVE  /\ Work(h) <= Work(g)
           /\ h.sm.be_auth # g.sm.be_auth => Work(h) < Work(g)
  <1> DEFINE m == g.sm
             i == g.eap_if
             n == h.sm
             j == h.eap_if
             b == m.be_auth
             c == n.be_auth
             t == SM_STEP_BE_AUTH(m, i)
  <1>1. /\ b \in BeStates /\ m.aWhile \in Nat /\ m.reAuthCount \in Nat
        /\ m.auth_pae \in {"INITIALIZE", "DISCONNECTED", "RESTART", "CONNECTING",
                    "AUTHENTICATING", "AUTHENTICATED", "ABORTING", "HELD"}
        /\ i.portEnabled \in BOOLEAN /\ m.eapolEap \in BOOLEAN
    BY PartsOf, EapolAssumption DEF PortType, EapIfType, BeStates
  <1>1a. reAuthMax \in Nat /\ g.eap \in EapType /\ serverTimeout \in Nat /\ serverTimeout > 0
    BY EapolAssumption DEF Typed, EapOK, EapTyped
  <1>2. /\ h.eap = g.eap
        /\ BeFields(m, n, t) /\ BeSignals(i, j, t)
        /\ IF t = "INITIALIZE" /\ i.eapTimeout THEN j.portEnabled = FALSE
           ELSE j.portEnabled = i.portEnabled
        /\ t # "stay" => c = t
        /\ t = "stay" => c = b \/ (b = "RESPONSE" /\ c = "IGNORE")
    BY DEF BeEffect, BeMoved
  <1>3. /\ m.authAbort => i.portEnabled /\ m.auth_pae = "ABORTING"
        /\ i.portEnabled => Tied(m, g.eap, i) /\ Midway(m, g.eap, i)
    BY DEF AfterPae, Linked
  <1>4. EapMoves(g) \in 0 .. 1 /\ EapMoves(h) \in 0 .. 1
    BY DEF EapMoves
  <1>5. t # "RESPONSE" /\ j.portEnabled = i.portEnabled => EapMoves(h) = EapMoves(g)
    <2>1. i \in EapIfType /\ j \in EapIfType
      BY PartsOf
    <2>2. t # "RESPONSE" => j.eapResp = i.eapResp
      BY <1>2, <2>1 DEF BeSignals, EapIfType
    <2> QED
      BY <1>1a, <1>2, <2>2, SameMoves DEF BeSignals
  <1>6. TimerWork(n) = TimerWork(m) /\ TimerWork(m) \in 0 .. 18
    BY <1>2 DEF TimerWork, BeFields
  <1> HIDE DEF m, i, n, j
  <1>7. t \in BeStates \cup {"stay"}
    BY <1>1 DEF SM_STEP_BE_AUTH, BeAwaitSupplicant, BeAwaitServer, BeStates
  <1>8. BeWork(m) \in Nat /\ BeWork(n) \in Nat
    BY DEF BeWork
  <1>9. PaeWork(m, i) \in Nat /\ PortWork(m, i) \in Nat
    <2>1. PaeWork(m, i) \in Nat
      BY <1>1 DEF PaeWork
    <2> QED
      BY <2>1 DEF PortWork
  <1>10. CASE m.authAbort
    <2>1. /\ t = "INITIALIZE" /\ c = "INITIALIZE" /\ ~n.authAbort /\ i.portEnabled
          /\ m.auth_pae = "ABORTING" /\ n.auth_pae = "ABORTING"
          /\ (n.eapolEap <=> m.eapolEap) /\ n.eapolLogoff = m.eapolLogoff
      BY <1>2, <1>3, <1>10 DEF SM_STEP_BE_AUTH, BeFields
    <2>2. BeWork(n) <= BeWork(m) + 1
      BY <1>1, <2>1 DEF BeWork
    <2>3. ~StartsOver(m, i) /\ ~StartsOver(n, j)
      BY <2>1 DEF StartsOver
    <2>4. CASE i.eapTimeout
      <3>1. PortWork(m, i) >= 4 /\ PortWork(n, j) = 1
        BY <1>2, <1>9, <2>1, <2>4 DEF PortWork
      <3> QED
        BY <1>4, <1>6, <1>8, <1>9, <2>2, <3>1 DEF Work, m, i, n, j
    <2>5. CASE ~i.eapTimeout
      <3>1. PaeWork(m, i) = 16 /\ PaeWork(n, j) = 14
        BY <1>10, <2>1, <2>5 DEF PaeWork
      <3>2. j.portEnabled = i.portEnabled /\ EapMoves(h) = EapMoves(g)
        BY <1>2, <1>5, <2>1, <2>5
      <3>3. PortWork(n, j) + 2 = PortWork(m, i) /\ PortWork(n, j) \in Nat
        BY <2>1, <2>3, <3>1, <3>2 DEF PortWork
      <3> QED
        BY <1>4, <1>6, <1>8, <1>9, <2>2, <3>2, <3>3 DEF Work, m, i, n, j
    <2> QED
      BY <2>4, <2>5
  <1>11. CASE ~m.authAbort
    <2>1. t # "INITIALIZE" /\ j.portEnabled = i.portEnabled /\ ~n.authAbort
      BY <1>1, <1>2, <1>11
         DEF SM_STEP_BE_AUTH, BeAwaitSupplicant, BeAwaitServer, BeStates, BeFields
    <2>2. PaeWork(n, j) = PaeWork(m, i)
      <3>1. /\ n.auth_pae = m.auth_pae /\ n.reAuthCount = m.reAuthCount
            /\ n.quietWhile = m.quietWhile /\ j.eapTimeout = i.eapTimeout
        BY <1>2 DEF BeFields, BeSignals, Kin
      <3> QED
        BY <1>1, <1>11, <2>1, <3>1 DEF PaeWork
    <2>3. StartsOver(n, j) => StartsOver(m, i)
      <3>1. n.authTimeout /\ ~m.authTimeout =>
               t = "TIMEOUT" /\ (i.eapTimeout \/ (b = "RESPONSE" /\ m.aWhile = 0))
        BY <1>1, <1>2, <1>11
           DEF BeFields, SM_STEP_BE_AUTH, BeAwaitSupplicant, BeAwaitServer, BeStates
      <3>2. c = "RESPONSE" /\ n.aWhile = 0 => b = "RESPONSE" /\ m.aWhile = 0
        BY <1>1, <1>1a, <1>2, <1>11
           DEF BeFields, SM_STEP_BE_AUTH, BeAwaitSupplicant, BeAwaitServer, BeStates
      <3> QED
        BY <1>2, <3>1, <3>2 DEF StartsOver, BeFields, BeSignals, Kin
    <2>4. PortWork(n, j) <= PortWork(m, i) /\ PortWork(n, j) \in Nat
      <3>1. n.eapolLogoff = m.eapolLogoff /\ n.auth_pae = m.auth_pae
        BY <1>2 DEF BeFields
      <3> QED
        BY <1>9, <2>1, <2>2, <2>3, <3>1 DEF PortWork
    <2>5. CASE t = "stay" /\ c = b
      <3>1. BeWork(n) = BeWork(m)
        BY <1>1, <1>2, <2>5 DEF BeWork, BeFields
      <3> QED
        BY <1>4, <1>5, <1>6, <1>8, <1>9, <2>1, <2>4, <2>5, <3>1 DEF Work, m, i, n, j
    <2>6. CASE t = "stay" /\ c # b
      <3>1. BeWork(n) + 1 = BeWork(m)
        BY <1>1, <1>2, <2>6 DEF BeWork, BeFields
      <3> QED
        BY <1>4, <1>5, <1>6, <1>8, <1>9, <2>1, <2>4, <2>6, <3>1 DEF Work, m, i, n, j
    <2>7. CASE t = "RESPONSE"
      <3>1. b \in {"REQUEST", "IGNORE"} /\ m.eapolEap /\ ~n.eapolEap /\ c = "RESPONSE"
        BY <1>1, <1>2, <1>11, <2>7
           DEF BeFields, SM_STEP_BE_AUTH, BeAwaitSupplicant, BeAwaitServer, BeStates
      <3>2. BeWork(n) + 2 <= BeWork(m)
        BY <3>1 DEF BeWork
      <3> QED
        BY <1>4, <1>6, <1>8, <1>9, <2>4, <3>2 DEF Work, m, i, n, j
    <2>8. CASE t \notin {"stay", "RESPONSE"}
      <3>1. CASE b \in {"INITIALIZE", "SUCCESS", "FAIL", "TIMEOUT"}
        <4>1. c = "IDLE" /\ ~n.authStart /\ (n.eapolEap <=> m.eapolEap)
          BY <1>1, <1>2, <1>11, <3>1, <2>8 DEF SM_STEP_BE_AUTH, BeFields
        <4>2. BeWork(n) + 1 = BeWork(m)
          BY <3>1, <4>1 DEF BeWork
        <4> QED
          BY <1>4, <1>5, <1>6, <1>8, <1>9, <2>1, <2>4, <2>8, <4>2 DEF Work, m, i, n, j
      <3>2. CASE b \in {"REQUEST", "IGNORE"}
        <4>1. c \in {"REQUEST", "TIMEOUT"} /\ ~n.eapolEap /\ ~m.eapolEap
          BY <1>1, <1>2, <1>11, <3>2, <2>8 DEF SM_STEP_BE_AUTH, BeFields, BeAwaitSupplicant
        <4>2. BeWork(n) <= BeWork(m) /\ (c # b => BeWork(n) + 1 <= BeWork(m))
          BY <3>2, <4>1 DEF BeWork
        <4> QED
          BY <1>4, <1>5, <1>6, <1>8, <1>9, <2>1, <2>4, <2>8, <4>2 DEF Work, m, i, n, j
      <3>3. CASE b = "RESPONSE"
        <4>1. c \in {"REQUEST", "TIMEOUT", "FAIL", "SUCCESS"} /\ (n.eapolEap => m.eapolEap)
          BY <1>1, <1>2, <1>11, <3>3, <2>8 DEF SM_STEP_BE_AUTH, BeFields, BeAwaitServer
        <4>2. BeWork(n) + 1 <= BeWork(m)
          BY <3>3, <4>1 DEF BeWork
        <4> QED
          BY <1>4, <1>5, <1>6, <1>8, <1>9, <2>1, <2>4, <2>8, <4>2 DEF Work, m, i, n, j
      <3>4. CASE b = "IDLE"
        <4>1. /\ c \in {"REQUEST", "FAIL", "SUCCESS"} /\ (n.eapolEap => m.eapolEap)
              /\ m.authStart
          BY <1>1, <1>2, <1>11, <3>4, <2>8 DEF SM_STEP_BE_AUTH, BeFields
        <4>2. BeWork(n) + 1 <= BeWork(m)
          BY <3>4, <4>1 DEF BeWork
        <4> QED
          BY <1>4, <1>5, <1>6, <1>8, <1>9, <2>1, <2>4, <2>8, <4>2 DEF Work, m, i, n, j
      <3> QED
        BY <1>1, <3>1, <3>2, <3>3, <3>4 DEF BeStates
    <2> QED
      BY <2>5, <2>6, <2>7, <2>8
  <1> QED
    BY <1>10, <1>11

\* REAUTH_TIMER lowers the work when it changes its state.
LEMMA TimerWorks ==
    ASSUME NEW g, Typed(g), NEW h, Typed(h), TimerEffect(g, h), conf \in Confs
    PROVE  /\ Work(h) <= Work(g)
           /\ h.sm.reauth_timer # g.sm.reauth_timer => Work(h) < Work(g)
  <1> DEFINE m == g.sm
             i == g.eap_if
             n == h.sm
             j == h.eap_if
  <1>1. /\ m.reauth_timer \in {"INITIALIZE", "REAUTHENTICATE"} /\ m.reAuthCount \in Nat
        /\ m.auth_pae \in {"INITIALIZE", "DISCONNECTED", "RESTART", "CONNECTING",
                    "AUTHENTICATING", "AUTHENTICATED", "ABORTING", "HELD"}
        /\ i.portEnabled \in BOOLEAN
    BY PartsOf DEF PortType, EapIfType
  <1>1a. reAuthMax \in Nat /\ g.eap \in EapType /\ conf.eap_reauth_period \in Nat
    BY EapolAssumption DEF Typed, EapOK, EapTyped, ConfType
  <1>2. /\ h.eap = g.eap
        /\ OthersSame(m, n) /\ SignalsSame(i, j)
        /\ \/ n.portValid = m.portValid /\ j.portEnabled = i.portEnabled
           \/ n.portValid = FALSE /\ j.portEnabled = FALSE
        /\ ~TimerFires(m) => n.portValid = m.portValid /\ j.portEnabled = i.portEnabled
        /\ n.reauth_timer = IF TimerResets(m) THEN "INITIALIZE"
                            ELSE IF TimerFires(m) THEN "REAUTHENTICATE" ELSE m.reauth_timer
        /\ n.reAuthWhen = IF TimerResets(m) THEN conf.eap_reauth_period ELSE m.reAuthWhen
        /\ n.reAuthenticate <=> m.reAuthenticate \/ TimerFires(m)
    BY DEF TimerEffect, MayClose
  <1>3. EapMoves(g) \in 0 .. 1 /\ EapMoves(h) \in 0 .. 1
    BY DEF EapMoves
  <1>4. j.portEnabled = i.portEnabled => EapMoves(h) = EapMoves(g)
    BY <1>1a, <1>2, SameMoves DEF SignalsSame
  <1> HIDE DEF m, i, n, j
  <1>5. BeWork(m) \in Nat /\ BeWork(n) = BeWork(m)
    BY <1>2 DEF BeWork, OthersSame
  <1>6. PaeWork(m, i) \in Nat /\ PaeWork(n, j) = PaeWork(m, i)
    <2>1. PaeWork(m, i) \in Nat
      BY <1>1 DEF PaeWork
    <2>2. PaeWork(n, j) = PaeWork(m, i)
      BY <1>1, <1>2 DEF PaeWork, OthersSame, SignalsSame, Kin
    <2> QED
      BY <2>1, <2>2
  <1>7. n.eapolLogoff = m.eapolLogoff /\ n.auth_pae = m.auth_pae
    BY <1>2 DEF OthersSame
  <1>8. PortWork(m, i) \in Nat /\ PortWork(n, j) \in Nat
    BY <1>6 DEF PortWork
  <1>9. CASE ~TimerFires(m)
    <2>1. StartsOver(n, j) <=> StartsOver(m, i)
      BY <1>2, <1>9 DEF StartsOver, OthersSame, SignalsSame, Kin
    <2>2. PortWork(n, j) = PortWork(m, i)
      BY <1>2, <1>6, <1>7, <1>9, <2>1 DEF PortWork
    <2>3. TimerWork(m) \in Nat /\ TimerWork(n) \in Nat /\ TimerWork(n) <= TimerWork(m)
      BY <1>1, <1>1a, <1>2, <1>9 DEF TimerWork, TimerResets
    <2>4. n.reauth_timer # m.reauth_timer => TimerWork(n) < TimerWork(m)
      BY <1>1, <1>1a, <1>2, <1>9 DEF TimerWork, TimerResets
    <2> QED
      BY <1>2, <1>3, <1>4, <1>5, <1>8, <1>9, <2>2, <2>3, <2>4 DEF Work, m, i, n, j
  <1>10. CASE TimerFires(m)
    <2>1. TimerWork(m) = 18 /\ TimerWork(n) = 1
      BY <1>1, <1>2, <1>10 DEF TimerWork, TimerFires, TimerResets
    <2>2. CASE j.portEnabled = i.portEnabled
      <3>1. PortWork(n, j) <= PortWork(m, i) + 16
        BY <1>6, <1>7, <2>2 DEF PortWork
      <3> QED
        BY <1>3, <1>4, <1>5, <1>8, <2>1, <2>2, <3>1 DEF Work, m, i, n, j
    <2>3. CASE j.portEnabled # i.portEnabled
      <3>1. PortWork(n, j) <= 1
        BY <1>2, <2>3 DEF PortWork
      <3> QED
        BY <1>3, <1>5, <1>8, <2>1, <3>1 DEF Work, m, i, n, j
    <2> QED
      BY <2>2, <2>3
  <1> QED
    BY <1>9, <1>10

\* The states that eapol_sm_step_run compares.
MachineStates(m) == <<m.auth_pae, m.be_auth, m.reauth_timer>>

\* The port machines in a pass.
PortPass(g) == REAUTH_TIMER(BE_AUTH(AUTH_PAE(g)))

\* What a pass in which no port machine moves has found.
AtRest(g) ==
    /\ PortRests(g)
    /\ g.eap_if.portEnabled =>
         /\ g.sm.auth_pae = "RESTART" => g.eap_if.eapRestart
         /\ g.sm.auth_pae = "CONNECTING" => ~Offered(g.eap_if)
         /\ g.eap.state \in Failed /\ g.sm.auth_pae # "RESTART" =>
              g.sm.authPortStatus # "Authorized" \/ g.sm.be_auth \in {"REQUEST", "IGNORE"}

\* A pass over the port machines keeps them tied, and lowers the work when one
\* of them changes its state.
LEMMA PortPassWorks ==
    ASSUME NEW g, RunOK(g), BeforePass(g), conf \in Confs, LongRuns
    PROVE  LET p == PortPass(g)
           IN  /\ RunOK(p) /\ BeforePass(p) /\ p.hist.cut = g.hist.cut
               /\ Work(p) <= Work(g) /\ Work(p) \in Nat /\ Work(g) \in Nat
               /\ MachineStates(p.sm) # MachineStates(g.sm) => Work(p) < Work(g)
               /\ MachineStates(p.sm) = MachineStates(g.sm) => AtRest(p)
  <1> DEFINE k == AUTH_PAE(g)
             l == BE_AUTH(k)
             p == REAUTH_TIMER(l)
             i == k.eap_if
             a == g.sm.auth_pae
             b == g.sm.be_auth
  <1>1. RunOK(k) /\ RunOK(l) /\ RunOK(p)
    <2>1. RunOK(k)
      BY PaeOK
    <2> HIDE DEF k
    <2>2. RunOK(l)
      BY <2>1, BeOK
    <2> HIDE DEF l
    <2> QED
      BY <2>1, <2>2, TimerOK
  <1>2. Typed(g) /\ Typed(k) /\ Typed(l) /\ Typed(p)
    BY <1>1 DEF RunOK
  <1>3. PaeEffect(g, k)
    BY <1>2, PaeStep
  <1> HIDE DEF k
  <1>4. BeEffect(k, l)
    BY <1>1, BeStep
  <1> HIDE DEF l
  <1>5. TimerEffect(l, p)
    BY <1>1, TimerStep
  <1>6. p = PortPass(g)
    BY DEF PortPass, p, l, k
  <1> HIDE DEF p
  <1>7. AfterPae(k)
    BY <1>2, <1>3, PaeKeeps
  <1>8. BeforePass(l)
    BY <1>2, <1>4, <1>7, BeKeeps
  <1>9. BeforePass(p)
    BY <1>5, <1>8, CloseKeeps DEF TimerEffect
  <1>10. p.hist.cut = g.hist.cut
    BY <1>3, <1>4, <1>5 DEF PaeEffect, BeEffect, BeMoved, TimerEffect, MayClose
  <1>11. \A x \in {g, k, l, p} : Work(x) \in Nat
    <2> SUFFICES ASSUME NEW x, Typed(x) PROVE Work(x) \in Nat
      BY <1>2
    <2>1. x.sm.auth_pae \in {"INITIALIZE", "DISCONNECTED", "RESTART", "CONNECTING",
                    "AUTHENTICATING", "AUTHENTICATED", "ABORTING", "HELD"}
      BY PartsOf DEF PortType
    <2>2. PaeWork(x.sm, x.eap_if) \in Nat
      BY <2>1 DEF PaeWork
    <2>3. PortWork(x.sm, x.eap_if) \in Nat
      BY <2>2 DEF PortWork
    <2>4. EapMoves(x) \in Nat /\ TimerWork(x.sm) \in Nat
      BY DEF EapMoves, TimerWork
    <2>5. BeWork(x.sm) \in Nat
      BY DEF BeWork
    <2> QED
      BY <2>3, <2>4, <2>5 DEF Work
  <1>12. /\ Work(k) <= Work(g) /\ (k.sm.auth_pae # a => Work(k) < Work(g))
         /\ Work(l) <= Work(k) /\ (l.sm.be_auth # k.sm.be_auth => Work(l) < Work(k))
         /\ Work(p) <= Work(l) /\ (p.sm.reauth_timer # l.sm.reauth_timer => Work(p) < Work(l))
    BY <1>2, <1>3, <1>4, <1>5, <1>7, PaeWorks, BeWorks, TimerWorks
  <1>13. /\ k.sm.be_auth = b /\ k.sm.reauth_timer = g.sm.reauth_timer
         /\ l.sm.auth_pae = k.sm.auth_pae /\ l.sm.reauth_timer = g.sm.reauth_timer
         /\ p.sm.auth_pae = k.sm.auth_pae /\ p.sm.be_auth = l.sm.be_auth
    BY <1>3, <1>4, <1>5
       DEF PaeEffect, PaeFields, BeEffect, BeMoved, BeFields, TimerEffect, MayClose, OthersSame
  <1>14. Work(p) <= Work(g) /\ (MachineStates(p.sm) # MachineStates(g.sm) => Work(p) < Work(g))
    <2>1. Work(g) \in Nat /\ Work(k) \in Nat /\ Work(l) \in Nat /\ Work(p) \in Nat
      BY <1>11
    <2> QED
      BY <1>12, <1>13, <2>1 DEF MachineStates
  <1>15. ASSUME MachineStates(p.sm) = MachineStates(g.sm)
         PROVE  AtRest(p)
    <2> DEFINE m == k.sm
               n == p.sm
               j == p.eap_if
               e == g.eap
    <2>1. /\ m.auth_pae = a /\ m.be_auth = b /\ n.auth_pae = a /\ n.be_auth = b
          /\ l.sm.be_auth = b /\ n.reauth_timer = l.sm.reauth_timer
      BY <1>13, <1>15 DEF MachineStates
    <2>2. ~TimerFires(l.sm)
      BY <1>5, <2>1 DEF TimerEffect, TimerFires, TimerResets
    <2>3. p.eap = e /\ k.eap = e
      BY <1>3, <1>4, <1>5 DEF PaeEffect, BeEffect, BeMoved, TimerEffect, MayClose
    <2>4. /\ a \in {"INITIALIZE", "DISCONNECTED", "RESTART", "CONNECTING",
                    "AUTHENTICATING", "AUTHENTICATED", "ABORTING", "HELD"}
          /\ b \in BeStates /\ i.portEnabled \in BOOLEAN /\ n.aWhile \in Nat
      <3>1. a \in {"INITIALIZE", "DISCONNECTED", "RESTART", "CONNECTING",
                    "AUTHENTICATING", "AUTHENTICATED", "ABORTING", "HELD"} /\ b \in BeStates
        BY <1>2, PartsOf DEF PortType, BeStates
      <3>2. i.portEnabled \in BOOLEAN
        BY <1>2, PartsOf DEF EapIfType
      <3>3. n.aWhile \in Nat
        BY <1>2, PartsOf, EapolAssumption DEF PortType
      <3> QED
        BY <3>1, <3>2, <3>3
    <2>5. /\ a = IF i.portEnabled THEN PaeInState(g.sm, g.eap_if) ELSE "INITIALIZE"
          /\ PaeFields(g.sm, m) /\ Kin(g.eap_if, i) /\ ~m.authAbort
          /\ g.eap_if.eapReq = i.eapReq
      BY <1>3, <2>1 DEF PaeEffect, PaeFields, BeforePass
    <2> DEFINE t == SM_STEP_BE_AUTH(m, i)
    <2>6. /\ BeFields(m, l.sm, t) /\ BeSignals(i, l.eap_if, t)
          /\ t # "INITIALIZE" => l.eap_if.portEnabled = i.portEnabled
          /\ t \in {"stay", b}
      BY <1>4, <2>1 DEF BeEffect, BeMoved
    <2>7. /\ OthersSame(l.sm, n) /\ SignalsSame(l.eap_if, j)
          /\ j.portEnabled = l.eap_if.portEnabled
      BY <1>5, <2>2 DEF TimerEffect, MayClose
    <2>8. b \notin Results \cup {"INITIALIZE"} /\ t # "INITIALIZE"
      <3> HIDE DEF m, i, b
      <3> QED
        BY <2>1, <2>4, <2>5, <2>6 DEF SM_STEP_BE_AUTH, Results, BeStates
    <2>9. j.portEnabled = i.portEnabled
      BY <2>6, <2>7, <2>8
    <2>10. n.aWhile = m.aWhile \/ t = "RESPONSE"
      BY <2>6, <2>7 DEF BeFields, OthersSame
    <2>11. b = "RESPONSE" => t = "stay" /\ m.aWhile # 0 /\ ~i.eapFail
      <3> HIDE DEF m, i, b
      <3> QED
        BY <2>1, <2>5, <2>6 DEF SM_STEP_BE_AUTH, BeAwaitServer
    <2>12. b = "RESPONSE" => n.aWhile > 0
      BY <2>4, <2>10, <2>11
    <2>13. i.portEnabled <=> a # "INITIALIZE"
      BY <2>4, <2>5 DEF PaeInState, PaeAuthenticated
    <2>14. a \notin {"DISCONNECTED", "ABORTING"}
      <3>1. ~g.sm.authAbort
        BY DEF BeforePass
      <3> QED
        BY <2>5, <3>1 DEF PaeInState
    <2>15. PortRests(p)
      <3>1. /\ Linked(p) /\ ~n.authAbort /\ e.num_rounds # EAP_MAX_AUTH_ROUNDS + 1
            /\ j.portEnabled => Between(n, e, j)
        BY <1>9, <2>3 DEF BeforePass
      <3>2. j.portEnabled =>
              /\ a = "RESTART" /\ ~j.eapRestart => Restarted(e, j)
              /\ conf.eap_server /\ b \in Exchanging => a = "AUTHENTICATING"
              /\ conf.eap_server /\ n.authStart => a = "AUTHENTICATING"
        BY <2>1, <2>8, <3>1 DEF Between
      <3> QED
        BY <2>1, <2>3, <2>8, <2>9, <2>12, <2>13, <2>14, <3>1, <3>2 DEF PortRests
    <2>16. ASSUME j.portEnabled
           PROVE  /\ a = "RESTART" => j.eapRestart
                  /\ a = "CONNECTING" => ~Offered(j)
                  /\ e.state \in Failed /\ a # "RESTART" =>
                       n.authPortStatus # "Authorized" \/ b \in {"REQUEST", "IGNORE"}
      <3>1. i.portEnabled /\ Midway(m, e, i) /\ Tied(m, e, i)
        BY <1>7, <2>3, <2>9, <2>16 DEF AfterPae, Linked
      <3>2. a = "RESTART" => j.eapRestart
        BY <2>1, <2>6, <2>7, <3>1 DEF Midway, BeSignals, SignalsSame
      <3>3. a = "CONNECTING" => ~Offered(i)
        BY <2>5, <3>1 DEF PaeInState, Offered, Kin
      <3>4. Offered(j) => Offered(i)
        BY <2>6, <2>7 DEF Offered, BeSignals, SignalsSame, Kin
      <3>5. ASSUME e.state \in Failed, a # "RESTART", b \notin {"REQUEST", "IGNORE"}
            PROVE  n.authPortStatus # "Authorized"
        <4>1. i.eapFail /\ e.state \notin Succeeded
          BY <3>1, <3>5 DEF Tied, Signals, Failed, Succeeded
        <4>2. b = "IDLE" /\ ~m.authStart
          <5>1. b = "IDLE"
            BY <2>4, <2>8, <2>11, <3>5, <4>1 DEF BeStates, Results
          <5> HIDE DEF m, i, b
          <5> QED
            BY <2>1, <2>5, <2>6, <4>1, <5>1 DEF SM_STEP_BE_AUTH
        <4>3. a # "AUTHENTICATING"
          <5>1. a = "AUTHENTICATING" => Authenticating(m, e)
            BY <2>1, <3>1 DEF Tied
          <5>2. a = "AUTHENTICATING" => m.authFail \/ m.authTimeout
            BY <2>1, <4>1, <4>2, <5>1 DEF Authenticating, Idle
          <5>3. a = "AUTHENTICATING" =>
                  ~g.sm.authFail /\ ~g.sm.authTimeout
            BY <2>5, <3>1 DEF PaeInState
          <5> QED
            BY <2>5, <5>2, <5>3 DEF PaeFields
        <4>4. a # "AUTHENTICATED"
          BY <1>9, <2>1, <2>3, <4>1 DEF BeforePass, Linked
        <4>5. a = "HELD" => n.authPortStatus = "Unauthorized"
          BY <1>9, <2>1, <2>16 DEF BeforePass, Linked, Tied
        <4>6. a \notin {"CONNECTING", "INITIALIZE"}
          BY <2>13, <3>1, <3>3, <4>1 DEF Offered
        <4> QED
          BY <2>4, <2>14, <3>5, <4>3, <4>4, <4>5, <4>6
      <3> QED
        BY <3>2, <3>3, <3>4, <3>5
    <2> QED
      BY <2>1, <2>3, <2>15, <2>16 DEF AtRest
  <1> QED
    BY <1>1, <1>6, <1>9, <1>10, <1>11, <1>14, <1>15

-----------------------------------------------------------------------------
(* A run of the EAP machine ends.                                          *)

\* How many iterations the machine may take from a state.
StateRank(e, i) ==
    CASE e.state = "IDLE" -> (IF i.eapResp THEN 8 ELSE 0) + (IF i.retransWhile = 0 THEN 2 ELSE 0)
      [] e.state \in {"RETRANSMIT", "DISCARD", "SEND_REQUEST"} -> IF i.eapResp THEN 9 ELSE 1
      [] e.state = "RECEIVED" -> 7
      [] e.state \in {"INTEGRITY_CHECK", "DISABLED"} -> 6
      [] e.state = "METHOD_RESPONSE" ->
           IF e.methodState = "END" THEN 5
           ELSE IF e.method_pending = "WAIT" THEN 0
           ELSE IF e.method_pending = "CONT" THEN 6 ELSE 5
      [] e.state \in {"NAK", "INITIALIZE"} -> 5
      [] e.state = "SELECT_ACTION" -> 4
      [] e.state = "PROPOSE_METHOD" -> 3
      [] e.state = "METHOD_REQUEST" -> 2
      [] e.state = "AAA_IDLE" -> IF i.aaaFail \/ i.aaaSuccess \/ i.aaaEapReq THEN 4 ELSE 0
      [] e.state \in {"RETRANSMIT2", "DISCARD2", "SEND_REQUEST2"} -> IF i.eapResp THEN 4 ELSE 1
      [] e.state = "IDLE2" -> IF i.eapResp THEN 3 ELSE IF i.retransWhile = 0 THEN 2 ELSE 0
      [] e.state \in {"INITIALIZE_PASSTHROUGH", "RECEIVED2", "AAA_RESPONSE"} -> 2
      [] e.state = "AAA_REQUEST" -> 1
      [] OTHER -> 0

EapRank(e, i) ==
    IF i.eapRestart /\ i.portEnabled THEN 6
    ELSE IF ~i.portEnabled THEN IF e.state = "DISABLED" THEN 0 ELSE 1
    ELSE IF e.num_rounds = EAP_MAX_AUTH_ROUNDS + 1 THEN 1
    ELSE IF e.num_rounds > EAP_MAX_AUTH_ROUNDS THEN 0 ELSE StateRank(e, i)

\* Its values.
LEMMA RankType ==
    ASSUME NEW e \in EapType, NEW i
    PROVE  EapRank(e, i) \in 0 .. 10
  <1>1. e.state \in EapStates
    BY DEF EapType
  <1>2. StateRank(e, i) \in 0 .. 10
    BY <1>1 DEF StateRank, EapStates
  <1> QED
    BY <1>2 DEF EapRank

\* A state that has been entered in a machine that goes on ranks below the one
\* left, state by state.
LEMMA StateRankFalls ==
    ASSUME NEW e \in EapType, NEW f \in EapType, NEW i, NEW j, NEW u \in EapStates,
           f.state = u, EapFields(e, f, u, e.num_rounds), EapSignals(i, j, u),
           i.retransWhile \in Nat,
           \/ u = EapInState(e, i)
           \/ EapInState(e, i) = "checked" /\ u \in {"DISCARD", "METHOD_RESPONSE"}
    PROVE  StateRank(f, j) < StateRank(e, i)
  <1> DEFINE s == e.state
  <1>1. s \in EapStates /\ e.decision \in {"FAILURE", "SUCCESS", "CONTINUE", "PASSTHROUGH"}
        /\ e.method_pending \in {"NONE", "WAIT", "CONT"}
    BY DEF EapType
  <1>2. /\ IF u \in {"IDLE", "IDLE2"} THEN j.retransWhile \in Nat /\ j.retransWhile > 0
           ELSE j.retransWhile = i.retransWhile
        /\ j.eapResp <=> /\ i.eapResp
                         /\ u \notin {"DISCARD", "DISCARD2", "SEND_REQUEST", "SEND_REQUEST2"}
        /\ u = "AAA_IDLE" => ~j.aaaFail /\ ~j.aaaSuccess /\ ~j.aaaEapReq
        /\ u = "METHOD_RESPONSE" => f.method_pending # "CONT"
    BY DEF EapFields, EapSignals
  <1>3. CASE s = "IDLE"
    <2>1. CASE i.retransWhile = 0
      <3>1. u = "RETRANSMIT"
        BY <1>3, <2>1 DEF EapInState
      <3>2. (j.eapResp <=> i.eapResp) /\ StateRank(f, j) = IF j.eapResp THEN 9 ELSE 1
        BY <1>2, <3>1 DEF StateRank
      <3>3. StateRank(e, i) = IF i.eapResp THEN 10 ELSE 2
        BY <1>3, <2>1 DEF StateRank
      <3> QED
        BY <3>2, <3>3
    <2>2. CASE i.retransWhile # 0
      <3>1. u = "RECEIVED" /\ i.eapResp
        BY <1>3, <2>2 DEF EapInState, EapStates
      <3>2. StateRank(f, j) = 7 /\ StateRank(e, i) = 8
        BY <1>3, <2>2, <3>1 DEF StateRank
      <3> QED
        BY <3>2
    <2> QED
      BY <2>1, <2>2
  <1>4. CASE s \in {"RETRANSMIT", "DISCARD", "SEND_REQUEST"}
    <2>1. u \in {"IDLE", "TIMEOUT_FAILURE"}
      BY <1>4 DEF EapInState
    <2>2. StateRank(e, i) = IF i.eapResp THEN 9 ELSE 1
      BY <1>4 DEF StateRank
    <2>3. CASE u = "IDLE"
      <3>1. j.retransWhile # 0 /\ (j.eapResp <=> i.eapResp)
        BY <1>2, <2>3
      <3>2. StateRank(f, j) = IF j.eapResp THEN 8 ELSE 0
        BY <2>3, <3>1 DEF StateRank
      <3> QED
        BY <2>2, <3>1, <3>2
    <2>4. CASE u = "TIMEOUT_FAILURE"
      <3>1. StateRank(f, j) = 0
        BY <2>4 DEF StateRank
      <3> QED
        BY <2>2, <3>1
    <2> QED
      BY <2>1, <2>3, <2>4
  <1>5. CASE s \in {"RECEIVED", "INTEGRITY_CHECK"}
    BY <1>1, <1>2, <1>5 DEF StateRank, EapInState
  <1>6. CASE s = "METHOD_RESPONSE"
    <2>1. CASE e.methodState = "END"
      BY <1>6, <2>1 DEF StateRank, EapInState
    <2>2. CASE e.methodState # "END"
      <3>1. e.method_pending # "WAIT"
        BY <1>6, <2>2 DEF EapInState, EapStates
      <3>2. CASE e.method_pending = "CONT"
        <4>1. u = "METHOD_RESPONSE"
          BY <1>6, <2>2, <3>2 DEF EapInState
        <4>2. StateRank(f, j) \in {0, 5}
          BY <1>2, <4>1 DEF StateRank
        <4>3. StateRank(e, i) = 6
          BY <1>6, <2>2, <3>2 DEF StateRank
        <4> QED
          BY <4>2, <4>3
      <3>3. CASE e.method_pending # "CONT"
        <4>1. u = "METHOD_REQUEST"
          BY <1>6, <2>2, <3>1, <3>3 DEF EapInState
        <4>2. StateRank(f, j) = 2 /\ StateRank(e, i) = 5
          BY <1>6, <2>2, <3>1, <3>3, <4>1 DEF StateRank
        <4> QED
          BY <4>2
      <3> QED
        BY <3>2, <3>3
    <2> QED
      BY <2>1, <2>2
  <1>7. CASE s \in {"NAK", "INITIALIZE", "DISABLED", "SELECT_ACTION", "PROPOSE_METHOD"}
    BY <1>1, <1>2, <1>7 DEF StateRank, EapInState
  <1>8. CASE s \in {"METHOD_REQUEST", "AAA_RESPONSE"}
    <2>1. u \in {"SEND_REQUEST", "SEND_REQUEST2"} /\ ~j.eapResp
      BY <1>2, <1>8 DEF EapInState
    <2>2. StateRank(f, j) = 1 /\ StateRank(e, i) = 2
      BY <1>8, <2>1 DEF StateRank
    <2> QED
      BY <2>2
  <1>9. CASE s \in {"INITIALIZE_PASSTHROUGH", "AAA_REQUEST"}
    BY <1>1, <1>2, <1>9 DEF StateRank, EapInState
  <1>10. CASE s = "AAA_IDLE"
    <2>1. (i.aaaFail \/ i.aaaSuccess \/ i.aaaEapReq) /\ u \in {"FAILURE2", "SUCCESS2", "AAA_RESPONSE"}
      BY <1>10 DEF EapInState, EapStates
    <2>2. StateRank(f, j) \in {0, 2}
      BY <2>1 DEF StateRank
    <2>3. StateRank(e, i) = 4
      BY <1>10, <2>1 DEF StateRank
    <2> QED
      BY <2>2, <2>3
  <1>11. CASE s \in {"RETRANSMIT2", "DISCARD2", "SEND_REQUEST2"}
    <2>1. u \in {"IDLE2", "TIMEOUT_FAILURE2"}
      BY <1>11 DEF EapInState
    <2>2. StateRank(e, i) = IF i.eapResp THEN 4 ELSE 1
      BY <1>11 DEF StateRank
    <2>3. CASE u = "IDLE2"
      <3>1. j.retransWhile # 0 /\ (j.eapResp <=> i.eapResp)
        BY <1>2, <2>3
      <3>2. StateRank(f, j) = IF j.eapResp THEN 3 ELSE 0
        BY <2>3, <3>1 DEF StateRank
      <3> QED
        BY <2>2, <3>1, <3>2
    <2>4. CASE u = "TIMEOUT_FAILURE2"
      <3>1. StateRank(f, j) = 0
        BY <2>4 DEF StateRank
      <3> QED
        BY <2>2, <3>1
    <2> QED
      BY <2>1, <2>3, <2>4
  <1>12. CASE s = "IDLE2"
    <2>1. CASE i.eapResp
      BY <1>12, <2>1 DEF StateRank, EapInState
    <2>2. CASE ~i.eapResp
      <3>1. i.retransWhile = 0 /\ u = "RETRANSMIT2" /\ ~j.eapResp
        BY <1>2, <1>12, <2>2 DEF EapInState, EapStates
      <3>2. StateRank(f, j) = 1 /\ StateRank(e, i) = 2
        BY <1>12, <2>2, <3>1 DEF StateRank
      <3> QED
        BY <3>2
    <2> QED
      BY <2>1, <2>2
  <1>13. CASE s = "RECEIVED2"
    <2>1. u \in {"DISCARD2", "AAA_REQUEST"} /\ (u = "DISCARD2" => ~j.eapResp)
      BY <1>2, <1>13 DEF EapInState
    <2>2. StateRank(f, j) = 1 /\ StateRank(e, i) = 2
      BY <1>13, <2>1 DEF StateRank
    <2> QED
      BY <2>2
  <1>14. CASE s \in {"SUCCESS", "FAILURE", "TIMEOUT_FAILURE", "SUCCESS2", "FAILURE2",
                    "TIMEOUT_FAILURE2"}
    <2>1. EapInState(e, i) = "stay"
      BY <1>14 DEF EapInState
    <2> QED
      BY <2>1 DEF EapStates
  <1> QED
    BY <1>1, <1>3, <1>4, <1>5, <1>6, <1>7, <1>8, <1>9, <1>10, <1>11, <1>12, <1>13, <1>14
       DEF EapStates

\* An iteration that enters a state.
LEMMA RankFalls ==
    ASSUME NEW g, EapOK(g), NEW h, EapOK(h), EapEffect(g, h),
           SM_STEP_EAP(g.eap, g.eap_if) # "stay"
    PROVE  EapRank(h.eap, h.eap_if) < EapRank(g.eap, g.eap_if)
  <1> DEFINE e == g.eap
             i == g.eap_if
             f == h.eap
             j == h.eap_if
             t == SM_STEP_EAP(e, i)
             M == EAP_MAX_AUTH_ROUNDS
  <1>1. /\ e \in EapType /\ f \in EapType /\ i.retransWhile \in Nat
        /\ i.portEnabled \in BOOLEAN /\ i.eapRestart \in BOOLEAN
    BY DEF EapOK, EapTyped, EapIfType
  <1>2. /\ M \in Nat /\ e.num_rounds \in Nat /\ f.num_rounds \in Nat /\ e.state \in EapStates
    BY <1>1, EapAssumption DEF EapType
  <1>3. PICK u, r : /\ EapMoved(g, h, u, r)
                    /\ \/ t = "rounds" /\ u = "FAILURE" /\ r = e.num_rounds + 1
                       \/ t = "checked" /\ u \in {"DISCARD", "METHOD_RESPONSE"} /\ r = e.num_rounds
                       \/ t \notin {"stay", "rounds", "checked"} /\ u = t /\ r = e.num_rounds
    BY DEF EapEffect
  <1> HIDE DEF e, i, f, j
  <1>4. /\ f.state = u /\ u \in EapStates /\ EapFields(e, f, u, r) /\ EapSignals(i, j, u)
        /\ j.portEnabled = i.portEnabled
        /\ j.eapRestart <=> i.eapRestart /\ u # "INITIALIZE"
        /\ f.num_rounds = IF u \in {"DISABLED", "INITIALIZE"} THEN 0
                          ELSE IF u = "RECEIVED" THEN r + 1 ELSE r
    BY <1>3 DEF EapMoved, EapFields, EapSignals, e, i, f, j
  <1>5. CASE i.eapRestart /\ i.portEnabled
    <2>1. u = "INITIALIZE"
      BY <1>3, <1>5 DEF SM_STEP_EAP
    <2>2. EapRank(f, j) = 5
      BY <1>2, <1>4, <1>5, <2>1 DEF EapRank, StateRank
    <2> QED
      BY <1>5, <2>2 DEF EapRank, e, i, f, j
  <1>6. CASE ~i.portEnabled
    <2>1. u = "DISABLED" /\ e.state # "DISABLED"
      BY <1>3, <1>6 DEF SM_STEP_EAP
    <2> QED
      BY <1>4, <1>6, <2>1 DEF EapRank, e, i, f, j
  <1>7. CASE i.portEnabled /\ ~i.eapRestart /\ e.num_rounds = M + 1
    <2>1. t = "rounds" /\ f.num_rounds = M + 2
      BY <1>2, <1>3, <1>4, <1>7 DEF SM_STEP_EAP
    <2> QED
      BY <1>2, <1>4, <1>7, <2>1 DEF EapRank, e, i, f, j
  <1>8. CASE i.portEnabled /\ ~i.eapRestart /\ e.num_rounds # M + 1
    <2>1. e.num_rounds <= M /\ t = EapInState(e, i)
      BY <1>2, <1>3, <1>8 DEF SM_STEP_EAP
    <2>2. EapInState(e, i) # "rounds"
      BY <1>1, <1>2 DEF EapInState, EapStates, EapType
    <2>3. StateRank(f, j) < StateRank(e, i)
      BY <1>1, <1>3, <1>4, <2>1, <2>2, StateRankFalls
    <2>4. EapRank(e, i) = StateRank(e, i)
      BY <1>2, <1>8, <2>1 DEF EapRank
    <2>5. EapRank(f, j) = StateRank(f, j) \/ (EapRank(f, j) = 1 /\ u = "RECEIVED")
      BY <1>2, <1>3, <1>4, <1>8, <2>1, <2>2 DEF EapRank
    <2>6. u = "RECEIVED" => e.state = "IDLE" /\ i.eapResp /\ i.retransWhile # 0
      BY <1>1, <1>2, <1>3, <2>1, <2>2 DEF EapInState, EapStates, EapType
    <2>7. u = "RECEIVED" => StateRank(e, i) = 8
      BY <2>6 DEF StateRank
    <2>8. EapRank(f, j) < EapRank(e, i)
      BY <2>3, <2>4, <2>5, <2>7
    <2> QED
      BY <2>8 DEF e, i, f, j
  <1> QED
    BY <1>1, <1>5, <1>6, <1>7, <1>8

-----------------------------------------------------------------------------
(* What a run of the EAP machine leaves of the ties.                       *)

\* A machine that has been restarted and moves on, in one iteration.
LEMMA RestartedMoves ==
    ASSUME NEW e \in EapType, NEW f \in EapType, NEW i, NEW j, NEW u \in EapStates,
           f.state = u, EapFields(e, f, u, e.num_rounds), EapSignals(i, j, u),
           i.retransWhile \in Nat, Restarted(e, i), e.state # "FAILURE",
           \/ u = EapInState(e, i)
           \/ EapInState(e, i) = "checked" /\ u \in {"DISCARD", "METHOD_RESPONSE"}
    PROVE  Restarted(f, j)
  <1>1. e.decision \in {"FAILURE", "SUCCESS", "CONTINUE", "PASSTHROUGH"}
    BY DEF EapType
  <1>2. /\ f.eap_server = e.eap_server
        /\ ~i.eapSuccess /\ ~i.eapTimeout /\ ~i.eapFail
        /\ e.num_rounds = 0
    BY DEF EapFields, Restarted
  <1>3. CASE e.state = "INITIALIZE"
    <2>1. u = "SELECT_ACTION"
      BY <1>3 DEF EapInState
    <2>2. ~e.hasId /\ e.m = "none"
      BY <1>3 DEF Restarted
    <2> QED
      BY <1>2, <2>1, <2>2 DEF Restarted, EapFields, EapSignals, Succeeded, Failed, TimedOut
  <1>4. CASE e.state = "SELECT_ACTION"
    <2>1. ~e.hasId /\ e.m = "none" /\ e.decision # "SUCCESS"
          /\ (e.decision = "FAILURE" => e.eap_server)
      BY <1>4 DEF Restarted
    <2>2. \/ u = "INITIALIZE_PASSTHROUGH" \/ u = "PROPOSE_METHOD"
          \/ u = "FAILURE" /\ e.eap_server
      BY <1>1, <1>4, <2>1 DEF EapInState
    <2> QED
      BY <1>2, <2>1, <2>2 DEF Restarted, EapFields, EapSignals, Succeeded, Failed, TimedOut
  <1>5. CASE e.state \in {"PROPOSE_METHOD", "METHOD_REQUEST"}
    <2>1. u \in {"METHOD_REQUEST", "SEND_REQUEST"}
      BY <1>5 DEF EapInState
    <2> QED
      BY <1>2, <2>1 DEF Restarted, EapFields, EapSignals, Succeeded, Failed, TimedOut
  <1>6. CASE e.state \in {"SEND_REQUEST", "IDLE"}
    <2>1. ~i.eapResp /\ (e.state = "IDLE" => i.retransWhile > 0)
      BY <1>6 DEF Restarted
    <2>2. u = "IDLE"
      BY <1>6, <2>1 DEF EapInState, EapStates
    <2> QED
      BY <1>2, <2>1, <2>2 DEF Restarted, EapFields, EapSignals, Succeeded, Failed, TimedOut
  <1>7. CASE e.state = "INITIALIZE_PASSTHROUGH"
    <2>1. ~e.hasId
      BY <1>7 DEF Restarted
    <2>2. u = "AAA_IDLE"
      BY <1>7, <2>1 DEF EapInState
    <2> QED
      BY <1>2, <2>1, <2>2 DEF Restarted, EapFields, EapSignals, Succeeded, Failed, TimedOut
  <1>8. CASE e.state = "AAA_IDLE"
    <2>1. ~i.aaaFail /\ ~i.aaaSuccess /\ ~i.aaaEapReq
      BY <1>8 DEF Restarted
    <2>2. EapInState(e, i) = "stay"
      BY <1>8, <2>1 DEF EapInState
    <2> QED
      BY <2>2 DEF EapStates
  <1> QED
    BY <1>3, <1>4, <1>5, <1>6, <1>7, <1>8 DEF Restarted

\* An iteration of the EAP machine keeps the machines tied while the port rests.
LEMMA EapKeepsRest ==
    ASSUME NEW g, EapOK(g), DOMAIN g = Fields, PortRests(g), NEW h, EapOK(h),
           EapEffect(g, h), KeepsPort(g, h)
    PROVE  PortRests(h)
  <1> DEFINE m == g.sm
             e == g.eap
             i == g.eap_if
             f == h.eap
             j == h.eap_if
             t == SM_STEP_EAP(e, i)
             M == EAP_MAX_AUTH_ROUNDS
             Final == Succeeded \cup Failed \cup TimedOut
  <1>1. /\ h.sm = m /\ h.sta = g.sta /\ h.awaiting = g.awaiting
        /\ j.portEnabled = i.portEnabled
    BY DEF KeepsPort, Fields
  <1>2. /\ e \in EapType /\ f \in EapType /\ i.retransWhile \in Nat
        /\ i.portEnabled \in BOOLEAN /\ i.eapRestart \in BOOLEAN
    BY DEF EapOK, EapTyped, EapIfType
  <1>3. /\ M \in Nat /\ e.num_rounds \in Nat /\ f.num_rounds \in Nat /\ e.state \in EapStates
        /\ e.decision \in {"FAILURE", "SUCCESS", "CONTINUE", "PASSTHROUGH"}
    BY <1>2, EapAssumption DEF EapType
  <1>4. CASE t = "stay"
    <2>1. EapStays(g, h)
      BY <1>4 DEF EapEffect
    <2> QED
      BY <1>1, <2>1 DEF EapStays, PortRests, Linked, Wired, Tied, Signals, Authenticating, Restarted
  <1>5. CASE t # "stay"
    <2>1. PICK u, r : /\ EapMoved(g, h, u, r)
                      /\ \/ t = "rounds" /\ u = "FAILURE" /\ r = e.num_rounds + 1
                         \/ t = "checked" /\ u \in {"DISCARD", "METHOD_RESPONSE"} /\ r = e.num_rounds
                         \/ t \notin {"stay", "rounds", "checked"} /\ u = t /\ r = e.num_rounds
      BY <1>5 DEF EapEffect
    <2>2. /\ f.state = u /\ u \in EapStates /\ EapFields(e, f, u, r) /\ EapSignals(i, j, u)
      BY <2>1 DEF EapMoved
    <2>3. /\ Wired(g) /\ (m.auth_pae = "AUTHENTICATED" => e.state \in Succeeded)
          /\ i.portEnabled => Tied(m, e, i)
          /\ e.num_rounds = M + 1 => e.state = "RECEIVED"
          /\ i.portEnabled <=> m.auth_pae # "INITIALIZE"
          /\ i.portEnabled /\ m.auth_pae = "RESTART" /\ ~i.eapRestart => Restarted(e, i)
      BY DEF PortRests, Linked
    <2>4. PortRests(g)
      OBVIOUS
    <2> HIDE DEF e, i, f, j, m
    <2>5. i.portEnabled /\ i.eapRestart => u = "INITIALIZE"
      BY <2>1 DEF SM_STEP_EAP
    <2>6. ~i.portEnabled => u = "DISABLED"
      BY <2>1, <1>5 DEF SM_STEP_EAP
    <2>7. i.portEnabled /\ e.state \in Final => i.eapRestart /\ u = "INITIALIZE"
      <3>1. e.state \in Final => e.num_rounds # M + 1
        BY <2>3 DEF Succeeded, Failed, TimedOut
      <3>2. i.portEnabled /\ e.state \in Final /\ ~i.eapRestart => Still(e, i)
        BY <3>1 DEF Still
      <3> QED
        BY <1>2, <1>5, <2>5, <3>2, StillStays
    <2>8. i.portEnabled /\ ~i.eapRestart =>
            \/ t = "rounds" /\ e.num_rounds = M + 1
            \/ e.num_rounds <= M /\ t = EapInState(e, i)
      BY <1>3, <1>5 DEF SM_STEP_EAP
    <2>9. EapInState(e, i) # "rounds"
      BY <1>2, <1>3 DEF EapInState, EapStates, EapType
    <2>10. f.num_rounds = M + 1 => u = "RECEIVED"
      <3>1. f.num_rounds = IF u \in {"DISABLED", "INITIALIZE"} THEN 0
                          ELSE IF u = "RECEIVED" THEN r + 1 ELSE r
        BY <2>2 DEF EapFields
      <3>2. CASE ~i.portEnabled \/ i.eapRestart
        BY <1>2, <1>3, <2>5, <2>6, <3>1, <3>2
      <3>3. CASE i.portEnabled /\ ~i.eapRestart
        <4>1. CASE t = "rounds" /\ e.num_rounds = M + 1
          BY <1>3, <2>1, <3>1, <4>1
        <4>2. CASE e.num_rounds <= M /\ t = EapInState(e, i)
          BY <1>3, <2>1, <2>9, <3>1, <4>2
        <4> QED
          BY <2>8, <3>3, <4>1, <4>2
      <3> QED
        BY <1>2, <3>2, <3>3
    <2>11. e.state \notin PassThrough /\ (e.state = "SELECT_ACTION" => e.decision # "PASSTHROUGH")
             => u \notin PassThrough
      <3>1. u \in {"FAILURE", "DISCARD", "METHOD_RESPONSE", "INITIALIZE", "DISABLED"}
            \/ u = EapInState(e, i)
        BY <1>2, <2>1, <2>5, <2>6, <2>8
      <3>2. ASSUME e.state \notin PassThrough,
                   e.state = "SELECT_ACTION" => e.decision # "PASSTHROUGH"
            PROVE  EapInState(e, i) \notin PassThrough
        BY <1>3, <3>2 DEF EapInState, PassThrough, EapStates
      <3> QED
        BY <3>1, <3>2 DEF PassThrough
    <2>12. Wired(h)
      <3>1. /\ g.eap_if.portEnabled <=> g.sta = "assoc"
            /\ e.eap_server = conf.eap_server
            /\ g.awaiting \/ i.aaaEapResp => ~conf.eap_server
            /\ conf.eap_server =>
                 /\ e.state \notin PassThrough
                 /\ e.state = "SELECT_ACTION" => e.decision # "PASSTHROUGH"
        BY <2>3 DEF Wired, e, i
      <3>2. f.eap_server = e.eap_server /\ (j.aaaEapResp <=> i.aaaEapResp \/ u = "AAA_IDLE")
            /\ (u = "SELECT_ACTION" => (f.decision = "PASSTHROUGH" => ~e.eap_server))
        BY <2>2 DEF EapFields, EapSignals
      <3>3. conf.eap_server => u \notin PassThrough
        BY <2>11, <3>1
      <3>4. /\ j.portEnabled <=> h.sta = "assoc"
            /\ f.eap_server = conf.eap_server
            /\ h.awaiting \/ j.aaaEapResp => ~conf.eap_server
            /\ conf.eap_server =>
                 /\ f.state \notin PassThrough
                 /\ f.state = "SELECT_ACTION" => f.decision # "PASSTHROUGH"
        BY <1>1, <2>2, <3>1, <3>2, <3>3 DEF PassThrough, i
      <3> QED
        BY <3>4 DEF Wired, f, j
    <2>13. m.auth_pae # "AUTHENTICATED"
      BY <1>2, <2>3, <2>7 DEF Tied
    <2>14. i.portEnabled => Tied(m, f, j)
      <3> SUFFICES ASSUME i.portEnabled PROVE Tied(m, f, j)
        OBVIOUS
      <3>1. Tied(m, e, i)
        BY <2>3
      <3>2. Signals(e, i)
        BY <3>1 DEF Tied
      <3>3. (i.eapSuccess \/ i.eapTimeout \/ e.state \in Failed) => u = "INITIALIZE"
        BY <2>7, <3>2 DEF Signals
      <3>4. Signals(f, j)
        BY <2>2, <3>3 DEF Signals, EapSignals, Succeeded, Failed, TimedOut
      <3>5. j.eapRestart => i.eapRestart
        BY <2>2 DEF EapSignals
      <3>6. m.auth_pae = "AUTHENTICATING" => ~m.authSuccess
        BY <2>7, <3>1 DEF Tied, Authenticating
      <3> QED
        BY <3>1, <3>4, <3>5, <3>6 DEF Tied, Authenticating
    <2>15. i.portEnabled /\ m.auth_pae = "RESTART" /\ ~j.eapRestart => Restarted(f, j)
      <3> SUFFICES ASSUME i.portEnabled, m.auth_pae = "RESTART", ~j.eapRestart
                   PROVE  Restarted(f, j)
        OBVIOUS
      <3>1. CASE u = "INITIALIZE"
        BY <2>2, <3>1 DEF Restarted, EapFields, EapSignals, Succeeded, Failed, TimedOut
      <3>2. CASE u # "INITIALIZE"
        <4>1. ~i.eapRestart
          BY <2>2, <3>2 DEF EapSignals
        <4>2. Restarted(e, i)
          BY <2>3, <4>1
        <4>3. e.state # "FAILURE"
          BY <2>7, <4>1 DEF Failed
        <4>4. e.num_rounds = 0
          BY <4>2, <4>3 DEF Restarted
        <4>5. t = EapInState(e, i)
          BY <1>3, <2>8, <4>1, <4>4
        <4>6. /\ EapFields(e, f, u, e.num_rounds)
              /\ \/ u = EapInState(e, i)
                 \/ EapInState(e, i) = "checked" /\ u \in {"DISCARD", "METHOD_RESPONSE"}
          <5> HIDE DEF t
          <5>1. t # "rounds"
            BY <2>9, <4>5
          <5>2. r = e.num_rounds
            BY <2>1, <5>1
          <5>3. EapFields(e, f, u, e.num_rounds)
            BY <2>2, <5>2
          <5> QED
            BY <2>1, <4>5, <5>1, <5>3
        <4> QED
          BY <1>2, <2>2, <4>2, <4>3, <4>6, RestartedMoves
      <3> QED
        BY <3>1, <3>2
    <2>16. Linked(h)
      BY <1>1, <2>12, <2>13, <2>14 DEF Linked, m, f, i, j
    <2>17. /\ ~m.authAbort
           /\ m.be_auth \notin Results \cup {"INITIALIZE"}
           /\ m.be_auth = "RESPONSE" => m.aWhile > 0
           /\ m.auth_pae \notin {"DISCONNECTED", "ABORTING"}
           /\ i.portEnabled =>
                /\ conf.eap_server /\ m.be_auth \in Exchanging => m.auth_pae = "AUTHENTICATING"
                /\ conf.eap_server /\ m.authStart => m.auth_pae = "AUTHENTICATING"
      BY <2>4 DEF PortRests, m, i
    <2>18. j.portEnabled = i.portEnabled /\ h.sm = m
      BY <1>1
    <2> QED
      BY <2>2, <2>3, <2>10, <2>15, <2>16, <2>17, <2>18 DEF PortRests, f, j
  <1> QED
    BY <1>4, <1>5

\* Once it has nothing more to do, the state is one between passes.
LEMMA StillBefore ==
    ASSUME NEW g, PortRests(g), Still(g.eap, g.eap_if)
    PROVE  BeforePass(g)
  <1>1. g.eap.num_rounds # EAP_MAX_AUTH_ROUNDS + 1
    BY DEF PortRests, Still
  <1>2. g.eap_if.portEnabled => Between(g.sm, g.eap, g.eap_if)
    BY DEF PortRests, Between
  <1> QED
    BY <1>1, <1>2 DEF PortRests, BeforePass

\* A timeout is not withdrawn while AUTH_PAE authenticates.
TimeoutStays(g, h) ==
    g.sm.auth_pae = "AUTHENTICATING" /\ g.eap_if.eapTimeout => h.eap_if.eapTimeout

\* The EAP machine keeps it so.
LEMMA TimeoutKept ==
    ASSUME NEW g, EapOK(g), PortRests(g), NEW h, EapEffect(g, h)
    PROVE  TimeoutStays(g, h)
  <1> SUFFICES ASSUME g.sm.auth_pae = "AUTHENTICATING", g.eap_if.eapTimeout
               PROVE  h.eap_if.eapTimeout
    BY DEF TimeoutStays
  <1> DEFINE e == g.eap
             i == g.eap_if
             t == SM_STEP_EAP(e, i)
  <1>1. i.portEnabled /\ ~i.eapRestart /\ e.state \in Succeeded \cup TimedOut
        /\ e.num_rounds # EAP_MAX_AUTH_ROUNDS + 1
    BY DEF PortRests, Linked, Tied, Signals, Succeeded, TimedOut
  <1>2. Still(e, i)
    BY <1>1 DEF Still
  <1>3. t = "stay"
    BY <1>2, StillStays DEF EapOK, EapTyped
  <1> QED
    BY <1>3 DEF EapEffect, EapStays

\* The states after n further iterations from p.
EapGoes(p, h, n) ==
    /\ EapOK(h) /\ KeepsPort(p, h) /\ PortRests(h) /\ TimeoutStays(p, h)
    /\ h.eap.changed => EapRank(h.eap, h.eap_if) + n + 1 <= 10
    /\ ~h.eap.changed => Still(h.eap, h.eap_if)
    /\ Still(p.eap, p.eap_if) => ~h.eap.changed /\ EapStays(p, h)

\* The first iteration.
LEMMA EapGoesFirst ==
    ASSUME NEW p, EapOK(p), DOMAIN p = Fields, PortRests(p), NEW h \in EapStep(p)
    PROVE  EapGoes(p, h, 0)
  <1>1. EapEffect(p, h) /\ EapOK(h) /\ KeepsPort(p, h)
    BY EapMoves1
  <1>2. PortRests(h) /\ TimeoutStays(p, h)
    BY <1>1, EapKeepsRest, TimeoutKept
  <1>3. p.eap \in EapType /\ h.eap \in EapType
    BY <1>1 DEF EapOK, EapTyped
  <1>4. EapRank(p.eap, p.eap_if) \in 0 .. 10 /\ EapRank(h.eap, h.eap_if) \in 0 .. 10
    BY <1>3, RankType
  <1>5. CASE SM_STEP_EAP(p.eap, p.eap_if) = "stay"
    <2>1. EapStays(p, h)
      BY <1>1, <1>5 DEF EapEffect
    <2>2. Still(p.eap, p.eap_if)
      BY <1>3, <1>5, StillStays
    <2>3. Still(h.eap, h.eap_if) /\ ~h.eap.changed
      BY <2>1, <2>2 DEF EapStays, Still
    <2> QED
      BY <1>1, <1>2, <2>1, <2>3 DEF EapGoes
  <1>6. CASE SM_STEP_EAP(p.eap, p.eap_if) # "stay"
    <2>1. EapRank(h.eap, h.eap_if) < EapRank(p.eap, p.eap_if)
      BY <1>1, <1>6, RankFalls
    <2>2. h.eap.changed
      BY <1>1, <1>6 DEF EapEffect, EapMoved
    <2>3. ~Still(p.eap, p.eap_if)
      BY <1>3, <1>6, StillStays
    <2>4. EapRank(h.eap, h.eap_if) + 0 + 1 <= 10
      BY <1>4, <2>1
    <2> QED
      BY <1>1, <1>2, <2>2, <2>3, <2>4 DEF EapGoes
  <1> QED
    BY <1>5, <1>6

\* The others.
LEMMA EapGoesOn ==
    ASSUME NEW p, DOMAIN p = Fields, NEW n \in Nat, NEW h, EapGoes(p, h, n),
           NEW x, x \in (IF h.eap.changed THEN EapStep(h) ELSE {h})
    PROVE  EapGoes(p, x, n + 1)
  <1>1. CASE ~h.eap.changed
    <2>1. x = h
      BY <1>1
    <2> QED
      BY <1>1, <2>1 DEF EapGoes
  <1>2. CASE h.eap.changed
    <2>1. x \in EapStep(h) /\ EapOK(h) /\ PortRests(h) /\ KeepsPort(p, h)
      BY <1>2 DEF EapGoes
    <2>2. DOMAIN h = Fields /\ h.sm = p.sm
      BY <2>1 DEF KeepsPort, Fields
    <2>3. EapGoes(h, x, 0) /\ EapEffect(h, x)
      BY <2>1, <2>2, EapGoesFirst, EapMoves1
    <2>4. KeepsPort(p, x)
      BY <2>1, <2>3 DEF KeepsPort, EapGoes
    <2>5. TimeoutStays(p, x)
      BY <2>2, <2>3 DEF TimeoutStays, EapGoes
    <2>6. ~Still(p.eap, p.eap_if)
      BY <1>2 DEF EapGoes
    <2>7. x.eap.changed => EapRank(x.eap, x.eap_if) + (n + 1) + 1 <= 10
      <3> SUFFICES ASSUME x.eap.changed PROVE EapRank(x.eap, x.eap_if) + (n + 1) + 1 <= 10
        OBVIOUS
      <3>1. SM_STEP_EAP(h.eap, h.eap_if) # "stay"
        BY <2>3 DEF EapEffect, EapStays
      <3>2. h.eap \in EapType /\ x.eap \in EapType /\ EapOK(x)
        BY <2>1, <2>3 DEF EapOK, EapTyped, EapGoes
      <3>3. EapRank(h.eap, h.eap_if) \in 0 .. 10 /\ EapRank(x.eap, x.eap_if) \in 0 .. 10
        BY <3>2, RankType
      <3>4. EapRank(x.eap, x.eap_if) < EapRank(h.eap, h.eap_if)
        BY <2>1, <2>3, <3>1, <3>2, RankFalls
      <3>5. EapRank(h.eap, h.eap_if) + n + 1 <= 10
        BY <1>2 DEF EapGoes
      <3> QED
        BY <3>3, <3>4, <3>5
    <2> QED
      BY <2>3, <2>4, <2>5, <2>6, <2>7 DEF EapGoes
  <1> QED
    BY <1>1, <1>2

\* The whole loop: it ends, and where it ends the machine has nothing to do.
LEMMA EapEnds ==
    ASSUME NEW p, EapOK(p), DOMAIN p = Fields, PortRests(p), LongRuns,
           NEW h \in eap_server_sm_step(p)
    PROVE  EapGoes(p, h, MaxEapSteps) /\ ~h.eap.changed
  <1> DEFINE F == CHOOSE f : f = [i \in 0 .. MaxEapSteps |-> EapAfter(p, f, i)]
  <1>1. F = [i \in 0 .. MaxEapSteps |-> EapAfter(p, F, i)]
    BY EapRecursion, EapAssumption
  <1>2. eap_server_sm_step(p) = F[MaxEapSteps]
    BY DEF eap_server_sm_step, EapAfter
  <1> HIDE DEF F
  <1> DEFINE S == {n \in Nat : n <= MaxEapSteps => \A x \in F[n] : EapGoes(p, x, n)}
  <1>3. 0 \in S
    <2>1. 0 \in 0 .. MaxEapSteps
      BY EapAssumption
    <2>2. F[0] = EapStep(p)
      BY <1>1, <2>1 DEF EapAfter
    <2> QED
      BY <2>2, EapGoesFirst
  <1>4. ASSUME NEW n \in S PROVE n + 1 \in S
    <2> SUFFICES ASSUME n + 1 <= MaxEapSteps, NEW x \in F[n + 1] PROVE EapGoes(p, x, n + 1)
      OBVIOUS
    <2>1. n + 1 \in 0 .. MaxEapSteps /\ n \in Nat /\ \A y \in F[n] : EapGoes(p, y, n)
      BY EapAssumption
    <2>2. F[n + 1] = EapAfter(p, F, n + 1)
      BY <1>1, <2>1
    <2>3. EapAfter(p, F, n + 1) =
            UNION {IF y.eap.changed THEN EapStep(y) ELSE {y} : y \in F[n]}
      <3>1. n + 1 # 0 /\ (n + 1) - 1 = n
        OBVIOUS
      <3> HIDE DEF S
      <3> QED
        BY <3>1 DEF EapAfter
    <2> HIDE DEF S
    <2>4. PICK y \in F[n] : x \in (IF y.eap.changed THEN EapStep(y) ELSE {y})
      BY <2>2, <2>3
    <2>5. EapGoes(p, y, n)
      BY <2>1
    <2> QED
      BY <2>1, <2>4, <2>5, EapGoesOn
  <1>5. S = Nat
    <2>1. S \subseteq Nat
      OBVIOUS
    <2> HIDE DEF S
    <2> QED
      BY <1>3, <1>4, <2>1, Induct
  <1>6. EapGoes(p, h, MaxEapSteps)
    BY <1>2, <1>5, EapAssumption
  <1>7. ~h.eap.changed
    <2>1. EapRank(h.eap, h.eap_if) \in 0 .. 10
      BY <1>6, RankType DEF EapGoes, EapOK, EapTyped
    <2>2. h.eap.changed => EapRank(h.eap, h.eap_if) + MaxEapSteps + 1 <= 10
      BY <1>6 DEF EapGoes
    <2> QED
      BY <2>1, <2>2, EapAssumption DEF LongRuns
  <1> QED
    BY <1>6, <1>7

-----------------------------------------------------------------------------
(* A run of the port machines ends.                                        *)

\* The EAP machine gives the port machines no more to do than they had, as long
\* as it withdraws no timeout.
LEMMA EapSparesPort ==
    ASSUME NEW m, NEW i, NEW j, j.portEnabled = i.portEnabled, m.auth_pae # "ABORTING",
           m.auth_pae \in {"INITIALIZE", "DISCONNECTED", "RESTART", "CONNECTING",
                           "AUTHENTICATING", "AUTHENTICATED", "ABORTING", "HELD"},
           m.auth_pae = "AUTHENTICATING" /\ i.eapTimeout => j.eapTimeout
    PROVE  PortWork(m, j) <= PortWork(m, i) /\ PortWork(m, i) \in Nat /\ PortWork(m, j) \in Nat
  <1>1. PaeWork(m, j) = PaeWork(m, i) /\ PaeWork(m, i) \in Nat
    BY DEF PaeWork
  <1>2. StartsOver(m, j) => StartsOver(m, i)
    BY DEF StartsOver
  <1> QED
    BY <1>1, <1>2 DEF PortWork

\* There is a limit to the work, below the number of passes.
LEMMA WorkBound ==
    ASSUME NEW g, Typed(g), BeforePass(g)
    PROVE  Work(g) \in 0 .. 64
  <1> DEFINE m == g.sm
             i == g.eap_if
  <1>1. m.auth_pae \in {"INITIALIZE", "DISCONNECTED", "RESTART", "CONNECTING",
                        "AUTHENTICATING", "AUTHENTICATED", "ABORTING", "HELD"}
    BY PartsOf DEF PortType
  <1>2. ~m.authAbort
    BY DEF BeforePass
  <1> HIDE DEF m, i
  <1>3. /\ PaeWork(m, i) \in 0 .. 14
        /\ m.auth_pae \in {"CONNECTING", "AUTHENTICATING", "AUTHENTICATED"} =>
             PaeWork(m, i) \in 0 .. 11
    BY <1>1, <1>2 DEF PaeWork
  <1>4. StartsOver(m, i) => m.auth_pae \in {"CONNECTING", "AUTHENTICATING", "AUTHENTICATED"}
    BY DEF StartsOver
  <1>5. PortWork(m, i) \in 0 .. 35
    BY <1>3, <1>4 DEF PortWork
  <1>6. BeWork(m) \in 0 .. 10
    BY DEF BeWork
  <1>7. TimerWork(m) \in 0 .. 18 /\ EapMoves(g) \in 0 .. 1
    BY DEF TimerWork, EapMoves
  <1> QED
    BY <1>5, <1>6, <1>7 DEF Work, m, i

\* A pass keeps the machines tied and is not cut; unless everything rests, it
\* leaves less to do.
LEMMA PassWorks ==
    ASSUME NEW g, RunOK(g), BeforePass(g), ~g.hist.cut, conf \in Confs, LongRuns,
           NEW r \in Pass(g)
    PROVE  /\ RunOK(r.g) /\ BeforePass(r.g) /\ ~r.g.hist.cut
           /\ r.rests => Settled(r.g)
           /\ ~r.rests => Work(r.g) < Work(g)
  <1> DEFINE p == PortPass(g)
  <1>1. /\ RunOK(p) /\ BeforePass(p) /\ p.hist.cut = g.hist.cut
        /\ Work(p) <= Work(g) /\ Work(p) \in Nat /\ Work(g) \in Nat
        /\ MachineStates(p.sm) # MachineStates(g.sm) => Work(p) < Work(g)
        /\ MachineStates(p.sm) = MachineStates(g.sm) => AtRest(p)
    BY PortPassWorks
  <1>2. RunOK(r.g)
    BY PassOK
  <1>3. CASE MachineStates(p.sm) # MachineStates(g.sm)
    <2>1. r = [g |-> p, rests |-> FALSE]
      BY <1>3 DEF Pass, MachineStates, PortPass
    <2> HIDE DEF p
    <2>2. r.g = p /\ r.rests = FALSE
      BY <2>1
    <2> QED
      BY <1>1, <1>3, <2>2
  <1>4. CASE MachineStates(p.sm) = MachineStates(g.sm)
    <2>1. PICK k \in eap_server_sm_step(p) :
            r = [g |-> [k EXCEPT !.hist.cut = @ \/ k.eap.changed],
                 rests |-> SM_STEP_EAP(p.eap, p.eap_if) = "stay"]
      BY <1>4 DEF Pass, MachineStates, PortPass
    <2> HIDE DEF p
    <2> DEFINE h == r.g
    <2>2. /\ AtRest(p) /\ PortRests(p) /\ EapOK(p) /\ DOMAIN p = Fields /\ p.eap \in EapType
          /\ p.hist \in HistType
      BY <1>1, <1>4 DEF AtRest, RunOK, Typed, EapOK, EapTyped
    <2>3. EapGoes(p, k, MaxEapSteps) /\ ~k.eap.changed
      BY <2>2, EapEnds
    <2>4. KeepsPort(p, k) /\ PortRests(k) /\ EapOK(k) /\ Still(k.eap, k.eap_if) /\ TimeoutStays(p, k)
          /\ (Still(p.eap, p.eap_if) => EapStays(p, k))
      BY <2>3 DEF EapGoes
    <2>5. /\ DOMAIN k = Fields /\ k.sm = p.sm /\ k.hist = p.hist /\ k.sta = p.sta
          /\ k.awaiting = p.awaiting /\ k.eap_if.portEnabled = p.eap_if.portEnabled
      BY <2>2, <2>4 DEF KeepsPort, Fields
    <2>6. /\ h.sm = k.sm /\ h.eap = k.eap /\ h.eap_if = k.eap_if /\ h.sta = k.sta
          /\ h.awaiting = k.awaiting /\ h.hist = [k.hist EXCEPT !.cut = @ \/ k.eap.changed]
          /\ r.rests <=> SM_STEP_EAP(p.eap, p.eap_if) = "stay"
      BY <2>1, <2>5 DEF Fields
    <2>7. ~h.hist.cut
      BY <1>1, <2>2, <2>3, <2>5, <2>6 DEF HistType
    <2> HIDE DEF h
    <2>8. PortRests(h)
      BY <2>4, <2>6 DEF PortRests, Linked, Wired
    <2>9. BeforePass(h) /\ Still(h.eap, h.eap_if)
      BY <2>4, <2>6, <2>8, StillBefore
    <2>10. CASE r.rests
      <3>1. Still(p.eap, p.eap_if)
        BY <2>2, <2>6, <2>10, StillStays
      <3>2. h.eap_if = p.eap_if /\ h.eap.state = p.eap.state /\ h.sm = p.sm
        BY <2>4, <2>5, <2>6, <3>1 DEF EapStays
      <3>3. h.eap_if.portEnabled => ~h.eap_if.eapRestart
        BY <2>9 DEF Still
      <3>4. Settled(h)
        BY <2>2, <2>9, <3>2, <3>3 DEF Settled, AtRest
      <3> QED
        BY <1>2, <2>7, <2>9, <2>10, <3>4 DEF h
    <2>11. CASE ~r.rests
      <3>1. h.eap \in EapType
        BY <2>4, <2>6 DEF EapOK, EapTyped
      <3>2. EapMoves(p) = 1 /\ EapMoves(h) = 0
        BY <2>6, <2>9, <2>11, <3>1, StillStays DEF EapMoves
      <3>3. p.sm.auth_pae \in {"INITIALIZE", "DISCONNECTED", "RESTART", "CONNECTING",
                        "AUTHENTICATING", "AUTHENTICATED", "ABORTING", "HELD"}
        BY <1>1, PartsOf DEF PortType, RunOK
      <3>4. p.sm.auth_pae # "ABORTING"
        BY <2>2 DEF PortRests
      <3>5. PortWork(p.sm, h.eap_if) <= PortWork(p.sm, p.eap_if)
            /\ PortWork(p.sm, h.eap_if) \in Nat /\ PortWork(p.sm, p.eap_if) \in Nat
        BY <2>4, <2>5, <2>6, <3>3, <3>4, EapSparesPort DEF TimeoutStays
      <3>6. BeWork(p.sm) \in Nat /\ TimerWork(p.sm) \in Nat
        BY DEF BeWork, TimerWork
      <3>7. h.sm = p.sm
        BY <2>5, <2>6
      <3>8. Work(h) < Work(p) /\ Work(h) \in Nat
        BY <3>2, <3>5, <3>6, <3>7 DEF Work
      <3>9. Work(h) < Work(g)
        BY <1>1, <3>8
      <3> QED
        BY <1>2, <2>7, <2>9, <2>11, <3>9 DEF h
    <2> QED
      BY <2>10, <2>11
  <1> QED
    BY <1>3, <1>4

\* A run after n passes.
RunGoes(r, n) ==
    /\ RunOK(r.g) /\ BeforePass(r.g) /\ ~r.g.hist.cut
    /\ r.rests => Settled(r.g)
    /\ ~r.rests => Work(r.g) + n <= 64

\* A run comes to rest before it is cut.
LEMMA RunRests ==
    ASSUME NEW g, RunOK(g), BeforePass(g), ~g.hist.cut, conf \in Confs, LongRuns,
           NEW h \in eapol_sm_step_run(g)
    PROVE  \E r : /\ r.rests /\ h = RunEnd(r.g)
                  /\ RunOK(r.g) /\ Settled(r.g) /\ ~r.g.hist.cut
  <1> DEFINE F == CHOOSE f : f = [i \in 0 .. max_steps |-> RunAfter(g, f, i)]
  <1>1. F = [i \in 0 .. max_steps |-> RunAfter(g, F, i)]
    BY RunRecursion, EapolAssumption
  <1>2. eapol_sm_step_run(g) = {Outcome(r) : r \in F[max_steps]}
    BY DEF eapol_sm_step_run, RunAfter, Outcome, Start
  <1> HIDE DEF F
  <1> DEFINE S == {n \in Nat : n <= max_steps => \A r \in F[n] : RunGoes(r, n)}
  <1>3. 0 \in S
    <2>1. 0 \in 0 .. max_steps
      BY EapolAssumption
    <2>2. F[0] = {Start(g)}
      BY <1>1, <2>1 DEF RunAfter
    <2>3. Work(g) \in 0 .. 64
      BY WorkBound DEF RunOK
    <2>4. Start(g).g = g /\ Start(g).rests = FALSE
      BY DEF Start
    <2>5. RunGoes(Start(g), 0)
      BY <2>3, <2>4 DEF RunGoes
    <2> QED
      BY <2>2, <2>5
  <1>4. ASSUME NEW n \in S PROVE n + 1 \in S
    <2> SUFFICES ASSUME n + 1 <= max_steps, NEW x \in F[n + 1] PROVE RunGoes(x, n + 1)
      OBVIOUS
    <2>1. n + 1 \in 0 .. max_steps /\ n \in Nat /\ \A r \in F[n] : RunGoes(r, n)
      BY EapolAssumption
    <2>2. F[n + 1] = RunAfter(g, F, n + 1)
      BY <1>1, <2>1
    <2>3. RunAfter(g, F, n + 1) = UNION {IF r.rests THEN {r} ELSE Pass(r.g) : r \in F[n]}
      <3>1. n + 1 # 0 /\ (n + 1) - 1 = n
        OBVIOUS
      <3> HIDE DEF S
      <3> QED
        BY <3>1 DEF RunAfter
    <2> HIDE DEF S
    <2>4. PICK r \in F[n] : x \in (IF r.rests THEN {r} ELSE Pass(r.g))
      BY <2>2, <2>3
    <2>5. RunGoes(r, n)
      BY <2>1
    <2>6. CASE r.rests
      <3>1. x = r
        BY <2>4, <2>6
      <3> QED
        BY <2>5, <2>6, <3>1 DEF RunGoes
    <2>7. CASE ~r.rests
      <3>1. x \in Pass(r.g)
        BY <2>4, <2>7
      <3>2. RunOK(r.g) /\ BeforePass(r.g) /\ ~r.g.hist.cut /\ Work(r.g) + n <= 64
        BY <2>5, <2>7 DEF RunGoes
      <3>3. /\ RunOK(x.g) /\ BeforePass(x.g) /\ ~x.g.hist.cut
            /\ x.rests => Settled(x.g)
            /\ ~x.rests => Work(x.g) < Work(r.g)
        BY <3>1, <3>2, PassWorks
      <3>4. Work(r.g) \in 0 .. 64 /\ Work(x.g) \in 0 .. 64
        BY <3>2, <3>3, WorkBound DEF RunOK
      <3>5. ~x.rests => Work(x.g) + (n + 1) <= 64
        BY <2>1, <3>2, <3>3, <3>4
      <3> QED
        BY <3>3, <3>5 DEF RunGoes
    <2> QED
      BY <2>6, <2>7
  <1>5. S = Nat
    <2>1. S \subseteq Nat
      OBVIOUS
    <2> HIDE DEF S
    <2> QED
      BY <1>3, <1>4, <2>1, Induct
  <1>6. PICK r \in F[max_steps] : h = Outcome(r)
    BY <1>2
  <1>7. RunGoes(r, max_steps)
    BY <1>5, EapolAssumption
  <1> HIDE DEF S
  <1>8. r.rests
    <2>1. RunOK(r.g) /\ BeforePass(r.g) /\ (~r.rests => Work(r.g) + max_steps <= 64)
      BY <1>7 DEF RunGoes
    <2>2. Work(r.g) \in 0 .. 64
      BY <2>1, WorkBound DEF RunOK
    <2> QED
      BY <2>1, <2>2, EapolAssumption DEF LongRuns
  <1> QED
    BY <1>6, <1>7, <1>8 DEF RunGoes, Outcome

-----------------------------------------------------------------------------
(* What the events leave of the ties.                                      *)

\* An event between two runs leaves these fields of the port machines alone: a
\* failure may be reported by the RADIUS server, and the keys may be installed.
PortQuiet(m, n) ==
    /\ n.auth_pae = m.auth_pae /\ n.be_auth = m.be_auth
    /\ n.authPortStatus = m.authPortStatus /\ n.reAuthCount = m.reAuthCount
    /\ n.authStart = m.authStart /\ n.authAbort = m.authAbort
    /\ n.authSuccess = m.authSuccess /\ n.authTimeout = m.authTimeout
    /\ n.authFail = m.authFail \/ (n.authFail /\ ~conf.eap_server)
    /\ (n.portValid = m.portValid /\ n.keyDone = m.keyDone) \/ n.portValid

\* These of the EAP machine.
MachineQuiet(e, f) ==
    /\ f.state = e.state /\ f.eap_server = e.eap_server
    /\ f.num_rounds = e.num_rounds /\ f.decision = e.decision

\* And these of its interface.
SignalsQuiet(i, j) ==
    /\ j.portEnabled = i.portEnabled /\ j.eapReq = i.eapReq
    /\ j.eapSuccess = i.eapSuccess /\ j.eapFail = i.eapFail
    /\ j.eapTimeout = i.eapTimeout /\ j.eapRestart = i.eapRestart
    /\ j.aaaEapResp => i.aaaEapResp

Quiet(g, h) ==
    /\ PortQuiet(g.sm, h.sm) /\ MachineQuiet(g.eap, h.eap) /\ SignalsQuiet(g.eap_if, h.eap_if)
    /\ h.sta = g.sta /\ h.hist.cut = g.hist.cut
    /\ h.awaiting => g.awaiting \/ g.eap_if.aaaEapResp

\* What they leave alone is enough.
LEMMA QuietKeeps ==
    ASSUME NEW g, Settled(g), NEW h, Quiet(g, h)
    PROVE  Settled(h)
  <1> DEFINE m == g.sm
             e == g.eap
             i == g.eap_if
             n == h.sm
             f == h.eap
             j == h.eap_if
  <1>1. /\ PortQuiet(m, n) /\ MachineQuiet(e, f) /\ SignalsQuiet(i, j) /\ h.sta = g.sta
        /\ h.awaiting => g.awaiting \/ i.aaaEapResp
    BY DEF Quiet
  <1>2. /\ Wired(g) /\ (m.auth_pae = "AUTHENTICATED" => e.state \in Succeeded) /\ ~m.authAbort
        /\ e.num_rounds # EAP_MAX_AUTH_ROUNDS + 1
        /\ i.portEnabled => Tied(m, e, i) /\ Between(m, e, i)
        /\ i.portEnabled =>
             /\ m.auth_pae # "RESTART"
             /\ m.auth_pae = "CONNECTING" => ~Offered(i)
             /\ e.state \in Failed =>
                  m.authPortStatus # "Authorized" \/ m.be_auth \in {"REQUEST", "IGNORE"}
    BY DEF Settled, BeforePass, Linked
  <1>3. Wired(h)
    BY <1>1, <1>2 DEF Wired, MachineQuiet, SignalsQuiet
  <1> HIDE DEF m, e, i, n, f, j
  <1>4. ASSUME j.portEnabled
        PROVE  /\ Tied(n, f, j) /\ Between(n, f, j)
               /\ n.auth_pae # "RESTART"
               /\ n.auth_pae = "CONNECTING" => ~Offered(j)
               /\ f.state \in Failed =>
                    n.authPortStatus # "Authorized" \/ n.be_auth \in {"REQUEST", "IGNORE"}
    <2>1. i.portEnabled /\ Tied(m, e, i) /\ Between(m, e, i)
      BY <1>1, <1>2, <1>4 DEF SignalsQuiet
    <2>2. Signals(f, j)
      BY <1>1, <2>1 DEF Tied, Signals, MachineQuiet, SignalsQuiet
    <2>3. m.auth_pae = "AUTHENTICATING" => Authenticating(n, f)
      <3>1. m.auth_pae = "AUTHENTICATING" => Authenticating(m, e)
        BY <2>1 DEF Tied
      <3> QED
        BY <1>1, <3>1 DEF Authenticating, Idle, PortQuiet, MachineQuiet
    <2>4. n.keyDone \/ n.auth_pae = "AUTHENTICATED" => n.portValid
      BY <1>1, <2>1 DEF Tied, PortQuiet
    <2>5. Tied(n, f, j)
      BY <1>1, <2>1, <2>2, <2>3, <2>4 DEF Tied, PortQuiet, SignalsQuiet
    <2>6. Offered(j) <=> Offered(i)
      BY <1>1 DEF Offered, SignalsQuiet
    <2>7. Between(n, f, j)
      BY <1>1, <1>2, <2>1, <2>6 DEF Between, PortQuiet
    <2> QED
      BY <1>1, <1>2, <2>1, <2>5, <2>6, <2>7 DEF PortQuiet, MachineQuiet
  <1>5. /\ n.auth_pae = "AUTHENTICATED" => f.state \in Succeeded
        /\ ~n.authAbort /\ f.num_rounds # EAP_MAX_AUTH_ROUNDS + 1
    BY <1>1, <1>2 DEF PortQuiet, MachineQuiet
  <1> QED
    BY <1>3, <1>4, <1>5 DEF Settled, BeforePass, Linked, n, f, j

\* So is what the WPA machine leaves.
LEMMA CloseSettles ==
    ASSUME NEW g, Settled(g), NEW h, MayClose(g, h)
    PROVE  Settled(h)
  <1>1. BeforePass(h)
    BY CloseKeeps DEF Settled
  <1>2. /\ h.eap = g.eap /\ OthersSame(g.sm, h.sm) /\ SignalsSame(g.eap_if, h.eap_if)
        /\ h.eap_if.portEnabled => g.eap_if.portEnabled
    BY DEF MayClose
  <1>3. Offered(h.eap_if) => Offered(g.eap_if)
    BY <1>2 DEF Offered, SignalsSame, Kin
  <1> QED
    BY <1>1, <1>2, <1>3 DEF Settled, OthersSame

\* The queued step has been taken off the list.
LEMMA CallbackQuiet ==
    ASSUME NEW g, Typed(g), Settled(g)
    PROVE  LET h == [g EXCEPT !.queued = FALSE]
           IN  Settled(h) /\ h.hist.cut = g.hist.cut
  <1> DEFINE h == [g EXCEPT !.queued = FALSE]
  <1>1. /\ DOMAIN g = Fields /\ g.sm \in PortType /\ g.eap_if \in EapIfType
        /\ g.hist \in HistType /\ g.eap \in EapType
    BY DEF Typed, EapOK, EapTyped
  <1>2. /\ h.sm = g.sm
        /\ h.eap = g.eap
        /\ h.eap_if = g.eap_if
        /\ h.hist = g.hist /\ h.sta = g.sta /\ h.awaiting = g.awaiting
    BY <1>1 DEF Fields
  <1> HIDE DEF h
  <1>3. PortQuiet(g.sm, h.sm)
    BY <1>1, <1>2 DEF PortQuiet
  <1>4. MachineQuiet(g.eap, h.eap)
    BY <1>1, <1>2 DEF MachineQuiet
  <1>5. SignalsQuiet(g.eap_if, h.eap_if)
    BY <1>1, <1>2 DEF SignalsQuiet
  <1>6. h.hist.cut = g.hist.cut
    BY <1>1, <1>2 DEF HistType
  <1>7. Settled(h)
    BY <1>2, <1>3, <1>4, <1>5, <1>6, QuietKeeps DEF Quiet
  <1> QED
    BY <1>6, <1>7 DEF h

\* The PMKSA cache changes.
LEMMA CacheQuiet ==
    ASSUME NEW g, Typed(g), Settled(g), NEW p
    PROVE  LET h == [g EXCEPT !.pmksa = p]
           IN  Settled(h) /\ h.hist.cut = g.hist.cut
  <1> DEFINE h == [g EXCEPT !.pmksa = p]
  <1>1. /\ DOMAIN g = Fields /\ g.sm \in PortType /\ g.eap_if \in EapIfType
        /\ g.hist \in HistType /\ g.eap \in EapType
    BY DEF Typed, EapOK, EapTyped
  <1>2. /\ h.sm = g.sm
        /\ h.eap = g.eap
        /\ h.eap_if = g.eap_if
        /\ h.hist = g.hist /\ h.sta = g.sta /\ h.awaiting = g.awaiting
    BY <1>1 DEF Fields
  <1> HIDE DEF h
  <1>3. PortQuiet(g.sm, h.sm)
    BY <1>1, <1>2 DEF PortQuiet
  <1>4. MachineQuiet(g.eap, h.eap)
    BY <1>1, <1>2 DEF MachineQuiet
  <1>5. SignalsQuiet(g.eap_if, h.eap_if)
    BY <1>1, <1>2 DEF SignalsQuiet
  <1>6. h.hist.cut = g.hist.cut
    BY <1>1, <1>2 DEF HistType
  <1>7. Settled(h)
    BY <1>2, <1>3, <1>4, <1>5, <1>6, QuietKeeps DEF Quiet
  <1> QED
    BY <1>6, <1>7 DEF h

\* A run starts.
LEMMA RunQuiet ==
    ASSUME NEW g, Typed(g), Settled(g)
    PROVE  LET h == [g EXCEPT !.hist.left = FALSE]
           IN  Settled(h) /\ h.hist.cut = g.hist.cut
  <1> DEFINE h == [g EXCEPT !.hist.left = FALSE]
  <1>1. /\ DOMAIN g = Fields /\ g.sm \in PortType /\ g.eap_if \in EapIfType
        /\ g.hist \in HistType /\ g.eap \in EapType
    BY DEF Typed, EapOK, EapTyped
  <1>2. /\ h.sm = g.sm
        /\ h.eap = g.eap
        /\ h.eap_if = g.eap_if
        /\ h.hist = [g.hist EXCEPT !.left = FALSE] /\ h.sta = g.sta /\ h.awaiting = g.awaiting
    BY <1>1 DEF Fields
  <1> HIDE DEF h
  <1>3. PortQuiet(g.sm, h.sm)
    BY <1>1, <1>2 DEF PortQuiet
  <1>4. MachineQuiet(g.eap, h.eap)
    BY <1>1, <1>2 DEF MachineQuiet
  <1>5. SignalsQuiet(g.eap_if, h.eap_if)
    BY <1>1, <1>2 DEF SignalsQuiet
  <1>6. h.hist.cut = g.hist.cut
    BY <1>1, <1>2 DEF HistType
  <1>7. Settled(h)
    BY <1>2, <1>3, <1>4, <1>5, <1>6, QuietKeeps DEF Quiet
  <1> QED
    BY <1>6, <1>7 DEF h

\* A response of the station.
LEMMA ResponseQuiet ==
    ASSUME NEW g, Typed(g), Settled(g), NEW r
    PROVE  LET h == [g EXCEPT !.sm.eapolEap = TRUE, !.eap_if.eapRespData = r,
                          !.hist.fresh = TRUE, !.queued = TRUE]
           IN  Settled(h) /\ h.hist.cut = g.hist.cut
  <1> DEFINE h == [g EXCEPT !.sm.eapolEap = TRUE, !.eap_if.eapRespData = r,
                           !.hist.fresh = TRUE, !.queued = TRUE]
  <1>1. /\ DOMAIN g = Fields /\ g.sm \in PortType /\ g.eap_if \in EapIfType
        /\ g.hist \in HistType /\ g.eap \in EapType
    BY DEF Typed, EapOK, EapTyped
  <1>2. /\ h.sm = [g.sm EXCEPT !.eapolEap = TRUE]
        /\ h.eap = g.eap
        /\ h.eap_if = [g.eap_if EXCEPT !.eapRespData = r]
        /\ h.hist = [g.hist EXCEPT !.fresh = TRUE] /\ h.sta = g.sta /\ h.awaiting = g.awaiting
    BY <1>1 DEF Fields
  <1> HIDE DEF h
  <1>3. PortQuiet(g.sm, h.sm)
    BY <1>1, <1>2 DEF PortQuiet, PortType
  <1>4. MachineQuiet(g.eap, h.eap)
    BY <1>1, <1>2 DEF MachineQuiet
  <1>5. SignalsQuiet(g.eap_if, h.eap_if)
    BY <1>1, <1>2 DEF SignalsQuiet, EapIfType
  <1>6. h.hist.cut = g.hist.cut
    BY <1>1, <1>2 DEF HistType
  <1>7. Settled(h)
    BY <1>2, <1>3, <1>4, <1>5, <1>6, QuietKeeps DEF Quiet
  <1> QED
    BY <1>6, <1>7 DEF h

\* EAPOL-Start, before the WPA machine hears of it.
LEMMA StartQuiet ==
    ASSUME NEW g, Typed(g), Settled(g)
    PROVE  LET h == [g EXCEPT !.sm.eapolStart = TRUE]
           IN  Settled(h) /\ h.hist.cut = g.hist.cut
  <1> DEFINE h == [g EXCEPT !.sm.eapolStart = TRUE]
  <1>1. /\ DOMAIN g = Fields /\ g.sm \in PortType /\ g.eap_if \in EapIfType
        /\ g.hist \in HistType /\ g.eap \in EapType
    BY DEF Typed, EapOK, EapTyped
  <1>2. /\ h.sm = [g.sm EXCEPT !.eapolStart = TRUE]
        /\ h.eap = g.eap
        /\ h.eap_if = g.eap_if
        /\ h.hist = g.hist /\ h.sta = g.sta /\ h.awaiting = g.awaiting
    BY <1>1 DEF Fields
  <1> HIDE DEF h
  <1>3. PortQuiet(g.sm, h.sm)
    BY <1>1, <1>2 DEF PortQuiet, PortType
  <1>4. MachineQuiet(g.eap, h.eap)
    BY <1>1, <1>2 DEF MachineQuiet
  <1>5. SignalsQuiet(g.eap_if, h.eap_if)
    BY <1>1, <1>2 DEF SignalsQuiet
  <1>6. h.hist.cut = g.hist.cut
    BY <1>1, <1>2 DEF HistType
  <1>7. Settled(h)
    BY <1>2, <1>3, <1>4, <1>5, <1>6, QuietKeeps DEF Quiet
  <1> QED
    BY <1>6, <1>7 DEF h

\* And after.
LEMMA IdentityQuiet ==
    ASSUME NEW g, Typed(g), Settled(g)
    PROVE  LET h == [g EXCEPT !.eap = eap_server_clear_identity(@), !.queued = TRUE]
           IN  Settled(h) /\ h.hist.cut = g.hist.cut
  <1> DEFINE h == [g EXCEPT !.eap = eap_server_clear_identity(@), !.queued = TRUE]
  <1>1. /\ DOMAIN g = Fields /\ g.sm \in PortType /\ g.eap_if \in EapIfType
        /\ g.hist \in HistType /\ g.eap \in EapType
    BY DEF Typed, EapOK, EapTyped
  <1>2. /\ h.sm = g.sm
        /\ h.eap = eap_server_clear_identity(g.eap)
        /\ h.eap_if = g.eap_if
        /\ h.hist = g.hist /\ h.sta = g.sta /\ h.awaiting = g.awaiting
    BY <1>1 DEF Fields
  <1> HIDE DEF h
  <1>3. PortQuiet(g.sm, h.sm)
    BY <1>1, <1>2 DEF PortQuiet
  <1>4. MachineQuiet(g.eap, h.eap)
    BY <1>1, <1>2 DEF MachineQuiet, EapType, eap_server_clear_identity
  <1>5. SignalsQuiet(g.eap_if, h.eap_if)
    BY <1>1, <1>2 DEF SignalsQuiet
  <1>6. h.hist.cut = g.hist.cut
    BY <1>1, <1>2 DEF HistType
  <1>7. Settled(h)
    BY <1>2, <1>3, <1>4, <1>5, <1>6, QuietKeeps DEF Quiet
  <1> QED
    BY <1>6, <1>7 DEF h

\* EAPOL-Logoff.
LEMMA LogoffQuiet ==
    ASSUME NEW g, Typed(g), Settled(g)
    PROVE  LET h == [g EXCEPT !.sm.eapolLogoff = TRUE, !.eap = eap_server_clear_identity(@),
                          !.queued = TRUE]
           IN  Settled(h) /\ h.hist.cut = g.hist.cut
  <1> DEFINE h == [g EXCEPT !.sm.eapolLogoff = TRUE, !.eap = eap_server_clear_identity(@),
                           !.queued = TRUE]
  <1>1. /\ DOMAIN g = Fields /\ g.sm \in PortType /\ g.eap_if \in EapIfType
        /\ g.hist \in HistType /\ g.eap \in EapType
    BY DEF Typed, EapOK, EapTyped
  <1>2. /\ h.sm = [g.sm EXCEPT !.eapolLogoff = TRUE]
        /\ h.eap = eap_server_clear_identity(g.eap)
        /\ h.eap_if = g.eap_if
        /\ h.hist = g.hist /\ h.sta = g.sta /\ h.awaiting = g.awaiting
    BY <1>1 DEF Fields
  <1> HIDE DEF h
  <1>3. PortQuiet(g.sm, h.sm)
    BY <1>1, <1>2 DEF PortQuiet, PortType
  <1>4. MachineQuiet(g.eap, h.eap)
    BY <1>1, <1>2 DEF MachineQuiet, EapType, eap_server_clear_identity
  <1>5. SignalsQuiet(g.eap_if, h.eap_if)
    BY <1>1, <1>2 DEF SignalsQuiet
  <1>6. h.hist.cut = g.hist.cut
    BY <1>1, <1>2 DEF HistType
  <1>7. Settled(h)
    BY <1>2, <1>3, <1>4, <1>5, <1>6, QuietKeeps DEF Quiet
  <1> QED
    BY <1>6, <1>7 DEF h

\* The data a method has waited for.
LEMMA PendingQuiet ==
    ASSUME NEW g, Typed(g), Settled(g)
    PROVE  LET h == [g EXCEPT !.eap.method_pending = "CONT", !.queued = TRUE]
           IN  Settled(h) /\ h.hist.cut = g.hist.cut
  <1> DEFINE h == [g EXCEPT !.eap.method_pending = "CONT", !.queued = TRUE]
  <1>1. /\ DOMAIN g = Fields /\ g.sm \in PortType /\ g.eap_if \in EapIfType
        /\ g.hist \in HistType /\ g.eap \in EapType
    BY DEF Typed, EapOK, EapTyped
  <1>2. /\ h.sm = g.sm
        /\ h.eap = [g.eap EXCEPT !.method_pending = "CONT"]
        /\ h.eap_if = g.eap_if
        /\ h.hist = g.hist /\ h.sta = g.sta /\ h.awaiting = g.awaiting
    BY <1>1 DEF Fields
  <1> HIDE DEF h
  <1>3. PortQuiet(g.sm, h.sm)
    BY <1>1, <1>2 DEF PortQuiet
  <1>4. MachineQuiet(g.eap, h.eap)
    BY <1>1, <1>2 DEF MachineQuiet, EapType
  <1>5. SignalsQuiet(g.eap_if, h.eap_if)
    BY <1>1, <1>2 DEF SignalsQuiet
  <1>6. h.hist.cut = g.hist.cut
    BY <1>1, <1>2 DEF HistType
  <1>7. Settled(h)
    BY <1>2, <1>3, <1>4, <1>5, <1>6, QuietKeeps DEF Quiet
  <1> QED
    BY <1>6, <1>7 DEF h

\* The end of the 4-way handshake.
LEMMA DoneQuiet ==
    ASSUME NEW g, Typed(g), Settled(g)
    PROVE  LET h == [g EXCEPT !.wpa = "PTKINITDONE", !.sm.portValid = TRUE,
                          !.sm.keyDone = TRUE, !.eap_if.eapKeyAvailable = FALSE, !.queued = TRUE]
           IN  Settled(h) /\ h.hist.cut = g.hist.cut
  <1> DEFINE h == [g EXCEPT !.wpa = "PTKINITDONE", !.sm.portValid = TRUE,
                           !.sm.keyDone = TRUE, !.eap_if.eapKeyAvailable = FALSE, !.queued = TRUE]
  <1>1. /\ DOMAIN g = Fields /\ g.sm \in PortType /\ g.eap_if \in EapIfType
        /\ g.hist \in HistType /\ g.eap \in EapType
    BY DEF Typed, EapOK, EapTyped
  <1>2. /\ h.sm = [g.sm EXCEPT !.portValid = TRUE, !.keyDone = TRUE]
        /\ h.eap = g.eap
        /\ h.eap_if = [g.eap_if EXCEPT !.eapKeyAvailable = FALSE]
        /\ h.hist = g.hist /\ h.sta = g.sta /\ h.awaiting = g.awaiting
    BY <1>1 DEF Fields
  <1> HIDE DEF h
  <1>3. PortQuiet(g.sm, h.sm)
    BY <1>1, <1>2 DEF PortQuiet, PortType
  <1>4. MachineQuiet(g.eap, h.eap)
    BY <1>1, <1>2 DEF MachineQuiet
  <1>5. SignalsQuiet(g.eap_if, h.eap_if)
    BY <1>1, <1>2 DEF SignalsQuiet, EapIfType
  <1>6. h.hist.cut = g.hist.cut
    BY <1>1, <1>2 DEF HistType
  <1>7. Settled(h)
    BY <1>2, <1>3, <1>4, <1>5, <1>6, QuietKeeps DEF Quiet
  <1> QED
    BY <1>6, <1>7 DEF h

\* A reply of the RADIUS server.
LEMMA ReplyQuiet ==
    ASSUME NEW g, Typed(g), Settled(g)
    PROVE  LET h == [g EXCEPT !.queued = TRUE, !.awaiting = FALSE]
           IN  Settled(h) /\ h.hist.cut = g.hist.cut
  <1> DEFINE h == [g EXCEPT !.queued = TRUE, !.awaiting = FALSE]
  <1>1. /\ DOMAIN g = Fields /\ g.sm \in PortType /\ g.eap_if \in EapIfType
        /\ g.hist \in HistType /\ g.eap \in EapType
    BY DEF Typed, EapOK, EapTyped
  <1>2. /\ h.sm = g.sm
        /\ h.eap = g.eap
        /\ h.eap_if = g.eap_if
        /\ h.hist = g.hist /\ h.sta = g.sta /\ h.awaiting = FALSE
    BY <1>1 DEF Fields
  <1> HIDE DEF h
  <1>3. PortQuiet(g.sm, h.sm)
    BY <1>1, <1>2 DEF PortQuiet
  <1>4. MachineQuiet(g.eap, h.eap)
    BY <1>1, <1>2 DEF MachineQuiet
  <1>5. SignalsQuiet(g.eap_if, h.eap_if)
    BY <1>1, <1>2 DEF SignalsQuiet
  <1>6. h.hist.cut = g.hist.cut
    BY <1>1, <1>2 DEF HistType
  <1>7. Settled(h)
    BY <1>2, <1>3, <1>4, <1>5, <1>6, QuietKeeps DEF Quiet
  <1> QED
    BY <1>6, <1>7 DEF h

\* Its EAP packet.
LEMMA PacketQuiet ==
    ASSUME NEW g, Typed(g), Settled(g)
    PROVE  LET h == [g EXCEPT !.eap_if.aaaEapReq = TRUE, !.eap_if.aaaEapReqData = TRUE]
           IN  Settled(h) /\ h.hist.cut = g.hist.cut
  <1> DEFINE h == [g EXCEPT !.eap_if.aaaEapReq = TRUE, !.eap_if.aaaEapReqData = TRUE]
  <1>1. /\ DOMAIN g = Fields /\ g.sm \in PortType /\ g.eap_if \in EapIfType
        /\ g.hist \in HistType /\ g.eap \in EapType
    BY DEF Typed, EapOK, EapTyped
  <1>2. /\ h.sm = g.sm
        /\ h.eap = g.eap
        /\ h.eap_if = [g.eap_if EXCEPT !.aaaEapReq = TRUE, !.aaaEapReqData = TRUE]
        /\ h.hist = g.hist /\ h.sta = g.sta /\ h.awaiting = g.awaiting
    BY <1>1 DEF Fields
  <1> HIDE DEF h
  <1>3. PortQuiet(g.sm, h.sm)
    BY <1>1, <1>2 DEF PortQuiet
  <1>4. MachineQuiet(g.eap, h.eap)
    BY <1>1, <1>2 DEF MachineQuiet
  <1>5. SignalsQuiet(g.eap_if, h.eap_if)
    BY <1>1, <1>2 DEF SignalsQuiet, EapIfType
  <1>6. h.hist.cut = g.hist.cut
    BY <1>1, <1>2 DEF HistType
  <1>7. Settled(h)
    BY <1>2, <1>3, <1>4, <1>5, <1>6, QuietKeeps DEF Quiet
  <1> QED
    BY <1>6, <1>7 DEF h

\* An Access-Accept.
LEMMA AcceptQuiet ==
    ASSUME NEW g, Typed(g), Settled(g), NEW b
    PROVE  LET h == [g EXCEPT !.eap_if.aaaSuccess = TRUE, !.eap_if.aaaEapReq = FALSE,
                          !.eap_if.aaaEapKeyAvailable = b]
           IN  Settled(h) /\ h.hist.cut = g.hist.cut
  <1> DEFINE h == [g EXCEPT !.eap_if.aaaSuccess = TRUE, !.eap_if.aaaEapReq = FALSE,
                           !.eap_if.aaaEapKeyAvailable = b]
  <1>1. /\ DOMAIN g = Fields /\ g.sm \in PortType /\ g.eap_if \in EapIfType
        /\ g.hist \in HistType /\ g.eap \in EapType
    BY DEF Typed, EapOK, EapTyped
  <1>2. /\ h.sm = g.sm
        /\ h.eap = g.eap
        /\ h.eap_if = [g.eap_if EXCEPT !.aaaSuccess = TRUE, !.aaaEapReq = FALSE,
                               !.aaaEapKeyAvailable = b]
        /\ h.hist = g.hist /\ h.sta = g.sta /\ h.awaiting = g.awaiting
    BY <1>1 DEF Fields
  <1> HIDE DEF h
  <1>3. PortQuiet(g.sm, h.sm)
    BY <1>1, <1>2 DEF PortQuiet
  <1>4. MachineQuiet(g.eap, h.eap)
    BY <1>1, <1>2 DEF MachineQuiet
  <1>5. SignalsQuiet(g.eap_if, h.eap_if)
    BY <1>1, <1>2 DEF SignalsQuiet, EapIfType
  <1>6. h.hist.cut = g.hist.cut
    BY <1>1, <1>2 DEF HistType
  <1>7. Settled(h)
    BY <1>2, <1>3, <1>4, <1>5, <1>6, QuietKeeps DEF Quiet
  <1> QED
    BY <1>6, <1>7 DEF h

\* An Access-Accept without the VLAN that is required.
LEMMA MissingQuiet ==
    ASSUME NEW g, Typed(g), Settled(g), ~conf.eap_server
    PROVE  LET h == [g EXCEPT !.sm.authFail = TRUE]
           IN  Settled(h) /\ h.hist.cut = g.hist.cut
  <1> DEFINE h == [g EXCEPT !.sm.authFail = TRUE]
  <1>1. /\ DOMAIN g = Fields /\ g.sm \in PortType /\ g.eap_if \in EapIfType
        /\ g.hist \in HistType /\ g.eap \in EapType
    BY DEF Typed, EapOK, EapTyped
  <1>2. /\ h.sm = [g.sm EXCEPT !.authFail = TRUE]
        /\ h.eap = g.eap
        /\ h.eap_if = g.eap_if
        /\ h.hist = g.hist /\ h.sta = g.sta /\ h.awaiting = g.awaiting
    BY <1>1 DEF Fields
  <1> HIDE DEF h
  <1>3. PortQuiet(g.sm, h.sm)
    BY <1>1, <1>2 DEF PortQuiet, PortType
  <1>4. MachineQuiet(g.eap, h.eap)
    BY <1>1, <1>2 DEF MachineQuiet
  <1>5. SignalsQuiet(g.eap_if, h.eap_if)
    BY <1>1, <1>2 DEF SignalsQuiet
  <1>6. h.hist.cut = g.hist.cut
    BY <1>1, <1>2 DEF HistType
  <1>7. Settled(h)
    BY <1>2, <1>3, <1>4, <1>5, <1>6, QuietKeeps DEF Quiet
  <1> QED
    BY <1>6, <1>7 DEF h

\* An Access-Reject.
LEMMA RejectQuiet ==
    ASSUME NEW g, Typed(g), Settled(g)
    PROVE  LET h == [g EXCEPT !.eap_if.aaaFail = TRUE, !.eap_if.aaaEapReq = FALSE]
           IN  Settled(h) /\ h.hist.cut = g.hist.cut
  <1> DEFINE h == [g EXCEPT !.eap_if.aaaFail = TRUE, !.eap_if.aaaEapReq = FALSE]
  <1>1. /\ DOMAIN g = Fields /\ g.sm \in PortType /\ g.eap_if \in EapIfType
        /\ g.hist \in HistType /\ g.eap \in EapType
    BY DEF Typed, EapOK, EapTyped
  <1>2. /\ h.sm = g.sm
        /\ h.eap = g.eap
        /\ h.eap_if = [g.eap_if EXCEPT !.aaaFail = TRUE, !.aaaEapReq = FALSE]
        /\ h.hist = g.hist /\ h.sta = g.sta /\ h.awaiting = g.awaiting
    BY <1>1 DEF Fields
  <1> HIDE DEF h
  <1>3. PortQuiet(g.sm, h.sm)
    BY <1>1, <1>2 DEF PortQuiet
  <1>4. MachineQuiet(g.eap, h.eap)
    BY <1>1, <1>2 DEF MachineQuiet
  <1>5. SignalsQuiet(g.eap_if, h.eap_if)
    BY <1>1, <1>2 DEF SignalsQuiet, EapIfType
  <1>6. h.hist.cut = g.hist.cut
    BY <1>1, <1>2 DEF HistType
  <1>7. Settled(h)
    BY <1>2, <1>3, <1>4, <1>5, <1>6, QuietKeeps DEF Quiet
  <1> QED
    BY <1>6, <1>7 DEF h

\* An Access-Challenge.
LEMMA ChallengeQuiet ==
    ASSUME NEW g, Typed(g), Settled(g)
    PROVE  LET h == [g EXCEPT !.eap_if.aaaEapReq = TRUE]
           IN  Settled(h) /\ h.hist.cut = g.hist.cut
  <1> DEFINE h == [g EXCEPT !.eap_if.aaaEapReq = TRUE]
  <1>1. /\ DOMAIN g = Fields /\ g.sm \in PortType /\ g.eap_if \in EapIfType
        /\ g.hist \in HistType /\ g.eap \in EapType
    BY DEF Typed, EapOK, EapTyped
  <1>2. /\ h.sm = g.sm
        /\ h.eap = g.eap
        /\ h.eap_if = [g.eap_if EXCEPT !.aaaEapReq = TRUE]
        /\ h.hist = g.hist /\ h.sta = g.sta /\ h.awaiting = g.awaiting
    BY <1>1 DEF Fields
  <1> HIDE DEF h
  <1>3. PortQuiet(g.sm, h.sm)
    BY <1>1, <1>2 DEF PortQuiet
  <1>4. MachineQuiet(g.eap, h.eap)
    BY <1>1, <1>2 DEF MachineQuiet
  <1>5. SignalsQuiet(g.eap_if, h.eap_if)
    BY <1>1, <1>2 DEF SignalsQuiet, EapIfType
  <1>6. h.hist.cut = g.hist.cut
    BY <1>1, <1>2 DEF HistType
  <1>7. Settled(h)
    BY <1>2, <1>3, <1>4, <1>5, <1>6, QuietKeeps DEF Quiet
  <1> QED
    BY <1>6, <1>7 DEF h

\* A station that associates again is asked to authenticate.
LEMMA ReauthenticateQuiet ==
    ASSUME NEW g, Typed(g), Settled(g)
    PROVE  LET h == [g EXCEPT !.sm.reAuthenticate = TRUE, !.queued = TRUE]
           IN  Settled(h) /\ h.hist.cut = g.hist.cut
  <1> DEFINE h == [g EXCEPT !.sm.reAuthenticate = TRUE, !.queued = TRUE]
  <1>1. /\ DOMAIN g = Fields /\ g.sm \in PortType /\ g.eap_if \in EapIfType
        /\ g.hist \in HistType /\ g.eap \in EapType
    BY DEF Typed, EapOK, EapTyped
  <1>2. /\ h.sm = [g.sm EXCEPT !.reAuthenticate = TRUE]
        /\ h.eap = g.eap
        /\ h.eap_if = g.eap_if
        /\ h.hist = g.hist /\ h.sta = g.sta /\ h.awaiting = g.awaiting
    BY <1>1 DEF Fields
  <1> HIDE DEF h
  <1>3. PortQuiet(g.sm, h.sm)
    BY <1>1, <1>2 DEF PortQuiet, PortType
  <1>4. MachineQuiet(g.eap, h.eap)
    BY <1>1, <1>2 DEF MachineQuiet
  <1>5. SignalsQuiet(g.eap_if, h.eap_if)
    BY <1>1, <1>2 DEF SignalsQuiet
  <1>6. h.hist.cut = g.hist.cut
    BY <1>1, <1>2 DEF HistType
  <1>7. Settled(h)
    BY <1>2, <1>3, <1>4, <1>5, <1>6, QuietKeeps DEF Quiet
  <1> QED
    BY <1>6, <1>7 DEF h

\* The response for the RADIUS server is sent at the end of a run.
LEMMA EndQuiet ==
    ASSUME NEW g, Typed(g), Settled(g), NEW w, w => g.awaiting \/ g.eap_if.aaaEapResp
    PROVE  LET h == [g EXCEPT !.eap_if.aaaEapResp = FALSE, !.awaiting = w]
           IN  Settled(h) /\ h.hist.cut = g.hist.cut
  <1> DEFINE h == [g EXCEPT !.eap_if.aaaEapResp = FALSE, !.awaiting = w]
  <1>1. /\ DOMAIN g = Fields /\ g.sm \in PortType /\ g.eap_if \in EapIfType
        /\ g.hist \in HistType /\ g.eap \in EapType
    BY DEF Typed, EapOK, EapTyped
  <1>2. /\ h.sm = g.sm
        /\ h.eap = g.eap
        /\ h.eap_if = [g.eap_if EXCEPT !.aaaEapResp = FALSE]
        /\ h.hist = g.hist /\ h.sta = g.sta /\ h.awaiting = w
    BY <1>1 DEF Fields
  <1> HIDE DEF h
  <1>3. PortQuiet(g.sm, h.sm)
    BY <1>1, <1>2 DEF PortQuiet
  <1>4. MachineQuiet(g.eap, h.eap)
    BY <1>1, <1>2 DEF MachineQuiet
  <1>5. SignalsQuiet(g.eap_if, h.eap_if)
    BY <1>1, <1>2 DEF SignalsQuiet, EapIfType
  <1>6. h.hist.cut = g.hist.cut
    BY <1>1, <1>2 DEF HistType
  <1>7. Settled(h)
    BY <1>2, <1>3, <1>4, <1>5, <1>6, QuietKeeps DEF Quiet
  <1> QED
    BY <1>6, <1>7 DEF h

\* A tick of the timers.
LEMMA TickQuiet ==
    ASSUME NEW g, Typed(g), Settled(g), NEW h, h = Ticked(g)
    PROVE  Settled(h) /\ h.hist.cut = g.hist.cut
  <1> DEFINE m == g.sm
             i == g.eap_if
             dec(x) == IF x > 0 THEN x - 1 ELSE 0
             p == dec(m.aWhile)
             q == dec(m.quietWhile)
             s == dec(m.reAuthWhen)
             r == dec(i.retransWhile)
  <1>1. DOMAIN g = Fields /\ m \in PortType /\ i \in EapIfType
    BY PartsOf
  <1>2. /\ h.eap = g.eap
        /\ h.sm = [m EXCEPT !.aWhile = p, !.quietWhile = q, !.reAuthWhen = s]
        /\ h.eap_if = [i EXCEPT !.retransWhile = r]
        /\ h.hist = g.hist /\ h.sta = g.sta /\ h.awaiting = g.awaiting
    <2>1. h = [g EXCEPT !.sm.aWhile = p, !.sm.quietWhile = q, !.sm.reAuthWhen = s,
                        !.eap_if.retransWhile = r]
      BY <1>1 DEF Fields, PortType, Ticked
    <2> HIDE DEF p, q, s, r
    <2> QED
      BY <1>1, <2>1 DEF Fields
  <1> HIDE DEF p, q, s, r, m, i
  <1>3. PortQuiet(m, h.sm)
    BY <1>1, <1>2 DEF PortQuiet, PortType
  <1>4. SignalsQuiet(i, h.eap_if)
    BY <1>1, <1>2 DEF SignalsQuiet, EapIfType
  <1>5. MachineQuiet(g.eap, h.eap)
    BY <1>2 DEF MachineQuiet
  <1> QED
    BY <1>2, <1>3, <1>4, <1>5, QuietKeeps DEF Quiet, m, i

\* The 4-way handshake has failed.
LEMMA DisconnectSettles ==
    ASSUME NEW g, Typed(g), Settled(g)
    PROVE  Settled(WpaDisconnect(g)) /\ WpaDisconnect(g).hist.cut = g.hist.cut
  <1> DEFINE h == WpaDisconnect(g)
             m == g.sm
             i == g.eap_if
  <1>1. DOMAIN g = Fields /\ m \in PortType /\ i \in EapIfType
    BY PartsOf
  <1>2. /\ h.eap = g.eap /\ h.awaiting = g.awaiting /\ h.hist = g.hist /\ h.sta = "removing"
        /\ h.sm = [m EXCEPT !.portValid = FALSE] /\ h.eap_if = [i EXCEPT !.portEnabled = FALSE]
    BY <1>1 DEF WpaDisconnect, ap_sta_disconnect, Fields
  <1> HIDE DEF h, m, i
  <1>3. OthersSame(m, h.sm) /\ h.sm.portValid = FALSE
    BY <1>1, <1>2 DEF OthersSame, PortType
  <1>4. SignalsSame(i, h.eap_if) /\ h.eap_if.portEnabled = FALSE
    BY <1>1, <1>2 DEF SignalsSame, Kin, EapIfType
  <1>5. MayClose(g, h)
    BY <1>2, <1>3, <1>4 DEF MayClose, m, i
  <1> QED
    BY <1>2, <1>5, CloseSettles DEF h

\* The entry of a station that has just been created or freed.
LEMMA BlankSettles ==
    ASSUME NEW h, h.sm = eapol_auth_alloc, h.eap = eap_server_sm_init(conf.eap_server),
           \/ h.eap_if = EapIfInit /\ h.sta = "none"
           \/ h.eap_if = [EapIfInit EXCEPT !.portEnabled = TRUE] /\ h.sta = "assoc",
           h.awaiting => ~conf.eap_server
    PROVE  Settled(h)
  <1> DEFINE m == h.sm
             e == h.eap
             i == h.eap_if
  <1>1. /\ m.auth_pae = "INITIALIZE" /\ m.be_auth = "IDLE" /\ ~m.authStart /\ ~m.authAbort
        /\ ~m.keyDone
    BY DEF eapol_auth_alloc
  <1>2. /\ e.state = "DISABLED" /\ e.num_rounds = 0 /\ e.eap_server = conf.eap_server
    BY DEF eap_server_sm_init
  <1>3. /\ i.portEnabled <=> h.sta = "assoc"
        /\ ~i.eapSuccess /\ ~i.eapTimeout /\ ~i.eapRestart /\ ~i.aaaEapResp
    BY DEF EapIfInit
  <1>4. 0 # EAP_MAX_AUTH_ROUNDS + 1
    BY EapAssumption
  <1>5. Wired(h)
    BY <1>2, <1>3 DEF Wired, PassThrough
  <1> HIDE DEF m, e, i
  <1>6. Tied(m, e, i)
    BY <1>1, <1>2, <1>3 DEF Tied, Signals, Failed
  <1>7. Between(m, e, i)
    BY <1>1 DEF Between, Exchanging
  <1> QED
    BY <1>1, <1>2, <1>4, <1>5, <1>6, <1>7 DEF Settled, BeforePass, Linked, Failed, m, e, i

\* The shortcut for a cached PMK: AUTH_PAE and BE_AUTH are put where a success of
\* the EAP machine would have taken them, and so is the EAP machine.
LEMMA CachedSettles ==
    ASSUME NEW g, Typed(g), Settled(g), g.eap_if.portEnabled, NEW h,
           h.sm = [g.sm EXCEPT !.keyRun = TRUE, !.auth_pae = "AUTHENTICATING",
                               !.be_auth = "SUCCESS", !.authSuccess = TRUE],
           h.eap = [g.eap EXCEPT !.state = "SUCCESS"],
           h.eap_if = [g.eap_if EXCEPT !.eapKeyAvailable = TRUE],
           h.sta = g.sta, h.awaiting = g.awaiting
    PROVE  Settled(h)
  <1> DEFINE m == g.sm
             e == g.eap
             i == g.eap_if
             n == h.sm
             f == h.eap
             j == h.eap_if
  <1>1. m \in PortType /\ i \in EapIfType /\ e \in EapType
    BY DEF Typed, EapOK, EapTyped
  <1>2. /\ Wired(g) /\ ~m.authAbort /\ e.num_rounds # EAP_MAX_AUTH_ROUNDS + 1
        /\ i.portEnabled /\ Tied(m, e, i) /\ m.auth_pae # "RESTART"
    BY DEF Settled, BeforePass, Linked
  <1>3. /\ n = [m EXCEPT !.keyRun = TRUE, !.auth_pae = "AUTHENTICATING",
                         !.be_auth = "SUCCESS", !.authSuccess = TRUE]
        /\ f = [e EXCEPT !.state = "SUCCESS"] /\ j = [i EXCEPT !.eapKeyAvailable = TRUE]
    OBVIOUS
  <1> HIDE DEF m, e, i, n, f, j
  <1>4. /\ n.auth_pae = "AUTHENTICATING" /\ n.be_auth = "SUCCESS" /\ n.authSuccess
        /\ n.authAbort = m.authAbort /\ n.keyDone = m.keyDone /\ n.portValid = m.portValid
    BY <1>1, <1>3 DEF PortType
  <1>5. f.state = "SUCCESS" /\ f.num_rounds = e.num_rounds /\ f.eap_server = e.eap_server
    BY <1>1, <1>3 DEF EapType
  <1>6. /\ j.portEnabled = i.portEnabled /\ j.eapRestart = i.eapRestart
        /\ j.aaaEapResp = i.aaaEapResp
    BY <1>1, <1>3 DEF EapIfType
  <1>7. Wired(h)
    <2>1. /\ i.portEnabled <=> g.sta = "assoc"
          /\ e.eap_server = conf.eap_server
          /\ g.awaiting \/ i.aaaEapResp => ~conf.eap_server
      BY <1>2 DEF Wired, e, i
    <2>2. /\ j.portEnabled <=> h.sta = "assoc"
          /\ f.eap_server = conf.eap_server
          /\ h.awaiting \/ j.aaaEapResp => ~conf.eap_server
          /\ f.state \notin PassThrough /\ f.state # "SELECT_ACTION"
      BY <1>5, <1>6, <2>1 DEF PassThrough
    <2> QED
      BY <2>2 DEF Wired, f, j
  <1>8. ~j.eapRestart /\ (n.keyDone => n.portValid)
    BY <1>2, <1>4, <1>6 DEF Tied
  <1>9. Tied(n, f, j)
    BY <1>4, <1>5, <1>8 DEF Tied, Signals, Authenticating, Idle, Succeeded, Failed
  <1>10. Between(n, f, j)
    BY <1>4 DEF Between
  <1> QED
    BY <1>2, <1>4, <1>5, <1>7, <1>9, <1>10 DEF Settled, BeforePass, Linked, Failed, n, f, j

-----------------------------------------------------------------------------
(* Steps between states in which everything rests.                         *)

\* A state between events, with no run cut so far.
Sound(g) == RunOK(g) /\ Rested(g) /\ Settled(g) /\ ~g.hist.cut

\* The WPA machine leaves such a state behind.
LEMMA WpaSound ==
    ASSUME NEW g, Sound(g)
    PROVE  Sound(wpa_sm_step(g)) /\ Sound(wpa_reauth(g))
  <1>1. MayClose(g, wpa_sm_step(g)) /\ MayClose(g, wpa_reauth(g))
    BY WpaMayClose DEF Sound, RunOK
  <1>2. Settled(wpa_sm_step(g)) /\ Settled(wpa_reauth(g))
    BY <1>1, CloseSettles DEF Sound
  <1>3. /\ RunOK(wpa_sm_step(g)) /\ Rested(wpa_sm_step(g))
        /\ RunOK(wpa_reauth(g)) /\ Rested(wpa_reauth(g))
    BY WpaStepOK, WpaReauthOK DEF Sound
  <1> QED
    BY <1>1, <1>2, <1>3 DEF Sound, MayClose

\* A whole run.
LEMMA RunSound ==
    ASSUME NEW g, Sound(g), conf \in Confs, LongRuns, NEW h \in eapol_sm_step_run(g)
    PROVE  Sound(h)
  <1>1. RunOK(h) /\ Rested(h)
    BY WholeRunOK DEF Sound
  <1>2. RunOK(g) /\ BeforePass(g) /\ ~g.hist.cut
    BY DEF Sound, Settled
  <1>3. PICK r : h = RunEnd(r.g) /\ RunOK(r.g) /\ Settled(r.g) /\ ~r.g.hist.cut
    BY <1>2, RunRests
  <1> DEFINE k == r.g
             w == k.awaiting \/ k.eap_if.aaaEapResp
             x == [k EXCEPT !.eap_if.aaaEapResp = FALSE]
             y == [x EXCEPT !.awaiting = @ \/ k.eap_if.aaaEapResp]
             z(u) == [k EXCEPT !.eap_if.aaaEapResp = FALSE, !.awaiting = u]
  <1>4. /\ DOMAIN k = Fields /\ k.eap_if \in EapIfType /\ k.awaiting \in BOOLEAN /\ Typed(k)
    BY <1>3, PartsOf DEF RunOK
  <1>5. x = z(k.awaiting) /\ y = z(w)
    BY <1>4 DEF Fields
  <1>6. h \in {x, wpa_sm_step(y)}
    BY <1>3 DEF RunEnd
  <1>7. ASSUME NEW u \in BOOLEAN, u => w
        PROVE  Settled(z(u)) /\ ~z(u).hist.cut
    BY <1>3, <1>4, <1>7, EndQuiet
  <1>8. w \in BOOLEAN
    OBVIOUS
  <1>9. Typed(y)
    <2> HIDE DEF w
    <2>1. /\ DOMAIN y = Fields /\ y.sm = k.sm /\ y.eap = k.eap /\ y.wpa = k.wpa /\ y.sta = k.sta
          /\ y.queued = k.queued /\ y.pmksa = k.pmksa /\ y.awaiting = w /\ y.hist = k.hist
          /\ y.eap_if = [k.eap_if EXCEPT !.aaaEapResp = FALSE]
      BY <1>4, <1>5 DEF Fields
    <2> HIDE DEF y
    <2>2. y.eap_if \in EapIfType
      BY <1>4, <2>1 DEF EapIfType
    <2>3. EapOK(y)
      BY <1>4, <2>1, <2>2, SameMachine
    <2> QED
      BY <1>4, <1>8, <2>1, <2>2, <2>3 DEF Typed
  <1> HIDE DEF x, y, w, z
  <1>10. Settled(x) /\ ~x.hist.cut /\ Settled(y) /\ ~y.hist.cut
    BY <1>4, <1>5, <1>7, <1>8 DEF w
  <1>11. MayClose(y, wpa_sm_step(y))
    BY <1>9, WpaMayClose
  <1>12. Settled(wpa_sm_step(y)) /\ ~wpa_sm_step(y).hist.cut
    BY <1>10, <1>11, CloseSettles DEF MayClose
  <1> QED
    BY <1>1, <1>6, <1>10, <1>12 DEF Sound

\* A station that associates anew, with a cached PMK or without.
LEMMA AssociateSound ==
    ASSUME NEW g, Sound(g), conf \in Confs, NEW c \in BOOLEAN, NEW q \in BOOLEAN
    PROVE  LET k == [g EXCEPT !.sm = eapol_auth_alloc,
                         !.eap = eap_sm_notify_cached(eap_server_sm_init(conf.eap_server), c),
                         !.eap_if = [EapIfInit EXCEPT !.portEnabled = TRUE],
                         !.wpa = IF conf.wpa THEN "AUTHENTICATION2" ELSE @,
                         !.sta = "assoc", !.queued = q]
           IN  Sound(IF c THEN SetCached(k) ELSE k)
  <1> DEFINE e == eap_server_sm_init(conf.eap_server)
             i == [EapIfInit EXCEPT !.portEnabled = TRUE]
             K(d) == [g EXCEPT !.sm = eapol_auth_alloc,
                         !.eap = eap_sm_notify_cached(e, d), !.eap_if = i,
                         !.wpa = IF conf.wpa THEN "AUTHENTICATION2" ELSE @,
                         !.sta = "assoc", !.queued = q]
             b == K(FALSE)
             k == K(c)
             h == SetCached(k)
  <1>1. RunOK(b) /\ Rested(b) /\ RunOK(k) /\ Rested(k) /\ b.eap_if.portEnabled
        /\ k.eap_if.portEnabled
    BY AssociateEvent DEF Sound
  <1>2. DOMAIN g = Fields /\ ~g.hist.cut
    BY DEF Sound, RunOK, Typed
  <1> HIDE DEF e, i
  <1>3. /\ b.sm = eapol_auth_alloc /\ b.eap = e /\ b.eap_if = i /\ b.sta = "assoc"
        /\ b.awaiting = g.awaiting /\ b.hist = g.hist
    BY <1>2 DEF Fields, eap_sm_notify_cached
  <1>4. /\ k.sm = eapol_auth_alloc /\ k.eap_if = i /\ k.sta = "assoc"
        /\ k.awaiting = g.awaiting /\ k.hist = g.hist /\ DOMAIN k = Fields
        /\ k.eap = IF c THEN [e EXCEPT !.state = "SUCCESS"] ELSE e
    BY <1>2 DEF Fields, eap_sm_notify_cached
  <1> HIDE DEF b, k
  <1>5. g.awaiting => ~conf.eap_server
    BY DEF Sound, Settled, BeforePass, Linked, Wired
  <1>6. Settled(b)
    BY <1>3, <1>5, BlankSettles DEF e, i
  <1>7. CASE ~c
    <2>1. Settled(k)
      BY <1>4, <1>5, <1>7, BlankSettles DEF e, i
    <2> QED
      BY <1>1, <1>2, <1>4, <1>7, <2>1 DEF Sound, k, K, e, i
  <1>8. CASE c
    <2>1. /\ h.eap = k.eap /\ h.hist = k.hist /\ h.sta = k.sta /\ h.awaiting = k.awaiting
          /\ h.eap_if = [k.eap_if EXCEPT !.eapKeyAvailable = TRUE]
          /\ h.sm = [k.sm EXCEPT !.keyRun = TRUE, !.auth_pae = "AUTHENTICATING",
                                 !.be_auth = "SUCCESS", !.authSuccess = TRUE]
      BY <1>4 DEF SetCached, Fields
    <2>2. RunOK(h) /\ Rested(h)
      BY <1>1, CachedEvent
    <2> HIDE DEF h
    <2>3. Typed(b)
      BY <1>1 DEF RunOK
    <2>3a. /\ h.sm = [b.sm EXCEPT !.keyRun = TRUE, !.auth_pae = "AUTHENTICATING",
                                 !.be_auth = "SUCCESS", !.authSuccess = TRUE]
          /\ h.eap = [b.eap EXCEPT !.state = "SUCCESS"]
          /\ h.eap_if = [b.eap_if EXCEPT !.eapKeyAvailable = TRUE]
          /\ h.sta = b.sta /\ h.awaiting = b.awaiting
      BY <1>3, <1>4, <1>8, <2>1
    <2>3b. b.eap_if.portEnabled
      BY <1>1
    <2>4. Settled(h)
      BY <1>6, <2>3, <2>3a, <2>3b, CachedSettles
    <2> QED
      BY <1>2, <1>4, <1>8, <2>1, <2>2, <2>4 DEF Sound, h, k, K, e, i
  <1> QED
    BY <1>7, <1>8

\* A station that is associated associates again.
LEMMA ReassociateSound ==
    ASSUME NEW g, Sound(g), g.sta = "assoc", NEW c \in BOOLEAN
    PROVE  LET k == [g EXCEPT !.eap_if.portEnabled = TRUE, !.eap = eap_sm_notify_cached(@, c)]
           IN  Sound(IF c THEN SetCached(k)
                     ELSE [k EXCEPT !.sm.reAuthenticate = TRUE, !.queued = TRUE])
  <1> DEFINE e == g.eap
             i == g.eap_if
             k == [g EXCEPT !.eap_if.portEnabled = TRUE, !.eap = eap_sm_notify_cached(@, c)]
             h == SetCached(k)
             x == [k EXCEPT !.sm.reAuthenticate = TRUE, !.queued = TRUE]
  <1>1. RunOK(g) /\ Rested(g) /\ Settled(g) /\ ~g.hist.cut /\ Typed(g)
    BY DEF Sound, RunOK
  <1>2. RunOK(k) /\ Rested(k) /\ k.eap_if.portEnabled
    BY <1>1, ReassociateEvent
  <1>3. DOMAIN g = Fields /\ i \in EapIfType /\ i.portEnabled = TRUE
    BY <1>1, PartsOf DEF RunOK, Enabled, EapIfType
  <1>4. /\ DOMAIN k = Fields /\ k.sm = g.sm /\ k.hist = g.hist /\ k.sta = g.sta
        /\ k.awaiting = g.awaiting /\ k.eap_if = i
        /\ k.eap = IF c THEN [e EXCEPT !.state = "SUCCESS"] ELSE e
    <2>1. [i EXCEPT !.portEnabled = TRUE] = i
      BY <1>3 DEF EapIfType
    <2> QED
      BY <1>3, <2>1 DEF Fields, eap_sm_notify_cached
  <1> HIDE DEF k
  <1>5. CASE ~c
    <2>1. Typed(k)
      BY <1>2 DEF RunOK
    <2>2. Quiet(g, k)
      BY <1>4, <1>5 DEF Quiet, PortQuiet, MachineQuiet, SignalsQuiet
    <2>3. Settled(k)
      BY <1>1, <2>2, QuietKeeps
    <2>4. Settled(x) /\ ~x.hist.cut
      BY <1>1, <1>4, <2>1, <2>3, ReauthenticateQuiet
    <2>5. RunOK(x) /\ Rested(x)
      BY <1>2, ReauthenticateEvent
    <2> QED
      BY <1>5, <2>4, <2>5 DEF Sound, k
  <1>6. CASE c
    <2>1. /\ h.eap = k.eap /\ h.hist = k.hist /\ h.sta = k.sta /\ h.awaiting = k.awaiting
          /\ h.eap_if = [k.eap_if EXCEPT !.eapKeyAvailable = TRUE]
          /\ h.sm = [k.sm EXCEPT !.keyRun = TRUE, !.auth_pae = "AUTHENTICATING",
                                 !.be_auth = "SUCCESS", !.authSuccess = TRUE]
      BY <1>4 DEF SetCached, Fields
    <2>2. RunOK(h) /\ Rested(h)
      BY <1>2, CachedEvent
    <2> HIDE DEF h
    <2>2a. /\ h.sm = [g.sm EXCEPT !.keyRun = TRUE, !.auth_pae = "AUTHENTICATING",
                                 !.be_auth = "SUCCESS", !.authSuccess = TRUE]
          /\ h.eap = [g.eap EXCEPT !.state = "SUCCESS"]
          /\ h.eap_if = [g.eap_if EXCEPT !.eapKeyAvailable = TRUE]
          /\ h.sta = g.sta /\ h.awaiting = g.awaiting
      BY <1>4, <1>6, <2>1
    <2>2b. g.eap_if.portEnabled
      BY <1>3
    <2>3. Settled(h)
      BY <1>1, <2>2a, <2>2b, CachedSettles
    <2> QED
      BY <1>1, <1>4, <1>6, <2>1, <2>2, <2>3 DEF Sound, h, k
  <1> QED
    BY <1>5, <1>6

\* The PMKSA cache is no part of any machine.
LEMMA Recached ==
    ASSUME NEW g, RunOK(g), NEW p \in BOOLEAN
    PROVE  Typed([g EXCEPT !.pmksa = p])
  <1> DEFINE h == [g EXCEPT !.pmksa = p]
  <1>1. Typed(g)
    BY DEF RunOK
  <1>2. DOMAIN g = Fields
    BY <1>1, PartsOf
  <1>3. /\ DOMAIN h = Fields /\ h.eap = g.eap /\ h.eap_if = g.eap_if /\ h.sm = g.sm
        /\ h.hist = g.hist /\ h.wpa = g.wpa /\ h.sta = g.sta /\ h.queued = g.queued
        /\ h.pmksa = p /\ h.awaiting = g.awaiting
    BY <1>2 DEF Fields
  <1> HIDE DEF h
  <1>4. g.eap_if \in EapIfType
    BY <1>1, PartsOf
  <1>5. EapOK(h)
    BY <1>1, <1>3, <1>4, SameMachine
  <1>6. Typed(h)
    BY <1>1, <1>3, <1>5 DEF Typed
  <1> QED
    BY <1>6 DEF h

\* A RADIUS reply.
LEMMA ReplySound ==
    ASSUME NEW g, Sound(g), ~conf.eap_server, NEW msg \in BOOLEAN
    PROVE  LET k == ieee802_1x_decapsulate_radius(g, msg)
           IN  /\ \A vlan \in {"ok", "missing", "unbound"}, keys \in BOOLEAN :
                    Settled(AccessAccept(k, vlan, keys)) /\ ~AccessAccept(k, vlan, keys).hist.cut
               /\ Settled(AccessReject(k)) /\ ~AccessReject(k).hist.cut
               /\ Settled(AccessChallenge(k)) /\ ~AccessChallenge(k).hist.cut
  <1> DEFINE k == ieee802_1x_decapsulate_radius(g, msg)
             i == k.eap_if
  <1>1. RunOK(g) /\ Rested(g) /\ Settled(g) /\ ~g.hist.cut /\ Typed(g)
    BY DEF Sound, RunOK
  <1>2. RunOK(k) /\ Settled(k) /\ ~k.hist.cut
    BY <1>1, RadiusEvents, PacketQuiet DEF ieee802_1x_decapsulate_radius
  <1> HIDE DEF k
  <1>3. Typed(k) /\ DOMAIN k = Fields /\ i \in EapIfType
    BY <1>2, PartsOf DEF RunOK
  <1>4. Settled(AccessReject(k)) /\ ~AccessReject(k).hist.cut
    BY <1>2, <1>3, RejectQuiet DEF AccessReject
  <1>5. Settled(AccessChallenge(k)) /\ ~AccessChallenge(k).hist.cut
    BY <1>2, <1>3, ChallengeQuiet DEF AccessChallenge
  <1>6. ASSUME NEW vlan \in {"ok", "missing", "unbound"}, NEW keys \in BOOLEAN
        PROVE  Settled(AccessAccept(k, vlan, keys)) /\ ~AccessAccept(k, vlan, keys).hist.cut
    <2> DEFINE b == i.aaaEapKeyAvailable \/ keys
               p == k.pmksa \/ (conf.wpa /\ i.eapKeyAvailable)
               z == [k EXCEPT !.pmksa = p]
               x == [z EXCEPT !.eap_if.aaaSuccess = TRUE, !.eap_if.aaaEapReq = FALSE,
                              !.eap_if.aaaEapKeyAvailable = b]
               y == [k EXCEPT !.sm.authFail = TRUE]
    <2>0. p \in BOOLEAN
      OBVIOUS
    <2>1. Settled(x) /\ ~x.hist.cut
      <3> HIDE DEF b, p
      <3>1. Typed(z)
        BY <1>2, <2>0, Recached
      <3>2. Settled(z) /\ ~z.hist.cut
        BY <1>2, <1>3, CacheQuiet
      <3> HIDE DEF z
      <3> QED
        BY <3>1, <3>2, AcceptQuiet
    <2>2. Settled(y) /\ ~y.hist.cut
      BY <1>2, <1>3, MissingQuiet
    <2>3. vlan = "ok" => AccessAccept(k, vlan, keys) = x
      BY <1>3 DEF AccessAccept, Fields
    <2>4. vlan = "missing" => AccessAccept(k, vlan, keys) = y
      BY DEF AccessAccept
    <2>5. vlan = "unbound" => AccessAccept(k, vlan, keys) = k
      BY DEF AccessAccept
    <2> HIDE DEF x, y
    <2> QED
      BY <1>2, <2>1, <2>2, <2>3, <2>4, <2>5
  <1> QED
    BY <1>4, <1>5, <1>6 DEF k

-----------------------------------------------------------------------------
(* The inductive invariant.                                                *)

\* Between two events everything rests, and no run has been cut.
RunsInv == EapolInv /\ Settled(Now) /\ ~hist.cut

\* A step that stores such a state.
LEMMA SettledFrom ==
    ASSUME NEW g, Settled(g), ~g.hist.cut, Becomes(g), conf' = conf
    PROVE  Settled(Now)' /\ ~hist'.cut
  <1>1. /\ Now'.sm = g.sm /\ Now'.eap = g.eap /\ Now'.eap_if = g.eap_if
        /\ Now'.sta = g.sta /\ Now'.awaiting = g.awaiting /\ hist' = g.hist
    BY DEF Now, Becomes
  <1> DEFINE m == g.sm
             e == g.eap
             i == g.eap_if
  <1>2. /\ Wired(g) /\ (m.auth_pae = "AUTHENTICATED" => e.state \in Succeeded) /\ ~m.authAbort
        /\ e.num_rounds # EAP_MAX_AUTH_ROUNDS + 1
        /\ i.portEnabled => Tied(m, e, i) /\ Between(m, e, i)
        /\ i.portEnabled =>
             /\ m.auth_pae # "RESTART"
             /\ m.auth_pae = "CONNECTING" => ~Offered(i)
             /\ e.state \in Failed =>
                  m.authPortStatus # "Authorized" \/ m.be_auth \in {"REQUEST", "IGNORE"}
    BY DEF Settled, BeforePass, Linked
  <1>3. Wired(Now)'
    BY <1>1, <1>2 DEF Wired
  <1>4. (i.portEnabled => Tied(Now.sm, Now.eap, Now.eap_if)')
    BY <1>1, <1>2 DEF Tied, Authenticating
  <1>5. (i.portEnabled => Between(Now.sm, Now.eap, Now.eap_if)')
    BY <1>1, <1>2 DEF Between
  <1> QED
    BY <1>1, <1>2, <1>3, <1>4, <1>5 DEF Settled, BeforePass, Linked

\* The first state.
LEMMA RunsInit == Init => RunsInv
  <1> SUFFICES ASSUME Init PROVE RunsInv
    OBVIOUS
  <1>1. EapolInv
    BY EapolInit
  <1>2. /\ Now.sm = eapol_auth_alloc /\ Now.eap = eap_server_sm_init(conf.eap_server)
        /\ Now.eap_if = EapIfInit /\ Now.sta = "none" /\ Now.awaiting = FALSE /\ ~hist.cut
    BY DEF Init, Now
  <1>3. Settled(Now)
    BY <1>2, BlankSettles
  <1> QED
    BY <1>1, <1>2, <1>3 DEF RunsInv

\* Every step.
LEMMA RunsStep ==
    ASSUME LongRuns, RunsInv, [Next]_vars
    PROVE  RunsInv'
  <1>1. EapolInv'
    BY EapolStep DEF RunsInv
  <1>2. /\ RunOK(Now) /\ Rested(Now) /\ Settled(Now) /\ Typed(Now) /\ ~Now.hist.cut
        /\ conf \in Confs /\ Now.sta = sta /\ Now.awaiting = awaiting /\ Sound(Now)
    BY DEF RunsInv, EapolInv, Now, RunOK, Sound
  <1> SUFFICES \E g : Settled(g) /\ ~g.hist.cut /\ Becomes(g) /\ conf' = conf
    BY <1>1, SettledFrom DEF RunsInv
  <1>3. CASE StepRun
    <2> DEFINE k == [Now EXCEPT !.hist.left = FALSE]
    <2>1. PICK g \in eapol_sm_step_run(k) : Becomes(g)
      BY <1>3 DEF StepRun
    <2>2. conf' = conf
      BY <1>3 DEF StepRun
    <2>3. RunOK(k) /\ Rested(k)
      BY <1>2, RunStart
    <2>4. Settled(k) /\ ~k.hist.cut
      BY <1>2, RunQuiet
    <2> HIDE DEF k
    <2>5. Sound(k)
      BY <2>3, <2>4 DEF Sound
    <2>6. Sound(g)
      BY <1>2, <2>5, RunSound
    <2> QED
      BY <2>1, <2>2, <2>6 DEF Sound
  <1>4. CASE eapol_port_timers_tick
    <2>1. Becomes(Ticked(Now)) /\ conf' = conf
      BY <1>4 DEF eapol_port_timers_tick, Ticked, Event
    <2>2. Settled(Ticked(Now)) /\ ~Ticked(Now).hist.cut
      BY <1>2, TickQuiet
    <2> QED
      BY <2>1, <2>2
  <1>5. CASE eapol_sm_step_cb
    <2> DEFINE h == [Now EXCEPT !.queued = FALSE]
    <2>1. Becomes(h) /\ conf' = conf
      BY <1>5 DEF eapol_sm_step_cb, Event
    <2>2. Settled(h) /\ ~h.hist.cut
      BY <1>2, CallbackQuiet
    <2> HIDE DEF h
    <2> QED
      BY <2>1, <2>2
  <1>6. ASSUME NEW cached \in BOOLEAN, NEW started \in BOOLEAN, Associate(cached, started)
        PROVE  \E g : Settled(g) /\ ~g.hist.cut /\ Becomes(g) /\ conf' = conf
    <2> DEFINE k == [Now EXCEPT !.sm = eapol_auth_alloc,
                         !.eap = eap_sm_notify_cached(eap_server_sm_init(conf.eap_server),
                                                      cached),
                         !.eap_if = [EapIfInit EXCEPT !.portEnabled = TRUE],
                         !.wpa = IF conf.wpa THEN "AUTHENTICATION2" ELSE @,
                         !.sta = "assoc", !.queued = ~cached \/ ~started]
               h == IF cached THEN SetCached(k) ELSE k
    <2>1. Becomes(wpa_sm_step(h)) /\ conf' = conf
      BY <1>6 DEF Associate, Event
    <2>2. (~cached \/ ~started) \in BOOLEAN
      OBVIOUS
    <2>3. Sound(h)
      BY <1>2, <2>2, AssociateSound
    <2> HIDE DEF h
    <2>4. Sound(wpa_sm_step(h))
      BY <2>3, WpaSound
    <2> QED
      BY <2>1, <2>4 DEF Sound
  <1>7. ASSUME NEW cached \in BOOLEAN, Reassociate(cached)
        PROVE  \E g : Settled(g) /\ ~g.hist.cut /\ Becomes(g) /\ conf' = conf
    <2> DEFINE k == [Now EXCEPT !.eap_if.portEnabled = TRUE,
                                !.eap = eap_sm_notify_cached(@, cached)]
               h == IF cached THEN SetCached(k)
                    ELSE [k EXCEPT !.sm.reAuthenticate = TRUE, !.queued = TRUE]
    <2>1. sta = "assoc" /\ Becomes(wpa_reauth(h)) /\ conf' = conf
      BY <1>7 DEF Reassociate, Event
    <2>2. Sound(h)
      BY <1>2, <2>1, ReassociateSound
    <2> HIDE DEF h
    <2>3. Sound(wpa_reauth(h))
      BY <2>2, WpaSound
    <2> QED
      BY <2>1, <2>3 DEF Sound
  <1>8. ASSUME NEW r \in Responses, handle_eap_response(r)
        PROVE  \E g : Settled(g) /\ ~g.hist.cut /\ Becomes(g) /\ conf' = conf
    <2> DEFINE h == [Now EXCEPT !.sm.eapolEap = TRUE, !.eap_if.eapRespData = r,
                                !.hist.fresh = TRUE, !.queued = TRUE]
    <2>1. Becomes(h) /\ conf' = conf
      BY <1>8 DEF handle_eap_response, Event
    <2>2. Settled(h) /\ ~h.hist.cut
      BY <1>2, ResponseQuiet
    <2> HIDE DEF h
    <2> QED
      BY <2>1, <2>2
  <1>9. CASE EAPOL_START
    <2> DEFINE j == [Now EXCEPT !.sm.eapolStart = TRUE]
               k == wpa_reauth(j)
               h == [k EXCEPT !.eap = eap_server_clear_identity(@), !.queued = TRUE]
    <2>1. Becomes(h) /\ conf' = conf
      BY <1>9 DEF EAPOL_START, Event
    <2>2. PICK r : r \in Responses
      BY DEF Responses
    <2>3. RunOK(j) /\ Rested(j) /\ Settled(j) /\ ~j.hist.cut
      BY <1>2, <2>2, FrameEvents, StartQuiet
    <2> HIDE DEF j
    <2>4. Sound(k)
      BY <2>3, WpaSound DEF Sound
    <2> HIDE DEF k
    <2>5. Settled(h) /\ ~h.hist.cut
      BY <2>4, IdentityQuiet DEF Sound, RunOK
    <2> HIDE DEF h
    <2> QED
      BY <2>1, <2>5
  <1>10. CASE EAPOL_LOGOFF
    <2> DEFINE h == [Now EXCEPT !.sm.eapolLogoff = TRUE,
                                !.eap = eap_server_clear_identity(@), !.queued = TRUE]
    <2>1. Becomes(h) /\ conf' = conf
      BY <1>10 DEF EAPOL_LOGOFF, Event
    <2>2. Settled(h) /\ ~h.hist.cut
      BY <1>2, LogoffQuiet
    <2> HIDE DEF h
    <2> QED
      BY <2>1, <2>2
  <1>11. CASE eapol_auth_eap_pending_cb
    <2> DEFINE h == [Now EXCEPT !.eap.method_pending = "CONT", !.queued = TRUE]
    <2>1. Becomes(h) /\ conf' = conf
      BY <1>11 DEF eapol_auth_eap_pending_cb, Event
    <2>2. Settled(h) /\ ~h.hist.cut
      BY <1>2, PendingQuiet
    <2> HIDE DEF h
    <2> QED
      BY <2>1, <2>2
  <1>12. CASE ieee802_1x_receive_auth
    <2> DEFINE j == [Now EXCEPT !.queued = TRUE, !.awaiting = FALSE]
    <2>1. PICK msg \in BOOLEAN :
              \/ \E vlan \in {"ok", "missing", "unbound"}, keys \in BOOLEAN :
                   Becomes(AccessAccept(ieee802_1x_decapsulate_radius(j, msg), vlan, keys))
              \/ Becomes(AccessReject(ieee802_1x_decapsulate_radius(j, msg)))
              \/ Becomes(AccessChallenge(ieee802_1x_decapsulate_radius(j, msg)))
      BY <1>12 DEF ieee802_1x_receive_auth
    <2>2. awaiting /\ conf' = conf
      BY <1>12 DEF ieee802_1x_receive_auth, Event
    <2>3. ~conf.eap_server
      BY <1>2, <2>2 DEF Settled, BeforePass, Linked, Wired
    <2>4. RunOK(j) /\ Rested(j) /\ Settled(j) /\ ~j.hist.cut
      BY <1>2, RadiusEvents, ReplyQuiet
    <2> HIDE DEF j
    <2>5. Sound(j)
      BY <2>4 DEF Sound
    <2> DEFINE k == ieee802_1x_decapsulate_radius(j, msg)
    <2>6. /\ \A vlan \in {"ok", "missing", "unbound"}, keys \in BOOLEAN :
                    Settled(AccessAccept(k, vlan, keys)) /\ ~AccessAccept(k, vlan, keys).hist.cut
          /\ Settled(AccessReject(k)) /\ ~AccessReject(k).hist.cut
          /\ Settled(AccessChallenge(k)) /\ ~AccessChallenge(k).hist.cut
      BY <2>3, <2>5, ReplySound
    <2> QED
      BY <2>1, <2>2, <2>6
  <1>13. CASE WPA_done
    <2> DEFINE h == [Now EXCEPT !.wpa = "PTKINITDONE", !.sm.portValid = TRUE,
                           !.sm.keyDone = TRUE, !.eap_if.eapKeyAvailable = FALSE,
                           !.queued = TRUE]
    <2>1. Becomes(h) /\ conf' = conf
      BY <1>13 DEF WPA_done, Event
    <2>2. Settled(h) /\ ~h.hist.cut
      BY <1>2, DoneQuiet
    <2> HIDE DEF h
    <2> QED
      BY <2>1, <2>2
  <1>14. CASE WPA_failed
    <2>1. Becomes(WpaDisconnect(Now)) /\ conf' = conf
      BY <1>14 DEF WPA_failed, Event
    <2>2. Settled(WpaDisconnect(Now)) /\ ~WpaDisconnect(Now).hist.cut
      BY <1>2, DisconnectSettles
    <2> QED
      BY <2>1, <2>2
  <1>15. CASE ap_free_sta
    <2> DEFINE h == [Now EXCEPT !.sm = eapol_auth_alloc, !.eap_if = EapIfInit,
                           !.eap = eap_server_sm_init(conf.eap_server),
                           !.wpa = "INITIALIZE", !.sta = "none", !.queued = FALSE,
                           !.awaiting = FALSE, !.hist.fresh = FALSE]
    <2>1. Becomes(h) /\ conf' = conf
      BY <1>15 DEF ap_free_sta, Event
    <2>2. DOMAIN Now = Fields /\ Now.hist \in HistType
      BY <1>2, PartsOf
    <2>3. /\ h.sm = eapol_auth_alloc /\ h.eap_if = EapIfInit
          /\ h.eap = eap_server_sm_init(conf.eap_server) /\ h.sta = "none"
          /\ h.awaiting = FALSE /\ h.hist = [Now.hist EXCEPT !.fresh = FALSE]
      BY <2>2 DEF Fields
    <2> HIDE DEF h
    <2>4. ~h.hist.cut
      BY <1>2, <2>2, <2>3 DEF HistType
    <2>5. Settled(h)
      BY <2>3, BlankSettles
    <2> QED
      BY <2>1, <2>4, <2>5
  <1>16. CASE pmksa_cache_expire
    <2> DEFINE h == [Now EXCEPT !.pmksa = FALSE]
    <2>1. Becomes(h) /\ conf' = conf
      BY <1>16 DEF pmksa_cache_expire, Event
    <2>2. Settled(h) /\ ~h.hist.cut
      BY <1>2, CacheQuiet
    <2> HIDE DEF h
    <2> QED
      BY <2>1, <2>2
  <1>17. CASE UNCHANGED vars
    <2>1. Becomes(Now) /\ conf' = conf
      BY <1>17 DEF vars, Becomes, Now
    <2> QED
      BY <1>2, <2>1
  <1> QED
    BY <1>3, <1>4, <1>5, <1>6, <1>7, <1>8, <1>9, <1>10, <1>11, <1>12, <1>13, <1>14, <1>15,
       <1>16, <1>17 DEF Next

\* Between any two events the machines are tied as Settled says, if a run may
\* take as many passes as LongRuns asks for.
THEOREM RunsCorrect == ASSUME LongRuns PROVE Spec => []RunsInv
  BY RunsInit, RunsStep, PTL DEF Spec

\* The cap of eapol_sm_step_run on its passes is never met: after at most 64 of
\* them, in each of which the EAP machine iterates at most 10 times, the machines
\* rest, whatever events came before.
THEOREM RunsAlwaysTerminate == ASSUME LongRuns PROVE Spec => []RunsTerminate
  <1>1. RunsInv => RunsTerminate
    BY DEF RunsInv, RunsTerminate
  <1> QED
    BY <1>1, RunsCorrect, PTL

\* With that, every variable has its type.
THEOREM EapolAlwaysTyped == ASSUME LongRuns PROVE Spec => []TypeOK
  BY RunsAlwaysTerminate, EapolTypeCorrect, PTL

\* When the EAP machine has failed, the port is closed by the end of the run, unless
\* BE_AUTH waits for the supplicant and does not look.
THEOREM FailureAlwaysClosesPort == ASSUME LongRuns PROVE Spec => []FailureClosesPort
  <1>1. RunsInv => FailureClosesPort
    <2> SUFFICES ASSUME RunsInv, eap_if.portEnabled, eap.state \in {"FAILURE", "FAILURE2"}
                 PROVE  sm.authPortStatus # "Authorized" \/ OutOfStep
      BY DEF FailureClosesPort
    <2>1. Now.sm = sm /\ Now.eap = eap /\ Now.eap_if = eap_if /\ Settled(Now)
      BY DEF Now, RunsInv
    <2>2. /\ sm.authPortStatus # "Authorized" \/ sm.be_auth \in {"REQUEST", "IGNORE"}
          /\ Tied(sm, eap, eap_if)
      BY <2>1 DEF Settled, BeforePass, Linked, Failed
    <2>3. ~eap_if.eapTimeout
      BY <2>2 DEF Tied, Signals, Failed
    <2> QED
      BY <2>2, <2>3 DEF OutOfStep
  <1> QED
    BY <1>1, RunsCorrect, PTL

\* What AuthenticatedBySuccess asks of the state entered.
BySuccess ==
    sm.auth_pae = "AUTHENTICATED" =>
      /\ eap.state \in {"SUCCESS", "SUCCESS2"}
      /\ sm.portValid \/ ~eap_if.portEnabled

\* AUTHENTICATED is entered only with the EAP machine in a state of success, and
\* with the keys in place unless the port is closed in the same run.
THEOREM AlwaysAuthenticatedBySuccess == ASSUME LongRuns PROVE Spec => AuthenticatedBySuccess
  <1>1. RunsInv => BySuccess
    <2> SUFFICES ASSUME RunsInv, sm.auth_pae = "AUTHENTICATED"
                 PROVE  /\ eap.state \in {"SUCCESS", "SUCCESS2"}
                        /\ sm.portValid \/ ~eap_if.portEnabled
      BY DEF BySuccess
    <2>1. Now.sm = sm /\ Now.eap = eap /\ Now.eap_if = eap_if /\ Settled(Now)
      BY DEF Now, RunsInv
    <2> QED
      BY <2>1 DEF Settled, BeforePass, Linked, Tied, Succeeded
  <1>2. BySuccess' => [sm.auth_pae # "AUTHENTICATED" /\ sm'.auth_pae = "AUTHENTICATED"
                         => /\ eap'.state \in {"SUCCESS", "SUCCESS2"}
                            /\ sm'.portValid \/ ~eap_if'.portEnabled]_vars
    BY DEF BySuccess
  <1> QED
    BY <1>1, <1>2, RunsCorrect, PTL DEF AuthenticatedBySuccess
=============================================================================
