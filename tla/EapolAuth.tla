----------------------------- MODULE EapolAuth -----------------------------
(***************************************************************************)
(* The IEEE 802.1X authenticator of hostapd for one station:               *)
(* the port machines AUTH_PAE, BE_AUTH and REAUTH_TIMER                    *)
(* (athr-hostap/src/eapol_auth/eapol_auth_sm.c), the EAP machine they      *)
(* drive (module EapServer), and the glue of athr-hostap/src/ap/           *)
(* ieee802_1x.c: association, EAPOL frames, RADIUS replies, the PMKSA      *)
(* shortcut and the variables shared with the WPA authenticator.           *)
(*                                                                         *)
(* A run of eapol_sm_step_run is one step, taken before any other event,   *)
(* as the process has one thread.                                          *)
(* g is the state a run works on, a record of the variables the machines   *)
(* and callbacks change; operators map g to g, or to the set of its        *)
(* successors where the model leaves a choice.                             *)
(* The WPA authenticator (module WpaAuth) appears as wpa, its WPA_PTK      *)
(* state with the 4-way handshake reduced to PTKSTART.                     *)
(***************************************************************************)
EXTENDS EapServer

CONSTANTS
    quietPeriod,     \* AUTH_PAE_DEFAULT_quietPeriod (60)
    reAuthMax,       \* AUTH_PAE_DEFAULT_reAuthMax (2)
    serverTimeout,   \* BE_AUTH_DEFAULT_serverTimeout (30)
    max_steps,       \* passes of one run (100)
    Confs,           \* the configurations considered, see ConfType
    MaxEvents        \* bound, per configuration: associations, EAPOL-Start and
                     \* EAPOL-Logoff frames

\* Is WPA used, is the EAP server integrated, and the re-authentication period
\* (0: none).
ConfType == [wpa : BOOLEAN, eap_server : BOOLEAN, eap_reauth_period : Nat]

ASSUME EapolAssumption ==
    /\ quietPeriod \in Nat /\ reAuthMax \in Nat /\ serverTimeout \in Nat \ {0}
    /\ Confs \subseteq ConfType /\ MaxEvents \in [Confs -> Nat] /\ max_steps \in Nat

VARIABLES
    eap,      \* struct eap_sm
    eap_if,   \* struct eap_eapol_interface
    conf,     \* hapd->conf
    sta,      \* the station: none, assoc, or removing after ap_sta_disconnect
    sm,       \* struct eapol_state_machine
    wpa,      \* wpa_ptk_state of the station
    pmksa,    \* the PMKSA cache has an entry of the station
    awaiting, \* sm->radius_identifier >= 0: the last request has no reply yet
    queued,   \* eapol_sm_step_cb is registered with timeout 0
    running,  \* eapol_sm_step_run has been called
    hist,     \* history, see HistType
    events    \* history: events counted against MaxEvents

vars == <<eap, eap_if, conf, sta, sm, wpa, pmksa, awaiting, queued, running,
          hist, events>>

HistType ==
    [fresh : BOOLEAN,      \* eapRespData came in after the last request went out
     stale : BOOLEAN,      \* a response was handed on that did not
     left : BOOLEAN,       \* AUTHENTICATING was left in the last run
     cut : BOOLEAN]        \* a run was cut by max_steps or MaxEapSteps

EapolType ==
    [auth_pae : {"INITIALIZE", "DISCONNECTED", "RESTART", "CONNECTING", "AUTHENTICATING",
                 "AUTHENTICATED", "ABORTING", "HELD"},
     be_auth : {"INITIALIZE", "REQUEST", "RESPONSE", "SUCCESS", "FAIL", "TIMEOUT",
                "IDLE", "IGNORE"},
     reauth_timer : {"INITIALIZE", "REAUTHENTICATE"},
     authPortStatus : {"unset", "Unauthorized", "Authorized"}, portValid : BOOLEAN,
     eapolEap : BOOLEAN, eapolStart : BOOLEAN, eapolLogoff : BOOLEAN,
     authStart : BOOLEAN, authAbort : BOOLEAN, authSuccess : BOOLEAN,
     authFail : BOOLEAN, authTimeout : BOOLEAN,
     reAuthenticate : BOOLEAN, reAuthCount : 0 .. reAuthMax + 1,
     keyRun : BOOLEAN, keyDone : BOOLEAN,
     aWhile : 0 .. serverTimeout, quietWhile : 0 .. quietPeriod,
     reAuthWhen : 0 .. conf.eap_reauth_period]

\* Type invariant.  reAuthCount is bounded because CONNECTING gives up after
\* reAuthMax restarts and DISCONNECTED starts the count again.
TypeOK ==
    /\ eap \in EapType /\ eap_if \in EapIfType /\ sm \in EapolType
    /\ conf \in Confs
    /\ sta \in {"none", "assoc", "removing"}
    /\ wpa \in {"INITIALIZE", "AUTHENTICATION2", "PTKSTART", "PTKINITDONE"}
    /\ pmksa \in BOOLEAN /\ awaiting \in BOOLEAN
    /\ queued \in BOOLEAN /\ running \in BOOLEAN
    /\ hist \in HistType /\ events \in 0 .. MaxEvents[conf]

\* eapol_auth_alloc with the two runs of eapol_auth_initialize: the port is
\* disabled, so AUTH_PAE rests in INITIALIZE and BE_AUTH in IDLE; the EAP
\* machine does not run because sta->eapol_sm is not set yet.  authPortStatus
\* is the zero of os_zalloc, neither Unauthorized (2) nor Authorized (1).
eapol_auth_alloc ==
    [auth_pae |-> "INITIALIZE", be_auth |-> "IDLE", reauth_timer |-> "INITIALIZE",
     authPortStatus |-> "unset", portValid |-> ~conf.wpa,
     eapolEap |-> FALSE, eapolStart |-> FALSE, eapolLogoff |-> FALSE,
     authStart |-> FALSE, authAbort |-> FALSE, authSuccess |-> FALSE,
     authFail |-> FALSE, authTimeout |-> FALSE,
     reAuthenticate |-> FALSE, reAuthCount |-> 0,
     keyRun |-> FALSE, keyDone |-> FALSE,
     aWhile |-> 0, quietWhile |-> 0, reAuthWhen |-> conf.eap_reauth_period]

Init ==
    /\ conf \in Confs
    /\ sta = "none" /\ wpa = "INITIALIZE" /\ pmksa = FALSE
    /\ sm = eapol_auth_alloc
    /\ eap = eap_server_sm_init(conf.eap_server) /\ eap_if = EapIfInit
    /\ awaiting = FALSE /\ queued = FALSE /\ running = FALSE
    /\ hist = [fresh |-> FALSE, stale |-> FALSE, left |-> FALSE,
               cut |-> FALSE] /\ events = 0

-----------------------------------------------------------------------------
(* The WPA authenticator and the station table, seen from EAPOL *)

Now == [sm |-> sm, eap |-> eap, eap_if |-> eap_if, wpa |-> wpa, sta |-> sta,
        queued |-> queued, pmksa |-> pmksa, awaiting |-> awaiting, hist |-> hist]

Becomes(g) ==
    /\ sm' = g.sm /\ eap' = g.eap /\ eap_if' = g.eap_if /\ wpa' = g.wpa
    /\ sta' = g.sta /\ queued' = g.queued /\ pmksa' = g.pmksa
    /\ awaiting' = g.awaiting /\ hist' = g.hist

\* The station is deauthenticated at once and its entry freed by a timeout.
ap_sta_disconnect(g) == [g EXCEPT !.sta = "removing"]

\* WPA_PTK DISCONNECT, DISCONNECTED and INITIALIZE.
WpaDisconnect(g) ==
    ap_sta_disconnect([g EXCEPT !.wpa = "INITIALIZE", !.eap_if.portEnabled = FALSE,
                                !.sm.portValid = FALSE, !.queued = TRUE])

\* AUTHENTICATION2 waits for keyRun; INITPMK clears it and needs a key.
wpa_sm_step(g) ==
    IF g.wpa = "AUTHENTICATION2" /\ g.sm.keyRun
    THEN IF g.eap_if.eapKeyAvailable
         THEN [g EXCEPT !.sm.keyRun = FALSE, !.wpa = "PTKSTART"]
         ELSE WpaDisconnect([g EXCEPT !.sm.keyRun = FALSE])
    ELSE g

\* WPA_REAUTH and WPA_REAUTH_EAPOL.
wpa_reauth(g) ==
    IF conf.wpa THEN wpa_sm_step([g EXCEPT !.wpa = "AUTHENTICATION2"]) ELSE g

-----------------------------------------------------------------------------
(* Authenticator PAE machine *)

Mutant_disconnected_keeps_count(g) ==
    [g EXCEPT !.sm.authPortStatus = "Unauthorized", !.sm.eapolLogoff = FALSE]

PAE_DISCONNECTED(g) ==
    [g EXCEPT !.sm.authPortStatus = "Unauthorized", !.sm.reAuthCount = 0,
              !.sm.eapolLogoff = FALSE]

Mutant_restart_not_signalled(g) == g

PAE_RESTART(g) == [g EXCEPT !.eap_if.eapRestart = TRUE]

PAE_CONNECTING(g) ==
    [g EXCEPT !.sm.reAuthenticate = FALSE, !.sm.reAuthCount = @ + 1]

PAE_HELD(g) ==
    [g EXCEPT !.sm.authPortStatus = "Unauthorized", !.sm.quietWhile = quietPeriod,
              !.sm.eapolLogoff = FALSE]

\* cb.finished: the PMK goes to the PMKSA cache when there is one.
PAE_AUTHENTICATED(g) ==
    [g EXCEPT !.sm.authPortStatus = "Authorized", !.sm.reAuthCount = 0,
              !.pmksa = @ \/ (conf.wpa /\ g.eap_if.eapKeyData)]

PAE_AUTHENTICATING(g) ==
    [g EXCEPT !.sm.eapolStart = FALSE, !.sm.authSuccess = FALSE,
              !.sm.authFail = FALSE, !.sm.authTimeout = FALSE, !.sm.authStart = TRUE,
              !.sm.keyRun = FALSE, !.sm.keyDone = FALSE]

PAE_ABORTING(g) ==
    [g EXCEPT !.sm.authAbort = TRUE, !.sm.keyRun = FALSE, !.sm.keyDone = FALSE]

\* SM_STEP(AUTH_PAE): the state AUTHENTICATED goes to.
PaeAuthenticated(m) ==
    IF m.eapolStart \/ m.reAuthenticate THEN "RESTART"
    ELSE IF m.eapolLogoff \/ ~m.portValid THEN "DISCONNECTED" ELSE "AUTHENTICATED"

\* SM_STEP(AUTH_PAE): the state it enters, or the one it stays in.
PaeInState(m, i) ==
    CASE m.auth_pae = "INITIALIZE" -> "DISCONNECTED"
      [] m.auth_pae = "DISCONNECTED" -> "RESTART"
      [] m.auth_pae = "RESTART" -> IF i.eapRestart THEN "RESTART" ELSE "CONNECTING"
      [] m.auth_pae = "HELD" -> IF m.quietWhile = 0 THEN "RESTART" ELSE "HELD"
      [] m.auth_pae = "CONNECTING" ->
           IF m.eapolLogoff \/ m.reAuthCount > reAuthMax THEN "DISCONNECTED"
           ELSE IF i.eapReq \/ i.eapSuccess \/ i.eapFail
           THEN "AUTHENTICATING" ELSE "CONNECTING"
      [] m.auth_pae = "AUTHENTICATED" -> PaeAuthenticated(m)
      [] m.auth_pae = "AUTHENTICATING" ->
           IF m.authSuccess /\ m.portValid THEN "AUTHENTICATED"
           ELSE IF m.authFail \/ (m.keyDone /\ ~m.portValid) THEN "HELD"
           ELSE IF m.eapolStart \/ m.eapolLogoff \/ m.authTimeout THEN "ABORTING"
           ELSE "AUTHENTICATING"
      [] m.auth_pae = "ABORTING" ->
           IF m.authAbort THEN "ABORTING"
           ELSE IF m.eapolLogoff THEN "DISCONNECTED" ELSE "RESTART"

\* None of the states is entered again while it lasts.
AUTH_PAE(g) ==
    LET t == IF g.eap_if.portEnabled THEN PaeInState(g.sm, g.eap_if) ELSE "INITIALIZE"
        entered ==
          CASE t = g.sm.auth_pae \/ t = "INITIALIZE" -> g
            [] t # g.sm.auth_pae /\ t = "DISCONNECTED" -> PAE_DISCONNECTED(g)
            [] t # g.sm.auth_pae /\ t = "RESTART" -> PAE_RESTART(g)
            [] t # g.sm.auth_pae /\ t = "CONNECTING" -> PAE_CONNECTING(g)
            [] t # g.sm.auth_pae /\ t = "HELD" -> PAE_HELD(g)
            [] t # g.sm.auth_pae /\ t = "AUTHENTICATED" -> PAE_AUTHENTICATED(g)
            [] t # g.sm.auth_pae /\ t = "AUTHENTICATING" -> PAE_AUTHENTICATING(g)
            [] t # g.sm.auth_pae /\ t = "ABORTING" -> PAE_ABORTING(g)
    IN [entered EXCEPT !.sm.auth_pae = t,
                       !.hist.left = @ \/ (g.sm.auth_pae = "AUTHENTICATING" /\ t # "AUTHENTICATING")]

-----------------------------------------------------------------------------
(* Backend authentication machine *)

\* With ieee802_1x_abort_auth: a station that does not answer is disconnected.
BE_INITIALIZE(g) ==
    LET aborted == [g EXCEPT !.eap_if.eapNoReq = FALSE, !.sm.authAbort = FALSE]
    IN IF g.eap_if.eapTimeout
       THEN ap_sta_disconnect([aborted EXCEPT !.eap_if.portEnabled = FALSE])
       ELSE aborted

Mutant_request_keeps_eapolEap(g) ==
    [g EXCEPT !.eap_if.eapReq = FALSE, !.hist.fresh = FALSE]

\* txReq sends eapReqData, whatever it holds.
BE_REQUEST(g) ==
    [g EXCEPT !.eap_if.eapReq = FALSE, !.sm.eapolEap = FALSE, !.hist.fresh = FALSE]

BE_RESPONSE(g) ==
    [g EXCEPT !.sm.authTimeout = FALSE, !.sm.eapolEap = FALSE,
              !.sm.aWhile = serverTimeout,
              !.eap_if.eapNoReq = FALSE, !.eap_if.eapResp = TRUE,
              !.hist.stale = @ \/ ~g.hist.fresh]

BE_SUCCESS(g) == [g EXCEPT !.sm.authSuccess = TRUE, !.sm.keyRun = TRUE]

BE_FAIL(g) == [g EXCEPT !.sm.authFail = TRUE]

BE_TIMEOUT(g) == [g EXCEPT !.sm.authTimeout = TRUE]

BE_IDLE(g) == [g EXCEPT !.sm.authStart = FALSE]

BE_IGNORE(g) == [g EXCEPT !.eap_if.eapNoReq = FALSE]

Mutant_request_without_timeout(m, i) ==
    IF m.eapolEap THEN "RESPONSE" ELSE IF i.eapReq THEN "REQUEST" ELSE "stay"

\* REQUEST and IGNORE wait for the supplicant.
BeAwaitSupplicant(m, i) ==
    IF m.eapolEap THEN "RESPONSE"
    ELSE IF i.eapReq THEN "REQUEST"
    ELSE IF i.eapTimeout THEN "TIMEOUT" ELSE "stay"

Mutant_failure_not_seen(m, i) ==
    IF i.eapReq THEN "REQUEST"
    ELSE IF m.aWhile = 0 THEN "TIMEOUT"
    ELSE IF i.eapSuccess THEN "SUCCESS" ELSE "stay"

\* RESPONSE waits for the EAP machine.
BeAwaitServer(m, i) ==
    IF i.eapReq THEN "REQUEST"
    ELSE IF m.aWhile = 0 THEN "TIMEOUT"
    ELSE IF i.eapFail THEN "FAIL"
    ELSE IF i.eapSuccess THEN "SUCCESS" ELSE "stay"

SM_STEP_BE_AUTH(m, i) ==
    IF m.authAbort THEN "INITIALIZE"
    ELSE CASE m.be_auth \in {"INITIALIZE", "SUCCESS", "FAIL", "TIMEOUT"} -> "IDLE"
           [] m.be_auth \in {"REQUEST", "IGNORE"} -> BeAwaitSupplicant(m, i)
           [] m.be_auth = "RESPONSE" -> BeAwaitServer(m, i)
           [] m.be_auth = "IDLE" ->
                IF ~m.authStart THEN "stay"
                ELSE IF i.eapFail THEN "FAIL"
                ELSE IF i.eapReq THEN "REQUEST"
                ELSE IF i.eapSuccess THEN "SUCCESS" ELSE "stay"

BeEnter(g, t) ==
    [(CASE t = "INITIALIZE" -> BE_INITIALIZE(g)
        [] t = "REQUEST" -> BE_REQUEST(g)
        [] t = "RESPONSE" -> BE_RESPONSE(g)
        [] t = "SUCCESS" -> BE_SUCCESS(g)
        [] t = "FAIL" -> BE_FAIL(g)
        [] t = "TIMEOUT" -> BE_TIMEOUT(g)
        [] t = "IDLE" -> BE_IDLE(g)
        [] t = "IGNORE" -> BE_IGNORE(g)) EXCEPT !.sm.be_auth = t]

\* With eapNoReq set, RESPONSE goes through IGNORE and takes the branch for
\* the EAP machine in the same step all the same.
BE_AUTH(g) ==
    LET t == SM_STEP_BE_AUTH(g.sm, g.eap_if)
        ignored == IF g.sm.be_auth = "RESPONSE" /\ ~g.sm.authAbort /\ g.eap_if.eapNoReq
                   THEN BeEnter(g, "IGNORE") ELSE g
    IN IF t = "stay" THEN ignored ELSE BeEnter(ignored, t)

-----------------------------------------------------------------------------
(* Reauthentication timer machine *)

REAUTH_TIMER(g) ==
    LET m == g.sm
    IN IF \/ m.authPortStatus = "Unauthorized" \/ conf.eap_reauth_period = 0
          \/ m.reauth_timer = "REAUTHENTICATE"
       THEN [g EXCEPT !.sm.reauth_timer = "INITIALIZE", 
                      !.sm.reAuthWhen = conf.eap_reauth_period]
       ELSE IF m.reAuthWhen = 0
       THEN wpa_reauth([g EXCEPT !.sm.reauth_timer = "REAUTHENTICATE",
                                 !.sm.reAuthenticate = TRUE])
       ELSE g

-----------------------------------------------------------------------------
(* eapol_sm_step_run *)

\* A response for the RADIUS server is sent; when there is none, the function
\* returns before it notifies the WPA machine.
RunEnd(g) ==
    LET h == [g EXCEPT !.eap_if.aaaEapResp = FALSE]
    IN IF g.eap_if.aaaEapResp /\ ~g.eap_if.aaaEapRespData THEN h
       ELSE wpa_sm_step([h EXCEPT !.awaiting = @ \/ g.eap_if.aaaEapResp])

\* A pass over the port machines and, when they rest, a run of the EAP
\* machine: the states it may leave, and whether everything rests.
Pass(g) ==
    LET p == REAUTH_TIMER(BE_AUTH(AUTH_PAE(g)))
        states(m) == <<m.auth_pae, m.be_auth, m.reauth_timer>>
    IN IF states(p.sm) # states(g.sm) THEN {[g |-> p, rests |-> FALSE]}
       ELSE {[g |-> [h EXCEPT !.hist.cut = @ \/ h.eap.changed],
              rests |-> SM_STEP_EAP(p.eap, p.eap_if) = "stay"] : h \in eap_server_sm_step(p)}

\* Passes until everything rests; after max_steps of them the run returns
\* through the event loop.
eapol_sm_step_run(g) ==
    LET after[n \in 0 .. max_steps] ==
          IF n = 0 THEN {[g |-> g, rests |-> FALSE]}
          ELSE UNION {IF r.rests THEN {r} ELSE Pass(r.g) : r \in after[n - 1]}
    IN {IF r.rests THEN RunEnd(r.g)
        ELSE [r.g EXCEPT !.queued = TRUE, !.hist.cut = TRUE] : r \in after[max_steps]}

\* The run the last tick or callback has started.
StepRun ==
    /\ running /\ running' = FALSE
    /\ \E g \in eapol_sm_step_run([Now EXCEPT !.hist.left = FALSE]) : Becomes(g)
    /\ UNCHANGED <<conf, events>>

-----------------------------------------------------------------------------
(* Events.  counted says which ones MaxEvents bounds. *)

Event(counted) ==
    /\ ~running
    /\ events' = IF counted THEN events + 1 ELSE events
    /\ counted => events < MaxEvents[conf]
    /\ UNCHANGED conf

\* eapol_port_timers_tick, once a second.
eapol_port_timers_tick ==
    LET dec(x) == IF x > 0 THEN x - 1 ELSE 0
    IN /\ Event(FALSE) /\ sta # "none"
       /\ Becomes([Now EXCEPT !.sm.aWhile = dec(@), !.sm.quietWhile = dec(@),
                              !.sm.reAuthWhen = dec(@), !.eap_if.retransWhile = dec(@)])
       /\ running' = TRUE

\* The timeout registered by eapol_auth_step.
eapol_sm_step_cb ==
    /\ Event(FALSE) /\ queued
    /\ Becomes([Now EXCEPT !.queued = FALSE])
    /\ running' = TRUE

\* The shortcut of ieee802_1x_new_station for a cached PMK; it queues no step.
SetCached(g) ==
    [g EXCEPT !.sm.keyRun = TRUE, !.eap_if.eapKeyAvailable = TRUE,
              !.sm.auth_pae = "AUTHENTICATING", !.sm.be_auth = "SUCCESS",
              !.sm.authSuccess = TRUE]

eap_sm_notify_cached(e, cached) == IF cached THEN [e EXCEPT !.state = "SUCCESS"] ELSE e

\* hostapd_new_assoc_sta for a new station: ieee802_1x_new_station, then
\* wpa_auth_sta_associated, which queues a step by setting portEnabled unless
\* the WPA machine had been started before.
Associate(cached, started) ==
    LET g == [Now EXCEPT !.sm = eapol_auth_alloc,
                         !.eap = eap_sm_notify_cached(eap_server_sm_init(conf.eap_server),
                                                      cached),
                         !.eap_if = [EapIfInit EXCEPT !.portEnabled = TRUE],
                         !.wpa = IF conf.wpa THEN "AUTHENTICATION2" ELSE @,
                         !.sta = "assoc", !.queued = ~cached \/ ~started]
    IN /\ Event(TRUE) /\ sta = "none"
       /\ cached => pmksa /\ conf.wpa
       /\ Becomes(wpa_sm_step(IF cached THEN SetCached(g) ELSE g))
       /\ UNCHANGED running

\* The same for a station that is associated already.
Reassociate(cached) ==
    LET g == [Now EXCEPT !.eap_if.portEnabled = TRUE,
                         !.eap = eap_sm_notify_cached(@, cached)]
    IN /\ Event(TRUE) /\ sta = "assoc"
       /\ cached => pmksa /\ conf.wpa
       /\ Becomes(wpa_reauth(IF cached THEN SetCached(g)
                             ELSE [g EXCEPT !.sm.reAuthenticate = TRUE, !.queued = TRUE]))
       /\ UNCHANGED running

\* ieee802_1x_receive: frames of associated stations only.
handle_eap_response(r) ==
    /\ Event(FALSE) /\ sta = "assoc"
    /\ Becomes([Now EXCEPT !.sm.eapolEap = TRUE, !.eap_if.eapRespData = r,
                           !.hist.fresh = TRUE, !.queued = TRUE])
    /\ UNCHANGED running

eap_server_clear_identity(e) == [e EXCEPT !.identity = "none"]

EAPOL_START ==
    /\ Event(TRUE) /\ sta = "assoc"
    /\ Becomes([wpa_reauth([Now EXCEPT !.sm.eapolStart = TRUE])
                  EXCEPT !.eap = eap_server_clear_identity(@), !.queued = TRUE])
    /\ UNCHANGED running

EAPOL_LOGOFF ==
    /\ Event(TRUE) /\ sta = "assoc"
    /\ Becomes([Now EXCEPT !.sm.eapolLogoff = TRUE,
                           !.eap = eap_server_clear_identity(@), !.queued = TRUE])
    /\ UNCHANGED running

eapol_auth_eap_pending_cb ==
    /\ Event(FALSE) /\ eap.method_pending = "WAIT"
    /\ Becomes([Now EXCEPT !.eap.method_pending = "CONT", !.queued = TRUE])
    /\ UNCHANGED running

\* ieee802_1x_decapsulate_radius: msg: the reply has an EAP packet.
ieee802_1x_decapsulate_radius(g, msg) ==
    IF msg THEN [g EXCEPT !.eap_if.aaaEapReq = TRUE, !.eap_if.aaaEapReqData = TRUE] ELSE g

\* ieee802_1x_receive_auth, for the reply to the last request of the station.
\* An Access-Accept without the VLAN that is required fails, one whose VLAN
\* cannot be bound decides nothing: in both cases its EAP packet is taken for
\* a request.  Otherwise the PMK goes to the PMKSA cache if the EAP machine still
\* has a key of an earlier conversation.
AccessAccept(g, vlan, keys) ==
    CASE vlan = "ok" -> [g EXCEPT !.eap_if.aaaSuccess = TRUE, !.eap_if.aaaEapReq = FALSE,
                                  !.eap_if.aaaEapKeyAvailable = @ \/ keys,
                                  !.pmksa = @ \/ (conf.wpa /\ g.eap_if.eapKeyAvailable)]
      [] vlan = "missing" -> [g EXCEPT !.sm.authFail = TRUE]
      [] vlan = "unbound" -> g

AccessReject(g) == [g EXCEPT !.eap_if.aaaFail = TRUE, !.eap_if.aaaEapReq = FALSE]

AccessChallenge(g) == [g EXCEPT !.eap_if.aaaEapReq = TRUE]

ieee802_1x_receive_auth ==
    LET got(msg) ==
          ieee802_1x_decapsulate_radius([Now EXCEPT !.queued = TRUE, !.awaiting = FALSE], msg)
    IN /\ Event(FALSE) /\ awaiting
       /\ \E msg \in BOOLEAN :
            \/ \E vlan \in {"ok", "missing", "unbound"}, keys \in BOOLEAN :
                 Becomes(AccessAccept(got(msg), vlan, keys))
            \/ Becomes(AccessReject(got(msg)))
            \/ Becomes(AccessChallenge(got(msg)))
       /\ UNCHANGED running

\* PTKINITDONE: the 4-way handshake, or a later PTK rekeying, has completed.
WPA_done ==
    /\ Event(FALSE) /\ wpa \in {"PTKSTART", "PTKINITDONE"}
    /\ Becomes([Now EXCEPT !.wpa = "PTKINITDONE", !.sm.portValid = TRUE,
                           !.sm.keyDone = TRUE, !.eap_if.eapKeyAvailable = FALSE,
                           !.queued = TRUE])
    /\ UNCHANGED running

\* The 4-way handshake has failed, or in PTKINITDONE a rekeying of the PTK or of
\* the GTK (KEYERROR).
WPA_failed ==
    /\ Event(FALSE) /\ wpa \in {"PTKSTART", "PTKINITDONE"}
    /\ Becomes(WpaDisconnect(Now))
    /\ UNCHANGED running

\* ap_free_sta, by a frame of the station or after ap_sta_disconnect.
ap_free_sta ==
    /\ Event(FALSE) /\ sta # "none"
    /\ Becomes([Now EXCEPT !.sm = eapol_auth_alloc, !.eap_if = EapIfInit,
                           !.eap = eap_server_sm_init(conf.eap_server),
                           !.wpa = "INITIALIZE", !.sta = "none", !.queued = FALSE,
                           !.awaiting = FALSE, !.hist.fresh = FALSE])
    /\ UNCHANGED running

pmksa_cache_expire ==
    /\ Event(FALSE) /\ pmksa
    /\ Becomes([Now EXCEPT !.pmksa = FALSE])
    /\ UNCHANGED running

Next ==
    \/ StepRun \/ eapol_port_timers_tick \/ eapol_sm_step_cb
    \/ \E cached, started \in BOOLEAN : Associate(cached, started)
    \/ \E cached \in BOOLEAN : Reassociate(cached)
    \/ \E r \in Responses : handle_eap_response(r)
    \/ EAPOL_START \/ EAPOL_LOGOFF
    \/ eapol_auth_eap_pending_cb \/ ieee802_1x_receive_auth
    \/ WPA_done \/ WPA_failed \/ ap_free_sta \/ pmksa_cache_expire

\* The event loop serves every timeout that has expired, in the order of their
\* times, so none is passed over for ever: ticks, queued steps, the removal of
\* a disconnected station.  Strong fairness is needed as no event is enabled
\* during a run, which itself ends: the last conjunct is about StepRun.
\* Stations and the RADIUS server owe nothing.  Nor is the 4-way handshake
\* assumed to end: a verified frame cancels its retransmission timeout
\* (HandshakeTimerLost of module WpaAuth).
Fairness ==
    /\ SF_vars(eapol_port_timers_tick) /\ SF_vars(eapol_sm_step_cb)
    /\ SF_vars(sta = "removing" /\ ap_free_sta)
    /\ WF_running(running /\ running' = FALSE)

Spec == Init /\ [][Next]_vars
FairSpec == Spec /\ Fairness

-----------------------------------------------------------------------------
(* Properties *)

\* An EAP response is handed to the EAP machine only if it came in after the
\* last request went out: REQUEST clears eapolEap, so that a frame that was
\* received for an earlier request does not answer the new one.
FreshResponse == ~hist.stale

\* The precaution against infinite loops in eapol_sm_step_run is never needed:
\* the port machines and the EAP machine restart and feed one another, but
\* every run comes to rest.
RunsTerminate == ~hist.cut

\* AUTHENTICATED is entered only on the success of the current EAP
\* conversation (or of the cached PMK that stands for one) and with the keys of
\* a 4-way handshake in place, unless the WPA machine closes the port in the
\* same run: no success of an earlier conversation is left behind for a
\* re-authentication.
AuthenticatedBySuccess ==
    [][sm.auth_pae # "AUTHENTICATED" /\ sm'.auth_pae = "AUTHENTICATED"
         => /\ eap'.state \in {"SUCCESS", "SUCCESS2"}
            /\ sm'.portValid \/ ~eap_if'.portEnabled]_vars

\* Pass-through with an identity kept from an earlier conversation: the EAP
\* machine waits for the RADIUS server, which has been sent nothing.
NothingOutstanding == eap.state = "AAA_IDLE" /\ ~eap_if.aaaEapRespData

\* A station whose authentication has been restarted gets an EAP request: the
\* PAE machine does not stay in CONNECTING, unless the EAP machine waits for a
\* server that was sent nothing.
ConnectingResolves ==
    sm.auth_pae = "CONNECTING" ~> sm.auth_pae # "CONNECTING" \/ NothingOutstanding

\* The backend machine waits for the supplicant, the EAP machine does not: a
\* retransmission timeout that expired together with the arrival of the
\* response has left eapReq set, which takes the backend machine to REQUEST.
OutOfStep ==
    /\ sm.be_auth \in {"REQUEST", "IGNORE"} /\ ~eap_if.eapTimeout
    /\ eap.state \notin {"IDLE", "IDLE2"}

\* With the integrated server that race is the only way to get out of step:
\* whatever restarts, aborts, timeouts and discarded responses come together,
\* the backend machine goes on waiting for an enabled port's supplicant past the
\* EAP machine only from a run that finds a response and retransWhile at 0.
OutOfStepByRace ==
    [][conf.eap_server /\ ~OutOfStep /\ OutOfStep' /\ eap_if'.portEnabled
         => running /\ sm.eapolEap /\ eap_if.retransWhile = 0]_vars

\* EAP has succeeded and the PAE machine waits for the keys.  Whether they come
\* is up to the WPA machine, which may have lost its timeout or wait for an
\* authentication itself.
AwaitsKeys == sm.authSuccess /\ ~sm.portValid

\* An EAP conversation with the integrated server ends whatever the station
\* sends or fails to send: the PAE machine leaves AUTHENTICATING or waits for
\* nothing but the keys, unless the machines are out of step.
AuthenticatingResolves ==
    conf.eap_server /\ sm.auth_pae = "AUTHENTICATING"
      ~> sm.auth_pae # "AUTHENTICATING" \/ hist.left \/ OutOfStep \/ AwaitsKeys

\* A failed authentication, a failed re-authentication too, closes the port in
\* the run in which the EAP machine fails, unless the machines are out of step.
\* (eapFail may be an old one: a reassociation with a cached PMK authenticates
\* the station without the EAP machine, and does not clear the flag.)
FailureClosesPort ==
    ~running /\ eap_if.portEnabled /\ eap.state \in {"FAILURE", "FAILURE2"}
      => sm.authPortStatus # "Authorized" \/ OutOfStep

\* ieee802_1x_new_station sets reAuthenticate to "force EAPOL state machines to
\* start re-authentication without having to wait for the Supplicant to send
\* EAPOL-Start": the flag is consumed by a new authentication, unless the
\* machines are out of step or a 4-way handshake is under way.
ReauthenticationStarts ==
    sm.reAuthenticate ~> ~sm.reAuthenticate \/ OutOfStep \/ wpa = "PTKSTART"

=============================================================================
