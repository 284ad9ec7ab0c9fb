-------------------------- MODULE EapolAuthProofs --------------------------
(***************************************************************************)
(* What the authenticator of module EapolAuth preserves, for every         *)
(* configuration, every number of events and every cap on the iterations.  *)
(*                                                                         *)
(* A run of eapol_sm_step_run is a recursive function of the number of     *)
(* passes, and each pass may hold a run of the EAP machine, another such   *)
(* function.  EapReaches and RunReaches turn the two recursions into       *)
(* closure conditions on sets of states, which Induct makes sufficient, so *)
(* that WholeRunOK needs a single step of the EAP machine (EapStepOK) and  *)
(* a single pass (PassOK).  The events follow, each with what it does to   *)
(* the state between two runs, and at the end the induction over steps.    *)
(***************************************************************************)
EXTENDS EapolAuth, TLAPS, FiniteSetTheorems

-----------------------------------------------------------------------------
(* Induction over the number of iterations.                                *)

\* A set of numbers with 0 and all successors is Nat: the smallest number that
\* is missing would have a smaller interval below it than any other.
LEMMA Induct ==
    ASSUME NEW S \in SUBSET Nat, 0 \in S, \A n \in S : n + 1 \in S
    PROVE  S = Nat
  <1> DEFINE R == StrictSubsetOrdering(Nat)
             T == {1 .. n : n \in Nat \ S}
  <1>1. SUFFICES ASSUME T # {} PROVE FALSE
    OBVIOUS
  <1>2. PICK x \in T : \A y \in T : ~(<<y, x>> \in R)
    <2>1. IsWellFoundedOn(R, FiniteSubsetsOf(Nat))
      BY FS_StrictSubsetOrderingWellFounded
    <2>2. ASSUME NEW n \in Nat PROVE 1 .. n \in FiniteSubsetsOf(Nat)
      <3>1. IsFiniteSet(1 .. n)
        BY FS_Interval
      <3> QED
        BY <3>1 DEF FiniteSubsetsOf
    <2>3. T \subseteq FiniteSubsetsOf(Nat)
      BY <2>2
    <2> HIDE DEF R, T
    <2> QED
      BY <1>1, <2>1, <2>3, WFMin
  <1>3. PICK n \in Nat \ S : x = 1 .. n
    OBVIOUS
  <1>4. n # 0 /\ n - 1 \in Nat \ S
    OBVIOUS
  <1>5. 1 .. (n - 1) \in T
    BY <1>4
  <1>6. <<1 .. (n - 1), x>> \in R
    BY <1>3, <1>4 DEF StrictSubsetOrdering
  <1> QED
    BY <1>2, <1>5, <1>6

\* The recursion of eap_server_sm_step: the states after n further iterations,
\* where f has those after fewer.
EapAfter(g, f, n) ==
    IF n = 0 THEN EapStep(g)
    ELSE UNION {IF h.eap.changed THEN EapStep(h) ELSE {h} : h \in f[n - 1]}

\* There is a function that satisfies it.
LEMMA EapRecursion ==
    ASSUME NEW g
    PROVE  \A n \in Nat : \E f : f = [i \in 0 .. n |-> EapAfter(g, f, i)]
  <1> DEFINE S == {n \in Nat : \E f : f = [i \in 0 .. n |-> EapAfter(g, f, i)]}
  <1>1. 0 \in S
    <2> DEFINE f == [i \in 0 .. 0 |-> EapStep(g)]
    <2>1. f = [i \in 0 .. 0 |-> EapAfter(g, f, i)]
      BY DEF EapAfter
    <2> QED
      BY <2>1
  <1>2. ASSUME NEW n \in S PROVE n + 1 \in S
    <2>1. PICK f : f = [i \in 0 .. n |-> EapAfter(g, f, i)]
      OBVIOUS
    <2> DEFINE k == [i \in 0 .. n + 1 |-> IF i <= n THEN f[i] ELSE EapAfter(g, f, i)]
    <2>2. ASSUME NEW i \in 0 .. n + 1 PROVE EapAfter(g, k, i) = EapAfter(g, f, i)
      <3>1. CASE i = 0
        BY <3>1 DEF EapAfter
      <3>2. CASE i # 0
        <4>1. k[i - 1] = f[i - 1]
          BY <3>2
        <4> QED
          BY <4>1 DEF EapAfter
      <3> QED
        BY <3>1, <3>2
    <2>3. ASSUME NEW i \in 0 .. n + 1 PROVE k[i] = EapAfter(g, k, i)
      <3> HIDE DEF k
      <3>1. CASE i <= n
        <4>1. i \in 0 .. n
          BY <3>1
        <4>2. f[i] = EapAfter(g, f, i)
          BY <2>1, <4>1
        <4> QED
          BY <2>2, <3>1, <4>2 DEF k
      <3>2. CASE ~(i <= n)
        BY <2>2, <3>2 DEF k
      <3> QED
        BY <3>1, <3>2
    <2>4. k = [i \in 0 .. n + 1 |-> EapAfter(g, k, i)]
      <3>1. k = [i \in 0 .. n + 1 |-> k[i]]
        OBVIOUS
      <3> HIDE DEF k
      <3> QED
        BY <2>3, <3>1
    <2>5. \E h : h = [i \in 0 .. n + 1 |-> EapAfter(g, h, i)]
      <3> HIDE DEF k
      <3> QED
        BY <2>4
    <2> QED
      BY <2>5
  <1>3. S = Nat
    <2>1. S \subseteq Nat
      OBVIOUS
    <2> HIDE DEF S
    <2> QED
      BY <1>1, <1>2, <2>1, Induct
  <1> QED
    BY <1>3

\* Whatever holds after the first iteration and is kept by the others holds when
\* the loop ends.  W are the states that occur in the loop.
LEMMA EapReaches ==
    ASSUME NEW g
    PROVE  \E W : \A I \in SUBSET W :
             /\ EapStep(g) \cap W \subseteq I
             /\ \A h \in I : h.eap.changed => EapStep(h) \cap W \subseteq I
             => eap_server_sm_step(g) \subseteq I
  <1> DEFINE F == CHOOSE f : f = [i \in 0 .. MaxEapSteps |-> EapAfter(g, f, i)]
  <1>1. F = [i \in 0 .. MaxEapSteps |-> EapAfter(g, F, i)]
    BY EapRecursion, EapAssumption
  <1>2. eap_server_sm_step(g) = F[MaxEapSteps]
    BY DEF eap_server_sm_step, EapAfter
  <1> HIDE DEF F
  <1> DEFINE W == UNION {F[i] : i \in 0 .. MaxEapSteps}
  <1>3. ASSUME NEW I \in SUBSET W, EapStep(g) \cap W \subseteq I,
               \A h \in I : h.eap.changed => EapStep(h) \cap W \subseteq I
        PROVE  F[MaxEapSteps] \subseteq I
    <2> DEFINE S == {n \in Nat : n <= MaxEapSteps => F[n] \subseteq I}
    <2>1. 0 \in S
      <3>1. 0 \in 0 .. MaxEapSteps
        BY EapAssumption
      <3>2. F[0] = EapStep(g)
        BY <1>1, <3>1 DEF EapAfter
      <3>3. F[0] \subseteq W
        BY <3>1
      <3> QED
        BY <1>3, <3>2, <3>3
    <2>2. ASSUME NEW n \in S PROVE n + 1 \in S
      <3> SUFFICES ASSUME n + 1 <= MaxEapSteps PROVE F[n + 1] \subseteq I
        OBVIOUS
      <3>1. n + 1 \in 0 .. MaxEapSteps /\ F[n] \subseteq I
        BY EapAssumption
      <3>2. F[n + 1] = EapAfter(g, F, n + 1)
        BY <1>1, <3>1
      <3>3. EapAfter(g, F, n + 1) =
              UNION {IF h.eap.changed THEN EapStep(h) ELSE {h} : h \in F[n]}
        <4>1. n + 1 # 0 /\ (n + 1) - 1 = n
          OBVIOUS
        <4> HIDE DEF S
        <4> QED
          BY <4>1 DEF EapAfter
      <3>4. F[n + 1] \subseteq W
        BY <3>1
      <3> HIDE DEF W, S
      <3>5. ASSUME NEW x \in F[n + 1] PROVE x \in I
        <4>1. PICK h \in F[n] : x \in (IF h.eap.changed THEN EapStep(h) ELSE {h})
          BY <3>2, <3>3
        <4>2. h \in I /\ x \in W
          BY <3>1, <3>4
        <4> QED
          BY <1>3, <4>1, <4>2
      <3> QED
        BY <3>5
    <2>3. S = Nat
      <3>1. S \subseteq Nat
        OBVIOUS
      <3> HIDE DEF S
      <3> QED
        BY <2>1, <2>2, <3>1, Induct
    <2> QED
      BY <2>3, EapAssumption
  <1> HIDE DEF W
  <1> QED
    BY <1>2, <1>3


\* A run before its first pass.
Start(g) == [g |-> g, rests |-> FALSE]

\* The recursion of eapol_sm_step_run: the states after n passes.
RunAfter(g, f, n) ==
    IF n = 0 THEN {Start(g)}
    ELSE UNION {IF r.rests THEN {r} ELSE Pass(r.g) : r \in f[n - 1]}

\* There is a function that satisfies it, too.
LEMMA RunRecursion ==
    ASSUME NEW g
    PROVE  \A n \in Nat : \E f : f = [i \in 0 .. n |-> RunAfter(g, f, i)]
  <1> DEFINE S == {n \in Nat : \E f : f = [i \in 0 .. n |-> RunAfter(g, f, i)]}
  <1>1. 0 \in S
    <2> DEFINE f == [i \in 0 .. 0 |-> {Start(g)}]
    <2>1. f = [i \in 0 .. 0 |-> RunAfter(g, f, i)]
      BY DEF RunAfter
    <2> QED
      BY <2>1
  <1>2. ASSUME NEW n \in S PROVE n + 1 \in S
    <2>1. PICK f : f = [i \in 0 .. n |-> RunAfter(g, f, i)]
      OBVIOUS
    <2> DEFINE k == [i \in 0 .. n + 1 |-> IF i <= n THEN f[i] ELSE RunAfter(g, f, i)]
    <2>2. ASSUME NEW i \in 0 .. n + 1 PROVE RunAfter(g, k, i) = RunAfter(g, f, i)
      <3>1. CASE i = 0
        BY <3>1 DEF RunAfter
      <3>2. CASE i # 0
        <4>1. k[i - 1] = f[i - 1]
          BY <3>2
        <4> QED
          BY <4>1 DEF RunAfter
      <3> QED
        BY <3>1, <3>2
    <2>3. ASSUME NEW i \in 0 .. n + 1 PROVE k[i] = RunAfter(g, k, i)
      <3> HIDE DEF k
      <3>1. CASE i <= n
        <4>1. i \in 0 .. n
          BY <3>1
        <4>2. f[i] = RunAfter(g, f, i)
          BY <2>1, <4>1
        <4> QED
          BY <2>2, <3>1, <4>2 DEF k
      <3>2. CASE ~(i <= n)
        BY <2>2, <3>2 DEF k
      <3> QED
        BY <3>1, <3>2
    <2>4. k = [i \in 0 .. n + 1 |-> RunAfter(g, k, i)]
      <3>1. k = [i \in 0 .. n + 1 |-> k[i]]
        OBVIOUS
      <3> HIDE DEF k
      <3> QED
        BY <2>3, <3>1
    <2>5. \E h : h = [i \in 0 .. n + 1 |-> RunAfter(g, h, i)]
      <3> HIDE DEF k
      <3> QED
        BY <2>4
    <2> QED
      BY <2>5
  <1>3. S = Nat
    <2>1. S \subseteq Nat
      OBVIOUS
    <2> HIDE DEF S
    <2> QED
      BY <1>1, <1>2, <2>1, Induct
  <1> QED
    BY <1>3

\* How a run ends that rests in r, or is cut there.
Outcome(r) == IF r.rests THEN RunEnd(r.g)
              ELSE [r.g EXCEPT !.queued = TRUE, !.hist.cut = TRUE]

\* Whatever holds at the start of a run and is kept by its passes holds at its
\* end.  W are the states that occur in it.
LEMMA RunReaches ==
    ASSUME NEW g
    PROVE  \E W : \A I \in SUBSET W :
             /\ {Start(g)} \cap W \subseteq I
             /\ \A r \in I : ~r.rests => Pass(r.g) \cap W \subseteq I
             => \A k \in eapol_sm_step_run(g) : \E r \in I : k = Outcome(r)
  <1> DEFINE F == CHOOSE f : f = [i \in 0 .. max_steps |-> RunAfter(g, f, i)]
  <1>1. F = [i \in 0 .. max_steps |-> RunAfter(g, F, i)]
    BY RunRecursion, EapolAssumption
  <1>2. eapol_sm_step_run(g) = {Outcome(r) : r \in F[max_steps]}
    BY DEF eapol_sm_step_run, RunAfter, Outcome, Start
  <1> HIDE DEF F
  <1> DEFINE W == UNION {F[i] : i \in 0 .. max_steps}
  <1>3. ASSUME NEW I \in SUBSET W, {Start(g)} \cap W \subseteq I,
               \A r \in I : ~r.rests => Pass(r.g) \cap W \subseteq I
        PROVE  F[max_steps] \subseteq I
    <2> DEFINE S == {n \in Nat : n <= max_steps => F[n] \subseteq I}
    <2>1. 0 \in S
      <3>1. 0 \in 0 .. max_steps
        BY EapolAssumption
      <3>2. F[0] = {Start(g)}
        BY <1>1, <3>1 DEF RunAfter
      <3>3. F[0] \subseteq W
        BY <3>1
      <3> QED
        BY <1>3, <3>2, <3>3
    <2>2. ASSUME NEW n \in S PROVE n + 1 \in S
      <3> SUFFICES ASSUME n + 1 <= max_steps PROVE F[n + 1] \subseteq I
        OBVIOUS
      <3>1. n + 1 \in 0 .. max_steps /\ F[n] \subseteq I
        BY EapolAssumption
      <3>2. F[n + 1] = RunAfter(g, F, n + 1)
        BY <1>1, <3>1
      <3>3. RunAfter(g, F, n + 1) =
              UNION {IF r.rests THEN {r} ELSE Pass(r.g) : r \in F[n]}
        <4>1. n + 1 # 0 /\ (n + 1) - 1 = n
          OBVIOUS
        <4> HIDE DEF S
        <4> QED
          BY <4>1 DEF RunAfter
      <3>4. F[n + 1] \subseteq W
        BY <3>1
      <3> HIDE DEF W, S
      <3>5. ASSUME NEW x \in F[n + 1] PROVE x \in I
        <4>1. PICK r \in F[n] : x \in (IF r.rests THEN {r} ELSE Pass(r.g))
          BY <3>2, <3>3
        <4>2. r \in I /\ x \in W
          BY <3>1, <3>4
        <4> QED
          BY <1>3, <4>1, <4>2
      <3> QED
        BY <3>5
    <2>3. S = Nat
      <3>1. S \subseteq Nat
        OBVIOUS
      <3> HIDE DEF S
      <3> QED
        BY <2>1, <2>2, <3>1, Induct
    <2> QED
      BY <2>3, EapolAssumption
  <1>4. ASSUME NEW I, F[max_steps] \subseteq I
        PROVE  \A k \in eapol_sm_step_run(g) : \E r \in I : k = Outcome(r)
    BY <1>2, <1>4
  <1> HIDE DEF W
  <1>5. ASSUME NEW I \in SUBSET W,
               {Start(g)} \cap W \subseteq I,
               \A r \in I : ~r.rests => Pass(r.g) \cap W \subseteq I
        PROVE  \A k \in eapol_sm_step_run(g) : \E r \in I : k = Outcome(r)
    BY <1>3, <1>4, <1>5
  <1> QED
    BY <1>5, Zenon


-----------------------------------------------------------------------------
(* The EAP machine only changes its own record and its interface.          *)

\* k is g after the body of state t.
EapBody(g, t, k) ==
    \/ t = "DISABLED" /\ k = EAP_DISABLED(g)
    \/ t = "INITIALIZE" /\ k = EAP_INITIALIZE(g)
    \/ t \in {"IDLE", "IDLE2"} /\ k = EAP_IDLE(g)
    \/ t \in {"RETRANSMIT", "RETRANSMIT2"} /\ k = EAP_RETRANSMIT(g)
    \/ t = "RECEIVED" /\ k = EAP_RECEIVED(g)
    \/ t \in {"DISCARD", "DISCARD2"} /\ k = EAP_DISCARD(g)
    \/ t \in {"SEND_REQUEST", "SEND_REQUEST2"} /\ k = EAP_SEND_REQUEST(g)
    \/ t = "METHOD_RESPONSE" /\ k \in EAP_METHOD_RESPONSE(g)
    \/ t = "METHOD_REQUEST" /\ k \in EAP_METHOD_REQUEST(g)
    \/ t = "PROPOSE_METHOD" /\ k = EAP_PROPOSE_METHOD(g)
    \/ t = "NAK" /\ k \in EAP_NAK(g)
    \/ t = "SELECT_ACTION" /\ k = EAP_SELECT_ACTION(g)
    \/ t = "FAILURE" /\ k = EAP_FAILURE(g)
    \/ t = "SUCCESS" /\ k = EAP_SUCCESS(g)
    \/ t = "INITIALIZE_PASSTHROUGH" /\ k = EAP_INITIALIZE_PASSTHROUGH(g)
    \/ t \in {"TIMEOUT_FAILURE", "TIMEOUT_FAILURE2"} /\ k = EAP_TIMEOUT_FAILURE(g)
    \/ t = "AAA_REQUEST" /\ k = EAP_AAA_REQUEST(g)
    \/ t = "AAA_IDLE" /\ k = EAP_AAA_IDLE(g)
    \/ t = "AAA_RESPONSE" /\ k = EAP_AAA_RESPONSE(g)
    \/ t = "FAILURE2" /\ k = EAP_FAILURE2(g)
    \/ t = "SUCCESS2" /\ k = EAP_SUCCESS2(g)
    \/ t \in {"RECEIVED2", "INTEGRITY_CHECK"} /\ k = g

\* The state recorded, once the body has been executed.
Entered(k, t) == [k EXCEPT !.eap.state = t, !.eap.changed = TRUE]

\* A state is entered by executing its body.
LEMMA EapBodies ==
    ASSUME NEW g, NEW t \in EapStates, NEW h \in EapEnter(g, t)
    PROVE  \E k : EapBody(g, t, k) /\ h = Entered(k, t)
  <1>1. \E B : /\ h \in {Entered(k, t) : k \in B}
              /\ \/ t = "DISABLED" /\ B = {EAP_DISABLED(g)}
                 \/ t = "INITIALIZE" /\ B = {EAP_INITIALIZE(g)}
                 \/ t \in {"IDLE", "IDLE2"} /\ B = {EAP_IDLE(g)}
                 \/ t \in {"RETRANSMIT", "RETRANSMIT2"} /\ B = {EAP_RETRANSMIT(g)}
                 \/ t = "RECEIVED" /\ B = {EAP_RECEIVED(g)}
                 \/ t \in {"DISCARD", "DISCARD2"} /\ B = {EAP_DISCARD(g)}
                 \/ t \in {"SEND_REQUEST", "SEND_REQUEST2"} /\ B = {EAP_SEND_REQUEST(g)}
                 \/ t = "METHOD_RESPONSE" /\ B = EAP_METHOD_RESPONSE(g)
                 \/ t = "METHOD_REQUEST" /\ B = EAP_METHOD_REQUEST(g)
                 \/ t = "PROPOSE_METHOD" /\ B = {EAP_PROPOSE_METHOD(g)}
                 \/ t = "NAK" /\ B = EAP_NAK(g)
                 \/ t = "SELECT_ACTION" /\ B = {EAP_SELECT_ACTION(g)}
                 \/ t = "FAILURE" /\ B = {EAP_FAILURE(g)}
                 \/ t = "SUCCESS" /\ B = {EAP_SUCCESS(g)}
                 \/ t = "INITIALIZE_PASSTHROUGH" /\ B = {EAP_INITIALIZE_PASSTHROUGH(g)}
                 \/ t \in {"TIMEOUT_FAILURE", "TIMEOUT_FAILURE2"} /\ B = {EAP_TIMEOUT_FAILURE(g)}
                 \/ t = "AAA_REQUEST" /\ B = {EAP_AAA_REQUEST(g)}
                 \/ t = "AAA_IDLE" /\ B = {EAP_AAA_IDLE(g)}
                 \/ t = "AAA_RESPONSE" /\ B = {EAP_AAA_RESPONSE(g)}
                 \/ t = "FAILURE2" /\ B = {EAP_FAILURE2(g)}
                 \/ t = "SUCCESS2" /\ B = {EAP_SUCCESS2(g)}
                 \/ t \in {"RECEIVED2", "INTEGRITY_CHECK"} /\ B = {g}
    BY DEF EapEnter, EapStates, Entered
  <1>2. PICK B : /\ h \in {Entered(k, t) : k \in B}
                 /\ \A k \in B : EapBody(g, t, k)
    BY <1>1 DEF EapBody
  <1> QED
    BY <1>2, SMTT(30)

\* h differs from g in eap and eap_if at most, and the port is as it was.
KeepsPort(g, h) ==
    /\ DOMAIN h = DOMAIN g
    /\ \A f \in DOMAIN g \ {"eap", "eap_if"} : h[f] = g[f]
    /\ DOMAIN h.eap_if = DOMAIN g.eap_if
    /\ h.eap_if.portEnabled = g.eap_if.portEnabled

\* The body of every state.
LEMMA EapEnterKeeps ==
    ASSUME NEW g, {"eap", "eap_if"} \subseteq DOMAIN g, "portEnabled" \in DOMAIN g.eap_if,
           NEW t \in EapStates, NEW h \in EapEnter(g, t)
    PROVE  KeepsPort(g, h)
  <1> USE DEF KeepsPort
  <1>1. ASSUME NEW k, KeepsPort(g, k), h = [k EXCEPT !.eap.state = t, !.eap.changed = TRUE]
        PROVE  KeepsPort(g, h)
    BY <1>1
  <1>2. KeepsPort(g, NewId(g)) /\ KeepsPort(g, g)
    BY DEF NewId
  <1>3. KeepsPort(g, EAP_INITIALIZE(g))
    <2> DEFINE n == NewId(g)
    <2>1. KeepsPort(g, n)
      BY <1>2
    <2>2. EAP_INITIALIZE(g) =
            [n EXCEPT !.eap.hasId = FALSE, !.eap.m = "none", !.eap.mState = "continue",
                      !.eap.user_eap_method_index = 0, !.eap.num_rounds = 0,
                      !.eap.method_pending = "NONE",
                      !.eap_if.eapSuccess = FALSE, !.eap_if.eapFail = FALSE,
                      !.eap_if.eapTimeout = FALSE, !.eap_if.eapRestart = FALSE,
                      !.eap_if.eapKeyData = FALSE, !.eap_if.eapKeyAvailable = FALSE]
      BY Zenon DEF EAP_INITIALIZE
    <2> HIDE DEF n
    <2> DEFINE x == EAP_INITIALIZE(g)
    <2>3. /\ DOMAIN x = DOMAIN n
          /\ \A f \in DOMAIN n \ {"eap", "eap_if"} : x[f] = n[f]
      BY <2>2
    <2>4. x.eap_if = [n.eap_if EXCEPT !.eapSuccess = FALSE, !.eapFail = FALSE,
                                      !.eapTimeout = FALSE, !.eapRestart = FALSE,
                                      !.eapKeyData = FALSE, !.eapKeyAvailable = FALSE]
      BY <2>1, <2>2
    <2>5. DOMAIN x.eap_if = DOMAIN n.eap_if /\ x.eap_if.portEnabled = n.eap_if.portEnabled
      BY <2>1, <2>4
    <2> HIDE DEF x
    <2> QED
      BY <2>1, <2>3, <2>5 DEF x
  <1>4. /\ KeepsPort(g, EAP_DISABLED(g)) /\ KeepsPort(g, EAP_IDLE(g))
        /\ KeepsPort(g, EAP_RECEIVED(g))
    BY DEF EAP_DISABLED, EAP_IDLE, EAP_RECEIVED
  <1>5. KeepsPort(g, EAP_DISCARD(g))
    BY DEF EAP_DISCARD
  <1>6. /\ KeepsPort(g, EAP_SEND_REQUEST(g)) /\ KeepsPort(g, EAP_RETRANSMIT(g))
    BY <1>5 DEF EAP_SEND_REQUEST, EAP_RETRANSMIT
  <1>7. KeepsPort(g, EAP_PROPOSE_METHOD(g)) /\ KeepsPort(g, EAP_SELECT_ACTION(g))
    BY DEF EAP_PROPOSE_METHOD, EAP_SELECT_ACTION
  <1>8. /\ KeepsPort(g, EAP_FAILURE(g)) /\ KeepsPort(g, EAP_SUCCESS(g))
        /\ KeepsPort(g, EAP_INITIALIZE_PASSTHROUGH(g))
        /\ KeepsPort(g, EAP_TIMEOUT_FAILURE(g)) /\ KeepsPort(g, EAP_AAA_REQUEST(g))
    BY DEF EAP_FAILURE, EAP_SUCCESS, EAP_INITIALIZE_PASSTHROUGH, EAP_TIMEOUT_FAILURE,
           EAP_AAA_REQUEST
  <1>9. /\ KeepsPort(g, EAP_AAA_IDLE(g)) /\ KeepsPort(g, EAP_FAILURE2(g))
        /\ KeepsPort(g, EAP_SUCCESS2(g))
    BY DEF EAP_AAA_IDLE, EAP_FAILURE2, EAP_SUCCESS2
  <1>10. KeepsPort(g, EAP_AAA_RESPONSE(g))
    BY <1>2 DEF EAP_AAA_RESPONSE
  <1>11. ASSUME NEW k \in EAP_METHOD_RESPONSE(g) PROVE KeepsPort(g, k)
    <2>1. PICK z : /\ KeepsPort(g, z)
                   /\ k \in eap_identity_process(z) \/ k \in method_process(z)
      BY <1>11 DEF EAP_METHOD_RESPONSE
    <2>2. CASE k \in eap_identity_process(z)
      <3>1. PICK who : k = [z EXCEPT !.eap.identity = who,
                                     !.eap.update_user = @ \/ z.eap.identity # "none",
                                     !.eap.mState = "success", !.eap.methodState = "END",
                                     !.eap_if.eapKeyData = FALSE]
        BY <2>2, Zenon DEF eap_identity_process
      <3> QED
        BY <2>1, <3>1
    <2>3. CASE k \in method_process(z)
      <3>1. \/ \E q : k = [z EXCEPT !.eap.methodState = "CONTINUE", !.eap.method_pending = q]
            \/ \E q, d : k = [z EXCEPT !.eap.mState = q, !.eap.methodState = "END",
                                      !.eap_if.eapKeyData = d]
        BY <2>3, Zenon DEF method_process
      <3>2. ASSUME NEW q, k = [z EXCEPT !.eap.methodState = "CONTINUE",
                   !.eap.method_pending = q]
            PROVE  KeepsPort(g, k)
        BY <2>1, <3>2
      <3>3. ASSUME NEW q, NEW d, k = [z EXCEPT !.eap.mState = q, !.eap.methodState = "END",
                                               !.eap_if.eapKeyData = d]
            PROVE  KeepsPort(g, k)
        BY <2>1, <3>3
      <3> QED
        BY <3>1, <3>2, <3>3, Zenon
    <2> QED
      BY <2>1, <2>2, <2>3
  <1>12. ASSUME NEW k \in EAP_METHOD_REQUEST(g) PROVE KeepsPort(g, k)
    <2> DEFINE n == NewId(g)
    <2>1. PICK built : k = [n EXCEPT !.eap.hasId = TRUE, !.eap_if.eapReqData = built]
      BY <1>12, Zenon DEF EAP_METHOD_REQUEST
    <2>2. KeepsPort(g, n)
      BY <1>2
    <2> HIDE DEF n
    <2> QED
      BY <2>1, <2>2
  <1>13. ASSUME NEW k \in EAP_NAK(g) PROVE KeepsPort(g, k)
    <2>1. PICK x : k = [g EXCEPT !.eap = x]
      BY <1>13 DEF EAP_NAK
    <2> QED
      BY <2>1
  <1> HIDE DEF KeepsPort
  <1>14. PICK k : EapBody(g, t, k) /\ h = Entered(k, t)
    BY EapBodies, Zenon
  <1>15. KeepsPort(g, k)
    BY <1>2, <1>3, <1>4, <1>5, <1>6, <1>7, <1>8, <1>9, <1>10, <1>11, <1>12, <1>13, <1>14
       DEF EapBody
  <1> QED
    BY <1>1, <1>14, <1>15 DEF Entered

-----------------------------------------------------------------------------
(* The two loops inside states of the EAP machine.                         *)

\* The back-off: the timeout after n retransmissions.
RtoAfter(f, n) ==
    IF n = 0 THEN RTOInit
    ELSE IF 2 * f[n - 1] >= RTOMax THEN RTOMax ELSE 2 * f[n - 1]

\* There is a function that satisfies the recursion of eap_sm_calculateTimeout.
LEMMA RtoRecursion ==
    \A n \in Nat : \E f : f = [i \in 0 .. n |-> RtoAfter(f, i)]
  <1> DEFINE S == {n \in Nat : \E f : f = [i \in 0 .. n |-> RtoAfter(f, i)]}
  <1>1. 0 \in S
    <2> DEFINE f == [i \in 0 .. 0 |-> RTOInit]
    <2>1. f = [i \in 0 .. 0 |-> RtoAfter(f, i)]
      BY DEF RtoAfter
    <2> QED
      BY <2>1
  <1>2. ASSUME NEW n \in S PROVE n + 1 \in S
    <2>1. PICK f : f = [i \in 0 .. n |-> RtoAfter(f, i)]
      OBVIOUS
    <2> DEFINE k == [i \in 0 .. n + 1 |-> IF i <= n THEN f[i] ELSE RtoAfter(f, i)]
    <2>2. ASSUME NEW i \in 0 .. n + 1 PROVE RtoAfter(k, i) = RtoAfter(f, i)
      <3>1. CASE i = 0
        BY <3>1 DEF RtoAfter
      <3>2. CASE i # 0
        <4>1. k[i - 1] = f[i - 1]
          BY <3>2
        <4> QED
          BY <4>1 DEF RtoAfter
      <3> QED
        BY <3>1, <3>2
    <2>3. ASSUME NEW i \in 0 .. n + 1 PROVE k[i] = RtoAfter(k, i)
      <3> HIDE DEF k
      <3>1. CASE i <= n
        <4>1. i \in 0 .. n
          BY <3>1
        <4>2. f[i] = RtoAfter(f, i)
          BY <2>1, <4>1
        <4> QED
          BY <2>2, <3>1, <4>2 DEF k
      <3>2. CASE ~(i <= n)
        BY <2>2, <3>2 DEF k
      <3> QED
        BY <3>1, <3>2
    <2>4. k = [i \in 0 .. n + 1 |-> RtoAfter(k, i)]
      <3>1. k = [i \in 0 .. n + 1 |-> k[i]]
        OBVIOUS
      <3> HIDE DEF k
      <3> QED
        BY <2>3, <3>1
    <2>5. \E h : h = [i \in 0 .. n + 1 |-> RtoAfter(h, i)]
      <3> HIDE DEF k
      <3> QED
        BY <2>4
    <2> QED
      BY <2>5
  <1>3. S = Nat
    <2>1. S \subseteq Nat
      OBVIOUS
    <2> HIDE DEF S
    <2> QED
      BY <1>1, <1>2, <2>1, Induct
  <1> QED
    BY <1>3

\* The timeout is a positive number of seconds.
LEMMA TimeoutType ==
    ASSUME NEW c \in Nat
    PROVE  eap_sm_calculateTimeout(c) \in Nat \ {0}
  <1> DEFINE F == CHOOSE f : f = [i \in 0 .. c |-> RtoAfter(f, i)]
  <1>1. F = [i \in 0 .. c |-> RtoAfter(F, i)]
    BY RtoRecursion
  <1>2. eap_sm_calculateTimeout(c) = F[c]
    BY DEF eap_sm_calculateTimeout, RtoAfter
  <1> HIDE DEF F
  <1> DEFINE S == {n \in Nat : n <= c => F[n] \in Nat \ {0}}
  <1>3. 0 \in S
    <2>1. F[0] = RTOInit
      BY <1>1 DEF RtoAfter
    <2> QED
      BY <2>1, EapAssumption
  <1>4. ASSUME NEW n \in S PROVE n + 1 \in S
    <2> SUFFICES ASSUME n + 1 <= c PROVE F[n + 1] \in Nat \ {0}
      OBVIOUS
    <2>1. n + 1 \in 0 .. c /\ F[n] \in Nat \ {0}
      OBVIOUS
    <2>2. F[n + 1] = RtoAfter(F, n + 1)
      BY <1>1, <2>1
    <2>3. RtoAfter(F, n + 1) = IF 2 * F[n] >= RTOMax THEN RTOMax ELSE 2 * F[n]
      <3>1. n + 1 # 0 /\ (n + 1) - 1 = n
        OBVIOUS
      <3> QED
        BY <3>1 DEF RtoAfter
    <2> QED
      BY <2>1, <2>2, <2>3, EapAssumption
  <1>5. S = Nat
    <2>1. S \subseteq Nat
      OBVIOUS
    <2> HIDE DEF S
    <2> QED
      BY <1>3, <1>4, <2>1, Induct
  <1> QED
    BY <1>2, <1>5

\* A Nak: what is left of the first n methods.
NakAfter(u, c, list, f, n) ==
    IF n <= c THEN SubSeq(u, 1, n)
    ELSE IF u[n] \in list THEN Append(f[n - 1], u[n]) ELSE f[n - 1]

\* There is a function that satisfies the recursion of eap_sm_process_nak.
LEMMA NakRecursion ==
    ASSUME NEW u, NEW c \in Nat, NEW list
    PROVE  \A n \in Nat : \E f : f = [i \in 0 .. n |-> NakAfter(u, c, list, f, i)]
  <1> DEFINE S == {n \in Nat : \E f : f = [i \in 0 .. n |-> NakAfter(u, c, list, f, i)]}
  <1>1. 0 \in S
    <2> DEFINE f == [i \in 0 .. 0 |-> SubSeq(u, 1, 0)]
    <2>1. f = [i \in 0 .. 0 |-> NakAfter(u, c, list, f, i)]
      BY DEF NakAfter
    <2> QED
      BY <2>1
  <1>2. ASSUME NEW n \in S PROVE n + 1 \in S
    <2>1. PICK f : f = [i \in 0 .. n |-> NakAfter(u, c, list, f, i)]
      OBVIOUS
    <2> DEFINE k == [i \in 0 .. n + 1 |-> IF i <= n THEN f[i] ELSE NakAfter(u, c, list, f, i)]
    <2>2. ASSUME NEW i \in 0 .. n + 1 PROVE NakAfter(u, c, list, k, i) = NakAfter(u, c, list, f, i)
      <3>1. CASE i = 0
        BY <3>1 DEF NakAfter
      <3>2. CASE i # 0
        <4>1. k[i - 1] = f[i - 1]
          BY <3>2
        <4> QED
          BY <4>1 DEF NakAfter
      <3> QED
        BY <3>1, <3>2
    <2>3. ASSUME NEW i \in 0 .. n + 1 PROVE k[i] = NakAfter(u, c, list, k, i)
      <3> HIDE DEF k
      <3>1. CASE i <= n
        <4>1. i \in 0 .. n
          BY <3>1
        <4>2. f[i] = NakAfter(u, c, list, f, i)
          BY <2>1, <4>1
        <4> QED
          BY <2>2, <3>1, <4>2 DEF k
      <3>2. CASE ~(i <= n)
        BY <2>2, <3>2 DEF k
      <3> QED
        BY <3>1, <3>2
    <2>4. k = [i \in 0 .. n + 1 |-> NakAfter(u, c, list, k, i)]
      <3>1. k = [i \in 0 .. n + 1 |-> k[i]]
        OBVIOUS
      <3> HIDE DEF k
      <3> QED
        BY <2>3, <3>1
    <2>5. \E h : h = [i \in 0 .. n + 1 |-> NakAfter(u, c, list, h, i)]
      <3> HIDE DEF k
      <3> QED
        BY <2>4
    <2> QED
      BY <2>5
  <1>3. S = Nat
    <2>1. S \subseteq Nat
      OBVIOUS
    <2> HIDE DEF S
    <2> QED
      BY <1>1, <1>2, <2>1, Induct
  <1> QED
    BY <1>3

\* A Nak leaves a list of methods that still has those already proposed.
LEMMA NakType ==
    ASSUME NEW e \in EapType, e.user_eap_method_index <= Len(e.user), NEW list
    PROVE  LET u == eap_sm_process_nak(e, list).user
           IN  u \in Seq(Methods) /\ e.user_eap_method_index <= Len(u)
  <1> DEFINE v == e.user
             c == e.user_eap_method_index
             F == CHOOSE f : f = [i \in 0 .. Len(v) |-> NakAfter(v, c, list, f, i)]
  <1>1. v \in Seq(Methods) /\ c \in Nat /\ c <= Len(v) /\ Len(v) \in Nat
    BY DEF EapType
  <1>2. eap_sm_process_nak(e, list).user = F[Len(v)]
    BY DEF eap_sm_process_nak, NakAfter, EapType
  <1> HIDE DEF v, c
  <1>3. F = [i \in 0 .. Len(v) |-> NakAfter(v, c, list, F, i)]
    <2>1. \E f : f = [i \in 0 .. Len(v) |-> NakAfter(v, c, list, f, i)]
      <3> HIDE DEF F
      <3> QED
        BY <1>1, NakRecursion, ZenonT(40)
    <2> QED
      BY <2>1, Zenon
  <1> HIDE DEF F
  <1> DEFINE OK(n) == /\ F[n] \in Seq(Methods)
                      /\ n <= c => Len(F[n]) = n
                      /\ n >= c => Len(F[n]) >= c
             S == {n \in Nat : n <= Len(v) => OK(n)}
  <1>4. ASSUME NEW n \in 0 .. Len(v), n <= c PROVE OK(n)
    <2>1. F[n] = SubSeq(v, 1, n)
      BY <1>1, <1>3, <1>4 DEF NakAfter
    <2>2. SubSeq(v, 1, n) \in Seq(Methods) /\ Len(SubSeq(v, 1, n)) = n
      BY <1>1
    <2> QED
      BY <1>1, <1>4, <2>1, <2>2
  <1>5. 0 \in S
    BY <1>1, <1>4
  <1>6. ASSUME NEW n \in S PROVE n + 1 \in S
    <2> SUFFICES ASSUME n + 1 <= Len(v) PROVE OK(n + 1)
      OBVIOUS
    <2>1. n \in Nat /\ n + 1 \in 0 .. Len(v) /\ OK(n)
      BY <1>1
    <2>2. CASE n + 1 <= c
      BY <1>4, <2>1, <2>2
    <2>3. CASE ~(n + 1 <= c)
      <3>1. F[n + 1] = NakAfter(v, c, list, F, n + 1)
        BY <1>3, <2>1
      <3>2. F[n + 1] = IF v[n + 1] \in list THEN Append(F[n], v[n + 1]) ELSE F[n]
        <4>1. (n + 1) - 1 = n
          BY <2>1
        <4> QED
          BY <2>3, <3>1, <4>1 DEF NakAfter
      <3>3. v[n + 1] \in Methods
        BY <1>1, <2>1
      <3>4. F[n] \in Seq(Methods) /\ Len(F[n]) >= c
        BY <1>1, <2>1, <2>3
      <3>5. /\ Append(F[n], v[n + 1]) \in Seq(Methods)
            /\ Len(Append(F[n], v[n + 1])) = Len(F[n]) + 1 /\ Len(F[n]) \in Nat
        BY <3>3, <3>4
      <3>6. F[n + 1] \in Seq(Methods) /\ Len(F[n + 1]) >= c
        BY <1>1, <3>2, <3>4, <3>5
      <3> QED
        BY <2>3, <3>6
    <2> QED
      BY <2>2, <2>3
  <1>7. S = Nat
    <2>1. S \subseteq Nat
      OBVIOUS
    <2> HIDE DEF S
    <2> QED
      BY <1>5, <1>6, <2>1, Induct
  <1>8. OK(Len(v))
    BY <1>1, <1>7
  <1> QED
    BY <1>1, <1>2, <1>8 DEF c


-----------------------------------------------------------------------------
(* The types of the EAP machine and what they rest on.                     *)

EapTyped(g) ==
    /\ "eap" \in DOMAIN g /\ "eap_if" \in DOMAIN g
    /\ g.eap \in EapType /\ g.eap_if \in EapIfType
    /\ g.eap.user_eap_method_index <= Len(g.eap.user)

\* The states with a request outstanding that may be sent again.
Waiting == {"IDLE", "IDLE2", "RECEIVED", "RECEIVED2", "DISCARD", "DISCARD2",
            "INTEGRITY_CHECK", "SEND_REQUEST", "SEND_REQUEST2"}

\* SELECT_ACTION only goes on when there is something to propose.
CanPropose(e) == e.identity = "none" \/ ~e.hasId \/ MethodLeft(e)

EapOK(g) ==
    /\ EapTyped(g)
    /\ g.eap.state \in Waiting => g.eap.retransCount <= MaxRetrans
    /\ g.eap.state = "SELECT_ACTION" /\ g.eap.decision = "CONTINUE" => CanPropose(g.eap)

\* Where the body of a state leaves retransCount as it was.
SameCount(g, h) == h.eap.retransCount = g.eap.retransCount

\* A state whose parts have their types.
LEMMA TypedParts ==
    ASSUME NEW g, EapTyped(g), NEW h, DOMAIN h = DOMAIN g, h.eap \in EapType,
           h.eap_if \in EapIfType, h.eap.user_eap_method_index <= Len(h.eap.user)
    PROVE  EapTyped(h)
  BY DEF EapTyped

\* The parts of a typed state, and zero for its counters.
LEMMA PartsTyped ==
    ASSUME NEW g, EapTyped(g)
    PROVE  /\ g.eap \in EapType /\ g.eap_if \in EapIfType
           /\ g.eap.user_eap_method_index <= Len(g.eap.user)
           /\ 0 \in 0 .. EAP_MAX_AUTH_ROUNDS + 2 /\ 0 \in 0 .. MaxRetrans + 1
           /\ Len(g.eap.user) \in Nat
  BY EapAssumption DEF EapTyped, EapType

\* The bodies that only set fields of the machine or its interface.
LEMMA SettersTyped ==
    ASSUME NEW g, EapTyped(g)
    PROVE  \A h \in {EAP_DISABLED(g), EAP_DISCARD(g), EAP_FAILURE(g), EAP_SUCCESS(g),
                  EAP_INITIALIZE_PASSTHROUGH(g), EAP_TIMEOUT_FAILURE(g), EAP_AAA_REQUEST(g),
                  EAP_AAA_IDLE(g), EAP_FAILURE2(g), EAP_SUCCESS2(g)} :
             EapTyped(h) /\ SameCount(g, h)
  <1> DEFINE e == g.eap
             i == g.eap_if
  <1>0. /\ e \in EapType /\ i \in EapIfType /\ e.user_eap_method_index <= Len(e.user)
        /\ 0 \in 0 .. EAP_MAX_AUTH_ROUNDS + 2
    BY PartsTyped
  <1>1. EapTyped(EAP_DISABLED(g)) /\ SameCount(g, EAP_DISABLED(g))
    <2> DEFINE h == EAP_DISABLED(g)
    <2>1. /\ DOMAIN h = DOMAIN g /\ h.eap = [e EXCEPT !.num_rounds = 0]
          /\ h.eap_if = i
      BY DEF EapTyped, EAP_DISABLED
    <2> HIDE DEF h, e, i
    <2>2. h.eap \in EapType
      BY <1>0, <2>1 DEF EapType
    <2>3. h.eap_if \in EapIfType
      BY <1>0, <2>1 DEF EapIfType
    <2>4. /\ h.eap.user_eap_method_index <= Len(h.eap.user)
          /\ h.eap.retransCount = e.retransCount
      BY <1>0, <2>1 DEF EapType
    <2> QED
      BY <2>1, <2>2, <2>3, <2>4, TypedParts DEF SameCount, h, e
  <1>2. EapTyped(EAP_DISCARD(g)) /\ SameCount(g, EAP_DISCARD(g))
    <2> DEFINE h == EAP_DISCARD(g)
    <2>1. /\ DOMAIN h = DOMAIN g /\ h.eap = e
          /\ h.eap_if = [i EXCEPT !.eapResp = FALSE, !.eapNoReq = TRUE]
      BY DEF EapTyped, EAP_DISCARD
    <2> HIDE DEF h, e, i
    <2>2. h.eap \in EapType
      BY <1>0, <2>1 DEF EapType
    <2>3. h.eap_if \in EapIfType
      BY <1>0, <2>1 DEF EapIfType
    <2>4. /\ h.eap.user_eap_method_index <= Len(h.eap.user)
          /\ h.eap.retransCount = e.retransCount
      BY <1>0, <2>1 DEF EapType
    <2> QED
      BY <2>1, <2>2, <2>3, <2>4, TypedParts DEF SameCount, h, e
  <1>3. EapTyped(EAP_FAILURE(g)) /\ SameCount(g, EAP_FAILURE(g))
    <2> DEFINE h == EAP_FAILURE(g)
    <2>1. /\ DOMAIN h = DOMAIN g /\ h.eap = [e EXCEPT !.lastReqData = FALSE]
          /\ h.eap_if = [i EXCEPT !.eapReqData = TRUE, !.eapFail = TRUE]
      BY DEF EapTyped, EAP_FAILURE
    <2> HIDE DEF h, e, i
    <2>2. h.eap \in EapType
      BY <1>0, <2>1 DEF EapType
    <2>3. h.eap_if \in EapIfType
      BY <1>0, <2>1 DEF EapIfType
    <2>4. /\ h.eap.user_eap_method_index <= Len(h.eap.user)
          /\ h.eap.retransCount = e.retransCount
      BY <1>0, <2>1 DEF EapType
    <2> QED
      BY <2>1, <2>2, <2>3, <2>4, TypedParts DEF SameCount, h, e
  <1>4. EapTyped(EAP_SUCCESS(g)) /\ SameCount(g, EAP_SUCCESS(g))
    <2> DEFINE h == EAP_SUCCESS(g)
    <2>1. /\ DOMAIN h = DOMAIN g /\ h.eap = [e EXCEPT !.lastReqData = FALSE]
          /\ h.eap_if = [i EXCEPT !.eapReqData = TRUE,
                                   !.eapKeyAvailable = @ \/ i.eapKeyData,
                                   !.eapSuccess = TRUE]
      BY DEF EapTyped, EAP_SUCCESS
    <2> HIDE DEF h, e, i
    <2>2. h.eap \in EapType
      BY <1>0, <2>1 DEF EapType
    <2>3. h.eap_if \in EapIfType
      BY <1>0, <2>1 DEF EapIfType
    <2>4. /\ h.eap.user_eap_method_index <= Len(h.eap.user)
          /\ h.eap.retransCount = e.retransCount
      BY <1>0, <2>1 DEF EapType
    <2> QED
      BY <2>1, <2>2, <2>3, <2>4, TypedParts DEF SameCount, h, e
  <1>5. EapTyped(EAP_INITIALIZE_PASSTHROUGH(g)) /\ SameCount(g, EAP_INITIALIZE_PASSTHROUGH(g))
    <2> DEFINE h == EAP_INITIALIZE_PASSTHROUGH(g)
    <2>1. /\ DOMAIN h = DOMAIN g /\ h.eap = e
          /\ h.eap_if = [i EXCEPT !.aaaEapRespData = FALSE]
      BY DEF EapTyped, EAP_INITIALIZE_PASSTHROUGH
    <2> HIDE DEF h, e, i
    <2>2. h.eap \in EapType
      BY <1>0, <2>1 DEF EapType
    <2>3. h.eap_if \in EapIfType
      BY <1>0, <2>1 DEF EapIfType
    <2>4. /\ h.eap.user_eap_method_index <= Len(h.eap.user)
          /\ h.eap.retransCount = e.retransCount
      BY <1>0, <2>1 DEF EapType
    <2> QED
      BY <2>1, <2>2, <2>3, <2>4, TypedParts DEF SameCount, h, e
  <1>6. EapTyped(EAP_TIMEOUT_FAILURE(g)) /\ SameCount(g, EAP_TIMEOUT_FAILURE(g))
    <2> DEFINE h == EAP_TIMEOUT_FAILURE(g)
    <2>1. /\ DOMAIN h = DOMAIN g /\ h.eap = e
          /\ h.eap_if = [i EXCEPT !.eapTimeout = TRUE]
      BY DEF EapTyped, EAP_TIMEOUT_FAILURE
    <2> HIDE DEF h, e, i
    <2>2. h.eap \in EapType
      BY <1>0, <2>1 DEF EapType
    <2>3. h.eap_if \in EapIfType
      BY <1>0, <2>1 DEF EapIfType
    <2>4. /\ h.eap.user_eap_method_index <= Len(h.eap.user)
          /\ h.eap.retransCount = e.retransCount
      BY <1>0, <2>1 DEF EapType
    <2> QED
      BY <2>1, <2>2, <2>3, <2>4, TypedParts DEF SameCount, h, e
  <1>7. EapTyped(EAP_AAA_REQUEST(g)) /\ SameCount(g, EAP_AAA_REQUEST(g))
    <2> DEFINE h == EAP_AAA_REQUEST(g)
    <2>1. /\ DOMAIN h = DOMAIN g /\ h.eap = e
          /\ h.eap_if = [i EXCEPT !.aaaEapRespData = @ \/ i.eapRespData # "none"]
      BY DEF EapTyped, EAP_AAA_REQUEST
    <2> HIDE DEF h, e, i
    <2>2. h.eap \in EapType
      BY <1>0, <2>1 DEF EapType
    <2>3. h.eap_if \in EapIfType
      BY <1>0, <2>1 DEF EapIfType
    <2>4. /\ h.eap.user_eap_method_index <= Len(h.eap.user)
          /\ h.eap.retransCount = e.retransCount
      BY <1>0, <2>1 DEF EapType
    <2> QED
      BY <2>1, <2>2, <2>3, <2>4, TypedParts DEF SameCount, h, e
  <1>8. EapTyped(EAP_AAA_IDLE(g)) /\ SameCount(g, EAP_AAA_IDLE(g))
    <2> DEFINE h == EAP_AAA_IDLE(g)
    <2>1. /\ DOMAIN h = DOMAIN g /\ h.eap = e
          /\ h.eap_if = [i EXCEPT !.aaaFail = FALSE, !.aaaSuccess = FALSE,
                                   !.aaaEapReq = FALSE, !.aaaEapResp = TRUE]
      BY DEF EapTyped, EAP_AAA_IDLE
    <2> HIDE DEF h, e, i
    <2>2. h.eap \in EapType
      BY <1>0, <2>1 DEF EapType
    <2>3. h.eap_if \in EapIfType
      BY <1>0, <2>1 DEF EapIfType
    <2>4. /\ h.eap.user_eap_method_index <= Len(h.eap.user)
          /\ h.eap.retransCount = e.retransCount
      BY <1>0, <2>1 DEF EapType
    <2> QED
      BY <2>1, <2>2, <2>3, <2>4, TypedParts DEF SameCount, h, e
  <1>9. EapTyped(EAP_FAILURE2(g)) /\ SameCount(g, EAP_FAILURE2(g))
    <2> DEFINE h == EAP_FAILURE2(g)
    <2>1. /\ DOMAIN h = DOMAIN g /\ h.eap = e
          /\ h.eap_if = [i EXCEPT !.eapReqData = @ \/ i.aaaEapReqData, !.eapFail = TRUE]
      BY DEF EapTyped, EAP_FAILURE2, eap_copy_buf
    <2> HIDE DEF h, e, i
    <2>2. h.eap \in EapType
      BY <1>0, <2>1 DEF EapType
    <2>3. h.eap_if \in EapIfType
      BY <1>0, <2>1 DEF EapIfType
    <2>4. /\ h.eap.user_eap_method_index <= Len(h.eap.user)
          /\ h.eap.retransCount = e.retransCount
      BY <1>0, <2>1 DEF EapType
    <2> QED
      BY <2>1, <2>2, <2>3, <2>4, TypedParts DEF SameCount, h, e
  <1>10. EapTyped(EAP_SUCCESS2(g)) /\ SameCount(g, EAP_SUCCESS2(g))
    <2> DEFINE h == EAP_SUCCESS2(g)
    <2>1. /\ DOMAIN h = DOMAIN g /\ h.eap = [e EXCEPT !.start_reauth = TRUE]
          /\ h.eap_if = [i EXCEPT !.eapReqData = @ \/ i.aaaEapReqData,
                                   !.eapKeyAvailable = i.aaaEapKeyAvailable,
                                   !.eapKeyData = i.aaaEapKeyAvailable,
                                   !.eapSuccess = TRUE]
      BY DEF EapTyped, EAP_SUCCESS2, eap_copy_buf
    <2> HIDE DEF h, e, i
    <2>2. h.eap \in EapType
      BY <1>0, <2>1 DEF EapType
    <2>3. h.eap_if \in EapIfType
      BY <1>0, <2>1 DEF EapIfType
    <2>4. /\ h.eap.user_eap_method_index <= Len(h.eap.user)
          /\ h.eap.retransCount = e.retransCount
      BY <1>0, <2>1 DEF EapType
    <2> QED
      BY <2>1, <2>2, <2>3, <2>4, TypedParts DEF SameCount, h, e
  <1> QED
    BY <1>1, <1>2, <1>3, <1>4, <1>5, <1>6, <1>7, <1>8, <1>9, <1>10


\* A new identifier makes the response an old one.
LEMMA NewIdTyped ==
    ASSUME NEW g, EapTyped(g)
    PROVE  EapTyped(NewId(g)) /\ NewId(g).eap = g.eap /\ DOMAIN NewId(g) = DOMAIN g
  <1> DEFINE i == g.eap_if
             h == NewId(g)
  <1>1. i \in EapIfType
    BY PartsTyped
  <1>2. /\ DOMAIN h = DOMAIN g /\ h.eap = g.eap
        /\ h.eap_if = [i EXCEPT !.eapRespData = IF @ = "none" THEN @ ELSE "old"]
    BY DEF EapTyped, NewId
  <1> HIDE DEF h, i
  <1>3. h.eap_if \in EapIfType
    BY <1>1, <1>2 DEF EapIfType, Responses
  <1> QED
    BY <1>2, <1>3, TypedParts, PartsTyped DEF h

\* The bodies that start an attempt.
LEMMA StartersTyped ==
    ASSUME NEW g, EapTyped(g)
    PROVE  /\ EapTyped(EAP_INITIALIZE(g))
           /\ EapTyped(EAP_AAA_RESPONSE(g))
           /\ \A h \in EAP_METHOD_REQUEST(g) : EapTyped(h)
           /\ EapTyped(EAP_IDLE(g)) /\ SameCount(g, EAP_IDLE(g))
           /\ EapTyped(EAP_SEND_REQUEST(g)) /\ EAP_SEND_REQUEST(g).eap.retransCount = 0
  <1> DEFINE n == NewId(g)
             e == n.eap
             i == n.eap_if
  <1>0. /\ EapTyped(n) /\ e \in EapType /\ i \in EapIfType
        /\ e.user_eap_method_index <= Len(e.user) /\ Len(e.user) \in Nat
        /\ 0 \in 0 .. EAP_MAX_AUTH_ROUNDS + 2 /\ 0 \in 0 .. MaxRetrans + 1
    BY NewIdTyped, PartsTyped
  <1>1. EapTyped(EAP_INITIALIZE(g))
    <2> DEFINE h == EAP_INITIALIZE(g)
    <2> HIDE DEF n
    <2>1. /\ DOMAIN h = DOMAIN n
          /\ h.eap = [e EXCEPT !.hasId = FALSE, !.m = "none", !.mState = "continue",
                               !.user_eap_method_index = 0, !.num_rounds = 0,
                               !.method_pending = "NONE"]
          /\ h.eap_if = [i EXCEPT !.eapSuccess = FALSE, !.eapFail = FALSE,
                                  !.eapTimeout = FALSE, !.eapRestart = FALSE,
                                  !.eapKeyData = FALSE, !.eapKeyAvailable = FALSE]
      BY <1>0 DEF EAP_INITIALIZE, EapTyped, n
    <2> HIDE DEF h, e, i
    <2>2. h.eap \in EapType
      <3>1. e \in EapType /\ 0 \in 0 .. EAP_MAX_AUTH_ROUNDS + 2
        BY <1>0
      <3>2. [e EXCEPT !.hasId = FALSE, !.m = "none", !.mState = "continue",
                      !.user_eap_method_index = 0, !.num_rounds = 0,
                      !.method_pending = "NONE"] \in EapType
        BY <3>1 DEF EapType
      <3> QED
        BY <2>1, <3>2, Zenon
    <2>3. h.eap_if \in EapIfType
      <3>1. i \in EapIfType
        BY <1>0
      <3>2. [i EXCEPT !.eapSuccess = FALSE, !.eapFail = FALSE, !.eapTimeout = FALSE,
                      !.eapRestart = FALSE, !.eapKeyData = FALSE,
                      !.eapKeyAvailable = FALSE] \in EapIfType
        BY <3>1 DEF EapIfType
      <3> QED
        BY <2>1, <3>2, Zenon
    <2>4. h.eap \in EapType /\ h.eap_if \in EapIfType
      BY <2>2, <2>3
    <2>5. h.eap.user_eap_method_index <= Len(h.eap.user)
      BY <1>0, <2>1 DEF EapType
    <2> QED
      BY <1>0, <2>1, <2>4, <2>5, TypedParts DEF h
  <1>2. ASSUME NEW b \in BOOLEAN, NEW c \in BOOLEAN
        PROVE  EapTyped([n EXCEPT !.eap.hasId = b, !.eap_if.eapReqData = c])
    <2> DEFINE h == [n EXCEPT !.eap.hasId = b, !.eap_if.eapReqData = c]
    <2> HIDE DEF n
    <2>1. /\ DOMAIN h = DOMAIN n /\ h.eap = [e EXCEPT !.hasId = b]
          /\ h.eap_if = [i EXCEPT !.eapReqData = c]
      BY <1>0 DEF EapTyped
    <2> HIDE DEF h, e, i
    <2>2. h.eap \in EapType
      BY <1>0, <2>1 DEF EapType
    <2>3. h.eap_if \in EapIfType
      BY <1>0, <2>1 DEF EapIfType
    <2>4. h.eap.user_eap_method_index <= Len(h.eap.user)
      BY <1>0, <2>1 DEF EapType
    <2> QED
      BY <1>0, <2>1, <2>2, <2>3, <2>4, TypedParts DEF h
  <1>3. EapTyped(EAP_AAA_RESPONSE(g))
    <2> DEFINE req == eap_copy_buf(g.eap_if.eapReqData, g.eap_if.aaaEapReqData)
    <2>1. req \in BOOLEAN
      BY PartsTyped DEF eap_copy_buf, EapIfType
    <2>2. EAP_AAA_RESPONSE(g) = [n EXCEPT !.eap.hasId = req, !.eap_if.eapReqData = req]
      BY DEF EAP_AAA_RESPONSE
    <2> HIDE DEF req, n
    <2> QED
      BY <1>2, <2>1, <2>2
  <1>4. ASSUME NEW h \in EAP_METHOD_REQUEST(g) PROVE EapTyped(h)
    <2>1. PICK built \in BOOLEAN : h = [n EXCEPT !.eap.hasId = TRUE,
                                                !.eap_if.eapReqData = built]
      BY <1>4 DEF EAP_METHOD_REQUEST
    <2> HIDE DEF n
    <2> QED
      BY <1>2, <2>1
  <1>5. EapTyped(EAP_IDLE(g)) /\ SameCount(g, EAP_IDLE(g))
    <2> DEFINE x == eap_sm_calculateTimeout(g.eap.retransCount)
               h == EAP_IDLE(g)
               j == g.eap_if
    <2>1. x \in Nat
      <3>1. g.eap.retransCount \in Nat
        BY PartsTyped, EapAssumption DEF EapType
      <3> QED
        BY <3>1, TimeoutType
    <2>2. DOMAIN h = DOMAIN g /\ h.eap = g.eap /\ h.eap_if = [j EXCEPT !.retransWhile = x]
      BY DEF EapTyped, EAP_IDLE
    <2>3. j \in EapIfType
      BY PartsTyped
    <2> HIDE DEF h, j, x
    <2>4. h.eap_if \in EapIfType
      BY <2>1, <2>2, <2>3 DEF EapIfType
    <2> QED
      BY <2>2, <2>4, PartsTyped, TypedParts DEF h, SameCount
  <1>6. /\ EapTyped(EAP_SEND_REQUEST(g)) /\ EAP_SEND_REQUEST(g).eap.retransCount = 0
    <2> DEFINE h == EAP_SEND_REQUEST(g)
               d == g.eap
               j == g.eap_if
    <2>1. /\ DOMAIN h = DOMAIN g
          /\ \/ h.eap = [d EXCEPT !.retransCount = 0, !.lastReqData = TRUE]
             \/ h.eap = [d EXCEPT !.retransCount = 0]
          /\ \/ h.eap_if = [j EXCEPT !.eapResp = FALSE, !.eapReq = TRUE]
             \/ h.eap_if = [j EXCEPT !.eapResp = FALSE, !.eapNoReq = TRUE, !.eapReq = FALSE]
      BY DEF EapTyped, EAP_SEND_REQUEST, EAP_DISCARD
    <2>2. d \in EapType /\ j \in EapIfType /\ d.user_eap_method_index <= Len(d.user)
      BY PartsTyped
    <2> HIDE DEF h, d, j
    <2>3. h.eap \in EapType
      <3>1. ASSUME NEW x \in EapType, 0 \in 0 .. MaxRetrans + 1
            PROVE  /\ [x EXCEPT !.retransCount = 0, !.lastReqData = TRUE] \in EapType
                   /\ [x EXCEPT !.retransCount = 0] \in EapType
        BY <3>1 DEF EapType
      <3> QED
        BY <1>0, <2>1, <2>2, <3>1
    <2>4. h.eap_if \in EapIfType
      BY <2>1, <2>2 DEF EapIfType
    <2>5. h.eap.user_eap_method_index <= Len(h.eap.user) /\ h.eap.retransCount = 0
      BY <2>1, <2>2 DEF EapType
    <2> QED
      BY <2>1, <2>3, <2>4, <2>5, TypedParts DEF h
  <1> QED
    BY <1>1, <1>3, <1>4, <1>5, <1>6

\* The counters, where their bounds leave room for one more.
LEMMA CountersTyped ==
    ASSUME NEW g, EapTyped(g)
    PROVE  /\ g.eap.retransCount <= MaxRetrans => EapTyped(EAP_RETRANSMIT(g))
           /\ g.eap.num_rounds <= EAP_MAX_AUTH_ROUNDS =>
                EapTyped(EAP_RECEIVED(g)) /\ SameCount(g, EAP_RECEIVED(g))
           /\ g.eap.num_rounds = EAP_MAX_AUTH_ROUNDS + 1 =>
                EapTyped([g EXCEPT !.eap.num_rounds = @ + 1])
  <1> DEFINE e == g.eap
             i == g.eap_if
  <1>0. /\ e \in EapType /\ i \in EapIfType /\ e.user_eap_method_index <= Len(e.user)
    BY PartsTyped
  <1>1. ASSUME e.num_rounds <= EAP_MAX_AUTH_ROUNDS + 1
        PROVE  LET h == [g EXCEPT !.eap.num_rounds = @ + 1]
               IN  EapTyped(h) /\ SameCount(g, h)
    <2> DEFINE h == [g EXCEPT !.eap.num_rounds = @ + 1]
    <2>1. /\ DOMAIN h = DOMAIN g /\ h.eap = [e EXCEPT !.num_rounds = @ + 1]
          /\ h.eap_if = i
      BY DEF EapTyped
    <2> HIDE DEF h, e, i
    <2>2. e.num_rounds + 1 \in 0 .. EAP_MAX_AUTH_ROUNDS + 2
      BY <1>0, <1>1, EapAssumption DEF EapType
    <2>3. h.eap \in EapType
      BY <1>0, <2>1, <2>2 DEF EapType
    <2>4. /\ h.eap.user_eap_method_index <= Len(h.eap.user)
          /\ h.eap.retransCount = e.retransCount
      BY <1>0, <2>1 DEF EapType
    <2> QED
      BY <1>0, <2>1, <2>3, <2>4, TypedParts DEF SameCount, h, e
  <1>2. ASSUME e.retransCount <= MaxRetrans PROVE EapTyped(EAP_RETRANSMIT(g))
    <2> DEFINE h == EAP_RETRANSMIT(g)
    <2>1. /\ DOMAIN h = DOMAIN g /\ h.eap = [e EXCEPT !.retransCount = @ + 1]
          /\ \/ h.eap_if = [i EXCEPT !.eapReqData = TRUE, !.eapReq = TRUE]
             \/ h.eap_if = i
      BY DEF EapTyped, EAP_RETRANSMIT
    <2> HIDE DEF h, e, i
    <2>2. e.retransCount + 1 \in 0 .. MaxRetrans + 1
      BY <1>0, <1>2, EapAssumption DEF EapType
    <2>3. h.eap \in EapType
      BY <1>0, <2>1, <2>2 DEF EapType
    <2>4. h.eap_if \in EapIfType
      BY <1>0, <2>1 DEF EapIfType
    <2>5. h.eap.user_eap_method_index <= Len(h.eap.user)
      BY <1>0, <2>1 DEF EapType
    <2> QED
      BY <2>1, <2>3, <2>4, <2>5, TypedParts DEF h
  <1>3. e.num_rounds \in Int /\ EAP_MAX_AUTH_ROUNDS \in Nat
    BY <1>0, EapAssumption DEF EapType
  <1> QED
    BY <1>1, <1>2, <1>3 DEF EAP_RECEIVED


\* e is well typed, and the methods already proposed are among the user's.
Machine(e) == e \in EapType /\ e.user_eap_method_index <= Len(e.user)

\* Choosing the method to propose, when there is one.
LEMMA ProposeTyped ==
    ASSUME NEW e, Machine(e), CanPropose(e), NEW s \in {"CONTINUE", "PROPOSED"}
    PROVE  Machine([eap_sm_Policy_getNextMethod(e)
                      EXCEPT !.mState = "continue", !.methodState = s])
  <1>1. CASE e.identity = "none" \/ ~e.hasId
    <2> DEFINE x == [e EXCEPT !.m = "identity", !.update_user = TRUE,
                              !.mState = "continue", !.methodState = s]
    <2>1. [eap_sm_Policy_getNextMethod(e) EXCEPT !.mState = "continue", !.methodState = s] = x
      BY <1>1 DEF eap_sm_Policy_getNextMethod, Machine, EapType
    <2>2. x \in EapType
      BY DEF Machine, EapType
    <2>3. x.user_eap_method_index <= Len(x.user)
      BY DEF Machine, EapType
    <2> QED
      BY <2>1, <2>2, <2>3, Zenon DEF Machine
  <1>2. CASE ~(e.identity = "none" \/ ~e.hasId)
    <2> DEFINE i == e.user_eap_method_index + 1
               x == [e EXCEPT !.m = e.user[i], !.user_eap_method_index = i,
                              !.mState = "continue", !.methodState = s]
    <2>1. [eap_sm_Policy_getNextMethod(e) EXCEPT !.mState = "continue", !.methodState = s] = x
      BY <1>2 DEF eap_sm_Policy_getNextMethod, Machine, EapType
    <2>2. i \in Nat /\ i <= Len(e.user) /\ e.user[i] \in Methods
      <3>1. e.user \in Seq(Methods) /\ e.user_eap_method_index \in Nat
        BY DEF Machine, EapType
      <3>2. e.user_eap_method_index < Len(e.user)
        BY <1>2 DEF CanPropose, MethodLeft
      <3> QED
        BY <3>1, <3>2
    <2> HIDE DEF i
    <2>3. x \in EapType
      BY <2>2 DEF Machine, EapType
    <2>4. x.user_eap_method_index <= Len(x.user)
      BY <2>2 DEF Machine, EapType
    <2> QED
      BY <2>1, <2>3, <2>4, Zenon DEF Machine
  <1> QED
    BY <1>1, <1>2

\* Storing a decision.
LEMMA StoreTyped ==
    ASSUME NEW y, Machine(y), NEW D \in {"FAILURE", "SUCCESS", "CONTINUE", "PASSTHROUGH"},
           D = "CONTINUE" => CanPropose(y)
    PROVE  /\ Machine([y EXCEPT !.decision = D])
           /\ [y EXCEPT !.decision = D].decision = "CONTINUE" =>
                CanPropose([y EXCEPT !.decision = D])
  <1> DEFINE x == [y EXCEPT !.decision = D]
  <1>1. Machine(x) /\ x.decision = D
    BY DEF Machine, EapType
  <1>2. /\ x.identity = y.identity /\ x.hasId = y.hasId /\ x.hasUser = y.hasUser
        /\ x.user = y.user /\ x.user_eap_method_index = y.user_eap_method_index
    BY DEF Machine, EapType
  <1> HIDE DEF x
  <1>3. D = "CONTINUE" => CanPropose(x)
    BY <1>2 DEF CanPropose, MethodLeft
  <1> QED
    BY <1>1, <1>3 DEF x

\* The decision, and why there is a method to propose when it is to continue.
LEMMA DecisionTyped ==
    ASSUME NEW e, Machine(e)
    PROVE  LET d == eap_sm_Policy_getDecision(e)
               x == [d.eap EXCEPT !.decision = d.decision]
           IN  Machine(x) /\ (x.decision = "CONTINUE" => CanPropose(x))
  <1> DEFINE d == eap_sm_Policy_getDecision(e)
             Decided(D, y) == d.decision = D /\ d.eap = y
             fresh == [e EXCEPT !.hasUser = TRUE, !.user = UserMethods,
                                !.user_eap_method_index = 0, !.update_user = FALSE,
                                !.start_reauth = FALSE]
             kept == [e EXCEPT !.start_reauth = FALSE]
             reload == (~e.hasUser \/ e.update_user) /\ e.identity # "none" /\ ~e.start_reauth
             loaded == IF reload THEN fresh ELSE kept
  <1>1. e \in EapType /\ e.user_eap_method_index <= Len(e.user)
    BY DEF Machine
  <1>2. UserMethods \in Seq(Methods) /\ Len(UserMethods) \in Nat
    BY EapAssumption
  <1>3. fresh \in EapType /\ fresh.user_eap_method_index <= Len(fresh.user)
    <2>1. ASSUME NEW y \in EapType, NEW u \in Seq(Methods)
          PROVE  [y EXCEPT !.hasUser = TRUE, !.user = u, !.user_eap_method_index = 0,
                           !.update_user = FALSE, !.start_reauth = FALSE] \in EapType
      BY <2>1 DEF EapType
    <2>2. fresh \in EapType
      BY <1>1, <1>2, <2>1, Zenon
    <2>3. fresh.user_eap_method_index = 0 /\ fresh.user = UserMethods
      BY <1>1 DEF EapType
    <2> QED
      BY <1>2, <2>2, <2>3
  <1>4. kept \in EapType /\ kept.user_eap_method_index <= Len(kept.user)
    BY <1>1 DEF EapType
  <1>5. Machine(loaded) /\ loaded.identity = e.identity /\ loaded.hasId = e.hasId
    <2>1. /\ fresh.identity = e.identity /\ fresh.hasId = e.hasId
          /\ kept.identity = e.identity /\ kept.hasId = e.hasId
      BY <1>1 DEF EapType
    <2> HIDE DEF fresh, kept
    <2> QED
      BY <1>3, <1>4, <2>1 DEF Machine
  <1>6. \/ Decided("PASSTHROUGH", e)
        \/ Decided("SUCCESS", [e EXCEPT !.update_user = TRUE])
        \/ Decided("FAILURE", [e EXCEPT !.update_user = TRUE])
        \/ Decided("FAILURE", [e EXCEPT !.hasUser = FALSE])
        \/ Decided("CONTINUE", loaded) /\ (MethodLeft(loaded) \/ e.identity = "none" \/ ~e.hasId)
        \/ Decided("FAILURE", loaded)
    <2> DEFINE l == [(IF reload
                      THEN [e EXCEPT !.hasUser = TRUE, !.user = UserMethods,
                                     !.user_eap_method_index = 0, !.update_user = FALSE]
                      ELSE e) EXCEPT !.start_reauth = FALSE]
    <2>1. l = loaded
      BY <1>1 DEF EapType
    <2> HIDE DEF loaded
    <2>2. \/ Decided("PASSTHROUGH", e)
          \/ Decided("SUCCESS", [e EXCEPT !.update_user = TRUE])
          \/ Decided("FAILURE", [e EXCEPT !.update_user = TRUE])
          \/ Decided("FAILURE", [e EXCEPT !.hasUser = FALSE])
          \/ Decided("CONTINUE", l) /\ (MethodLeft(l) \/ e.identity = "none" \/ ~e.hasId)
          \/ Decided("FAILURE", l)
      BY DEF eap_sm_Policy_getDecision
    <2> HIDE DEF l
    <2> QED
      BY <2>1, <2>2
  <1> HIDE DEF d, loaded
  <1>7. /\ Machine([e EXCEPT !.update_user = TRUE]) /\ Machine([e EXCEPT !.hasUser = FALSE])
    BY <1>1 DEF Machine, EapType
  <1>8. CanPropose(loaded) <=> MethodLeft(loaded) \/ e.identity = "none" \/ ~e.hasId
    BY <1>5 DEF CanPropose
  <1>9. PICK D, y :
          /\ D \in {"FAILURE", "SUCCESS", "CONTINUE", "PASSTHROUGH"}
          /\ d.decision = D /\ d.eap = y /\ Machine(y) /\ (D = "CONTINUE" => CanPropose(y))
    <2> HIDE DEF reload
    <2> QED
      BY <1>5, <1>6, <1>7, <1>8
  <1>10. [d.eap EXCEPT !.decision = d.decision] = [y EXCEPT !.decision = D]
    BY <1>9
  <1>11. /\ Machine([d.eap EXCEPT !.decision = d.decision])
         /\ [d.eap EXCEPT !.decision = d.decision].decision = "CONTINUE" =>
              CanPropose([d.eap EXCEPT !.decision = d.decision])
    <2>1. /\ Machine([y EXCEPT !.decision = D])
          /\ [y EXCEPT !.decision = D].decision = "CONTINUE" =>
               CanPropose([y EXCEPT !.decision = D])
      BY <1>9, StoreTyped, Zenon
    <2> QED
      BY <1>10, <2>1, Zenon
  <1> QED
    BY <1>11, Zenon DEF d

\* Replacing the machine.
LEMMA ReplaceTyped ==
    ASSUME NEW g, EapTyped(g), NEW x, Machine(x)
    PROVE  EapTyped([g EXCEPT !.eap = x]) /\ [g EXCEPT !.eap = x].eap = x
  <1> DEFINE h == [g EXCEPT !.eap = x]
  <1>1. DOMAIN h = DOMAIN g /\ h.eap = x /\ h.eap_if = g.eap_if
    BY DEF EapTyped
  <1> HIDE DEF h
  <1> QED
    BY <1>1, PartsTyped, TypedParts DEF Machine, h

\* Proposing a method, the Nak and the decision.
LEMMA PolicyTyped ==
    ASSUME NEW g, EapTyped(g)
    PROVE  /\ CanPropose(g.eap) => EapTyped(EAP_PROPOSE_METHOD(g))
           /\ \A h \in EAP_NAK(g) : EapTyped(h)
           /\ EapTyped(EAP_SELECT_ACTION(g))
           /\ EAP_SELECT_ACTION(g).eap.decision = "CONTINUE" =>
                CanPropose(EAP_SELECT_ACTION(g).eap)
  <1> DEFINE e == g.eap
  <1>1. Machine(e)
    BY PartsTyped DEF Machine
  <1>2. ASSUME CanPropose(e) PROVE EapTyped(EAP_PROPOSE_METHOD(g))
    <2> DEFINE y == eap_sm_Policy_getNextMethod(e)
               s == IF y.m = "identity" THEN "CONTINUE" ELSE "PROPOSED"
               x == [y EXCEPT !.mState = "continue", !.methodState = s]
    <2>1. EAP_PROPOSE_METHOD(g) = [g EXCEPT !.eap = x]
      BY DEF EAP_PROPOSE_METHOD
    <2>2. s \in {"CONTINUE", "PROPOSED"}
      OBVIOUS
    <2> HIDE DEF s
    <2>3. Machine(x)
      BY <1>1, <1>2, <2>2, ProposeTyped
    <2> HIDE DEF x
    <2> QED
      BY <2>1, <2>3, ReplaceTyped
  <1>3. ASSUME NEW h \in EAP_NAK(g) PROVE EapTyped(h)
    <2> DEFINE n == [e EXCEPT !.m = "none", !.mState = "continue"]
    <2>1. PICK x : /\ h = [g EXCEPT !.eap = x]
                   /\ x = n \/ \E list : x = eap_sm_process_nak(n, list)
      BY <1>3 DEF EAP_NAK
    <2>2. Machine(n)
      BY <1>1 DEF Machine, EapType
    <2> HIDE DEF n
    <2>3. ASSUME NEW list PROVE Machine(eap_sm_process_nak(n, list))
      <3> DEFINE u == eap_sm_process_nak(n, list).user
                 c == n.user_eap_method_index
      <3>1. n \in EapType /\ c <= Len(n.user)
        BY <2>2 DEF Machine
      <3>2. u \in Seq(Methods) /\ c <= Len(u)
        BY <3>1, NakType
      <3>3. eap_sm_process_nak(n, list) = [n EXCEPT !.user = u]
        BY <3>1 DEF eap_sm_process_nak, EapType
      <3> HIDE DEF u
      <3>4. [n EXCEPT !.user = u] \in EapType
        BY <3>1, <3>2 DEF EapType
      <3>5. [n EXCEPT !.user = u].user_eap_method_index <= Len([n EXCEPT !.user = u].user)
        BY <3>1, <3>2 DEF EapType
      <3> QED
        BY <3>3, <3>4, <3>5, Zenon DEF Machine
    <2> QED
      BY <2>1, <2>2, <2>3, ReplaceTyped
  <1>4. /\ EapTyped(EAP_SELECT_ACTION(g))
        /\ EAP_SELECT_ACTION(g).eap.decision = "CONTINUE" =>
             CanPropose(EAP_SELECT_ACTION(g).eap)
    <2> DEFINE d == eap_sm_Policy_getDecision(e)
               x == [d.eap EXCEPT !.decision = d.decision]
    <2>1. EAP_SELECT_ACTION(g) = [g EXCEPT !.eap = x]
      BY DEF EAP_SELECT_ACTION
    <2>2. Machine(x) /\ (x.decision = "CONTINUE" => CanPropose(x))
      BY <1>1, DecisionTyped
    <2> HIDE DEF x
    <2> QED
      BY <2>1, <2>2, ReplaceTyped
  <1> QED
    BY <1>2, <1>3, <1>4

\* What a method makes of a response.
LEMMA ResponseTyped ==
    ASSUME NEW g, EapTyped(g), NEW h \in EAP_METHOD_RESPONSE(g)
    PROVE  EapTyped(h)
  <1>1. ASSUME NEW k, EapTyped(k), NEW x, Machine(x), NEW d \in BOOLEAN
        PROVE  EapTyped([k EXCEPT !.eap = x, !.eap_if.eapKeyData = d])
    <2> DEFINE z == [k EXCEPT !.eap = x, !.eap_if.eapKeyData = d]
               i == k.eap_if
    <2>1. DOMAIN z = DOMAIN k /\ z.eap = x /\ z.eap_if = [i EXCEPT !.eapKeyData = d]
      BY <1>1 DEF EapTyped
    <2>2. i \in EapIfType
      BY <1>1, PartsTyped
    <2> HIDE DEF z, i
    <2>3. z.eap_if \in EapIfType
      BY <2>1, <2>2, <1>1 DEF EapIfType
    <2> QED
      BY <1>1, <2>1, <2>3, TypedParts DEF Machine, z
  <1>2. PICK z : /\ EapTyped(z)
                 /\ h \in eap_identity_process(z) \/ h \in method_process(z)
    <2> DEFINE x == [g.eap EXCEPT !.method_pending = "NONE"]
    <2>1. [g EXCEPT !.eap.method_pending = "NONE"] = [g EXCEPT !.eap = x]
      OBVIOUS
    <2>2. Machine(x)
      BY PartsTyped DEF Machine, EapType
    <2> HIDE DEF x
    <2>3. EapTyped([g EXCEPT !.eap.method_pending = "NONE"])
      BY <2>1, <2>2, ReplaceTyped
    <2> QED
      BY <2>3 DEF EAP_METHOD_RESPONSE
  <1> DEFINE e == z.eap
  <1>3. Machine(e)
    BY <1>2, PartsTyped DEF Machine
  <1>4. CASE h \in eap_identity_process(z)
    <2>1. PICK who \in {"known", "unknown"} :
            h = [z EXCEPT !.eap.identity = who,
                   !.eap.update_user = @ \/ z.eap.identity # "none",
                          !.eap.mState = "success", !.eap.methodState = "END",
                          !.eap_if.eapKeyData = FALSE]
      BY <1>4 DEF eap_identity_process
    <2> DEFINE u == e.update_user \/ e.identity # "none"
               x == [e EXCEPT !.identity = who, !.update_user = u,
                              !.mState = "success", !.methodState = "END"]
    <2>2. h = [z EXCEPT !.eap = x, !.eap_if.eapKeyData = FALSE]
      BY <1>2, <1>3, <2>1 DEF EapTyped, Machine, EapType
    <2>3. u \in BOOLEAN
      OBVIOUS
    <2> HIDE DEF u
    <2>4. Machine(x)
      BY <1>3, <2>3 DEF Machine, EapType
    <2> HIDE DEF x
    <2> QED
      BY <1>1, <1>2, <2>2, <2>4
  <1>5. CASE h \in method_process(z)
    <2>1. CASE \E p \in {z.eap.method_pending, "WAIT"} :
                 h = [z EXCEPT !.eap.methodState = "CONTINUE", !.eap.method_pending = p]
      <3>1. PICK p \in {e.method_pending, "WAIT"} :
                 h = [z EXCEPT !.eap.methodState = "CONTINUE", !.eap.method_pending = p]
        BY <2>1
      <3> DEFINE x == [e EXCEPT !.methodState = "CONTINUE", !.method_pending = p]
      <3>2. h = [z EXCEPT !.eap = x]
        BY <1>2, <3>1 DEF EapTyped
      <3>3. p \in {"NONE", "WAIT", "CONT"}
        BY <1>3 DEF Machine, EapType
      <3>4. Machine(x)
        BY <1>3, <3>3 DEF Machine, EapType
      <3> HIDE DEF x
      <3> QED
        BY <1>2, <3>2, <3>4, ReplaceTyped
    <2>2. CASE \E r \in {<<"success", TRUE>>, <<"success", FALSE>>, <<"failure", FALSE>>} :
                 h = [z EXCEPT !.eap.mState = r[1], !.eap.methodState = "END",
                               !.eap_if.eapKeyData = r[2]]
      <3>1. PICK s \in {"success", "failure"}, d \in BOOLEAN :
                 h = [z EXCEPT !.eap.mState = s, !.eap.methodState = "END",
                               !.eap_if.eapKeyData = d]
        <4>1. PICK r \in {<<"success", TRUE>>, <<"success", FALSE>>, <<"failure", FALSE>>} :
                 h = [z EXCEPT !.eap.mState = r[1], !.eap.methodState = "END",
                               !.eap_if.eapKeyData = r[2]]
          BY <2>2, Zenon
        <4>2. r[1] \in {"success", "failure"} /\ r[2] \in BOOLEAN
          <5>1. /\ <<"success", TRUE>>[1] = "success" /\ <<"success", TRUE>>[2] = TRUE
                /\ <<"success", FALSE>>[1] = "success" /\ <<"success", FALSE>>[2] = FALSE
                /\ <<"failure", FALSE>>[1] = "failure" /\ <<"failure", FALSE>>[2] = FALSE
            OBVIOUS
          <5> QED
            BY <5>1, Zenon
        <4> QED
          BY <4>1, <4>2, Zenon
      <3> DEFINE x == [e EXCEPT !.mState = s, !.methodState = "END"]
      <3>2. h = [z EXCEPT !.eap = x, !.eap_if.eapKeyData = d]
        BY <1>2, <3>1 DEF EapTyped
      <3>3. Machine(x)
        BY <1>3 DEF Machine, EapType
      <3> HIDE DEF x
      <3> QED
        BY <1>1, <1>2, <3>2, <3>3
    <2> QED
      BY <1>5, <2>1, <2>2 DEF method_process
  <1> QED
    BY <1>2, <1>4, <1>5

-----------------------------------------------------------------------------
(* A step of the EAP machine keeps its types.                              *)

\* What the body of state t needs of the machine it is entered with.
MayEnter(e, t) ==
    /\ t \in EapStates
    /\ t \in (Waiting \ {"SEND_REQUEST", "SEND_REQUEST2"}) \cup {"RETRANSMIT", "RETRANSMIT2"} =>
         e.retransCount <= MaxRetrans
    /\ t = "RECEIVED" => e.num_rounds <= EAP_MAX_AUTH_ROUNDS
    /\ t = "PROPOSE_METHOD" => CanPropose(e)

\* The states that SM_STEP(EAP) enters may be entered: the retransmission
\* counter and the rounds are checked before they are counted up, and a method
\* is proposed only if there is one.
LEMMA StepMayEnter ==
    ASSUME NEW g, EapOK(g)
    PROVE  LET t == SM_STEP_EAP(g.eap, g.eap_if)
           IN  /\ t \in {"stay", "rounds", "checked"} \/ MayEnter(g.eap, t)
               /\ t = "rounds" => g.eap.num_rounds = EAP_MAX_AUTH_ROUNDS + 1
               /\ t = "checked" => g.eap.retransCount <= MaxRetrans
  <1> DEFINE e == g.eap
             i == g.eap_if
             u == EapInState(e, i)
  <1>1. /\ e.state \in EapStates /\ e.num_rounds \in Nat /\ e.retransCount \in Nat
        /\ e.decision \in {"FAILURE", "SUCCESS", "CONTINUE", "PASSTHROUGH"}
        /\ MaxRetrans \in Nat /\ EAP_MAX_AUTH_ROUNDS \in Nat
    BY EapAssumption DEF EapOK, EapTyped, EapType
  <1>2. /\ e.state \in Waiting => e.retransCount <= MaxRetrans
        /\ e.state = "SELECT_ACTION" /\ e.decision = "CONTINUE" => CanPropose(e)
    BY DEF EapOK
  <1> HIDE DEF e, i
  <1>3. u \in EapStates \cup {"stay", "checked"}
    BY <1>1 DEF EapInState, EapStates
  <1>4. u \in Waiting \ {"SEND_REQUEST", "SEND_REQUEST2"} => e.retransCount <= MaxRetrans
    BY <1>1, <1>2 DEF EapInState, EapStates, Waiting
  <1>5. u \in {"RETRANSMIT", "RETRANSMIT2", "checked"} => e.retransCount <= MaxRetrans
    BY <1>1, <1>2 DEF EapInState, EapStates, Waiting
  <1>6. u = "PROPOSE_METHOD" => CanPropose(e)
    BY <1>1, <1>2 DEF EapInState, EapStates
  <1> HIDE DEF u
  <1> DEFINE t == SM_STEP_EAP(e, i)
  <1>7. \/ t \in {"INITIALIZE", "DISABLED", "stay"}
        \/ t = "rounds" /\ e.num_rounds = EAP_MAX_AUTH_ROUNDS + 1
        \/ t = u /\ e.num_rounds <= EAP_MAX_AUTH_ROUNDS
    BY <1>1 DEF SM_STEP_EAP, u
  <1> HIDE DEF t
  <1>8. CASE t \in {"INITIALIZE", "DISABLED", "stay"}
    BY <1>8 DEF MayEnter, EapStates, Waiting, t, e, i
  <1>9. CASE t = "rounds" /\ e.num_rounds = EAP_MAX_AUTH_ROUNDS + 1
    BY <1>9 DEF t, e, i
  <1>10. CASE t = u /\ e.num_rounds <= EAP_MAX_AUTH_ROUNDS
    <2>1. t # "rounds"
      BY <1>3, <1>10 DEF EapStates
    <2>2. t \in {"stay", "checked"} \/ MayEnter(e, t)
      BY <1>3, <1>4, <1>5, <1>6, <1>10 DEF MayEnter
    <2> QED
      BY <1>5, <1>10, <2>1, <2>2 DEF t, e, i
  <1> QED
    BY <1>7, <1>8, <1>9, <1>10

\* Entering a state once its body has been executed.
LEMMA EnteredTyped ==
    ASSUME NEW k, EapTyped(k), NEW t \in EapStates, NEW c \in BOOLEAN,
           t \in Waiting => k.eap.retransCount <= MaxRetrans,
           t = "SELECT_ACTION" /\ k.eap.decision = "CONTINUE" => CanPropose(k.eap)
    PROVE  EapOK([k EXCEPT !.eap.state = t, !.eap.changed = c])
  <1> DEFINE e == k.eap
             x == [e EXCEPT !.state = t, !.changed = c]
  <1>1. [k EXCEPT !.eap.state = t, !.eap.changed = c] = [k EXCEPT !.eap = x]
    BY DEF EapTyped
  <1>2. e \in EapType /\ e.user_eap_method_index <= Len(e.user)
    BY PartsTyped
  <1>3. Machine(x)
    BY <1>2 DEF Machine, EapType
  <1>4. /\ x.state = t /\ x.retransCount = e.retransCount /\ x.decision = e.decision
        /\ x.identity = e.identity /\ x.hasId = e.hasId /\ x.hasUser = e.hasUser
        /\ x.user = e.user /\ x.user_eap_method_index = e.user_eap_method_index
    BY <1>2 DEF EapType
  <1>5. CanPropose(e) => CanPropose(x)
    BY <1>4 DEF CanPropose, MethodLeft
  <1> HIDE DEF x
  <1>6. EapTyped([k EXCEPT !.eap = x]) /\ [k EXCEPT !.eap = x].eap = x
    BY <1>3, ReplaceTyped
  <1>7. EapOK([k EXCEPT !.eap = x])
    BY <1>4, <1>5, <1>6 DEF EapOK
  <1> QED
    BY <1>1, <1>7

\* Entering a state that may be entered.
LEMMA EnterOK ==
    ASSUME NEW g, EapTyped(g), NEW t, MayEnter(g.eap, t), NEW h \in EapEnter(g, t)
    PROVE  EapOK(h)
  <1> DEFINE Fits(k) == /\ EapTyped(k)
                        /\ t \in Waiting => k.eap.retransCount <= MaxRetrans
                        /\ t = "SELECT_ACTION" /\ k.eap.decision = "CONTINUE"
                              => CanPropose(k.eap)
             Setters == {EAP_DISABLED(g), EAP_DISCARD(g), EAP_FAILURE(g), EAP_SUCCESS(g),
                         EAP_INITIALIZE_PASSTHROUGH(g), EAP_TIMEOUT_FAILURE(g),
                         EAP_AAA_REQUEST(g), EAP_AAA_IDLE(g), EAP_FAILURE2(g), EAP_SUCCESS2(g)}
  <1>1. PICK k : /\ h = [k EXCEPT !.eap.state = t, !.eap.changed = TRUE]
                 /\ \/ k \in Setters /\ t # "SELECT_ACTION"
                       /\ t \notin {"SEND_REQUEST", "SEND_REQUEST2"}
                    \/ k = EAP_INITIALIZE(g) /\ t = "INITIALIZE"
                    \/ k = EAP_IDLE(g) /\ t \in {"IDLE", "IDLE2"}
                    \/ k = EAP_RETRANSMIT(g) /\ t \in {"RETRANSMIT", "RETRANSMIT2"}
                    \/ k = EAP_RECEIVED(g) /\ t = "RECEIVED"
                    \/ k = EAP_SEND_REQUEST(g) /\ t \in {"SEND_REQUEST", "SEND_REQUEST2"}
                    \/ k \in EAP_METHOD_RESPONSE(g) /\ t = "METHOD_RESPONSE"
                    \/ k \in EAP_METHOD_REQUEST(g) /\ t = "METHOD_REQUEST"
                    \/ k = EAP_PROPOSE_METHOD(g) /\ t = "PROPOSE_METHOD"
                    \/ k \in EAP_NAK(g) /\ t = "NAK"
                    \/ k = EAP_SELECT_ACTION(g) /\ t = "SELECT_ACTION"
                    \/ k = EAP_AAA_RESPONSE(g) /\ t = "AAA_RESPONSE"
                    \/ k = g /\ t \in {"RECEIVED2", "INTEGRITY_CHECK"}
    <2>1. t \in EapStates
      BY DEF MayEnter
    <2>2. PICK k : EapBody(g, t, k) /\ h = Entered(k, t)
      BY <2>1, EapBodies, Zenon
    <2> QED
      BY <2>2 DEF EapBody, Entered
  <1>2. /\ t \in EapStates
        /\ t \in (Waiting \ {"SEND_REQUEST", "SEND_REQUEST2"}) \cup {"RETRANSMIT", "RETRANSMIT2"} =>
             g.eap.retransCount <= MaxRetrans
        /\ t = "RECEIVED" => g.eap.num_rounds <= EAP_MAX_AUTH_ROUNDS
        /\ t = "PROPOSE_METHOD" => CanPropose(g.eap)
        /\ MaxRetrans \in Nat
    BY EapAssumption DEF MayEnter
  <1>3. (k \in Setters /\ t # "SELECT_ACTION" /\ t \notin {"SEND_REQUEST", "SEND_REQUEST2"})
           => Fits(k)
    <2>1. k \in Setters => EapTyped(k) /\ SameCount(g, k)
      BY SettersTyped
    <2> HIDE DEF Setters
    <2> QED
      BY <1>2, <2>1 DEF SameCount
  <1> HIDE DEF Setters
  <1>4. (k = EAP_INITIALIZE(g) /\ t = "INITIALIZE") => Fits(k)
    BY StartersTyped DEF Waiting
  <1>5. (k = EAP_IDLE(g) /\ t \in {"IDLE", "IDLE2"}) => Fits(k)
    BY <1>2, StartersTyped DEF Waiting, SameCount
  <1>6. (k = EAP_RETRANSMIT(g) /\ t \in {"RETRANSMIT", "RETRANSMIT2"}) => Fits(k)
    BY <1>2, CountersTyped DEF Waiting
  <1>7. (k = EAP_RECEIVED(g) /\ t = "RECEIVED") => Fits(k)
    BY <1>2, CountersTyped DEF Waiting, SameCount
  <1>8. (k = EAP_SEND_REQUEST(g) /\ t \in {"SEND_REQUEST", "SEND_REQUEST2"}) => Fits(k)
    BY <1>2, StartersTyped
  <1>9. (k \in EAP_METHOD_RESPONSE(g) /\ t = "METHOD_RESPONSE") => Fits(k)
    BY ResponseTyped DEF Waiting
  <1>10. (k \in EAP_METHOD_REQUEST(g) /\ t = "METHOD_REQUEST") => Fits(k)
    BY StartersTyped DEF Waiting
  <1>11. (k = EAP_PROPOSE_METHOD(g) /\ t = "PROPOSE_METHOD") => Fits(k)
    BY <1>2, PolicyTyped DEF Waiting
  <1>12. (k \in EAP_NAK(g) /\ t = "NAK") => Fits(k)
    BY PolicyTyped DEF Waiting
  <1>13. (k = EAP_SELECT_ACTION(g) /\ t = "SELECT_ACTION") => Fits(k)
    BY PolicyTyped DEF Waiting
  <1>14. (k = EAP_AAA_RESPONSE(g) /\ t = "AAA_RESPONSE") => Fits(k)
    BY StartersTyped DEF Waiting
  <1>15. (k = g /\ t \in {"RECEIVED2", "INTEGRITY_CHECK"}) => Fits(k)
    BY <1>2 DEF Waiting
  <1>16. Fits(k)
    BY <1>1, <1>3, <1>4, <1>5, <1>6, <1>7, <1>8, <1>9, <1>10, <1>11, <1>12, <1>13, <1>14, <1>15
  <1> QED
    BY <1>1, <1>2, <1>16, EnteredTyped

\* One iteration of the EAP machine.
LEMMA EapStepOK ==
    ASSUME NEW g, EapOK(g), NEW h \in EapStep(g)
    PROVE  EapOK(h) /\ KeepsPort(g, h)
  <1> DEFINE t == SM_STEP_EAP(g.eap, g.eap_if)
  <1>1. /\ t \in {"stay", "rounds", "checked"} \/ MayEnter(g.eap, t)
        /\ t = "rounds" => g.eap.num_rounds = EAP_MAX_AUTH_ROUNDS + 1
        /\ t = "checked" => g.eap.retransCount <= MaxRetrans
    BY StepMayEnter
  <1>2. EapTyped(g)
    BY DEF EapOK
  <1>3. ASSUME NEW s, MayEnter(g.eap, s), h \in EapEnter(g, s)
        PROVE  EapOK(h) /\ KeepsPort(g, h)
    <2>1. s \in EapStates
      BY <1>3 DEF MayEnter
    <2>2. {"eap", "eap_if"} \subseteq DOMAIN g /\ "portEnabled" \in DOMAIN g.eap_if
      BY <1>2 DEF EapTyped, EapIfType
    <2> QED
      BY <1>2, <1>3, <2>1, <2>2, EnterOK, EapEnterKeeps
  <1> HIDE DEF t
  <1>4. CASE t = "stay"
    <2> DEFINE k == [g EXCEPT !.eap.changed = FALSE]
               s == g.eap.state
    <2>1. h = k
      BY <1>4 DEF EapStep, t
    <2>2. k = [g EXCEPT !.eap.state = s, !.eap.changed = FALSE]
      BY <1>2 DEF EapTyped, EapType
    <2>3. KeepsPort(g, k)
      BY DEF KeepsPort
    <2>4. s \in EapStates
      BY <1>2 DEF EapTyped, EapType
    <2>5. EapOK([g EXCEPT !.eap.state = s, !.eap.changed = FALSE])
      <3>1. /\ s \in Waiting => g.eap.retransCount <= MaxRetrans
            /\ s = "SELECT_ACTION" /\ g.eap.decision = "CONTINUE" => CanPropose(g.eap)
        BY DEF EapOK
      <3> HIDE DEF s
      <3> QED
        BY <1>2, <2>4, <3>1, EnteredTyped
    <2> HIDE DEF k
    <2> QED
      BY <2>1, <2>2, <2>3, <2>5
  <1>5. CASE t = "rounds"
    <2> DEFINE k == [g EXCEPT !.eap.num_rounds = @ + 1]
    <2>1. h \in EapEnter(k, "FAILURE")
      BY <1>5 DEF EapStep, t
    <2>2. EapTyped(k)
      BY <1>1, <1>2, <1>5, CountersTyped
    <2>3. KeepsPort(g, k)
      BY DEF KeepsPort
    <2> HIDE DEF k
    <2>4. MayEnter(k.eap, "FAILURE")
      BY DEF MayEnter, EapStates, Waiting
    <2>5. EapOK(h) /\ KeepsPort(k, h)
      <3>1. {"eap", "eap_if"} \subseteq DOMAIN k /\ "portEnabled" \in DOMAIN k.eap_if
        BY <2>2 DEF EapTyped, EapIfType
      <3>2. "FAILURE" \in EapStates
        BY DEF EapStates
      <3> QED
        BY <2>1, <2>2, <2>4, <3>1, <3>2, EnterOK, EapEnterKeeps
    <2> QED
      BY <2>3, <2>5 DEF KeepsPort
  <1>6. CASE t = "checked"
    <2>1. h \in EapEnter(g, "DISCARD") \/ h \in EapEnter(g, "METHOD_RESPONSE")
      BY <1>6 DEF EapStep, t
    <2>2. MayEnter(g.eap, "DISCARD") /\ MayEnter(g.eap, "METHOD_RESPONSE")
      BY <1>1, <1>6 DEF MayEnter, EapStates, Waiting
    <2> QED
      BY <1>3, <2>1, <2>2
  <1>7. CASE t \notin {"stay", "rounds", "checked"}
    <2>1. h \in EapEnter(g, t)
      BY <1>7 DEF EapStep, t
    <2> QED
      BY <1>1, <1>3, <1>7, <2>1
  <1> QED
    BY <1>4, <1>5, <1>6, <1>7

\* A run of the EAP machine.
LEMMA EapRunOK ==
    ASSUME NEW g, EapOK(g), NEW h \in eap_server_sm_step(g)
    PROVE  EapOK(h) /\ KeepsPort(g, h)
  <1>1. PICK W : \A I \in SUBSET W :
             /\ EapStep(g) \cap W \subseteq I
             /\ \A k \in I : k.eap.changed => EapStep(k) \cap W \subseteq I
             => eap_server_sm_step(g) \subseteq I
    BY EapReaches, Zenon
  <1> DEFINE I == {k \in W : EapOK(k) /\ KeepsPort(g, k)}
  <1>2. I \in SUBSET W
    OBVIOUS
  <1>3. EapStep(g) \cap W \subseteq I
    BY EapStepOK
  <1>4. ASSUME NEW k \in I PROVE EapStep(k) \cap W \subseteq I
    <2>1. ASSUME NEW x \in EapStep(k) \cap W PROVE EapOK(x) /\ KeepsPort(g, x)
      <3>1. EapOK(x) /\ KeepsPort(k, x) /\ KeepsPort(g, k)
        BY EapStepOK
      <3> QED
        BY <3>1 DEF KeepsPort
    <2> QED
      BY <2>1
  <1>5. eap_server_sm_step(g) \subseteq I
    <2> HIDE DEF I
    <2> QED
      BY <1>1, <1>2, <1>3, <1>4, Zenon
  <1> QED
    BY <1>5

-----------------------------------------------------------------------------
(* What holds throughout a run of the port machines.                       *)

\* EapolType without the bound of reAuthCount, which rests on runs that are
\* not cut.
PortType ==
    [auth_pae : {"INITIALIZE", "DISCONNECTED", "RESTART", "CONNECTING", "AUTHENTICATING",
                 "AUTHENTICATED", "ABORTING", "HELD"},
     be_auth : {"INITIALIZE", "REQUEST", "RESPONSE", "SUCCESS", "FAIL", "TIMEOUT",
                "IDLE", "IGNORE"},
     reauth_timer : {"INITIALIZE", "REAUTHENTICATE"},
     authPortStatus : {"unset", "Unauthorized", "Authorized"}, portValid : BOOLEAN,
     eapolEap : BOOLEAN, eapolStart : BOOLEAN, eapolLogoff : BOOLEAN,
     authStart : BOOLEAN, authAbort : BOOLEAN, authSuccess : BOOLEAN,
     authFail : BOOLEAN, authTimeout : BOOLEAN,
     reAuthenticate : BOOLEAN, reAuthCount : Nat,
     keyRun : BOOLEAN, keyDone : BOOLEAN,
     aWhile : 0 .. serverTimeout, quietWhile : 0 .. quietPeriod,
     reAuthWhen : 0 .. conf.eap_reauth_period]

Fields == {"sm", "eap", "eap_if", "wpa", "sta", "queued", "pmksa", "awaiting", "hist"}

Typed(g) ==
    /\ DOMAIN g = Fields
    /\ EapOK(g) /\ g.sm \in PortType /\ g.hist \in HistType
    /\ g.wpa \in {"INITIALIZE", "AUTHENTICATION2", "PTKSTART", "PTKINITDONE"}
    /\ g.sta \in {"none", "assoc", "removing"}
    /\ g.queued \in BOOLEAN /\ g.pmksa \in BOOLEAN /\ g.awaiting \in BOOLEAN

\* eapolEap is set only as long as the response at hand is fresh.
Fresh(g) == ~g.hist.stale /\ (g.sm.eapolEap => g.hist.fresh)

\* The port of an associated station is enabled.
Enabled(g) == g.sta = "assoc" => g.eap_if.portEnabled

\* How far reAuthCount may be in each state, once no run has been cut.
Counted(g) ==
    g.hist.cut \/
      /\ g.sm.reAuthCount <= reAuthMax + 1
      /\ g.sm.auth_pae = "INITIALIZE" => g.sm.reAuthCount <= reAuthMax \/ ~g.eap_if.portEnabled
      /\ g.sm.auth_pae \notin {"CONNECTING", "INITIALIZE"} => g.sm.reAuthCount <= reAuthMax

\* CONNECTING is not left behind by a run once it has given up.
Rested(g) ==
    g.hist.cut \/ (g.sm.auth_pae = "CONNECTING" => g.sm.reAuthCount <= reAuthMax)

RunOK(g) == Typed(g) /\ Fresh(g) /\ Enabled(g) /\ Counted(g)

\* EapOK depends on the machine and the type of its interface only.
LEMMA SameMachine ==
    ASSUME NEW g, Typed(g), NEW h, DOMAIN h = Fields, h.eap = g.eap, h.eap_if \in EapIfType
    PROVE  EapOK(h)
  <1>1. EapOK(g)
    BY DEF Typed
  <1>2. EapTyped(h)
    BY <1>1 DEF EapOK, EapTyped, Fields
  <1> QED
    BY <1>1, <1>2 DEF EapOK

\* A step that leaves the PAE state, its counter, eapolEap and the history
\* alone, and enables no port.
LEMMA Carries ==
    ASSUME NEW g, RunOK(g), NEW h, Typed(h), h.hist = g.hist,
           h.sm.auth_pae = g.sm.auth_pae, h.sm.reAuthCount = g.sm.reAuthCount,
           h.sm.eapolEap = g.sm.eapolEap,
           h.eap_if.portEnabled => g.eap_if.portEnabled,
           h.sta = "assoc" => h.eap_if.portEnabled
    PROVE  RunOK(h) /\ (Rested(g) => Rested(h))
  BY DEF RunOK, Fresh, Enabled, Counted, Rested

\* The fields that wpa_sm_step changes.
LEMMA WpaStepFields ==
    ASSUME NEW g, DOMAIN g = Fields
    PROVE  LET h == wpa_sm_step(g)
           IN  /\ DOMAIN h = Fields
               /\ h.eap = g.eap /\ h.hist = g.hist /\ h.pmksa = g.pmksa
               /\ h.awaiting = g.awaiting
               /\ \/ h = g
                  \/ /\ h.sm = [g.sm EXCEPT !.keyRun = FALSE] /\ h.wpa = "PTKSTART"
                     /\ h.eap_if = g.eap_if /\ h.sta = g.sta /\ h.queued = g.queued
                  \/ /\ h.sm = [g.sm EXCEPT !.keyRun = FALSE, !.portValid = FALSE]
                     /\ h.wpa = "INITIALIZE" /\ h.sta = "removing" /\ h.queued = TRUE
                     /\ h.eap_if = [g.eap_if EXCEPT !.portEnabled = FALSE]
  <1> DEFINE k == [g EXCEPT !.sm.keyRun = FALSE]
             h == wpa_sm_step(g)
  <1>1. CASE h = g
    BY <1>1
  <1>2. CASE h = [g EXCEPT !.sm.keyRun = FALSE, !.wpa = "PTKSTART"]
    BY <1>2 DEF Fields
  <1>3. CASE h = WpaDisconnect(k)
    <2>1. /\ DOMAIN k = Fields /\ k.sm = [g.sm EXCEPT !.keyRun = FALSE]
          /\ k.eap = g.eap /\ k.hist = g.hist /\ k.pmksa = g.pmksa
          /\ k.awaiting = g.awaiting /\ k.eap_if = g.eap_if
      BY DEF Fields
    <2>2. /\ DOMAIN WpaDisconnect(k) = DOMAIN k
          /\ WpaDisconnect(k).sm = [k.sm EXCEPT !.portValid = FALSE]
          /\ WpaDisconnect(k).eap_if = [k.eap_if EXCEPT !.portEnabled = FALSE]
          /\ WpaDisconnect(k).wpa = "INITIALIZE" /\ WpaDisconnect(k).sta = "removing"
          /\ WpaDisconnect(k).queued = TRUE
          /\ WpaDisconnect(k).eap = k.eap /\ WpaDisconnect(k).hist = k.hist
          /\ WpaDisconnect(k).pmksa = k.pmksa /\ WpaDisconnect(k).awaiting = k.awaiting
      BY <2>1 DEF WpaDisconnect, ap_sta_disconnect, Fields
    <2>3. [k.sm EXCEPT !.portValid = FALSE] = [g.sm EXCEPT !.keyRun = FALSE,
                 !.portValid = FALSE]
      BY <2>1
    <2> HIDE DEF k, h
    <2> QED
      BY <1>3, <2>1, <2>2, <2>3 DEF h
  <1> QED
    BY <1>1, <1>2, <1>3 DEF wpa_sm_step

\* wpa_sm_step keeps what holds in a run.
LEMMA WpaStepOK ==
    ASSUME NEW g, RunOK(g)
    PROVE  LET h == wpa_sm_step(g)
           IN  /\ RunOK(h) /\ (Rested(g) => Rested(h)) /\ h.eap = g.eap
               /\ h.sm.auth_pae = g.sm.auth_pae /\ h.sm.be_auth = g.sm.be_auth
               /\ h.sm.reauth_timer = g.sm.reauth_timer
               /\ h.sm.reAuthCount = g.sm.reAuthCount
  <1> DEFINE h == wpa_sm_step(g)
             m == g.sm
             i == g.eap_if
  <1>1. Typed(g) /\ DOMAIN g = Fields /\ m \in PortType /\ i \in EapIfType
    BY DEF RunOK, Typed, EapOK, EapTyped
  <1>2. /\ DOMAIN h = Fields
        /\ h.eap = g.eap /\ h.hist = g.hist /\ h.pmksa = g.pmksa
        /\ h.awaiting = g.awaiting
        /\ \/ h = g
           \/ /\ h.sm = [m EXCEPT !.keyRun = FALSE] /\ h.wpa = "PTKSTART"
              /\ h.eap_if = i /\ h.sta = g.sta /\ h.queued = g.queued
           \/ /\ h.sm = [m EXCEPT !.keyRun = FALSE, !.portValid = FALSE]
              /\ h.wpa = "INITIALIZE" /\ h.sta = "removing" /\ h.queued = TRUE
              /\ h.eap_if = [i EXCEPT !.portEnabled = FALSE]
    BY <1>1, WpaStepFields
  <1>3. CASE h = g
    BY <1>3
  <1>4. CASE h # g
    <2> HIDE DEF h
    <2>1. m \in PortType /\ i \in EapIfType
      BY <1>1
    <2>2. /\ [m EXCEPT !.keyRun = FALSE] \in PortType
          /\ [m EXCEPT !.keyRun = FALSE, !.portValid = FALSE] \in PortType
          /\ [i EXCEPT !.portEnabled = FALSE] \in EapIfType
      <3> HIDE DEF m, i
      <3>1. /\ [m EXCEPT !.keyRun = FALSE] \in PortType
            /\ [m EXCEPT !.keyRun = FALSE, !.portValid = FALSE] \in PortType
        BY <2>1 DEF PortType
      <3>2. [i EXCEPT !.portEnabled = FALSE] \in EapIfType
        BY <2>1 DEF EapIfType
      <3> QED
        BY <3>1, <3>2
    <2>3. h.sm \in PortType /\ h.eap_if \in EapIfType
      BY <1>2, <1>4, <2>1, <2>2
    <2>4. /\ h.sm.auth_pae = m.auth_pae /\ h.sm.be_auth = m.be_auth
          /\ h.sm.reauth_timer = m.reauth_timer /\ h.sm.reAuthCount = m.reAuthCount
          /\ h.sm.eapolEap = m.eapolEap
      BY <1>2, <1>4, <2>1 DEF PortType
    <2>5. /\ h.eap_if.portEnabled => i.portEnabled
          /\ h.sta = "assoc" => h.eap_if.portEnabled
      <3> HIDE DEF m
      <3> QED
        BY <1>2, <1>4, <2>1 DEF EapIfType, RunOK, Enabled
    <2>6. EapOK(h)
      BY <1>1, <1>2, <2>3, SameMachine
    <2>7. Typed(h)
      BY <1>1, <1>2, <1>4, <2>3, <2>6 DEF Typed
    <2>8. RunOK(h) /\ (Rested(g) => Rested(h))
      BY <1>2, <2>4, <2>5, <2>7, Carries
    <2> QED
      BY <1>2, <2>4, <2>8 DEF h
  <1> QED
    BY <1>3, <1>4

\* The parts that make up a typed state.
LEMMA TypedFrom ==
    ASSUME NEW g, Typed(g), NEW h, DOMAIN h = Fields, h.eap = g.eap,
           h.sm \in PortType, h.eap_if \in EapIfType, h.hist \in HistType,
           h.wpa = g.wpa, h.sta \in {"none", "assoc", "removing"},
           h.queued = g.queued, h.pmksa \in BOOLEAN, h.awaiting = g.awaiting
    PROVE  Typed(h)
  <1>1. EapOK(h)
    BY SameMachine
  <1> QED
    BY <1>1 DEF Typed

\* The parts of a typed state.
LEMMA PartsOf ==
    ASSUME NEW g, Typed(g)
    PROVE  /\ DOMAIN g = Fields /\ g.sm \in PortType /\ g.eap_if \in EapIfType
           /\ g.hist \in HistType /\ g.sta \in {"none", "assoc", "removing"}
           /\ g.queued \in BOOLEAN /\ g.pmksa \in BOOLEAN /\ g.awaiting \in BOOLEAN
  BY DEF Typed, EapOK, EapTyped

\* The WPA machine is asked for a new authentication.
LEMMA WpaReauthOK ==
    ASSUME NEW g, RunOK(g)
    PROVE  LET h == wpa_reauth(g)
           IN  /\ RunOK(h) /\ (Rested(g) => Rested(h)) /\ h.eap = g.eap
               /\ h.sm.auth_pae = g.sm.auth_pae /\ h.sm.be_auth = g.sm.be_auth
               /\ h.sm.reauth_timer = g.sm.reauth_timer
               /\ h.sm.reAuthCount = g.sm.reAuthCount
  <1> DEFINE k == [g EXCEPT !.wpa = "AUTHENTICATION2"]
  <1>1. Typed(g) /\ DOMAIN g = Fields /\ (g.sta = "assoc" => g.eap_if.portEnabled)
    BY DEF RunOK, Typed, Enabled
  <1>2. /\ DOMAIN k = Fields /\ k.wpa = "AUTHENTICATION2" /\ k.sm = g.sm /\ k.eap = g.eap
        /\ k.eap_if = g.eap_if /\ k.sta = g.sta /\ k.queued = g.queued
        /\ k.pmksa = g.pmksa /\ k.awaiting = g.awaiting /\ k.hist = g.hist
    BY <1>1 DEF Fields
  <1> HIDE DEF k
  <1>3. EapOK(k)
    BY <1>1, <1>2, SameMachine, PartsOf
  <1>4. Typed(k)
    BY <1>1, <1>2, <1>3 DEF Typed
  <1>5. RunOK(k) /\ (Rested(g) => Rested(k))
    BY <1>1, <1>2, <1>4, Carries
  <1>6. CASE conf.wpa
    <2>1. wpa_reauth(g) = wpa_sm_step(k)
      BY <1>6 DEF wpa_reauth, k
    <2> QED
      BY <1>2, <1>5, <2>1, WpaStepOK
  <1>7. CASE ~conf.wpa
    BY <1>7 DEF wpa_reauth
  <1> QED
    BY <1>6, <1>7

\* The state AUTH_PAE goes to while the port is enabled.
LEMMA PaeTarget ==
    ASSUME NEW m \in PortType, NEW i
    PROVE  LET t == PaeInState(m, i)
           IN  /\ t \in {"DISCONNECTED", "RESTART", "CONNECTING", "AUTHENTICATING",
                         "AUTHENTICATED", "ABORTING", "HELD"}
               /\ t = "DISCONNECTED" => m.auth_pae # "DISCONNECTED"
               /\ m.auth_pae = "INITIALIZE" => t = "DISCONNECTED"
               /\ m.auth_pae = "CONNECTING" /\ t # "DISCONNECTED" => m.reAuthCount <= reAuthMax
               /\ t = "CONNECTING" => m.auth_pae \in {"CONNECTING", "RESTART"}
  <1> DEFINE t == PaeInState(m, i)
  <1>1. /\ m.auth_pae \in {"INITIALIZE", "DISCONNECTED", "RESTART", "CONNECTING",
                           "AUTHENTICATING", "AUTHENTICATED", "ABORTING", "HELD"}
        /\ m.reAuthCount \in Nat /\ reAuthMax \in Nat
    BY EapolAssumption DEF PortType
  <1>2. /\ t \in {"DISCONNECTED", "RESTART", "CONNECTING", "AUTHENTICATING",
                  "AUTHENTICATED", "ABORTING", "HELD"}
        /\ t = "DISCONNECTED" => m.auth_pae # "DISCONNECTED"
        /\ m.auth_pae = "INITIALIZE" => t = "DISCONNECTED"
        /\ t = "CONNECTING" => m.auth_pae \in {"CONNECTING", "RESTART"}
    BY <1>1 DEF PaeInState, PaeAuthenticated
  <1>3. m.auth_pae = "CONNECTING" /\ t # "DISCONNECTED" => m.reAuthCount <= reAuthMax
    BY <1>1 DEF PaeInState
  <1> QED
    BY <1>2, <1>3

\* k is g after the body of a state of AUTH_PAE, which has set reAuthCount to c.
PaeBody(g, k, c) ==
    /\ DOMAIN k = Fields /\ k.eap = g.eap /\ k.hist = g.hist /\ k.wpa = g.wpa
    /\ k.sta = g.sta /\ k.queued = g.queued /\ k.awaiting = g.awaiting
    /\ k.pmksa \in BOOLEAN /\ k.sm \in PortType /\ k.eap_if \in EapIfType
    /\ k.sm.reAuthCount = c /\ k.sm.eapolEap = g.sm.eapolEap
    /\ k.eap_if.portEnabled = g.eap_if.portEnabled

\* The bodies of AUTH_PAE.
LEMMA PaeBodies ==
    ASSUME NEW g, Typed(g)
    PROVE  LET c == g.sm.reAuthCount
           IN  /\ PaeBody(g, g, c)
               /\ PaeBody(g, PAE_DISCONNECTED(g), 0)
               /\ PaeBody(g, PAE_RESTART(g), c)
               /\ PaeBody(g, PAE_CONNECTING(g), c + 1)
               /\ PaeBody(g, PAE_HELD(g), c)
               /\ PaeBody(g, PAE_AUTHENTICATED(g), 0)
               /\ PaeBody(g, PAE_AUTHENTICATING(g), c)
               /\ PaeBody(g, PAE_ABORTING(g), c)
  <1> DEFINE m == g.sm
             i == g.eap_if
  <1>0. /\ DOMAIN g = Fields /\ m \in PortType /\ i \in EapIfType /\ g.pmksa \in BOOLEAN
        /\ quietPeriod \in 0 .. quietPeriod
    BY PartsOf, EapolAssumption
  <1>1. PaeBody(g, g, m.reAuthCount)
    BY <1>0 DEF PaeBody
  <1>2. PaeBody(g, PAE_DISCONNECTED(g), 0)
    <2> DEFINE k == PAE_DISCONNECTED(g)
    <2>1. /\ DOMAIN k = Fields /\ k.eap = g.eap /\ k.hist = g.hist /\ k.wpa = g.wpa
          /\ k.sta = g.sta /\ k.queued = g.queued /\ k.awaiting = g.awaiting
          /\ k.pmksa = g.pmksa
          /\ k.sm = [m EXCEPT !.authPortStatus = "Unauthorized", !.reAuthCount = 0,
                    !.eapolLogoff = FALSE]
          /\ k.eap_if = i
      BY <1>0 DEF Fields, PAE_DISCONNECTED
    <2> HIDE DEF k
    <2>2. k.sm \in PortType /\ k.sm.reAuthCount = 0 /\ k.sm.eapolEap = m.eapolEap
      <3> HIDE DEF m
      <3>1. m \in PortType /\ quietPeriod \in 0 .. quietPeriod
        BY <1>0
      <3>2. k.sm \in PortType
        <4>1. m \in PortType /\ quietPeriod \in 0 .. quietPeriod
          BY <3>1
        <4>2. [m EXCEPT !.authPortStatus = "Unauthorized", !.reAuthCount = 0,
                     !.eapolLogoff = FALSE] \in PortType
          BY <4>1 DEF PortType
        <4> QED
          BY <2>1, <4>2, Zenon
      <3> QED
        BY <2>1, <3>1, <3>2 DEF PortType
    <2>3. k.eap_if \in EapIfType /\ k.eap_if.portEnabled = i.portEnabled
      <3> HIDE DEF i
      <3> QED
        BY <1>0, <2>1 DEF EapIfType
    <2>4. k.pmksa \in BOOLEAN
      BY <1>0, <2>1
    <2> QED
      BY <2>1, <2>2, <2>3, <2>4 DEF PaeBody, k
  <1>3. PaeBody(g, PAE_RESTART(g), m.reAuthCount)
    <2> DEFINE k == PAE_RESTART(g)
    <2>1. /\ DOMAIN k = Fields /\ k.eap = g.eap /\ k.hist = g.hist /\ k.wpa = g.wpa
          /\ k.sta = g.sta /\ k.queued = g.queued /\ k.awaiting = g.awaiting
          /\ k.pmksa = g.pmksa
          /\ k.sm = m
          /\ k.eap_if = [i EXCEPT !.eapRestart = TRUE]
      BY <1>0 DEF Fields, PAE_RESTART
    <2> HIDE DEF k
    <2>2. k.sm \in PortType /\ k.sm.reAuthCount = m.reAuthCount /\ k.sm.eapolEap = m.eapolEap
      <3> HIDE DEF m
      <3>1. m \in PortType /\ quietPeriod \in 0 .. quietPeriod
        BY <1>0
      <3>2. k.sm \in PortType
        BY <2>1, <3>1 DEF PortType
      <3> QED
        BY <2>1, <3>1, <3>2 DEF PortType
    <2>3. k.eap_if \in EapIfType /\ k.eap_if.portEnabled = i.portEnabled
      <3> HIDE DEF i
      <3> QED
        BY <1>0, <2>1 DEF EapIfType
    <2>4. k.pmksa \in BOOLEAN
      BY <1>0, <2>1
    <2> QED
      BY <2>1, <2>2, <2>3, <2>4 DEF PaeBody, k
  <1>4. PaeBody(g, PAE_CONNECTING(g), m.reAuthCount + 1)
    <2> DEFINE k == PAE_CONNECTING(g)
    <2>1. /\ DOMAIN k = Fields /\ k.eap = g.eap /\ k.hist = g.hist /\ k.wpa = g.wpa
          /\ k.sta = g.sta /\ k.queued = g.queued /\ k.awaiting = g.awaiting
          /\ k.pmksa = g.pmksa
          /\ k.sm = [m EXCEPT !.reAuthenticate = FALSE, !.reAuthCount = @ + 1]
          /\ k.eap_if = i
      BY <1>0 DEF Fields, PAE_CONNECTING
    <2> HIDE DEF k
    <2>2. k.sm \in PortType /\ k.sm.reAuthCount = m.reAuthCount + 1 /\ k.sm.eapolEap = m.eapolEap
      <3> HIDE DEF m
      <3>1. m \in PortType /\ quietPeriod \in 0 .. quietPeriod
        BY <1>0
      <3>2. k.sm \in PortType
        <4>1. m \in PortType /\ quietPeriod \in 0 .. quietPeriod
          BY <3>1
        <4>2. [m EXCEPT !.reAuthenticate = FALSE, !.reAuthCount = @ + 1] \in PortType
          <5>1. ASSUME NEW c \in Nat
                PROVE  [m EXCEPT !.reAuthenticate = FALSE, !.reAuthCount = c] \in PortType
            BY <4>1 DEF PortType
          <5>2. m.reAuthCount + 1 \in Nat
            BY <4>1 DEF PortType
          <5> QED
            BY <5>1, <5>2, Zenon
        <4> QED
          BY <2>1, <4>2, Zenon
      <3> QED
        BY <2>1, <3>1, <3>2 DEF PortType
    <2>3. k.eap_if \in EapIfType /\ k.eap_if.portEnabled = i.portEnabled
      <3> HIDE DEF i
      <3> QED
        BY <1>0, <2>1 DEF EapIfType
    <2>4. k.pmksa \in BOOLEAN
      BY <1>0, <2>1
    <2> QED
      BY <2>1, <2>2, <2>3, <2>4 DEF PaeBody, k
  <1>5. PaeBody(g, PAE_HELD(g), m.reAuthCount)
    <2> DEFINE k == PAE_HELD(g)
    <2>1. /\ DOMAIN k = Fields /\ k.eap = g.eap /\ k.hist = g.hist /\ k.wpa = g.wpa
          /\ k.sta = g.sta /\ k.queued = g.queued /\ k.awaiting = g.awaiting
          /\ k.pmksa = g.pmksa
          /\ k.sm = [m EXCEPT !.authPortStatus = "Unauthorized", !.quietWhile = quietPeriod,
                           !.eapolLogoff = FALSE]
          /\ k.eap_if = i
      BY <1>0 DEF Fields, PAE_HELD
    <2> HIDE DEF k
    <2>2. k.sm \in PortType /\ k.sm.reAuthCount = m.reAuthCount /\ k.sm.eapolEap = m.eapolEap
      <3> HIDE DEF m
      <3>1. m \in PortType /\ quietPeriod \in 0 .. quietPeriod
        BY <1>0
      <3>2. k.sm \in PortType
        <4>1. m \in PortType /\ quietPeriod \in 0 .. quietPeriod
          BY <3>1
        <4>2. [m EXCEPT !.authPortStatus = "Unauthorized", !.quietWhile = quietPeriod,
                         !.eapolLogoff = FALSE] \in PortType
          BY <4>1 DEF PortType
        <4> QED
          BY <2>1, <4>2, Zenon
      <3> QED
        BY <2>1, <3>1, <3>2 DEF PortType
    <2>3. k.eap_if \in EapIfType /\ k.eap_if.portEnabled = i.portEnabled
      <3> HIDE DEF i
      <3> QED
        BY <1>0, <2>1 DEF EapIfType
    <2>4. k.pmksa \in BOOLEAN
      BY <1>0, <2>1
    <2> QED
      BY <2>1, <2>2, <2>3, <2>4 DEF PaeBody, k
  <1>6. PaeBody(g, PAE_AUTHENTICATED(g), 0)
    <2> DEFINE k == PAE_AUTHENTICATED(g)
    <2>1. /\ DOMAIN k = Fields /\ k.eap = g.eap /\ k.hist = g.hist /\ k.wpa = g.wpa
          /\ k.sta = g.sta /\ k.queued = g.queued /\ k.awaiting = g.awaiting
          /\ k.pmksa = (g.pmksa \/ (conf.wpa /\ i.eapKeyData))
          /\ k.sm = [m EXCEPT !.authPortStatus = "Authorized", !.reAuthCount = 0]
          /\ k.eap_if = i
      BY <1>0 DEF Fields, PAE_AUTHENTICATED
    <2> HIDE DEF k
    <2>2. k.sm \in PortType /\ k.sm.reAuthCount = 0 /\ k.sm.eapolEap = m.eapolEap
      <3> HIDE DEF m
      <3>1. m \in PortType /\ quietPeriod \in 0 .. quietPeriod
        BY <1>0
      <3>2. k.sm \in PortType
        <4>1. m \in PortType /\ quietPeriod \in 0 .. quietPeriod
          BY <3>1
        <4>2. [m EXCEPT !.authPortStatus = "Authorized", !.reAuthCount = 0] \in PortType
          BY <4>1 DEF PortType
        <4> QED
          BY <2>1, <4>2, Zenon
      <3> QED
        BY <2>1, <3>1, <3>2 DEF PortType
    <2>3. k.eap_if \in EapIfType /\ k.eap_if.portEnabled = i.portEnabled
      <3> HIDE DEF i
      <3> QED
        BY <1>0, <2>1 DEF EapIfType
    <2>4. k.pmksa \in BOOLEAN
      BY <1>0, <2>1
    <2> QED
      BY <2>1, <2>2, <2>3, <2>4 DEF PaeBody, k
  <1>7. PaeBody(g, PAE_AUTHENTICATING(g), m.reAuthCount)
    <2> DEFINE k == PAE_AUTHENTICATING(g)
    <2>1. /\ DOMAIN k = Fields /\ k.eap = g.eap /\ k.hist = g.hist /\ k.wpa = g.wpa
          /\ k.sta = g.sta /\ k.queued = g.queued /\ k.awaiting = g.awaiting
          /\ k.pmksa = g.pmksa
          /\ k.sm = [m EXCEPT !.eapolStart = FALSE, !.authSuccess = FALSE, !.authFail = FALSE,
                           !.authTimeout = FALSE, !.authStart = TRUE, !.keyRun = FALSE,
                           !.keyDone = FALSE]
          /\ k.eap_if = i
      BY <1>0 DEF Fields, PAE_AUTHENTICATING
    <2> HIDE DEF k
    <2>2. k.sm \in PortType /\ k.sm.reAuthCount = m.reAuthCount /\ k.sm.eapolEap = m.eapolEap
      <3> HIDE DEF m
      <3>1. m \in PortType /\ quietPeriod \in 0 .. quietPeriod
        BY <1>0
      <3>2. k.sm \in PortType
        <4>1. m \in PortType /\ quietPeriod \in 0 .. quietPeriod
          BY <3>1
        <4>2. [m EXCEPT !.eapolStart = FALSE, !.authSuccess = FALSE, !.authFail = FALSE,
                         !.authTimeout = FALSE, !.authStart = TRUE, !.keyRun = FALSE,
                         !.keyDone = FALSE] \in PortType
          BY <4>1 DEF PortType
        <4> QED
          BY <2>1, <4>2, Zenon
      <3> QED
        BY <2>1, <3>1, <3>2 DEF PortType
    <2>3. k.eap_if \in EapIfType /\ k.eap_if.portEnabled = i.portEnabled
      <3> HIDE DEF i
      <3> QED
        BY <1>0, <2>1 DEF EapIfType
    <2>4. k.pmksa \in BOOLEAN
      BY <1>0, <2>1
    <2> QED
      BY <2>1, <2>2, <2>3, <2>4 DEF PaeBody, k
  <1>8. PaeBody(g, PAE_ABORTING(g), m.reAuthCount)
    <2> DEFINE k == PAE_ABORTING(g)
    <2>1. /\ DOMAIN k = Fields /\ k.eap = g.eap /\ k.hist = g.hist /\ k.wpa = g.wpa
          /\ k.sta = g.sta /\ k.queued = g.queued /\ k.awaiting = g.awaiting
          /\ k.pmksa = g.pmksa
          /\ k.sm = [m EXCEPT !.authAbort = TRUE, !.keyRun = FALSE, !.keyDone = FALSE]
          /\ k.eap_if = i
      BY <1>0 DEF Fields, PAE_ABORTING
    <2> HIDE DEF k
    <2>2. k.sm \in PortType /\ k.sm.reAuthCount = m.reAuthCount /\ k.sm.eapolEap = m.eapolEap
      <3> HIDE DEF m
      <3>1. m \in PortType /\ quietPeriod \in 0 .. quietPeriod
        BY <1>0
      <3>2. k.sm \in PortType
        <4>1. m \in PortType /\ quietPeriod \in 0 .. quietPeriod
          BY <3>1
        <4>2. [m EXCEPT !.authAbort = TRUE, !.keyRun = FALSE, !.keyDone = FALSE] \in PortType
          BY <4>1 DEF PortType
        <4> QED
          BY <2>1, <4>2, Zenon
      <3> QED
        BY <2>1, <3>1, <3>2 DEF PortType
    <2>3. k.eap_if \in EapIfType /\ k.eap_if.portEnabled = i.portEnabled
      <3> HIDE DEF i
      <3> QED
        BY <1>0, <2>1 DEF EapIfType
    <2>4. k.pmksa \in BOOLEAN
      BY <1>0, <2>1
    <2> QED
      BY <2>1, <2>2, <2>3, <2>4 DEF PaeBody, k
  <1> QED
    BY <1>1, <1>2, <1>3, <1>4, <1>5, <1>6, <1>7, <1>8

\* A step of AUTH_PAE.  A state that is not left has not given up.
LEMMA PaeOK ==
    ASSUME NEW g, RunOK(g)
    PROVE  LET h == AUTH_PAE(g)
           IN  /\ RunOK(h) /\ h.eap = g.eap
               /\ h.sm.auth_pae = g.sm.auth_pae => Rested(h)
  <1> DEFINE m == g.sm
             i == g.eap_if
             a == m.auth_pae
             c == m.reAuthCount
             t == IF i.portEnabled THEN PaeInState(m, i) ELSE "INITIALIZE"
             l == g.hist.left \/ (a = "AUTHENTICATING" /\ t # "AUTHENTICATING")
  <1>1. /\ Typed(g) /\ DOMAIN g = Fields /\ m \in PortType /\ i \in EapIfType
        /\ g.hist \in HistType /\ g.sta \in {"none", "assoc", "removing"}
    BY PartsOf DEF RunOK
  <1>2. /\ a \in {"INITIALIZE", "DISCONNECTED", "RESTART", "CONNECTING", "AUTHENTICATING",
                  "AUTHENTICATED", "ABORTING", "HELD"}
        /\ c \in Nat /\ reAuthMax \in Nat
    BY <1>1, EapolAssumption DEF PortType
  <1>3. /\ t \in {"INITIALIZE", "DISCONNECTED", "RESTART", "CONNECTING", "AUTHENTICATING",
                  "AUTHENTICATED", "ABORTING", "HELD"}
        /\ t = "INITIALIZE" <=> ~i.portEnabled
        /\ t = "DISCONNECTED" => a # "DISCONNECTED"
        /\ a = "INITIALIZE" => t \in {"INITIALIZE", "DISCONNECTED"}
        /\ a = "CONNECTING" /\ t \notin {"INITIALIZE", "DISCONNECTED"} => c <= reAuthMax
        /\ t = "CONNECTING" => a \in {"CONNECTING", "RESTART"}
    BY <1>1, PaeTarget
  <1>4. PICK k, d :
          /\ AUTH_PAE(g) = [k EXCEPT !.sm.auth_pae = t, !.hist.left = @ \/ (a = "AUTHENTICATING"
                                                                  /\ t # "AUTHENTICATING")]
          /\ PaeBody(g, k, d)
          /\ t \in {a, "INITIALIZE"} => d = c
          /\ t \in {"DISCONNECTED", "AUTHENTICATED"} => t = a \/ d = 0
          /\ t \in {"RESTART", "AUTHENTICATING", "ABORTING", "HELD"} => d = c
          /\ t = "CONNECTING" => t = a \/ d = c + 1
    <2> DEFINE E == CASE t = a \/ t = "INITIALIZE" -> g
                      [] t # a /\ t = "DISCONNECTED" -> PAE_DISCONNECTED(g)
                      [] t # a /\ t = "RESTART" -> PAE_RESTART(g)
                      [] t # a /\ t = "CONNECTING" -> PAE_CONNECTING(g)
                      [] t # a /\ t = "HELD" -> PAE_HELD(g)
                      [] t # a /\ t = "AUTHENTICATED" -> PAE_AUTHENTICATED(g)
                      [] t # a /\ t = "AUTHENTICATING" -> PAE_AUTHENTICATING(g)
                      [] t # a /\ t = "ABORTING" -> PAE_ABORTING(g)
    <2>1. AUTH_PAE(g) = [E EXCEPT !.sm.auth_pae = t,
                                  !.hist.left = @ \/ (a = "AUTHENTICATING"
                                                        /\ t # "AUTHENTICATING")]
      BY DEF AUTH_PAE
    <2> HIDE DEF t, a
    <2>2. \/ E = g /\ t \in {a, "INITIALIZE"}
          \/ E = PAE_DISCONNECTED(g) /\ t # a /\ t = "DISCONNECTED"
          \/ E = PAE_RESTART(g) /\ t # a /\ t = "RESTART"
          \/ E = PAE_CONNECTING(g) /\ t # a /\ t = "CONNECTING"
          \/ E = PAE_HELD(g) /\ t # a /\ t = "HELD"
          \/ E = PAE_AUTHENTICATED(g) /\ t # a /\ t = "AUTHENTICATED"
          \/ E = PAE_AUTHENTICATING(g) /\ t # a /\ t = "AUTHENTICATING"
          \/ E = PAE_ABORTING(g) /\ t # a /\ t = "ABORTING"
      BY <1>3
    <2> HIDE DEF E
    <2>3. /\ PaeBody(g, g, c) /\ PaeBody(g, PAE_DISCONNECTED(g), 0)
          /\ PaeBody(g, PAE_RESTART(g), c) /\ PaeBody(g, PAE_CONNECTING(g), c + 1)
          /\ PaeBody(g, PAE_HELD(g), c) /\ PaeBody(g, PAE_AUTHENTICATED(g), 0)
          /\ PaeBody(g, PAE_AUTHENTICATING(g), c) /\ PaeBody(g, PAE_ABORTING(g), c)
      BY <1>1, PaeBodies
    <2>4. \E d : /\ PaeBody(g, E, d)
                 /\ t \in {a, "INITIALIZE"} => d = c
                 /\ t \in {"DISCONNECTED", "AUTHENTICATED"} => t = a \/ d = 0
                 /\ t \in {"RESTART", "AUTHENTICATING", "ABORTING", "HELD"} => d = c
                 /\ t = "CONNECTING" => t = a \/ d = c + 1
      <3> HIDE DEF c
      <3> QED
        BY <2>2, <2>3
    <2> QED
      BY <2>1, <2>4
  <1> DEFINE h == AUTH_PAE(g)
             n == k.sm
  <1>5. /\ DOMAIN k = Fields /\ k.eap = g.eap /\ k.hist = g.hist /\ k.wpa = g.wpa
        /\ k.sta = g.sta /\ k.queued = g.queued /\ k.awaiting = g.awaiting
        /\ k.pmksa \in BOOLEAN /\ n \in PortType /\ k.eap_if \in EapIfType
        /\ n.reAuthCount = d /\ n.eapolEap = m.eapolEap
        /\ k.eap_if.portEnabled = i.portEnabled
    BY <1>4 DEF PaeBody
  <1> HIDE DEF t, a, c
  <1>6. /\ DOMAIN h = Fields /\ h.eap = g.eap /\ h.wpa = g.wpa
        /\ h.sta = g.sta /\ h.queued = g.queued /\ h.awaiting = g.awaiting
        /\ h.pmksa = k.pmksa /\ h.eap_if = k.eap_if
        /\ h.sm = [n EXCEPT !.auth_pae = t] /\ h.hist = [g.hist EXCEPT !.left = l]
    BY <1>1, <1>4, <1>5 DEF Fields, HistType
  <1>7. h.sm \in PortType /\ h.sm.auth_pae = t /\ h.sm.reAuthCount = d
        /\ h.sm.eapolEap = m.eapolEap
    <2> HIDE DEF n, h
    <2>1. n \in PortType
      BY <1>5
    <2>2. [n EXCEPT !.auth_pae = t] \in PortType
      BY <1>3, <2>1 DEF PortType
    <2>3. h.sm \in PortType
      BY <1>6, <2>2, Zenon
    <2>4. h.sm.auth_pae = t /\ h.sm.reAuthCount = n.reAuthCount /\ h.sm.eapolEap = n.eapolEap
      BY <1>6, <2>1 DEF PortType
    <2> QED
      BY <1>5, <2>3, <2>4
  <1>8. /\ h.hist \in HistType /\ h.hist.stale = g.hist.stale /\ h.hist.fresh = g.hist.fresh
        /\ h.hist.cut = g.hist.cut
    <2>1. l \in BOOLEAN
      BY <1>1 DEF HistType
    <2> HIDE DEF l, h
    <2> QED
      BY <1>1, <1>6, <2>1 DEF HistType
  <1> HIDE DEF h, n
  <1>9. Typed(h)
    BY <1>1, <1>5, <1>6, <1>7, <1>8, TypedFrom
  <1>10. Fresh(h) /\ Enabled(h)
    BY <1>5, <1>6, <1>7, <1>8 DEF RunOK, Fresh, Enabled
  <1>11. CASE g.hist.cut
    BY <1>6, <1>8, <1>9, <1>10, <1>11 DEF RunOK, Counted, Rested, h
  <1>12. CASE ~g.hist.cut
    <2>1. /\ c <= reAuthMax + 1
          /\ a = "INITIALIZE" => c <= reAuthMax \/ ~i.portEnabled
          /\ a \notin {"CONNECTING", "INITIALIZE"} => c <= reAuthMax
      BY <1>12 DEF RunOK, Counted, c, a
    <2>2. d <= reAuthMax + 1
      <3>1. t \in {a, "INITIALIZE"} \/ t \in {"RESTART", "AUTHENTICATING", "ABORTING", "HELD"}
               => d = c
        BY <1>4
      <3> QED
        BY <1>2, <1>3, <1>4, <2>1, <3>1
    <2>3. t \notin {"CONNECTING", "INITIALIZE"} => d <= reAuthMax
      BY <1>2, <1>3, <1>4, <2>1
    <2>4. t = a /\ t = "CONNECTING" => d <= reAuthMax
      BY <1>3, <1>4
    <2>5. Counted(h)
      BY <1>3, <1>5, <1>6, <1>7, <2>2, <2>3 DEF Counted
    <2>6. h.sm.auth_pae = a => Rested(h)
      BY <1>7, <2>4 DEF Rested
    <2> QED
      BY <1>6, <1>9, <1>10, <2>5, <2>6 DEF RunOK, h, a
  <1> QED
    BY <1>11, <1>12

\* k is g after the body of a state of BE_AUTH.
BeBody(g, k) ==
    /\ DOMAIN k = Fields /\ k.eap = g.eap /\ k.wpa = g.wpa /\ k.queued = g.queued
    /\ k.pmksa = g.pmksa /\ k.awaiting = g.awaiting
    /\ k.sm \in PortType /\ k.eap_if \in EapIfType /\ k.hist \in HistType
    /\ k.sm.auth_pae = g.sm.auth_pae /\ k.sm.reauth_timer = g.sm.reauth_timer
    /\ k.sm.reAuthCount = g.sm.reAuthCount
    /\ \/ k.sta = g.sta /\ k.eap_if.portEnabled = g.eap_if.portEnabled
       \/ k.sta = "removing" /\ k.eap_if.portEnabled = FALSE
    /\ k.hist.cut = g.hist.cut /\ k.hist.stale = FALSE
    /\ k.sm.eapolEap => k.hist.fresh

\* The bodies of BE_AUTH: a request makes the response at hand an old one and
\* forgets that there is one, a response is handed on where there is one.
LEMMA BeBodies ==
    ASSUME NEW g, Typed(g), Fresh(g)
    PROVE  /\ BeBody(g, g) /\ BeBody(g, BE_INITIALIZE(g))
           /\ BeBody(g, BE_REQUEST(g)) /\ (g.sm.eapolEap => BeBody(g, BE_RESPONSE(g)))
           /\ BeBody(g, BE_SUCCESS(g)) /\ BeBody(g, BE_FAIL(g)) /\ BeBody(g, BE_TIMEOUT(g))
           /\ BeBody(g, BE_IDLE(g)) /\ BeBody(g, BE_IGNORE(g))
  <1> DEFINE m == g.sm
             i == g.eap_if
             w == g.hist
  <1>0. /\ DOMAIN g = Fields /\ m \in PortType /\ i \in EapIfType /\ w \in HistType
        /\ w.stale = FALSE /\ (m.eapolEap => w.fresh)
    <2>1. w.stale \in BOOLEAN
      BY PartsOf DEF HistType
    <2> QED
      BY <2>1, PartsOf DEF Fresh
  <1>1. serverTimeout \in 0 .. serverTimeout
    BY EapolAssumption
  <1>2. BeBody(g, g)
    BY <1>0 DEF BeBody
  <1>3. BeBody(g, BE_INITIALIZE(g))
    <2> DEFINE k == BE_INITIALIZE(g)
               b == [g EXCEPT !.eap_if.eapNoReq = FALSE, !.sm.authAbort = FALSE]
    <2>1. /\ DOMAIN b = Fields /\ b.sm = [m EXCEPT !.authAbort = FALSE]
          /\ b.eap_if = [i EXCEPT !.eapNoReq = FALSE] /\ b.hist = w
          /\ b.eap = g.eap /\ b.wpa = g.wpa /\ b.queued = g.queued
          /\ b.pmksa = g.pmksa /\ b.awaiting = g.awaiting /\ b.sta = g.sta
      BY <1>0 DEF Fields
    <2>2. k = b \/ k = [[b EXCEPT !.eap_if.portEnabled = FALSE] EXCEPT !.sta = "removing"]
      BY DEF BE_INITIALIZE, ap_sta_disconnect
    <2> HIDE DEF k, b
    <2>3. /\ DOMAIN k = Fields /\ k.sm = [m EXCEPT !.authAbort = FALSE]
          /\ k.hist = w
          /\ k.eap = g.eap /\ k.wpa = g.wpa /\ k.queued = g.queued
          /\ k.pmksa = g.pmksa /\ k.awaiting = g.awaiting
          /\ \/ k.sta = g.sta /\ k.eap_if = [i EXCEPT !.eapNoReq = FALSE]
             \/ /\ k.sta = "removing"
                /\ k.eap_if = [[i EXCEPT !.eapNoReq = FALSE] EXCEPT !.portEnabled = FALSE]
      <3>1. CASE k = b
        BY <2>1, <3>1
      <3>2. CASE k = [[b EXCEPT !.eap_if.portEnabled = FALSE] EXCEPT !.sta = "removing"]
        BY <2>1, <3>2 DEF Fields
      <3> QED
        BY <2>2, <3>1, <3>2
    <2>4. /\ k.sm \in PortType /\ k.sm.auth_pae = m.auth_pae
          /\ k.sm.reauth_timer = m.reauth_timer /\ k.sm.reAuthCount = m.reAuthCount
          /\ k.sm.eapolEap = m.eapolEap
      <3> HIDE DEF m
      <3>1. m \in PortType
        BY <1>0
      <3>2. [m EXCEPT !.authAbort = FALSE] \in PortType
        BY <3>1 DEF PortType
      <3>3. k.sm \in PortType
        BY <2>3, <3>2, Zenon
      <3> QED
        BY <2>3, <3>1, <3>3 DEF PortType
    <2>5. /\ k.eap_if \in EapIfType
          /\ \/ k.sta = g.sta /\ k.eap_if.portEnabled = i.portEnabled
             \/ k.sta = "removing" /\ k.eap_if.portEnabled = FALSE
      <3> HIDE DEF i
      <3>1. i \in EapIfType
        BY <1>0
      <3>2. /\ [i EXCEPT !.eapNoReq = FALSE] \in EapIfType
            /\ [[i EXCEPT !.eapNoReq = FALSE] EXCEPT !.portEnabled = FALSE] \in EapIfType
            /\ [i EXCEPT !.eapNoReq = FALSE].portEnabled = i.portEnabled
            /\ [[i EXCEPT !.eapNoReq = FALSE] EXCEPT !.portEnabled = FALSE].portEnabled = FALSE
        BY <3>1 DEF EapIfType
      <3> QED
        BY <2>3, <3>2, Zenon
    <2> QED
      BY <1>0, <2>3, <2>4, <2>5 DEF BeBody, k
  <1>4. BeBody(g, BE_REQUEST(g))
    <2> DEFINE k == BE_REQUEST(g)
    <2>1. /\ DOMAIN k = Fields /\ k.eap = g.eap /\ k.wpa = g.wpa /\ k.queued = g.queued
          /\ k.pmksa = g.pmksa /\ k.awaiting = g.awaiting /\ k.sta = g.sta
          /\ k.sm = [m EXCEPT !.eapolEap = FALSE]
          /\ k.eap_if = [i EXCEPT !.eapReq = FALSE]
          /\ k.hist = [w EXCEPT !.fresh = FALSE]
      BY <1>0 DEF Fields, BE_REQUEST
    <2> HIDE DEF k
    <2>2. /\ k.sm \in PortType /\ k.sm.auth_pae = m.auth_pae
          /\ k.sm.reauth_timer = m.reauth_timer /\ k.sm.reAuthCount = m.reAuthCount
          /\ k.sm.eapolEap = FALSE
      <3> HIDE DEF m
      <3>1. m \in PortType /\ serverTimeout \in 0 .. serverTimeout
        BY <1>0, <1>1
      <3>2. [m EXCEPT !.eapolEap = FALSE] \in PortType
        BY <3>1 DEF PortType
      <3>3. k.sm \in PortType
        BY <2>1, <3>2, Zenon
      <3> QED
        BY <2>1, <3>1, <3>3 DEF PortType
    <2>3. k.eap_if \in EapIfType /\ k.eap_if.portEnabled = i.portEnabled
      <3> HIDE DEF i
      <3> QED
        BY <1>0, <2>1 DEF EapIfType
    <2>4. /\ k.hist \in HistType /\ k.hist.cut = w.cut /\ k.hist.stale = FALSE
      <3> HIDE DEF w
      <3> QED
        BY <1>0, <2>1 DEF HistType
    <2> QED
      BY <1>0, <2>1, <2>2, <2>3, <2>4 DEF BeBody, k
  <1>5. m.eapolEap => BeBody(g, BE_RESPONSE(g))
    <2> DEFINE k == BE_RESPONSE(g)
    <2>1. /\ DOMAIN k = Fields /\ k.eap = g.eap /\ k.wpa = g.wpa /\ k.queued = g.queued
          /\ k.pmksa = g.pmksa /\ k.awaiting = g.awaiting /\ k.sta = g.sta
          /\ k.sm = [m EXCEPT !.authTimeout = FALSE, !.eapolEap = FALSE,
                    !.aWhile = serverTimeout]
          /\ k.eap_if = [i EXCEPT !.eapNoReq = FALSE, !.eapResp = TRUE]
          /\ k.hist = [w EXCEPT !.stale = w.stale \/ ~w.fresh]
      BY <1>0 DEF Fields, BE_RESPONSE
    <2> HIDE DEF k
    <2>2. /\ k.sm \in PortType /\ k.sm.auth_pae = m.auth_pae
          /\ k.sm.reauth_timer = m.reauth_timer /\ k.sm.reAuthCount = m.reAuthCount
          /\ k.sm.eapolEap = FALSE
      <3> HIDE DEF m
      <3>1. m \in PortType /\ serverTimeout \in 0 .. serverTimeout
        BY <1>0, <1>1
      <3>2. [m EXCEPT !.authTimeout = FALSE, !.eapolEap = FALSE,
                   !.aWhile = serverTimeout] \in PortType
        BY <3>1 DEF PortType
      <3>3. k.sm \in PortType
        BY <2>1, <3>2, Zenon
      <3> QED
        BY <2>1, <3>1, <3>3 DEF PortType
    <2>3. k.eap_if \in EapIfType /\ k.eap_if.portEnabled = i.portEnabled
      <3> HIDE DEF i
      <3> QED
        BY <1>0, <2>1 DEF EapIfType
    <2>4. m.eapolEap => /\ k.hist \in HistType /\ k.hist.cut = w.cut /\ k.hist.stale = FALSE
                     <3> HIDE DEF w
      <3> QED
        BY <1>0, <2>1 DEF HistType
    <2> QED
      BY <1>0, <2>1, <2>2, <2>3, <2>4 DEF BeBody, k
  <1>6. BeBody(g, BE_SUCCESS(g))
    <2> DEFINE k == BE_SUCCESS(g)
    <2>1. /\ DOMAIN k = Fields /\ k.eap = g.eap /\ k.wpa = g.wpa /\ k.queued = g.queued
          /\ k.pmksa = g.pmksa /\ k.awaiting = g.awaiting /\ k.sta = g.sta
          /\ k.sm = [m EXCEPT !.authSuccess = TRUE, !.keyRun = TRUE]
          /\ k.eap_if = i
          /\ k.hist = w
      BY <1>0 DEF Fields, BE_SUCCESS
    <2> HIDE DEF k
    <2>2. /\ k.sm \in PortType /\ k.sm.auth_pae = m.auth_pae
          /\ k.sm.reauth_timer = m.reauth_timer /\ k.sm.reAuthCount = m.reAuthCount
          /\ k.sm.eapolEap = m.eapolEap
      <3> HIDE DEF m
      <3>1. m \in PortType /\ serverTimeout \in 0 .. serverTimeout
        BY <1>0, <1>1
      <3>2. [m EXCEPT !.authSuccess = TRUE, !.keyRun = TRUE] \in PortType
        BY <3>1 DEF PortType
      <3>3. k.sm \in PortType
        BY <2>1, <3>2, Zenon
      <3> QED
        BY <2>1, <3>1, <3>3 DEF PortType
    <2>3. k.eap_if \in EapIfType /\ k.eap_if.portEnabled = i.portEnabled
      <3> HIDE DEF i
      <3> QED
        BY <1>0, <2>1 DEF EapIfType
    <2>4. /\ k.hist \in HistType /\ k.hist.cut = w.cut /\ k.hist.stale = FALSE
          /\ k.hist.fresh = w.fresh
      <3> HIDE DEF w
      <3> QED
        BY <1>0, <2>1 DEF HistType
    <2> QED
      BY <1>0, <2>1, <2>2, <2>3, <2>4 DEF BeBody, k
  <1>7. BeBody(g, BE_FAIL(g))
    <2> DEFINE k == BE_FAIL(g)
    <2>1. /\ DOMAIN k = Fields /\ k.eap = g.eap /\ k.wpa = g.wpa /\ k.queued = g.queued
          /\ k.pmksa = g.pmksa /\ k.awaiting = g.awaiting /\ k.sta = g.sta
          /\ k.sm = [m EXCEPT !.authFail = TRUE]
          /\ k.eap_if = i
          /\ k.hist = w
      BY <1>0 DEF Fields, BE_FAIL
    <2> HIDE DEF k
    <2>2. /\ k.sm \in PortType /\ k.sm.auth_pae = m.auth_pae
          /\ k.sm.reauth_timer = m.reauth_timer /\ k.sm.reAuthCount = m.reAuthCount
          /\ k.sm.eapolEap = m.eapolEap
      <3> HIDE DEF m
      <3>1. m \in PortType /\ serverTimeout \in 0 .. serverTimeout
        BY <1>0, <1>1
      <3>2. [m EXCEPT !.authFail = TRUE] \in PortType
        BY <3>1 DEF PortType
      <3>3. k.sm \in PortType
        BY <2>1, <3>2, Zenon
      <3> QED
        BY <2>1, <3>1, <3>3 DEF PortType
    <2>3. k.eap_if \in EapIfType /\ k.eap_if.portEnabled = i.portEnabled
      <3> HIDE DEF i
      <3> QED
        BY <1>0, <2>1 DEF EapIfType
    <2>4. /\ k.hist \in HistType /\ k.hist.cut = w.cut /\ k.hist.stale = FALSE
          /\ k.hist.fresh = w.fresh
      <3> HIDE DEF w
      <3> QED
        BY <1>0, <2>1 DEF HistType
    <2> QED
      BY <1>0, <2>1, <2>2, <2>3, <2>4 DEF BeBody, k
  <1>8. BeBody(g, BE_TIMEOUT(g))
    <2> DEFINE k == BE_TIMEOUT(g)
    <2>1. /\ DOMAIN k = Fields /\ k.eap = g.eap /\ k.wpa = g.wpa /\ k.queued = g.queued
          /\ k.pmksa = g.pmksa /\ k.awaiting = g.awaiting /\ k.sta = g.sta
          /\ k.sm = [m EXCEPT !.authTimeout = TRUE]
          /\ k.eap_if = i
          /\ k.hist = w
      BY <1>0 DEF Fields, BE_TIMEOUT
    <2> HIDE DEF k
    <2>2. /\ k.sm \in PortType /\ k.sm.auth_pae = m.auth_pae
          /\ k.sm.reauth_timer = m.reauth_timer /\ k.sm.reAuthCount = m.reAuthCount
          /\ k.sm.eapolEap = m.eapolEap
      <3> HIDE DEF m
      <3>1. m \in PortType /\ serverTimeout \in 0 .. serverTimeout
        BY <1>0, <1>1
      <3>2. [m EXCEPT !.authTimeout = TRUE] \in PortType
        BY <3>1 DEF PortType
      <3>3. k.sm \in PortType
        BY <2>1, <3>2, Zenon
      <3> QED
        BY <2>1, <3>1, <3>3 DEF PortType
    <2>3. k.eap_if \in EapIfType /\ k.eap_if.portEnabled = i.portEnabled
      <3> HIDE DEF i
      <3> QED
        BY <1>0, <2>1 DEF EapIfType
    <2>4. /\ k.hist \in HistType /\ k.hist.cut = w.cut /\ k.hist.stale = FALSE
          /\ k.hist.fresh = w.fresh
      <3> HIDE DEF w
      <3> QED
        BY <1>0, <2>1 DEF HistType
    <2> QED
      BY <1>0, <2>1, <2>2, <2>3, <2>4 DEF BeBody, k
  <1>9. BeBody(g, BE_IDLE(g))
    <2> DEFINE k == BE_IDLE(g)
    <2>1. /\ DOMAIN k = Fields /\ k.eap = g.eap /\ k.wpa = g.wpa /\ k.queued = g.queued
          /\ k.pmksa = g.pmksa /\ k.awaiting = g.awaiting /\ k.sta = g.sta
          /\ k.sm = [m EXCEPT !.authStart = FALSE]
          /\ k.eap_if = i
          /\ k.hist = w
      BY <1>0 DEF Fields, BE_IDLE
    <2> HIDE DEF k
    <2>2. /\ k.sm \in PortType /\ k.sm.auth_pae = m.auth_pae
          /\ k.sm.reauth_timer = m.reauth_timer /\ k.sm.reAuthCount = m.reAuthCount
          /\ k.sm.eapolEap = m.eapolEap
      <3> HIDE DEF m
      <3>1. m \in PortType /\ serverTimeout \in 0 .. serverTimeout
        BY <1>0, <1>1
      <3>2. [m EXCEPT !.authStart = FALSE] \in PortType
        BY <3>1 DEF PortType
      <3>3. k.sm \in PortType
        BY <2>1, <3>2, Zenon
      <3> QED
        BY <2>1, <3>1, <3>3 DEF PortType
    <2>3. k.eap_if \in EapIfType /\ k.eap_if.portEnabled = i.portEnabled
      <3> HIDE DEF i
      <3> QED
        BY <1>0, <2>1 DEF EapIfType
    <2>4. /\ k.hist \in HistType /\ k.hist.cut = w.cut /\ k.hist.stale = FALSE
          /\ k.hist.fresh = w.fresh
      <3> HIDE DEF w
      <3> QED
        BY <1>0, <2>1 DEF HistType
    <2> QED
      BY <1>0, <2>1, <2>2, <2>3, <2>4 DEF BeBody, k
  <1>10. BeBody(g, BE_IGNORE(g))
    <2> DEFINE k == BE_IGNORE(g)
    <2>1. /\ DOMAIN k = Fields /\ k.eap = g.eap /\ k.wpa = g.wpa /\ k.queued = g.queued
          /\ k.pmksa = g.pmksa /\ k.awaiting = g.awaiting /\ k.sta = g.sta
          /\ k.sm = m
          /\ k.eap_if = [i EXCEPT !.eapNoReq = FALSE]
          /\ k.hist = w
      BY <1>0 DEF Fields, BE_IGNORE
    <2> HIDE DEF k
    <2>2. /\ k.sm \in PortType /\ k.sm.auth_pae = m.auth_pae
          /\ k.sm.reauth_timer = m.reauth_timer /\ k.sm.reAuthCount = m.reAuthCount
          /\ k.sm.eapolEap = m.eapolEap
      <3> HIDE DEF m
      <3>1. m \in PortType /\ serverTimeout \in 0 .. serverTimeout
        BY <1>0, <1>1
      <3>2. m \in PortType
        BY <3>1 DEF PortType
      <3>3. k.sm \in PortType
        BY <2>1, <3>2, Zenon
      <3> QED
        BY <2>1, <3>1, <3>3 DEF PortType
    <2>3. k.eap_if \in EapIfType /\ k.eap_if.portEnabled = i.portEnabled
      <3> HIDE DEF i
      <3> QED
        BY <1>0, <2>1 DEF EapIfType
    <2>4. /\ k.hist \in HistType /\ k.hist.cut = w.cut /\ k.hist.stale = FALSE
          /\ k.hist.fresh = w.fresh
      <3> HIDE DEF w
      <3> QED
        BY <1>0, <2>1 DEF HistType
    <2> QED
      BY <1>0, <2>1, <2>2, <2>3, <2>4 DEF BeBody, k
  <1> QED
    BY <1>2, <1>3, <1>4, <1>5, <1>6, <1>7, <1>8, <1>9, <1>10

\* Entering a state of BE_AUTH.
LEMMA BeEnterOK ==
    ASSUME NEW g, RunOK(g),
           NEW t \in {"INITIALIZE", "REQUEST", "RESPONSE", "SUCCESS", "FAIL", "TIMEOUT",
                      "IDLE", "IGNORE"},
           t = "RESPONSE" => g.sm.eapolEap
    PROVE  LET h == BeEnter(g, t)
           IN  /\ RunOK(h) /\ (Rested(g) => Rested(h)) /\ h.eap = g.eap
               /\ h.sm.auth_pae = g.sm.auth_pae /\ h.sm.reauth_timer = g.sm.reauth_timer
  <1> DEFINE h == BeEnter(g, t)
  <1>1. Typed(g) /\ Fresh(g) /\ g.sta \in {"none", "assoc", "removing"} /\ g.pmksa \in BOOLEAN
    BY PartsOf DEF RunOK
  <1>2. PICK k : BeBody(g, k) /\ h = [k EXCEPT !.sm.be_auth = t]
    BY <1>1, BeBodies DEF BeEnter
  <1> DEFINE n == k.sm
  <1>3. /\ DOMAIN k = Fields /\ k.eap = g.eap /\ k.wpa = g.wpa /\ k.queued = g.queued
        /\ k.pmksa = g.pmksa /\ k.awaiting = g.awaiting
        /\ n \in PortType /\ k.eap_if \in EapIfType /\ k.hist \in HistType
        /\ n.auth_pae = g.sm.auth_pae /\ n.reauth_timer = g.sm.reauth_timer
        /\ n.reAuthCount = g.sm.reAuthCount
        /\ \/ k.sta = g.sta /\ k.eap_if.portEnabled = g.eap_if.portEnabled
           \/ k.sta = "removing" /\ k.eap_if.portEnabled = FALSE
        /\ k.hist.cut = g.hist.cut /\ k.hist.stale = FALSE
        /\ n.eapolEap => k.hist.fresh
    BY <1>2 DEF BeBody
  <1>4. /\ DOMAIN h = Fields /\ h.eap = k.eap /\ h.wpa = k.wpa /\ h.queued = k.queued
        /\ h.pmksa = k.pmksa /\ h.awaiting = k.awaiting /\ h.sta = k.sta
        /\ h.eap_if = k.eap_if /\ h.hist = k.hist /\ h.sm = [n EXCEPT !.be_auth = t]
    BY <1>2, <1>3 DEF Fields
  <1> HIDE DEF h, n
  <1>5. /\ h.sm \in PortType /\ h.sm.auth_pae = n.auth_pae /\ h.sm.eapolEap = n.eapolEap
        /\ h.sm.reauth_timer = n.reauth_timer /\ h.sm.reAuthCount = n.reAuthCount
    <2>1. n \in PortType
      BY <1>3
    <2>2. [n EXCEPT !.be_auth = t] \in PortType
      BY <2>1 DEF PortType
    <2>3. h.sm \in PortType
      BY <1>4, <2>2, Zenon
    <2> QED
      BY <1>4, <2>1, <2>3 DEF PortType
  <1>6. Typed(h)
    BY <1>1, <1>3, <1>4, <1>5, TypedFrom
  <1>7. Fresh(h) /\ Enabled(h)
    BY <1>3, <1>4, <1>5 DEF RunOK, Fresh, Enabled
  <1>8. Counted(h) /\ (Rested(g) => Rested(h))
    BY <1>3, <1>4, <1>5 DEF RunOK, Counted, Rested
  <1> QED
    BY <1>3, <1>4, <1>5, <1>6, <1>7, <1>8 DEF RunOK, h

\* A step of BE_AUTH: it hands a response on only when eapolEap is set.
LEMMA BeOK ==
    ASSUME NEW g, RunOK(g)
    PROVE  LET h == BE_AUTH(g)
           IN  /\ RunOK(h) /\ (Rested(g) => Rested(h)) /\ h.eap = g.eap
               /\ h.sm.auth_pae = g.sm.auth_pae
               /\ h.sm.reauth_timer = g.sm.reauth_timer
  <1> DEFINE States == {"INITIALIZE", "REQUEST", "RESPONSE", "SUCCESS", "FAIL", "TIMEOUT",
                        "IDLE", "IGNORE"}
             m == g.sm
             t == SM_STEP_BE_AUTH(m, g.eap_if)
             ignored == IF m.be_auth = "RESPONSE" /\ ~m.authAbort /\ g.eap_if.eapNoReq
                        THEN BeEnter(g, "IGNORE") ELSE g
             Keeps(h) == /\ RunOK(h) /\ (Rested(g) => Rested(h)) /\ h.eap = g.eap
                         /\ h.sm.auth_pae = m.auth_pae /\ h.sm.reauth_timer = m.reauth_timer
  <1>1. m.be_auth \in States
    BY PartsOf DEF RunOK, PortType
  <1>2. /\ t \in (States \ {"IGNORE"}) \cup {"stay"}
        /\ t = "RESPONSE" => m.eapolEap /\ m.be_auth # "RESPONSE"
    BY <1>1 DEF SM_STEP_BE_AUTH, BeAwaitSupplicant, BeAwaitServer
  <1>3. BE_AUTH(g) = IF t = "stay" THEN ignored ELSE BeEnter(ignored, t)
    BY DEF BE_AUTH
  <1>4. Keeps(ignored) /\ (t = "RESPONSE" => ignored = g)
    <2>1. Keeps(BeEnter(g, "IGNORE"))
      BY BeEnterOK
    <2> HIDE DEF t
    <2> QED
      BY <1>2, <2>1
  <1> HIDE DEF t, ignored
  <1>5. t # "stay" => Keeps(BeEnter(ignored, t))
    <2> SUFFICES ASSUME t # "stay" PROVE Keeps(BeEnter(ignored, t))
      OBVIOUS
    <2>1. t \in States /\ (t = "RESPONSE" => ignored.sm.eapolEap) /\ RunOK(ignored)
      BY <1>2, <1>4
    <2> DEFINE h == BeEnter(ignored, t)
    <2>2. /\ RunOK(h) /\ (Rested(ignored) => Rested(h)) /\ h.eap = ignored.eap
          /\ h.sm.auth_pae = ignored.sm.auth_pae /\ h.sm.reauth_timer = ignored.sm.reauth_timer
      BY <2>1, BeEnterOK
    <2> HIDE DEF h
    <2> QED
      BY <1>4, <2>2 DEF h
  <1>6. Keeps(BE_AUTH(g))
    BY <1>3, <1>4, <1>5
  <1> QED
    BY <1>6

\* A step of REAUTH_TIMER.
LEMMA TimerOK ==
    ASSUME NEW g, RunOK(g), conf \in Confs
    PROVE  LET h == REAUTH_TIMER(g)
           IN  /\ RunOK(h) /\ (Rested(g) => Rested(h)) /\ h.eap = g.eap
               /\ h.sm.auth_pae = g.sm.auth_pae /\ h.sm.be_auth = g.sm.be_auth
  <1> DEFINE m == g.sm
             p == conf.eap_reauth_period
  <1>1. /\ Typed(g) /\ DOMAIN g = Fields /\ m \in PortType /\ g.eap_if \in EapIfType
        /\ g.hist \in HistType /\ (g.sta = "assoc" => g.eap_if.portEnabled)
        /\ g.sta \in {"none", "assoc", "removing"} /\ g.pmksa \in BOOLEAN
    BY PartsOf DEF RunOK, Enabled
  <1>2. p \in 0 .. p
    BY EapolAssumption DEF ConfType
  <1> HIDE DEF p
  <1>3. ASSUME NEW k, DOMAIN k = Fields, k.eap = g.eap, k.eap_if = g.eap_if, k.hist = g.hist,
               k.wpa = g.wpa, k.sta = g.sta, k.queued = g.queued, k.pmksa = g.pmksa,
               k.awaiting = g.awaiting, k.sm \in PortType, k.sm.auth_pae = m.auth_pae,
               k.sm.reAuthCount = m.reAuthCount, k.sm.eapolEap = m.eapolEap
        PROVE  RunOK(k) /\ (Rested(g) => Rested(k))
    <2>1. Typed(k)
      BY <1>1, <1>3, TypedFrom
    <2> QED
      BY <1>1, <1>3, <2>1, Carries
  <1> DEFINE a == [g EXCEPT !.sm.reauth_timer = "INITIALIZE", !.sm.reAuthWhen = p]
             b == [g EXCEPT !.sm.reauth_timer = "REAUTHENTICATE", !.sm.reAuthenticate = TRUE]
  <1>4. /\ RunOK(a) /\ (Rested(g) => Rested(a)) /\ a.eap = g.eap
        /\ a.sm.auth_pae = m.auth_pae /\ a.sm.be_auth = m.be_auth
    <2>1. /\ DOMAIN a = Fields /\ a.eap = g.eap /\ a.eap_if = g.eap_if /\ a.hist = g.hist
          /\ a.wpa = g.wpa /\ a.sta = g.sta /\ a.queued = g.queued /\ a.pmksa = g.pmksa
          /\ a.awaiting = g.awaiting
          /\ a.sm = [m EXCEPT !.reauth_timer = "INITIALIZE", !.reAuthWhen = p]
      BY <1>1 DEF Fields
    <2> HIDE DEF a
    <2>2. /\ a.sm \in PortType /\ a.sm.auth_pae = m.auth_pae /\ a.sm.be_auth = m.be_auth
          /\ a.sm.reAuthCount = m.reAuthCount /\ a.sm.eapolEap = m.eapolEap
      <3> HIDE DEF m
      <3>1. m \in PortType /\ p \in 0 .. conf.eap_reauth_period
        BY <1>1, <1>2 DEF p
      <3>2. [m EXCEPT !.reauth_timer = "INITIALIZE", !.reAuthWhen = p] \in PortType
        BY <3>1 DEF PortType
      <3>3. a.sm \in PortType
        BY <2>1, <3>2, Zenon
      <3> QED
        BY <2>1, <3>1, <3>3 DEF PortType
    <2> QED
      BY <1>3, <2>1, <2>2
  <1>5. /\ RunOK(b) /\ (Rested(g) => Rested(b)) /\ b.eap = g.eap
        /\ b.sm.auth_pae = m.auth_pae /\ b.sm.be_auth = m.be_auth
    <2>1. /\ DOMAIN b = Fields /\ b.eap = g.eap /\ b.eap_if = g.eap_if /\ b.hist = g.hist
          /\ b.wpa = g.wpa /\ b.sta = g.sta /\ b.queued = g.queued /\ b.pmksa = g.pmksa
          /\ b.awaiting = g.awaiting
          /\ b.sm = [m EXCEPT !.reauth_timer = "REAUTHENTICATE", !.reAuthenticate = TRUE]
      BY <1>1 DEF Fields
    <2> HIDE DEF b
    <2>2. /\ b.sm \in PortType /\ b.sm.auth_pae = m.auth_pae /\ b.sm.be_auth = m.be_auth
          /\ b.sm.reAuthCount = m.reAuthCount /\ b.sm.eapolEap = m.eapolEap
      <3> HIDE DEF m
      <3>1. m \in PortType
        BY <1>1
      <3>2. [m EXCEPT !.reauth_timer = "REAUTHENTICATE", !.reAuthenticate = TRUE] \in PortType
        BY <3>1 DEF PortType
      <3>3. b.sm \in PortType
        BY <2>1, <3>2, Zenon
      <3> QED
        BY <2>1, <3>1, <3>3 DEF PortType
    <2> QED
      BY <1>3, <2>1, <2>2
  <1>6. REAUTH_TIMER(g) \in {a, wpa_reauth(b), g}
    BY DEF REAUTH_TIMER, p
  <1> HIDE DEF a, b
  <1>7. LET h == wpa_reauth(b)
        IN  /\ RunOK(h) /\ (Rested(g) => Rested(h)) /\ h.eap = g.eap
            /\ h.sm.auth_pae = m.auth_pae /\ h.sm.be_auth = m.be_auth
    BY <1>5, WpaReauthOK
  <1> QED
    BY <1>4, <1>6, <1>7

\* A run of the EAP machine inside a pass, and the note of a run that was cut.
LEMMA EapInPassOK ==
    ASSUME NEW p, RunOK(p), NEW k \in eap_server_sm_step(p)
    PROVE  LET h == [k EXCEPT !.hist.cut = @ \/ k.eap.changed]
           IN  RunOK(h) /\ (Rested(p) => Rested(h))
  <1> DEFINE c == k.hist.cut \/ k.eap.changed
             h == [k EXCEPT !.hist.cut = c]
  <1>1. Typed(p) /\ EapOK(p) /\ DOMAIN p = Fields /\ p.hist \in HistType
    BY DEF RunOK, Typed
  <1>2. EapOK(k) /\ KeepsPort(p, k)
    BY <1>1, EapRunOK
  <1>3. /\ DOMAIN k = Fields /\ k.sm = p.sm /\ k.wpa = p.wpa /\ k.sta = p.sta
        /\ k.queued = p.queued /\ k.pmksa = p.pmksa /\ k.awaiting = p.awaiting
        /\ k.hist = p.hist /\ k.eap_if.portEnabled = p.eap_if.portEnabled
    BY <1>1, <1>2 DEF KeepsPort, Fields
  <1>4. /\ DOMAIN h = Fields /\ h.sm = k.sm /\ h.wpa = k.wpa /\ h.sta = k.sta
        /\ h.queued = k.queued /\ h.pmksa = k.pmksa /\ h.awaiting = k.awaiting
        /\ h.hist = [k.hist EXCEPT !.cut = c] /\ h.eap = k.eap /\ h.eap_if = k.eap_if
    BY <1>3 DEF Fields
  <1>5. c \in BOOLEAN /\ (k.hist.cut => c)
    OBVIOUS
  <1> HIDE DEF c, h
  <1>6. /\ h.hist \in HistType /\ h.hist.stale = p.hist.stale /\ h.hist.fresh = p.hist.fresh
        /\ p.hist.cut => h.hist.cut
    BY <1>1, <1>3, <1>4, <1>5 DEF HistType
  <1>7. EapOK(h)
    BY <1>2, <1>4 DEF EapOK, EapTyped, Fields
  <1>8. Typed(h)
    BY <1>1, <1>3, <1>4, <1>6, <1>7 DEF Typed
  <1>9. RunOK(h) /\ (Rested(p) => Rested(h))
    BY <1>3, <1>4, <1>6, <1>8 DEF RunOK, Fresh, Enabled, Counted, Rested
  <1> QED
    BY <1>9 DEF h, c

\* One pass over the port machines and the EAP machine.
LEMMA PassOK ==
    ASSUME NEW g, RunOK(g), conf \in Confs, NEW r \in Pass(g)
    PROVE  RunOK(r.g) /\ (r.rests => Rested(r.g))
  <1> DEFINE a == AUTH_PAE(g)
             b == BE_AUTH(a)
             p == REAUTH_TIMER(b)
             states(m) == <<m.auth_pae, m.be_auth, m.reauth_timer>>
  <1>1. RunOK(a) /\ (a.sm.auth_pae = g.sm.auth_pae => Rested(a))
    BY PaeOK
  <1>2. RunOK(b) /\ (Rested(a) => Rested(b)) /\ b.sm.auth_pae = a.sm.auth_pae
    <2> HIDE DEF a
    <2> QED
      BY <1>1, BeOK
  <1>3. RunOK(p) /\ (Rested(b) => Rested(p)) /\ p.sm.auth_pae = b.sm.auth_pae
    <2> HIDE DEF b
    <2> QED
      BY <1>2, TimerOK
  <1>4. RunOK(p) /\ (p.sm.auth_pae = g.sm.auth_pae => Rested(p))
    BY <1>1, <1>2, <1>3
  <1>5. CASE states(p.sm) # states(g.sm)
    <2>1. r = [g |-> p, rests |-> FALSE]
      BY <1>5 DEF Pass
    <2> HIDE DEF p
    <2> QED
      BY <1>4, <2>1
  <1>6. CASE states(p.sm) = states(g.sm)
    <2>1. PICK k \in eap_server_sm_step(p) :
            r = [g |-> [k EXCEPT !.hist.cut = @ \/ k.eap.changed],
                 rests |-> SM_STEP_EAP(p.eap, p.eap_if) = "stay"]
      BY <1>6 DEF Pass
    <2>2. p.sm.auth_pae = g.sm.auth_pae
      BY <1>6
    <2> HIDE DEF p
    <2> DEFINE h == [k EXCEPT !.hist.cut = @ \/ k.eap.changed]
    <2>3. RunOK(h) /\ (Rested(p) => Rested(h))
      BY <1>4, EapInPassOK
    <2>4. r.g = h
      BY <2>1
    <2> HIDE DEF h
    <2> QED
      BY <1>4, <2>2, <2>3, <2>4
  <1> QED
    BY <1>5, <1>6

\* The end of a run that rests, and of one that is cut.
LEMMA OutcomeOK ==
    ASSUME NEW r, RunOK(r.g), r.rests => Rested(r.g)
    PROVE  RunOK(Outcome(r)) /\ Rested(Outcome(r))
  <1> DEFINE g == r.g
  <1>1. /\ Typed(g) /\ DOMAIN g = Fields /\ g.hist \in HistType /\ g.eap_if \in EapIfType
        /\ g.sta = "assoc" => g.eap_if.portEnabled
    BY PartsOf DEF RunOK, Enabled
  <1>2. ASSUME NEW w \in BOOLEAN
        PROVE  LET k == [g EXCEPT !.eap_if.aaaEapResp = FALSE, !.awaiting = w]
               IN  RunOK(k) /\ (Rested(g) => Rested(k))
    <2> DEFINE i == g.eap_if
               k == [g EXCEPT !.eap_if.aaaEapResp = FALSE, !.awaiting = w]
    <2>1. /\ DOMAIN k = Fields /\ k.sm = g.sm /\ k.eap = g.eap /\ k.wpa = g.wpa
          /\ k.sta = g.sta /\ k.queued = g.queued /\ k.pmksa = g.pmksa /\ k.awaiting = w
          /\ k.hist = g.hist /\ k.eap_if = [i EXCEPT !.aaaEapResp = FALSE]
      BY <1>1 DEF Fields
    <2> HIDE DEF k
    <2>2. k.eap_if \in EapIfType /\ k.eap_if.portEnabled = i.portEnabled
      <3>1. i \in EapIfType
        BY <1>1
      <3> HIDE DEF i
      <3> QED
        BY <2>1, <3>1 DEF EapIfType
    <2>3. EapOK(k)
      BY <1>1, <2>1, <2>2, SameMachine
    <2>4. Typed(k)
      BY <1>1, <2>1, <2>2, <2>3 DEF Typed
    <2>5. RunOK(k) /\ (Rested(g) => Rested(k))
      BY <1>1, <2>1, <2>2, <2>4, Carries
    <2> QED
      BY <2>5 DEF k
  <1>3. CASE r.rests
    <2> DEFINE i == g.eap_if
               x == [g EXCEPT !.eap_if.aaaEapResp = FALSE]
               w == g.awaiting \/ i.aaaEapResp
    <2>1. g.awaiting \in BOOLEAN /\ w \in BOOLEAN
      BY <1>1, PartsOf
    <2>2. x = [g EXCEPT !.eap_if.aaaEapResp = FALSE, !.awaiting = g.awaiting]
      BY <1>1 DEF Fields
    <2>3. [x EXCEPT !.awaiting = @ \/ i.aaaEapResp] =
            [g EXCEPT !.eap_if.aaaEapResp = FALSE, !.awaiting = w]
      BY <1>1 DEF Fields
    <2> DEFINE y == [x EXCEPT !.awaiting = @ \/ i.aaaEapResp]
    <2>4. Outcome(r) \in {x, wpa_sm_step(y)}
      BY <1>3 DEF Outcome, RunEnd
    <2>5. RunOK(x) /\ Rested(x)
      BY <1>2, <1>3, <2>1, <2>2
    <2>6. RunOK(y) /\ Rested(y)
      <3> HIDE DEF w
      <3> QED
        BY <1>2, <1>3, <2>1, <2>3
    <2> HIDE DEF x, y
    <2>7. RunOK(wpa_sm_step(y)) /\ Rested(wpa_sm_step(y))
      BY <2>6, WpaStepOK
    <2> QED
      BY <2>4, <2>5, <2>7
  <1>4. CASE ~r.rests
    <2> DEFINE h == [g EXCEPT !.queued = TRUE, !.hist.cut = TRUE]
    <2>1. Outcome(r) = h
      BY <1>4 DEF Outcome
    <2>2. /\ DOMAIN h = Fields /\ h.sm = g.sm /\ h.eap = g.eap /\ h.wpa = g.wpa
          /\ h.sta = g.sta /\ h.queued = TRUE /\ h.pmksa = g.pmksa
          /\ h.awaiting = g.awaiting /\ h.eap_if = g.eap_if
          /\ h.hist = [g.hist EXCEPT !.cut = TRUE]
      BY <1>1 DEF Fields
    <2> HIDE DEF h
    <2>3. /\ h.hist \in HistType /\ h.hist.cut /\ h.hist.stale = g.hist.stale
          /\ h.hist.fresh = g.hist.fresh
      BY <1>1, <2>2 DEF HistType
    <2>4. EapOK(h)
      BY <1>1, <2>2, SameMachine
    <2>5. Typed(h)
      BY <1>1, <2>2, <2>3, <2>4 DEF Typed
    <2> QED
      BY <2>1, <2>2, <2>3, <2>5 DEF RunOK, Fresh, Enabled, Counted, Rested
  <1> QED
    BY <1>3, <1>4

\* A whole run.
LEMMA WholeRunOK ==
    ASSUME NEW g, RunOK(g), conf \in Confs, NEW h \in eapol_sm_step_run(g)
    PROVE  RunOK(h) /\ Rested(h)
  <1>1. PICK W : \A I \in SUBSET W :
             /\ {Start(g)} \cap W \subseteq I
             /\ \A r \in I : ~r.rests => Pass(r.g) \cap W \subseteq I
             => \A k \in eapol_sm_step_run(g) : \E r \in I : k = Outcome(r)
    BY RunReaches
  <1> DEFINE I == {r \in W : RunOK(r.g) /\ (r.rests => Rested(r.g))}
  <1>2. I \in SUBSET W
    OBVIOUS
  <1>3. {Start(g)} \cap W \subseteq I
    BY DEF Start
  <1>4. ASSUME NEW r \in I PROVE Pass(r.g) \cap W \subseteq I
    <2>1. RunOK(r.g)
      OBVIOUS
    <2>2. ASSUME NEW x \in Pass(r.g) PROVE RunOK(x.g) /\ (x.rests => Rested(x.g))
      BY <2>1, PassOK
    <2> QED
      BY <2>2
  <1>5. PICK r \in I : h = Outcome(r)
    <2> HIDE DEF I
    <2> QED
      BY <1>1, <1>2, <1>3, <1>4, Zenon
  <1>6. RunOK(Outcome(r)) /\ Rested(Outcome(r))
    BY OutcomeOK
  <1> QED
    BY <1>5, <1>6

-----------------------------------------------------------------------------
(* The events between runs.                                                *)

\* EapOK, of the machine alone.
MachineOK(e) ==
    /\ Machine(e)
    /\ e.state \in Waiting => e.retransCount <= MaxRetrans
    /\ e.state = "SELECT_ACTION" /\ e.decision = "CONTINUE" => CanPropose(e)

\* EapOK is about the machine and the type of its interface.
LEMMA EapFrom ==
    ASSUME NEW g, DOMAIN g = Fields
    PROVE  EapOK(g) <=> MachineOK(g.eap) /\ g.eap_if \in EapIfType
  BY DEF EapOK, EapTyped, MachineOK, Machine, Fields

\* What events do to the machine.
LEMMA MachineEvents ==
    ASSUME NEW e, MachineOK(e), NEW c \in BOOLEAN
    PROVE  /\ MachineOK(eap_server_clear_identity(e))
           /\ MachineOK([e EXCEPT !.method_pending = "CONT"])
           /\ MachineOK(eap_sm_notify_cached(e, c))
  <1>1. e \in EapType /\ e.user_eap_method_index <= Len(e.user)
    BY DEF MachineOK, Machine
  <1>2. /\ e.state \in Waiting => e.retransCount <= MaxRetrans
        /\ e.state = "SELECT_ACTION" /\ e.decision = "CONTINUE" => CanPropose(e)
    BY DEF MachineOK
  <1>3. MachineOK(eap_server_clear_identity(e))
    <2> DEFINE x == [e EXCEPT !.identity = "none"]
    <2>1. x \in EapType
      BY <1>1 DEF EapType
    <2>2. /\ x.identity = "none" /\ x.state = e.state /\ x.retransCount = e.retransCount
          /\ x.user = e.user /\ x.user_eap_method_index = e.user_eap_method_index
      BY <1>1 DEF EapType
    <2> HIDE DEF x
    <2>3. MachineOK(x)
      BY <1>1, <1>2, <2>1, <2>2 DEF MachineOK, Machine, CanPropose
    <2> QED
      BY <2>3 DEF eap_server_clear_identity, x
  <1>4. MachineOK([e EXCEPT !.method_pending = "CONT"])
    <2> DEFINE x == [e EXCEPT !.method_pending = "CONT"]
    <2>1. x \in EapType
      BY <1>1 DEF EapType
    <2>2. /\ x.identity = e.identity /\ x.state = e.state /\ x.retransCount = e.retransCount
          /\ x.user = e.user /\ x.user_eap_method_index = e.user_eap_method_index
          /\ x.decision = e.decision /\ x.hasId = e.hasId /\ x.hasUser = e.hasUser
      BY <1>1 DEF EapType
    <2> HIDE DEF x
    <2>3. CanPropose(e) => CanPropose(x)
      BY <2>2 DEF CanPropose, MethodLeft
    <2>4. MachineOK(x)
      BY <1>1, <1>2, <2>1, <2>2, <2>3 DEF MachineOK, Machine
    <2> QED
      BY <2>4 DEF x
  <1>5. MachineOK(eap_sm_notify_cached(e, c))
    <2> DEFINE x == [e EXCEPT !.state = "SUCCESS"]
    <2>1. x \in EapType
      BY <1>1 DEF EapType, EapStates
    <2>2. /\ x.state = "SUCCESS"
          /\ x.user = e.user /\ x.user_eap_method_index = e.user_eap_method_index
      BY <1>1 DEF EapType
    <2> HIDE DEF x
    <2>3. MachineOK(x)
      BY <1>1, <2>1, <2>2 DEF MachineOK, Machine, Waiting
    <2> QED
      BY <2>3 DEF eap_sm_notify_cached, x
  <1> QED
    BY <1>3, <1>4, <1>5

\* The machines of a new station.
LEMMA NewStation ==
    ASSUME conf \in Confs
    PROVE  /\ MachineOK(eap_server_sm_init(conf.eap_server))
           /\ eapol_auth_alloc \in PortType
           /\ EapIfInit \in EapIfType /\ [EapIfInit EXCEPT !.portEnabled = TRUE] \in EapIfType
           /\ [EapIfInit EXCEPT !.portEnabled = TRUE].portEnabled = TRUE
           /\ eapol_auth_alloc.auth_pae = "INITIALIZE" /\ eapol_auth_alloc.reAuthCount = 0
           /\ eapol_auth_alloc.eapolEap = FALSE
  <1>1. conf \in ConfType /\ conf.eap_server \in BOOLEAN /\ conf.wpa \in BOOLEAN
        /\ conf.eap_reauth_period \in Nat
    BY EapolAssumption DEF ConfType
  <1>2. MachineOK(eap_server_sm_init(conf.eap_server))
    <2> DEFINE x == eap_server_sm_init(conf.eap_server)
    <2>1. 0 \in 0 .. EAP_MAX_AUTH_ROUNDS + 2 /\ 0 \in 0 .. MaxRetrans + 1
      BY EapAssumption
    <2>2. x \in EapType
      BY <1>1, <2>1 DEF eap_server_sm_init, EapType, EapStates
    <2>3. x.user_eap_method_index = 0 /\ x.user = <<>> /\ x.state = "DISABLED"
      BY DEF eap_server_sm_init
    <2> HIDE DEF x
    <2>4. x.user_eap_method_index <= Len(x.user)
      BY <2>3
    <2>5. MachineOK(x)
      BY <2>2, <2>3, <2>4 DEF MachineOK, Machine, Waiting
    <2> QED
      BY <2>5 DEF x
  <1>3. eapol_auth_alloc \in PortType
    <2>1. /\ 0 \in 0 .. serverTimeout /\ 0 \in 0 .. quietPeriod
          /\ conf.eap_reauth_period \in 0 .. conf.eap_reauth_period
      BY <1>1, EapolAssumption
    <2> QED
      BY <1>1, <2>1 DEF eapol_auth_alloc, PortType
  <1>4. /\ EapIfInit \in EapIfType /\ [EapIfInit EXCEPT !.portEnabled = TRUE] \in EapIfType
        /\ [EapIfInit EXCEPT !.portEnabled = TRUE].portEnabled = TRUE
    BY DEF EapIfInit, EapIfType
  <1> QED
    BY <1>2, <1>3, <1>4 DEF eapol_auth_alloc

\* A step that leaves the PAE state and its counter alone, enables no port and
\* keeps eapolEap true to the history.
LEMMA EventCarries ==
    ASSUME NEW g, RunOK(g), Rested(g), NEW h, DOMAIN h = Fields,
           MachineOK(h.eap), h.sm \in PortType, h.eap_if \in EapIfType, h.hist \in HistType,
           h.wpa \in {"INITIALIZE", "AUTHENTICATION2", "PTKSTART", "PTKINITDONE"},
           h.sta \in {"none", "assoc", "removing"},
           h.queued \in BOOLEAN, h.pmksa \in BOOLEAN, h.awaiting \in BOOLEAN,
           h.hist.stale = g.hist.stale, h.hist.cut = g.hist.cut,
           h.sm.eapolEap => h.hist.fresh,
           h.sm.auth_pae = g.sm.auth_pae, h.sm.reAuthCount = g.sm.reAuthCount,
           h.eap_if.portEnabled => g.eap_if.portEnabled,
           h.sta = "assoc" => h.eap_if.portEnabled
    PROVE  RunOK(h) /\ Rested(h)
  <1>1. Typed(h)
    BY EapFrom DEF Typed
  <1> QED
    BY <1>1 DEF RunOK, Fresh, Enabled, Counted, Rested

\* The queued step and a change of the PMKSA cache.
LEMMA QueueEvents ==
    ASSUME NEW g, RunOK(g), Rested(g), NEW p \in BOOLEAN
    PROVE  /\ RunOK([g EXCEPT !.queued = FALSE]) /\ Rested([g EXCEPT !.queued = FALSE])
           /\ RunOK([g EXCEPT !.pmksa = p]) /\ Rested([g EXCEPT !.pmksa = p])
  <1> DEFINE m == g.sm
             i == g.eap_if
             w == g.hist
             e == g.eap
  <1>0. /\ DOMAIN g = Fields /\ MachineOK(e) /\ m \in PortType /\ i \in EapIfType
        /\ w \in HistType /\ g.queued \in BOOLEAN /\ g.pmksa \in BOOLEAN
        /\ g.awaiting \in BOOLEAN /\ g.sta \in {"none", "assoc", "removing"}
        /\ g.wpa \in {"INITIALIZE", "AUTHENTICATION2", "PTKSTART", "PTKINITDONE"}
        /\ (m.eapolEap => w.fresh) /\ (g.sta = "assoc" => i.portEnabled)
    BY EapFrom DEF RunOK, Typed, Fresh, Enabled
  <1>1. RunOK([g EXCEPT !.queued = FALSE]) /\ Rested([g EXCEPT !.queued = FALSE])
    <2> DEFINE h == [g EXCEPT !.queued = FALSE]
    <2>1. /\ DOMAIN h = Fields /\ h.eap = e
          /\ h.sm = m
          /\ h.eap_if = i
          /\ h.hist = w
          /\ h.wpa = g.wpa /\ h.sta = g.sta /\ h.queued = FALSE
          /\ h.pmksa = g.pmksa /\ h.awaiting = g.awaiting
      BY <1>0 DEF Fields
    <2> HIDE DEF h
    <2>2. /\ h.sm \in PortType /\ h.sm.auth_pae = m.auth_pae
          /\ h.sm.reAuthCount = m.reAuthCount /\ h.sm.eapolEap = m.eapolEap
      BY <1>0, <2>1
    <2>3. h.eap_if \in EapIfType /\ h.eap_if.portEnabled = i.portEnabled
      BY <1>0, <2>1
    <2>4. /\ h.hist \in HistType /\ h.hist.stale = w.stale /\ h.hist.cut = w.cut
          /\ h.hist.fresh = w.fresh
      BY <1>0, <2>1
    <2>5. MachineOK(h.eap)
      BY <1>0, <2>1
    <2> HIDE DEF m, i, w, e
    <2> QED
      BY <1>0, <2>1, <2>2, <2>3, <2>4, <2>5, EventCarries DEF h, m, i, w, e
  <1>2. RunOK([g EXCEPT !.pmksa = p]) /\ Rested([g EXCEPT !.pmksa = p])
    <2> DEFINE h == [g EXCEPT !.pmksa = p]
    <2>1. /\ DOMAIN h = Fields /\ h.eap = e
          /\ h.sm = m
          /\ h.eap_if = i
          /\ h.hist = w
          /\ h.wpa = g.wpa /\ h.sta = g.sta /\ h.queued = g.queued
          /\ h.pmksa = p /\ h.awaiting = g.awaiting
      BY <1>0 DEF Fields
    <2> HIDE DEF h
    <2>2. /\ h.sm \in PortType /\ h.sm.auth_pae = m.auth_pae
          /\ h.sm.reAuthCount = m.reAuthCount /\ h.sm.eapolEap = m.eapolEap
      BY <1>0, <2>1
    <2>3. h.eap_if \in EapIfType /\ h.eap_if.portEnabled = i.portEnabled
      BY <1>0, <2>1
    <2>4. /\ h.hist \in HistType /\ h.hist.stale = w.stale /\ h.hist.cut = w.cut
          /\ h.hist.fresh = w.fresh
      BY <1>0, <2>1
    <2>5. MachineOK(h.eap)
      BY <1>0, <2>1
    <2> HIDE DEF m, i, w, e
    <2> QED
      BY <1>0, <2>1, <2>2, <2>3, <2>4, <2>5, EventCarries DEF h, m, i, w, e
  <1> QED
    BY <1>1, <1>2

\* EAPOL frames.
LEMMA FrameEvents ==
    ASSUME NEW g, RunOK(g), Rested(g), NEW r \in Responses
    PROVE  /\ RunOK([g EXCEPT !.sm.eapolEap = TRUE, !.eap_if.eapRespData = r,
                     !.hist.fresh = TRUE, !.queued = TRUE])
                 /\ Rested([g EXCEPT !.sm.eapolEap = TRUE, !.eap_if.eapRespData = r,
                     !.hist.fresh = TRUE, !.queued = TRUE])
           /\ RunOK([g EXCEPT !.sm.eapolStart = TRUE])
                 /\ Rested([g EXCEPT !.sm.eapolStart = TRUE])
           /\ RunOK([g EXCEPT !.eap = eap_server_clear_identity(@), !.queued = TRUE])
                 /\ Rested([g EXCEPT !.eap = eap_server_clear_identity(@), !.queued = TRUE])
           /\ RunOK([g EXCEPT !.sm.eapolLogoff = TRUE, !.eap = eap_server_clear_identity(@),
                     !.queued = TRUE]) /\ Rested([g EXCEPT !.sm.eapolLogoff = TRUE,
                     !.eap = eap_server_clear_identity(@), !.queued = TRUE])
           /\ RunOK([g EXCEPT !.eap.method_pending = "CONT", !.queued = TRUE])
                 /\ Rested([g EXCEPT !.eap.method_pending = "CONT", !.queued = TRUE])
  <1> DEFINE m == g.sm
             i == g.eap_if
             w == g.hist
             e == g.eap
  <1>0. /\ DOMAIN g = Fields /\ MachineOK(e) /\ m \in PortType /\ i \in EapIfType
        /\ w \in HistType /\ g.queued \in BOOLEAN /\ g.pmksa \in BOOLEAN
        /\ g.awaiting \in BOOLEAN /\ g.sta \in {"none", "assoc", "removing"}
        /\ g.wpa \in {"INITIALIZE", "AUTHENTICATION2", "PTKSTART", "PTKINITDONE"}
        /\ (m.eapolEap => w.fresh) /\ (g.sta = "assoc" => i.portEnabled)
    BY EapFrom DEF RunOK, Typed, Fresh, Enabled
  <1>1. RunOK([g EXCEPT !.sm.eapolEap = TRUE, !.eap_if.eapRespData = r, !.hist.fresh = TRUE,
               !.queued = TRUE]) /\ Rested([g EXCEPT !.sm.eapolEap = TRUE,
               !.eap_if.eapRespData = r, !.hist.fresh = TRUE, !.queued = TRUE])
    <2> DEFINE h == [g EXCEPT !.sm.eapolEap = TRUE, !.eap_if.eapRespData = r,
                           !.hist.fresh = TRUE, !.queued = TRUE]
    <2>1. /\ DOMAIN h = Fields /\ h.eap = e
          /\ h.sm = [m EXCEPT !.eapolEap = TRUE]
          /\ h.eap_if = [i EXCEPT !.eapRespData = r]
          /\ h.hist = [w EXCEPT !.fresh = TRUE]
          /\ h.wpa = g.wpa /\ h.sta = g.sta /\ h.queued = TRUE
          /\ h.pmksa = g.pmksa /\ h.awaiting = g.awaiting
      BY <1>0 DEF Fields
    <2> HIDE DEF h
    <2>2. /\ h.sm \in PortType /\ h.sm.auth_pae = m.auth_pae
          /\ h.sm.reAuthCount = m.reAuthCount /\ h.sm.eapolEap = TRUE
      <3> HIDE DEF m
      <3>1. m \in PortType
        BY <1>0
      <3>2. [m EXCEPT !.eapolEap = TRUE] \in PortType
        BY <3>1 DEF PortType
      <3>3. h.sm \in PortType
        BY <2>1, <3>2, Zenon
      <3> QED
        BY <2>1, <3>1, <3>3 DEF PortType
    <2>3. h.eap_if \in EapIfType /\ h.eap_if.portEnabled = i.portEnabled
      <3> HIDE DEF i
      <3>1. i \in EapIfType /\ r \in Responses
        BY <1>0
      <3>2. [i EXCEPT !.eapRespData = r] \in EapIfType
        BY <3>1 DEF EapIfType
      <3>3. h.eap_if \in EapIfType
        BY <2>1, <3>2, Zenon
      <3> QED
        BY <2>1, <3>1, <3>3 DEF EapIfType
    <2>4. /\ h.hist \in HistType /\ h.hist.stale = w.stale /\ h.hist.cut = w.cut
          /\ h.hist.fresh = TRUE
      BY <1>0, <2>1 DEF HistType
    <2>5. MachineOK(h.eap)
      BY <1>0, <2>1
    <2> HIDE DEF m, i, w, e
    <2> QED
      BY <1>0, <2>1, <2>2, <2>3, <2>4, <2>5, EventCarries DEF h, m, i, w, e
  <1>2. RunOK([g EXCEPT !.sm.eapolStart = TRUE]) /\ Rested([g EXCEPT !.sm.eapolStart = TRUE])
    <2> DEFINE h == [g EXCEPT !.sm.eapolStart = TRUE]
    <2>1. /\ DOMAIN h = Fields /\ h.eap = e
          /\ h.sm = [m EXCEPT !.eapolStart = TRUE]
          /\ h.eap_if = i
          /\ h.hist = w
          /\ h.wpa = g.wpa /\ h.sta = g.sta /\ h.queued = g.queued
          /\ h.pmksa = g.pmksa /\ h.awaiting = g.awaiting
      BY <1>0 DEF Fields
    <2> HIDE DEF h
    <2>2. /\ h.sm \in PortType /\ h.sm.auth_pae = m.auth_pae
          /\ h.sm.reAuthCount = m.reAuthCount /\ h.sm.eapolEap = m.eapolEap
      <3> HIDE DEF m
      <3>1. m \in PortType
        BY <1>0
      <3>2. [m EXCEPT !.eapolStart = TRUE] \in PortType
        BY <3>1 DEF PortType
      <3>3. h.sm \in PortType
        BY <2>1, <3>2, Zenon
      <3> QED
        BY <2>1, <3>1, <3>3 DEF PortType
    <2>3. h.eap_if \in EapIfType /\ h.eap_if.portEnabled = i.portEnabled
      BY <1>0, <2>1
    <2>4. /\ h.hist \in HistType /\ h.hist.stale = w.stale /\ h.hist.cut = w.cut
          /\ h.hist.fresh = w.fresh
      BY <1>0, <2>1
    <2>5. MachineOK(h.eap)
      BY <1>0, <2>1
    <2> HIDE DEF m, i, w, e
    <2> QED
      BY <1>0, <2>1, <2>2, <2>3, <2>4, <2>5, EventCarries DEF h, m, i, w, e
  <1>3. RunOK([g EXCEPT !.eap = eap_server_clear_identity(@), !.queued = TRUE])
           /\ Rested([g EXCEPT !.eap = eap_server_clear_identity(@), !.queued = TRUE])
    <2> DEFINE h == [g EXCEPT !.eap = eap_server_clear_identity(@), !.queued = TRUE]
    <2>1. /\ DOMAIN h = Fields /\ h.eap = eap_server_clear_identity(e)
          /\ h.sm = m
          /\ h.eap_if = i
          /\ h.hist = w
          /\ h.wpa = g.wpa /\ h.sta = g.sta /\ h.queued = TRUE
          /\ h.pmksa = g.pmksa /\ h.awaiting = g.awaiting
      BY <1>0 DEF Fields
    <2> HIDE DEF h
    <2>2. /\ h.sm \in PortType /\ h.sm.auth_pae = m.auth_pae
          /\ h.sm.reAuthCount = m.reAuthCount /\ h.sm.eapolEap = m.eapolEap
      BY <1>0, <2>1
    <2>3. h.eap_if \in EapIfType /\ h.eap_if.portEnabled = i.portEnabled
      BY <1>0, <2>1
    <2>4. /\ h.hist \in HistType /\ h.hist.stale = w.stale /\ h.hist.cut = w.cut
          /\ h.hist.fresh = w.fresh
      BY <1>0, <2>1
    <2>5. MachineOK(h.eap)
      BY <1>0, <2>1, MachineEvents
    <2> HIDE DEF m, i, w, e
    <2> QED
      BY <1>0, <2>1, <2>2, <2>3, <2>4, <2>5, EventCarries DEF h, m, i, w, e
  <1>4. RunOK([g EXCEPT !.sm.eapolLogoff = TRUE, !.eap = eap_server_clear_identity(@),
               !.queued = TRUE]) /\ Rested([g EXCEPT !.sm.eapolLogoff = TRUE,
               !.eap = eap_server_clear_identity(@), !.queued = TRUE])
    <2> DEFINE h == [g EXCEPT !.sm.eapolLogoff = TRUE, !.eap = eap_server_clear_identity(@),
                           !.queued = TRUE]
    <2>1. /\ DOMAIN h = Fields /\ h.eap = eap_server_clear_identity(e)
          /\ h.sm = [m EXCEPT !.eapolLogoff = TRUE]
          /\ h.eap_if = i
          /\ h.hist = w
          /\ h.wpa = g.wpa /\ h.sta = g.sta /\ h.queued = TRUE
          /\ h.pmksa = g.pmksa /\ h.awaiting = g.awaiting
      BY <1>0 DEF Fields
    <2> HIDE DEF h
    <2>2. /\ h.sm \in PortType /\ h.sm.auth_pae = m.auth_pae
          /\ h.sm.reAuthCount = m.reAuthCount /\ h.sm.eapolEap = m.eapolEap
      <3> HIDE DEF m
      <3>1. m \in PortType
        BY <1>0
      <3>2. [m EXCEPT !.eapolLogoff = TRUE] \in PortType
        BY <3>1 DEF PortType
      <3>3. h.sm \in PortType
        BY <2>1, <3>2, Zenon
      <3> QED
        BY <2>1, <3>1, <3>3 DEF PortType
    <2>3. h.eap_if \in EapIfType /\ h.eap_if.portEnabled = i.portEnabled
      BY <1>0, <2>1
    <2>4. /\ h.hist \in HistType /\ h.hist.stale = w.stale /\ h.hist.cut = w.cut
          /\ h.hist.fresh = w.fresh
      BY <1>0, <2>1
    <2>5. MachineOK(h.eap)
      <3> HIDE DEF e
      <3>1. MachineOK(eap_server_clear_identity(e))
        BY <1>0, MachineEvents
      <3> QED
        BY <2>1, <3>1, Zenon
    <2> HIDE DEF m, i, w, e
    <2> QED
      BY <1>0, <2>1, <2>2, <2>3, <2>4, <2>5, EventCarries DEF h, m, i, w, e
  <1>5. RunOK([g EXCEPT !.eap.method_pending = "CONT", !.queued = TRUE])
           /\ Rested([g EXCEPT !.eap.method_pending = "CONT", !.queued = TRUE])
    <2> DEFINE h == [g EXCEPT !.eap.method_pending = "CONT", !.queued = TRUE]
    <2>1. /\ DOMAIN h = Fields /\ h.eap = [e EXCEPT !.method_pending = "CONT"]
          /\ h.sm = m
          /\ h.eap_if = i
          /\ h.hist = w
          /\ h.wpa = g.wpa /\ h.sta = g.sta /\ h.queued = TRUE
          /\ h.pmksa = g.pmksa /\ h.awaiting = g.awaiting
      BY <1>0 DEF Fields
    <2> HIDE DEF h
    <2>2. /\ h.sm \in PortType /\ h.sm.auth_pae = m.auth_pae
          /\ h.sm.reAuthCount = m.reAuthCount /\ h.sm.eapolEap = m.eapolEap
      BY <1>0, <2>1
    <2>3. h.eap_if \in EapIfType /\ h.eap_if.portEnabled = i.portEnabled
      BY <1>0, <2>1
    <2>4. /\ h.hist \in HistType /\ h.hist.stale = w.stale /\ h.hist.cut = w.cut
          /\ h.hist.fresh = w.fresh
      BY <1>0, <2>1
    <2>5. MachineOK(h.eap)
      BY <1>0, <2>1, MachineEvents
    <2> HIDE DEF m, i, w, e
    <2> QED
      BY <1>0, <2>1, <2>2, <2>3, <2>4, <2>5, EventCarries DEF h, m, i, w, e
  <1> QED
    BY <1>1, <1>2, <1>3, <1>4, <1>5

\* The 4-way handshake has completed, or has failed.
LEMMA WpaEvents ==
    ASSUME NEW g, RunOK(g), Rested(g)
    PROVE  /\ RunOK([g EXCEPT !.wpa = "PTKINITDONE", !.sm.portValid = TRUE,
                     !.sm.keyDone = TRUE, !.eap_if.eapKeyAvailable = FALSE, !.queued = TRUE])
                 /\ Rested([g EXCEPT !.wpa = "PTKINITDONE", !.sm.portValid = TRUE,
                     !.sm.keyDone = TRUE, !.eap_if.eapKeyAvailable = FALSE, !.queued = TRUE])
           /\ RunOK(WpaDisconnect(g)) /\ Rested(WpaDisconnect(g))
  <1> DEFINE m == g.sm
             i == g.eap_if
             w == g.hist
             e == g.eap
  <1>0. /\ DOMAIN g = Fields /\ MachineOK(e) /\ m \in PortType /\ i \in EapIfType
        /\ w \in HistType /\ g.queued \in BOOLEAN /\ g.pmksa \in BOOLEAN
        /\ g.awaiting \in BOOLEAN /\ g.sta \in {"none", "assoc", "removing"}
        /\ g.wpa \in {"INITIALIZE", "AUTHENTICATION2", "PTKSTART", "PTKINITDONE"}
        /\ (m.eapolEap => w.fresh) /\ (g.sta = "assoc" => i.portEnabled)
    BY EapFrom DEF RunOK, Typed, Fresh, Enabled
  <1>1. RunOK([g EXCEPT !.wpa = "PTKINITDONE", !.sm.portValid = TRUE, !.sm.keyDone = TRUE,
               !.eap_if.eapKeyAvailable = FALSE, !.queued = TRUE])
           /\ Rested([g EXCEPT !.wpa = "PTKINITDONE", !.sm.portValid = TRUE,
               !.sm.keyDone = TRUE, !.eap_if.eapKeyAvailable = FALSE, !.queued = TRUE])
    <2> DEFINE h == [g EXCEPT !.wpa = "PTKINITDONE", !.sm.portValid = TRUE,
                           !.sm.keyDone = TRUE, !.eap_if.eapKeyAvailable = FALSE,
                           !.queued = TRUE]
    <2>1. /\ DOMAIN h = Fields /\ h.eap = e
          /\ h.sm = [m EXCEPT !.portValid = TRUE, !.keyDone = TRUE]
          /\ h.eap_if = [i EXCEPT !.eapKeyAvailable = FALSE]
          /\ h.hist = w
          /\ h.wpa = "PTKINITDONE" /\ h.sta = g.sta /\ h.queued = TRUE
          /\ h.pmksa = g.pmksa /\ h.awaiting = g.awaiting
      BY <1>0 DEF Fields
    <2> HIDE DEF h
    <2>2. /\ h.sm \in PortType /\ h.sm.auth_pae = m.auth_pae
          /\ h.sm.reAuthCount = m.reAuthCount /\ h.sm.eapolEap = m.eapolEap
      <3> HIDE DEF m
      <3>1. m \in PortType
        BY <1>0
      <3>2. [m EXCEPT !.portValid = TRUE, !.keyDone = TRUE] \in PortType
        BY <3>1 DEF PortType
      <3>3. h.sm \in PortType
        BY <2>1, <3>2, Zenon
      <3> QED
        BY <2>1, <3>1, <3>3 DEF PortType
    <2>3. h.eap_if \in EapIfType /\ h.eap_if.portEnabled = i.portEnabled
      <3> HIDE DEF i
      <3>1. i \in EapIfType
        BY <1>0
      <3>2. [i EXCEPT !.eapKeyAvailable = FALSE] \in EapIfType
        BY <3>1 DEF EapIfType
      <3>3. h.eap_if \in EapIfType
        BY <2>1, <3>2, Zenon
      <3> QED
        BY <2>1, <3>1, <3>3 DEF EapIfType
    <2>4. /\ h.hist \in HistType /\ h.hist.stale = w.stale /\ h.hist.cut = w.cut
          /\ h.hist.fresh = w.fresh
      BY <1>0, <2>1
    <2>5. MachineOK(h.eap)
      BY <1>0, <2>1
    <2> HIDE DEF m, i, w, e
    <2> QED
      BY <1>0, <2>1, <2>2, <2>3, <2>4, <2>5, EventCarries DEF h, m, i, w, e
  <1>2. RunOK(WpaDisconnect(g)) /\ Rested(WpaDisconnect(g))
    <2> DEFINE h == WpaDisconnect(g)
    <2>1. /\ DOMAIN h = Fields /\ h.eap = e
          /\ h.sm = [m EXCEPT !.portValid = FALSE]
          /\ h.eap_if = [i EXCEPT !.portEnabled = FALSE]
          /\ h.hist = w
          /\ h.wpa = "INITIALIZE" /\ h.sta = "removing" /\ h.queued = TRUE
          /\ h.pmksa = g.pmksa /\ h.awaiting = g.awaiting
      BY <1>0 DEF Fields, WpaDisconnect, ap_sta_disconnect
    <2> HIDE DEF h
    <2>2. /\ h.sm \in PortType /\ h.sm.auth_pae = m.auth_pae
          /\ h.sm.reAuthCount = m.reAuthCount /\ h.sm.eapolEap = m.eapolEap
      <3> HIDE DEF m
      <3>1. m \in PortType
        BY <1>0
      <3>2. [m EXCEPT !.portValid = FALSE] \in PortType
        BY <3>1 DEF PortType
      <3>3. h.sm \in PortType
        BY <2>1, <3>2, Zenon
      <3> QED
        BY <2>1, <3>1, <3>3 DEF PortType
    <2>3. h.eap_if \in EapIfType /\ h.eap_if.portEnabled = FALSE
      <3> HIDE DEF i
      <3>1. i \in EapIfType
        BY <1>0
      <3>2. [i EXCEPT !.portEnabled = FALSE] \in EapIfType
        BY <3>1 DEF EapIfType
      <3>3. h.eap_if \in EapIfType
        BY <2>1, <3>2, Zenon
      <3> QED
        BY <2>1, <3>1, <3>3 DEF EapIfType
    <2>4. /\ h.hist \in HistType /\ h.hist.stale = w.stale /\ h.hist.cut = w.cut
          /\ h.hist.fresh = w.fresh
      BY <1>0, <2>1
    <2>5. MachineOK(h.eap)
      BY <1>0, <2>1
    <2> HIDE DEF m, i, w, e
    <2> QED
      BY <1>0, <2>1, <2>2, <2>3, <2>4, <2>5, EventCarries DEF h, m, i, w, e
  <1> QED
    BY <1>1, <1>2

\* The parts of a RADIUS reply.
LEMMA RadiusEvents ==
    ASSUME NEW g, RunOK(g), Rested(g),
           NEW b \in BOOLEAN
    PROVE  /\ RunOK([g EXCEPT !.queued = TRUE, !.awaiting = FALSE])
                 /\ Rested([g EXCEPT !.queued = TRUE, !.awaiting = FALSE])
           /\ RunOK([g EXCEPT !.eap_if.aaaEapReq = TRUE, !.eap_if.aaaEapReqData = TRUE])
                 /\ Rested([g EXCEPT !.eap_if.aaaEapReq = TRUE,
                     !.eap_if.aaaEapReqData = TRUE])
           /\ RunOK([g EXCEPT !.eap_if.aaaSuccess = TRUE, !.eap_if.aaaEapReq = FALSE,
                     !.eap_if.aaaEapKeyAvailable = b])
                 /\ Rested([g EXCEPT !.eap_if.aaaSuccess = TRUE, !.eap_if.aaaEapReq = FALSE,
                     !.eap_if.aaaEapKeyAvailable = b])
           /\ RunOK([g EXCEPT !.sm.authFail = TRUE]) /\ Rested([g EXCEPT !.sm.authFail = TRUE])
           /\ RunOK(AccessReject(g)) /\ Rested(AccessReject(g))
           /\ RunOK(AccessChallenge(g)) /\ Rested(AccessChallenge(g))
  <1> DEFINE m == g.sm
             i == g.eap_if
             w == g.hist
             e == g.eap
  <1>0. /\ DOMAIN g = Fields /\ MachineOK(e) /\ m \in PortType /\ i \in EapIfType
        /\ w \in HistType /\ g.queued \in BOOLEAN /\ g.pmksa \in BOOLEAN
        /\ g.awaiting \in BOOLEAN /\ g.sta \in {"none", "assoc", "removing"}
        /\ g.wpa \in {"INITIALIZE", "AUTHENTICATION2", "PTKSTART", "PTKINITDONE"}
        /\ (m.eapolEap => w.fresh) /\ (g.sta = "assoc" => i.portEnabled)
    BY EapFrom DEF RunOK, Typed, Fresh, Enabled
  <1>1. RunOK([g EXCEPT !.queued = TRUE, !.awaiting = FALSE])
           /\ Rested([g EXCEPT !.queued = TRUE, !.awaiting = FALSE])
    <2> DEFINE h == [g EXCEPT !.queued = TRUE, !.awaiting = FALSE]
    <2>1. /\ DOMAIN h = Fields /\ h.eap = e
          /\ h.sm = m
          /\ h.eap_if = i
          /\ h.hist = w
          /\ h.wpa = g.wpa /\ h.sta = g.sta /\ h.queued = TRUE
          /\ h.pmksa = g.pmksa /\ h.awaiting = FALSE
      BY <1>0 DEF Fields
    <2> HIDE DEF h
    <2>2. /\ h.sm \in PortType /\ h.sm.auth_pae = m.auth_pae
          /\ h.sm.reAuthCount = m.reAuthCount /\ h.sm.eapolEap = m.eapolEap
      BY <1>0, <2>1
    <2>3. h.eap_if \in EapIfType /\ h.eap_if.portEnabled = i.portEnabled
      BY <1>0, <2>1
    <2>4. /\ h.hist \in HistType /\ h.hist.stale = w.stale /\ h.hist.cut = w.cut
          /\ h.hist.fresh = w.fresh
      BY <1>0, <2>1
    <2>5. MachineOK(h.eap)
      BY <1>0, <2>1
    <2> HIDE DEF m, i, w, e
    <2> QED
      BY <1>0, <2>1, <2>2, <2>3, <2>4, <2>5, EventCarries DEF h, m, i, w, e
  <1>2. RunOK([g EXCEPT !.eap_if.aaaEapReq = TRUE, !.eap_if.aaaEapReqData = TRUE])
           /\ Rested([g EXCEPT !.eap_if.aaaEapReq = TRUE, !.eap_if.aaaEapReqData = TRUE])
    <2> DEFINE h == [g EXCEPT !.eap_if.aaaEapReq = TRUE, !.eap_if.aaaEapReqData = TRUE]
    <2>1. /\ DOMAIN h = Fields /\ h.eap = e
          /\ h.sm = m
          /\ h.eap_if = [i EXCEPT !.aaaEapReq = TRUE, !.aaaEapReqData = TRUE]
          /\ h.hist = w
          /\ h.wpa = g.wpa /\ h.sta = g.sta /\ h.queued = g.queued
          /\ h.pmksa = g.pmksa /\ h.awaiting = g.awaiting
      BY <1>0 DEF Fields
    <2> HIDE DEF h
    <2>2. /\ h.sm \in PortType /\ h.sm.auth_pae = m.auth_pae
          /\ h.sm.reAuthCount = m.reAuthCount /\ h.sm.eapolEap = m.eapolEap
      BY <1>0, <2>1
    <2>3. h.eap_if \in EapIfType /\ h.eap_if.portEnabled = i.portEnabled
      <3> HIDE DEF i
      <3>1. i \in EapIfType
        BY <1>0
      <3>2. [i EXCEPT !.aaaEapReq = TRUE, !.aaaEapReqData = TRUE] \in EapIfType
        BY <3>1 DEF EapIfType
      <3>3. h.eap_if \in EapIfType
        BY <2>1, <3>2, Zenon
      <3> QED
        BY <2>1, <3>1, <3>3 DEF EapIfType
    <2>4. /\ h.hist \in HistType /\ h.hist.stale = w.stale /\ h.hist.cut = w.cut
          /\ h.hist.fresh = w.fresh
      BY <1>0, <2>1
    <2>5. MachineOK(h.eap)
      BY <1>0, <2>1
    <2> HIDE DEF m, i, w, e
    <2> QED
      BY <1>0, <2>1, <2>2, <2>3, <2>4, <2>5, EventCarries DEF h, m, i, w, e
  <1>3. RunOK([g EXCEPT !.eap_if.aaaSuccess = TRUE, !.eap_if.aaaEapReq = FALSE,
               !.eap_if.aaaEapKeyAvailable = b])
           /\ Rested([g EXCEPT !.eap_if.aaaSuccess = TRUE, !.eap_if.aaaEapReq = FALSE,
               !.eap_if.aaaEapKeyAvailable = b])
    <2> DEFINE h == [g EXCEPT !.eap_if.aaaSuccess = TRUE, !.eap_if.aaaEapReq = FALSE,
                           !.eap_if.aaaEapKeyAvailable = b]
    <2>1. /\ DOMAIN h = Fields /\ h.eap = e
          /\ h.sm = m
          /\ h.eap_if = [i EXCEPT !.aaaSuccess = TRUE, !.aaaEapReq = FALSE,
                    !.aaaEapKeyAvailable = b]
          /\ h.hist = w
          /\ h.wpa = g.wpa /\ h.sta = g.sta /\ h.queued = g.queued
          /\ h.pmksa = g.pmksa /\ h.awaiting = g.awaiting
      BY <1>0 DEF Fields
    <2> HIDE DEF h
    <2>2. /\ h.sm \in PortType /\ h.sm.auth_pae = m.auth_pae
          /\ h.sm.reAuthCount = m.reAuthCount /\ h.sm.eapolEap = m.eapolEap
      BY <1>0, <2>1
    <2>3. h.eap_if \in EapIfType /\ h.eap_if.portEnabled = i.portEnabled
      <3> HIDE DEF i
      <3>1. i \in EapIfType /\ b \in BOOLEAN
        BY <1>0
      <3>2. [i EXCEPT !.aaaSuccess = TRUE, !.aaaEapReq = FALSE,
                   !.aaaEapKeyAvailable = b] \in EapIfType
        BY <3>1 DEF EapIfType
      <3>3. h.eap_if \in EapIfType
        BY <2>1, <3>2, Zenon
      <3> QED
        BY <2>1, <3>1, <3>3 DEF EapIfType
    <2>4. /\ h.hist \in HistType /\ h.hist.stale = w.stale /\ h.hist.cut = w.cut
          /\ h.hist.fresh = w.fresh
      BY <1>0, <2>1
    <2>5. MachineOK(h.eap)
      BY <1>0, <2>1
    <2> HIDE DEF m, i, w, e
    <2> QED
      BY <1>0, <2>1, <2>2, <2>3, <2>4, <2>5, EventCarries DEF h, m, i, w, e
  <1>4. RunOK([g EXCEPT !.sm.authFail = TRUE]) /\ Rested([g EXCEPT !.sm.authFail = TRUE])
    <2> DEFINE h == [g EXCEPT !.sm.authFail = TRUE]
    <2>1. /\ DOMAIN h = Fields /\ h.eap = e
          /\ h.sm = [m EXCEPT !.authFail = TRUE]
          /\ h.eap_if = i
          /\ h.hist = w
          /\ h.wpa = g.wpa /\ h.sta = g.sta /\ h.queued = g.queued
          /\ h.pmksa = g.pmksa /\ h.awaiting = g.awaiting
      BY <1>0 DEF Fields
    <2> HIDE DEF h
    <2>2. /\ h.sm \in PortType /\ h.sm.auth_pae = m.auth_pae
          /\ h.sm.reAuthCount = m.reAuthCount /\ h.sm.eapolEap = m.eapolEap
      <3> HIDE DEF m
      <3>1. m \in PortType
        BY <1>0
      <3>2. [m EXCEPT !.authFail = TRUE] \in PortType
        BY <3>1 DEF PortType
      <3>3. h.sm \in PortType
        BY <2>1, <3>2, Zenon
      <3> QED
        BY <2>1, <3>1, <3>3 DEF PortType
    <2>3. h.eap_if \in EapIfType /\ h.eap_if.portEnabled = i.portEnabled
      BY <1>0, <2>1
    <2>4. /\ h.hist \in HistType /\ h.hist.stale = w.stale /\ h.hist.cut = w.cut
          /\ h.hist.fresh = w.fresh
      BY <1>0, <2>1
    <2>5. MachineOK(h.eap)
      BY <1>0, <2>1
    <2> HIDE DEF m, i, w, e
    <2> QED
      BY <1>0, <2>1, <2>2, <2>3, <2>4, <2>5, EventCarries DEF h, m, i, w, e
  <1>5. RunOK(AccessReject(g)) /\ Rested(AccessReject(g))
    <2> DEFINE h == AccessReject(g)
    <2>1. /\ DOMAIN h = Fields /\ h.eap = e
          /\ h.sm = m
          /\ h.eap_if = [i EXCEPT !.aaaFail = TRUE, !.aaaEapReq = FALSE]
          /\ h.hist = w
          /\ h.wpa = g.wpa /\ h.sta = g.sta /\ h.queued = g.queued
          /\ h.pmksa = g.pmksa /\ h.awaiting = g.awaiting
      BY <1>0 DEF Fields, AccessReject
    <2> HIDE DEF h
    <2>2. /\ h.sm \in PortType /\ h.sm.auth_pae = m.auth_pae
          /\ h.sm.reAuthCount = m.reAuthCount /\ h.sm.eapolEap = m.eapolEap
      BY <1>0, <2>1
    <2>3. h.eap_if \in EapIfType /\ h.eap_if.portEnabled = i.portEnabled
      <3> HIDE DEF i
      <3>1. i \in EapIfType
        BY <1>0
      <3>2. [i EXCEPT !.aaaFail = TRUE, !.aaaEapReq = FALSE] \in EapIfType
        BY <3>1 DEF EapIfType
      <3>3. h.eap_if \in EapIfType
        BY <2>1, <3>2, Zenon
      <3> QED
        BY <2>1, <3>1, <3>3 DEF EapIfType
    <2>4. /\ h.hist \in HistType /\ h.hist.stale = w.stale /\ h.hist.cut = w.cut
          /\ h.hist.fresh = w.fresh
      BY <1>0, <2>1
    <2>5. MachineOK(h.eap)
      BY <1>0, <2>1
    <2> HIDE DEF m, i, w, e
    <2> QED
      BY <1>0, <2>1, <2>2, <2>3, <2>4, <2>5, EventCarries DEF h, m, i, w, e
  <1>6. RunOK(AccessChallenge(g)) /\ Rested(AccessChallenge(g))
    <2> DEFINE h == AccessChallenge(g)
    <2>1. /\ DOMAIN h = Fields /\ h.eap = e
          /\ h.sm = m
          /\ h.eap_if = [i EXCEPT !.aaaEapReq = TRUE]
          /\ h.hist = w
          /\ h.wpa = g.wpa /\ h.sta = g.sta /\ h.queued = g.queued
          /\ h.pmksa = g.pmksa /\ h.awaiting = g.awaiting
      BY <1>0 DEF Fields, AccessChallenge
    <2> HIDE DEF h
    <2>2. /\ h.sm \in PortType /\ h.sm.auth_pae = m.auth_pae
          /\ h.sm.reAuthCount = m.reAuthCount /\ h.sm.eapolEap = m.eapolEap
      BY <1>0, <2>1
    <2>3. h.eap_if \in EapIfType /\ h.eap_if.portEnabled = i.portEnabled
      <3> HIDE DEF i
      <3>1. i \in EapIfType
        BY <1>0
      <3>2. [i EXCEPT !.aaaEapReq = TRUE] \in EapIfType
        BY <3>1 DEF EapIfType
      <3>3. h.eap_if \in EapIfType
        BY <2>1, <3>2, Zenon
      <3> QED
        BY <2>1, <3>1, <3>3 DEF EapIfType
    <2>4. /\ h.hist \in HistType /\ h.hist.stale = w.stale /\ h.hist.cut = w.cut
          /\ h.hist.fresh = w.fresh
      BY <1>0, <2>1
    <2>5. MachineOK(h.eap)
      BY <1>0, <2>1
    <2> HIDE DEF m, i, w, e
    <2> QED
      BY <1>0, <2>1, <2>2, <2>3, <2>4, <2>5, EventCarries DEF h, m, i, w, e
  <1> QED
    BY <1>1, <1>2, <1>3, <1>4, <1>5, <1>6

\* A tick of the timers.
Ticked(g) ==
    LET dec(x) == IF x > 0 THEN x - 1 ELSE 0
    IN [g EXCEPT !.sm.aWhile = dec(@), !.sm.quietWhile = dec(@),
                 !.sm.reAuthWhen = dec(@), !.eap_if.retransWhile = dec(@)]

\* A tick of the timers keeps the state of a run.
LEMMA TickEvent ==
    ASSUME NEW g, RunOK(g), Rested(g), conf \in Confs, NEW h, h = Ticked(g)
    PROVE  RunOK(h) /\ Rested(h)
  <1> DEFINE m == g.sm
             i == g.eap_if
             dec(x) == IF x > 0 THEN x - 1 ELSE 0
             p == dec(m.aWhile)
             q == dec(m.quietWhile)
             s == dec(m.reAuthWhen)
             r == dec(i.retransWhile)
  <1>0. /\ DOMAIN g = Fields /\ MachineOK(g.eap) /\ m \in PortType /\ i \in EapIfType
        /\ g.hist \in HistType /\ g.queued \in BOOLEAN /\ g.pmksa \in BOOLEAN
        /\ g.awaiting \in BOOLEAN /\ g.sta \in {"none", "assoc", "removing"}
        /\ g.wpa \in {"INITIALIZE", "AUTHENTICATION2", "PTKSTART", "PTKINITDONE"}
        /\ (m.eapolEap => g.hist.fresh) /\ (g.sta = "assoc" => i.portEnabled)
    BY EapFrom DEF RunOK, Typed, Fresh, Enabled
  <1>1. /\ p \in 0 .. serverTimeout /\ q \in 0 .. quietPeriod
        /\ s \in 0 .. conf.eap_reauth_period
    <2>1. /\ m.aWhile \in 0 .. serverTimeout /\ m.quietWhile \in 0 .. quietPeriod
          /\ m.reAuthWhen \in 0 .. conf.eap_reauth_period
      BY <1>0 DEF PortType
    <2>2. serverTimeout \in Nat /\ quietPeriod \in Nat /\ conf.eap_reauth_period \in Nat
      BY EapolAssumption DEF ConfType
    <2> HIDE DEF m
    <2> QED
      BY <2>1, <2>2
  <1>2. r \in Nat
    BY <1>0 DEF EapIfType
  <1>3. /\ DOMAIN h = Fields /\ h.eap = g.eap
        /\ h.sm = [m EXCEPT !.aWhile = p, !.quietWhile = q, !.reAuthWhen = s]
        /\ h.eap_if = [i EXCEPT !.retransWhile = r]
        /\ h.hist = g.hist /\ h.wpa = g.wpa /\ h.sta = g.sta /\ h.queued = g.queued
        /\ h.pmksa = g.pmksa /\ h.awaiting = g.awaiting
    <2>1. h = [g EXCEPT !.sm.aWhile = p, !.sm.quietWhile = q, !.sm.reAuthWhen = s,
                        !.eap_if.retransWhile = r]
      BY <1>0 DEF Fields, PortType, Ticked
    <2> HIDE DEF p, q, s, r
    <2> QED
      BY <1>0, <2>1 DEF Fields
  <1> HIDE DEF p, q, s, r, m, i
  <1>4. /\ h.sm \in PortType /\ h.sm.auth_pae = m.auth_pae
        /\ h.sm.reAuthCount = m.reAuthCount /\ h.sm.eapolEap = m.eapolEap
    <2>1. /\ m \in PortType /\ p \in 0 .. serverTimeout /\ q \in 0 .. quietPeriod
          /\ s \in 0 .. conf.eap_reauth_period
      BY <1>0, <1>1
    <2>2. [m EXCEPT !.aWhile = p, !.quietWhile = q, !.reAuthWhen = s] \in PortType
      BY <2>1 DEF PortType
    <2> DEFINE x == [m EXCEPT !.aWhile = p, !.quietWhile = q, !.reAuthWhen = s]
    <2>3. /\ x.auth_pae = m.auth_pae /\ x.reAuthCount = m.reAuthCount
          /\ x.eapolEap = m.eapolEap
      <3>1. m \in PortType
        BY <2>1
      <3> QED
        BY <3>1 DEF PortType
    <2>4. h.sm = x
      BY <1>3
    <2> QED
      BY <2>2, <2>3, <2>4, Zenon
  <1>5. h.eap_if \in EapIfType /\ h.eap_if.portEnabled = i.portEnabled
    BY <1>0, <1>2, <1>3 DEF EapIfType
  <1>6. /\ h.sm.auth_pae = g.sm.auth_pae /\ h.sm.reAuthCount = g.sm.reAuthCount
        /\ h.sm.eapolEap => h.hist.fresh
        /\ h.eap_if.portEnabled => g.eap_if.portEnabled
        /\ h.sta = "assoc" => h.eap_if.portEnabled
    BY <1>0, <1>3, <1>4, <1>5 DEF m, i
  <1>7. h.sm \in PortType /\ h.eap_if \in EapIfType
    BY <1>4, <1>5
  <1>8. /\ DOMAIN h = Fields /\ MachineOK(h.eap) /\ h.sm \in PortType /\ h.eap_if \in EapIfType
        /\ h.hist \in HistType
        /\ h.wpa \in {"INITIALIZE", "AUTHENTICATION2", "PTKSTART", "PTKINITDONE"}
        /\ h.sta \in {"none", "assoc", "removing"}
        /\ h.queued \in BOOLEAN /\ h.pmksa \in BOOLEAN /\ h.awaiting \in BOOLEAN
        /\ h.hist.stale = g.hist.stale /\ h.hist.cut = g.hist.cut
    BY <1>0, <1>3, <1>7, Zenon
  <1> QED
    BY <1>6, <1>8, EventCarries

\* The entry of a station that has just been created or freed.
LEMMA BlankStation ==
    ASSUME NEW g, RunOK(g), conf \in Confs, NEW h, DOMAIN h = Fields,
           h.sm = eapol_auth_alloc, MachineOK(h.eap), h.eap_if \in EapIfType,
           h.sta = "assoc" => h.eap_if.portEnabled, h.sta \in {"none", "assoc"},
           h.wpa \in {"INITIALIZE", "AUTHENTICATION2", "PTKSTART", "PTKINITDONE"},
           h.queued \in BOOLEAN, h.pmksa \in BOOLEAN, h.awaiting \in BOOLEAN,
           h.hist \in HistType, h.hist.stale = g.hist.stale
    PROVE  RunOK(h) /\ Rested(h)
  <1>1. /\ h.sm \in PortType /\ h.sm.auth_pae = "INITIALIZE" /\ h.sm.reAuthCount = 0
        /\ h.sm.eapolEap = FALSE
    BY NewStation
  <1>2. Typed(h)
    BY <1>1, EapFrom DEF Typed
  <1>3. Fresh(h) /\ Enabled(h)
    BY <1>1 DEF Fresh, Enabled, RunOK
  <1>4. Counted(h) /\ Rested(h)
    BY <1>1, EapolAssumption DEF Counted, Rested
  <1> QED
    BY <1>2, <1>3, <1>4 DEF RunOK

\* The shortcut for a cached PMK: AUTHENTICATING is entered as it would be from
\* CONNECTING, with the counter not exhausted.
LEMMA CachedEvent ==
    ASSUME NEW g, RunOK(g), Rested(g), g.eap_if.portEnabled
    PROVE  RunOK(SetCached(g)) /\ Rested(SetCached(g))
  <1> DEFINE h == SetCached(g)
             m == g.sm
             i == g.eap_if
  <1>0. /\ Typed(g) /\ DOMAIN g = Fields /\ m \in PortType /\ i \in EapIfType
        /\ g.hist \in HistType /\ g.pmksa \in BOOLEAN
        /\ g.sta \in {"none", "assoc", "removing"}
    BY PartsOf DEF RunOK
  <1>1. /\ DOMAIN h = Fields /\ h.eap = g.eap /\ h.hist = g.hist /\ h.wpa = g.wpa
        /\ h.sta = g.sta /\ h.queued = g.queued /\ h.pmksa = g.pmksa /\ h.awaiting = g.awaiting
        /\ h.eap_if = [i EXCEPT !.eapKeyAvailable = TRUE]
        /\ h.sm = [m EXCEPT !.keyRun = TRUE, !.auth_pae = "AUTHENTICATING",
                            !.be_auth = "SUCCESS", !.authSuccess = TRUE]
    BY <1>0 DEF SetCached, Fields
  <1> HIDE DEF h
  <1>2. /\ h.sm \in PortType /\ h.sm.auth_pae = "AUTHENTICATING"
        /\ h.sm.reAuthCount = m.reAuthCount /\ h.sm.eapolEap = m.eapolEap
    <2> HIDE DEF m
    <2>1. m \in PortType
      BY <1>0
    <2>2. [m EXCEPT !.keyRun = TRUE, !.auth_pae = "AUTHENTICATING",
                    !.be_auth = "SUCCESS", !.authSuccess = TRUE] \in PortType
      BY <2>1 DEF PortType
    <2>3. h.sm \in PortType
      BY <1>1, <2>2, Zenon
    <2> QED
      BY <1>1, <2>1, <2>3 DEF PortType
  <1>3. h.eap_if \in EapIfType /\ h.eap_if.portEnabled = i.portEnabled
    <2> HIDE DEF i
    <2> QED
      BY <1>0, <1>1 DEF EapIfType
  <1>4. Typed(h)
    BY <1>0, <1>1, <1>2, <1>3, TypedFrom
  <1>5. g.hist.cut \/ m.reAuthCount <= reAuthMax
    BY DEF RunOK, Counted, Rested
  <1>6. m.reAuthCount \in Nat /\ reAuthMax \in Nat
    BY <1>0, EapolAssumption DEF PortType
  <1>7. Fresh(h) /\ Enabled(h)
    BY <1>1, <1>2, <1>3 DEF RunOK, Fresh, Enabled
  <1>8. Counted(h) /\ Rested(h)
    BY <1>1, <1>2, <1>5, <1>6 DEF Counted, Rested
  <1> QED
    BY <1>4, <1>7, <1>8 DEF RunOK, h

\* A run starts with the history of the last one cleared.
LEMMA RunStart ==
    ASSUME NEW g, RunOK(g), Rested(g)
    PROVE  LET h == [g EXCEPT !.hist.left = FALSE] IN RunOK(h) /\ Rested(h)
  <1> DEFINE w == g.hist
             h == [g EXCEPT !.hist.left = FALSE]
  <1>0. /\ DOMAIN g = Fields /\ MachineOK(g.eap) /\ g.sm \in PortType /\ g.eap_if \in EapIfType
        /\ w \in HistType /\ g.queued \in BOOLEAN /\ g.pmksa \in BOOLEAN
        /\ g.awaiting \in BOOLEAN /\ g.sta \in {"none", "assoc", "removing"}
        /\ g.wpa \in {"INITIALIZE", "AUTHENTICATION2", "PTKSTART", "PTKINITDONE"}
        /\ (g.sm.eapolEap => w.fresh) /\ (g.sta = "assoc" => g.eap_if.portEnabled)
    BY EapFrom DEF RunOK, Typed, Fresh, Enabled
  <1>1. /\ DOMAIN h = Fields /\ h.eap = g.eap /\ h.sm = g.sm /\ h.eap_if = g.eap_if
        /\ h.hist = [w EXCEPT !.left = FALSE]
        /\ h.wpa = g.wpa /\ h.sta = g.sta /\ h.queued = g.queued
        /\ h.pmksa = g.pmksa /\ h.awaiting = g.awaiting
    BY <1>0 DEF Fields
  <1> HIDE DEF h
  <1>2. /\ h.hist \in HistType /\ h.hist.stale = g.hist.stale /\ h.hist.cut = g.hist.cut
        /\ h.hist.fresh = g.hist.fresh
    BY <1>0, <1>1 DEF HistType
  <1> HIDE DEF w
  <1>3. h.sm.eapolEap => h.hist.fresh
    BY <1>0, <1>1, <1>2 DEF w
  <1>4. RunOK(h) /\ Rested(h)
    BY <1>0, <1>1, <1>2, <1>3, EventCarries
  <1> QED
    BY <1>4 DEF h

\* A station that associates anew.
LEMMA AssociateEvent ==
    ASSUME NEW g, RunOK(g), conf \in Confs, NEW c \in BOOLEAN, NEW q \in BOOLEAN
    PROVE  LET h == [g EXCEPT !.sm = eapol_auth_alloc,
                         !.eap = eap_sm_notify_cached(eap_server_sm_init(conf.eap_server), c),
                         !.eap_if = [EapIfInit EXCEPT !.portEnabled = TRUE],
                         !.wpa = IF conf.wpa THEN "AUTHENTICATION2" ELSE @,
                         !.sta = "assoc", !.queued = q]
           IN  RunOK(h) /\ Rested(h) /\ h.eap_if.portEnabled
  <1> DEFINE x == eap_sm_notify_cached(eap_server_sm_init(conf.eap_server), c)
             i == [EapIfInit EXCEPT !.portEnabled = TRUE]
             u == IF conf.wpa THEN "AUTHENTICATION2" ELSE g.wpa
             h == [g EXCEPT !.sm = eapol_auth_alloc, !.eap = x, !.eap_if = i,
                            !.wpa = IF conf.wpa THEN "AUTHENTICATION2" ELSE @,
                            !.sta = "assoc", !.queued = q]
  <1>0. /\ DOMAIN g = Fields /\ g.hist \in HistType /\ g.pmksa \in BOOLEAN
        /\ g.awaiting \in BOOLEAN
        /\ g.wpa \in {"INITIALIZE", "AUTHENTICATION2", "PTKSTART", "PTKINITDONE"}
    BY DEF RunOK, Typed
  <1>1. MachineOK(x) /\ i \in EapIfType /\ i.portEnabled = TRUE
    BY NewStation, MachineEvents
  <1>2. u \in {"INITIALIZE", "AUTHENTICATION2", "PTKSTART", "PTKINITDONE"}
    BY <1>0
  <1> HIDE DEF x, i
  <1>3. /\ DOMAIN h = Fields /\ h.sm = eapol_auth_alloc /\ h.eap = x /\ h.eap_if = i
        /\ h.wpa = u /\ h.sta = "assoc" /\ h.queued = q /\ h.hist = g.hist
        /\ h.pmksa = g.pmksa /\ h.awaiting = g.awaiting
    BY <1>0 DEF Fields
  <1> HIDE DEF h, u
  <1>4. /\ MachineOK(h.eap) /\ h.eap_if \in EapIfType /\ h.eap_if.portEnabled
        /\ h.sta \in {"none", "assoc"} /\ h.hist \in HistType /\ h.hist.stale = g.hist.stale
        /\ h.queued \in BOOLEAN /\ h.pmksa \in BOOLEAN /\ h.awaiting \in BOOLEAN
        /\ h.wpa \in {"INITIALIZE", "AUTHENTICATION2", "PTKSTART", "PTKINITDONE"}
    BY <1>0, <1>1, <1>2, <1>3
  <1>5. RunOK(h) /\ Rested(h)
    BY <1>3, <1>4, BlankStation
  <1> QED
    BY <1>4, <1>5 DEF h, x, i

\* The entry of a station is freed.
LEMMA FreeEvent ==
    ASSUME NEW g, RunOK(g), conf \in Confs
    PROVE  LET h == [g EXCEPT !.sm = eapol_auth_alloc, !.eap_if = EapIfInit,
                         !.eap = eap_server_sm_init(conf.eap_server),
                         !.wpa = "INITIALIZE", !.sta = "none", !.queued = FALSE,
                         !.awaiting = FALSE, !.hist.fresh = FALSE]
           IN  RunOK(h) /\ Rested(h)
  <1> DEFINE x == eap_server_sm_init(conf.eap_server)
             w == g.hist
             h == [g EXCEPT !.sm = eapol_auth_alloc, !.eap_if = EapIfInit, !.eap = x,
                         !.wpa = "INITIALIZE", !.sta = "none", !.queued = FALSE,
                         !.awaiting = FALSE, !.hist.fresh = FALSE]
  <1>0. DOMAIN g = Fields /\ w \in HistType /\ g.pmksa \in BOOLEAN
    BY DEF RunOK, Typed
  <1>1. MachineOK(x) /\ EapIfInit \in EapIfType
    BY NewStation
  <1> HIDE DEF x
  <1>3. /\ DOMAIN h = Fields /\ h.sm = eapol_auth_alloc /\ h.eap = x /\ h.eap_if = EapIfInit
        /\ h.wpa = "INITIALIZE" /\ h.sta = "none" /\ h.queued = FALSE
        /\ h.hist = [w EXCEPT !.fresh = FALSE]
        /\ h.pmksa = g.pmksa /\ h.awaiting = FALSE
    BY <1>0 DEF Fields
  <1> HIDE DEF h
  <1>4. h.hist \in HistType /\ h.hist.stale = g.hist.stale
    BY <1>0, <1>3 DEF HistType
  <1>5. /\ MachineOK(h.eap) /\ h.eap_if \in EapIfType
        /\ h.sta \in {"none", "assoc"} /\ h.sta # "assoc"
        /\ h.queued \in BOOLEAN /\ h.pmksa \in BOOLEAN /\ h.awaiting \in BOOLEAN
        /\ h.wpa \in {"INITIALIZE", "AUTHENTICATION2", "PTKSTART", "PTKINITDONE"}
    BY <1>0, <1>1, <1>3
  <1>6. RunOK(h) /\ Rested(h)
    BY <1>3, <1>4, <1>5, BlankStation
  <1> QED
    BY <1>6 DEF h, x

\* A station that associates again without a cached PMK is asked to authenticate.
LEMMA ReauthenticateEvent ==
    ASSUME NEW g, RunOK(g), Rested(g)
    PROVE  RunOK([g EXCEPT !.sm.reAuthenticate = TRUE, !.queued = TRUE])
              /\ Rested([g EXCEPT !.sm.reAuthenticate = TRUE, !.queued = TRUE])
  <1> DEFINE m == g.sm
             i == g.eap_if
             w == g.hist
             e == g.eap
  <1>0. /\ DOMAIN g = Fields /\ MachineOK(e) /\ m \in PortType /\ i \in EapIfType
        /\ w \in HistType /\ g.queued \in BOOLEAN /\ g.pmksa \in BOOLEAN
        /\ g.awaiting \in BOOLEAN /\ g.sta \in {"none", "assoc", "removing"}
        /\ g.wpa \in {"INITIALIZE", "AUTHENTICATION2", "PTKSTART", "PTKINITDONE"}
        /\ (m.eapolEap => w.fresh) /\ (g.sta = "assoc" => i.portEnabled)
    BY EapFrom DEF RunOK, Typed, Fresh, Enabled
  <1>1. RunOK([g EXCEPT !.sm.reAuthenticate = TRUE, !.queued = TRUE])
           /\ Rested([g EXCEPT !.sm.reAuthenticate = TRUE, !.queued = TRUE])
    <2> DEFINE h == [g EXCEPT !.sm.reAuthenticate = TRUE, !.queued = TRUE]
    <2>1. /\ DOMAIN h = Fields /\ h.eap = e
          /\ h.sm = [m EXCEPT !.reAuthenticate = TRUE]
          /\ h.eap_if = i
          /\ h.hist = w
          /\ h.wpa = g.wpa /\ h.sta = g.sta /\ h.queued = TRUE
          /\ h.pmksa = g.pmksa /\ h.awaiting = g.awaiting
      BY <1>0 DEF Fields
    <2> HIDE DEF h
    <2>2. /\ h.sm \in PortType /\ h.sm.auth_pae = m.auth_pae
          /\ h.sm.reAuthCount = m.reAuthCount /\ h.sm.eapolEap = m.eapolEap
      <3> HIDE DEF m
      <3>1. m \in PortType
        BY <1>0
      <3>2. [m EXCEPT !.reAuthenticate = TRUE] \in PortType
        BY <3>1 DEF PortType
      <3>3. h.sm \in PortType
        BY <2>1, <3>2, Zenon
      <3> QED
        BY <2>1, <3>1, <3>3 DEF PortType
    <2>3. h.eap_if \in EapIfType /\ h.eap_if.portEnabled = i.portEnabled
      BY <1>0, <2>1
    <2>4. /\ h.hist \in HistType /\ h.hist.stale = w.stale /\ h.hist.cut = w.cut
          /\ h.hist.fresh = w.fresh
      BY <1>0, <2>1
    <2>5. MachineOK(h.eap)
      BY <1>0, <2>1
    <2> HIDE DEF m, i, w, e
    <2> QED
      BY <1>0, <2>1, <2>2, <2>3, <2>4, <2>5, EventCarries DEF h, m, i, w, e
  <1> QED
    BY <1>1

\* A station that is associated associates again: its port is enabled as it was,
\* and the EAP machine may be told of a cached PMK.
LEMMA ReassociateEvent ==
    ASSUME NEW g, RunOK(g), Rested(g), g.sta = "assoc", NEW c \in BOOLEAN
    PROVE  LET h == [g EXCEPT !.eap_if.portEnabled = TRUE, !.eap = eap_sm_notify_cached(@, c)]
           IN  RunOK(h) /\ Rested(h) /\ h.eap_if.portEnabled
  <1> DEFINE m == g.sm
             i == g.eap_if
             w == g.hist
             e == g.eap
  <1>0. /\ DOMAIN g = Fields /\ MachineOK(e) /\ m \in PortType /\ i \in EapIfType
        /\ w \in HistType /\ g.queued \in BOOLEAN /\ g.pmksa \in BOOLEAN
        /\ g.awaiting \in BOOLEAN /\ g.sta \in {"none", "assoc", "removing"}
        /\ g.wpa \in {"INITIALIZE", "AUTHENTICATION2", "PTKSTART", "PTKINITDONE"}
        /\ (m.eapolEap => w.fresh) /\ (g.sta = "assoc" => i.portEnabled)
    BY EapFrom DEF RunOK, Typed, Fresh, Enabled
  <1> DEFINE h == [g EXCEPT !.eap_if.portEnabled = TRUE, !.eap = eap_sm_notify_cached(@, c)]
             x == eap_sm_notify_cached(e, c)
  <1>1. MachineOK(x)
    BY <1>0, MachineEvents
  <1>2. /\ DOMAIN h = Fields /\ h.eap = x /\ h.sm = m
        /\ h.eap_if = [i EXCEPT !.portEnabled = TRUE]
        /\ h.hist = w /\ h.wpa = g.wpa /\ h.sta = g.sta /\ h.queued = g.queued
        /\ h.pmksa = g.pmksa /\ h.awaiting = g.awaiting
    BY <1>0 DEF Fields
  <1> HIDE DEF h, x
  <1>3. h.eap_if \in EapIfType /\ h.eap_if.portEnabled = TRUE
    <2> HIDE DEF i
    <2>1. i \in EapIfType
      BY <1>0
    <2>2. [i EXCEPT !.portEnabled = TRUE] \in EapIfType
      BY <2>1 DEF EapIfType
    <2>3. h.eap_if \in EapIfType
      BY <1>2, <2>2, Zenon
    <2> QED
      BY <1>2, <2>1, <2>3 DEF EapIfType
  <1>4. /\ MachineOK(h.eap) /\ h.sm \in PortType /\ h.hist \in HistType
        /\ h.wpa \in {"INITIALIZE", "AUTHENTICATION2", "PTKSTART", "PTKINITDONE"}
        /\ h.sta \in {"none", "assoc", "removing"}
        /\ h.queued \in BOOLEAN /\ h.pmksa \in BOOLEAN /\ h.awaiting \in BOOLEAN
        /\ h.hist.stale = g.hist.stale /\ h.hist.cut = g.hist.cut
        /\ h.sm.auth_pae = g.sm.auth_pae /\ h.sm.reAuthCount = g.sm.reAuthCount
    BY <1>0, <1>1, <1>2
  <1>5. /\ h.sm.eapolEap => h.hist.fresh
        /\ h.eap_if.portEnabled => g.eap_if.portEnabled
        /\ h.sta = "assoc" => h.eap_if.portEnabled
    BY <1>0, <1>2, <1>3
  <1>6. RunOK(h) /\ Rested(h)
    BY <1>2, <1>3, <1>4, <1>5, EventCarries
  <1> QED
    BY <1>3, <1>6 DEF h

-----------------------------------------------------------------------------
(* The inductive invariant.                                                *)

\* Between two steps the state is one that a run may be called in and may
\* leave behind.
EapolInv ==
    /\ RunOK(Now) /\ Rested(Now)
    /\ conf \in Confs /\ running \in BOOLEAN /\ events \in 0 .. MaxEvents[conf]

\* A step that stores the state g leaves the variables as good as g is.
LEMMA NowFrom ==
    ASSUME NEW g, RunOK(g), Rested(g), Becomes(g), conf' = conf
    PROVE  RunOK(Now)' /\ Rested(Now)'
  <1>1. /\ DOMAIN Now' = Fields /\ Now'.sm = g.sm /\ Now'.eap = g.eap /\ Now'.eap_if = g.eap_if
        /\ Now'.wpa = g.wpa /\ Now'.sta = g.sta /\ Now'.queued = g.queued
        /\ Now'.pmksa = g.pmksa /\ Now'.awaiting = g.awaiting /\ Now'.hist = g.hist
    BY DEF Now, Becomes, Fields
  <1>2. PortType' = PortType
    BY DEF PortType
  <1>3. DOMAIN g = Fields /\ EapOK(g) /\ Typed(g)
    BY DEF RunOK, Typed
  <1>4. EapOK(Now')
    BY <1>1, <1>3, EapFrom
  <1>5. Typed(Now)'
    BY <1>1, <1>2, <1>3, <1>4 DEF Typed
  <1>6. Fresh(Now)' /\ Enabled(Now)'
    BY <1>1 DEF RunOK, Fresh, Enabled
  <1>7. Counted(Now)' /\ Rested(Now)'
    BY <1>1 DEF RunOK, Counted, Rested
  <1> QED
    BY <1>5, <1>6, <1>7 DEF RunOK

\* The first state: no station.
LEMMA EapolInit == Init => EapolInv
  <1> SUFFICES ASSUME Init PROVE EapolInv
    OBVIOUS
  <1>1. conf \in Confs /\ running \in BOOLEAN
    BY DEF Init
  <1>2. events \in 0 .. MaxEvents[conf]
    BY EapolAssumption DEF Init
  <1>3. /\ DOMAIN Now = Fields /\ Now.sm = eapol_auth_alloc
        /\ Now.eap = eap_server_sm_init(conf.eap_server) /\ Now.eap_if = EapIfInit
        /\ Now.wpa = "INITIALIZE" /\ Now.sta = "none" /\ Now.queued = FALSE
        /\ Now.pmksa = FALSE /\ Now.awaiting = FALSE /\ Now.hist = hist
    BY DEF Init, Now, Fields
  <1>4. hist \in HistType /\ hist.stale = FALSE
    BY DEF Init, HistType
  <1> HIDE DEF Init
  <1>5. /\ eapol_auth_alloc \in PortType /\ EapIfInit \in EapIfType
        /\ MachineOK(eap_server_sm_init(conf.eap_server))
        /\ eapol_auth_alloc.auth_pae = "INITIALIZE" /\ eapol_auth_alloc.reAuthCount = 0
        /\ eapol_auth_alloc.eapolEap = FALSE
    BY <1>1, NewStation
  <1>6. Typed(Now)
    BY <1>3, <1>4, <1>5, EapFrom DEF Typed
  <1>7. Fresh(Now) /\ Enabled(Now)
    BY <1>3, <1>4, <1>5 DEF Fresh, Enabled
  <1>8. Counted(Now) /\ Rested(Now)
    BY <1>3, <1>5, EapolAssumption DEF Counted, Rested
  <1> QED
    BY <1>1, <1>2, <1>6, <1>7, <1>8 DEF EapolInv, RunOK

\* An event that stores such a state keeps the invariant.
LEMMA EventStep ==
    ASSUME EapolInv, NEW counted \in BOOLEAN, Event(counted), running' \in BOOLEAN,
           NEW g, RunOK(g), Rested(g), Becomes(g)
    PROVE  EapolInv'
  <1>1. conf' = conf /\ conf \in Confs
    BY DEF Event, EapolInv
  <1>2. MaxEvents[conf] \in Nat /\ events \in 0 .. MaxEvents[conf]
    BY <1>1, EapolAssumption DEF EapolInv
  <1>3. events' \in 0 .. MaxEvents[conf]
    BY <1>2 DEF Event
  <1>4. RunOK(Now)' /\ Rested(Now)'
    BY <1>1, NowFrom
  <1> QED
    BY <1>1, <1>3, <1>4 DEF EapolInv

\* Every step keeps the invariant.
LEMMA EapolStep == EapolInv /\ [Next]_vars => EapolInv'
  <1> SUFFICES ASSUME EapolInv, [Next]_vars PROVE EapolInv'
    OBVIOUS
  <1>0. /\ RunOK(Now) /\ Rested(Now) /\ conf \in Confs
        /\ running \in BOOLEAN /\ events \in 0 .. MaxEvents[conf]
        /\ Now.sta = sta
    BY DEF EapolInv, Now
  <1>1. CASE StepRun
    <2>1. PICK g \in eapol_sm_step_run([Now EXCEPT !.hist.left = FALSE]) : Becomes(g)
      BY <1>1 DEF StepRun
    <2>2. RunOK([Now EXCEPT !.hist.left = FALSE])
      BY <1>0, RunStart
    <2>3. RunOK(g) /\ Rested(g)
      BY <1>0, <2>2, WholeRunOK
    <2>4. conf' = conf /\ events' = events /\ running' = FALSE
      BY <1>1 DEF StepRun
    <2>5. RunOK(Now)' /\ Rested(Now)'
      BY <2>1, <2>3, <2>4, NowFrom
    <2> QED
      BY <1>0, <2>4, <2>5 DEF EapolInv
  <1>2. CASE eapol_port_timers_tick
    <2>1. Event(FALSE) /\ Becomes(Ticked(Now)) /\ running' = TRUE
      BY <1>2 DEF eapol_port_timers_tick, Ticked
    <2>2. RunOK(Ticked(Now)) /\ Rested(Ticked(Now))
      BY <1>0, TickEvent
    <2> QED
      BY <2>1, <2>2, EventStep
  <1>3. CASE eapol_sm_step_cb
    <2> DEFINE h == [Now EXCEPT !.queued = FALSE]
    <2>1. Event(FALSE) /\ Becomes(h) /\ running' = TRUE
      BY <1>3 DEF eapol_sm_step_cb
    <2>2. RunOK(h) /\ Rested(h)
      BY <1>0, QueueEvents
    <2> HIDE DEF h
    <2> QED
      BY <2>1, <2>2, EventStep
  <1>4. ASSUME NEW cached \in BOOLEAN, NEW started \in BOOLEAN, Associate(cached, started)
        PROVE  EapolInv'
    <2> DEFINE k == [Now EXCEPT !.sm = eapol_auth_alloc,
                         !.eap = eap_sm_notify_cached(eap_server_sm_init(conf.eap_server),
                                                      cached),
                         !.eap_if = [EapIfInit EXCEPT !.portEnabled = TRUE],
                         !.wpa = IF conf.wpa THEN "AUTHENTICATION2" ELSE @,
                         !.sta = "assoc", !.queued = ~cached \/ ~started]
               h == IF cached THEN SetCached(k) ELSE k
    <2>1. Event(TRUE) /\ Becomes(wpa_sm_step(h)) /\ running' = running
      BY <1>4 DEF Associate
    <2>2. (~cached \/ ~started) \in BOOLEAN
      OBVIOUS
    <2>3. RunOK(k) /\ Rested(k) /\ k.eap_if.portEnabled
      BY <1>0, <2>2, AssociateEvent
    <2> HIDE DEF k
    <2>4. RunOK(h) /\ Rested(h)
      BY <2>3, CachedEvent
    <2> HIDE DEF h
    <2>5. RunOK(wpa_sm_step(h)) /\ Rested(wpa_sm_step(h))
      BY <2>4, WpaStepOK
    <2> QED
      BY <1>0, <2>1, <2>5, EventStep
  <1>5. ASSUME NEW cached \in BOOLEAN, Reassociate(cached)
        PROVE  EapolInv'
    <2> DEFINE k == [Now EXCEPT !.eap_if.portEnabled = TRUE,
                                !.eap = eap_sm_notify_cached(@, cached)]
               h == IF cached THEN SetCached(k)
                    ELSE [k EXCEPT !.sm.reAuthenticate = TRUE, !.queued = TRUE]
    <2>1. Event(TRUE) /\ sta = "assoc" /\ Becomes(wpa_reauth(h)) /\ running' = running
      BY <1>5 DEF Reassociate
    <2>2. RunOK(k) /\ Rested(k) /\ k.eap_if.portEnabled
      BY <1>0, <2>1, ReassociateEvent
    <2> HIDE DEF k
    <2>3. RunOK(h) /\ Rested(h)
      BY <2>2, CachedEvent, ReauthenticateEvent
    <2> HIDE DEF h
    <2>4. RunOK(wpa_reauth(h)) /\ Rested(wpa_reauth(h))
      BY <2>3, WpaReauthOK
    <2> QED
      BY <1>0, <2>1, <2>4, EventStep
  <1>6. ASSUME NEW r \in Responses, handle_eap_response(r)
        PROVE  EapolInv'
    <2> DEFINE h == [Now EXCEPT !.sm.eapolEap = TRUE, !.eap_if.eapRespData = r,
                                !.hist.fresh = TRUE, !.queued = TRUE]
    <2>1. Event(FALSE) /\ Becomes(h) /\ running' = running
      BY <1>6 DEF handle_eap_response
    <2>2. RunOK(h) /\ Rested(h)
      BY <1>0, FrameEvents
    <2> HIDE DEF h
    <2> QED
      BY <1>0, <2>1, <2>2, EventStep
  <1>7. CASE EAPOL_START
    <2> DEFINE j == [Now EXCEPT !.sm.eapolStart = TRUE]
               k == wpa_reauth(j)
               h == [k EXCEPT !.eap = eap_server_clear_identity(@), !.queued = TRUE]
    <2>1. Event(TRUE) /\ Becomes(h) /\ running' = running
      BY <1>7 DEF EAPOL_START
    <2>2. PICK r : r \in Responses
      BY DEF Responses
    <2>3. RunOK(j) /\ Rested(j)
      BY <1>0, <2>2, FrameEvents
    <2> HIDE DEF j
    <2>4. RunOK(k) /\ Rested(k)
      BY <2>3, WpaReauthOK
    <2> HIDE DEF k
    <2>5. RunOK(h) /\ Rested(h)
      BY <2>2, <2>4, FrameEvents
    <2> HIDE DEF h
    <2> QED
      BY <1>0, <2>1, <2>5, EventStep
  <1>8. CASE EAPOL_LOGOFF
    <2> DEFINE h == [Now EXCEPT !.sm.eapolLogoff = TRUE,
                                !.eap = eap_server_clear_identity(@), !.queued = TRUE]
    <2>1. Event(TRUE) /\ Becomes(h) /\ running' = running
      BY <1>8 DEF EAPOL_LOGOFF
    <2>2. PICK r : r \in Responses
      BY DEF Responses
    <2>3. RunOK(h) /\ Rested(h)
      BY <1>0, <2>2, FrameEvents
    <2> HIDE DEF h
    <2> QED
      BY <1>0, <2>1, <2>3, EventStep
  <1>9. CASE eapol_auth_eap_pending_cb
    <2> DEFINE h == [Now EXCEPT !.eap.method_pending = "CONT", !.queued = TRUE]
    <2>1. Event(FALSE) /\ Becomes(h) /\ running' = running
      BY <1>9 DEF eapol_auth_eap_pending_cb
    <2>2. PICK r : r \in Responses
      BY DEF Responses
    <2>3. RunOK(h) /\ Rested(h)
      BY <1>0, <2>2, FrameEvents
    <2> HIDE DEF h
    <2> QED
      BY <1>0, <2>1, <2>3, EventStep
  <1>10. CASE ieee802_1x_receive_auth
    <2> DEFINE j == [Now EXCEPT !.queued = TRUE, !.awaiting = FALSE]
    <2>1. PICK msg \in BOOLEAN :
              \/ \E vlan \in {"ok", "missing", "unbound"}, keys \in BOOLEAN :
                   Becomes(AccessAccept(ieee802_1x_decapsulate_radius(j, msg), vlan, keys))
              \/ Becomes(AccessReject(ieee802_1x_decapsulate_radius(j, msg)))
              \/ Becomes(AccessChallenge(ieee802_1x_decapsulate_radius(j, msg)))
      BY <1>10 DEF ieee802_1x_receive_auth
    <2>2. Event(FALSE) /\ running' = running
      BY <1>10 DEF ieee802_1x_receive_auth
    <2>3. RunOK(j) /\ Rested(j)
      BY <1>0, RadiusEvents
    <2> DEFINE k == ieee802_1x_decapsulate_radius(j, msg)
    <2> HIDE DEF j
    <2>4. RunOK(k) /\ Rested(k)
      BY <2>3, RadiusEvents DEF ieee802_1x_decapsulate_radius
    <2>5. \/ \E vlan \in {"ok", "missing", "unbound"}, keys \in BOOLEAN :
               Becomes(AccessAccept(k, vlan, keys))
          \/ Becomes(AccessReject(k))
          \/ Becomes(AccessChallenge(k))
      BY <2>1
    <2> HIDE DEF k
    <2>6. ASSUME NEW vlan \in {"ok", "missing", "unbound"}, NEW keys \in BOOLEAN
          PROVE  RunOK(AccessAccept(k, vlan, keys)) /\ Rested(AccessAccept(k, vlan, keys))
      <3> DEFINE i == k.eap_if
                 b == i.aaaEapKeyAvailable \/ keys
                 p == k.pmksa \/ (conf.wpa /\ i.eapKeyAvailable)
                 z == [k EXCEPT !.pmksa = p]
                 x == [z EXCEPT !.eap_if.aaaSuccess = TRUE, !.eap_if.aaaEapReq = FALSE,
                                !.eap_if.aaaEapKeyAvailable = b]
      <3>1. DOMAIN k = Fields /\ i \in EapIfType
        BY <2>4, PartsOf DEF RunOK
      <3>2. b \in BOOLEAN /\ p \in BOOLEAN
        OBVIOUS
      <3>3. RunOK(x) /\ Rested(x)
        <4> HIDE DEF b, p
        <4>1. RunOK(z) /\ Rested(z)
          BY <2>4, <3>2, QueueEvents
        <4> HIDE DEF z
        <4> QED
          BY <3>2, <4>1, RadiusEvents
      <3>4. RunOK([k EXCEPT !.sm.authFail = TRUE]) /\ Rested([k EXCEPT !.sm.authFail = TRUE])
        BY <2>4, RadiusEvents
      <3>5. vlan = "ok" => AccessAccept(k, vlan, keys) = x
        BY <3>1 DEF AccessAccept, Fields
      <3>6. vlan = "missing" => AccessAccept(k, vlan, keys) = [k EXCEPT !.sm.authFail = TRUE]
        BY DEF AccessAccept
      <3>7. vlan = "unbound" => AccessAccept(k, vlan, keys) = k
        BY DEF AccessAccept
      <3> HIDE DEF x
      <3> QED
        BY <2>4, <3>3, <3>4, <3>5, <3>6, <3>7
    <2>7. /\ RunOK(AccessReject(k)) /\ Rested(AccessReject(k))
          /\ RunOK(AccessChallenge(k)) /\ Rested(AccessChallenge(k))
      BY <2>4, RadiusEvents
    <2>8. \E h : RunOK(h) /\ Rested(h) /\ Becomes(h)
      BY <2>5, <2>6, <2>7
    <2> QED
      BY <1>0, <2>2, <2>8, EventStep
  <1>11. CASE WPA_done
    <2> DEFINE h == [Now EXCEPT !.wpa = "PTKINITDONE", !.sm.portValid = TRUE,
                           !.sm.keyDone = TRUE, !.eap_if.eapKeyAvailable = FALSE,
                           !.queued = TRUE]
    <2>1. Event(FALSE) /\ Becomes(h) /\ running' = running
      BY <1>11 DEF WPA_done
    <2>2. RunOK(h) /\ Rested(h)
      BY <1>0, WpaEvents
    <2> HIDE DEF h
    <2> QED
      BY <1>0, <2>1, <2>2, EventStep
  <1>12. CASE WPA_failed
    <2>1. Event(FALSE) /\ Becomes(WpaDisconnect(Now)) /\ running' = running
      BY <1>12 DEF WPA_failed
    <2>2. RunOK(WpaDisconnect(Now)) /\ Rested(WpaDisconnect(Now))
      BY <1>0, WpaEvents
    <2> QED
      BY <1>0, <2>1, <2>2, EventStep
  <1>13. CASE ap_free_sta
    <2> DEFINE h == [Now EXCEPT !.sm = eapol_auth_alloc, !.eap_if = EapIfInit,
                           !.eap = eap_server_sm_init(conf.eap_server),
                           !.wpa = "INITIALIZE", !.sta = "none", !.queued = FALSE,
                           !.awaiting = FALSE, !.hist.fresh = FALSE]
    <2>1. Event(FALSE) /\ Becomes(h) /\ running' = running
      BY <1>13 DEF ap_free_sta
    <2>2. RunOK(h) /\ Rested(h)
      BY <1>0, FreeEvent
    <2> HIDE DEF h
    <2> QED
      BY <1>0, <2>1, <2>2, EventStep
  <1>14. CASE pmksa_cache_expire
    <2> DEFINE h == [Now EXCEPT !.pmksa = FALSE]
    <2>1. Event(FALSE) /\ Becomes(h) /\ running' = running
      BY <1>14 DEF pmksa_cache_expire
    <2>2. RunOK(h) /\ Rested(h)
      BY <1>0, QueueEvents
    <2> HIDE DEF h
    <2> QED
      BY <1>0, <2>1, <2>2, EventStep
  <1>15. CASE UNCHANGED vars
    <2>1. Becomes(Now) /\ conf' = conf /\ events' = events /\ running' = running
      BY <1>15 DEF vars, Becomes, Now
    <2>2. RunOK(Now)' /\ Rested(Now)'
      BY <1>0, <2>1, NowFrom
    <2> QED
      BY <1>0, <2>1, <2>2 DEF EapolInv
  <1> QED
    BY <1>1, <1>2, <1>3, <1>4, <1>5, <1>6, <1>7, <1>8, <1>9, <1>10, <1>11, <1>12, <1>13,
       <1>14, <1>15 DEF Next

\* The inductive invariant holds in every reachable state.
THEOREM EapolCorrect == Spec => []EapolInv
  BY EapolInit, EapolStep, PTL DEF Spec

\* No response is handed to the EAP machine that came in before the last request
\* went out: for every configuration, every number of events and every cap on
\* the passes of a run.
THEOREM ResponsesAlwaysFresh == Spec => []FreshResponse
  <1>1. EapolInv => FreshResponse
    BY DEF EapolInv, RunOK, Fresh, Now, FreshResponse
  <1> QED
    BY <1>1, EapolCorrect, PTL

\* Every variable has its type; reAuthCount stays within reAuthMax + 1 as long as
\* no run has been cut by the caps on its iterations, which RunsTerminate says.
THEOREM EapolTypeCorrect == Spec => [](RunsTerminate => TypeOK)
  <1>1. EapolInv /\ RunsTerminate => TypeOK
    <2> SUFFICES ASSUME EapolInv, RunsTerminate PROVE TypeOK
      OBVIOUS
    <2>1. RunOK(Now) /\ conf \in Confs /\ running \in BOOLEAN /\ events \in 0 .. MaxEvents[conf]
      BY DEF EapolInv
    <2>2. /\ Now.sm = sm /\ Now.eap = eap /\ Now.eap_if = eap_if /\ Now.wpa = wpa
          /\ Now.sta = sta /\ Now.queued = queued /\ Now.pmksa = pmksa
          /\ Now.awaiting = awaiting /\ Now.hist = hist
      BY DEF Now
    <2>3. sm \in PortType /\ sm.reAuthCount <= reAuthMax + 1
      BY <2>1, <2>2 DEF RunOK, Typed, Counted, RunsTerminate
    <2>4. sm.reAuthCount \in 0 .. reAuthMax + 1
      BY <2>3, EapolAssumption DEF PortType
    <2>5. sm \in EapolType
      BY <2>3, <2>4 DEF PortType, EapolType
    <2>6. eap \in EapType /\ eap_if \in EapIfType
      BY <2>1, <2>2 DEF RunOK, Typed, EapOK, EapTyped
    <2>7. /\ wpa \in {"INITIALIZE", "AUTHENTICATION2", "PTKSTART", "PTKINITDONE"}
          /\ sta \in {"none", "assoc", "removing"} /\ hist \in HistType
          /\ queued \in BOOLEAN /\ pmksa \in BOOLEAN /\ awaiting \in BOOLEAN
      BY <2>1, <2>2 DEF RunOK, Typed
    <2> QED
      BY <2>1, <2>5, <2>6, <2>7 DEF TypeOK
  <1> QED
    BY <1>1, EapolCorrect, PTL

=============================================================================
