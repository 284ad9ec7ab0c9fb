---------------------------- MODULE RadiusClient ----------------------------
(***************************************************************************)
(* The RADIUS client of hostapd, athr-hostap/src/radius/radius_client.c,   *)
(* with its users for one BSS: the Access-Requests and replies of          *)
(* ap/ieee802_1x.c and the accounting sessions of ap/accounting.c.         *)
(*                                                                         *)
(* msgs is the retransmit list as a set of entries: identifiers are handed *)
(* out in order and an entry whose identifier comes round again is         *)
(* removed, so the order of the list is that of the identifiers (Age).     *)
(* Time is left out: a firing of the retransmission timer finds some of    *)
(* the entries due.  Replies come from any server, for any request, late,  *)
(* more than once or never.                                                *)
(***************************************************************************)
EXTENDS Integers, Sequences, FiniteSets

CONSTANTS
    STA,                         \* stations
    NoSTA,                       \* addr == NULL
    NumIds,                      \* values of next_radius_identifier, a u8 (256)
    RADIUS_CLIENT_MAX_RETRIES,   \* 10
    RADIUS_CLIENT_MAX_ENTRIES,   \* 30
    RADIUS_CLIENT_NUM_FAILOVER,  \* 4
    Confs,                       \* the configurations considered, see ConfType
    MaxSends                     \* bound: requests sent

Kind == {"auth", "acct"}

\* The shared secrets of the servers of each kind, in order, none where there is
\* no accounting or the integrated EAP server is used, and whether
\* retry_primary_interval is set.
ConfType == [auth : Seq(STRING), acct : Seq(STRING), retry_primary_interval : BOOLEAN]

ASSUME RadiusAssumption ==
    /\ NumIds \in Nat \ {0}
    /\ RADIUS_CLIENT_MAX_RETRIES \in Nat /\ RADIUS_CLIENT_MAX_ENTRIES \in Nat \ {0}
    /\ RADIUS_CLIENT_NUM_FAILOVER \in Nat /\ MaxSends \in Nat
    /\ Confs \subseteq ConfType /\ NoSTA \notin STA

VARIABLES
    conf,               \* radius->conf
    msgs,               \* the retransmit list
    num_msgs,           \* its length, as the code counts it
    next_id,            \* next_radius_identifier
    timer,              \* radius_client_timer is registered
    server,             \* conf->auth_server and conf->acct_server as indices, 0: NULL
    radius_identifier,  \* that of the station's eapol_sm
    acct_session_started,
    sent                \* history: requests sent, see MaxSends

vars == <<conf, msgs, num_msgs, next_id, timer, server, radius_identifier,
          acct_session_started, sent>>

Id == 0 .. NumIds - 1

MsgType == {"AUTH", "ACCT", "ACCT_INTERIM"}

KindOf(type) == IF type = "AUTH" THEN "auth" ELSE "acct"

Entry == [id : Id, addr : STA \cup {NoSTA}, msg_type : MsgType, attempts : Nat,
          shared_secret : STRING]

\* Type invariant.  Of the integers, only num_msgs could leave its type: it is
\* a size_t, which is decremented by every removal.  Accounting sessions exist
\* only where accounting_sta_report finds a server to report them to.
TypeOK ==
    /\ conf \in Confs
    /\ msgs \subseteq Entry /\ IsFiniteSet(msgs)
    /\ num_msgs \in Nat /\ next_id \in Id /\ timer \in BOOLEAN
    /\ server \in [Kind -> Nat]
    /\ \A k \in Kind : server[k] \in IF conf[k] = <<>> THEN {0} ELSE 1 .. Len(conf[k])
    /\ radius_identifier \in [STA -> Id \cup {-1}]
    /\ acct_session_started \in [STA -> BOOLEAN]
    /\ \A s \in STA : acct_session_started[s] => conf.acct # <<>>
    /\ sent \in Nat

-----------------------------------------------------------------------------
(* The retransmit list.  r: the state of the client a function works on.   *)

Now == [msgs |-> msgs, num_msgs |-> num_msgs, timer |-> timer, server |-> server]

\* (The quantifier lets TLC evaluate the new state once.)
Becomes(new) ==
    \E r \in {new} :
      msgs' = r.msgs /\ num_msgs' = r.num_msgs /\ timer' = r.timer /\ server' = r.server

Secret(r, type) == conf[KindOf(type)][r.server[KindOf(type)]]

\* How many identifiers have been handed out since id, next being the next one.
Age(next, id) == IF id < next THEN next - 1 - id ELSE next - 1 - id + NumIds

Oldest(S, next) == {e \in S : \A f \in S : Age(next, f.id) <= Age(next, e.id)}

\* Entries are unlinked, freed and counted down.
Unlink(r, S) == [r EXCEPT !.msgs = @ \ S, !.num_msgs = @ - Cardinality(S)]

Mutant_get_id_keeps_entries(r) == r

\* radius_client_get_id: entries that use next_id are removed; num_msgs is left
\* as it is.
radius_client_get_id(r) == [r EXCEPT !.msgs = {e \in @ : e.id # next_id}]

Mutant_list_add_counts_eviction(r, e) ==
    LET full == r.num_msgs >= RADIUS_CLIENT_MAX_ENTRIES
    IN [r EXCEPT !.msgs = IF full THEN (@ \ Oldest(@, e.id)) \cup {e} ELSE @ \cup {e},
                 !.num_msgs = IF full THEN @ - 1 ELSE @ + 1,
                 !.timer = TRUE]

\* radius_client_list_add with radius_client_update_timeout: at the limit the
\* oldest entry makes room, unless the list holds nothing else.
radius_client_list_add(r, e) ==
    LET full == r.num_msgs >= RADIUS_CLIENT_MAX_ENTRIES
    IN [r EXCEPT !.msgs = IF full THEN (@ \ Oldest(@, e.id)) \cup {e} ELSE @ \cup {e},
                 !.num_msgs = IF full THEN @ ELSE @ + 1,
                 !.timer = TRUE]

radius_client_list_del(r, type, s) ==
    Unlink(r, {e \in r.msgs : e.msg_type = type /\ e.addr = s})

\* radius_client_send: an interim update replaces the pending one of its station.
radius_client_send(r, type, s) ==
    radius_client_list_add(
      IF type = "ACCT_INTERIM" /\ s # NoSTA THEN radius_client_list_del(r, type, s) ELSE r,
      [id |-> next_id, addr |-> s, msg_type |-> type, attempts |-> 1,
       shared_secret |-> Secret(r, type)])

\* A new message with a new identifier, as every user of the client sends one.
SendNew(r, type, s) == radius_client_send(radius_client_get_id(r), type, s)

\* radius_client_flush(radius, 1)
radius_client_flush_only_auth(r) ==
    LET f == Unlink(r, {e \in r.msgs : e.msg_type = "AUTH"})
    IN [f EXCEPT !.timer = f.msgs # {} /\ @]

Mutant_update_acct_msgs_none(r, secret) == r

radius_client_update_acct_msgs(r, secret) ==
    [r EXCEPT !.msgs = {IF e.msg_type = "ACCT" THEN [e EXCEPT !.shared_secret = secret]
                        ELSE e : e \in @}]

\* radius_change_server: a server with another secret gets no authentication
\* request that was made for the old one, and the retry counters start again.
\* Interim updates are not among the accounting messages here.
radius_change_server(r, k, new) ==
    LET n == [r EXCEPT !.server[k] = new]
        secret == conf[k][new]
        adapted == IF secret = conf[k][r.server[k]] THEN n
                   ELSE IF k = "auth" THEN radius_client_flush_only_auth(n)
                   ELSE radius_client_update_acct_msgs(n, secret)
        type == IF k = "auth" THEN "AUTH" ELSE "ACCT"
    IN [adapted EXCEPT !.msgs = {IF e.msg_type = type THEN [e EXCEPT !.attempts = 0]
                                 ELSE e : e \in @},
                       !.timer = @ \/ adapted.msgs # {}]

-----------------------------------------------------------------------------
(* Timers *)

Mutant_retransmit_uncounted(r, due) == [r EXCEPT !.timer = r.msgs # {}]

Mutant_retransmit_forgets_others(r, due) ==
    LET again == {[e EXCEPT !.attempts = @ + 1] :
                    e \in {d \in due : d.attempts + 1 < RADIUS_CLIENT_MAX_RETRIES}}
    IN [r EXCEPT !.msgs = (r.msgs \ due) \cup again, !.timer = again # {},
                 !.num_msgs = @ - Cardinality({d \in due :
                                                 d.attempts + 1 >= RADIUS_CLIENT_MAX_RETRIES})]

\* The loop of radius_client_timer: due entries are sent again, the ones tried
\* too often removed.  The timer, which has fired, is registered again.
Retransmit(r, due) ==
    LET kept == (r.msgs \ due) \cup
                {[e EXCEPT !.attempts = @ + 1] :
                   e \in {d \in due : d.attempts + 1 < RADIUS_CLIENT_MAX_RETRIES}}
    IN [r EXCEPT !.msgs = kept, !.timer = kept # {},
                 !.num_msgs = @ - Cardinality({d \in due :
                                                 d.attempts + 1 >= RADIUS_CLIENT_MAX_RETRIES})]

\* The next server, after too many attempts of a message of its kind.
Failover(r, k) ==
    IF /\ Len(conf[k]) > 1
       /\ \E e \in r.msgs : KindOf(e.msg_type) = k /\ e.attempts > RADIUS_CLIENT_NUM_FAILOVER
    THEN radius_change_server(r, k, IF r.server[k] = Len(conf[k]) THEN 1 ELSE r.server[k] + 1)
    ELSE r

radius_client_timer(due) ==
    /\ timer
    /\ Becomes(Failover(Failover(Retransmit(Now, due), "auth"), "acct"))
    /\ UNCHANGED <<conf, next_id, radius_identifier, acct_session_started, sent>>

RetryPrimary(r, k) == IF r.server[k] > 1 THEN radius_change_server(r, k, 1) ELSE r

radius_retry_primary_timer ==
    /\ conf.retry_primary_interval
    /\ Becomes(RetryPrimary(RetryPrimary(Now, "auth"), "acct"))
    /\ UNCHANGED <<conf, next_id, radius_identifier, acct_session_started, sent>>

-----------------------------------------------------------------------------
(* Requests and replies *)

\* A request takes the next identifier, a u8.
Count == /\ sent < MaxSends /\ sent' = sent + 1
         /\ next_id' = (next_id + 1) % NumIds

\* An Access-Request for an EAP message of the station.  (Without the integrated
\* EAP server hostapd_config_check_bss insists on an authentication server.)
ieee802_1x_encapsulate_radius(s) ==
    /\ conf.auth # <<>> /\ Count
    /\ Becomes(SendNew(Now, "AUTH", s))
    /\ radius_identifier' = [radius_identifier EXCEPT ![s] = next_id]
    /\ UNCHANGED <<conf, acct_session_started>>

\* No session is started without an accounting server.
accounting_sta_start(s) ==
    /\ ~acct_session_started[s] /\ conf.acct # <<>> /\ Count
    /\ Becomes(SendNew(Now, "ACCT", s))
    /\ acct_session_started' = [acct_session_started EXCEPT ![s] = TRUE]
    /\ UNCHANGED <<conf, radius_identifier>>

\* Called by the periodic accounting_interim_update.
accounting_sta_interim(s) ==
    /\ acct_session_started[s] /\ Count
    /\ Becomes(SendNew(Now, "ACCT_INTERIM", s))
    /\ UNCHANGED <<conf, radius_identifier, acct_session_started>>

accounting_sta_stop(s) ==
    /\ acct_session_started[s] /\ Count
    /\ Becomes(SendNew(Now, "ACCT", s))
    /\ acct_session_started' = [acct_session_started EXCEPT ![s] = FALSE]
    /\ UNCHANGED <<conf, radius_identifier>>

radius_client_flush_auth(r, s) ==
    Unlink(r, {e \in r.msgs : e.msg_type = "AUTH" /\ e.addr = s})

\* ap_free_sta: accounting stops, the EAPOL state machine goes, then the
\* station's authentication messages.
ap_free_sta(s) ==
    /\ IF acct_session_started[s]
       THEN Count /\ Becomes(radius_client_flush_auth(SendNew(Now, "ACCT", s), s))
       ELSE UNCHANGED <<sent, next_id>> /\ Becomes(radius_client_flush_auth(Now, s))
    /\ acct_session_started' = [acct_session_started EXCEPT ![s] = FALSE]
    /\ radius_identifier' = [radius_identifier EXCEPT ![s] = -1]
    /\ UNCHANGED conf

\* radius_client_receive: the entry a reply with this identifier matches.
Matching(k, i) == {e \in msgs : KindOf(e.msg_type) = k /\ e.id = i}

\* The reply's request is removed before the reply is looked at.  A reply to an
\* earlier request with the same identifier does not verify, and one without a
\* station that waits for it is dropped.
radius_client_receive(k, i, verified) ==
    LET waiting == {s \in STA : radius_identifier[s] = i}
    IN \E req \in Matching(k, i) :
         /\ Becomes(Unlink(Now, {req}))
         /\ IF k = "auth" /\ verified /\ waiting # {}
            THEN \E s \in waiting :   \* the first in the station list
                   radius_identifier' = [radius_identifier EXCEPT ![s] = -1]
            ELSE UNCHANGED radius_identifier
         /\ UNCHANGED <<conf, next_id, acct_session_started, sent>>

-----------------------------------------------------------------------------

\* accounting_init sends Accounting-On, if there is a server for it.
accounting_report_state ==
    IF conf.acct = <<>> THEN msgs = {} /\ num_msgs = 0 /\ timer = FALSE /\ next_id = 0
    ELSE /\ msgs = {[id |-> 0, addr |-> NoSTA, msg_type |-> "ACCT", attempts |-> 1,
                     shared_secret |-> conf.acct[1]]}
         /\ num_msgs = 1 /\ timer = TRUE /\ next_id = 1 % NumIds

\* radius_client_init, with the first server of each kind, and accounting_init.
Init ==
    /\ conf \in Confs
    /\ server = [k \in Kind |-> IF conf[k] = <<>> THEN 0 ELSE 1]
    /\ accounting_report_state
    /\ radius_identifier = [s \in STA |-> -1]
    /\ acct_session_started = [s \in STA |-> FALSE]
    /\ sent = 0

Next ==
    \/ \E due \in SUBSET msgs : radius_client_timer(due)
    \/ radius_retry_primary_timer
    \/ \E s \in STA : \/ ieee802_1x_encapsulate_radius(s)
                      \/ accounting_sta_start(s) \/ accounting_sta_interim(s)
                      \/ accounting_sta_stop(s) \/ ap_free_sta(s)
    \/ \E k \in Kind, i \in Id, verified \in BOOLEAN : radius_client_receive(k, i, verified)

\* The event loop serves the timer while it is registered, and the wait of an
\* entry is at most RADIUS_CLIENT_MAX_WAIT, so that an entry that stays is found
\* due again and again.  Servers owe nothing.
Fairness ==
    \A i \in Id : WF_vars(\E due \in SUBSET msgs :
                            /\ \E e \in due : e.id = i
                            /\ radius_client_timer(due))

Spec == Init /\ [][Next]_vars
FairSpec == Spec /\ Fairness

-----------------------------------------------------------------------------
(* Properties *)

\* num_msgs is at least the length of the list, though identifiers that come
\* round again make it larger: the decrement for a removed entry never wraps,
\* and the list keeps to RADIUS_CLIENT_MAX_ENTRIES.
PendingCounted ==
    Cardinality(msgs) <= num_msgs /\ num_msgs <= RADIUS_CLIENT_MAX_ENTRIES

\* struct radius_client_data says "num_msgs - Number of pending messages in the
\* msgs list"; radius_client_get_id, which removes entries without counting
\* them, makes it larger, for good.
NumMsgsExact == num_msgs = Cardinality(msgs)

\* radius_client_get_id returns "a unique (among pending requests) identifier":
\* no two pending requests, of either kind, could be matched by one reply.
UniqueIds == \A e, f \in msgs : e.id = f.id => e = f

\* While a request is pending its retransmission is scheduled, whatever
\* replies, failovers and removals came in between.
RetransmitScheduled == msgs # {} => timer

\* A pending authentication or accounting request (interim updates apart) is
\* made with the secret of the server it will be retransmitted to.
MadeForServer ==
    \A e \in msgs : e.msg_type # "ACCT_INTERIM"
      => e.shared_secret = Secret(Now, e.msg_type)

\* A failover starts the retry counter of the entry again.
Restartable(e) == e.msg_type # "ACCT_INTERIM" /\ Len(conf[KindOf(e.msg_type)]) > 1

\* A request that no server answers is given up after
\* RADIUS_CLIENT_MAX_RETRIES, unless there is a server to fail over to.
RequestsEnd ==
    \A i \in Id : (\E e \in msgs : e.id = i /\ ~Restartable(e))
                    ~> ~ \E e \in msgs : e.id = i /\ ~Restartable(e)

=============================================================================
