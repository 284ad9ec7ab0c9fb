# Key management of athr-hostap in TLA+

The repository is a collection of applications for Atheros access points. Its
core is `athr-hostap`, the hostapd/wpa_supplicant of the platform; what decides
whether stations can talk to the AP is its key management: the WPA/RSN
authenticator (`src/ap/wpa_auth.c`) and its counterpart in the stations
(`src/rsn_supp/wpa.c`), and, before keys can be agreed on, its authentication:
the IEEE 802.1X port machines (`src/eapol_auth`), the EAP server
(`src/eap_server/eap_server.c`) and the RADIUS client
(`src/radius/radius_client.c`). This project models these parts, the events that
drive them and the frames between them, model-checks them with TLC and proves
some of the results for every configuration with TLAPS.

Paths below are relative to `src/athr-hostap/`.

## Inventory

| Component | State | Operations | Why it is hard |
| --- | --- | --- | --- |
| WPA/RSN authenticator, `src/ap/wpa_auth.c` | per station `struct wpa_state_machine` (two machines, request flags, retry counters, replay counters, PTK); per VLAN `struct wpa_group` (GTK, `GKeyDoneStations`); eloop timeouts | `wpa_sm_step`, `wpa_receive`, `wpa_auth_sm_event`, `wpa_auth_sta_associated`, `wpa_rekey_gtk`, `wpa_rekey_ptk`, `wpa_send_eapol_timeout`, `wpa_auth_sta_set_vlan`, deinit | three machines in a loop that ends when nothing changes; the group machine calls the loops of all stations; timers, frames, associations and two kinds of rekeying in any order |
| WPA/RSN supplicant, `src/rsn_supp/wpa.c` | nonces, temporary PTK, PTK, replay counter, installed keys | `wpa_sm_rx_eapol`, `wpa_sm_notify_assoc`, disassociation | frames lost, repeated, reordered; a message 1/4 carries no MIC |
| Station table, `src/ap/sta_info.c` | flags, timeout chain per station | `ap_handle_timer`, `ap_free_sta`, `ap_sta_disconnect` | a station loses its association without an event for the authenticator |
| 802.11 management, `src/ap/ieee802_11.c` | – | authentication, association, disassociation, deauthentication frames | (re)association while a machine is in any state |
| EAPOL machines, `src/eapol_auth`; 802.1X glue, `src/ap/ieee802_1x.c` | AUTH_PAE, BE_AUTH, REAUTH_TIMER and their timers; flags shared with the EAP and the WPA machine | one run of all machines (`eapol_sm_step_run`) per tick or event; EAPOL frames, association, RADIUS replies | machines that restart each other, flags left from an earlier conversation, timeouts racing late answers |
| EAP server, `src/eap_server/eap_server.c` | the RFC 4137 machine, the chosen method, the user's methods | method selection, requests, retransmission, pass-through | integrated server and pass-through share states and flags |
| RADIUS client, `src/radius/radius_client.c`; accounting, `src/ap/accounting.c` | list of pending requests, its length, the next identifier, the current servers; accounting sessions | send, retransmit, receive, fail over, return to the primary, drop a station's requests | identifiers reused, answers to removed requests, a full list, servers with other secrets |
| EAPOL supplicant machines, `src/eapol_supp` | SUPP_PAE, SUPP_BE | EAPOL frames, authentication timeouts | – |
| PMKSA caches | sorted list, expiry timer | add, get, expire, flush | replacement at the limit, entries in use |
| TKIP countermeasures | two timestamps, blocked flag | MIC failure report, stop | second failure near the 60 s border |
| event loop, `src/utils/eloop.c` | timeouts, sockets, signals | register, cancel, run | handlers that cancel each other's timeouts |
| FT, PeerKey, TDLS, WPS, P2P, EAP methods, drivers, IAPP | | | protocols of their own, cryptography or input/output |

How they interact: everything in hostapd runs in one thread. `eloop_run` calls
one handler at a time; a handler runs to its end. Management frames, EAPOL
frames and timeouts become calls of `wpa_auth_sm_event`,
`wpa_auth_sta_associated`, `wpa_receive` or a timeout function; each sets flags
in a station's record and then runs `wpa_sm_step`. What couples stations is the
group machine: `wpa_rekey_gtk` marks every station and waits until all have
acknowledged the new GTK, and the RADIUS client, whose one list and one
identifier counter serve all of them. What couples AP and station is the air.
802.1X and WPA share flags: the EAPOL machines set `keyRun` when EAP succeeded,
the WPA machine then takes the PMK, runs the 4-way handshake and sets
`portValid` and `keyDone`, for which AUTH_PAE waits.

Not hostapd: `hostap-0.7.1`, `hostap-0.7.2` and `wpa2` are older copies, `wapid`
is a WAPI daemon, `art*`, `athplay`, `spectral`, `int6000-utils`, `ivi`,
`inadyn` and `ssdk` are hardware tools, third-party code or binaries.

What makes each part correct, in short: handshakes end; retries are bounded; a
rekeying reaches every station and ends; both sides use the same, fresh key; no
old frame, key or flag is acted on in a later exchange. `PROJECT.json` lists the
hazards line by line with the properties that cover them.

## Modules

| Module | What it is |
| --- | --- |
| `WpaAuth` | the authenticator: control complete, frame contents abstracted |
| `Supplicant` | the station's key machine, with nonces, MICs and replay counters |
| `Handshake` | `WpaAuth` and `Supplicant` composed over the air, with the authenticator's data |
| `KeyAgreement` | the abstract specification of pairwise key installation; `Handshake` implements it |
| `EapServer` | the EAP machine as operators on its record: integrated server and pass-through |
| `EapolAuth` | the 802.1X port machines of one station with `EapServer` and the glue around them |
| `RadiusClient` | the RADIUS client with its users: 802.1X requests and accounting sessions |
| `MCWpaAuth`, `MCHandshake`, `MCEapolAuth`, `MCRadiusClient` | constants for TLC |
| `WpaAuthProofs`, `WpaAuthLoop`, `WpaAuthMarks` | theorems about `WpaAuth`: types, the loop of `wpa_sm_step`, the marks of GTK rekeying and its end |
| `HandshakeProofs`, `HandshakeKeys` | theorems about `Handshake`: it refines `WpaAuth`, its types; key agreement |
| `EapolAuthProofs` | theorems about `EapolAuth` and `EapServer`: types, freshness of responses |
| `EapolAuthRuns` | theorems about the runs of `EapolAuth`: they end, failure closes the port, only success opens it |
| `RadiusClientProofs` | theorems about `RadiusClient` |

### WpaAuth

`sm[s]` is the station's `struct wpa_state_machine`, plus the part of
`struct sta_info` that matters (`assoc`), the number of registered
`wpa_send_eapol_timeout` timeouts and whether `wpa_rekey_ptk` is registered.
`group[g]` is `struct wpa_group`; `gtkTimer` says whether `wpa_rekey_gtk` is
registered.

A handler is not one step. `wpa_sm_step` is a loop over `SM_STEP(WPA_PTK)`,
`SM_STEP(WPA_PTK_GROUP)` and `wpa_group_sm_step`; each call is a step and each
state of the machines an action (`PTK_PTKSTART`, `GROUP_REKEYNEGOTIATING`, ...)
that does what the `SM_STATE` body does. `pc`, `cur`, `cont`, `caller`, `todo`
and `rekeyq` are the call stack: which call comes next, for which station, what
the event does after the loop (`cont`), and how far `wpa_auth_for_each_sta`
(`todo`) and the group list of `wpa_rekey_gtk` (`rekeyq`) have got. Events
happen when `pc = "idle"`.

Abstractions: `EAPOLKeyReceived/Request/Pairwise` are one field, because they
are only read together; the PTK is valid or not, the replay counters pending or
not; whether a MIC is right, the IE matches or the driver accepts a key is a
free choice, so that what holds here holds for any station behaviour. VLAN
groups exist from the start instead of being created on first use. With EAP,
`keyRun` may be set in any WPA state, a (re)association may find a cached PMK
(`ieee802_1x_new_station`), and the station's group is chosen at association
(`handle_assoc_cb`), from a cached PMK, or at any later time
(`wpa_auth_sta_set_vlan`).

Left out: FT, PeerKey/SMK, 802.11w; `wpa_reconfig`, `wpa_gtk_rekey` and GMK
rekeying (operator actions and a timer that only replaces random data); the WPS
branch of the reauthentication event; failing allocations; the counter of
EAPOL-Key Requests. `pending_deinit` is not modelled: no handler frees a
station from inside its own loop, since `ap_sta_disconnect` only schedules the
removal.

### Supplicant, Handshake, KeyAgreement

A nonce is a number larger than those before it, a PTK the pair of nonces it is
derived from, a MIC the PTK it was made with, a GTK an index with a nonce. `air`
keeps every frame and delivers any of them any number of times: loss,
duplication, reordering and delay. At a new association only the kinds in the
constant `StaleFrames` survive, which is how the runs choose between a long
history of one association and several associations with late frames.

Each action of `Handshake` conjoins an action of `WpaAuth` with the effect the
same code has on `auth[s]` (ANonce, SNonce, PTK, `key_replay`, the key in the
driver) and `gk[g]` (Counter, GTK, GN), so every behaviour of `Handshake` is one
of `WpaAuth` whose free choices are decided by real frames. Stations use PSK,
send no Requests and stay in their group: there are no VLANs.

`KeyAgreement` says: the station's driver is given newer and newer keys, the AP
only installs the key the station was given last, and none twice. The refinement
maps `station` and `last` to history fields (the key given to the driver last),
`times` to a count of installations and `ap` to the key in use. Installing the
same key again on a repeated message 3/4 is a stuttering step at the station; at
the AP it would not be, since `times` would grow.

### EapServer, EapolAuth

`sm` is the part of `struct eapol_state_machine` that the machines read, `eap`
is `struct eap_sm`, `eap_if` the `struct eap_eapol_interface` between them. The
machines work on a record `g` of these and of what their callbacks change: the
WPA machine (`wpa`, its WPA_PTK state with the handshake reduced to PTKSTART),
the station entry, the PMKSA entry, the pending RADIUS request. `SM_STEP`
functions give the state that is entered, one operator per `SM_STATE` body maps
`g` to `g`. A pass runs AUTH_PAE, BE_AUTH and REAUTH_TIMER; when they rest,
`eap_server_sm_step` loops; a run repeats that until all rest. As nothing can
come between, a run is one step (`StepRun`), started by the tick of the port
timers or by a queued `eapol_sm_step_cb`.

Of an EAP response its type and whether its identifier is the current one are
kept, of a request only that there is one. What a method makes of a response
(go on, wait for data, end with or without keys), whether a request can be
built, whom the identity names and what a RADIUS server replies are free
choices. Timers count down in ticks; their constants are small in the runs.

Left out: `portControl` other than Auto; AUTH_KEY_TX and KEY_RX (WEP);
CTRL_DIR, which does nothing; the RADIUS server's use of the EAP machine
(`backend_auth`, PICK_UP_METHOD); a method that fails to initialise; timeouts a
method or a RADIUS server proposes; preauthentication, WPS and FT branches.

### RadiusClient

`msgs` is the retransmit list as a set: identifiers are handed out in order and
an old entry with a new identifier is removed first, so the list is ordered by
`Age`. `num_msgs` is kept as the code keeps it, which is not the length of the
list. `Init` sends Accounting-On, if there is an accounting server; without one
no session starts, and without an authentication server (the integrated EAP
server) there are no Access-Requests. Stations start, update and stop sessions
and send Access-Requests; replies come late, repeatedly or never, and a reply to
an earlier request with the same identifier does not verify. A firing of the
timer finds any part of the entries due: the clock is left out. A server is its
index, with its secret.

Left out: failures of `send` (the code reopens its sockets then), MAC address
queries, reconfiguration and shutdown.

## Runs

Passing:

| Run | Instance | Shows |
| --- | --- | --- |
| `authenticator_psk` | 2 stations, WPA2-PSK, 1 group, strict rekeying, pairwise Requests | types, retry bounds, marks are counted, SETKEYSDONE means all told, no stale frame, INITIALIZE holds nothing |
| `authenticator_eap_vlan` | 1 station, WPA with EAP, 2 groups, other Requests | the paths PSK does not have (INITPMK, cached PMKs, a group handshake of its own, other Requests): retry bounds, no stale frame, INITIALIZE holds nothing, and no old PTK in a new handshake; the mark count fails here (see below). 4.6 million states |
| `rekey_progress` | 2 stations (one without PSK), 2 attempts, 2 timers, GTK and PTK rekeying, fair | every handler ends, 4-way handshakes are resolved and GTK rekeying ends, unless a handshake lost its timer |
| `handshake_keys` | 1 station, 2 attempts, GTK and PTK rekeying, late frames of earlier associations, entropy rejection | `Agreement`, refinement of `KeyAgreement`, replay window, no GTK rollback |
| `eapol_authentication` | 1 station; WPA with integrated server, WPA with RADIUS, plain 802.1X with re-authentication, fair | runs end, no stale response, port opens on success and closes on failure, the machines lose step in one race only, CONNECTING and EAP conversations end |
| `radius_client` | 2 stations, 3 identifiers, list of 2; one server, two with the same and with different secrets, no accounting, no authentication server, fair | list, counter, identifiers, timer and secrets stay consistent; requests end |

Exceptions are written into the liveness properties where the code really has
them. `HandshakeTimerLost`: the two handshakes of a station share their
timeouts, and an answer in one cancels the timeout of the other.
In `EapolAuth`, `OutOfStep`: the EAP machine sees its retransmission timeout
before a response that arrived in the same second, so that BE_AUTH waits for the
station and the EAP machine does not. The properties that except it say nothing
about this stall; `OutOfStepByRace` says that, with the integrated server, it
has no other cause. `NothingOutstanding`: pass-through was entered with nothing
to send, which `ConnectingResolves` therefore does not rule out. `AwaitsKeys`:
EAP has succeeded and AUTH_PAE waits for the WPA machine, whose handshake may
have lost its timeout (`HandshakeTimerLost`) or have been given up by a
reassociation; `AuthenticatingResolves` is about the EAP conversation only.
`MadeForServer` leaves out interim updates, which the code leaves with the old
secret after a failover. `RequestsEnd` leaves out requests for which there
is another server: a failover starts their retry counter again, so that they
are repeated as long as no server answers.

Expected violations, each a disagreement between code and documentation
(`PROJECT.json`, findings):

| Run | Property | What happens |
| --- | --- | --- |
| `gtk_rekey_stalls` | `GTKRekeyCompletes` | A station that lost its association silently is marked during GTK rekeying, associates again, and its 4-way handshake cancels the timeout of message 1/2. Its group machine waits for ever and the group stays in SETKEYS. |
| `vlan_rekey_count` | `MarksCounted` | With two groups, the rekeying of one marks stations of the other and `wpa_auth_sta_set_vlan` moves a mark without its count. |
| `ptk_rekey_retries` | `NewHandshakeHasRetries` | `TimeoutCtr` survives a completed handshake, so PTK rekeying may start at the retry limit and disconnect at once. |
| `reauthentication_stuck` | `ReauthenticationStarts` | A station associates again during its 4-way handshake, without a cached PMK: `reAuthenticate` is read in AUTHENTICATED only, AUTH_PAE waits in AUTHENTICATING for the keys, the WPA machine in AUTHENTICATION2 for a new authentication. |
| `radius_num_msgs` | `NumMsgsExact` | `radius_client_get_id` removes a pending request without counting it down; each one takes a place of the list for good. |
| `group_key_missed` | `HoldsCurrentGTK` | GTK rekeying between messages 3/4 and 4/4 skips the station, which is then counted as having the GTK. |

### Bounds

- `MaxTimers` bounds the retransmission timeouts a station has when an event
  that can arm another one is taken. The code has no such bound; with 2, a
  timeout of an earlier message is pending while a later one is sent, which is
  the case that matters.
- The retry limits (`dot11RSNAConfig*UpdateCount`, 4 in the code) are 1 or 2: 1
  makes every limit reachable, 2 adds a retransmission.
- `MaxCounter`, `MaxANonce` and `MaxReplayCounter` bound nonces and replay
  counters, i.e. the number of associations (two), of GTK rekeyings and of PTK
  rekeyings.
- Two stations are what the interplay through the group needs (one is told while
  another is not); there is nothing in the code that tells three stations from
  two, and the theorem about marks holds for any number.
- `Symmetry` is used in `authenticator_psk` only: both stations have the same
  configuration and no liveness is checked there.
- `EapolAuth`: timers of one tick, one retransmission, two rounds, one method,
  and two associations or EAPOL-Start/Logoff frames (one for the two smaller
  configurations); responses, replies and ticks are not bounded. `max_steps` and
  `MaxEapSteps` cut a run as the code's limit of 100 does (`RunsTerminate` shows
  that no run is cut); with 65 and 12 the instance satisfies the hypothesis
  `LongRuns` of the theorems about it.
- `RadiusClient`: three identifiers, a list of two, three attempts and a failover
  after the second, in the order 256 > 30 and 10 > 4 of the code, and four
  requests after Accounting-On, so that identifiers come round with requests
  pending. The theorems hold for any values.

Every action fires in some passing run. Deadlock is checked in the runs of
`WpaAuth` and `Handshake`; a station that has left, or a client without pending
requests, may rest for ever.

### Fairness

`FairSpec` assumes that a running handler continues (`WF` on its steps), and
that a registered timeout eventually fires even if other events keep happening
(`SF` on `wpa_send_eapol_timeout` and `wpa_rekey_gtk`, which another handler may
disable for a moment). `eloop_run` justifies both: handlers are plain calls, and
each turn of the loop calls the first expired timeout before it handles sockets.
Nothing is assumed of stations: they may never answer.

`EapolAuth` assumes the same of ticks, queued steps and the removal of a
disconnected station, strongly fair because no event is enabled while a run is
under way. Of the 4-way handshake it assumes nothing: any verified frame cancels
its only timeout (`src/ap/wpa_auth.c:971`), so that it may never end.
`RadiusClient` assumes that an entry that stays in the list is found
due again and again, since its wait is at most `RADIUS_CLIENT_MAX_WAIT`. RADIUS
servers owe nothing.

## Proofs

- `TypeCorrect` (`WpaAuthProofs`): `Spec => []TypeOK`, for all constants that
  satisfy `ConstantAssumption`. `TypeOK` contains the shape of the call stack
  (who is served when, when `todo` and `rekeyq` are empty) and is inductive as
  it stands. One lemma per group of actions.
- `MarksCountedSingleGroup` (`WpaAuthMarks`): with one group,
  `Spec => []MarksCounted`, for any finite set of stations. `MarksCounted` speaks
  of idle states only and is not inductive. During a rekeying the counter has
  been reset while stations not yet visited may still carry marks of the previous
  rekeying; `MarksInv` therefore counts the marked stations outside `todo`, and
  adds that a station without an entry, which the callbacks do not visit, has no
  mark, and that every station in `todo` has an entry. When the authenticator is
  idle `todo` is empty (`TypeOK`), which gives `MarksCounted`. Each action
  either leaves the set alone, or adds or removes one station together with the
  counter; the cardinality lemmas come from `FiniteSetTheorems`. The assumption
  of one group is necessary: `vlan_rekey_count` is the counterexample for two.
- `WpaAuthLoop`: `FramesAlwaysConsumed`, `RetriesAlwaysBounded`,
  `HandshakeStartsWithoutPTK` and `InitializeAlwaysReleases`, i.e.
  `NoStaleKeyFrame`, `RetriesBounded`, `NoOldPTKInNewHandshake` and
  `InitializedHoldsNothing` for all stations, groups, requests and retry limits.
  None of them is inductive: inside a handler frames are pending, counters are
  past their limit and a PTK exists in PTKCALCNEGOTIATING, and what counts is
  that the calls still to come deal with it. `LoopInv` (`LoopCorrect`) says of
  each record what holds at the place of `wpa_sm_step`'s loop where its station
  is (`MachineInv`) and which station the call stack is serving (`StackInv`).
  `AlwaysSettled` is what it comes to: when a handler has returned, `SM_STEP`
  finds nothing to do for any station, unless EAP has just delivered a PMK, for
  which another step is queued.
- `KeysDoneAlwaysTold` (`WpaAuthMarks`): `KeysDoneMeansAllTold` for one group
  and any number of stations. `wpa_group_sm_step` runs in the loop of each
  station that `wpa_auth_for_each_sta` has just marked, while others are
  unmarked; the group would be done too early if that station lost its mark in
  its own loop. `TellingInv` says why it does not, from `LoopInv`: it was
  settled, so it sends message 1/2 and stops. This uses that the group key
  handshake may be attempted at least once (`GroupRetries`; the constant is 4,
  `src/ap/wpa_auth.c:51`). With a limit of 0, which the code does not have, TLC
  finds the property violated.
- `HandshakeIsAuthenticator` (`HandshakeProofs`): `HSpec => Spec`, so that all
  theorems about `WpaAuth` hold with frames and supplicant. `StrangersAreBlank`
  adds that no handler runs for a station without an entry. With these,
  `HandshakeTypeCorrect`: `HSpec => []HandshakeTypeOK`, including that replay
  counters are pending exactly when `WpaAuth` says so.
- `HandshakeKeys`: `HandshakeAgrees` (`Agreement`), `GTKNeverRollsBack`
  (`NoGTKRollback`) and `HandshakeImplementsKeyAgreement` (the refinement of
  `KeyAgreement`), for any number of PSK stations of either version, any set of
  frames that survive an association, and any limits. All three follow from
  `KeysInv` (`KeysCorrect`), which gives each station an epoch: it starts with an
  association and takes the name of the ANonce when the machine enters
  AUTHENTICATION2. A key in use has an ANonce no later than the epoch; keys
  of earlier epochs have smaller SNonces, because the supplicant takes a new
  SNonce with every association and installation; within the epoch the replay
  counters order the AP's frames, once the PTK is derived no message 2/4 is
  accepted any more, and the GTKs sent do not get older. A message 4/4 that is
  accepted has the MIC of the running PTK, and the station only sends it when its
  driver was given that PTK last: this is why the two drivers agree. `EarlyInv`
  covers the time between an association and its call of
  `wpa_auth_sta_associated`, when machine and station are of different epochs.
  The steps are proved on arbitrary records first (`DropOK`, `ResetOK`,
  `InstallOK`, ...), then for each action. For the refinement, `DriversStep`
  says what any step does to the two drivers: nothing, or at one station a newer
  key, at the AP the station's key, or the removal of the AP's.

  TLC checked `LoopInv`, `EarlyInv` and `KeysInv` as invariants of the instance
  of `handshake_keys`, and with all kinds of late frames for WPA2 and WPA,
  before they were proved.

- `RadiusClientProofs`: `RadiusTypeCorrect`, `PendingAlwaysCounted`,
  `IdsAlwaysUnique`, `RetransmitAlwaysScheduled` and `AlwaysMadeForServer`, the
  five invariants of `radius_client`, for any stations, any servers or none, any
  secrets and limits that satisfy `RadiusAssumption`. They are proved together: `Inv` is
  `ClientInv`, the conjunction of what each says about the client, with the
  types of its users' variables. That `num_msgs` never falls below the length
  of the list needs that entries are told apart by their identifiers; that an
  entry fits the server needs the failover's flush. Every function of the client
  (`radius_client_list_add`, `Unlink`, `radius_change_server`, ...) is shown to
  keep `ClientOK`, the same condition on the record it works on, and each action
  is a composition of those functions.

- `EapolAuthProofs`: `ResponsesAlwaysFresh` (`Spec => []FreshResponse`) and
  `EapolTypeCorrect` (`Spec => [](RunsTerminate => TypeOK)`), for all constants
  that satisfy `EapAssumption` and `EapolAssumption`: any methods, limits,
  timers, configurations and numbers of events. The second has the hypothesis
  that no run was cut because only then is the count of `reAuthCount` known:
  CONNECTING gives up in the pass after the one that took the counter past
  `reAuthMax`; a run cut in between would leave it there, and the shortcut for a
  cached PMK, which skips that check, would count on from it. Everything else in `TypeOK` is proved without it.

  A run is a recursive function of the number of passes, and each pass may hold
  a run of the EAP machine, another one. The library's induction theorems have
  an operator parameter, but `Induct` has a set: a set of numbers with 0 and all
  successors is `Nat`, from the well-foundedness of the strict subset order on
  finite sets. With it `EapReaches` and `RunReaches` say that a set of states
  that is closed under a step of the EAP machine (under a pass) holds whatever
  a run can reach. `WholeRunOK` then needs single steps only: each `SM_STATE`
  body keeps `EapOK` (types; the method list is long enough for its index; a
  waiting machine has retransmissions left; SELECT_ACTION goes on only with
  something to propose), each machine of a pass keeps `RunOK` (`EapOK`, types of
  the port; `eapolEap` only with a fresh response; an associated station's port
  is enabled; the bounds of `reAuthCount` in each state), and a run that rests
  leaves `Rested`. The events follow, composed from what each assignment does to
  a state that is `RunOK` and `Rested`; `EapolInv` (`EapolCorrect`) is the
  induction over steps. TLC checked `EapolInv` on the instance of
  `eapol_authentication`, and with runs cut after two passes.

- `EapolAuthRuns`: `RunsAlwaysTerminate` (`Spec => []RunsTerminate`),
  `FailureAlwaysClosesPort` (`Spec => []FailureClosesPort`),
  `AlwaysAuthenticatedBySuccess` (`Spec => AuthenticatedBySuccess`) and
  `EapolAlwaysTyped` (`Spec => []TypeOK`, now that no run is cut). They have one
  hypothesis on the constants, `LongRuns`: `max_steps >= 65`,
  `MaxEapSteps >= 10`, `quietPeriod > 0` and `reAuthMax > 0`. In the code these
  are 100, unbounded (`eap_server_sm_step` loops until nothing changes, and the
  theorem says that it does so after 10 iterations at most), 60 and 2. The last
  two are needed: with a quiet period of 0 HELD would be left in the pass that
  entered it, with `reAuthMax` 0 CONNECTING would give up at once, and a run
  would go round: TLC finds `RunsTerminate` violated with either. Both are fixed
  in `eapol_auth_alloc`; the comment `0..65535` on `quietPeriod`
  (`eapol_auth_sm_i.h:81`) allows a value that the loop does not cope with.

  The inductive invariant `RunsInv` (`RunsCorrect`) is `EapolInv` with `Settled`
  and the statement that no run was cut. `Settled` ties three machines that
  only share flags: AUTHENTICATED means a state of success of the EAP machine;
  the flags of the interface say in which state that machine is; `eapRestart`
  is set in RESTART only; in AUTHENTICATING the flags that BE_AUTH has raised
  agree with its state, and an idle BE_AUTH has raised one; after FAILURE the
  port is closed or the backend machine waits for the supplicant; and
  neither RESTART nor an unanswered offer in CONNECTING is left over.

  None of this holds all through a pass, so each point of a pass has a
  predicate of its own: `BeforePass`, `AfterPae` between AUTH_PAE and BE_AUTH,
  `PortRests` while the EAP machine runs. Every state of each machine is shown
  to take one to the next. Which fields a step leaves alone is stated once per
  machine (`PaeEffect`, `BeEffect`, `EapEffect`); the rest follows from these.

  Termination is by measures. `EapRank`, at most 10, falls in every iteration of
  the EAP machine, so that the inner loop ends. `Work`, at most 64, adds up what
  AUTH_PAE, BE_AUTH, the re-authentication timer and the EAP machine can still
  do; every pass that does not leave all of them at rest lowers it. What makes
  it fall is that a way round (say CONNECTING, AUTHENTICATING, ABORTING, RESTART)
  uses up the flag that started it: `eapolStart`, `eapolLogoff` or
  `reAuthenticate`, which no machine sets inside a pass but the timer, once.
  Each action then ends in a run or in assignments that keep `Settled`. TLC
  checked `RunsInv` on the instance of `eapol_authentication`.

  The proof corrected a property: `FailureClosesPort` used to speak of the flag
  `eapFail`. That flag is stale after a station whose authentication failed
  reassociates with a cached PMK: `eap_sm_notify_cached` sets the state only. The
  property is now about the state of the EAP machine, FAILURE or FAILURE2.

Only model-checked:

- all liveness properties: fairness and `ENABLED` are out of the prover's reach.
  That a run ends is not among them, because a run is a function of the state;
- `OutOfStepByRace`, which needs the course of a run and not only where it ends.

## Not modelled

- TKIP countermeasures, the list of the PMKSA cache, the timeout chain of the
  station table, the EAPOL supplicant machines and the event loop's list of
  timeouts are small machines of the same code base, next in line.
- FT, PeerKey, TDLS, WPS and P2P are protocols of their own behind build
  options; EAP methods are cryptography; drivers are input/output.
- The WAPI daemon (`wapid`) is a second authenticator, independent of hostapd.
- The rest of the repository is older copies of hostapd, hardware tools and
  third-party code.

## Plan

Done: `WpaAuth`, `Supplicant`, `Handshake`, `KeyAgreement`, `EapServer`,
`EapolAuth`, `RadiusClient`; theorems for every invariant of the passing runs,
for their action properties but `OutOfStepByRace`, and for the refinement of
`KeyAgreement`.

1. The station table: the timeout chain of `ap_handle_timer`, session timeouts
   and SA Query; PMKSA cache with expiry; TKIP countermeasures.
2. A second station in `Handshake` for the GTK that is regenerated after an
   entropy rejection.

To check: `tlc -config <run>.cfg <module>` as listed in `PROJECT.json`, and
`tlapm` on the eight modules with theorems.
