------------------------- MODULE RadiusClientProofs -------------------------
(***************************************************************************)
(* Theorems about the RADIUS client of RadiusClient, for every set of      *)
(* stations, every number of identifiers and entries, every configuration. *)
(*                                                                         *)
(* The client's functions work on the record r of the list, its count, the *)
(* timer and the servers in use; ClientOK is what they keep.  The proofs   *)
(* about the actions then only put these lemmas together.                  *)
(***************************************************************************)
EXTENDS RadiusClient, TLAPS, FiniteSetTheorems, FunctionTheorems,
        SequenceTheorems, WellFoundedInduction

Client == [msgs : SUBSET Entry, num_msgs : Nat, timer : BOOLEAN,
           server : [Kind -> Nat]]

Counted(r) ==
    /\ IsFiniteSet(r.msgs)
    /\ Cardinality(r.msgs) <= r.num_msgs /\ r.num_msgs <= RADIUS_CLIENT_MAX_ENTRIES

Unique(r) == \A e, f \in r.msgs : e.id = f.id => e = f

Scheduled(r) == r.msgs # {} => r.timer

Made(r) ==
    \A e \in r.msgs : e.msg_type # "ACCT_INTERIM" => e.shared_secret = Secret(r, e.msg_type)

Served(r) ==
    \A k \in Kind : r.server[k] \in IF conf[k] = <<>> THEN {0} ELSE 1 .. Len(conf[k])

ClientOK(r) ==
    r \in Client /\ Counted(r) /\ Unique(r) /\ Scheduled(r) /\ Made(r) /\ Served(r)

-----------------------------------------------------------------------------
(* Finite sets and configurations *)

\* A set that loses some of its members loses as much of its cardinality.
LEMMA DifferenceCardinality ==
    ASSUME NEW S, IsFiniteSet(S), NEW T \in SUBSET S
    PROVE  /\ IsFiniteSet(S \ T) /\ Cardinality(S \ T) \in Nat
           /\ IsFiniteSet(T) /\ Cardinality(T) \in Nat
           /\ Cardinality(S \ T) = Cardinality(S) - Cardinality(T)
  <1>1. IsFiniteSet(S \ T) /\ IsFiniteSet(T)
    BY FS_Subset
  <1>2. Cardinality(S) \in Nat /\ Cardinality(T) \in Nat /\ Cardinality(S \ T) \in Nat
    BY <1>1, FS_CardinalityType
  <1>3. (S \ T) \cup T = S /\ (S \ T) \cap T = {}
    OBVIOUS
  <1>4. Cardinality((S \ T) \cup T)
          = Cardinality(S \ T) + Cardinality(T) - Cardinality((S \ T) \cap T)
    BY <1>1, FS_Union
  <1>5. Cardinality((S \ T) \cap T) = 0
    BY <1>3, FS_EmptySet
  <1> QED
    BY <1>1, <1>2, <1>3, <1>4, <1>5

\* The servers of a configuration, if there are any, have a secret each.
LEMMA ConfFacts ==
    ASSUME conf \in Confs, NEW k \in Kind
    PROVE  /\ conf[k] \in Seq(STRING) /\ Len(conf[k]) \in Nat
           /\ conf[k] # <<>> <=> Len(conf[k]) > 0
           /\ \A i \in 1 .. Len(conf[k]) : conf[k][i] \in STRING
  <1>1. conf \in ConfType
    BY RadiusAssumption
  <1>2. conf[k] \in Seq(STRING)
    BY <1>1 DEF ConfType, Kind
  <1> QED
    BY <1>2, EmptySeq

\* The age of an entry is a natural number.
LEMMA AgeType ==
    ASSUME NEW next \in Id, NEW id \in Id
    PROVE  Age(next, id) \in Nat /\ Age(next, id) < NumIds
  BY RadiusAssumption DEF Id, Age

\* A set of naturals that is not empty has a least member.
LEMMA LeastNatural ==
    ASSUME NEW T \in SUBSET Nat, T # {}
    PROVE  \E x \in T : \A y \in T : ~ (y < x)
  <1> DEFINE R == {ss \in Nat \X Nat : ss[1] < ss[2]}
  <1>1. IsWellFoundedOn(R, Nat)
    BY NatLessThanWellFounded, Zenon DEF OpToRel
  <1>2. PICK x \in T : \A y \in T : ~ (<<y, x>> \in R)
    <2> HIDE DEF R
    <2> QED
      BY <1>1, WFMin
  <1>3. \A y \in T : ~ (y < x)
    BY <1>2
  <1> QED
    BY <1>3

\* A list that is not empty has an oldest entry.
LEMMA OldestExists ==
    ASSUME NEW S \in SUBSET Entry, S # {}, NEW next \in Id
    PROVE  \E e \in S : e \in Oldest(S, next)
  <1> DEFINE youth(e) == NumIds - Age(next, e.id)
             T == {youth(e) : e \in S}
  <1>1. \A e \in S : e.id \in Id
    BY DEF Entry
  <1>2. \A e \in S : youth(e) \in Nat /\ Age(next, e.id) \in Nat
    BY <1>1, AgeType, RadiusAssumption
  <1>3. T \subseteq Nat /\ T # {}
    BY <1>2
  <1>4. PICK x \in T : \A y \in T : ~ (y < x)
    <2> HIDE DEF T
    <2> QED
      BY <1>3, LeastNatural
  <1>5. PICK e \in S : x = youth(e)
    BY <1>4
  <1>6. \A f \in S : Age(next, f.id) <= Age(next, e.id)
    <2> TAKE f \in S
    <2>1. ~ (youth(f) < youth(e))
      BY <1>4, <1>5
    <2> QED
      BY <2>1, <1>2, RadiusAssumption
  <1> QED
    BY <1>6 DEF Oldest

-----------------------------------------------------------------------------
(* The functions on the list keep ClientOK *)

\* Unlink: the decrements of num_msgs do not go below zero.
LEMMA UnlinkOK ==
    ASSUME NEW r, ClientOK(r), NEW S \in SUBSET r.msgs
    PROVE  ClientOK(Unlink(r, S))
  <1> DEFINE n == r.num_msgs - Cardinality(S)
             u == [r EXCEPT !.msgs = @ \ S, !.num_msgs = n]
  <1>1. r \in Client /\ Counted(r)
    BY DEF ClientOK
  <1>2. /\ IsFiniteSet(r.msgs \ S) /\ Cardinality(r.msgs \ S) \in Nat
        /\ Cardinality(S) \in Nat
        /\ Cardinality(r.msgs \ S) = Cardinality(r.msgs) - Cardinality(S)
    BY <1>1, DifferenceCardinality DEF Counted
  <1>3. Cardinality(r.msgs) \in Nat
    BY <1>1, FS_CardinalityType DEF Counted
  <1>4. /\ n \in Nat /\ Cardinality(r.msgs \ S) <= n
        /\ n <= RADIUS_CLIENT_MAX_ENTRIES
    BY <1>1, <1>2, <1>3, RadiusAssumption DEF Counted, Client
  <1> HIDE DEF n
  <1>5. /\ u \in Client /\ u.msgs = r.msgs \ S /\ u.num_msgs = n
        /\ u.timer = r.timer /\ u.server = r.server
    BY <1>1, <1>4 DEF Client
  <1> HIDE DEF u
  <1>6. Counted(u)
    BY <1>2, <1>4, <1>5 DEF Counted
  <1>7. Unique(u) /\ Scheduled(u) /\ Made(u) /\ Served(u)
    BY <1>5 DEF ClientOK, Unique, Scheduled, Made, Served, Secret
  <1> QED
    BY <1>5, <1>6, <1>7 DEF ClientOK, u, n, Unlink

\* radius_client_get_id: the identifier is free afterwards; a removal that is
\* not counted leaves num_msgs large enough.
LEMMA GetIdOK ==
    ASSUME NEW r, ClientOK(r)
    PROVE  /\ ClientOK(radius_client_get_id(r))
           /\ \A e \in radius_client_get_id(r).msgs : e.id # next_id
           /\ radius_client_get_id(r).server = r.server
  <1> DEFINE M == {e \in r.msgs : e.id # next_id}
             u == [r EXCEPT !.msgs = M]
  <1>1. r \in Client /\ Counted(r)
    BY DEF ClientOK
  <1>2. IsFiniteSet(M) /\ Cardinality(M) <= Cardinality(r.msgs)
    BY <1>1, FS_Subset, M \in SUBSET r.msgs DEF Counted
  <1>3. Cardinality(M) \in Nat /\ Cardinality(r.msgs) \in Nat
    BY <1>1, <1>2, FS_CardinalityType DEF Counted
  <1>4. /\ u \in Client /\ u.msgs = M /\ u.num_msgs = r.num_msgs
        /\ u.timer = r.timer /\ u.server = r.server
    BY <1>1 DEF Client
  <1>5. Counted(u)
    BY <1>1, <1>2, <1>3, <1>4, RadiusAssumption DEF Counted, Client
  <1>6. Unique(u) /\ Scheduled(u) /\ Made(u) /\ Served(u)
    BY <1>4 DEF ClientOK, Unique, Scheduled, Made, Served, Secret
  <1>7. radius_client_get_id(r) = u
    BY DEF radius_client_get_id
  <1> QED
    BY <1>4, <1>5, <1>6, <1>7 DEF ClientOK

\* radius_client_list_add: the limit is kept because the oldest entry goes when
\* the count has reached it, and there is one unless the list is empty.
LEMMA ListAddOK ==
    ASSUME NEW r, ClientOK(r), NEW e \in Entry,
           \A f \in r.msgs : f.id # e.id,
           e.msg_type # "ACCT_INTERIM" => e.shared_secret = Secret(r, e.msg_type)
    PROVE  /\ ClientOK(radius_client_list_add(r, e))
           /\ radius_client_list_add(r, e).server = r.server
  <1> DEFINE full == r.num_msgs >= RADIUS_CLIENT_MAX_ENTRIES
             O == IF full THEN Oldest(r.msgs, e.id) ELSE {}
             n == IF full THEN r.num_msgs ELSE r.num_msgs + 1
             M == (r.msgs \ O) \cup {e}
             u == [r EXCEPT !.msgs = M, !.num_msgs = n, !.timer = TRUE]
  <1>1. r \in Client /\ Counted(r)
    BY DEF ClientOK
  <1>2. O \in SUBSET r.msgs
    BY DEF Oldest
  <1>3. /\ IsFiniteSet(r.msgs \ O) /\ Cardinality(r.msgs \ O) \in Nat
        /\ IsFiniteSet(O) /\ Cardinality(O) \in Nat
        /\ Cardinality(r.msgs \ O) = Cardinality(r.msgs) - Cardinality(O)
    <2> HIDE DEF O
    <2> QED
      BY <1>1, <1>2, DifferenceCardinality DEF Counted
  <1>4. IsFiniteSet(M) /\ Cardinality(M) <= Cardinality(r.msgs \ O) + 1
    <2> DEFINE D == r.msgs \ O
    <2>1. IsFiniteSet(D) /\ Cardinality(D) \in Nat /\ M = D \cup {e}
      BY <1>3
    <2> HIDE DEF D, M
    <2>2. /\ IsFiniteSet(D \cup {e})
          /\ Cardinality(D \cup {e}) = IF e \in D THEN Cardinality(D) ELSE Cardinality(D) + 1
      BY <2>1, FS_AddElement
    <2>3. IsFiniteSet(M) /\ Cardinality(M) <= Cardinality(D) + 1
      BY <2>1, <2>2
    <2> QED
      BY <2>3 DEF D
  <1>5. Cardinality(M) \in Nat /\ Cardinality(r.msgs) \in Nat
    BY <1>1, <1>4, FS_CardinalityType DEF Counted
  <1>6. full /\ r.msgs # {} => Cardinality(O) >= 1
    <2> SUFFICES ASSUME full, r.msgs # {} PROVE Cardinality(O) >= 1
      OBVIOUS
    <2>1. r.msgs \in SUBSET Entry /\ e.id \in Id
      BY <1>1 DEF Client, Entry
    <2>2. O # {}
      BY <2>1, OldestExists
    <2> HIDE DEF O
    <2> QED
      BY <2>2, <1>3, FS_EmptySet
  <1>7. r.num_msgs \in Nat /\ n \in Nat /\ n <= RADIUS_CLIENT_MAX_ENTRIES
    BY <1>1, RadiusAssumption DEF Client, Counted
  <1>8. Cardinality(M) <= n
    <2>1. CASE full
      <3>1. n = r.num_msgs /\ 1 <= n
        BY <2>1, <1>7, RadiusAssumption
      <3>2. CASE r.msgs = {}
        <4>1. Cardinality(r.msgs) = 0
          BY <3>2, FS_EmptySet
        <4> QED
          BY <4>1, <3>1, <1>3, <1>4, <1>5, <1>7
      <3>3. CASE r.msgs # {}
        <4>1. Cardinality(O) >= 1
          BY <1>6, <2>1, <3>3
        <4>2. Cardinality(r.msgs) <= r.num_msgs
          BY <1>1 DEF Counted
        <4> HIDE DEF O, M, n
        <4> QED
          BY <4>1, <4>2, <3>1, <1>3, <1>4, <1>5, <1>7
      <3> QED
        BY <3>2, <3>3
    <2>2. CASE ~full
      <3>1. n = r.num_msgs + 1
        BY <2>2
      <3>2. Cardinality(r.msgs) <= r.num_msgs
        BY <1>1 DEF Counted
      <3> HIDE DEF O, M, n, full
      <3> QED
        BY <3>1, <3>2, <1>3, <1>4, <1>5, <1>7
    <2> QED
      BY <2>1, <2>2
  <1>9. M \in SUBSET Entry
    BY <1>1, <1>2 DEF Client
  <1> HIDE DEF n
  <1>10. /\ u \in Client /\ u.msgs = M /\ u.num_msgs = n /\ u.timer = TRUE
         /\ u.server = r.server
    <2> HIDE DEF M
    <2> QED
      BY <1>1, <1>7, <1>9 DEF Client
  <1> HIDE DEF u, O
  <1>11. Counted(u)
    BY <1>4, <1>7, <1>8, <1>10 DEF Counted
  <1>12. Unique(u) /\ Scheduled(u) /\ Made(u) /\ Served(u)
    BY <1>10 DEF ClientOK, Unique, Scheduled, Made, Served, Secret
  <1>13. radius_client_list_add(r, e) = u
    <2>1. CASE full
      BY <2>1 DEF radius_client_list_add, u, O, n
    <2>2. CASE ~full
      BY <2>2 DEF radius_client_list_add, u, O, n
    <2> QED
      BY <2>1, <2>2
  <1> QED
    BY <1>10, <1>11, <1>12, <1>13 DEF ClientOK

\* SendNew: radius_client_get_id and radius_client_send together.
LEMMA SendNewOK ==
    ASSUME conf \in Confs, next_id \in Id,
           NEW r, ClientOK(r), NEW type \in MsgType, NEW s \in STA \cup {NoSTA},
           conf[KindOf(type)] # <<>>
    PROVE  ClientOK(SendNew(r, type, s))
  <1> DEFINE g == radius_client_get_id(r)
             d == IF type = "ACCT_INTERIM" /\ s # NoSTA
                  THEN radius_client_list_del(g, type, s) ELSE g
             e == [id |-> next_id, addr |-> s, msg_type |-> type, attempts |-> 1,
                   shared_secret |-> Secret(g, type)]
  <1>1. ClientOK(g) /\ \A f \in g.msgs : f.id # next_id
    BY GetIdOK
  <1> HIDE DEF g
  <1>2. /\ ClientOK(d) /\ d.msgs \subseteq g.msgs /\ d.server = g.server
    <2> DEFINE S == {f \in g.msgs : f.msg_type = type /\ f.addr = s}
    <2>1. ClientOK(Unlink(g, S))
      BY <1>1, UnlinkOK, S \in SUBSET g.msgs
    <2>2. Unlink(g, S).msgs \subseteq g.msgs /\ Unlink(g, S).server = g.server
      BY <1>1 DEF Unlink, ClientOK, Client
    <2> QED
      BY <1>1, <2>1, <2>2 DEF radius_client_list_del
  <1> HIDE DEF d
  <1>3. Secret(g, type) \in STRING
    <2>1. KindOf(type) \in Kind
      BY DEF KindOf, Kind
    <2>2. g.server[KindOf(type)] \in 1 .. Len(conf[KindOf(type)])
      BY <1>1, <2>1, ConfFacts DEF ClientOK, Client, Served
    <2> QED
      BY <2>1, <2>2, ConfFacts DEF Secret
  <1>4. e \in Entry /\ e.id = next_id /\ e.msg_type = type /\ e.shared_secret = Secret(g, type)
    BY <1>3 DEF Entry
  <1> HIDE DEF e
  <1>5. \A f \in d.msgs : f.id # e.id
    BY <1>1, <1>2, <1>4
  <1>6. e.shared_secret = Secret(d, e.msg_type)
    BY <1>2, <1>4 DEF Secret
  <1>7. ClientOK(radius_client_list_add(d, e))
    BY <1>2, <1>4, <1>5, <1>6, ListAddOK
  <1> QED
    BY <1>7 DEF SendNew, radius_client_send, d, e, g

\* A change of the entries that keeps identifiers and types keeps the list in
\* order, if the entries are still made for the servers in use.
LEMMA MapOK ==
    ASSUME conf \in Confs, NEW r \in Client, Counted(r), Unique(r),
           NEW f \in [r.msgs -> Entry],
           \A e \in r.msgs : f[e].id = e.id,
           NEW q \in Client, q.msgs = {f[e] : e \in r.msgs}, q.num_msgs = r.num_msgs
    PROVE  Counted(q) /\ Unique(q)
  <1>1. IsFiniteSet(q.msgs) /\ Cardinality(q.msgs) <= Cardinality(r.msgs)
    <2>1. f \in Surjection(r.msgs, q.msgs)
      BY DEF Surjection
    <2> QED
      BY <2>1, FS_Surjection DEF Counted
  <1>2. Cardinality(q.msgs) \in Nat /\ Cardinality(r.msgs) \in Nat
    BY <1>1, FS_CardinalityType DEF Counted
  <1>3. Counted(q)
    BY <1>1, <1>2, RadiusAssumption DEF Counted, Client
  <1>4. Unique(q)
    BY DEF Unique
  <1> QED
    BY <1>3, <1>4

\* radius_change_server, when the new server has the secret of the old one.
LEMMA ResetOK ==
    ASSUME conf \in Confs, NEW r \in Client, Counted(r), Unique(r), NEW type \in MsgType
    PROVE  LET q == [r EXCEPT !.msgs = {IF e.msg_type = type THEN [e EXCEPT !.attempts = 0]
                                        ELSE e : e \in @},
                              !.timer = @ \/ r.msgs # {}]
           IN /\ q \in Client /\ Counted(q) /\ Unique(q) /\ Scheduled(q)
              /\ q.server = r.server
              /\ Made(r) => Made(q)
  <1> DEFINE f == [e \in r.msgs |-> IF e.msg_type = type THEN [e EXCEPT !.attempts = 0] ELSE e]
             M == {f[e] : e \in r.msgs}
             t == r.timer \/ r.msgs # {}
             q == [r EXCEPT !.msgs = M, !.timer = t]
  <1>1. /\ f \in [r.msgs -> Entry]
        /\ \A e \in r.msgs : /\ f[e].id = e.id /\ f[e].msg_type = e.msg_type
                             /\ f[e].shared_secret = e.shared_secret
    BY DEF Client, Entry
  <1>2. M = {IF e.msg_type = type THEN [e EXCEPT !.attempts = 0] ELSE e : e \in r.msgs}
    OBVIOUS
  <1> HIDE DEF f
  <1>3. M \in SUBSET Entry /\ (M = {} <=> r.msgs = {})
    BY <1>1
  <1>4. /\ q \in Client /\ q.msgs = M /\ q.num_msgs = r.num_msgs
        /\ q.timer = t /\ q.server = r.server
    <2> HIDE DEF M
    <2> QED
      BY <1>3 DEF Client
  <1> HIDE DEF q
  <1>5. Counted(q) /\ Unique(q)
    BY <1>1, <1>4, MapOK
  <1>6. Scheduled(q)
    BY <1>3, <1>4 DEF Scheduled
  <1>7. Made(r) => Made(q)
    BY <1>1, <1>4 DEF Made, Secret
  <1>8. q = [r EXCEPT !.msgs = {IF e.msg_type = type THEN [e EXCEPT !.attempts = 0]
                                ELSE e : e \in @},
                      !.timer = @ \/ r.msgs # {}]
    BY <1>2 DEF q
  <1> QED
    BY <1>4, <1>5, <1>6, <1>7, <1>8

\* radius_change_server, up to the reset of the retry counters: what remains
\* pending is made for the new server.
LEMMA AdaptedOK ==
    ASSUME conf \in Confs, NEW r, ClientOK(r), NEW k \in Kind, NEW new \in 1 .. Len(conf[k])
    PROVE  LET n == [r EXCEPT !.server[k] = new]
               a == IF conf[k][new] = conf[k][r.server[k]] THEN n
                    ELSE IF k = "auth" THEN radius_client_flush_only_auth(n)
                    ELSE radius_client_update_acct_msgs(n, conf[k][new])
           IN a \in Client /\ Counted(a) /\ Unique(a) /\ Made(a) /\ Served(a)
  <1> DEFINE n == [r EXCEPT !.server[k] = new]
  <1>1. r \in Client /\ Counted(r) /\ Unique(r) /\ Made(r) /\ Served(r)
    BY DEF ClientOK
  <1>2. /\ n \in Client /\ n.msgs = r.msgs /\ n.num_msgs = r.num_msgs /\ n.timer = r.timer
        /\ n.server = [r.server EXCEPT ![k] = new]
    <2> DEFINE servers == [r.server EXCEPT ![k] = new]
    <2>1. new \in Nat
      BY ConfFacts
    <2>2. servers \in [Kind -> Nat]
      BY <1>1, <2>1 DEF Client
    <2>3. n = [r EXCEPT !.server = servers]
      BY <1>1 DEF Client
    <2> HIDE DEF servers, n
    <2>4. /\ n \in Client /\ n.msgs = r.msgs /\ n.num_msgs = r.num_msgs /\ n.timer = r.timer
          /\ n.server = servers
      BY <1>1, <2>2, <2>3 DEF Client
    <2> QED
      BY <2>4 DEF servers
  <1>3. Served(n)
    BY <1>1, <1>2, ConfFacts DEF Served, Client
  <1>4. Counted(n) /\ Unique(n)
    BY <1>1, <1>2 DEF Counted, Unique
  <1>5. \A e \in r.msgs : KindOf(e.msg_type) # k => Secret(n, e.msg_type) = Secret(r, e.msg_type)
    BY <1>1, <1>2 DEF Secret, KindOf, Client, Kind
  <1>6. \A e \in r.msgs : KindOf(e.msg_type) = k => Secret(n, e.msg_type) = conf[k][new]
    BY <1>1, <1>2 DEF Secret, Client
  <1> HIDE DEF n
  <1>7. CASE conf[k][new] = conf[k][r.server[k]]
    <2>1. Made(n)
      BY <1>1, <1>2, <1>5, <1>6, <1>7 DEF Made, Secret
    <2> QED
      BY <1>2, <1>3, <1>4, <1>7, <2>1 DEF n
  <1>8. CASE conf[k][new] # conf[k][r.server[k]] /\ k = "auth"
    <2> DEFINE S == {e \in r.msgs : e.msg_type = "AUTH"}
               u == Unlink(r, S)
               a == radius_client_flush_only_auth(n)
    <2>1. ClientOK(u)
      BY UnlinkOK, S \in SUBSET r.msgs
    <2>2. /\ u \in Client /\ Counted(u) /\ Unique(u) /\ u.msgs = r.msgs \ S
          /\ u.num_msgs = r.num_msgs - Cardinality(S)
      BY <2>1, <1>1 DEF ClientOK, Unlink, Client
    <2>3. /\ a \in Client /\ a.msgs = u.msgs /\ a.num_msgs = u.num_msgs /\ a.server = n.server
      <3>1. S = {e \in n.msgs : e.msg_type = "AUTH"}
        BY <1>2
      <3> DEFINE m == u.num_msgs
      <3>2. m \in Nat /\ m = n.num_msgs - Cardinality(S)
        BY <2>2, <1>2 DEF Client
      <3> HIDE DEF m, S
      <3>3. Unlink(n, S) = [n EXCEPT !.msgs = @ \ S, !.num_msgs = m]
        BY <3>2, <1>2 DEF Unlink, Client
      <3> QED
        BY <3>1, <3>2, <3>3, <2>2, <1>2 DEF radius_client_flush_only_auth, Client, m
    <2> HIDE DEF a, u
    <2>4. Counted(a) /\ Unique(a)
      BY <2>2, <2>3 DEF Counted, Unique
    <2>5. Served(a)
      BY <1>3, <2>3 DEF Served
    <2>6. Made(a)
      <3> SUFFICES ASSUME NEW e \in a.msgs, e.msg_type # "ACCT_INTERIM"
                   PROVE  e.shared_secret = Secret(a, e.msg_type)
        BY DEF Made
      <3>1. e \in r.msgs /\ e.msg_type # "AUTH" /\ KindOf(e.msg_type) # k
        BY <2>2, <2>3, <1>8 DEF KindOf
      <3> QED
        BY <3>1, <1>1, <1>5, <2>3 DEF Made, Secret
    <2> QED
      BY <1>8, <2>3, <2>4, <2>5, <2>6 DEF a, n
  <1>9. CASE conf[k][new] # conf[k][r.server[k]] /\ k = "acct"
    <2> DEFINE x == conf[k][new]
               f == [e \in n.msgs |-> IF e.msg_type = "ACCT" THEN [e EXCEPT !.shared_secret = x]
                                      ELSE e]
               M == {f[e] : e \in n.msgs}
               a == [n EXCEPT !.msgs = M]
    <2>1. x \in STRING
      BY ConfFacts
    <2> HIDE DEF x
    <2>2. /\ f \in [n.msgs -> Entry]
          /\ \A e \in n.msgs : /\ f[e].id = e.id /\ f[e].msg_type = e.msg_type
                               /\ e.msg_type = "ACCT" => f[e].shared_secret = x
                               /\ e.msg_type # "ACCT" => f[e] = e
      BY <1>2, <2>1 DEF Client, Entry
    <2>3. a = radius_client_update_acct_msgs(n, x)
      BY <1>2 DEF radius_client_update_acct_msgs
    <2> HIDE DEF f
    <2>4. M \in SUBSET Entry
      BY <2>2
    <2>5. a \in Client /\ a.msgs = M /\ a.num_msgs = n.num_msgs /\ a.server = n.server
      <3> HIDE DEF M
      <3> QED
        BY <2>4, <1>2 DEF Client
    <2> HIDE DEF a
    <2>6. Counted(a) /\ Unique(a)
      BY <1>2, <1>4, <2>2, <2>5, MapOK
    <2>7. Served(a)
      BY <1>3, <2>5 DEF Served
    <2>8. Made(a)
      <3> SUFFICES ASSUME NEW e \in n.msgs, f[e].msg_type # "ACCT_INTERIM"
                   PROVE  f[e].shared_secret = Secret(a, f[e].msg_type)
        BY <2>5 DEF Made
      <3>1. e \in r.msgs /\ f[e].msg_type = e.msg_type /\ e.msg_type \in MsgType
        BY <1>2, <2>2 DEF Client, Entry
      <3>2. Secret(a, e.msg_type) = Secret(n, e.msg_type)
        BY <2>5 DEF Secret
      <3>3. CASE e.msg_type = "ACCT"
        BY <3>1, <3>2, <3>3, <2>2, <1>6, <1>9 DEF KindOf, x
      <3>4. CASE e.msg_type = "AUTH"
        BY <3>1, <3>2, <3>4, <2>2, <1>1, <1>5, <1>9 DEF KindOf, Made
      <3> QED
        BY <3>1, <3>3, <3>4 DEF MsgType
    <2> QED
      BY <1>9, <2>3, <2>5, <2>6, <2>7, <2>8 DEF n, x
  <1> QED
    BY <1>7, <1>8, <1>9 DEF Kind

\* radius_change_server keeps the list in order and its timer registered.
LEMMA ChangeServerOK ==
    ASSUME conf \in Confs, NEW r, ClientOK(r), NEW k \in Kind, NEW new \in 1 .. Len(conf[k])
    PROVE  ClientOK(radius_change_server(r, k, new))
  <1> DEFINE n == [r EXCEPT !.server[k] = new]
             a == IF conf[k][new] = conf[k][r.server[k]] THEN n
                  ELSE IF k = "auth" THEN radius_client_flush_only_auth(n)
                  ELSE radius_client_update_acct_msgs(n, conf[k][new])
             type == IF k = "auth" THEN "AUTH" ELSE "ACCT"
             q == [a EXCEPT !.msgs = {IF e.msg_type = type THEN [e EXCEPT !.attempts = 0]
                                      ELSE e : e \in @},
                            !.timer = @ \/ a.msgs # {}]
  <1>1. a \in Client /\ Counted(a) /\ Unique(a) /\ Made(a) /\ Served(a)
    BY AdaptedOK
  <1>2. type \in MsgType
    BY DEF MsgType
  <1>3. q = radius_change_server(r, k, new)
    BY DEF radius_change_server
  <1> HIDE DEF a, type
  <1>4. /\ q \in Client /\ Counted(q) /\ Unique(q) /\ Scheduled(q) /\ q.server = a.server
        /\ Made(q)
    BY <1>1, <1>2, ResetOK
  <1> HIDE DEF q
  <1>5. Served(q)
    BY <1>1, <1>4 DEF Served
  <1> QED
    BY <1>3, <1>4, <1>5 DEF ClientOK

\* The loop of radius_client_timer.
LEMMA RetransmitOK ==
    ASSUME conf \in Confs, NEW r, ClientOK(r), NEW due \in SUBSET r.msgs
    PROVE  ClientOK(Retransmit(r, due))
  <1> DEFINE D == {d \in due : d.attempts + 1 < RADIUS_CLIENT_MAX_RETRIES}
             G == {d \in due : d.attempts + 1 >= RADIUS_CLIENT_MAX_RETRIES}
             u == Unlink(r, G)
             f == [e \in u.msgs |-> IF e \in D THEN [e EXCEPT !.attempts = @ + 1] ELSE e]
             M == {f[e] : e \in u.msgs}
             kept == (r.msgs \ due) \cup {[e EXCEPT !.attempts = @ + 1] : e \in D}
             n == r.num_msgs - Cardinality(G)
             q == [r EXCEPT !.msgs = kept, !.timer = kept # {}, !.num_msgs = n]
  <1>1. r \in Client /\ r.msgs \in SUBSET Entry
    BY DEF ClientOK, Client
  <1>2. \A d \in due : d.attempts \in Nat
    BY <1>1 DEF Entry
  <1>3. D \cup G = due /\ D \cap G = {} /\ G \in SUBSET r.msgs /\ D \in SUBSET r.msgs
    BY <1>2, RadiusAssumption
  <1>4. ClientOK(u)
    BY <1>3, UnlinkOK
  <1>5. /\ u \in Client /\ u.msgs = r.msgs \ G /\ u.num_msgs = n /\ u.server = r.server
    <2> HIDE DEF G
    <2> QED
      BY <1>1, <1>4 DEF Unlink, ClientOK, Client
  <1>6. n \in Nat
    BY <1>5 DEF Client
  <1> HIDE DEF u, n, D, G
  <1>7. u.msgs = (r.msgs \ due) \cup D
    BY <1>3, <1>5
  <1>8. /\ f \in [u.msgs -> Entry]
        /\ \A e \in u.msgs : /\ f[e].id = e.id /\ f[e].msg_type = e.msg_type
                             /\ f[e].shared_secret = e.shared_secret
    <2>1. \A e \in Entry : e.attempts + 1 \in Nat
      BY DEF Entry
    <2> QED
      BY <1>5, <2>1 DEF Client, Entry
  <1>9. M = kept
    <2>1. \A e \in D : e \in u.msgs /\ f[e] = [e EXCEPT !.attempts = @ + 1]
      BY <1>7
    <2>2. \A e \in u.msgs \ D : e \in r.msgs \ due /\ f[e] = e
      BY <1>7
    <2>3. \A e \in r.msgs \ due : e \in u.msgs \ D
      BY <1>3, <1>7
    <2> HIDE DEF f
    <2>4. ASSUME NEW e \in u.msgs PROVE f[e] \in kept
      <3>1. CASE e \in D
        BY <2>1, <3>1
      <3>2. CASE e \notin D
        BY <2>2, <3>2
      <3> QED
        BY <3>1, <3>2
    <2>5. kept \subseteq M
      BY <2>1, <2>2, <2>3
    <2> QED
      BY <2>4, <2>5
  <1> HIDE DEF f, kept
  <1>10. kept \in SUBSET Entry
    BY <1>8, <1>9
  <1> HIDE DEF M
  <1>11. /\ q \in Client /\ q.msgs = kept /\ q.num_msgs = n /\ q.server = r.server
         /\ q.timer = (kept # {})
    BY <1>1, <1>6, <1>10 DEF Client
  <1> HIDE DEF q
  <1>12. q.msgs = {f[e] : e \in u.msgs} /\ q.num_msgs = u.num_msgs
    BY <1>5, <1>9, <1>11 DEF M
  <1>13. Counted(q) /\ Unique(q)
    BY <1>4, <1>5, <1>8, <1>11, <1>12, MapOK DEF ClientOK
  <1>14. Scheduled(q)
    BY <1>11 DEF Scheduled
  <1>15. Made(q)
    BY <1>4, <1>5, <1>8, <1>11, <1>12 DEF Made, ClientOK, Secret
  <1>16. Served(q)
    BY <1>4, <1>5, <1>11 DEF ClientOK, Served
  <1>17. q = Retransmit(r, due)
    BY DEF q, kept, n, D, G, Retransmit
  <1> QED
    BY <1>11, <1>13, <1>14, <1>15, <1>16, <1>17 DEF ClientOK

\* The failover of radius_client_timer, to the next server or round to the first.
LEMMA FailoverOK ==
    ASSUME conf \in Confs, NEW r, ClientOK(r), NEW k \in Kind
    PROVE  ClientOK(Failover(r, k))
  <1> DEFINE new == IF r.server[k] = Len(conf[k]) THEN 1 ELSE r.server[k] + 1
  <1>1. Len(conf[k]) > 1 => new \in 1 .. Len(conf[k])
    BY ConfFacts DEF ClientOK, Client, Served
  <1> HIDE DEF new
  <1>2. Len(conf[k]) > 1 => ClientOK(radius_change_server(r, k, new))
    BY <1>1, ChangeServerOK
  <1> QED
    BY <1>2 DEF Failover, new

\* radius_retry_primary_timer, for one kind of server.
LEMMA RetryPrimaryOK ==
    ASSUME conf \in Confs, NEW r, ClientOK(r), NEW k \in Kind
    PROVE  ClientOK(RetryPrimary(r, k))
  <1>1. r.server[k] > 1 => 1 \in 1 .. Len(conf[k])
    BY ConfFacts DEF ClientOK, Served
  <1>2. r.server[k] > 1 => ClientOK(radius_change_server(r, k, 1))
    BY <1>1, ChangeServerOK
  <1> QED
    BY <1>2 DEF RetryPrimary

-----------------------------------------------------------------------------
(* The specification *)

Inv == TypeOK /\ PendingCounted /\ UniqueIds /\ RetransmitScheduled /\ MadeForServer

\* The part of Inv that the client's functions are about, and the rest.
ClientInv ==
    /\ msgs \subseteq Entry /\ IsFiniteSet(msgs) /\ num_msgs \in Nat /\ timer \in BOOLEAN
    /\ server \in [Kind -> Nat]
    /\ \A k \in Kind : server[k] \in IF conf[k] = <<>> THEN {0} ELSE 1 .. Len(conf[k])
    /\ PendingCounted /\ UniqueIds /\ RetransmitScheduled /\ MadeForServer

UserInv ==
    /\ conf \in Confs /\ next_id \in Id
    /\ radius_identifier \in [STA -> Id \cup {-1}]
    /\ acct_session_started \in [STA -> BOOLEAN]
    /\ \A s \in STA : acct_session_started[s] => conf.acct # <<>>
    /\ sent \in Nat

\* Inv is these two parts.
LEMMA InvParts == Inv <=> ClientInv /\ UserInv
  BY DEF Inv, ClientInv, UserInv, TypeOK

\* The current state satisfies ClientOK.
LEMMA NowOK ==
    ASSUME ClientInv
    PROVE  ClientOK(Now) /\ Now.msgs = msgs
  BY DEF ClientInv, ClientOK, Client, Now, Counted, Unique, Scheduled, Made, Served, Secret,
         PendingCounted, UniqueIds, RetransmitScheduled, MadeForServer

\* A new state that satisfies ClientOK satisfies ClientInv.
LEMMA BecomesOK ==
    ASSUME NEW r, ClientOK(r), Becomes(r), conf' = conf
    PROVE  ClientInv'
  <1>1. msgs' = r.msgs /\ num_msgs' = r.num_msgs /\ timer' = r.timer /\ server' = r.server
    BY DEF Becomes
  <1> QED
    BY <1>1 DEF ClientInv, ClientOK, Client, Now, Counted, Unique, Scheduled, Made, Served,
         Secret, PendingCounted, UniqueIds, RetransmitScheduled, MadeForServer

\* The list starts with Accounting-On, or empty without an accounting server.
LEMMA InitInv == Init => Inv
  <1> SUFFICES ASSUME Init PROVE Inv
    OBVIOUS
  <1>1. conf \in Confs /\ conf.acct = conf["acct"]
    BY DEF Init
  <1>2. /\ server \in [Kind -> Nat]
        /\ \A k \in Kind : server[k] \in IF conf[k] = <<>> THEN {0} ELSE 1 .. Len(conf[k])
    BY <1>1, ConfFacts DEF Init
  <1>3. ClientInv /\ next_id \in Id
    <2>1. CASE conf.acct = <<>>
      <3>1. msgs = {} /\ num_msgs = 0 /\ timer = FALSE /\ next_id = 0
        BY <2>1 DEF Init, accounting_report_state
      <3>2. IsFiniteSet(msgs) /\ Cardinality(msgs) = 0
        BY <3>1, FS_EmptySet
      <3>3. UniqueIds /\ RetransmitScheduled /\ MadeForServer
        BY <3>1 DEF UniqueIds, RetransmitScheduled, MadeForServer
      <3>4. PendingCounted
        BY <3>1, <3>2, RadiusAssumption DEF PendingCounted
      <3>5. msgs \subseteq Entry /\ num_msgs \in Nat /\ timer \in BOOLEAN
        BY <3>1
      <3>6. next_id \in Id
        BY <3>1, RadiusAssumption DEF Id
      <3> QED
        BY <1>2, <3>2, <3>3, <3>4, <3>5, <3>6, Zenon DEF ClientInv
    <2>2. CASE conf.acct # <<>>
      <3> DEFINE e == [id |-> 0, addr |-> NoSTA, msg_type |-> "ACCT", attempts |-> 1,
                       shared_secret |-> conf.acct[1]]
      <3>1. conf["acct"][1] \in STRING /\ server["acct"] = 1
        BY <1>1, <2>2, ConfFacts DEF Init, Kind
      <3>2. msgs = {e} /\ num_msgs = 1 /\ timer = TRUE /\ next_id = 1 % NumIds
        BY <2>2 DEF Init, accounting_report_state
      <3>3. e \in Entry /\ e.msg_type = "ACCT" /\ e.shared_secret = conf["acct"][1]
        BY <1>1, <3>1, RadiusAssumption DEF Entry, Id, MsgType
      <3> HIDE DEF e
      <3>4. IsFiniteSet(msgs) /\ Cardinality(msgs) = 1
        BY <3>2, FS_Singleton
      <3>5. ClientInv
        BY <1>2, <3>1, <3>2, <3>3, <3>4, RadiusAssumption
        DEF ClientInv, PendingCounted, UniqueIds, RetransmitScheduled, MadeForServer,
            Secret, KindOf, Now
      <3> QED
        BY <3>2, <3>5, RadiusAssumption DEF Id
    <2> QED
      BY <2>1, <2>2
  <1>4. UserInv
    BY <1>1, <1>3 DEF Init, UserInv
  <1> QED
    BY <1>3, <1>4, InvParts

\* Sending one more request keeps the client in order and takes an identifier.
LEMMA SendStep ==
    ASSUME ClientInv, UserInv, NEW type \in MsgType, NEW s \in STA, conf' = conf,
           conf[KindOf(type)] # <<>>,
           Becomes(SendNew(Now, type, s)), Count
    PROVE  ClientInv' /\ next_id' \in Id /\ sent' \in Nat
  <1>1. ClientOK(SendNew(Now, type, s))
    BY NowOK, SendNewOK DEF UserInv
  <1>2. ClientInv'
    BY <1>1, BecomesOK
  <1>3. next_id' \in Id /\ sent' \in Nat
    BY RadiusAssumption DEF Count, UserInv, Id
  <1> QED
    BY <1>2, <1>3

\* Every step keeps Inv.
LEMMA NextInv == Inv /\ [Next]_vars => Inv'
  <1> SUFFICES ASSUME Inv, [Next]_vars PROVE Inv'
    OBVIOUS
  <1>1. ClientInv /\ UserInv
    BY InvParts
  <1>2. ClientOK(Now) /\ Now.msgs = msgs /\ conf \in Confs
    BY <1>1, NowOK DEF UserInv
  <1>3. "auth" \in Kind /\ "acct" \in Kind
    BY DEF Kind
  <1>4. ASSUME NEW due \in SUBSET msgs, radius_client_timer(due) PROVE Inv'
    <2>1. ClientOK(Retransmit(Now, due))
      BY <1>2, RetransmitOK
    <2>2. ClientOK(Failover(Retransmit(Now, due), "auth"))
      BY <1>2, <1>3, <2>1, FailoverOK
    <2>3. ClientOK(Failover(Failover(Retransmit(Now, due), "auth"), "acct"))
      BY <1>2, <1>3, <2>2, FailoverOK
    <2>4. ClientInv'
      BY <1>4, <2>3, BecomesOK DEF radius_client_timer
    <2>5. UserInv'
      BY <1>1, <1>4 DEF radius_client_timer, UserInv
    <2> QED
      BY <2>4, <2>5, InvParts, PTL
  <1>5. ASSUME radius_retry_primary_timer PROVE Inv'
    <2>1. ClientOK(RetryPrimary(Now, "auth"))
      BY <1>2, <1>3, RetryPrimaryOK
    <2>2. ClientOK(RetryPrimary(RetryPrimary(Now, "auth"), "acct"))
      BY <1>2, <1>3, <2>1, RetryPrimaryOK
    <2>3. ClientInv'
      BY <1>5, <2>2, BecomesOK DEF radius_retry_primary_timer
    <2>4. UserInv'
      BY <1>1, <1>5 DEF radius_retry_primary_timer, UserInv
    <2> QED
      BY <2>3, <2>4, InvParts, PTL
  <1>6. ASSUME NEW s \in STA, ieee802_1x_encapsulate_radius(s) PROVE Inv'
    <2>0. conf[KindOf("AUTH")] # <<>>
      BY <1>1, <1>6 DEF ieee802_1x_encapsulate_radius, UserInv, KindOf
    <2>1. ClientInv' /\ next_id' \in Id /\ sent' \in Nat
      BY <1>1, <1>6, <2>0, SendStep DEF ieee802_1x_encapsulate_radius, MsgType
    <2>2. UserInv'
      BY <1>1, <1>6, <2>1 DEF ieee802_1x_encapsulate_radius, UserInv
    <2> QED
      BY <2>1, <2>2, InvParts, PTL
  <1>7. ASSUME NEW s \in STA, accounting_sta_start(s) PROVE Inv'
    <2>0. conf[KindOf("ACCT")] # <<>>
      BY <1>1, <1>7 DEF accounting_sta_start, UserInv, KindOf
    <2>1. ClientInv' /\ next_id' \in Id /\ sent' \in Nat
      BY <1>1, <1>7, <2>0, SendStep DEF accounting_sta_start, MsgType
    <2>2. UserInv'
      BY <1>1, <1>7, <2>1 DEF accounting_sta_start, UserInv
    <2> QED
      BY <2>1, <2>2, InvParts, PTL
  <1>8. ASSUME NEW s \in STA, accounting_sta_interim(s) PROVE Inv'
    <2>0. conf[KindOf("ACCT_INTERIM")] # <<>>
      BY <1>1, <1>8 DEF accounting_sta_interim, UserInv, KindOf
    <2>1. ClientInv' /\ next_id' \in Id /\ sent' \in Nat
      BY <1>1, <1>8, <2>0, SendStep DEF accounting_sta_interim, MsgType
    <2>2. UserInv'
      BY <1>1, <1>8, <2>1 DEF accounting_sta_interim, UserInv
    <2> QED
      BY <2>1, <2>2, InvParts, PTL
  <1>9. ASSUME NEW s \in STA, accounting_sta_stop(s) PROVE Inv'
    <2>0. conf[KindOf("ACCT")] # <<>>
      BY <1>1, <1>9 DEF accounting_sta_stop, UserInv, KindOf
    <2>1. ClientInv' /\ next_id' \in Id /\ sent' \in Nat
      BY <1>1, <1>9, <2>0, SendStep DEF accounting_sta_stop, MsgType
    <2>2. UserInv'
      BY <1>1, <1>9, <2>1 DEF accounting_sta_stop, UserInv
    <2> QED
      BY <2>1, <2>2, InvParts, PTL
  <1>10. ASSUME NEW s \in STA, ap_free_sta(s) PROVE Inv'
    <2>1. ASSUME NEW r, ClientOK(r) PROVE ClientOK(radius_client_flush_auth(r, s))
      <3> DEFINE S == {e \in r.msgs : e.msg_type = "AUTH" /\ e.addr = s}
      <3> QED
        BY <2>1, UnlinkOK, S \in SUBSET r.msgs DEF radius_client_flush_auth
    <2>2. acct_session_started[s] => ClientOK(SendNew(Now, "ACCT", s))
      BY <1>1, <1>2, SendNewOK DEF UserInv, MsgType, KindOf
    <2>3. conf' = conf
      BY <1>10 DEF ap_free_sta
    <2>4. ClientInv' /\ next_id' \in Id /\ sent' \in Nat
      <3>1. CASE acct_session_started[s]
        <4>1. Count /\ Becomes(radius_client_flush_auth(SendNew(Now, "ACCT", s), s))
          BY <1>10, <3>1 DEF ap_free_sta
        <4>2. ClientInv'
          BY <2>1, <2>2, <2>3, <3>1, <4>1, BecomesOK
        <4> QED
          BY <1>1, <4>1, <4>2, RadiusAssumption DEF Count, UserInv, Id
      <3>2. CASE ~acct_session_started[s]
        <4>1. /\ UNCHANGED <<sent, next_id>>
              /\ Becomes(radius_client_flush_auth(Now, s))
          BY <1>10, <3>2 DEF ap_free_sta
        <4>2. ClientInv'
          BY <1>2, <2>1, <2>3, <4>1, BecomesOK
        <4> QED
          BY <1>1, <4>1, <4>2 DEF UserInv
      <3> QED
        BY <3>1, <3>2
    <2>5. UserInv'
      BY <1>1, <1>10, <2>4 DEF ap_free_sta, UserInv
    <2> QED
      BY <2>4, <2>5, InvParts, PTL
  <1>11. ASSUME NEW k \in Kind, NEW i \in Id, NEW v \in BOOLEAN, radius_client_receive(k, i, v)
         PROVE  Inv'
    <2>1. PICK req \in Matching(k, i) : Becomes(Unlink(Now, {req}))
      BY <1>11 DEF radius_client_receive
    <2>2. {req} \in SUBSET Now.msgs
      BY <1>2, <2>1 DEF Matching
    <2>3. ClientInv'
      BY <1>2, <1>11, <2>1, <2>2, UnlinkOK, BecomesOK DEF radius_client_receive
    <2>4. UserInv'
      BY <1>1, <1>11 DEF radius_client_receive, UserInv
    <2> QED
      BY <2>3, <2>4, InvParts, PTL
  <1>12. ASSUME UNCHANGED vars PROVE Inv'
    <2>1. ClientInv'
      BY <1>1, <1>12 DEF vars, ClientInv, PendingCounted, UniqueIds, RetransmitScheduled,
                         MadeForServer, Secret, Now
    <2>2. UserInv'
      BY <1>1, <1>12 DEF vars, UserInv
    <2> QED
      BY <2>1, <2>2, InvParts, PTL
  <1> QED
    BY <1>4, <1>5, <1>6, <1>7, <1>8, <1>9, <1>10, <1>11, <1>12 DEF Next

\* The state of the RADIUS client keeps its type, whatever the number of
\* identifiers, entries and stations and whatever the servers answer.
THEOREM RadiusTypeCorrect == Spec => []TypeOK
  <1>1. Spec => []Inv
    BY InitInv, NextInv, PTL DEF Spec
  <1> QED
    BY <1>1, PTL DEF Inv

\* num_msgs, which radius_client_get_id does not count down, never falls below
\* the length of the list, nor does it exceed the limit.
THEOREM PendingAlwaysCounted == Spec => []PendingCounted
  <1>1. Spec => []Inv
    BY InitInv, NextInv, PTL DEF Spec
  <1> QED
    BY <1>1, PTL DEF Inv

\* No two pending requests have the same identifier.
THEOREM IdsAlwaysUnique == Spec => []UniqueIds
  <1>1. Spec => []Inv
    BY InitInv, NextInv, PTL DEF Spec
  <1> QED
    BY <1>1, PTL DEF Inv

\* No pending request is left without a registered timer.
THEOREM RetransmitAlwaysScheduled == Spec => []RetransmitScheduled
  <1>1. Spec => []Inv
    BY InitInv, NextInv, PTL DEF Spec
  <1> QED
    BY <1>1, PTL DEF Inv

\* Requests other than interim updates follow the server when it changes.
THEOREM AlwaysMadeForServer == Spec => []MadeForServer
  <1>1. Spec => []Inv
    BY InitInv, NextInv, PTL DEF Spec
  <1> QED
    BY <1>1, PTL DEF Inv

=============================================================================
