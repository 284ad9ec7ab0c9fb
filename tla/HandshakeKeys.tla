---------------------------- MODULE HandshakeKeys ----------------------------
(***************************************************************************)
(* Why the two sides agree on the pairwise key, and why the group key is   *)
(* never rolled back, for any number of stations, retries and delayed      *)
(* frames.                                                                 *)
(*                                                                         *)
(* The argument follows one station through its epochs.  An epoch starts   *)
(* with an association and is renamed, to the ANonce generated for it,     *)
(* when the authenticator enters AUTHENTICATION2.  Keys of an epoch have   *)
(* that ANonce as their first part; keys that were in use before have an   *)
(* older one and, since the station takes a new SNonce for every epoch and *)
(* after every installation, a smaller second part.  Within an epoch the   *)
(* replay counters order the frames of the AP.  KeysInv says this of every *)
(* station; e is the epoch and K the keys in use.                          *)
(***************************************************************************)
EXTENDS HandshakeProofs

-----------------------------------------------------------------------------
(* The inductive invariant, in parts: m, a, u and A are a station's record *)
(* in WpaAuth, its data at the AP, its supplicant and its frames; w says   *)
(* that the event of its association has not yet reached the machine; C    *)
(* and G are the Counter and the GTK's nonce of the default group.         *)

ByAP(f) == f.msg \in {"3/4", "1/2"}

\* The pairwise keys that the AP has sent a frame with or that the station's
\* driver was given last.
UsedKeys(u, A) ==
    {f.mic : f \in {g \in A : ByAP(g)}} \cup {k \in {u.last} : k # NoKey}

\* The machine is on its way from the association to AUTHENTICATION2.
Renewing(m, w) ==
    \/ w \/ m.Init \/ m.AuthenticationRequest \/ m.ReAuthenticationRequest
    \/ m.wpa_ptk_state = "AUTHENTICATION"

Live(m, w) ==
    /\ m.wpa_ptk_state \notin {"INITIALIZE", "DISCONNECT", "DISCONNECTED"}
    /\ ~Renewing(m, w)

\* The PTK of the running handshake has been derived.
Derived(m) ==
    \/ m.wpa_ptk_state \in {"PTKCALCNEGOTIATING2", "PTKINITNEGOTIATING"}
    \/ m.wpa_ptk_state = "PTKCALCNEGOTIATING" /\ m.MICVerified

\* The AP has completed a 4-way handshake and the driver has its key.
HasKey(m) ==
    m.wpa_ptk_state = "PTKINITDONE" /\ m.pairwise_set /\ m.assoc = "assoc"

EpochOK(m, w, a, u, C, e) ==
    /\ m.group = DefaultGroup /\ a.ANonce < C
    /\ Live(m, w) \/ m.PTKRequest => a.ANonce = e
    /\ Renewing(m, w) => /\ a.ANonce # e /\ u.renew_snonce
                         /\ u.ptk = NoKey /\ u.tptk = NoKey

\* Keys in use are not of a later epoch, and the SNonce is not that of an
\* earlier one.
UsedOK(u, C, e, K) ==
    \A k \in K :
        /\ k[1] < C /\ k[1] <= e /\ k[2] >= 1 /\ k[2] <= u.snonce
        /\ k[1] # e /\ ~u.renew_snonce => k[2] < u.snonce

\* n can be the SNonce of a key of epoch e that is taken into use.
Above(u, e, K, n) ==
    /\ n >= 1 /\ n <= u.snonce
    /\ \A k \in K : (k[1] = e => k[2] <= n) /\ (k[1] # e => k[2] < n)

ApKeyOK(m, a, u, e, K) ==
    /\ m.PTK_valid => a.PTK # NoKey
    /\ a.PTK # NoKey => a.PTK[1] = e /\ a.ANonce = e /\ Above(u, e, K, a.PTK[2])

StationOK(u, e, K) ==
    /\ u.tptk # NoKey =>
         /\ u.tptk = <<u.anonce, u.snonce>> /\ u.last[2] < u.snonce
         /\ \A k \in K : k[1] # e => k[2] < u.snonce
    /\ u.ptk # NoKey => u.ptk[1] = e /\ (u.ptk = u.last \/ u.ptk[2] > u.last[2])
    /\ u.last[2] <= u.snonce
    /\ ~u.renew_snonce => u.last[2] < u.snonce
    /\ u.joined /\ u.last[1] = e => u.key = u.last

FrameOK(f, u, C, e, K) ==
    /\ f.rc >= 1
    /\ f.msg = "1/4" => f.nonce < C
    /\ f.msg = "2/4" => /\ f.mic[2] = f.nonce /\ f.mic[1] < C
                        /\ f.nonce >= 1 /\ f.nonce <= u.snonce
                        /\ f.mic[1] = e => \A k \in K : k[1] # e => k[2] < f.nonce
    /\ f.msg = "3/4" => f.nonce = f.mic[1]
    /\ f.msg = "1/2" => f.gtk # NoKey
    /\ f.msg = "4/4" => /\ f.mic[2] <= u.last[2]
                        /\ f.mic[2] = u.last[2] => f.mic = u.last

\* The AP's frames of an epoch carry GTKs that do not get older with growing
\* replay counters, and the station has none that is newer than a frame to come.
GTKOK(u, A, G, e) ==
    /\ u.gtk[2] <= G
    /\ \A f \in A : ByAP(f) =>
         /\ f.gtk[2] <= G
         /\ f.mic[1] = e /\ f.gtk # NoKey =>
              /\ \A g \in A : ByAP(g) /\ g.mic[1] = e /\ g.rc < f.rc
                                => g.gtk[2] <= f.gtk[2]
              /\ u.joined /\ f.rc > u.rx => u.gtk[2] <= f.gtk[2]

\* Messages 1/4 of epoch e, and the 2/4 they are answered with.
Asks(f, e) ==
    \/ f.msg = "1/4" /\ f.nonce = e
    \/ f.msg = "2/4" /\ f.mic[1] = e

InWindow(a, f) == f.rc > a.counter - a.pending

\* The frames of the epoch have replay counters the AP has used; once the PTK is
\* derived, no message 2/4 is awaited any more.
ReplayEpochOK(m, a, A, e, K) ==
    a.ANonce = e => \A f \in A :
        /\ Asks(f, e) \/ (ByAP(f) /\ f.mic[1] = e) => f.rc <= a.counter
        /\ f.msg = "2/4" /\ f.mic[1] = e /\ InWindow(a, f) =>
             /\ a.last[2] < f.nonce
             /\ a.PTK # NoKey => a.PTK[2] <= f.nonce
             /\ \A k \in K : k[1] = e => k[2] <= f.nonce
        /\ Asks(f, e) /\ (Derived(m) \/ m.wpa_ptk_state = "PTKINITDONE")
             => ~InWindow(a, f)

\* A frame that was accepted and has not yet been seen by the machine.
ReceivedOK(m, a, u, e, K) ==
    m.EAPOLKey = "PAIRWISE" =>
        /\ a.pending = 0
        /\ m.wpa_ptk_state = "PTKSTART" => ~m.MICVerified
        /\ m.wpa_ptk_state \in {"PTKSTART", "PTKCALCNEGOTIATING"}
             /\ a.mic = <<e, a.SNonce>> =>
               Above(u, e, K, a.SNonce) /\ a.last[2] < a.SNonce
        /\ m.wpa_ptk_state = "PTKINITNEGOTIATING" =>
               a.PTK # NoKey /\ u.last = a.PTK

InstalledOK(m, a, u, e) ==
    /\ a.last[1] <= e /\ a.last[2] <= u.last[2]
    /\ Derived(m) /\ a.PTK # NoKey => a.last[2] < a.PTK[2]
    /\ HasKey(m) => a.PTK # NoKey /\ a.key = a.PTK /\ u.last = a.PTK

Covers(u, A, K) ==
    /\ \A f \in A : ByAP(f) => f.mic \in K
    /\ u.last # NoKey => u.last \in K

AirOK(u, A, C, G, e, K) ==
    /\ UsedOK(u, C, e, K) /\ StationOK(u, e, K) /\ Covers(u, A, K)
    /\ \A f \in A : FrameOK(f, u, C, e, K)
    /\ GTKOK(u, A, G, e)

ApOK(m, w, a, u, A, C, e, K) ==
    /\ EpochOK(m, w, a, u, C, e) /\ ApKeyOK(m, a, u, e, K)
    /\ ReplayEpochOK(m, a, A, e, K) /\ ReceivedOK(m, a, u, e, K)
    /\ InstalledOK(m, a, u, e)

Counter == gk[DefaultGroup].Counter
GTKNonce == gk[DefaultGroup].GTK[gk[DefaultGroup].GN]
Awaits(s) == caller = s /\ cont \in {"assoc", "auth", "reauth"}

StationKeysInv(s) ==
    \E e \in 1..Counter :
        /\ AirOK(supp[s], air[s], Counter, GTKNonce, e, UsedKeys(supp[s], air[s]))
        /\ ApOK(sm[s], Awaits(s), auth[s], supp[s], air[s], Counter, e,
                UsedKeys(supp[s], air[s]))

KeysInv == GTKNonce < Counter /\ \A s \in STA : StationKeysInv(s)

-----------------------------------------------------------------------------
(* The parts under a step, on records.  First the steps of the machines    *)
(* that demand nothing new.                                                *)

\* n, awaiting x, asks no more of the keys than m, awaiting w.
Weaker(m, w, n, x) ==
    /\ n.group = m.group
    /\ Renewing(n, x) => Renewing(m, w)
    /\ Live(n, x) \/ n.PTKRequest => Live(m, w) \/ m.PTKRequest
    /\ n.PTK_valid => m.PTK_valid
    /\ Derived(n) => Derived(m)
    /\ n.wpa_ptk_state = "PTKINITDONE" => Derived(m) \/ m.wpa_ptk_state = "PTKINITDONE"
    /\ HasKey(n) => HasKey(m)
    /\ n.EAPOLKey = "PAIRWISE" =>
         /\ m.EAPOLKey = "PAIRWISE" /\ n.wpa_ptk_state = m.wpa_ptk_state
         /\ n.MICVerified <=> m.MICVerified

\* A machine that asks no more of the keys keeps the AP's part of the invariant
\* while the data is left alone.
LEMMA QuietOK ==
    ASSUME NEW m, NEW w, NEW n, NEW x, NEW a, NEW u, NEW A, NEW C, NEW e, NEW K,
           ApOK(m, w, a, u, A, C, e, K), Weaker(m, w, n, x)
    PROVE  ApOK(n, x, a, u, A, C, e, K)
  <1>1. EpochOK(n, x, a, u, C, e)
    BY DEF ApOK, EpochOK, Weaker
  <1>2. ApKeyOK(n, a, u, e, K)
    BY DEF ApOK, ApKeyOK, Weaker
  <1>3. ReplayEpochOK(n, a, A, e, K)
    BY DEF ApOK, ReplayEpochOK, Weaker
  <1>4. ReceivedOK(n, a, u, e, K)
    BY DEF ApOK, ReceivedOK, Weaker
  <1>5. InstalledOK(n, a, u, e)
    BY DEF ApOK, InstalledOK, Weaker
  <1> QED
    BY <1>1, <1>2, <1>3, <1>4, <1>5 DEF ApOK

\* The PTK is dropped, with or without the key in the driver.
LEMMA DropOK ==
    ASSUME NEW m, NEW w, NEW n, NEW x, NEW a \in ApData, NEW b \in ApData, NEW u,
           NEW A, NEW C, NEW e, NEW K,
           ApOK(m, w, a, u, A, C, e, K), Weaker(m, w, n, x),
           ~n.PTK_valid, ~HasKey(n), n.EAPOLKey # "PAIRWISE",
           b.PTK = NoKey, b.ANonce = a.ANonce, b.counter = a.counter,
           b.pending = a.pending, b.last = a.last
    PROVE  ApOK(n, x, b, u, A, C, e, K)
  <1>1. EpochOK(n, x, b, u, C, e)
    BY DEF ApOK, EpochOK, Weaker
  <1>2. ApKeyOK(n, b, u, e, K)
    BY DEF ApKeyOK
  <1>3. ReplayEpochOK(n, b, A, e, K)
    BY DEF ApOK, ReplayEpochOK, Weaker, InWindow
  <1>4. ReceivedOK(n, b, u, e, K)
    BY DEF ReceivedOK
  <1>5. InstalledOK(n, b, u, e)
    BY DEF ApOK, InstalledOK, Weaker
  <1> QED
    BY <1>1, <1>2, <1>3, <1>4, <1>5 DEF ApOK

\* The machine is freed, or its replay counters are cleared for a new epoch.
LEMMA ResetOK ==
    ASSUME NEW m, NEW w, NEW n, NEW x, NEW a \in ApData, NEW b \in ApData, NEW u,
           NEW A, NEW C, NEW e, NEW K,
           ApOK(m, w, a, u, A, C, e, K), n.group = DefaultGroup, b.ANonce # e,
           b.ANonce < C, ~Live(n, x), ~n.PTKRequest,
           Renewing(n, x) => Renewing(m, w), ~n.PTK_valid, ~HasKey(n),
           n.EAPOLKey # "PAIRWISE", b.last = a.last, b.PTK = NoKey
    PROVE  ApOK(n, x, b, u, A, C, e, K)
  <1>1. EpochOK(n, x, b, u, C, e)
    BY DEF ApOK, EpochOK
  <1>2. ApKeyOK(n, b, u, e, K)
    BY DEF ApKeyOK
  <1>3. ReplayEpochOK(n, b, A, e, K)
    BY DEF ReplayEpochOK
  <1>4. ReceivedOK(n, b, u, e, K)
    BY DEF ReceivedOK
  <1>5. InstalledOK(n, b, u, e)
    BY DEF ApOK, InstalledOK
  <1> QED
    BY <1>1, <1>2, <1>3, <1>4, <1>5 DEF ApOK

\* A key is a pair of nonces.
LEMMA KeyParts ==
    ASSUME NEW k \in Keys
    PROVE  k[1] \in Nat /\ k[2] \in Nat /\ k = <<k[1], k[2]>>
  BY DEF Keys

\* The parts of no key.
LEMMA NoKeyParts == NoKey[1] = 0 /\ NoKey[2] = 0
  BY DEF NoKey

\* A key whose parts are not both zero.
LEMMA IsKey ==
    ASSUME NEW i \in Nat, NEW j \in Nat, i >= 1 \/ j >= 1
    PROVE  <<i, j>> # NoKey /\ <<i, j>> \in Keys
  BY DEF NoKey, Keys

\* The Counter and the GTK of the group get newer.
LEMMA GrowOK ==
    ASSUME NEW m, NEW w, NEW a \in ApData, NEW u \in SuppData, NEW A \in SUBSET Frames,
           NEW C \in Nat, NEW D \in Nat, NEW G \in Nat, NEW H \in Nat, NEW e \in Nat,
           NEW K \in SUBSET Keys, C <= D, G <= H,
           AirOK(u, A, C, G, e, K), ApOK(m, w, a, u, A, C, e, K)
    PROVE  AirOK(u, A, D, H, e, K) /\ ApOK(m, w, a, u, A, D, e, K)
  <1> USE KeyParts DEF AirOK, SuppData, ApData, Frames
  <1>1. UsedOK(u, D, e, K)
    BY DEF UsedOK
  <1>2. \A f \in A : FrameOK(f, u, D, e, K)
    BY DEF FrameOK
  <1>3. GTKOK(u, A, H, e)
    BY DEF GTKOK
  <1>4. EpochOK(m, w, a, u, D, e)
    BY DEF ApOK, EpochOK
  <1> QED
    BY <1>1, <1>2, <1>3, <1>4 DEF ApOK

\* Every key in use is of an epoch before e, so that e can be the next one.
LEMMA NextEpoch ==
    ASSUME NEW u \in SuppData, NEW A \in SUBSET Frames, NEW B \in SUBSET A,
           NEW v \in SuppData, NEW C \in Nat, NEW G \in Nat, NEW d \in Nat,
           NEW e \in Nat, NEW K \in SUBSET Keys, AirOK(u, A, C, G, d, K), C >= 1,
           C <= e, v.last = u.last, v.snonce = u.snonce, v.gtk = u.gtk,
           v.renew_snonce, v.tptk = NoKey, v.ptk = NoKey
    PROVE  AirOK(v, B, C, G, e, K)
  <1> USE KeyParts, NoKeyParts DEF AirOK, SuppData, Frames
  <1>0. \A k \in K : k[1] # e
    BY DEF UsedOK
  <1>1. UsedOK(v, C, e, K)
    BY DEF UsedOK
  <1>2. StationOK(v, e, K)
    <2>1. u.last[1] # e
      <3>1. CASE u.last = NoKey
        BY <3>1
      <3>2. CASE u.last # NoKey
        BY <1>0, <3>2 DEF Covers
      <3> QED
        BY <3>1, <3>2
    <2> QED
      BY <2>1 DEF StationOK
  <1>3. Covers(v, B, K)
    BY DEF Covers
  <1>4. \A f \in B : FrameOK(f, v, C, e, K)
    BY DEF FrameOK
  <1>5. GTKOK(v, B, G, e)
    BY <1>0 DEF GTKOK, Covers
  <1> QED
    BY <1>1, <1>2, <1>3, <1>4, <1>5

\* The Association Response: a new epoch, which is C until it has its ANonce.
LEMMA AssociateOK ==
    ASSUME NEW m, NEW w, NEW n, NEW x, NEW a \in ApData, NEW b \in ApData,
           NEW u \in SuppData, NEW v \in SuppData, NEW A \in SUBSET Frames,
           NEW B \in SUBSET A, NEW C \in Nat, NEW G \in Nat, NEW d \in 1..C,
           NEW K \in SUBSET Keys, AirOK(u, A, C, G, d, K), ApOK(m, w, a, u, A, C, d, K),
           v.last = u.last, v.snonce = u.snonce, v.gtk = u.gtk,
           v.renew_snonce, v.tptk = NoKey, v.ptk = NoKey,
           n.group = m.group, x, ~n.PTKRequest, ~n.PTK_valid, ~n.pairwise_set,
           Derived(n) => Derived(m), n.EAPOLKey # "PAIRWISE",
           b.PTK = NoKey, b.ANonce = a.ANonce, b.last = a.last
    PROVE  AirOK(v, B, C, G, C, K) /\ ApOK(n, x, b, v, B, C, C, K)
  <1>1. AirOK(v, B, C, G, C, K)
    BY NextEpoch
  <1>2. EpochOK(n, x, b, v, C, C)
    BY DEF ApOK, EpochOK, Live, Renewing, ApData
  <1>3. ApKeyOK(n, b, v, C, K)
    BY DEF ApKeyOK
  <1>4. ReplayEpochOK(n, b, B, C, K)
    BY DEF ReplayEpochOK, ApOK, EpochOK, ApData
  <1>5. ReceivedOK(n, b, v, C, K)
    BY DEF ReceivedOK
  <1>6. InstalledOK(n, b, v, C)
    BY KeyParts DEF InstalledOK, ApOK, HasKey, ApData, SuppData
  <1> QED
    BY <1>1, <1>2, <1>3, <1>4, <1>5, <1>6 DEF ApOK

\* AUTHENTICATION2: the epoch gets its ANonce, c.
LEMMA NewNonceOK ==
    ASSUME NEW m, NEW w, NEW n, NEW x, NEW a \in ApData, NEW b \in ApData,
           NEW u \in SuppData, NEW A \in SUBSET Frames,
           NEW C \in Nat, NEW G \in Nat, NEW H \in Nat, NEW d \in 1..C,
           NEW K \in SUBSET Keys, AirOK(u, A, C, G, d, K), ApOK(m, w, a, u, A, C, d, K),
           NEW c \in Nat, C <= c, G <= H, Renewing(m, w),
           n.group = m.group, ~Renewing(n, x), ~n.PTK_valid,
           n.wpa_ptk_state = "AUTHENTICATION2", n.EAPOLKey # "PAIRWISE",
           b.ANonce = c, b.PTK = a.PTK, b.last = a.last
    PROVE  AirOK(u, A, c + 1, H, c, K) /\ ApOK(n, x, b, u, A, c + 1, c, K)
  <1>0. a.PTK = NoKey /\ u.renew_snonce /\ u.tptk = NoKey /\ u.ptk = NoKey
    BY DEF ApOK, EpochOK, ApKeyOK
  <1>1. AirOK(u, A, C, G, c, K)
    BY <1>0, NextEpoch
  <1>2. ApOK(n, x, b, u, A, c + 1, c, K)
    <2>1. EpochOK(n, x, b, u, c + 1, c)
      BY <1>0 DEF ApOK, EpochOK
    <2>2. ApKeyOK(n, b, u, c, K)
      BY <1>0 DEF ApKeyOK
    <2>3. ReplayEpochOK(n, b, A, c, K)
      <3>1. \A f \in A : ~Asks(f, c) /\ ~(ByAP(f) /\ f.mic[1] = c)
        BY KeyParts DEF Asks, AirOK, FrameOK, UsedOK, Covers, Frames
      <3> QED
        BY <3>1 DEF ReplayEpochOK, Asks
    <2>4. ReceivedOK(n, b, u, c, K)
      BY DEF ReceivedOK
    <2>5. InstalledOK(n, b, u, c)
      BY KeyParts DEF InstalledOK, ApOK, HasKey, Derived, ApData, SuppData
    <2> QED
      BY <2>1, <2>2, <2>3, <2>4, <2>5 DEF ApOK
  <1>3. C <= c + 1
    OBVIOUS
  <1>4. AirOK(u, A, c + 1, H, c, K)
    <2> USE KeyParts DEF AirOK, SuppData, Frames
    <2>1. UsedOK(u, c + 1, c, K)
      BY <1>1 DEF UsedOK
    <2>2. \A f \in A : FrameOK(f, u, c + 1, c, K)
      BY <1>1 DEF FrameOK
    <2>3. GTKOK(u, A, H, c)
      BY <1>1 DEF GTKOK
    <2> QED
      BY <1>1, <2>1, <2>2, <2>3
  <1> QED
    BY <1>2, <1>4

-----------------------------------------------------------------------------
(* Frames of the AP.                                                       *)

\* A new replay counter is larger than all before, and none becomes pending
\* again that was not.
LEMMA NextCounter ==
    ASSUME NEW a \in ApData
    PROVE  LET b == NextReplayCounter(a)
           IN  /\ b \in ApData /\ b.counter = a.counter + 1
               /\ b.counter - b.pending >= a.counter - a.pending
               /\ b.ANonce = a.ANonce /\ b.PTK = a.PTK /\ b.last = a.last
               /\ b.key = a.key /\ b.SNonce = a.SNonce /\ b.mic = a.mic
  <1>1. NextReplayCounter(a) \in ApData
    BY ApDataType
  <1>2. a.counter \in Nat /\ a.pending \in Nat
    BY DEF ApData
  <1> QED
    BY <1>1, <1>2 DEF NextReplayCounter, ApData

\* The AP counts without sending, because it has no PTK to compute a MIC with.
LEMMA CountOK ==
    ASSUME NEW m, NEW w, NEW n, NEW x, NEW a \in ApData, NEW u, NEW C, NEW e,
           NEW A \in SUBSET Frames, NEW K,
           ApOK(m, w, a, u, A, C, e, K), Weaker(m, w, n, x), n.EAPOLKey # "PAIRWISE"
    PROVE  ApOK(n, x, NextReplayCounter(a), u, A, C, e, K)
  <1> DEFINE b == NextReplayCounter(a)
  <1>0. /\ b \in ApData /\ b.counter = a.counter + 1
        /\ b.counter - b.pending >= a.counter - a.pending
        /\ b.ANonce = a.ANonce /\ b.PTK = a.PTK /\ b.last = a.last /\ b.key = a.key
    BY NextCounter
  <1> HIDE DEF b
  <1>1. ApOK(n, x, a, u, A, C, e, K)
    BY QuietOK
  <1>2. EpochOK(n, x, b, u, C, e) /\ ApKeyOK(n, b, u, e, K) /\ InstalledOK(n, b, u, e)
    BY <1>0, <1>1 DEF ApOK, EpochOK, ApKeyOK, InstalledOK
  <1>3. \A f \in A : InWindow(b, f) => InWindow(a, f)
    <2>1. \A f \in A : f.rc \in Nat
      BY DEF Frames
    <2>2. a.counter \in Nat /\ a.pending \in Nat /\ b.counter \in Nat /\ b.pending \in Nat
      BY <1>0 DEF ApData
    <2> QED
      BY <1>0, <2>1, <2>2 DEF InWindow
  <1>4. ReplayEpochOK(n, b, A, e, K)
    <2>1. \A f \in A : f.rc <= a.counter => f.rc <= b.counter
      BY <1>0 DEF Frames, ApData
    <2> QED
      BY <1>0, <1>1, <1>3, <2>1 DEF ApOK, ReplayEpochOK
  <1>5. ReceivedOK(n, b, u, e, K)
    BY DEF ReceivedOK
  <1> QED
    BY <1>2, <1>4, <1>5 DEF ApOK, b

\* Message 1/4.
LEMMA Send1OK ==
    ASSUME NEW m, NEW w, NEW n, NEW x, NEW a \in ApData, NEW u \in SuppData,
           NEW C \in Nat, NEW G \in Nat, NEW e \in Nat, NEW A \in SUBSET Frames,
           NEW K \in SUBSET Keys, AirOK(u, A, C, G, e, K),
           ApOK(m, w, a, u, A, C, e, K), Weaker(m, w, n, x), n.EAPOLKey # "PAIRWISE",
           n.wpa_ptk_state = "PTKSTART", NEW f \in Frames, f.msg = "1/4",
           f.rc = NextReplayCounter(a).counter, f.nonce = a.ANonce
    PROVE  /\ AirOK(u, A \cup {f}, C, G, e, K)
           /\ ApOK(n, x, NextReplayCounter(a), u, A \cup {f}, C, e, K)
  <1> DEFINE b == NextReplayCounter(a)
             B == A \cup {f}
  <1>0. b \in ApData /\ b.counter = a.counter + 1 /\ b.ANonce = a.ANonce
    BY NextCounter
  <1>1. ApOK(n, x, b, u, A, C, e, K)
    BY CountOK
  <1> HIDE DEF b
  <1>2. f.rc >= 1 /\ f.rc = b.counter /\ f.nonce < C
    BY <1>0 DEF ApOK, EpochOK, ApData, b
  <1>3. AirOK(u, B, C, G, e, K)
    <2>1. \A g \in B : FrameOK(g, u, C, e, K)
      BY <1>2 DEF AirOK, FrameOK
    <2>2. Covers(u, B, K) /\ GTKOK(u, B, G, e)
      BY DEF AirOK, Covers, GTKOK, ByAP
    <2> QED
      BY <2>1, <2>2 DEF AirOK
  <1>4. ReplayEpochOK(n, b, B, e, K)
    <2>1. ~Derived(n)
      BY DEF Derived
    <2> QED
      BY <1>0, <1>1, <1>2, <2>1 DEF ApOK, ReplayEpochOK, ByAP, Asks, ApData
  <1> QED
    BY <1>1, <1>3, <1>4 DEF ApOK, b

\* Messages 3/4 and 1/2: the PTK is in use from now on.
LEMMA SendKeyOK ==
    ASSUME NEW m, NEW w, NEW n, NEW x, NEW a \in ApData, NEW u \in SuppData,
           NEW C \in Nat, NEW G \in Nat, NEW e \in 1..C, NEW A \in SUBSET Frames,
           NEW K \in SUBSET Keys, AirOK(u, A, C, G, e, K),
           ApOK(m, w, a, u, A, C, e, K), Weaker(m, w, n, x), n.EAPOLKey # "PAIRWISE",
           a.PTK # NoKey, NEW f \in Frames, ByAP(f), f.mic = a.PTK,
           f.rc = NextReplayCounter(a).counter,
           f.msg = "3/4" => f.nonce = a.ANonce, f.msg = "1/2" => f.gtk # NoKey,
           f.gtk = NoKey \/ f.gtk[2] = G
    PROVE  /\ AirOK(u, A \cup {f}, C, G, e, K \cup {a.PTK})
           /\ ApOK(n, x, NextReplayCounter(a), u, A \cup {f}, C, e, K \cup {a.PTK})
  <1> DEFINE b == NextReplayCounter(a)
             B == A \cup {f}
             L == K \cup {a.PTK}
  <1>0. /\ b \in ApData /\ b.counter = a.counter + 1 /\ b.ANonce = a.ANonce
        /\ b.PTK = a.PTK /\ b.last = a.last /\ a.PTK \in Keys
    BY NextCounter DEF ApData
  <1>1. ApOK(n, x, b, u, A, C, e, K)
    BY CountOK
  <1> HIDE DEF b
  <1>2. /\ f.rc >= 1 /\ f.rc = b.counter
        /\ a.PTK[1] = e /\ a.ANonce = e /\ e < C /\ Above(u, e, K, a.PTK[2])
    BY <1>0 DEF ApOK, EpochOK, ApKeyOK, ApData, b
  <1>3. UsedOK(u, C, e, L)
    BY <1>2, KeyParts DEF AirOK, UsedOK, Above
  <1>4. Above(u, e, L, a.PTK[2])
    BY <1>0, <1>2, KeyParts DEF Above
  <1>5. StationOK(u, e, L)
    BY <1>2 DEF AirOK, StationOK
  <1>6. Covers(u, B, L)
    BY DEF AirOK, Covers
  <1>7. \A g \in B : FrameOK(g, u, C, e, L)
    <2>1. \A g \in A : FrameOK(g, u, C, e, L)
      BY <1>2 DEF AirOK, FrameOK
    <2>2. FrameOK(f, u, C, e, L)
      BY <1>2 DEF FrameOK, ByAP
    <2> QED
      BY <2>1, <2>2
  <1>8. \A g \in A : ByAP(g) /\ g.mic[1] = e => g.rc < f.rc
    <2>1. \A g \in A : ByAP(g) /\ g.mic[1] = e => g.rc <= a.counter
      BY <1>2 DEF ApOK, ReplayEpochOK
    <2> QED
      BY <1>0, <1>2, <2>1 DEF Frames, ApData
  <1>9. GTKOK(u, B, G, e)
    <2>1. u.gtk[2] <= G /\ f.gtk[2] <= G /\ (f.gtk # NoKey => f.gtk[2] = G)
      BY NoKeyParts DEF AirOK, GTKOK
    <2>2. \A g \in A : ByAP(g) => g.gtk[2] <= G
      BY DEF AirOK, GTKOK
    <2>3. ASSUME NEW g \in A, ByAP(g), g.mic[1] = e, g.gtk # NoKey
          PROVE  /\ \A h \in B : ByAP(h) /\ h.mic[1] = e /\ h.rc < g.rc
                                   => h.gtk[2] <= g.gtk[2]
                 /\ u.joined /\ g.rc > u.rx => u.gtk[2] <= g.gtk[2]
      <3>1. ~(f.rc < g.rc)
        BY <1>8, <2>3 DEF Frames
      <3> QED
        BY <2>3, <3>1 DEF AirOK, GTKOK
    <2>4. f.gtk # NoKey => /\ \A h \in B : ByAP(h) => h.gtk[2] <= f.gtk[2]
                           /\ u.gtk[2] <= f.gtk[2]
      BY <2>1, <2>2, KeyParts DEF Frames
    <2> QED
      BY <2>1, <2>2, <2>3, <2>4 DEF GTKOK
  <1>10. ReplayEpochOK(n, b, B, e, L)
    <2>1. ASSUME NEW g \in A, g.msg = "2/4", g.mic[1] = e, InWindow(b, g)
          PROVE  \A k \in L : k[1] = e => k[2] <= g.nonce
      BY <1>0, <1>1, <1>2, <2>1 DEF ApOK, ReplayEpochOK
    <2>2. f.rc <= b.counter /\ ~Asks(f, e) /\ f.msg # "2/4"
      BY <1>0, <1>2 DEF ApData, ByAP, Asks
    <2> QED
      BY <1>0, <1>1, <2>1, <2>2 DEF ApOK, ReplayEpochOK
  <1>11. ApKeyOK(n, b, u, e, L)
    BY <1>0, <1>1, <1>2, <1>4 DEF ApOK, ApKeyOK
  <1>12. ReceivedOK(n, b, u, e, L)
    BY DEF ReceivedOK
  <1>13. AirOK(u, B, C, G, e, L)
    BY <1>3, <1>5, <1>6, <1>7, <1>9 DEF AirOK
  <1>14. ApOK(n, x, b, u, B, C, e, L)
    BY <1>1, <1>10, <1>11, <1>12 DEF ApOK
  <1> QED
    BY <1>13, <1>14 DEF b

-----------------------------------------------------------------------------
(* Frames of the station, as the AP takes them.                            *)

\* With no replay counter pending, no frame of the epoch is in the window.
LEMMA NoWindow ==
    ASSUME NEW m, NEW a \in ApData, NEW b \in ApData, NEW n, NEW A \in SUBSET Frames,
           NEW e \in Nat, NEW K, NEW L, ReplayEpochOK(m, a, A, e, K), b.ANonce = a.ANonce,
           b.counter = a.counter, b.pending = 0
    PROVE  ReplayEpochOK(n, b, A, e, L)
  <1>1. ASSUME NEW f \in A, a.ANonce = e, Asks(f, e) PROVE ~InWindow(b, f)
    <2>1. f.rc <= a.counter
      BY <1>1 DEF ReplayEpochOK
    <2> QED
      BY <2>1 DEF InWindow, ApData, Frames
  <1> QED
    BY <1>1 DEF ReplayEpochOK, Asks

\* Message 2/4 is accepted: its SNonce can become part of the next key.
LEMMA Receive2OK ==
    ASSUME NEW m, NEW n, NEW a \in ApData, NEW u \in SuppData,
           NEW C \in Nat, NEW G \in Nat, NEW e \in 1..C, NEW A \in SUBSET Frames,
           NEW K \in SUBSET Keys, AirOK(u, A, C, G, e, K),
           ApOK(m, FALSE, a, u, A, C, e, K), NEW f \in A, f.msg = "2/4",
           wpa_replay_counter_valid(a, f.rc), Live(m, FALSE),
           m.wpa_ptk_state \in {"PTKSTART", "PTKCALCNEGOTIATING"},
           n.group = m.group, n.PTKRequest <=> m.PTKRequest,
           n.wpa_ptk_state = m.wpa_ptk_state, Renewing(n, FALSE) => Renewing(m, FALSE),
           n.PTK_valid => m.PTK_valid, ~n.MICVerified, n.EAPOLKey = "PAIRWISE"
    PROVE  ApOK(n, FALSE, [a EXCEPT !.pending = 0, !.mic = f.mic, !.SNonce = f.nonce],
                u, A, C, e, K)
  <1> DEFINE b == [a EXCEPT !.pending = 0, !.mic = f.mic, !.SNonce = f.nonce]
  <1>0. f.mic \in Keys /\ f.nonce \in Nat /\ f.rc \in Nat
    BY DEF Frames
  <1>1. /\ b \in ApData /\ b.pending = 0 /\ b.mic = f.mic /\ b.SNonce = f.nonce
        /\ b.counter = a.counter /\ b.ANonce = a.ANonce /\ b.PTK = a.PTK
        /\ b.last = a.last /\ b.key = a.key
    <2>1. b \in ApData
      BY <1>0, ApDataType
    <2> QED
      BY <2>1 DEF ApData
  <1> HIDE DEF b
  <1>2. ~Derived(n) /\ ~HasKey(n)
    BY DEF Derived, HasKey
  <1>3. a.ANonce = e
    BY DEF ApOK, EpochOK
  <1>4. EpochOK(n, FALSE, b, u, C, e) /\ ApKeyOK(n, b, u, e, K) /\ InstalledOK(n, b, u, e)
    BY <1>1, <1>2, <1>3 DEF ApOK, EpochOK, ApKeyOK, InstalledOK
  <1>5. ReplayEpochOK(n, b, A, e, K)
    BY <1>1, NoWindow DEF ApOK
  <1>6. InWindow(a, f)
    BY <1>0 DEF wpa_replay_counter_valid, InWindow, ApData
  <1>7. ASSUME f.mic[1] = e
        PROVE  Above(u, e, K, f.nonce) /\ a.last[2] < f.nonce
    BY <1>3, <1>6, <1>7 DEF ApOK, ReplayEpochOK, AirOK, FrameOK, Above
  <1>8. ReceivedOK(n, b, u, e, K)
    BY <1>1, <1>7 DEF ReceivedOK
  <1> QED
    BY <1>4, <1>5, <1>8 DEF ApOK, b

\* Message 4/4 with the MIC of the PTK: the station has just installed that key.
LEMMA Receive4OK ==
    ASSUME NEW m, NEW n, NEW a \in ApData, NEW u \in SuppData,
           NEW C \in Nat, NEW G \in Nat, NEW e \in 1..C, NEW A \in SUBSET Frames,
           NEW K \in SUBSET Keys, AirOK(u, A, C, G, e, K),
           ApOK(m, FALSE, a, u, A, C, e, K), NEW f \in A, f.msg = "4/4",
           m.PTK_valid, f.mic = a.PTK, m.wpa_ptk_state = "PTKINITNEGOTIATING",
           n.group = m.group, n.PTKRequest <=> m.PTKRequest,
           n.wpa_ptk_state = m.wpa_ptk_state, Renewing(n, FALSE) <=> Renewing(m, FALSE),
           n.EAPOLKey = "PAIRWISE"
    PROVE  ApOK(n, FALSE, [a EXCEPT !.pending = 0, !.mic = f.mic, !.SNonce = f.nonce],
                u, A, C, e, K)
  <1> DEFINE b == [a EXCEPT !.pending = 0, !.mic = f.mic, !.SNonce = f.nonce]
  <1>0. f.mic \in Keys /\ f.nonce \in Nat /\ f.rc \in Nat
    BY DEF Frames
  <1>1. /\ b \in ApData /\ b.pending = 0
        /\ b.counter = a.counter /\ b.ANonce = a.ANonce /\ b.PTK = a.PTK
        /\ b.last = a.last /\ b.key = a.key
    <2>1. b \in ApData
      BY <1>0, ApDataType
    <2> QED
      BY <2>1 DEF ApData
  <1> HIDE DEF b
  <1>2. Derived(n) /\ Derived(m) /\ ~HasKey(n)
    BY DEF Derived, HasKey
  <1>3. EpochOK(n, FALSE, b, u, C, e) /\ ApKeyOK(n, b, u, e, K) /\ InstalledOK(n, b, u, e)
    BY <1>1, <1>2 DEF ApOK, EpochOK, ApKeyOK, InstalledOK, Live
  <1>4. ReplayEpochOK(n, b, A, e, K)
    BY <1>1, NoWindow DEF ApOK
  <1>5. /\ a.PTK # NoKey /\ Above(u, e, K, a.PTK[2]) /\ a.PTK \in Keys /\ u.last \in Keys
        /\ a.PTK[2] <= u.last[2] /\ (a.PTK[2] = u.last[2] => a.PTK = u.last)
    BY DEF ApOK, ApKeyOK, AirOK, FrameOK, ApData, SuppData
  <1>6. u.last = a.PTK
    <2>1. u.last # NoKey
      BY <1>5, KeyParts, NoKeyParts DEF Above
    <2>2. u.last[2] <= a.PTK[2]
      BY <1>5, <2>1, KeyParts DEF AirOK, Covers, Above
    <2> QED
      BY <1>5, <2>2, KeyParts
  <1>7. ReceivedOK(n, b, u, e, K)
    BY <1>1, <1>5, <1>6 DEF ReceivedOK
  <1> QED
    BY <1>3, <1>4, <1>7 DEF ApOK, b

\* Message 2/2 is accepted.
LEMMA Receive22OK ==
    ASSUME NEW m, NEW w, NEW n, NEW x, NEW a \in ApData, NEW u \in SuppData,
           NEW C \in Nat, NEW e \in Nat, NEW A \in SUBSET Frames,
           NEW K \in SUBSET Keys, ApOK(m, w, a, u, A, C, e, K), NEW f \in A,
           Weaker(m, w, n, x), n.EAPOLKey # "PAIRWISE"
    PROVE  ApOK(n, x, [a EXCEPT !.pending = 0, !.mic = f.mic, !.SNonce = f.nonce],
                u, A, C, e, K)
  <1> DEFINE b == [a EXCEPT !.pending = 0, !.mic = f.mic, !.SNonce = f.nonce]
  <1>0. f.mic \in Keys /\ f.nonce \in Nat
    BY DEF Frames
  <1>1. /\ b \in ApData /\ b.pending = 0
        /\ b.counter = a.counter /\ b.ANonce = a.ANonce /\ b.PTK = a.PTK
        /\ b.last = a.last /\ b.key = a.key
    <2>1. b \in ApData
      BY <1>0, ApDataType
    <2> QED
      BY <2>1, SMTT(30) DEF ApData
  <1> HIDE DEF b
  <1>2. ApOK(n, x, a, u, A, C, e, K)
    BY QuietOK
  <1>3. EpochOK(n, x, b, u, C, e) /\ ApKeyOK(n, b, u, e, K) /\ InstalledOK(n, b, u, e)
    BY <1>1, <1>2 DEF ApOK, EpochOK, ApKeyOK, InstalledOK
  <1>4. ReplayEpochOK(n, b, A, e, K)
    BY <1>1, NoWindow DEF ApOK
  <1>5. ReceivedOK(n, b, u, e, K)
    BY DEF ReceivedOK
  <1> QED
    BY <1>3, <1>4, <1>5 DEF ApOK, b

\* PTKCALCNEGOTIATING: the PTK is derived, if the MIC of message 2/4 is right.
LEMMA CalcOK ==
    ASSUME NEW m, NEW n, NEW a \in ApData, NEW u \in SuppData,
           NEW C \in Nat, NEW e \in 1..C, NEW A \in SUBSET Frames, NEW K \in SUBSET Keys,
           ApOK(m, FALSE, a, u, A, C, e, K), Live(m, FALSE), m.EAPOLKey = "PAIRWISE",
           m.wpa_ptk_state \in {"PTKSTART", "PTKCALCNEGOTIATING"},
           a.mic = <<a.ANonce, a.SNonce>>,
           n.group = m.group, n.PTKRequest <=> m.PTKRequest,
           n.wpa_ptk_state = "PTKCALCNEGOTIATING",
           Renewing(n, FALSE) => Renewing(m, FALSE), n.EAPOLKey # "PAIRWISE"
    PROVE  ApOK(n, FALSE, [a EXCEPT !.PTK = <<a.ANonce, a.SNonce>>], u, A, C, e, K)
  <1> DEFINE k == <<a.ANonce, a.SNonce>>
             b == [a EXCEPT !.PTK = k]
  <1>0. a.ANonce = e /\ a.ANonce \in Nat /\ a.SNonce \in Nat
    BY DEF ApOK, EpochOK, ApData
  <1>1. k \in Keys /\ k # NoKey /\ k[1] = e /\ k[2] = a.SNonce
    BY <1>0, IsKey
  <1> HIDE DEF k
  <1>2. /\ b \in ApData /\ b.pending = a.pending /\ b.PTK = k /\ b.SNonce = a.SNonce
        /\ b.counter = a.counter /\ b.ANonce = a.ANonce /\ b.last = a.last
    <2>1. b \in ApData
      BY <1>1, ApDataType
    <2> QED
      BY <2>1 DEF ApData
  <1> HIDE DEF b
  <1>3. a.pending = 0 /\ Above(u, e, K, a.SNonce) /\ a.last[2] < a.SNonce
    BY <1>0 DEF ApOK, ReceivedOK
  <1>4. EpochOK(n, FALSE, b, u, C, e)
    BY <1>0, <1>2 DEF ApOK, EpochOK
  <1>5. ApKeyOK(n, b, u, e, K)
    BY <1>0, <1>1, <1>2, <1>3 DEF ApKeyOK
  <1>6. ReplayEpochOK(n, b, A, e, K)
    BY <1>2, <1>3, NoWindow DEF ApOK
  <1>7. ReceivedOK(n, b, u, e, K)
    BY DEF ReceivedOK
  <1>8. InstalledOK(n, b, u, e)
    BY <1>1, <1>2, <1>3 DEF ApOK, InstalledOK, HasKey
  <1> QED
    BY <1>4, <1>5, <1>6, <1>7, <1>8 DEF ApOK, b, k

\* PTKINITDONE: the AP installs the key that the station has installed, and that
\* is newer than all it has installed before.
LEMMA InitDoneOK ==
    ASSUME NEW m, NEW n, NEW a \in ApData, NEW u \in SuppData,
           NEW C \in Nat, NEW e \in 1..C, NEW A \in SUBSET Frames, NEW K \in SUBSET Keys,
           ApOK(m, FALSE, a, u, A, C, e, K), Live(m, FALSE), m.EAPOLKey = "PAIRWISE",
           m.wpa_ptk_state = "PTKINITNEGOTIATING",
           n.group = m.group, n.PTKRequest <=> m.PTKRequest, n.PTK_valid => m.PTK_valid,
           n.wpa_ptk_state = "PTKINITDONE",
           Renewing(n, FALSE) => Renewing(m, FALSE), n.EAPOLKey # "PAIRWISE"
    PROVE  /\ a.PTK = u.last /\ a.last[1] <= a.PTK[1] /\ a.last[2] < a.PTK[2]
           /\ ApOK(n, FALSE, [a EXCEPT !.key = a.PTK, !.last = a.PTK, !.times = @ + 1],
                   u, A, C, e, K)
  <1> DEFINE b == [a EXCEPT !.key = a.PTK, !.last = a.PTK, !.times = @ + 1]
  <1>0. a.ANonce = e /\ a.pending = 0 /\ a.PTK # NoKey /\ u.last = a.PTK /\ a.PTK[1] = e
    BY DEF ApOK, EpochOK, ReceivedOK, ApKeyOK
  <1>1. a.last[1] <= a.PTK[1] /\ a.last[2] < a.PTK[2]
    BY <1>0 DEF ApOK, InstalledOK, Derived
  <1>2. /\ b \in ApData /\ b.pending = a.pending /\ b.PTK = a.PTK /\ b.key = a.PTK
        /\ b.counter = a.counter /\ b.ANonce = a.ANonce /\ b.last = a.PTK
    <2>1. b \in ApData
      BY ApDataType
    <2> QED
      BY <2>1 DEF ApData
  <1> HIDE DEF b
  <1>4. EpochOK(n, FALSE, b, u, C, e)
    BY <1>0, <1>2 DEF ApOK, EpochOK
  <1>5. ApKeyOK(n, b, u, e, K)
    BY <1>0, <1>2 DEF ApOK, ApKeyOK
  <1>6. ReplayEpochOK(n, b, A, e, K)
    BY <1>0, <1>2, NoWindow DEF ApOK
  <1>7. ReceivedOK(n, b, u, e, K)
    BY DEF ReceivedOK
  <1>8. InstalledOK(n, b, u, e)
    BY <1>0, <1>2, KeyParts DEF InstalledOK, Derived, ApData
  <1> QED
    BY <1>0, <1>1, <1>4, <1>5, <1>6, <1>7, <1>8 DEF ApOK, b

-----------------------------------------------------------------------------
(* The station.  It runs between events, when no association is under way  *)
(* and the authenticator has no unseen frame.                              *)

\* What the AP's part asks of the supplicant.
LEMMA SameForAp ==
    ASSUME NEW m, NEW a \in ApData, NEW u \in SuppData, NEW v \in SuppData, NEW A,
           NEW C \in Nat, NEW e \in 1..C, NEW K \in SUBSET Keys,
           ApOK(m, FALSE, a, u, A, C, e, K), ~Renewing(m, FALSE), m.EAPOLKey # "PAIRWISE", u.snonce <= v.snonce,
           a.last[2] <= v.last[2], HasKey(m) => v.last = a.PTK
    PROVE  ApOK(m, FALSE, a, v, A, C, e, K)
  <1>1. EpochOK(m, FALSE, a, v, C, e)
    BY DEF ApOK, EpochOK
  <1>2. ApKeyOK(m, a, v, e, K)
    <2>1. a.PTK # NoKey => Above(v, e, K, a.PTK[2])
      BY KeyParts DEF ApOK, ApKeyOK, Above, SuppData, ApData
    <2> QED
      BY <2>1 DEF ApOK, ApKeyOK
  <1>3. ReceivedOK(m, a, v, e, K)
    BY DEF ReceivedOK
  <1>4. InstalledOK(m, a, v, e)
    BY DEF ApOK, InstalledOK
  <1> QED
    BY <1>1, <1>2, <1>3, <1>4 DEF ApOK

\* The station leaves.
LEMMA LeaveOK ==
    ASSUME NEW m, NEW a \in ApData, NEW u \in SuppData, NEW C \in Nat, NEW G \in Nat,
           NEW e \in 1..C, NEW A \in SUBSET Frames, NEW K \in SUBSET Keys,
           AirOK(u, A, C, G, e, K), ApOK(m, FALSE, a, u, A, C, e, K),
           ~Renewing(m, FALSE), m.EAPOLKey # "PAIRWISE",
           NEW v \in SuppData, v = wpa_supplicant_event_disassoc(u)
    PROVE  AirOK(v, A, C, G, e, K) /\ ApOK(m, FALSE, a, v, A, C, e, K)
  <1>1. /\ ~v.joined /\ v.gtk = NoKey /\ v.tptk = u.tptk /\ v.ptk = u.ptk
        /\ v.snonce = u.snonce /\ v.anonce = u.anonce /\ v.last = u.last
        /\ v.renew_snonce = u.renew_snonce
    BY DEF wpa_supplicant_event_disassoc, SuppData
  <1>2. ApOK(m, FALSE, a, v, A, C, e, K)
    <2>1. u.snonce <= v.snonce /\ a.last[2] <= v.last[2] /\ (HasKey(m) => v.last = a.PTK)
      BY <1>1 DEF ApOK, InstalledOK, SuppData
    <2> QED
      BY <2>1, SameForAp
  <1>3. UsedOK(v, C, e, K) /\ Covers(v, A, K) /\ StationOK(v, e, K)
    BY <1>1 DEF AirOK, UsedOK, Covers, StationOK
  <1>4. \A f \in A : FrameOK(f, v, C, e, K)
    BY <1>1 DEF AirOK, FrameOK
  <1>5. GTKOK(v, A, G, e)
    BY <1>1, NoKeyParts DEF AirOK, GTKOK
  <1> QED
    BY <1>2, <1>3, <1>4, <1>5 DEF AirOK

\* What is known of the supplicant v, which was u when f arrived.
Verified(u, f, v, e) ==
    /\ f.mic[1] = e /\ v.ptk = f.mic /\ v.rx = f.rc /\ v.tptk # f.mic
    /\ v.anonce = u.anonce /\ v.last = u.last /\ v.gtk = u.gtk
    /\ v.joined /\ v.key = u.key
    /\ f.gtk # NoKey => u.gtk[2] <= f.gtk[2]

\* A frame of the AP verifies: it is of this epoch and with the station's PTK,
\* which may only now have become the PTK.
LEMMA VerifyOK ==
    ASSUME NEW m, NEW a \in ApData, NEW u \in SuppData, NEW C \in Nat, NEW G \in Nat,
           NEW e \in 1..C, NEW A \in SUBSET Frames, NEW K \in SUBSET Keys,
           AirOK(u, A, C, G, e, K), ApOK(m, FALSE, a, u, A, C, e, K),
           ~Renewing(m, FALSE), m.EAPOLKey # "PAIRWISE",
           NEW f \in A, ByAP(f), u.joined, ReplayCounterIncreased(u, f), Verifies(u, f),
           NEW v \in SuppData, v = wpa_supplicant_verify_eapol_key_mic(u, f)
    PROVE  /\ AirOK(v, A, C, G, e, K) /\ ApOK(m, FALSE, a, v, A, C, e, K)
           /\ Verified(u, f, v, e)
  <1>1. /\ v.snonce = u.snonce /\ v.anonce = u.anonce /\ v.last = u.last
        /\ v.renew_snonce = u.renew_snonce /\ v.gtk = u.gtk /\ v.joined
        /\ v.key = u.key /\ v.rx = f.rc
    BY DEF wpa_supplicant_verify_eapol_key_mic, SuppData
  <1>2. \/ v.tptk = NoKey /\ v.ptk = u.tptk /\ f.mic = u.tptk
        \/ v.tptk = u.tptk /\ v.ptk = u.ptk /\ f.mic # u.tptk /\ f.mic = u.ptk
    BY DEF wpa_supplicant_verify_eapol_key_mic, SuppData, Verifies
  <1>3. f.mic # NoKey /\ f.mic \in K /\ f.mic \in Keys
    BY DEF Verifies, AirOK, Covers
  <1>4. f.mic[1] = e
    <2>1. CASE f.mic = u.tptk
      <3>1. f.mic[2] = u.snonce
        BY <1>3, <2>1 DEF AirOK, StationOK, SuppData
      <3>2. f.mic[1] # e => f.mic[2] < u.snonce
        BY <1>3, <2>1 DEF AirOK, StationOK
      <3> QED
        BY <3>1, <3>2 DEF SuppData
    <2>2. CASE f.mic = u.ptk
      BY <1>3, <2>2 DEF AirOK, StationOK
    <2> QED
      BY <2>1, <2>2 DEF Verifies
  <1>5. v.ptk = f.mic /\ v.tptk # f.mic
    BY <1>2, <1>3
  <1>6. ApOK(m, FALSE, a, v, A, C, e, K)
    <2>1. u.snonce <= v.snonce /\ a.last[2] <= v.last[2] /\ (HasKey(m) => v.last = a.PTK)
      BY <1>1 DEF ApOK, InstalledOK, SuppData
    <2> QED
      BY <2>1, SameForAp
  <1>7. StationOK(v, e, K)
    <2>1. v.tptk # NoKey => v.tptk = u.tptk
      BY <1>2
    <2>2. v.ptk[1] = e /\ (v.ptk = v.last \/ v.ptk[2] > v.last[2])
      <3>1. CASE f.mic = u.tptk
        <4>1. f.mic[2] = u.snonce /\ u.last[2] < u.snonce
          BY <1>3, <3>1 DEF AirOK, StationOK, SuppData
        <4> QED
          BY <1>1, <1>4, <1>5, <4>1, KeyParts DEF SuppData
      <3>2. CASE f.mic = u.ptk
        BY <1>1, <1>3, <1>4, <1>5, <3>2 DEF AirOK, StationOK
      <3> QED
        BY <3>1, <3>2 DEF Verifies
    <2> QED
      BY <1>1, <2>1, <2>2 DEF AirOK, StationOK
  <1>8. UsedOK(v, C, e, K) /\ Covers(v, A, K)
    BY <1>1 DEF AirOK, UsedOK, Covers
  <1>9. \A g \in A : FrameOK(g, v, C, e, K)
    BY <1>1 DEF AirOK, FrameOK
  <1>10. f.rc > u.rx
    BY DEF AirOK, FrameOK, ReplayCounterIncreased, SuppData, Frames
  <1>11. GTKOK(v, A, G, e)
    <2>1. \A g \in A : g.rc > v.rx => g.rc > u.rx
      BY <1>1, <1>10 DEF SuppData, Frames
    <2> QED
      BY <1>1, <2>1 DEF AirOK, GTKOK
  <1>12. f.gtk # NoKey => u.gtk[2] <= f.gtk[2]
    BY <1>4, <1>10 DEF AirOK, GTKOK
  <1> QED
    BY <1>1, <1>4, <1>5, <1>6, <1>7, <1>8, <1>9, <1>11, <1>12 DEF AirOK, Verified

\* The GTK of a verified frame is taken.
LEMMA TakeGTK ==
    ASSUME NEW u \in SuppData, NEW v \in SuppData, NEW G \in Nat, NEW e \in Nat,
           NEW A \in SUBSET Frames, GTKOK(u, A, G, e), NEW f \in A, ByAP(f),
           f.mic[1] = e, f.gtk # NoKey, v.gtk = f.gtk, v.rx = f.rc
    PROVE  GTKOK(v, A, G, e)
  BY DEF GTKOK, SuppData, Frames

\* Message 1/2: the GTK is installed and message 2/2 sent.
LEMMA Group1OK ==
    ASSUME NEW m, NEW a \in ApData, NEW u \in SuppData, NEW C \in Nat, NEW G \in Nat,
           NEW e \in 1..C, NEW A \in SUBSET Frames, NEW K \in SUBSET Keys,
           AirOK(u, A, C, G, e, K), ApOK(m, FALSE, a, u, A, C, e, K),
           ~Renewing(m, FALSE), m.EAPOLKey # "PAIRWISE",
           NEW f \in A, f.msg = "1/2", f.mic[1] = e, u.rx = f.rc,
           NEW v \in SuppData, v = wpa_supplicant_install_gtk(u, f.gtk),
           NEW g \in Frames, g.msg = "2/2", g.rc = f.rc
    PROVE  AirOK(v, A \cup {g}, C, G, e, K) /\ ApOK(m, FALSE, a, v, A \cup {g}, C, e, K)
  <1>1. /\ v.joined = u.joined /\ v.tptk = u.tptk /\ v.ptk = u.ptk
        /\ v.snonce = u.snonce /\ v.anonce = u.anonce /\ v.last = u.last
        /\ v.renew_snonce = u.renew_snonce /\ v.key = u.key /\ v.rx = f.rc
        /\ v.gtk = f.gtk
    BY DEF wpa_supplicant_install_gtk, SuppData
  <1>2. ApOK(m, FALSE, a, v, A, C, e, K)
    <2>1. u.snonce <= v.snonce /\ a.last[2] <= v.last[2] /\ (HasKey(m) => v.last = a.PTK)
      BY <1>1 DEF ApOK, InstalledOK, SuppData
    <2> QED
      BY <2>1, SameForAp
  <1>3. UsedOK(v, C, e, K) /\ StationOK(v, e, K)
    BY <1>1 DEF AirOK, UsedOK, StationOK
  <1>4. \A h \in A \cup {g} : FrameOK(h, v, C, e, K)
    BY <1>1 DEF AirOK, FrameOK
  <1>5. GTKOK(v, A, G, e)
    <2>1. f.gtk # NoKey /\ ByAP(f) /\ GTKOK(u, A, G, e)
      BY DEF AirOK, FrameOK, ByAP
    <2> QED
      BY <1>1, <2>1, TakeGTK
  <1>6. ~ByAP(g) /\ ~Asks(g, e) /\ g.msg # "2/4"
    BY DEF ByAP, Asks
  <1>7. Covers(v, A \cup {g}, K) /\ GTKOK(v, A \cup {g}, G, e)
    BY <1>1, <1>5, <1>6 DEF AirOK, Covers, GTKOK
  <1>8. ReplayEpochOK(m, a, A \cup {g}, e, K)
    BY <1>2, <1>6 DEF ApOK, ReplayEpochOK
  <1> QED
    BY <1>2, <1>3, <1>4, <1>7, <1>8 DEF AirOK, ApOK

\* Message 1/4: the station derives a temporary PTK, with a new SNonce if it has
\* to take one, and answers with message 2/4.
LEMMA Process1OK ==
    ASSUME NEW m, NEW a \in ApData, NEW u \in SuppData, NEW C \in Nat, NEW G \in Nat,
           NEW e \in 1..C, NEW A \in SUBSET Frames, NEW K \in SUBSET Keys,
           AirOK(u, A, C, G, e, K), ApOK(m, FALSE, a, u, A, C, e, K),
           ~Renewing(m, FALSE), m.EAPOLKey # "PAIRWISE",
           NEW f \in A, f.msg = "1/4",
           NEW n \in Nat, n = IF u.renew_snonce THEN u.snonce + 1 ELSE u.snonce,
           NEW v \in SuppData, v.snonce = n, ~v.renew_snonce, v.tptk = <<f.nonce, n>>,
           v.anonce = f.nonce, v.ptk = u.ptk, v.last = u.last, v.key = u.key,
           v.gtk = u.gtk, v.rx = u.rx, v.joined = u.joined,
           NEW g \in Frames, g.msg = "2/4", g.rc = f.rc, g.nonce = n,
           g.mic = <<f.nonce, n>>
    PROVE  AirOK(v, A \cup {g}, C, G, e, K) /\ ApOK(m, FALSE, a, v, A \cup {g}, C, e, K)
  <1>0. /\ u.snonce \in Nat /\ u.snonce <= n /\ f.nonce \in Nat /\ f.nonce < C /\ f.rc >= 1
        /\ \A k \in K : k[1] \in Nat /\ k[2] \in Nat
        /\ u.last[2] \in Nat /\ a.last[2] \in Nat /\ a.PTK[2] \in Nat
    BY KeyParts DEF AirOK, FrameOK, SuppData, Frames, ApData
  <1>1. u.last[2] < n /\ \A k \in K : k[2] <= n /\ (k[1] # e => k[2] < n)
    <2>1. CASE u.renew_snonce
      BY <1>0, <2>1 DEF AirOK, StationOK, UsedOK
    <2>2. CASE ~u.renew_snonce
      BY <1>0, <2>2 DEF AirOK, StationOK, UsedOK
    <2> QED
      BY <2>1, <2>2
  <1>2. ApOK(m, FALSE, a, v, A, C, e, K)
    <2>1. u.snonce <= v.snonce /\ a.last[2] <= v.last[2] /\ (HasKey(m) => v.last = a.PTK)
      BY <1>0 DEF ApOK, InstalledOK
    <2> QED
      BY <2>1, SameForAp
  <1>3. UsedOK(v, C, e, K)
    BY <1>0, <1>1 DEF AirOK, UsedOK
  <1>4. StationOK(v, e, K)
    BY <1>0, <1>1 DEF AirOK, StationOK
  <1>5. ~ByAP(g) /\ g.mic[1] = f.nonce /\ g.mic[2] = n
    BY DEF ByAP
  <1>6. n >= 1
    BY <1>0, <1>1
  <1>7. \A h \in A \cup {g} : FrameOK(h, v, C, e, K)
    <2>1. FrameOK(g, v, C, e, K)
      BY <1>0, <1>1, <1>5, <1>6 DEF FrameOK
    <2>2. \A h \in A : FrameOK(h, v, C, e, K)
      BY <1>0 DEF AirOK, FrameOK, Frames
    <2> QED
      BY <2>1, <2>2
  <1>8. Covers(v, A \cup {g}, K) /\ GTKOK(v, A \cup {g}, G, e)
    BY <1>5 DEF AirOK, Covers, GTKOK
  <1>9. ReplayEpochOK(m, a, A \cup {g}, e, K)
    <2>1. a.last[2] < n
      BY <1>0, <1>1 DEF ApOK, InstalledOK
    <2>2. a.PTK # NoKey => a.PTK[2] <= n
      BY <1>0 DEF ApOK, ApKeyOK, Above
    <2>3. Asks(g, e) => Asks(f, e)
      BY <1>5 DEF Asks
    <2>4. InWindow(a, g) <=> InWindow(a, f)
      BY DEF InWindow
    <2> QED
      BY <1>1, <1>2, <1>5, <2>1, <2>2, <2>3, <2>4 DEF ApOK, ReplayEpochOK
  <1> QED
    BY <1>2, <1>3, <1>4, <1>7, <1>8, <1>9 DEF AirOK, ApOK

\* The key k follows l in the driver of a station.
Follows(k, l) == k = l \/ (k[1] >= l[1] /\ k[2] > l[2])

\* v is u with the keys that came with f.
Installed(u, f, v) ==
    /\ v.joined = u.joined /\ v.tptk = u.tptk /\ v.ptk = u.ptk
    /\ v.snonce = u.snonce /\ v.anonce = u.anonce /\ v.renew_snonce /\ v.rx = u.rx
    /\ v.key = u.ptk /\ v.last = u.ptk
    /\ v.gtk = IF f.gtk = NoKey THEN u.gtk ELSE f.gtk

\* The station u takes message 3/4, f, becomes v and answers g.
Installs(m, a, u, C, G, e, A, K, f, v, g) ==
    /\ a \in ApData /\ u \in SuppData /\ C \in Nat /\ G \in Nat /\ e \in 1..C
    /\ A \in SUBSET Frames /\ K \in SUBSET Keys
    /\ AirOK(u, A, C, G, e, K) /\ ApOK(m, FALSE, a, u, A, C, e, K)
    /\ ~Renewing(m, FALSE) /\ m.EAPOLKey # "PAIRWISE"
    /\ f \in A /\ f.msg = "3/4" /\ f.mic[1] = e /\ u.ptk = f.mic /\ u.rx = f.rc
    /\ u.tptk # f.mic /\ f.nonce = u.anonce /\ f.mic # NoKey
    /\ v \in SuppData /\ Installed(u, f, v)
    /\ g \in Frames /\ g.msg = "4/4" /\ g.rc = f.rc /\ g.mic = u.ptk

\* Message 3/4: the key it came with is given to the driver, or was already.
LEMMA InstallOK ==
    ASSUME NEW m, NEW a, NEW u, NEW C, NEW G, NEW e, NEW A, NEW K, NEW f, NEW v, NEW g,
           Installs(m, a, u, C, G, e, A, K, f, v, g)
    PROVE  /\ AirOK(v, A \cup {g}, C, G, e, K) /\ ApOK(m, FALSE, a, v, A \cup {g}, C, e, K)
           /\ Follows(v.last, u.last)
  <1> USE DEF Installed, Installs
  <1>0. /\ f.mic \in Keys /\ f.mic \in K /\ u.last \in Keys /\ a.PTK \in Keys
        /\ a.last \in Keys /\ u.snonce \in Nat
    BY DEF AirOK, Covers, ByAP, Frames, SuppData, ApData
  <1>1. f.mic = u.last \/ f.mic[2] > u.last[2]
    BY DEF AirOK, StationOK
  <1>2. u.last[2] <= f.mic[2]
    BY <1>0, <1>1, KeyParts
  <1>3. f.mic[2] >= 1 /\ f.mic[2] <= u.snonce
    BY <1>0 DEF AirOK, UsedOK
  <1>4. ASSUME u.tptk # NoKey PROVE f.mic[2] < u.snonce /\ u.tptk = <<u.anonce, u.snonce>>
    <2>1. u.tptk = <<u.anonce, u.snonce>>
      BY <1>4 DEF AirOK, StationOK
    <2>2. u.anonce = f.mic[1]
      BY DEF AirOK, FrameOK
    <2>3. f.mic[2] # u.snonce
      BY <1>0, <2>1, <2>2, KeyParts
    <2> QED
      BY <1>0, <1>3, <2>1, <2>3, KeyParts
  <1>5. ApOK(m, FALSE, a, v, A, C, e, K)
    <2>1. u.snonce <= v.snonce
      BY <1>0
    <2>2. a.last[2] <= v.last[2]
      BY <1>0, <1>2, KeyParts DEF ApOK, InstalledOK
    <2>3. ASSUME HasKey(m) PROVE v.last = a.PTK
      <3>1. u.last = a.PTK /\ a.PTK # NoKey /\ Above(u, e, K, a.PTK[2])
        BY <2>3 DEF ApOK, InstalledOK, ApKeyOK
      <3>2. f.mic[2] <= a.PTK[2]
        BY <1>0, <3>1 DEF Above
      <3> QED
        BY <1>0, <1>1, <3>1, <3>2, KeyParts
    <2> QED
      BY <2>1, <2>2, <2>3, SameForAp
  <1>6. UsedOK(v, C, e, K)
    BY DEF AirOK, UsedOK
  <1>7. StationOK(v, e, K)
    BY <1>0, <1>3, <1>4, KeyParts DEF AirOK, StationOK
  <1>8. ~ByAP(g) /\ ~Asks(g, e) /\ g.msg # "2/4"
    BY DEF ByAP, Asks
  <1>9. \A h \in A \cup {g} : FrameOK(h, v, C, e, K)
    <2>1. FrameOK(g, v, C, e, K)
      BY <1>0, KeyParts DEF AirOK, FrameOK
    <2>2. ASSUME NEW h \in A PROVE FrameOK(h, v, C, e, K)
      <3>1. h.mic \in Keys
        BY DEF Frames
      <3>2. h.msg = "4/4" => h.mic[2] <= u.last[2] /\ (h.mic[2] = u.last[2] => h.mic = u.last)
        BY DEF AirOK, FrameOK
      <3>3. h.msg = "4/4" => h.mic[2] <= v.last[2] /\ (h.mic[2] = v.last[2] => h.mic = v.last)
        BY <1>0, <1>1, <3>1, <3>2, KeyParts
      <3> QED
        BY <3>3 DEF AirOK, FrameOK
    <2> QED
      BY <2>1, <2>2
  <1>10. Covers(v, A \cup {g}, K)
    BY <1>0, <1>8 DEF AirOK, Covers
  <1>11. GTKOK(v, A, G, e)
    <2>1. CASE f.gtk = NoKey
      BY <2>1 DEF AirOK, GTKOK
    <2>2. CASE f.gtk # NoKey
      BY <2>2, TakeGTK DEF AirOK, ByAP
    <2> QED
      BY <2>1, <2>2
  <1>12. GTKOK(v, A \cup {g}, G, e)
    BY <1>8, <1>11 DEF GTKOK
  <1>13. ReplayEpochOK(m, a, A \cup {g}, e, K)
    BY <1>5, <1>8 DEF ApOK, ReplayEpochOK
  <1>14. Follows(v.last, u.last)
    <2>1. u.last[1] <= e
      <3>1. CASE u.last = NoKey
        BY <3>1, NoKeyParts
      <3>2. CASE u.last # NoKey
        BY <3>2 DEF AirOK, Covers, UsedOK
      <3> QED
        BY <3>1, <3>2
    <2> QED
      BY <1>0, <1>1, <2>1, KeyParts DEF Follows
  <1> QED
    BY <1>5, <1>6, <1>7, <1>9, <1>10, <1>12, <1>13, <1>14 DEF AirOK, ApOK

-----------------------------------------------------------------------------
(* The machines' side: which steps of WpaAuth ask no more of the keys, and *)
(* what the others start from.                                             *)

\* Until wpa_auth_sta_associated is called for an association, and during the
\* first step of its call, the machine of the station does not move on.
EarlyOK(m, w, version) ==
    w => \/ m.Init
         \/ /\ PtkQuiet(m, "PSK") /\ GroupQuiet(m, version)
            /\ m.EAPOLKey \notin {"PAIRWISE", "GROUP"}

EarlyInv == \A s \in STA : EarlyOK(sm[s], Awaits(s), Version[s])

\* A step that is about s.
About(s) ==
    /\ \A u \in STA \ {s} : sm'[u] = sm[u] /\ (Awaits(u)' <=> Awaits(u))
    /\ EarlyOK(sm'[s], Awaits(s)', Version[s])

\* A step that asks no more of the keys of s.
Asksless(s) ==
    /\ About(s) /\ Weaker(sm[s], Awaits(s), sm'[s], Awaits(s)')
    /\ sm'[s].EAPOLKey # "PAIRWISE"

\* A step about one station leaves the others where they are.
LEMMA AboutEarly ==
    ASSUME EarlyInv, NEW s \in STA, About(s)
    PROVE  EarlyInv'
  <1>1. ASSUME NEW u \in STA \ {s} PROVE EarlyOK(sm'[u], Awaits(u)', Version[u])
    <2>1. sm'[u] = sm[u] /\ (Awaits(u)' <=> Awaits(u)) /\ EarlyOK(sm[u], Awaits(u), Version[u])
      BY DEF About, EarlyInv
    <2> HIDE DEF Awaits
    <2> QED
      BY <2>1 DEF EarlyOK
  <1> QED
    BY <1>1 DEF About, EarlyInv

\* The calls of the two machines do not change what the handler is about.
LEMMA CallAwaits ==
    ASSUME TypeOK, LoopInv, EarlyInv, NEW s \in STA, WPA_PTK(s) \/ WPA_PTK_GROUP(s)
    PROVE  /\ \A u \in STA \ {s} : sm'[u] = sm[u]
           /\ \A u \in STA : Awaits(u)' <=> Awaits(u)
           /\ EarlyOK(sm[s], Awaits(s), Version[s]) /\ KeyMgmt[s] = "PSK"
  BY MachineEntry, HandshakeAssumption DEF GoTo, Awaits, EarlyInv

\* What a state t of WPA_PTK that derives no key and takes none into use makes of
\* the record m.
PtkMove(m, n, t) ==
    /\ n.wpa_ptk_state = t /\ n.group = m.group /\ n.Init = m.Init
    /\ n.AuthenticationRequest => m.AuthenticationRequest
    /\ n.ReAuthenticationRequest => m.ReAuthenticationRequest
    /\ n.PTKRequest => m.PTKRequest
    /\ n.PTK_valid => m.PTK_valid
    /\ n.EAPOLKey = IF t \in {"PTKCALCNEGOTIATING", "PTKINITDONE"} THEN "none"
                    ELSE m.EAPOLKey
    /\ t = "PTKCALCNEGOTIATING" => ~n.MICVerified
    /\ t = "PTKINITDONE" => n.assoc # "assoc"

\* Entering any pairwise state but AUTHENTICATION2 (which takes a new ANonce)
\* asks no more of the keys, and consumes the frame.
LEMMA PtkWeaker ==
    ASSUME NEW m \in WpaStateMachine, NEW version, MachineInv(m, "ptk", "PSK", version),
           NEW w \in BOOLEAN, EarlyOK(m, w, version), NEW t \in PtkStates,
           t # "AUTHENTICATION2", SM_STEP_WPA_PTK(m, "PSK") = t, NEW n, PtkMove(m, n, t)
    PROVE  Weaker(m, w, n, w) /\ EarlyOK(n, w, version) /\ n.EAPOLKey # "PAIRWISE"
  <1> USE ConstantAssumption
      DEF SM_STEP_WPA_PTK, PtkRequested, PtkInState, PtkAwait, PtkStates, PtkMove
  <1>1. n.EAPOLKey # "PAIRWISE"
    BY DEF MachineInv, FrameKept
  <1>2. w => m.Init
    BY DEF EarlyOK, PtkQuiet, WpaStateMachine, KeyFrames
  <1>3. EarlyOK(n, w, version)
    BY <1>2 DEF EarlyOK
  <1>4. n.group = m.group /\ (Renewing(n, w) => Renewing(m, w))
    BY DEF Renewing
  <1>5. Live(n, w) \/ n.PTKRequest => Live(m, w) \/ m.PTKRequest
    BY <1>2 DEF Live, Renewing, WpaStateMachine
  <1>6. Derived(n) => Derived(m)
    BY DEF Derived, WpaStateMachine
  <1>7. n.wpa_ptk_state = "PTKINITDONE" => Derived(m)
    BY DEF Derived, WpaStateMachine
  <1>8. ~HasKey(n)
    BY DEF HasKey
  <1> QED
    BY <1>1, <1>3, <1>4, <1>5, <1>6, <1>7, <1>8 DEF Weaker

\* The same for the steps.
LEMMA PtkAsksless ==
    ASSUME TypeOK, LoopInv, EarlyInv, NEW s \in STA, NEW t \in PtkStates,
           t # "AUTHENTICATION2", WPA_PTK(s), NEW r, EnterPtk(s, t, r),
           PtkMove(sm[s], sm'[s], t)
    PROVE  Asksless(s)
  <1> DEFINE m == sm[s]
             n == sm'[s]
             w == Awaits(s)
  <1>1. /\ m \in WpaStateMachine /\ MachineInv(m, "ptk", KeyMgmt[s], Version[s])
        /\ SM_STEP_WPA_PTK(m, KeyMgmt[s]) = t
    BY EnterPtkStep
  <1>2. KeyMgmt[s] = "PSK"
    BY HandshakeAssumption
  <1>4. /\ \A u \in STA \ {s} : sm'[u] = sm[u]
        /\ \A u \in STA : Awaits(u)' <=> Awaits(u)
        /\ EarlyOK(m, w, Version[s])
    BY CallAwaits
  <1>5. w \in BOOLEAN /\ w' \in BOOLEAN /\ (w' <=> w)
    BY <1>4 DEF Awaits
  <1>6. Weaker(m, w, n, w) /\ EarlyOK(n, w, Version[s]) /\ n.EAPOLKey # "PAIRWISE"
    <2>1. PtkMove(m, n, t)
      OBVIOUS
    <2> HIDE DEF m, n, w
    <2> QED
      BY <1>1, <1>2, <1>4, <1>5, <2>1, PtkWeaker
  <1>7. w' = w
    BY <1>5
  <1> HIDE DEF m, n, w
  <1> QED
    BY <1>4, <1>6, <1>7 DEF Asksless, About, m, n, w

\* The states that derive no key and take none into use.
LEMMA PtkMoves ==
    ASSUME TypeOK, NEW s \in STA
    PROVE  /\ PTK_INITIALIZE(s) => /\ PtkMove(sm[s], sm'[s], "INITIALIZE")
                                   /\ ~sm'[s].PTK_valid /\ ~HasKey(sm'[s])
           /\ PTK_DISCONNECT(s) => PtkMove(sm[s], sm'[s], "DISCONNECT")
           /\ PTK_DISCONNECTED(s) => PtkMove(sm[s], sm'[s], "DISCONNECTED")
           /\ PTK_AUTHENTICATION(s) => /\ PtkMove(sm[s], sm'[s], "AUTHENTICATION")
                                       /\ ~sm'[s].PTK_valid /\ ~HasKey(sm'[s])
           /\ PTK_INITPSK(s) => PtkMove(sm[s], sm'[s], "INITPSK")
           /\ PTK_PTKSTART(s) => PtkMove(sm[s], sm'[s], "PTKSTART")
           /\ PTK_PTKCALCNEGOTIATING(s, FALSE) /\ ~sm[s].MICVerified =>
                PtkMove(sm[s], sm'[s], "PTKCALCNEGOTIATING")
           /\ PTK_PTKCALCNEGOTIATING2(s) => PtkMove(sm[s], sm'[s], "PTKCALCNEGOTIATING2")
           /\ PTK_PTKINITNEGOTIATING(s) => PtkMove(sm[s], sm'[s], "PTKINITNEGOTIATING")
           /\ PTK_PTKINITDONE(s, FALSE) => PtkMove(sm[s], sm'[s], "PTKINITDONE")
  <1>1. sm[s] \in WpaStateMachine /\ DOMAIN sm = STA
    BY DEF TypeOK
  <1> USE <1>1 DEF WpaStateMachine, EnterPtk, PtkMove
  <1>2. ASSUME PTK_INITIALIZE(s)
        PROVE  /\ PtkMove(sm[s], sm'[s], "INITIALIZE")
               /\ ~sm'[s].PTK_valid /\ ~HasKey(sm'[s])
    BY <1>2 DEF PTK_INITIALIZE, wpa_remove_ptk, HasKey
  <1>3. ASSUME PTK_DISCONNECT(s) PROVE PtkMove(sm[s], sm'[s], "DISCONNECT")
    BY <1>3 DEF PTK_DISCONNECT, wpa_sta_disconnect
  <1>4. ASSUME PTK_DISCONNECTED(s) PROVE PtkMove(sm[s], sm'[s], "DISCONNECTED")
    BY <1>4 DEF PTK_DISCONNECTED
  <1>5. ASSUME PTK_AUTHENTICATION(s)
        PROVE  /\ PtkMove(sm[s], sm'[s], "AUTHENTICATION")
               /\ ~sm'[s].PTK_valid /\ ~HasKey(sm'[s])
    BY <1>5 DEF PTK_AUTHENTICATION, HasKey
  <1>6. ASSUME PTK_INITPSK(s) PROVE PtkMove(sm[s], sm'[s], "INITPSK")
    BY <1>6 DEF PTK_INITPSK
  <1>7. ASSUME PTK_PTKSTART(s) PROVE PtkMove(sm[s], sm'[s], "PTKSTART")
    BY <1>7 DEF PTK_PTKSTART, wpa_send_eapol
  <1>8. ASSUME PTK_PTKCALCNEGOTIATING(s, FALSE), ~sm[s].MICVerified
        PROVE  PtkMove(sm[s], sm'[s], "PTKCALCNEGOTIATING")
    BY <1>8 DEF PTK_PTKCALCNEGOTIATING
  <1>9. ASSUME PTK_PTKCALCNEGOTIATING2(s)
        PROVE  PtkMove(sm[s], sm'[s], "PTKCALCNEGOTIATING2")
    BY <1>9 DEF PTK_PTKCALCNEGOTIATING2
  <1>10. ASSUME PTK_PTKINITNEGOTIATING(s)
         PROVE  PtkMove(sm[s], sm'[s], "PTKINITNEGOTIATING")
    BY <1>10 DEF PTK_PTKINITNEGOTIATING, wpa_send_eapol
  <1>11. ASSUME PTK_PTKINITDONE(s, FALSE) PROVE PtkMove(sm[s], sm'[s], "PTKINITDONE")
    BY <1>11 DEF PTK_PTKINITDONE, wpa_sta_disconnect
  <1> QED
    BY <1>2, <1>3, <1>4, <1>5, <1>6, <1>7, <1>8, <1>9, <1>10, <1>11

\* They ask no more of the keys.
LEMMA PtkAsks ==
    ASSUME TypeOK, LoopInv, EarlyInv, NEW s \in STA,
           \/ PTK_INITIALIZE(s) \/ PTK_DISCONNECT(s) \/ PTK_DISCONNECTED(s)
           \/ PTK_AUTHENTICATION(s) \/ PTK_INITPSK(s) \/ PTK_PTKSTART(s)
           \/ PTK_PTKCALCNEGOTIATING(s, FALSE) /\ ~sm[s].MICVerified
           \/ PTK_PTKCALCNEGOTIATING2(s) \/ PTK_PTKINITNEGOTIATING(s)
           \/ PTK_PTKINITDONE(s, FALSE)
    PROVE  Asksless(s)
  <1> USE PtkAsksless, PtkMoves DEF PtkStates, WPA_PTK
  <1>2. CASE PTK_INITIALIZE(s)
    BY <1>2 DEF PTK_INITIALIZE
  <1>3. CASE PTK_DISCONNECT(s)
    BY <1>3 DEF PTK_DISCONNECT
  <1>4. CASE PTK_DISCONNECTED(s)
    BY <1>4 DEF PTK_DISCONNECTED
  <1>5. CASE PTK_AUTHENTICATION(s)
    BY <1>5 DEF PTK_AUTHENTICATION
  <1>6. CASE PTK_INITPSK(s)
    BY <1>6 DEF PTK_INITPSK
  <1>7. CASE PTK_PTKSTART(s)
    BY <1>7 DEF PTK_PTKSTART
  <1>8. CASE PTK_PTKCALCNEGOTIATING(s, FALSE) /\ ~sm[s].MICVerified
    BY <1>8 DEF PTK_PTKCALCNEGOTIATING
  <1>9. CASE PTK_PTKCALCNEGOTIATING2(s)
    BY <1>9 DEF PTK_PTKCALCNEGOTIATING2
  <1>10. CASE PTK_PTKINITNEGOTIATING(s)
    BY <1>10 DEF PTK_PTKINITNEGOTIATING
  <1>11. CASE PTK_PTKINITDONE(s, FALSE)
    BY <1>11 DEF PTK_PTKINITDONE
  <1> QED
    BY <1>2, <1>3, <1>4, <1>5, <1>6, <1>7, <1>8, <1>9, <1>10, <1>11

\* What the states of WPA_PTK_GROUP, and what stays, makes of the record m.
GroupMove(m, n) ==
    /\ n.wpa_ptk_state = m.wpa_ptk_state /\ n.group = m.group /\ n.Init = m.Init
    /\ n.AuthenticationRequest = m.AuthenticationRequest
    /\ n.ReAuthenticationRequest = m.ReAuthenticationRequest
    /\ n.PTKRequest = m.PTKRequest /\ n.PTK_valid = m.PTK_valid
    /\ n.pairwise_set = m.pairwise_set /\ n.assoc = m.assoc
    /\ n.MICVerified = m.MICVerified
    /\ n.EAPOLKey # "PAIRWISE"

\* It asks no more of the keys.
LEMMA GroupWeaker ==
    ASSUME NEW m, NEW n, NEW w, GroupMove(m, n)
    PROVE  Weaker(m, w, n, w)
  BY DEF GroupMove, Weaker, Renewing, Live, Derived, HasKey

\* The states of WPA_PTK_GROUP.
LEMMA GroupAsks ==
    ASSUME TypeOK, LoopInv, EarlyInv, NEW s \in STA,
           \/ GROUP_IDLE(s) \/ GROUP_REKEYNEGOTIATING(s)
           \/ GROUP_REKEYESTABLISHED(s) \/ GROUP_KEYERROR(s)
    PROVE  Asksless(s)
  <1> DEFINE m == sm[s]
             n == sm'[s]
             w == Awaits(s)
  <1>0. WPA_PTK_GROUP(s)
    BY DEF WPA_PTK_GROUP
  <1>1. \E t \in PtkGroupStates : \E r : EnterGroup(s, t, r)
    <2>1. CASE GROUP_IDLE(s)
      BY <2>1 DEF GROUP_IDLE, PtkGroupStates
    <2>2. CASE GROUP_REKEYNEGOTIATING(s)
      BY <2>2 DEF GROUP_REKEYNEGOTIATING, PtkGroupStates
    <2>3. CASE GROUP_REKEYESTABLISHED(s)
      BY <2>3 DEF GROUP_REKEYESTABLISHED, PtkGroupStates
    <2>4. CASE GROUP_KEYERROR(s)
      BY <2>4 DEF GROUP_KEYERROR, PtkGroupStates
    <2> QED
      BY <2>1, <2>2, <2>3, <2>4
  <1>2. PICK t \in PtkGroupStates : \E r : EnterGroup(s, t, r)
    BY <1>1
  <1>3. PICK r : EnterGroup(s, t, r)
    BY <1>2
  <1>4. /\ m \in WpaStateMachine /\ MachineInv(m, "grp", KeyMgmt[s], Version[s])
        /\ SM_STEP_WPA_PTK_GROUP(m, Version[s]) = t /\ DOMAIN sm = STA
    BY <1>3, EnterGroupStep DEF TypeOK
  <1>5. m.EAPOLKey # "PAIRWISE"
    BY <1>4 DEF MachineInv, FrameKept
  <1>6. GroupMove(m, n)
    <2> USE <1>4, <1>5 DEF WpaStateMachine, EnterGroup, GroupMove
    <2>1. CASE GROUP_IDLE(s)
      BY <2>1 DEF GROUP_IDLE
    <2>2. CASE GROUP_REKEYNEGOTIATING(s)
      BY <2>2 DEF GROUP_REKEYNEGOTIATING, wpa_send_eapol
    <2>3. CASE GROUP_REKEYESTABLISHED(s)
      BY <2>3 DEF GROUP_REKEYESTABLISHED
    <2>4. CASE GROUP_KEYERROR(s)
      BY <2>4 DEF GROUP_KEYERROR
    <2> QED
      BY <2>1, <2>2, <2>3, <2>4
  <1>7. /\ \A u \in STA \ {s} : sm'[u] = sm[u]
        /\ \A u \in STA : Awaits(u)' <=> Awaits(u)
        /\ EarlyOK(m, w, Version[s])
    BY <1>0, CallAwaits
  <1>8. w' = w
    BY <1>7 DEF Awaits
  <1>9. w => m.Init
    BY <1>4, <1>7, ConstantAssumption
       DEF EarlyOK, GroupQuiet, SM_STEP_WPA_PTK_GROUP, PtkQuiet, PtkRequested,
           WpaStateMachine, PtkGroupStates, KeyFrames
  <1>10. EarlyOK(n, w, Version[s])
    BY <1>6, <1>9 DEF EarlyOK, GroupMove
  <1> HIDE DEF m, n, w
  <1>11. Weaker(m, w, n, w)
    BY <1>6, GroupWeaker
  <1> QED
    BY <1>6, <1>7, <1>8, <1>10, <1>11 DEF Asksless, About, GroupMove, m, n, w

\* The calls that change no state of the station's machines.
LEMMA TurnAsks ==
    ASSUME TypeOK, LoopInv, EarlyInv, NEW s \in STA,
           \/ PTK_stay(s) \/ GROUP_stay(s) \/ GSM_setkeysdone(s) \/ GSM_stay(s)
           \/ wpa_group_update_sta(s)
    PROVE  Asksless(s)
  <1> DEFINE m == sm[s]
             n == sm'[s]
             w == Awaits(s)
  <1>0. m \in WpaStateMachine /\ DOMAIN sm = STA /\ EarlyOK(m, w, Version[s])
    BY DEF TypeOK, EarlyInv
  <1>1. ASSUME \A u \in STA \ {s} : sm'[u] = sm[u], \A u \in STA : Awaits(u)' <=> Awaits(u),
               GroupMove(m, n), EarlyOK(n, w, Version[s])
        PROVE  Asksless(s)
    <2>1. w' = w
      BY <1>1 DEF Awaits
    <2> HIDE DEF m, n, w
    <2>2. Weaker(m, w, n, w)
      BY <1>1, GroupWeaker
    <2> QED
      BY <1>1, <2>1, <2>2 DEF Asksless, About, GroupMove, m, n, w
  <1>2. CASE PTK_stay(s)
    <2>1. /\ \A u \in STA \ {s} : sm'[u] = sm[u]
          /\ \A u \in STA : Awaits(u)' <=> Awaits(u)
      BY <1>2, CallAwaits DEF WPA_PTK
    <2>2. MachineInv(m, "ptk", KeyMgmt[s], Version[s])
      BY <1>2 DEF PTK_stay, LoopInv, Where, InLoop
    <2>3. m.EAPOLKey # "PAIRWISE"
      BY <1>0, <1>2, <2>2, ConstantAssumption
         DEF PTK_stay, MachineInv, FrameKept, SM_STEP_WPA_PTK, PtkInState, PtkAwait
    <2>4. n = [m EXCEPT !.changed = FALSE]
      BY <1>0, <1>2 DEF PTK_stay
    <2>5. GroupMove(m, n)
      BY <1>0, <2>3, <2>4 DEF GroupMove, WpaStateMachine
    <2>6. EarlyOK(n, w, Version[s])
      BY <1>0, <2>4 DEF EarlyOK, PtkQuiet, PtkRequested, GroupQuiet, WpaStateMachine
    <2> QED
      BY <1>1, <2>1, <2>5, <2>6
  <1>3. CASE GROUP_stay(s)
    <2>1. /\ \A u \in STA \ {s} : sm'[u] = sm[u]
          /\ \A u \in STA : Awaits(u)' <=> Awaits(u)
      BY <1>3, CallAwaits DEF WPA_PTK_GROUP
    <2>2. MachineInv(m, "grp", KeyMgmt[s], Version[s]) /\ n = m
      BY <1>3 DEF GROUP_stay, LoopInv, Where, InLoop
    <2>3. GroupMove(m, n)
      BY <2>2 DEF GroupMove, MachineInv, FrameKept
    <2> QED
      BY <1>0, <1>1, <2>1, <2>2, <2>3
  <1>4. CASE GSM_setkeysdone(s) \/ GSM_stay(s)
    <2>1. \A u \in STA : Awaits(u)' <=> Awaits(u)
      BY <1>4 DEF GSM_setkeysdone, GSM_stay, LoopEnd, GoTo, Finish, Awaits
    <2>2. MachineInv(m, "gsm", KeyMgmt[s], Version[s]) /\ sm' = sm
      BY <1>4 DEF GSM_setkeysdone, GSM_stay, LoopInv, Where, InLoop
    <2>3. GroupMove(m, n)
      BY <2>2 DEF GroupMove, MachineInv, FrameKept
    <2> QED
      BY <1>0, <1>1, <2>1, <2>2, <2>3
  <1>5. CASE wpa_group_update_sta(s)
    <2>0. pc = "each" /\ rekeyq # <<>> /\ cont' = cont
      BY <1>5 DEF wpa_group_update_sta, EACH_skip, EACH_mark, TypeOK
    <2>1. \A u \in STA : ~Awaits(u)' /\ ~Awaits(u)
      BY <2>0 DEF Awaits, LoopInv, StackInv
    <2>2. \A u \in STA \ {s} : sm'[u] = sm[u]
      BY <1>0, <1>5 DEF wpa_group_update_sta, EACH_skip, EACH_mark
    <2>3. Where(s) = "out"
      BY <2>0 DEF Where, InLoop
    <2>4. m.EAPOLKey # "PAIRWISE"
      BY <2>3, OutSettled
    <2>5. GroupMove(m, n)
      BY <1>0, <1>5, <2>4 DEF GroupMove, wpa_group_update_sta, EACH_skip, EACH_mark,
         WpaStateMachine
    <2> QED
      BY <1>1, <2>1, <2>2, <2>5 DEF EarlyOK
  <1> QED
    BY <1>2, <1>3, <1>4, <1>5

\* AUTHENTICATION2 is entered by a machine on its way to it, which then is not.
LEMMA Auth2Moves ==
    ASSUME TypeOK, LoopInv, EarlyInv, NEW s \in STA, NEW ready \in BOOLEAN,
           PTK_AUTHENTICATION2(s, ready)
    PROVE  /\ About(s) /\ Renewing(sm[s], Awaits(s)) /\ ~Renewing(sm'[s], Awaits(s)')
           /\ sm'[s].group = sm[s].group /\ ~sm'[s].PTK_valid
           /\ sm'[s].wpa_ptk_state = "AUTHENTICATION2" /\ sm'[s].EAPOLKey # "PAIRWISE"
  <1> DEFINE m == sm[s]
             n == sm'[s]
  <1>0. m \in WpaStateMachine /\ DOMAIN sm = STA /\ WPA_PTK(s) /\ KeyMgmt[s] = "PSK"
    BY HandshakeAssumption DEF TypeOK, WPA_PTK
  <1>1. /\ MachineInv(m, "ptk", KeyMgmt[s], Version[s])
        /\ SM_STEP_WPA_PTK(m, KeyMgmt[s]) = "AUTHENTICATION2"
    BY EnterPtkStep DEF PTK_AUTHENTICATION2
  <1>2. /\ n.wpa_ptk_state = "AUTHENTICATION2" /\ n.group = m.group
        /\ n.Init = m.Init /\ n.AuthenticationRequest = m.AuthenticationRequest
        /\ ~n.ReAuthenticationRequest /\ n.PTK_valid = m.PTK_valid
        /\ n.EAPOLKey = m.EAPOLKey
    BY <1>0 DEF PTK_AUTHENTICATION2, EnterPtk, WpaStateMachine
  <1>3. /\ \A u \in STA \ {s} : sm'[u] = sm[u]
        /\ \A u \in STA : Awaits(u)' <=> Awaits(u)
        /\ EarlyOK(m, Awaits(s), Version[s])
    BY <1>0, CallAwaits
  <1> USE <1>0, <1>1, ConstantAssumption
      DEF SM_STEP_WPA_PTK, PtkRequested, PtkInState, PtkAwait
  <1>4. ~m.Init /\ ~m.AuthenticationRequest /\ m.EAPOLKey # "PAIRWISE" /\ ~m.PTK_valid
    BY DEF MachineInv, FrameKept, KeysKept, WpaStateMachine
  <1>5. m.ReAuthenticationRequest \/ m.wpa_ptk_state = "AUTHENTICATION"
    BY DEF WpaStateMachine, PtkStates
  <1>6. ~Awaits(s)
    BY <1>3, <1>4, <1>5 DEF EarlyOK, PtkQuiet
  <1> QED
    BY <1>2, <1>3, <1>4, <1>5, <1>6 DEF About, EarlyOK, Renewing

\* PTKCALCNEGOTIATING is entered for a frame, while nothing else is requested.
LEMMA CalcMoves ==
    ASSUME TypeOK, LoopInv, EarlyInv, NEW s \in STA, NEW ok \in BOOLEAN,
           PTK_PTKCALCNEGOTIATING(s, ok)
    PROVE  /\ About(s) /\ Awaits(s) = FALSE /\ Awaits(s)' = FALSE
           /\ Live(sm[s], FALSE) /\ sm[s].EAPOLKey = "PAIRWISE"
           /\ sm[s].wpa_ptk_state \in {"PTKSTART", "PTKCALCNEGOTIATING"}
           /\ sm[s].wpa_ptk_state = "PTKCALCNEGOTIATING" => ~sm[s].MICVerified
           /\ sm'[s].group = sm[s].group /\ (sm'[s].PTKRequest <=> sm[s].PTKRequest)
           /\ sm'[s].wpa_ptk_state = "PTKCALCNEGOTIATING"
           /\ Renewing(sm'[s], FALSE) => Renewing(sm[s], FALSE)
           /\ sm'[s].EAPOLKey # "PAIRWISE"
  <1> DEFINE m == sm[s]
             n == sm'[s]
  <1>0. m \in WpaStateMachine /\ DOMAIN sm = STA /\ WPA_PTK(s) /\ KeyMgmt[s] = "PSK"
    BY HandshakeAssumption DEF TypeOK, WPA_PTK
  <1>1. /\ MachineInv(m, "ptk", KeyMgmt[s], Version[s])
        /\ SM_STEP_WPA_PTK(m, KeyMgmt[s]) = "PTKCALCNEGOTIATING"
    BY EnterPtkStep DEF PTK_PTKCALCNEGOTIATING
  <1>2. /\ n.wpa_ptk_state = "PTKCALCNEGOTIATING" /\ n.group = m.group
        /\ n.Init = m.Init /\ n.AuthenticationRequest = m.AuthenticationRequest
        /\ n.ReAuthenticationRequest = m.ReAuthenticationRequest
        /\ n.PTKRequest = m.PTKRequest /\ n.EAPOLKey = "none"
    <2>1. CASE ok
      BY <1>0, <2>1 DEF PTK_PTKCALCNEGOTIATING, EnterPtk, WpaStateMachine,
         cancel_eapol_timeout
    <2>2. CASE ~ok
      BY <1>0, <2>2 DEF PTK_PTKCALCNEGOTIATING, EnterPtk, WpaStateMachine
    <2> QED
      BY <2>1, <2>2
  <1>3. /\ \A u \in STA \ {s} : sm'[u] = sm[u]
        /\ \A u \in STA : Awaits(u)' <=> Awaits(u)
        /\ EarlyOK(m, Awaits(s), Version[s])
    BY <1>0, CallAwaits
  <1>4. /\ PtkRequested(m) = "none" /\ m.EAPOLKey = "PAIRWISE"
        /\ m.wpa_ptk_state \in {"PTKSTART", "PTKCALCNEGOTIATING"}
        /\ m.wpa_ptk_state = "PTKCALCNEGOTIATING" => ~m.MICVerified
    BY <1>0, <1>1, ConstantAssumption
       DEF SM_STEP_WPA_PTK, PtkRequested, PtkInState, PtkAwait, MachineInv, FrameKept,
           WpaStateMachine, PtkStates
  <1>5. ~Awaits(s)
    BY <1>3, <1>4 DEF EarlyOK, PtkRequested
  <1>6. Live(m, FALSE)
    BY <1>4 DEF Live, Renewing, PtkRequested
  <1> QED
    BY <1>2, <1>3, <1>4, <1>5, <1>6 DEF About, EarlyOK, Renewing, Awaits

\* PTKINITDONE likewise.
LEMMA DoneMoves ==
    ASSUME TypeOK, LoopInv, EarlyInv, NEW s \in STA, PTK_PTKINITDONE(s, TRUE)
    PROVE  /\ About(s) /\ Awaits(s) = FALSE /\ Awaits(s)' = FALSE
           /\ Live(sm[s], FALSE) /\ sm[s].EAPOLKey = "PAIRWISE"
           /\ sm[s].wpa_ptk_state = "PTKINITNEGOTIATING"
           /\ sm'[s].group = sm[s].group /\ (sm'[s].PTKRequest <=> sm[s].PTKRequest)
           /\ sm'[s].PTK_valid => sm[s].PTK_valid
           /\ sm'[s].wpa_ptk_state = "PTKINITDONE"
           /\ Renewing(sm'[s], FALSE) => Renewing(sm[s], FALSE)
           /\ sm'[s].EAPOLKey # "PAIRWISE"
  <1> DEFINE m == sm[s]
             n == sm'[s]
  <1>0. m \in WpaStateMachine /\ DOMAIN sm = STA /\ WPA_PTK(s) /\ KeyMgmt[s] = "PSK"
    BY HandshakeAssumption DEF TypeOK, WPA_PTK
  <1>1. /\ MachineInv(m, "ptk", KeyMgmt[s], Version[s])
        /\ SM_STEP_WPA_PTK(m, KeyMgmt[s]) = "PTKINITDONE"
    BY EnterPtkStep DEF PTK_PTKINITDONE
  <1>2. /\ n.wpa_ptk_state = "PTKINITDONE" /\ n.group = m.group
        /\ n.Init = m.Init /\ n.AuthenticationRequest = m.AuthenticationRequest
        /\ n.ReAuthenticationRequest = m.ReAuthenticationRequest
        /\ n.PTKRequest = m.PTKRequest /\ n.EAPOLKey = "none" /\ n.PTK_valid = m.PTK_valid
    BY <1>0 DEF PTK_PTKINITDONE, EnterPtk, WpaStateMachine
  <1>3. /\ \A u \in STA \ {s} : sm'[u] = sm[u]
        /\ \A u \in STA : Awaits(u)' <=> Awaits(u)
        /\ EarlyOK(m, Awaits(s), Version[s])
    BY <1>0, CallAwaits
  <1>4. /\ PtkRequested(m) = "none" /\ m.EAPOLKey = "PAIRWISE"
        /\ m.wpa_ptk_state = "PTKINITNEGOTIATING"
    BY <1>0, <1>1, ConstantAssumption
       DEF SM_STEP_WPA_PTK, PtkRequested, PtkInState, PtkAwait, WpaStateMachine, PtkStates
  <1>5. ~Awaits(s)
    BY <1>3, <1>4 DEF EarlyOK, PtkRequested
  <1>6. Live(m, FALSE)
    BY <1>4 DEF Live, Renewing, PtkRequested
  <1> QED
    BY <1>2, <1>3, <1>4, <1>5, <1>6 DEF About, EarlyOK, Renewing, Awaits

\* Between events no association is under way and the machines are settled.
LEMMA IdleMachine ==
    ASSUME TypeOK, LoopInv, NEW s \in STA, pc = "idle"
    PROVE  /\ \A u \in STA : ~Awaits(u)
           /\ sm[s] \in WpaStateMachine /\ sm[s].EAPOLKey \notin {"PAIRWISE", "GROUP"}
           /\ PtkQuiet(sm[s], "PSK") /\ GroupQuiet(sm[s], Version[s])
           /\ KeysKept(sm[s], "PSK") /\ ~Renewing(sm[s], FALSE)
  <1>1. /\ sm[s] \in WpaStateMachine /\ MachineInv(sm[s], "out", "PSK", Version[s])
        /\ cont = "none" /\ Where(s) = "out"
    <2>1. KeyMgmt[s] = "PSK"
      BY HandshakeAssumption
    <2> QED
      BY <2>1, EventStart
  <1>2. PtkQuiet(sm[s], "PSK") /\ GroupQuiet(sm[s], Version[s]) /\ KeysKept(sm[s], "PSK")
    BY <1>1 DEF MachineInv, PlaceKept
  <1>3. sm[s].EAPOLKey \notin {"PAIRWISE", "GROUP"}
    BY <1>1 DEF MachineInv, FrameKept
  <1>4. ~Renewing(sm[s], FALSE)
    BY <1>2 DEF Renewing, PtkQuiet, PtkRequested
  <1> QED
    BY <1>1, <1>2, <1>3, <1>4 DEF Awaits

\* An event that starts no association.
LEMMA EventAsks ==
    ASSUME TypeOK, LoopInv, NEW s \in STA, pc = "idle",
           UNCHANGED stack \/ \E c \in {"none", "free"} : StepLoop(s, c),
           \A u \in STA \ {s} : sm'[u] = sm[u],
           Weaker(sm[s], FALSE, sm'[s], FALSE), sm'[s].EAPOLKey # "PAIRWISE"
    PROVE  Asksless(s)
  <1>1. \A u \in STA : Awaits(u) = FALSE /\ Awaits(u)' = FALSE
    <2>1. cont = "none"
      BY EventStart
    <2> QED
      BY <2>1 DEF Awaits, StepLoop, stack
  <1>2. Awaits(s) = FALSE /\ Awaits(s)' = FALSE
    BY <1>1
  <1> QED
    BY <1>1, <1>2 DEF Asksless, About, EarlyOK

\* The events that ask no more of the keys; those that drop them.
LEMMA QuietEvents ==
    ASSUME TypeOK, LoopInv, KnownInv, NEW s \in STA,
           \/ handle_assoc(s) \/ ap_handle_timer_disassoc(s) \/ wpa_send_eapol_timeout(s)
           \/ wpa_rekey_ptk(s) \/ wpa_receive_entropy(s)
           \/ \E kind : wpa_receive_bad_mic(s, kind)
    PROVE  Asksless(s)
  <1> DEFINE m == sm[s]
             n == sm'[s]
  <1>1. pc = "idle" /\ (UNCHANGED stack \/ StepLoop(s, "none"))
    BY DEF handle_assoc, ap_handle_timer_disassoc, wpa_send_eapol_timeout, wpa_rekey_ptk,
       wpa_receive_entropy, wpa_receive_bad_mic, Receivable
  <1>2. \A u \in STA \ {s} : sm'[u] = sm[u]
    BY EventReplay
  <1>3. /\ m \in WpaStateMachine /\ DOMAIN sm = STA /\ m.EAPOLKey # "PAIRWISE"
        /\ PtkQuiet(m, "PSK") /\ KeysKept(m, "PSK") /\ ~Renewing(m, FALSE)
    BY <1>1, IdleMachine DEF TypeOK
  <1>4. Weaker(m, FALSE, n, FALSE) /\ n.EAPOLKey # "PAIRWISE"
    <2> USE <1>3 DEF Weaker, Renewing, Live, Derived, HasKey, WpaStateMachine
    <2>1. CASE handle_assoc(s)
      BY <2>1 DEF handle_assoc, wpa_auth_sta_init, KnownInv, Known
    <2>2. CASE ap_handle_timer_disassoc(s)
      BY <2>2 DEF ap_handle_timer_disassoc, ieee802_1x_free_station
    <2>3. CASE wpa_send_eapol_timeout(s)
      BY <2>3 DEF wpa_send_eapol_timeout
    <2>4. CASE wpa_rekey_ptk(s)
      <3>1. Live(m, FALSE)
        BY <2>4 DEF wpa_rekey_ptk, KeysKept, HoldsNothing, PtkQuiet
      <3> QED
        BY <2>4, <3>1 DEF wpa_rekey_ptk, wpa_request_new_ptk
    <2>5. CASE wpa_receive_entropy(s)
      BY <2>5 DEF wpa_receive_entropy, wpa_sta_disconnect
    <2>6. CASE \E kind : wpa_receive_bad_mic(s, kind)
      BY <2>6 DEF wpa_receive_bad_mic
    <2> QED
      BY <2>1, <2>2, <2>3, <2>4, <2>5, <2>6
  <1> HIDE DEF m, n
  <1> QED
    BY <1>1, <1>2, <1>4, EventAsks DEF m, n

\* The events that drop the PTK.
LEMMA DropEvents ==
    ASSUME TypeOK, LoopInv, KnownInv, NEW s \in STA,
           handle_auth(s) \/ handle_disassoc(s) \/ handle_deauth(s)
    PROVE  Asksless(s) /\ ~sm'[s].PTK_valid /\ ~HasKey(sm'[s])
  <1> DEFINE m == sm[s]
             n == sm'[s]
  <1>1. pc = "idle" /\ (StepLoop(s, "none") \/ StepLoop(s, "free"))
    BY DEF handle_auth, handle_disassoc, handle_deauth
  <1>2. \A u \in STA \ {s} : sm'[u] = sm[u]
    BY EventReplay
  <1>3. /\ m \in WpaStateMachine /\ DOMAIN sm = STA /\ m.EAPOLKey # "PAIRWISE"
        /\ PtkQuiet(m, "PSK") /\ KeysKept(m, "PSK") /\ ~Renewing(m, FALSE)
    BY <1>1, IdleMachine DEF TypeOK
  <1>4. /\ Weaker(m, FALSE, n, FALSE) /\ n.EAPOLKey # "PAIRWISE"
        /\ ~n.PTK_valid /\ ~HasKey(n)
    <2> USE <1>3 DEF Weaker, Renewing, Live, Derived, HasKey, WpaStateMachine,
                     wpa_remove_ptk, Deauthenticate, ieee802_1x_free_station
    <2>1. CASE handle_auth(s)
      BY <2>1 DEF handle_auth
    <2>2. CASE handle_disassoc(s)
      BY <2>2 DEF handle_disassoc
    <2>3. CASE handle_deauth(s)
      BY <2>3 DEF handle_deauth
    <2> QED
      BY <2>1, <2>2, <2>3
  <1> HIDE DEF m, n
  <1> QED
    BY <1>1, <1>2, <1>4, EventAsks DEF m, n

\* The rest of an association, or of a departure.
LEMMA ContMoves ==
    ASSUME TypeOK, LoopInv, EarlyInv, KnownInv, NEW s \in STA
    PROVE  /\ CONT_assoc(s) /\ ~sm[s].started => Asksless(s)
           /\ CONT_assoc(s) /\ sm[s].started =>
                /\ About(s) /\ Awaits(s) /\ Awaits(s)' = FALSE
                /\ sm'[s].group = sm[s].group /\ sm'[s].ReAuthenticationRequest
                /\ ~sm'[s].PTKRequest /\ ~sm'[s].PTK_valid
                /\ sm'[s].EAPOLKey # "PAIRWISE" /\ (HasKey(sm'[s]) => HasKey(sm[s]))
           /\ CONT_auth(s) => Asksless(s)
           /\ CONT_reauth(s) => Asksless(s) /\ ~sm'[s].PTK_valid /\ ~HasKey(sm'[s])
           /\ ap_handle_timer_remove(s) \/ CONT_free(s) =>
                /\ About(s) /\ Awaits(s)' = FALSE
                /\ sm'[s] = wpa_auth_sta_init("none")
  <1> DEFINE m == sm[s]
             n == sm'[s]
  <1>0. m \in WpaStateMachine /\ DOMAIN sm = STA
    BY DEF TypeOK
  <1>1. ASSUME pc = "cont", caller = s, cont \in {"assoc", "auth", "reauth"}
        PROVE  /\ \A u \in STA \ {s} : ~Awaits(u)
               /\ Awaits(s) = TRUE /\ m.EAPOLKey # "PAIRWISE"
               /\ cont # "auth" => PtkQuiet(m, KeyMgmt[s])
               /\ cont = "assoc" => ~m.PTK_valid
               /\ GroupQuiet(m, Version[s]) \/ cont = "auth"
    <2>1. m.EAPOLKey # "PAIRWISE" /\ (cont = "assoc" => ~m.PTK_valid)
      BY <1>1 DEF LoopInv, StackInv
    <2>2. ASSUME cont # "auth"
          PROVE  PtkQuiet(m, KeyMgmt[s]) /\ GroupQuiet(m, Version[s])
      <3>1. Where(s) = "out"
        BY <1>1, <2>2 DEF Where, InLoop
      <3> QED
        BY <3>1, OutSettled DEF MachineInv, PlaceKept
    <2> QED
      BY <1>1, <2>1, <2>2 DEF Awaits
  <1> USE <1>0 DEF Weaker, Renewing, Live, Derived, HasKey, WpaStateMachine, Asksless,
                   About, EarlyOK
  <1>b. ieee802_1x_new_station(s) = {m}
    BY HandshakeAssumption DEF ieee802_1x_new_station
  <1>2. ASSUME CONT_assoc(s), ~m.started PROVE Asksless(s)
    <2>1. pc = "cont" /\ caller = s /\ cont = "assoc"
      BY <1>2 DEF CONT_assoc
    <2>2. /\ n = [m EXCEPT !.started = TRUE, !.Init = TRUE]
          /\ \A u \in STA \ {s} : sm'[u] = sm[u] /\ Awaits(u)' = FALSE
          /\ Awaits(s)' = TRUE
      BY <1>2, <1>b DEF CONT_assoc, StepLoop, Awaits
    <2> QED
      BY <1>1, <2>1, <2>2
  <1>3. ASSUME CONT_assoc(s), m.started
        PROVE  /\ About(s) /\ Awaits(s) /\ Awaits(s)' = FALSE
               /\ n.group = m.group /\ n.ReAuthenticationRequest
               /\ ~n.PTKRequest /\ ~n.PTK_valid
               /\ n.EAPOLKey # "PAIRWISE" /\ (HasKey(n) => HasKey(m))
    <2>1. pc = "cont" /\ caller = s /\ cont = "assoc"
      BY <1>3 DEF CONT_assoc
    <2>2. /\ n = [m EXCEPT !.replay_valid = FALSE, !.ReAuthenticationRequest = TRUE]
          /\ \A u \in STA \ {s} : sm'[u] = sm[u] /\ Awaits(u)' = FALSE
          /\ Awaits(s)' = FALSE
      BY <1>3, <1>b DEF CONT_assoc, StepLoop, Awaits
    <2>3. ~m.PTKRequest
      BY <1>1, <2>1 DEF PtkQuiet, PtkRequested
    <2> QED
      BY <1>1, <2>1, <2>2, <2>3
  <1>4. ASSUME CONT_auth(s) PROVE Asksless(s)
    <2>1. pc = "cont" /\ caller = s /\ cont = "auth"
      BY <1>4 DEF CONT_auth
    <2>2. /\ n = [m EXCEPT !.Init = FALSE, !.AuthenticationRequest = TRUE]
          /\ \A u \in STA \ {s} : sm'[u] = sm[u] /\ Awaits(u)' = FALSE
          /\ Awaits(s)' = FALSE
      BY <1>4 DEF CONT_auth, StepLoop, Awaits
    <2> QED
      BY <1>1, <2>1, <2>2
  <1>5. ASSUME CONT_reauth(s) PROVE Asksless(s) /\ ~n.PTK_valid /\ ~HasKey(n)
    <2>1. pc = "cont" /\ caller = s /\ cont = "reauth"
      BY <1>5 DEF CONT_reauth
    <2>2. /\ \A u \in STA \ {s} : sm'[u] = sm[u] /\ Awaits(u)' = FALSE
          /\ Awaits(s)' = FALSE
      BY <1>5, <1>b DEF CONT_reauth, StepLoop, Awaits
    <2>3. /\ n.wpa_ptk_state = m.wpa_ptk_state /\ n.group = m.group /\ n.Init = m.Init
          /\ n.ReAuthenticationRequest /\ n.PTKRequest = m.PTKRequest
          /\ ~n.PTK_valid /\ ~n.pairwise_set /\ n.MICVerified = m.MICVerified
          /\ n.EAPOLKey = m.EAPOLKey
      <3>1. Reauthenticate(m) \in WpaStateMachine
        BY ReauthenticateType
      <3>2. n = wpa_remove_ptk(Reauthenticate(m))
        BY <1>5, <1>b DEF CONT_reauth
      <3> QED
        BY <3>1, <3>2 DEF wpa_remove_ptk, Reauthenticate
    <2> QED
      BY <1>1, <2>1, <2>2, <2>3
  <1>6. ASSUME ap_handle_timer_remove(s) \/ CONT_free(s)
        PROVE  About(s) /\ Awaits(s)' = FALSE /\ n = wpa_auth_sta_init("none")
    <2>1. \A u \in STA : ~Awaits(u)' /\ ~Awaits(u)
      <3>1. CASE ap_handle_timer_remove(s)
        BY <3>1, EventStart DEF ap_handle_timer_remove, stack, Awaits
      <3>2. CASE CONT_free(s)
        BY <3>2 DEF CONT_free, Finish, Awaits
      <3> QED
        BY <1>6, <3>1, <3>2
    <2>2. n = wpa_auth_sta_init("none") /\ \A u \in STA \ {s} : sm'[u] = sm[u]
      BY <1>6 DEF ap_handle_timer_remove, CONT_free, wpa_auth_sta_deinit
    <2> QED
      BY <2>1, <2>2 DEF Awaits
  <1> QED
    BY <1>2, <1>3, <1>4, <1>5, <1>6

\* The Association Response.
LEMMA AssocMoves ==
    ASSUME TypeOK, LoopInv, NEW s \in STA, handle_assoc_cb(s),
           sm'[s].group = sm[s].group
    PROVE  /\ About(s) /\ Awaits(s) = FALSE /\ Awaits(s)' = TRUE
           /\ sm'[s].group = sm[s].group /\ ~sm'[s].PTKRequest /\ ~sm'[s].PTK_valid
           /\ ~sm'[s].pairwise_set /\ (Derived(sm'[s]) => Derived(sm[s]))
           /\ sm'[s].EAPOLKey # "PAIRWISE"
  <1> DEFINE m == sm[s]
             n == sm'[s]
  <1>0. PICK g \in Group :
          /\ pc = "idle" /\ n = [wpa_remove_ptk(m) EXCEPT !.assoc = "assoc", !.group = g]
          /\ \A u \in STA \ {s} : sm'[u] = sm[u]
    BY DEF handle_assoc_cb, TypeOK
  <1>1. pc = "idle" /\ n = [wpa_remove_ptk(m) EXCEPT !.assoc = "assoc", !.group = g]
        /\ \A u \in STA \ {s} : sm'[u] = sm[u]
    BY <1>0
  <1>2. /\ m \in WpaStateMachine /\ m.EAPOLKey \notin {"PAIRWISE", "GROUP"}
        /\ PtkQuiet(m, "PSK") /\ GroupQuiet(m, Version[s])
        /\ \A u \in STA : ~Awaits(u)
    BY <1>1, IdleMachine
  <1>3. /\ n.wpa_ptk_state = m.wpa_ptk_state /\ n.group = m.group
        /\ n.PTKRequest = m.PTKRequest /\ ~n.PTK_valid /\ ~n.pairwise_set
        /\ n.MICVerified = m.MICVerified /\ n.EAPOLKey = m.EAPOLKey
    BY <1>1, <1>2 DEF wpa_remove_ptk, WpaStateMachine
  <1>4. PtkQuiet(n, "PSK") /\ GroupQuiet(n, Version[s])
    BY <1>1, <1>2 DEF wpa_remove_ptk, WpaStateMachine, PtkQuiet, PtkRequested, GroupQuiet
  <1>5. Awaits(s)' = TRUE /\ \A u \in STA \ {s} : ~Awaits(u)'
    BY DEF handle_assoc_cb, StepLoop, Awaits
  <1>6. About(s)
    BY <1>1, <1>2, <1>3, <1>4, <1>5 DEF About, EarlyOK
  <1> QED
    BY <1>2, <1>3, <1>5, <1>6 DEF PtkQuiet, PtkRequested, Derived, Awaits

\* A frame that is accepted.
LEMMA ReceiveMoves ==
    ASSUME TypeOK, LoopInv, NEW s \in STA, NEW kind, wpa_receive_key(s, kind),
           kind \in {"PAIRWISE_2", "PAIRWISE_4", "GROUP_2"}
    PROVE  /\ About(s) /\ Awaits(s) = FALSE /\ Awaits(s)' = FALSE
           /\ ~Renewing(sm[s], FALSE) /\ ~Renewing(sm'[s], FALSE)
           /\ sm'[s].group = sm[s].group /\ (sm'[s].PTKRequest <=> sm[s].PTKRequest)
           /\ sm'[s].wpa_ptk_state = sm[s].wpa_ptk_state
           /\ sm'[s].PTK_valid = sm[s].PTK_valid
           /\ kind = "PAIRWISE_2" =>
                /\ Live(sm[s], FALSE) /\ ~sm'[s].MICVerified
                /\ sm[s].wpa_ptk_state \in {"PTKSTART", "PTKCALCNEGOTIATING"}
                /\ sm'[s].EAPOLKey = "PAIRWISE"
           /\ kind = "PAIRWISE_4" =>
                /\ sm[s].wpa_ptk_state = "PTKINITNEGOTIATING" /\ sm[s].PTK_valid
                /\ sm'[s].EAPOLKey = "PAIRWISE"
           /\ kind = "GROUP_2" =>
                Weaker(sm[s], FALSE, sm'[s], FALSE) /\ sm'[s].EAPOLKey # "PAIRWISE"
  <1> DEFINE m == sm[s]
             n == sm'[s]
  <1>1. /\ pc = "idle" /\ StepLoop(s, "none") /\ Expected(m, kind) /\ DOMAIN sm = STA
        /\ n = [VerifyMIC(m) EXCEPT
                  !.replay_valid = FALSE,
                  !.EAPOLKey = IF kind = "GROUP_2" THEN "GROUP" ELSE "PAIRWISE"]
        /\ \A u \in STA \ {s} : sm'[u] = sm[u]
    BY DEF wpa_receive_key, Receivable, TypeOK
  <1>2. /\ m \in WpaStateMachine /\ m.EAPOLKey \notin {"PAIRWISE", "GROUP"}
        /\ PtkQuiet(m, "PSK") /\ KeysKept(m, "PSK")
        /\ \A u \in STA : ~Awaits(u)
        /\ ~Renewing(m, FALSE)
    BY <1>1, IdleMachine
  <1>3. /\ n.wpa_ptk_state = m.wpa_ptk_state /\ n.group = m.group /\ n.Init = m.Init
        /\ n.AuthenticationRequest = m.AuthenticationRequest
        /\ n.ReAuthenticationRequest = m.ReAuthenticationRequest
        /\ n.PTKRequest = m.PTKRequest /\ n.PTK_valid = m.PTK_valid
        /\ n.pairwise_set = m.pairwise_set /\ n.assoc = m.assoc
        /\ n.MICVerified <=> m.PTK_valid
        /\ n.EAPOLKey = IF kind = "GROUP_2" THEN "GROUP" ELSE "PAIRWISE"
    <2> DEFINE v == VerifyMIC(m)
    <2>1. v \in WpaStateMachine
      BY <1>2, VerifyMICType
    <2>2. /\ v.wpa_ptk_state = m.wpa_ptk_state /\ v.group = m.group /\ v.Init = m.Init
          /\ v.AuthenticationRequest = m.AuthenticationRequest
          /\ v.ReAuthenticationRequest = m.ReAuthenticationRequest
          /\ v.PTKRequest = m.PTKRequest /\ v.PTK_valid = m.PTK_valid
          /\ v.pairwise_set = m.pairwise_set /\ v.assoc = m.assoc
          /\ v.MICVerified <=> m.PTK_valid
      BY <1>2 DEF VerifyMIC, cancel_eapol_timeout, WpaStateMachine
    <2>3. n = [v EXCEPT !.replay_valid = FALSE,
                        !.EAPOLKey = IF kind = "GROUP_2" THEN "GROUP" ELSE "PAIRWISE"]
      BY <1>1
    <2> HIDE DEF v
    <2> QED
      BY <2>1, <2>2, <2>3 DEF WpaStateMachine
  <1>4. \A u \in STA : Awaits(u)' = FALSE
    BY <1>1 DEF StepLoop, Awaits
  <1>5. About(s) /\ Awaits(s) = FALSE /\ Awaits(s)' = FALSE
    BY <1>1, <1>2, <1>4 DEF About, EarlyOK, Awaits
  <1>6. ~Renewing(n, FALSE)
    BY <1>2, <1>3 DEF Renewing
  <1>7. kind = "PAIRWISE_2" =>
          /\ Live(m, FALSE) /\ ~n.MICVerified
          /\ m.wpa_ptk_state \in {"PTKSTART", "PTKCALCNEGOTIATING"}
    <2>1. kind = "PAIRWISE_2" => m.wpa_ptk_state \in {"PTKSTART", "PTKCALCNEGOTIATING"}
      BY <1>1, HandshakeAssumption DEF Expected
    <2>2. m.wpa_ptk_state \in {"PTKSTART", "PTKCALCNEGOTIATING"} => ~m.PTK_valid
      BY <1>2 DEF PtkQuiet, KeysKept
    <2> QED
      BY <1>2, <1>3, <2>1, <2>2 DEF Live
  <1>8. kind = "PAIRWISE_4" => m.wpa_ptk_state = "PTKINITNEGOTIATING" /\ m.PTK_valid
    BY <1>1, HandshakeAssumption DEF Expected
  <1>9. kind = "GROUP_2" => Weaker(m, FALSE, n, FALSE)
    <2>1. kind = "GROUP_2" => m.PTK_valid
      BY <1>1, HandshakeAssumption DEF Expected
    <2>2. m.PTK_valid => m.wpa_ptk_state # "PTKCALCNEGOTIATING"
      BY <1>2 DEF PtkQuiet, KeysKept
    <2> QED
      BY <1>2, <1>3, <1>6, <2>1, <2>2 DEF Weaker, Live, Derived, HasKey
  <1> QED
    BY <1>2, <1>3, <1>5, <1>6, <1>7, <1>8, <1>9

-----------------------------------------------------------------------------
(* The invariant under the steps.                                          *)

\* What KeysInv says of s, for an epoch e and a set K that covers the keys in use.
Holds(s, e, K) ==
    /\ e \in 1..Counter /\ K \in SUBSET Keys
    /\ AirOK(supp[s], air[s], Counter, GTKNonce, e, K)
    /\ ApOK(sm[s], Awaits(s), auth[s], supp[s], air[s], Counter, e, K)

\* Every set that covers the keys in use serves as well as the set of them.
LEMMA Shrink ==
    ASSUME NEW m, NEW w, NEW a, NEW u, NEW A, NEW C, NEW G, NEW e, NEW K, NEW L,
           AirOK(u, A, C, G, e, K), ApOK(m, w, a, u, A, C, e, K),
           \A k \in L : k \in K, Covers(u, A, L)
    PROVE  AirOK(u, A, C, G, e, L) /\ ApOK(m, w, a, u, A, C, e, L)
  <1>1. UsedOK(u, C, e, L) /\ StationOK(u, e, L) /\ \A f \in A : FrameOK(f, u, C, e, L)
    BY DEF AirOK, UsedOK, StationOK, FrameOK
  <1>2. ApKeyOK(m, a, u, e, L)
    BY DEF ApOK, ApKeyOK, Above
  <1>3. ReplayEpochOK(m, a, A, e, L)
    BY DEF ApOK, ReplayEpochOK
  <1>4. ReceivedOK(m, a, u, e, L)
    BY DEF ApOK, ReceivedOK, Above
  <1> QED
    BY <1>1, <1>2, <1>3, <1>4 DEF AirOK, ApOK

\* The keys in use are covered, and are in every set that covers them.
LEMMA UsedCovers ==
    ASSUME NEW u, NEW A
    PROVE  /\ Covers(u, A, UsedKeys(u, A))
           /\ \A K : Covers(u, A, K) => \A k \in UsedKeys(u, A) : k \in K
  BY DEF Covers, UsedKeys

\* From the invariant to an epoch, and back.
LEMMA StationEpoch ==
    ASSUME TypeOK, DataTypeOK, KeysInv, NEW s \in STA
    PROVE  /\ auth[s] \in ApData /\ supp[s] \in SuppData /\ air[s] \in SUBSET Frames
           /\ Counter \in Nat /\ GTKNonce \in Nat /\ GTKNonce < Counter
           /\ \E e \in 1..Counter, K \in SUBSET Keys : Holds(s, e, K)
  <1>1. /\ auth[s] \in ApData /\ supp[s] \in SuppData /\ air[s] \in SUBSET Frames
        /\ gk[DefaultGroup] \in GroupKeys
    BY DefaultGroupType DEF DataTypeOK
  <1>2. Counter \in Nat /\ GTKNonce \in Nat
    BY <1>1 DEF GroupKeys, Counter, GTKNonce
  <1> DEFINE K == UsedKeys(supp[s], air[s])
  <1>3. K \in SUBSET Keys
    BY <1>1 DEF UsedKeys, Frames, SuppData
  <1>4. PICK e \in 1..Counter :
          /\ AirOK(supp[s], air[s], Counter, GTKNonce, e, K)
          /\ ApOK(sm[s], Awaits(s), auth[s], supp[s], air[s], Counter, e, K)
    BY DEF KeysInv, StationKeysInv
  <1> HIDE DEF K
  <1>5. Holds(s, e, K)
    BY <1>3, <1>4 DEF Holds
  <1> QED
    BY <1>1, <1>2, <1>3, <1>5 DEF KeysInv

\* Holds, for whatever superset K of the keys in use, is the station's invariant:
\* its parts only get weaker with fewer keys.
LEMMA EpochStation ==
    ASSUME NEW s \in STA, NEW e, NEW K, Holds(s, e, K)'
    PROVE  StationKeysInv(s)'
  <1> DEFINE u == supp'[s]
             A == air'[s]
             L == UsedKeys(u, A)
  <1>1. /\ AirOK(u, A, Counter', GTKNonce', e, K)
        /\ ApOK(sm'[s], Awaits(s)', auth'[s], u, A, Counter', e, K)
        /\ e \in 1..Counter'
    BY DEF Holds
  <1>2. Covers(u, A, L) /\ \A k \in L : k \in K
    BY <1>1, UsedCovers DEF AirOK
  <1>3. /\ AirOK(u, A, Counter', GTKNonce', e, L)
        /\ ApOK(sm'[s], Awaits(s)', auth'[s], u, A, Counter', e, L)
    BY <1>1, <1>2, Shrink
  <1> QED
    BY <1>1, <1>3 DEF StationKeysInv

\* A station that the step is not about, with a Counter and a GTK that are not
\* older.
LEMMA StationStays ==
    ASSUME TypeOK, DataTypeOK, KeysInv, NEW u \in STA,
           sm'[u] = sm[u], auth'[u] = auth[u], supp'[u] = supp[u], air'[u] = air[u],
           Awaits(u)' <=> Awaits(u),
           Counter' \in Nat, GTKNonce' \in Nat, Counter <= Counter', GTKNonce <= GTKNonce'
    PROVE  StationKeysInv(u)'
  <1>1. PICK e \in 1..Counter, K \in SUBSET Keys : Holds(u, e, K)
    BY StationEpoch
  <1>2. Awaits(u)' = Awaits(u)
    BY DEF Awaits
  <1>3. /\ auth[u] \in ApData /\ supp[u] \in SuppData /\ air[u] \in SUBSET Frames
        /\ Counter \in Nat /\ GTKNonce \in Nat /\ e \in Nat
    BY StationEpoch
  <1>4. /\ AirOK(supp[u], air[u], Counter', GTKNonce', e, K)
        /\ ApOK(sm[u], Awaits(u), auth[u], supp[u], air[u], Counter', e, K)
    BY <1>1, <1>3, GrowOK DEF Holds
  <1>5. e \in 1..Counter'
    BY <1>3
  <1>6. Holds(u, e, K)'
    BY <1>2, <1>4, <1>5 DEF Holds
  <1> QED
    BY <1>6, EpochStation

\* A step that is about s.
LEMMA StepConcludes ==
    ASSUME TypeOK, DataTypeOK, KeysInv, NEW s \in STA, About(s),
           \A u \in STA \ {s} : auth'[u] = auth[u] /\ supp'[u] = supp[u] /\ air'[u] = air[u],
           Counter' \in Nat, GTKNonce' \in Nat, Counter <= Counter', GTKNonce <= GTKNonce',
           GTKNonce' < Counter', StationKeysInv(s)'
    PROVE  KeysInv'
  <1>1. \A u \in STA \ {s} : StationKeysInv(u)'
    BY StationStays DEF About
  <1> QED
    BY <1>1 DEF KeysInv

\* The same when the groups' keys stay.
LEMMA StepSame ==
    ASSUME TypeOK, DataTypeOK, KeysInv, NEW s \in STA, About(s), gk' = gk,
           \A u \in STA \ {s} : auth'[u] = auth[u] /\ supp'[u] = supp[u] /\ air'[u] = air[u],
           NEW e \in 1..Counter, NEW K \in SUBSET Keys,
           AirOK(supp'[s], air'[s], Counter, GTKNonce, e, K),
           ApOK(sm'[s], Awaits(s)', auth'[s], supp'[s], air'[s], Counter, e, K)
    PROVE  KeysInv'
  <1>1. Counter' = Counter /\ GTKNonce' = GTKNonce
    BY DEF Counter, GTKNonce
  <1>2. Holds(s, e, K)'
    BY <1>1 DEF Holds
  <1>3. StationKeysInv(s)'
    BY <1>2, EpochStation
  <1>4. Counter \in Nat /\ GTKNonce \in Nat /\ GTKNonce < Counter
    BY StationEpoch
  <1> QED
    BY <1>1, <1>3, <1>4, StepConcludes

\* Steps without data.
LEMMA QuietStep ==
    ASSUME TypeOK, DataTypeOK, KeysInv, NEW s \in STA, Asksless(s), UNCHANGED data
    PROVE  KeysInv'
  <1>1. PICK e \in 1..Counter, K \in SUBSET Keys : Holds(s, e, K)
    BY StationEpoch
  <1>2. supp' = supp /\ air' = air /\ auth' = auth /\ gk' = gk
    BY DEF data
  <1>3. ApOK(sm'[s], Awaits(s)', auth[s], supp[s], air[s], Counter, e, K)
    BY <1>1, QuietOK DEF Holds, Asksless
  <1>4. AirOK(supp[s], air[s], Counter, GTKNonce, e, K)
    BY <1>1 DEF Holds
  <1> QED
    BY <1>2, <1>3, <1>4, StepSame DEF Asksless

\* Steps that drop the PTK.
LEMMA DropStep ==
    ASSUME TypeOK, DataTypeOK, KeysInv, NEW s \in STA, Asksless(s),
           ~sm'[s].PTK_valid, ~HasKey(sm'[s]), NEW b, AuthOnly(s, b),
           b \in {RemovePTK(auth[s]), [auth[s] EXCEPT !.PTK = NoKey]}
    PROVE  KeysInv'
  <1>1. PICK e \in 1..Counter, K \in SUBSET Keys : Holds(s, e, K)
    BY StationEpoch
  <1>2. auth[s] \in ApData /\ supp[s] \in SuppData /\ air[s] \in SUBSET Frames
    BY StationEpoch
  <1>3. b \in ApData
    BY <1>2, ApDataType
  <1>4. /\ b.PTK = NoKey /\ b.ANonce = auth[s].ANonce /\ b.counter = auth[s].counter
        /\ b.pending = auth[s].pending /\ b.last = auth[s].last
    BY <1>2 DEF RemovePTK, ApData
  <1>5. /\ supp' = supp /\ air' = air /\ gk' = gk /\ auth'[s] = b
        /\ \A u \in STA \ {s} : auth'[u] = auth[u]
    BY DEF AuthOnly, DataTypeOK
  <1>6. ApOK(sm'[s], Awaits(s)', b, supp[s], air[s], Counter, e, K)
    BY <1>1, <1>2, <1>3, <1>4, DropOK DEF Holds, Asksless
  <1>7. AirOK(supp[s], air[s], Counter, GTKNonce, e, K)
    BY <1>1 DEF Holds
  <1> QED
    BY <1>5, <1>6, <1>7, StepSame DEF Asksless

\* The machine of s is freed.
LEMMA FreeStep ==
    ASSUME TypeOK, LoopInv, EarlyInv, KnownInv, DataTypeOK, KeysInv, NEW s \in STA,
           ap_handle_timer_remove(s) \/ CONT_free(s), NEW b \in ApData, AuthOnly(s, b),
           b.PTK = NoKey, b.ANonce = 0, b.last = auth[s].last
    PROVE  KeysInv'
  <1>1. PICK e \in 1..Counter, K \in SUBSET Keys : Holds(s, e, K)
    BY StationEpoch
  <1>2. /\ auth[s] \in ApData /\ supp[s] \in SuppData /\ air[s] \in SUBSET Frames
        /\ Counter \in Nat
    BY StationEpoch
  <1>5. /\ supp' = supp /\ air' = air /\ gk' = gk /\ auth'[s] = b
        /\ \A u \in STA \ {s} : auth'[u] = auth[u]
    BY DEF AuthOnly, DataTypeOK
  <1>6. About(s) /\ Awaits(s)' = FALSE /\ sm'[s] = wpa_auth_sta_init("none")
    BY ContMoves
  <1>7. /\ sm'[s].group = DefaultGroup /\ ~Live(sm'[s], Awaits(s)') /\ ~sm'[s].PTKRequest
        /\ ~Renewing(sm'[s], Awaits(s)') /\ ~sm'[s].PTK_valid /\ ~HasKey(sm'[s])
        /\ sm'[s].EAPOLKey # "PAIRWISE"
    BY <1>6 DEF wpa_auth_sta_init, Live, Renewing, HasKey
  <1>8. ApOK(sm'[s], Awaits(s)', b, supp[s], air[s], Counter, e, K)
    <2>1. b.ANonce # e /\ b.ANonce < Counter
      BY <1>2
    <2>2. ApOK(sm[s], Awaits(s), auth[s], supp[s], air[s], Counter, e, K)
      BY <1>1 DEF Holds
    <2> QED
      BY <1>2, <1>7, <2>1, <2>2, ResetOK
  <1>9. AirOK(supp[s], air[s], Counter, GTKNonce, e, K)
    BY <1>1 DEF Holds
  <1> QED
    BY <1>5, <1>6, <1>8, <1>9, StepSame

\* wpa_auth_sta_associated for a machine that was started before.
LEMMA RestartStep ==
    ASSUME TypeOK, LoopInv, EarlyInv, KnownInv, DataTypeOK, KeysInv, NEW s \in STA,
           CONT_assoc(s), sm[s].started, AuthOnly(s, ClearKeyReplay(auth[s]))
    PROVE  KeysInv'
  <1> DEFINE b == ClearKeyReplay(auth[s])
  <1>1. PICK e \in 1..Counter, K \in SUBSET Keys : Holds(s, e, K)
    BY StationEpoch
  <1>2. auth[s] \in ApData /\ supp[s] \in SuppData /\ air[s] \in SUBSET Frames
    BY StationEpoch
  <1>3. b \in ApData
    BY <1>2, ApDataType
  <1>4. b.PTK = auth[s].PTK /\ b.ANonce = auth[s].ANonce /\ b.last = auth[s].last
    BY <1>2 DEF ClearKeyReplay, ApData
  <1>5. /\ supp' = supp /\ air' = air /\ gk' = gk /\ auth'[s] = b
        /\ \A u \in STA \ {s} : auth'[u] = auth[u]
    BY DEF AuthOnly, DataTypeOK
  <1> HIDE DEF b
  <1>6. /\ About(s) /\ Awaits(s) /\ Awaits(s)' = FALSE
        /\ sm'[s].group = sm[s].group /\ sm'[s].ReAuthenticationRequest
        /\ ~sm'[s].PTKRequest /\ ~sm'[s].PTK_valid
        /\ sm'[s].EAPOLKey # "PAIRWISE" /\ (HasKey(sm'[s]) => HasKey(sm[s]))
    BY ContMoves
  <1>7. ApOK(sm[s], Awaits(s), auth[s], supp[s], air[s], Counter, e, K)
    BY <1>1 DEF Holds
  <1>8. /\ Renewing(sm[s], Awaits(s)) /\ auth[s].ANonce # e /\ auth[s].ANonce < Counter
        /\ sm[s].group = DefaultGroup
    BY <1>6, <1>7 DEF ApOK, EpochOK, Renewing
  <1>9. auth[s].PTK = NoKey /\ ~HasKey(sm[s])
    BY <1>7, <1>8 DEF ApOK, ApKeyOK, InstalledOK
  <1>10. ~Live(sm'[s], Awaits(s)')
    BY <1>6 DEF Live, Renewing
  <1>11. ApOK(sm'[s], Awaits(s)', b, supp[s], air[s], Counter, e, K)
    BY <1>2, <1>3, <1>4, <1>6, <1>7, <1>8, <1>9, <1>10, ResetOK
  <1>12. AirOK(supp[s], air[s], Counter, GTKNonce, e, K)
    BY <1>1 DEF Holds
  <1> QED
    BY <1>5, <1>6, <1>11, <1>12, StepSame

\* The Association Response.
LEMMA AssociateStep ==
    ASSUME TypeOK, LoopInv, DataTypeOK, KeysInv, NEW s \in STA, handle_assoc_cb(s),
           sm'[s].group = sm[s].group,
           auth' = [auth EXCEPT ![s] = RemovePTK(@)],
           supp' = [supp EXCEPT ![s] = wpa_sm_notify_assoc(@)],
           air' = [air EXCEPT ![s] = {f \in @ : f.msg \in StaleFrames}], gk' = gk
    PROVE  KeysInv'
  <1> DEFINE b == RemovePTK(auth[s])
             v == wpa_sm_notify_assoc(supp[s])
             B == {f \in air[s] : f.msg \in StaleFrames}
  <1>1. PICK e \in 1..Counter, K \in SUBSET Keys : Holds(s, e, K)
    BY StationEpoch
  <1>2. /\ auth[s] \in ApData /\ supp[s] \in SuppData /\ air[s] \in SUBSET Frames
        /\ Counter \in Nat /\ GTKNonce \in Nat
    BY StationEpoch
  <1>3. b \in ApData /\ v \in SuppData /\ B \in SUBSET air[s]
    <2>1. Frame("1/4", 0, 0, NoKey, NoKey) \in Frames
      BY FrameType, NoKeyType
    <2> QED
      BY <1>2, <2>1, ApDataType, SuppDataType
  <1>4. b.PTK = NoKey /\ b.ANonce = auth[s].ANonce /\ b.last = auth[s].last
    BY <1>2 DEF RemovePTK, ApData
  <1>5. /\ v.last = supp[s].last /\ v.snonce = supp[s].snonce /\ v.gtk = supp[s].gtk
        /\ v.renew_snonce /\ v.tptk = NoKey /\ v.ptk = NoKey
    BY <1>2 DEF wpa_sm_notify_assoc, SuppData
  <1>6. /\ auth'[s] = b /\ supp'[s] = v /\ air'[s] = B
        /\ \A u \in STA \ {s} : auth'[u] = auth[u] /\ supp'[u] = supp[u] /\ air'[u] = air[u]
    BY DEF DataTypeOK
  <1> HIDE DEF b, v, B
  <1>7. /\ About(s) /\ Awaits(s) = FALSE /\ Awaits(s)' = TRUE
        /\ sm'[s].group = sm[s].group /\ ~sm'[s].PTKRequest /\ ~sm'[s].PTK_valid
        /\ ~sm'[s].pairwise_set /\ (Derived(sm'[s]) => Derived(sm[s]))
        /\ sm'[s].EAPOLKey # "PAIRWISE"
    BY AssocMoves
  <1>8. /\ AirOK(supp[s], air[s], Counter, GTKNonce, e, K)
        /\ ApOK(sm[s], Awaits(s), auth[s], supp[s], air[s], Counter, e, K)
    BY <1>1 DEF Holds
  <1>9. /\ AirOK(v, B, Counter, GTKNonce, Counter, K)
        /\ ApOK(sm'[s], Awaits(s)', b, v, B, Counter, Counter, K)
    <2> DEFINE m == sm[s]
               n == sm'[s]
               w == Awaits(s)
               x == Awaits(s)'
               a == auth[s]
               u == supp[s]
               A == air[s]
               C == Counter
               G == GTKNonce
    <2>1. /\ a \in ApData /\ u \in SuppData /\ A \in SUBSET Frames /\ C \in Nat
          /\ G \in Nat /\ e \in 1..C /\ b \in ApData /\ v \in SuppData
          /\ B \in SUBSET A /\ K \in SUBSET Keys
      BY <1>2, <1>3
    <2>2. b.PTK = NoKey /\ b.ANonce = a.ANonce /\ b.last = a.last
      BY <1>4
    <2>3. /\ v.last = u.last /\ v.snonce = u.snonce /\ v.gtk = u.gtk
          /\ v.renew_snonce /\ v.tptk = NoKey /\ v.ptk = NoKey
      BY <1>5
    <2>4. /\ x /\ n.group = m.group /\ ~n.PTKRequest /\ ~n.PTK_valid /\ ~n.pairwise_set
          /\ (Derived(n) => Derived(m)) /\ n.EAPOLKey # "PAIRWISE"
      BY <1>7
    <2>5. AirOK(u, A, C, G, e, K) /\ ApOK(m, w, a, u, A, C, e, K)
      BY <1>8
    <2> HIDE DEF m, n, w, x, a, u, A, C, G
    <2>6. AirOK(v, B, C, G, C, K) /\ ApOK(n, x, b, v, B, C, C, K)
      BY <2>1, <2>2, <2>3, <2>4, <2>5, AssociateOK, ZenonT(40)
    <2> QED
      BY <2>6 DEF n, x, C, G
  <1>10. Counter \in 1..Counter
    BY <1>2
  <1> QED
    BY <1>6, <1>7, <1>9, <1>10, StepSame

\* AUTHENTICATION2 takes the ANonce, and the first station's a new GTK before it.
LEMMA Auth2Step ==
    ASSUME TypeOK, LoopInv, EarlyInv, DataTypeOK, KeysInv, NEW s \in STA,
           NEW ready \in BOOLEAN, HAuthentication2(s, ready)
    PROVE  KeysInv'
  <1> DEFINE g == DefaultGroup
             k == IF group[g].first_sta_seen THEN gk[g] ELSE wpa_gtk_update(gk[g])
             b == [auth[s] EXCEPT !.ANonce = k.Counter]
  <1>1. PICK e \in 1..Counter, K \in SUBSET Keys : Holds(s, e, K)
    BY StationEpoch
  <1>2. /\ auth[s] \in ApData /\ supp[s] \in SuppData /\ air[s] \in SUBSET Frames
        /\ Counter \in Nat /\ GTKNonce \in Nat /\ GTKNonce < Counter
        /\ gk[g] \in GroupKeys /\ g \in DOMAIN gk
    BY StationEpoch, DefaultGroupType DEF DataTypeOK
  <1>3. /\ AirOK(supp[s], air[s], Counter, GTKNonce, e, K)
        /\ ApOK(sm[s], Awaits(s), auth[s], supp[s], air[s], Counter, e, K)
    BY <1>1 DEF Holds
  <1>4. sm[s].group = g
    BY <1>3 DEF ApOK, EpochOK
  <1>5. /\ k \in GroupKeys /\ Counter <= k.Counter
        /\ GTKNonce <= k.GTK[k.GN] /\ k.GTK[k.GN] < k.Counter
    <2>1. CASE group[g].first_sta_seen
      BY <1>2, <2>1 DEF Counter, GTKNonce
    <2>2. CASE ~group[g].first_sta_seen
      <3>1. wpa_gtk_update(gk[g]) \in GroupKeys
        BY <1>2, GroupKeysType
      <3> QED
        BY <1>2, <2>2, <3>1 DEF Counter, GTKNonce, wpa_gtk_update, GroupKeys
    <2> QED
      BY <2>1, <2>2
  <1>6. /\ PTK_AUTHENTICATION2(s, ready) /\ supp' = supp /\ air' = air
        /\ gk'[g] = [k EXCEPT !.Counter = @ + 1] /\ auth'[s] = b
        /\ \A u \in STA \ {s} : auth'[u] = auth[u]
    BY <1>2, <1>4 DEF HAuthentication2, DataTypeOK
  <1> HIDE DEF k
  <1>7. k.Counter \in Nat /\ k.GTK[k.GN] \in Nat
    BY <1>5 DEF GroupKeys
  <1>8. b \in ApData /\ b.ANonce = k.Counter /\ b.PTK = auth[s].PTK /\ b.last = auth[s].last
    <2>1. b \in ApData
      BY <1>2, <1>7, ApDataType
    <2> QED
      BY <1>2, <1>7, <2>1, SMTT(30) DEF ApData
  <1>9. Counter' = k.Counter + 1 /\ GTKNonce' = k.GTK[k.GN]
    BY <1>5, <1>6 DEF Counter, GTKNonce, GroupKeys
  <1>10. /\ About(s) /\ Renewing(sm[s], Awaits(s)) /\ ~Renewing(sm'[s], Awaits(s)')
         /\ sm'[s].group = sm[s].group /\ ~sm'[s].PTK_valid
         /\ sm'[s].wpa_ptk_state = "AUTHENTICATION2" /\ sm'[s].EAPOLKey # "PAIRWISE"
    BY <1>6, Auth2Moves
  <1> HIDE DEF b, g
  <1>11. PICK c \in Nat, H \in Nat :
           /\ Counter <= c /\ GTKNonce <= H /\ H < c
           /\ b.ANonce = c /\ Counter' = c + 1 /\ GTKNonce' = H
    BY <1>5, <1>7, <1>8, <1>9
  <1>12. /\ AirOK(supp[s], air[s], c + 1, H, c, K)
         /\ ApOK(sm'[s], Awaits(s)', b, supp[s], air[s], c + 1, c, K)
    BY <1>2, <1>3, <1>8, <1>10, <1>11, NewNonceOK
  <1>13. c \in 1..(c + 1)
    <2>1. Counter >= 1
      BY <1>2
    <2> QED
      BY <1>2, <1>11, <2>1
  <1>14. Holds(s, c, K)'
    BY <1>6, <1>11, <1>12, <1>13 DEF Holds
  <1>15. StationKeysInv(s)'
    BY <1>14, EpochStation
  <1>16. /\ Counter' \in Nat /\ GTKNonce' \in Nat /\ Counter <= Counter'
         /\ GTKNonce <= GTKNonce' /\ GTKNonce' < Counter'
    BY <1>2, <1>11
  <1> QED
    BY <1>6, <1>10, <1>15, <1>16, StepConcludes

\* The group key that the AP's frames for s carry.
LEMMA CurrentGTK ==
    ASSUME TypeOK, DataTypeOK, KeysInv, NEW s \in STA
    PROVE  GTK(s) \in Keys /\ GTK(s) # NoKey /\ GTK(s)[2] = GTKNonce
  <1>1. PICK e \in 1..Counter, K \in SUBSET Keys : Holds(s, e, K)
    BY StationEpoch
  <1>2. sm[s].group = DefaultGroup
    BY <1>1 DEF Holds, ApOK, EpochOK
  <1>3. GTK(s) \in Keys /\ GTK(s)[1] \in 1..2
    BY GTKType
  <1>4. GTK(s) # NoKey
    BY <1>3, NoKeyParts
  <1> QED
    BY <1>2, <1>3, <1>4 DEF GTK, GTKNonce

\* Frames of the AP: sent, counted only, or neither.
LEMMA SendStep ==
    ASSUME TypeOK, DataTypeOK, KeysInv, NEW s \in STA, Asksless(s),
           NEW msg \in {"1/4", "3/4", "1/2"}, NEW nonce \in Nat, NEW gtk \in Keys,
           SendOrNot(s, msg, nonce, gtk),
           msg = "1/4" => sm'[s].wpa_ptk_state = "PTKSTART",
           msg # "1/2" => nonce = auth[s].ANonce, msg = "1/2" => gtk # NoKey,
           gtk = NoKey \/ gtk[2] = GTKNonce
    PROVE  KeysInv'
  <1> DEFINE m == sm[s]
             n == sm'[s]
             w == Awaits(s)
             x == Awaits(s)'
             a == auth[s]
             u == supp[s]
             A == air[s]
             C == Counter
             G == GTKNonce
             b == NextReplayCounter(a)
             k == IF msg = "1/4" THEN NoKey ELSE b.PTK
             f == Frame(msg, b.counter, nonce, k, gtk)
  <1>1. PICK e \in 1..Counter, K \in SUBSET Keys : Holds(s, e, K)
    BY StationEpoch
  <1>2. /\ a \in ApData /\ u \in SuppData /\ A \in SUBSET Frames
        /\ C \in Nat /\ G \in Nat
    BY StationEpoch
  <1>3. AirOK(u, A, C, G, e, K) /\ ApOK(m, w, a, u, A, C, e, K)
    BY <1>1 DEF Holds
  <1>4. About(s) /\ Weaker(m, w, n, x) /\ n.EAPOLKey # "PAIRWISE"
    BY DEF Asksless
  <1>5. supp' = supp /\ gk' = gk
    BY DEF SendOrNot
  <1>6. b \in ApData /\ b.PTK = a.PTK
    BY <1>2, ApDataType
  <1>7. /\ f \in Frames /\ f.msg = msg /\ f.rc = b.counter /\ f.nonce = nonce
        /\ f.gtk = gtk /\ (msg # "1/4" => f.mic = a.PTK)
    <2>1. b.counter \in Nat /\ b.PTK \in Keys
      BY <1>6 DEF ApData
    <2>2. k \in Keys /\ (msg # "1/4" => k = a.PTK)
      BY <1>6, <2>1, NoKeyType
    <2> HIDE DEF b, k
    <2>3. msg \in {"1/4", "2/4", "3/4", "4/4", "1/2", "2/2"}
      OBVIOUS
    <2>4. PICK r \in Nat : r = b.counter
      BY <2>1
    <2> QED
      BY <2>2, <2>3, <2>4 DEF Frame, Frames
  <1>8. CASE ~Sends(s)
    <2>1. auth' = auth /\ air' = air
      BY <1>8 DEF SendOrNot
    <2>2. ApOK(n, x, a, u, A, C, e, K)
      BY <1>3, <1>4, QuietOK
    <2> QED
      BY <1>3, <1>4, <1>5, <2>1, <2>2, StepSame
  <1>9. CASE Sends(s)
    <2>1. /\ auth'[s] = b /\ \A i \in STA \ {s} : auth'[i] = auth[i] /\ air'[i] = air[i]
          /\ air'[s] = IF msg = "1/4" \/ m.PTK_valid THEN A \cup {f} ELSE A
      BY <1>9 DEF SendOrNot, __wpa_send_eapol, DataTypeOK
    <2>2. ASSUME NEW B, NEW L \in SUBSET Keys, air'[s] = B,
                 AirOK(u, B, C, G, e, L) /\ ApOK(n, x, b, u, B, C, e, L)
          PROVE  KeysInv'
      BY <1>4, <1>5, <2>1, <2>2, StepSame
    <2>3. e \in Nat /\ e \in 1..C
      BY <1>2
    <2>4. f.rc = NextReplayCounter(a).counter
      BY <1>7
    <2>5. ApOK(n, x, b, u, A, C, e, K)
      BY <1>2, <1>3, <1>4, CountOK
    <2>6. CASE msg = "1/4"
      <3>1. f.msg = "1/4" /\ n.wpa_ptk_state = "PTKSTART" /\ f.nonce = a.ANonce
        BY <1>7, <2>6
      <3>2. b = NextReplayCounter(a)
        OBVIOUS
      <3> HIDE DEF m, n, w, x, a, u, A, C, G, b, f
      <3>3. AirOK(u, A \cup {f}, C, G, e, K) /\ ApOK(n, x, b, u, A \cup {f}, C, e, K)
        BY <1>2, <1>3, <1>4, <1>7, <2>3, <2>4, <3>1, <3>2, Send1OK
      <3> QED
        BY <2>1, <2>2, <2>6, <3>3
    <2>7. CASE msg # "1/4" /\ m.PTK_valid
      <3>1. a.PTK # NoKey /\ a.PTK \in Keys
        BY <1>2, <1>3, <2>7 DEF ApOK, ApKeyOK, ApData
      <3>2. /\ ByAP(f) /\ f.mic = a.PTK /\ (f.msg = "3/4" => f.nonce = a.ANonce)
            /\ (f.msg = "1/2" => f.gtk # NoKey) /\ (f.gtk = NoKey \/ f.gtk[2] = G)
        BY <1>7, <2>7 DEF ByAP
      <3>3. b = NextReplayCounter(a)
        OBVIOUS
      <3> HIDE DEF m, n, w, x, a, u, A, C, G, b, f
      <3>4. /\ AirOK(u, A \cup {f}, C, G, e, K \cup {a.PTK})
            /\ ApOK(n, x, b, u, A \cup {f}, C, e, K \cup {a.PTK})
        BY <1>2, <1>3, <1>4, <1>7, <2>3, <2>4, <3>1, <3>2, <3>3, SendKeyOK
      <3>5. K \cup {a.PTK} \in SUBSET Keys /\ air'[s] = A \cup {f}
        BY <2>1, <2>7, <3>1
      <3> QED
        BY <2>2, <3>4, <3>5
    <2>8. CASE msg # "1/4" /\ ~m.PTK_valid
      BY <1>3, <2>1, <2>2, <2>5, <2>8
    <2> QED
      BY <2>6, <2>7, <2>8
  <1> QED
    BY <1>8, <1>9

\* The machines' states that send.
LEMMA SendSteps ==
    ASSUME TypeOK, LoopInv, EarlyInv, DataTypeOK, KeysInv, NEW s \in STA,
           \/ PTK_PTKSTART(s) /\ SendOrNot(s, "1/4", auth[s].ANonce, NoKey)
           \/ /\ PTK_PTKINITNEGOTIATING(s)
              /\ SendOrNot(s, "3/4", auth[s].ANonce,
                           IF Version[s] = "WPA2" THEN GTK(s) ELSE NoKey)
           \/ GROUP_REKEYNEGOTIATING(s) /\ SendOrNot(s, "1/2", 0, GTK(s))
    PROVE  KeysInv' /\ About(s)
  <1>1. /\ auth[s].ANonce \in Nat /\ GTK(s) \in Keys /\ GTK(s) # NoKey
        /\ GTK(s)[2] = GTKNonce /\ NoKey \in Keys
    BY StationEpoch, CurrentGTK, NoKeyType DEF ApData
  <1>2. CASE PTK_PTKSTART(s) /\ SendOrNot(s, "1/4", auth[s].ANonce, NoKey)
    <2>1. Asksless(s) /\ sm'[s].wpa_ptk_state = "PTKSTART"
      BY <1>2, PtkAsks, PtkMoves DEF PtkMove
    <2>2. KeysInv'
      BY <1>1, <1>2, <2>1, SendStep
    <2> QED
      BY <2>1, <2>2 DEF Asksless
  <1>3. CASE /\ PTK_PTKINITNEGOTIATING(s)
             /\ SendOrNot(s, "3/4", auth[s].ANonce,
                          IF Version[s] = "WPA2" THEN GTK(s) ELSE NoKey)
    <2>1. Asksless(s)
      BY <1>3, PtkAsks
    <2> DEFINE k == IF Version[s] = "WPA2" THEN GTK(s) ELSE NoKey
    <2>2. k \in Keys /\ (k = NoKey \/ k[2] = GTKNonce) /\ SendOrNot(s, "3/4", auth[s].ANonce, k)
      BY <1>1, <1>3
    <2> HIDE DEF k
    <2>3. KeysInv'
      BY <1>1, <2>1, <2>2, SendStep
    <2> QED
      BY <2>1, <2>3 DEF Asksless
  <1>4. CASE GROUP_REKEYNEGOTIATING(s) /\ SendOrNot(s, "1/2", 0, GTK(s))
    <2>1. Asksless(s)
      BY <1>4, GroupAsks
    <2>2. KeysInv'
      BY <1>1, <1>4, <2>1, SendStep
    <2> QED
      BY <2>1, <2>2 DEF Asksless
  <1> QED
    BY <1>2, <1>3, <1>4

\* PTKCALCNEGOTIATING derives the PTK or keeps what there was.
LEMMA CalcStep ==
    ASSUME TypeOK, LoopInv, EarlyInv, DataTypeOK, KeysInv, NEW s \in STA,
           HPtkCalcNegotiating(s)
    PROVE  KeysInv' /\ About(s)
  <1> DEFINE m == sm[s]
             n == sm'[s]
             a == auth[s]
             u == supp[s]
             A == air[s]
             C == Counter
             G == GTKNonce
             ptk == <<a.ANonce, a.SNonce>>
             ok == a.mic = ptk
             b == [a EXCEPT !.PTK = ptk]
  <1>1. PICK e \in 1..Counter, K \in SUBSET Keys : Holds(s, e, K)
    BY StationEpoch
  <1>2. /\ a \in ApData /\ u \in SuppData /\ A \in SUBSET Frames
        /\ C \in Nat /\ G \in Nat /\ e \in 1..C
    BY StationEpoch
  <1>3. AirOK(u, A, C, G, e, K) /\ ApOK(m, Awaits(s), a, u, A, C, e, K)
    BY <1>1 DEF Holds
  <1>4. ok \in BOOLEAN /\ PTK_PTKCALCNEGOTIATING(s, ok)
        /\ AuthOnly(s, IF ok THEN b ELSE a)
    BY DEF HPtkCalcNegotiating
  <1>5. supp' = supp /\ air' = air /\ gk' = gk
    BY <1>4 DEF AuthOnly
  <1> HIDE DEF ok
  <1>6. /\ About(s) /\ Awaits(s) = FALSE /\ Awaits(s)' = FALSE
        /\ Live(m, FALSE) /\ m.EAPOLKey = "PAIRWISE"
        /\ m.wpa_ptk_state \in {"PTKSTART", "PTKCALCNEGOTIATING"}
        /\ m.wpa_ptk_state = "PTKCALCNEGOTIATING" => ~m.MICVerified
        /\ n.group = m.group /\ (n.PTKRequest <=> m.PTKRequest)
        /\ n.wpa_ptk_state = "PTKCALCNEGOTIATING"
        /\ Renewing(n, FALSE) => Renewing(m, FALSE)
        /\ n.EAPOLKey # "PAIRWISE"
    BY <1>4, CalcMoves
  <1>7. CASE ok
    <2>1. auth'[s] = b /\ \A i \in STA \ {s} : auth'[i] = auth[i]
      BY <1>4, <1>7 DEF AuthOnly, DataTypeOK
    <2>2. a.mic = <<a.ANonce, a.SNonce>>
      BY <1>7 DEF ok
    <2>3. ApOK(m, FALSE, a, u, A, C, e, K)
      BY <1>3, <1>6
    <2>4. ApOK(n, FALSE, b, u, A, C, e, K)
      <3> HIDE DEF m, n, a, u, A, C
      <3> QED
        BY <1>2, <1>6, <2>2, <2>3, CalcOK
    <2>5. ApOK(n, Awaits(s)', b, u, A, C, e, K)
      BY <1>6, <2>4
    <2> HIDE DEF b
    <2> QED
      BY <1>3, <1>5, <1>6, <2>1, <2>5, StepSame
  <1>8. CASE ~ok
    <2>1. ok = FALSE
      BY <1>4, <1>8
    <2>2. PTK_PTKCALCNEGOTIATING(s, FALSE) /\ UNCHANGED data
      <3>1. AuthOnly(s, a)
        BY <1>4, <1>8
      <3>2. auth' = auth
        BY <3>1 DEF AuthOnly, DataTypeOK
      <3> QED
        BY <1>4, <1>5, <2>1, <3>2 DEF data
    <2>3. ~m.MICVerified
      BY <1>3, <1>6 DEF ApOK, ReceivedOK
    <2>4. Asksless(s)
      BY <2>2, <2>3, PtkAsks
    <2> QED
      BY <1>6, <2>2, <2>4, QuietStep
  <1> QED
    BY <1>6, <1>7, <1>8

\* PTKINITDONE gives the driver the key that the station has.
LEMMA DoneStep ==
    ASSUME TypeOK, LoopInv, EarlyInv, DataTypeOK, KeysInv, NEW s \in STA,
           NEW ok \in BOOLEAN, HPtkInitDone(s, ok)
    PROVE  /\ KeysInv' /\ About(s)
           /\ ok => /\ auth[s].PTK = supp[s].last
                    /\ auth[s].last[1] <= auth[s].PTK[1]
                    /\ auth[s].last[2] < auth[s].PTK[2]
  <1> DEFINE m == sm[s]
             n == sm'[s]
             a == auth[s]
             u == supp[s]
             A == air[s]
             C == Counter
             G == GTKNonce
             b == [a EXCEPT !.key = a.PTK, !.last = a.PTK, !.times = @ + 1]
  <1>1. PICK e \in 1..Counter, K \in SUBSET Keys : Holds(s, e, K)
    BY StationEpoch
  <1>2. /\ a \in ApData /\ u \in SuppData /\ A \in SUBSET Frames
        /\ C \in Nat /\ G \in Nat /\ e \in 1..C
    BY StationEpoch
  <1>3. AirOK(u, A, C, G, e, K) /\ ApOK(m, Awaits(s), a, u, A, C, e, K)
    BY <1>1 DEF Holds
  <1>4. PTK_PTKINITDONE(s, ok) /\ AuthOnly(s, IF ok THEN b ELSE a)
    BY DEF HPtkInitDone
  <1>5. supp' = supp /\ air' = air /\ gk' = gk
    BY <1>4 DEF AuthOnly
  <1>6. CASE ok
    <2>0. ok = TRUE
      BY <1>6
    <2>1. auth'[s] = b /\ \A i \in STA \ {s} : auth'[i] = auth[i]
      BY <1>4, <1>6 DEF AuthOnly, DataTypeOK
    <2>2. /\ About(s) /\ Awaits(s) = FALSE /\ Awaits(s)' = FALSE
          /\ Live(m, FALSE) /\ m.EAPOLKey = "PAIRWISE"
          /\ m.wpa_ptk_state = "PTKINITNEGOTIATING"
          /\ n.group = m.group /\ (n.PTKRequest <=> m.PTKRequest)
          /\ n.PTK_valid => m.PTK_valid
          /\ n.wpa_ptk_state = "PTKINITDONE"
          /\ Renewing(n, FALSE) => Renewing(m, FALSE)
          /\ n.EAPOLKey # "PAIRWISE"
      BY <1>4, <2>0, DoneMoves
    <2>3. ApOK(m, FALSE, a, u, A, C, e, K)
      BY <1>3, <2>2
    <2>4. /\ a.PTK = u.last /\ a.last[1] <= a.PTK[1] /\ a.last[2] < a.PTK[2]
          /\ ApOK(n, FALSE, b, u, A, C, e, K)
      <3> HIDE DEF m, n, a, u, A, C
      <3> QED
        BY <1>2, <2>2, <2>3, InitDoneOK
    <2>5. ApOK(n, Awaits(s)', b, u, A, C, e, K)
      BY <2>2, <2>4
    <2> HIDE DEF b
    <2>6. KeysInv'
      BY <1>3, <1>5, <2>1, <2>2, <2>5, StepSame
    <2> QED
      BY <2>2, <2>4, <2>6
  <1>7. CASE ~ok
    <2>1. ok = FALSE
      BY <1>7
    <2>2. PTK_PTKINITDONE(s, FALSE) /\ UNCHANGED data
      <3>1. AuthOnly(s, a)
        BY <1>4, <1>7
      <3>2. auth' = auth
        BY <3>1 DEF AuthOnly, DataTypeOK
      <3> QED
        BY <1>4, <1>5, <2>1, <3>2 DEF data
    <2>3. Asksless(s)
      BY <2>2, PtkAsks
    <2>4. KeysInv'
      BY <2>2, <2>3, QuietStep
    <2> QED
      BY <1>7, <2>3, <2>4 DEF Asksless
  <1> QED
    BY <1>6, <1>7

\* A frame that is accepted.
LEMMA AcceptStep ==
    ASSUME TypeOK, LoopInv, DataTypeOK, KeysInv, NEW s \in STA, NEW f \in air[s],
           NEW msg \in DOMAIN Kind, Arrives(s, f, msg),
           sm[s].PTK_valid => f.mic = auth[s].PTK, wpa_receive_key(s, Kind[msg]),
           AuthOnly(s, [auth[s] EXCEPT !.pending = 0, !.mic = f.mic, !.SNonce = f.nonce])
    PROVE  KeysInv' /\ About(s)
  <1> DEFINE m == sm[s]
             n == sm'[s]
             a == auth[s]
             u == supp[s]
             A == air[s]
             C == Counter
             G == GTKNonce
             b == [a EXCEPT !.pending = 0, !.mic = f.mic, !.SNonce = f.nonce]
             kind == Kind[msg]
  <1>1. PICK e \in 1..Counter, K \in SUBSET Keys : Holds(s, e, K)
    BY StationEpoch
  <1>2. /\ a \in ApData /\ u \in SuppData /\ A \in SUBSET Frames
        /\ C \in Nat /\ G \in Nat /\ e \in 1..C /\ e \in Nat /\ f \in A
    BY StationEpoch
  <1>3. AirOK(u, A, C, G, e, K) /\ ApOK(m, Awaits(s), a, u, A, C, e, K)
    BY <1>1 DEF Holds
  <1>4. /\ supp' = supp /\ air' = air /\ gk' = gk /\ auth'[s] = b
        /\ \A i \in STA \ {s} : auth'[i] = auth[i]
    BY DEF AuthOnly, DataTypeOK
  <1>5. /\ f.msg = msg /\ wpa_replay_counter_valid(a, f.rc)
        /\ \/ msg = "2/4" /\ kind = "PAIRWISE_2"
           \/ msg = "4/4" /\ kind = "PAIRWISE_4"
           \/ msg = "2/2" /\ kind = "GROUP_2"
    BY DEF Arrives, Kind
  <1>6. /\ About(s) /\ Awaits(s) = FALSE /\ Awaits(s)' = FALSE
        /\ ~Renewing(m, FALSE) /\ ~Renewing(n, FALSE)
        /\ n.group = m.group /\ (n.PTKRequest <=> m.PTKRequest)
        /\ n.wpa_ptk_state = m.wpa_ptk_state
        /\ n.PTK_valid = m.PTK_valid
        /\ kind = "PAIRWISE_2" =>
             /\ Live(m, FALSE) /\ ~n.MICVerified
             /\ m.wpa_ptk_state \in {"PTKSTART", "PTKCALCNEGOTIATING"}
             /\ n.EAPOLKey = "PAIRWISE"
        /\ kind = "PAIRWISE_4" =>
             /\ m.wpa_ptk_state = "PTKINITNEGOTIATING" /\ m.PTK_valid
             /\ n.EAPOLKey = "PAIRWISE"
        /\ kind = "GROUP_2" => Weaker(m, FALSE, n, FALSE) /\ n.EAPOLKey # "PAIRWISE"
    <2>1. kind \in {"PAIRWISE_2", "PAIRWISE_4", "GROUP_2"} /\ wpa_receive_key(s, kind)
      BY <1>5
    <2> HIDE DEF kind
    <2> QED
      BY <2>1, ReceiveMoves
  <1>7. ApOK(m, FALSE, a, u, A, C, e, K)
    BY <1>3, <1>6
  <1>8. m.PTK_valid => f.mic = a.PTK
    OBVIOUS
  <1> HIDE DEF m, n, a, u, A, C, G, kind
  <1>9. ApOK(n, FALSE, b, u, A, C, e, K)
    <2>1. CASE kind = "PAIRWISE_2"
      BY <1>2, <1>3, <1>5, <1>6, <1>7, <2>1, Receive2OK
    <2>2. CASE kind = "PAIRWISE_4"
      BY <1>2, <1>3, <1>5, <1>6, <1>7, <1>8, <2>2, Receive4OK
    <2>3. CASE kind = "GROUP_2"
      BY <1>2, <1>6, <1>7, <2>3, Receive22OK
    <2> QED
      BY <1>5, <2>1, <2>2, <2>3
  <1> HIDE DEF b
  <1>10. ApOK(sm'[s], Awaits(s)', auth'[s], supp[s], air[s], Counter, e, K)
    BY <1>4, <1>6, <1>9 DEF n, u, A, C
  <1>11. AirOK(supp[s], air[s], Counter, GTKNonce, e, K)
    BY <1>3 DEF u, A, C, G
  <1>12. KeysInv'
    BY <1>4, <1>6, <1>10, <1>11, StepSame
  <1> QED
    BY <1>6, <1>12

\* Within an association the station does not go back to an older GTK, and the
\* key of its driver is only replaced by a newer one.
Forward(u, v) ==
    /\ u.joined /\ v.joined => v.gtk[2] >= u.gtk[2]
    /\ Follows(v.last, u.last)

\* The station.
LEMMA SupplicantStep ==
    ASSUME TypeOK, LoopInv, DataTypeOK, KeysInv, NEW s \in STA, HSupplicant(s)
    PROVE  /\ KeysInv' /\ About(s) /\ Forward(supp[s], supp'[s])
           /\ \A i \in STA \ {s} : supp'[i] = supp[i]
           /\ UNCHANGED <<auth, gk>>
  <1> DEFINE m == sm[s]
             a == auth[s]
             u == supp[s]
             A == air[s]
             C == Counter
             G == GTKNonce
  <1>1. PICK e \in 1..Counter, K \in SUBSET Keys : Holds(s, e, K)
    BY StationEpoch
  <1>2. /\ a \in ApData /\ u \in SuppData /\ A \in SUBSET Frames
        /\ C \in Nat /\ G \in Nat /\ e \in 1..C
    BY StationEpoch
  <1>3. pc = "idle" /\ UNCHANGED <<vars, auth, gk>>
    BY DEF HSupplicant
  <1>4. sm' = sm /\ auth' = auth /\ gk' = gk /\ caller' = caller /\ cont' = cont
    BY <1>3 DEF vars, stack
  <1>5. /\ Awaits(s) = FALSE /\ Awaits(s)' = FALSE /\ About(s)
        /\ ~Renewing(m, FALSE) /\ m.EAPOLKey # "PAIRWISE"
    <2>1. \A i \in STA : ~Awaits(i)
      BY <1>3, IdleMachine
    <2>2. \A i \in STA : Awaits(i)' <=> Awaits(i)
      BY <1>4 DEF Awaits
    <2>3. Awaits(s) \in BOOLEAN /\ Awaits(s)' \in BOOLEAN
      BY DEF Awaits
    <2> QED
      BY <1>3, <1>4, <2>1, <2>2, <2>3, IdleMachine DEF About, EarlyOK
  <1>6. AirOK(u, A, C, G, e, K) /\ ApOK(m, FALSE, a, u, A, C, e, K)
    BY <1>1, <1>5 DEF Holds
  <1>7. ASSUME NEW v, NEW B, supp' = [supp EXCEPT ![s] = v], air' = [air EXCEPT ![s] = B],
               AirOK(v, B, C, G, e, K), ApOK(m, FALSE, a, v, B, C, e, K), Forward(u, v)
        PROVE  KeysInv' /\ Forward(u, supp'[s]) /\ \A i \in STA \ {s} : supp'[i] = supp[i]
    <2>1. /\ supp'[s] = v /\ air'[s] = B
          /\ \A i \in STA \ {s} : supp'[i] = supp[i] /\ air'[i] = air[i] /\ auth'[i] = auth[i]
      BY <1>4, <1>7 DEF DataTypeOK
    <2>2. /\ AirOK(supp'[s], air'[s], Counter, GTKNonce, e, K)
          /\ ApOK(sm'[s], Awaits(s)', auth'[s], supp'[s], air'[s], Counter, e, K)
      BY <1>4, <1>5, <1>7, <2>1
    <2>3. KeysInv'
      BY <1>4, <1>5, <2>1, <2>2, StepSame
    <2> QED
      BY <1>7, <2>1, <2>3
  <1>8. KeysInv' /\ Forward(u, supp'[s]) /\ \A i \in STA \ {s} : supp'[i] = supp[i]
    <2>1. CASE Leave(s)
      <3> DEFINE v == wpa_supplicant_event_disassoc(u)
      <3>1. v \in SuppData
        <4>1. Frame("1/4", 0, 0, NoKey, NoKey) \in Frames
          BY FrameType, NoKeyType
        <4> QED
          BY <1>2, <4>1, SuppDataType
      <3>2. AirOK(v, A, C, G, e, K) /\ ApOK(m, FALSE, a, v, A, C, e, K)
        <4> HIDE DEF m, a, u, A, C, G
        <4> QED
          BY <1>2, <1>5, <1>6, <3>1, LeaveOK
      <3>3. Forward(u, v)
        BY <1>2 DEF Forward, Follows, wpa_supplicant_event_disassoc, SuppData
      <3>4. supp' = [supp EXCEPT ![s] = v] /\ air' = [air EXCEPT ![s] = A]
        BY <2>1 DEF Leave, DataTypeOK
      <3> HIDE DEF v
      <3> QED
        BY <1>7, <3>2, <3>3, <3>4
    <2>2. ASSUME NEW f \in A, wpa_supplicant_process_1_of_4(s, f)
          PROVE  KeysInv' /\ Forward(u, supp'[s]) /\ \A i \in STA \ {s} : supp'[i] = supp[i]
      <3> DEFINE n == IF u.renew_snonce THEN u.snonce + 1 ELSE u.snonce
                 k == <<f.nonce, n>>
                 v == [u EXCEPT !.snonce = n, !.renew_snonce = FALSE,
                                !.tptk = k, !.anonce = f.nonce]
                 g == Frame("2/4", f.rc, n, k, NoKey)
      <3>1. /\ f.msg = "1/4" /\ supp' = [supp EXCEPT ![s] = v]
            /\ air' = [air EXCEPT ![s] = A \cup {g}]
        BY <2>2 DEF wpa_supplicant_process_1_of_4, Receives, Reply
      <3>2. n \in Nat /\ f.nonce \in Nat /\ f.rc \in Nat /\ f \in Frames
        BY <1>2 DEF SuppData, Frames
      <3>3. k \in Keys
        BY <3>2 DEF Keys
      <3>4. v \in SuppData
        <4> HIDE DEF n
        <4> QED
          BY <1>2, <3>2, SuppDataType
      <3>5. /\ v.snonce = n /\ ~v.renew_snonce /\ v.tptk = k
            /\ v.anonce = f.nonce /\ v.ptk = u.ptk /\ v.last = u.last /\ v.key = u.key
            /\ v.gtk = u.gtk /\ v.rx = u.rx /\ v.joined = u.joined
        BY <1>2, <3>2 DEF SuppData
      <3>6. g \in Frames /\ g.msg = "2/4" /\ g.rc = f.rc /\ g.nonce = n /\ g.mic = k
        <4> HIDE DEF n, k
        <4> QED
          BY <3>2, <3>3, NoKeyType DEF Frame, Frames
      <3>7. v.tptk = <<f.nonce, n>> /\ g.mic = <<f.nonce, n>>
        BY <3>5, <3>6
      <3>8. n = IF u.renew_snonce THEN u.snonce + 1 ELSE u.snonce
        OBVIOUS
      <3> HIDE DEF n, k, v, g
      <3>9. AirOK(v, A \cup {g}, C, G, e, K) /\ ApOK(m, FALSE, a, v, A \cup {g}, C, e, K)
        <4> HIDE DEF m, a, u, A, C, G
        <4> QED
          BY <1>2, <1>5, <1>6, <3>1, <3>2, <3>4, <3>5, <3>6, <3>7, <3>8, Process1OK
      <3>10. Forward(u, v)
        BY <1>2, <3>5, KeyParts DEF Forward, Follows, SuppData
      <3> QED
        BY <1>7, <3>1, <3>9, <3>10
    <2>3. ASSUME NEW f \in A, NEW msg \in {"3/4", "1/2"}, Receives(s, f, msg)
          PROVE  LET v == wpa_supplicant_verify_eapol_key_mic(u, f)
                 IN  /\ AirOK(v, A, C, G, e, K) /\ ApOK(m, FALSE, a, v, A, C, e, K)
                     /\ Verified(u, f, v, e)
                     /\ v \in SuppData /\ f \in Frames /\ f.msg = msg /\ f.mic # NoKey
      <3> DEFINE v == wpa_supplicant_verify_eapol_key_mic(u, f)
      <3>1. /\ f.msg = msg /\ u.joined /\ ReplayCounterIncreased(u, f) /\ Verifies(u, f)
            /\ f \in Frames
        BY <1>2, <2>3 DEF Receives
      <3>2. ByAP(f)
        BY <3>1 DEF ByAP
      <3>3. v \in SuppData
        BY <1>2, <3>1, SuppDataType
      <3>4. f.mic # NoKey
        BY <3>1 DEF Verifies
      <3>5. v = wpa_supplicant_verify_eapol_key_mic(u, f)
        OBVIOUS
      <3> HIDE DEF m, a, u, A, C, G, v
      <3>6. /\ AirOK(v, A, C, G, e, K) /\ ApOK(m, FALSE, a, v, A, C, e, K)
            /\ Verified(u, f, v, e)
        BY <1>2, <1>5, <1>6, <3>1, <3>2, <3>3, <3>5, VerifyOK
      <3> QED
        BY <3>1, <3>3, <3>4, <3>6 DEF v
    <2>4. ASSUME NEW f \in A, wpa_supplicant_process_3_of_4(s, f)
          PROVE  KeysInv' /\ Forward(u, supp'[s]) /\ \A i \in STA \ {s} : supp'[i] = supp[i]
      <3> DEFINE v == wpa_supplicant_verify_eapol_key_mic(u, f)
                 z == InstallKeys(v, f)
                 g == Frame("4/4", f.rc, 0, v.ptk, NoKey)
      <3>1. /\ Receives(s, f, "3/4") /\ f.nonce = v.anonce
            /\ supp' = [supp EXCEPT ![s] = z] /\ air' = [air EXCEPT ![s] = A \cup {g}]
        BY <2>4 DEF wpa_supplicant_process_3_of_4, Reply
      <3>2. /\ AirOK(v, A, C, G, e, K) /\ ApOK(m, FALSE, a, v, A, C, e, K)
            /\ f.mic[1] = e /\ v.ptk = f.mic /\ v.rx = f.rc /\ v.tptk # f.mic
            /\ v.anonce = u.anonce /\ v.last = u.last /\ v.gtk = u.gtk
            /\ v.joined /\ v.key = u.key
            /\ f.gtk # NoKey => u.gtk[2] <= f.gtk[2]
            /\ v \in SuppData /\ f \in Frames /\ f.msg = "3/4" /\ f.mic # NoKey
        BY <2>3, <3>1 DEF Verified
      <3> HIDE DEF v
      <3>3. z \in SuppData
        BY <3>2, SuppDataType
      <3>4. /\ z.joined = v.joined /\ z.tptk = v.tptk /\ z.ptk = v.ptk
            /\ z.snonce = v.snonce /\ z.anonce = v.anonce /\ z.renew_snonce
            /\ z.rx = v.rx /\ z.key = v.ptk /\ z.last = v.ptk
            /\ z.gtk = IF f.gtk = NoKey THEN v.gtk ELSE f.gtk
        BY <3>2 DEF InstallKeys, wpa_supplicant_install_ptk, wpa_supplicant_install_gtk,
           SuppData
      <3>5. g \in Frames /\ g.msg = "4/4" /\ g.rc = f.rc /\ g.mic = v.ptk
        BY <3>2, NoKeyType DEF Frame, Frames
      <3>6. Installed(v, f, z)
        BY <3>4 DEF Installed
      <3> HIDE DEF z, g
      <3>7. /\ AirOK(z, A \cup {g}, C, G, e, K) /\ ApOK(m, FALSE, a, z, A \cup {g}, C, e, K)
            /\ Follows(z.last, v.last)
        <4>1. /\ AirOK(v, A, C, G, e, K) /\ ApOK(m, FALSE, a, v, A, C, e, K)
              /\ f.msg = "3/4" /\ f.mic[1] = e /\ v.ptk = f.mic /\ v.rx = f.rc
              /\ v.tptk # f.mic /\ f.nonce = v.anonce /\ f.mic # NoKey
              /\ v \in SuppData
          BY <3>1, <3>2
        <4>2. f \in A
          OBVIOUS
        <4> HIDE DEF m, a, u, A, C, G
        <4>3. /\ a \in ApData /\ C \in Nat /\ G \in Nat /\ e \in 1..C
              /\ A \in SUBSET Frames /\ ~Renewing(m, FALSE) /\ m.EAPOLKey # "PAIRWISE"
          BY <1>2, <1>5
        <4>4. Installs(m, a, v, C, G, e, A, K, f, z, g)
          BY <3>3, <3>5, <3>6, <4>1, <4>2, <4>3 DEF Installs
        <4> QED
          BY <4>4, InstallOK
      <3>8. Forward(u, z)
        BY <1>2, <3>2, <3>4, <3>7, KeyParts DEF Forward, Follows, SuppData, Frames
      <3> QED
        BY <1>7, <3>1, <3>7, <3>8
    <2>5. ASSUME NEW f \in A, wpa_supplicant_reject_3_of_4(s, f)
          PROVE  KeysInv' /\ Forward(u, supp'[s]) /\ \A i \in STA \ {s} : supp'[i] = supp[i]
      <3> DEFINE v == wpa_supplicant_verify_eapol_key_mic(u, f)
                 z == wpa_supplicant_event_disassoc(v)
      <3>1. /\ Receives(s, f, "3/4")
            /\ supp' = [supp EXCEPT ![s] = z] /\ air' = [air EXCEPT ![s] = A]
        BY <2>5 DEF wpa_supplicant_reject_3_of_4, DataTypeOK
      <3>2. /\ AirOK(v, A, C, G, e, K) /\ ApOK(m, FALSE, a, v, A, C, e, K)
            /\ v.last = u.last /\ v \in SuppData /\ f \in Frames
        BY <2>3, <3>1 DEF Verified
      <3> HIDE DEF v
      <3>3. z \in SuppData
        BY <3>2, SuppDataType
      <3>4. AirOK(z, A, C, G, e, K) /\ ApOK(m, FALSE, a, z, A, C, e, K)
        <4> HIDE DEF m, a, u, A, C, G
        <4> QED
          BY <1>2, <1>5, <3>2, <3>3, LeaveOK
      <3>5. Forward(u, z)
        BY <3>2 DEF Forward, Follows, wpa_supplicant_event_disassoc, SuppData
      <3> HIDE DEF z
      <3> QED
        BY <1>7, <3>1, <3>4, <3>5
    <2>6. ASSUME NEW f \in A, wpa_supplicant_process_1_of_2(s, f)
          PROVE  KeysInv' /\ Forward(u, supp'[s]) /\ \A i \in STA \ {s} : supp'[i] = supp[i]
      <3> DEFINE v == wpa_supplicant_verify_eapol_key_mic(u, f)
                 z == wpa_supplicant_install_gtk(v, f.gtk)
                 g == Frame("2/2", f.rc, 0, v.ptk, NoKey)
      <3>1. /\ Receives(s, f, "1/2")
            /\ supp' = [supp EXCEPT ![s] = z] /\ air' = [air EXCEPT ![s] = A \cup {g}]
        BY <2>6 DEF wpa_supplicant_process_1_of_2, Reply
      <3>2. /\ AirOK(v, A, C, G, e, K) /\ ApOK(m, FALSE, a, v, A, C, e, K)
            /\ f.mic[1] = e /\ v.ptk = f.mic /\ v.rx = f.rc
            /\ v.last = u.last /\ v.gtk = u.gtk
            /\ f.gtk # NoKey => u.gtk[2] <= f.gtk[2]
            /\ v \in SuppData /\ f \in Frames /\ f.msg = "1/2" /\ f.mic # NoKey
        BY <2>3, <3>1 DEF Verified
      <3>3. f.gtk # NoKey
        BY <1>6, <3>2 DEF AirOK, FrameOK
      <3> HIDE DEF v
      <3>4. z \in SuppData
        BY <3>2, SuppDataType
      <3>5. z.gtk = f.gtk /\ z.last = v.last
        BY <3>2 DEF wpa_supplicant_install_gtk, SuppData
      <3>6. g \in Frames /\ g.msg = "2/2" /\ g.rc = f.rc
        BY <3>2, NoKeyType DEF Frame, Frames
      <3>7. AirOK(z, A \cup {g}, C, G, e, K) /\ ApOK(m, FALSE, a, z, A \cup {g}, C, e, K)
        <4> HIDE DEF m, a, u, A, C, G, g
        <4> QED
          BY <1>2, <1>5, <3>2, <3>4, <3>6, Group1OK
      <3> HIDE DEF z, g
      <3>8. Forward(u, z)
        BY <1>2, <3>2, <3>3, <3>5, KeyParts DEF Forward, Follows, SuppData, Frames
      <3> QED
        BY <1>7, <3>1, <3>7, <3>8
    <2> QED
      BY <2>1, <2>2, <2>4, <2>5, <2>6 DEF HSupplicant, wpa_sm_rx_eapol
  <1> QED
    BY <1>4, <1>5, <1>8

\* Group rekeying is about no station: those it tells are told by the loop.
LEMMA RekeyStep ==
    ASSUME TypeOK, LoopInv, EarlyInv, DataTypeOK, KeysInv, HRekey
    PROVE  EarlyInv' /\ KeysInv' /\ UNCHANGED <<supp, auth>>
  <1>1. sm' = sm /\ UNCHANGED <<supp, air, auth>>
    BY DEF HRekey, HSetKeys, REKEY_setkeys, REKEY_setkeysdone, REKEY_stay, EACH_done,
       wpa_rekey_gtk, data
  <1>2. \A u \in STA : ~Awaits(u) /\ ~Awaits(u)'
    <2>1. CASE wpa_rekey_gtk
      BY <2>1 DEF wpa_rekey_gtk, StartRekey, LoopInv, StackInv, Awaits
    <2>2. CASE HSetKeys \/ REKEY_setkeysdone \/ REKEY_stay \/ EACH_done
      <3>1. rekeyq # <<>> /\ (cont' = cont \/ cont' = "none")
        BY <2>2 DEF HSetKeys, REKEY_setkeys, REKEY_setkeysdone, REKEY_stay, EACH_done,
           NextGroup, GoTo, Finish, TypeOK
      <3> QED
        BY <3>1 DEF LoopInv, StackInv, Awaits
    <2> QED
      BY <2>1, <2>2 DEF HRekey
  <1>3. EarlyInv'
    BY <1>2 DEF EarlyInv, EarlyOK
  <1>4. /\ Counter' \in Nat /\ GTKNonce' \in Nat /\ Counter <= Counter'
        /\ GTKNonce <= GTKNonce' /\ GTKNonce' < Counter'
    <2>1. /\ gk[DefaultGroup] \in GroupKeys /\ Counter \in Nat /\ GTKNonce \in Nat
          /\ GTKNonce < Counter /\ DefaultGroup \in Group /\ DOMAIN gk = Group
      BY DefaultGroupType DEF DataTypeOK, Counter, GTKNonce, GroupKeys, KeysInv
    <2>2. CASE gk' = gk
      BY <2>1, <2>2 DEF Counter, GTKNonce
    <2>3. CASE HSetKeys
      <3> DEFINE g == Head(rekeyq)
                 k == [gk[g] EXCEPT !.GN = 3 - @]
      <3>1. gk' = [gk EXCEPT ![g] = wpa_gtk_update(k)]
        BY <2>3 DEF HSetKeys
      <3>2. CASE g # DefaultGroup
        <4>1. gk'[DefaultGroup] = gk[DefaultGroup]
          BY <2>1, <3>1, <3>2
        <4> QED
          BY <2>1, <4>1 DEF Counter, GTKNonce
      <3>3. CASE g = DefaultGroup
        <4>1. k \in GroupKeys /\ k.Counter = Counter
          <5>1. gk[g] \in GroupKeys
            BY <2>1, <3>3
          <5>2. k \in GroupKeys
            BY <5>1, GroupKeysType
          <5> QED
            BY <3>3, <5>1, <5>2 DEF GroupKeys, Counter
        <4> HIDE DEF k
        <4>2. /\ wpa_gtk_update(k).Counter = Counter + 1
              /\ wpa_gtk_update(k).GTK[wpa_gtk_update(k).GN] = Counter
          BY <2>1, <4>1 DEF wpa_gtk_update, GroupKeys
        <4>3. gk'[DefaultGroup] = wpa_gtk_update(k)
          BY <2>1, <3>1, <3>3
        <4>4. Counter' = Counter + 1 /\ GTKNonce' = Counter
          BY <4>2, <4>3 DEF Counter, GTKNonce
        <4> QED
          BY <2>1, <4>4
      <3> QED
        BY <3>2, <3>3
    <2> QED
      BY <2>2, <2>3 DEF HRekey, data
  <1>5. \A u \in STA : StationKeysInv(u)'
    BY <1>1, <1>2, <1>4, StationStays
  <1> QED
    BY <1>1, <1>3, <1>4, <1>5 DEF KeysInv

-----------------------------------------------------------------------------
(* All steps, the initial states and the theorems.                         *)

\* A step that asks no more of the keys and leaves the data alone, or drops the
\* PTK.
LEMMA QuietKeys ==
    ASSUME TypeOK, EarlyInv, DataTypeOK, KeysInv, NEW s \in STA, Asksless(s),
           \/ UNCHANGED data \/ AuthOnly(s, auth[s])
           \/ /\ ~sm'[s].PTK_valid /\ ~HasKey(sm'[s])
              /\ \/ AuthOnly(s, RemovePTK(auth[s]))
                 \/ AuthOnly(s, [auth[s] EXCEPT !.PTK = NoKey])
    PROVE  EarlyInv' /\ KeysInv'
  <1>1. EarlyInv'
    BY AboutEarly DEF Asksless
  <1>2. CASE UNCHANGED data
    BY <1>1, <1>2, QuietStep
  <1>3. CASE AuthOnly(s, auth[s])
    <2>1. UNCHANGED data
      BY <1>3 DEF AuthOnly, data, DataTypeOK
    <2> QED
      BY <1>1, <2>1, QuietStep
  <1>4. CASE /\ ~sm'[s].PTK_valid /\ ~HasKey(sm'[s])
             /\ AuthOnly(s, RemovePTK(auth[s]))
    BY <1>1, <1>4, DropStep
  <1>5. CASE /\ ~sm'[s].PTK_valid /\ ~HasKey(sm'[s])
             /\ AuthOnly(s, [auth[s] EXCEPT !.PTK = NoKey])
    BY <1>1, <1>5, DropStep
  <1> QED
    BY <1>2, <1>3, <1>4, <1>5

\* The machines.
LEMMA MachinesKeys ==
    ASSUME TypeOK, LoopInv, EarlyInv, DataTypeOK, KeysInv, NEW s \in STA, HMachines(s)
    PROVE  EarlyInv' /\ KeysInv'
  <1>1. CASE PTK_INITIALIZE(s) /\ AuthOnly(s, RemovePTK(auth[s]))
    <2>1. Asksless(s) /\ ~sm'[s].PTK_valid /\ ~HasKey(sm'[s])
      BY <1>1, PtkAsks, PtkMoves
    <2> QED
      BY <1>1, <2>1, QuietKeys
  <1>2. CASE PTK_AUTHENTICATION(s) /\ AuthOnly(s, [auth[s] EXCEPT !.PTK = NoKey])
    <2>1. Asksless(s) /\ ~sm'[s].PTK_valid /\ ~HasKey(sm'[s])
      BY <1>2, PtkAsks, PtkMoves
    <2> QED
      BY <1>2, <2>1, QuietKeys
  <1>3. ASSUME NEW ready \in RandomPoolReady, HAuthentication2(s, ready)
        PROVE  EarlyInv' /\ KeysInv'
    <2>1. ready \in BOOLEAN /\ PTK_AUTHENTICATION2(s, ready)
      BY <1>3, HandshakeAssumption DEF HAuthentication2
    <2>2. About(s)
      BY <2>1, Auth2Moves
    <2> QED
      BY <1>3, <2>1, <2>2, Auth2Step, AboutEarly
  <1>4. CASE \/ PTK_PTKSTART(s) /\ SendOrNot(s, "1/4", auth[s].ANonce, NoKey)
             \/ /\ PTK_PTKINITNEGOTIATING(s)
                /\ SendOrNot(s, "3/4", auth[s].ANonce,
                             IF Version[s] = "WPA2" THEN GTK(s) ELSE NoKey)
             \/ GROUP_REKEYNEGOTIATING(s) /\ SendOrNot(s, "1/2", 0, GTK(s))
    BY <1>4, SendSteps, AboutEarly
  <1>5. CASE HPtkCalcNegotiating(s)
    BY <1>5, CalcStep, AboutEarly
  <1>6. ASSUME NEW ok \in BOOLEAN, HPtkInitDone(s, ok) PROVE EarlyInv' /\ KeysInv'
    BY <1>6, DoneStep, AboutEarly
  <1>7. CASE /\ \/ PTK_stay(s) \/ PTK_DISCONNECT(s) \/ PTK_DISCONNECTED(s)
                \/ PTK_INITPSK(s) \/ PTK_PTKCALCNEGOTIATING2(s)
                \/ GROUP_stay(s) \/ GROUP_IDLE(s) \/ GROUP_REKEYESTABLISHED(s)
                \/ GROUP_KEYERROR(s) \/ GSM_setkeysdone(s) \/ GSM_stay(s)
                \/ wpa_group_update_sta(s)
             /\ UNCHANGED data
    <2>1. Asksless(s)
      BY <1>7, PtkAsks, GroupAsks, TurnAsks
    <2> QED
      BY <1>7, <2>1, QuietKeys
  <1> QED
    BY <1>1, <1>2, <1>3, <1>4, <1>5, <1>6, <1>7 DEF HMachines

\* Associations.
LEMMA AssociationKeys ==
    ASSUME TypeOK, LoopInv, EarlyInv, KnownInv, DataTypeOK, KeysInv, NEW s \in STA,
           HAssociation(s)
    PROVE  EarlyInv' /\ KeysInv'
  <1>1. CASE handle_assoc(s) /\ UNCHANGED data
    <2>1. Asksless(s)
      BY <1>1, QuietEvents
    <2> QED
      BY <1>1, <2>1, QuietKeys
  <1>2. CASE handle_auth(s) /\ AuthOnly(s, RemovePTK(auth[s]))
    <2>1. Asksless(s) /\ ~sm'[s].PTK_valid /\ ~HasKey(sm'[s])
      BY <1>2, DropEvents
    <2> QED
      BY <1>2, <2>1, QuietKeys
  <1>3. CASE /\ handle_assoc_cb(s) /\ sm'[s].group = sm[s].group
             /\ auth' = [auth EXCEPT ![s] = RemovePTK(@)]
             /\ supp' = [supp EXCEPT ![s] = wpa_sm_notify_assoc(@)]
             /\ air' = [air EXCEPT ![s] = {f \in @ : f.msg \in StaleFrames}]
             /\ UNCHANGED gk
    <2>1. About(s)
      BY <1>3, AssocMoves
    <2> QED
      BY <1>3, <2>1, AssociateStep, AboutEarly
  <1>4. CASE CONT_assoc(s) /\ ~sm[s].started /\ AuthOnly(s, auth[s])
    <2>1. Asksless(s)
      BY <1>4, ContMoves
    <2> QED
      BY <1>4, <2>1, QuietKeys
  <1>5. CASE CONT_assoc(s) /\ sm[s].started /\ AuthOnly(s, ClearKeyReplay(auth[s]))
    <2>1. About(s)
      BY <1>5, ContMoves
    <2> QED
      BY <1>5, <2>1, RestartStep, AboutEarly
  <1>6. CASE CONT_auth(s) /\ UNCHANGED data
    <2>1. Asksless(s)
      BY <1>6, ContMoves
    <2> QED
      BY <1>6, <2>1, QuietKeys
  <1>7. CASE CONT_reauth(s) /\ AuthOnly(s, RemovePTK(auth[s]))
    <2>1. Asksless(s) /\ ~sm'[s].PTK_valid /\ ~HasKey(sm'[s])
      BY <1>7, ContMoves
    <2> QED
      BY <1>7, <2>1, QuietKeys
  <1> QED
    BY <1>1, <1>2, <1>3, <1>4, <1>5, <1>6, <1>7 DEF HAssociation

\* Departures.
LEMMA DepartureKeys ==
    ASSUME TypeOK, LoopInv, EarlyInv, KnownInv, DataTypeOK, KeysInv, NEW s \in STA,
           HDeparture(s)
    PROVE  EarlyInv' /\ KeysInv'
  <1>1. CASE (handle_disassoc(s) \/ handle_deauth(s)) /\ AuthOnly(s, RemovePTK(auth[s]))
    <2>1. Asksless(s) /\ ~sm'[s].PTK_valid /\ ~HasKey(sm'[s])
      BY <1>1, DropEvents
    <2> QED
      BY <1>1, <2>1, QuietKeys
  <1>2. CASE ap_handle_timer_disassoc(s) /\ UNCHANGED data
    <2>1. Asksless(s)
      BY <1>2, QuietEvents
    <2> QED
      BY <1>2, <2>1, QuietKeys
  <1>3. CASE /\ ap_handle_timer_remove(s) \/ CONT_free(s)
             /\ AuthOnly(s, [AuthData EXCEPT !.last = auth[s].last, !.times = auth[s].times])
    <2> DEFINE b == [AuthData EXCEPT !.last = auth[s].last, !.times = auth[s].times]
    <2>1. b \in ApData
      BY ApDataType DEF DataTypeOK
    <2>2. b.PTK = NoKey /\ b.ANonce = 0 /\ b.last = auth[s].last
      BY DEF AuthData
    <2>3. AuthOnly(s, b) /\ (ap_handle_timer_remove(s) \/ CONT_free(s))
      BY <1>3
    <2> HIDE DEF b
    <2>4. KeysInv'
      BY <2>1, <2>2, <2>3, FreeStep
    <2>5. About(s)
      BY <2>3, ContMoves
    <2> QED
      BY <2>4, <2>5, AboutEarly
  <1> QED
    BY <1>1, <1>2, <1>3 DEF HDeparture

\* Frames that arrive.
LEMMA ReceiveKeys ==
    ASSUME TypeOK, LoopInv, EarlyInv, KnownInv, DataTypeOK, KeysInv, NEW s \in STA,
           NEW f \in air[s], HReceive(s, f)
    PROVE  EarlyInv' /\ KeysInv'
  <1>1. CASE wpa_receive_entropy(s) /\ UNCHANGED data
    <2>1. Asksless(s)
      BY <1>1, QuietEvents
    <2> QED
      BY <1>1, <2>1, QuietKeys
  <1>2. ASSUME NEW msg \in DOMAIN Kind, wpa_receive_bad_mic(s, Kind[msg]), UNCHANGED data
        PROVE  EarlyInv' /\ KeysInv'
    <2>1. Asksless(s)
      BY <1>2, QuietEvents
    <2> QED
      BY <1>2, <2>1, QuietKeys
  <1>3. ASSUME NEW msg \in DOMAIN Kind, Arrives(s, f, msg),
               sm[s].PTK_valid => f.mic = auth[s].PTK, wpa_receive_key(s, Kind[msg]),
               AuthOnly(s, [auth[s] EXCEPT !.pending = 0, !.mic = f.mic,
                                           !.SNonce = f.nonce])
        PROVE  EarlyInv' /\ KeysInv'
    <2>1. KeysInv' /\ About(s)
      BY <1>3, AcceptStep
    <2> QED
      BY <2>1, AboutEarly
  <1> QED
    BY <1>1, <1>2, <1>3 DEF HReceive

\* Every step keeps the invariant.
LEMMA KeysStep ==
    ASSUME TypeOK, LoopInv, KnownInv, DataTypeOK, EarlyInv, KeysInv, [HNext]_allvars
    PROVE  EarlyInv' /\ KeysInv'
  <1>1. CASE HRekey
    BY <1>1, RekeyStep
  <1>2. ASSUME NEW s \in STA, HTimeout(s) PROVE EarlyInv' /\ KeysInv'
    <2>1. UNCHANGED data /\ Asksless(s)
      BY <1>2, QuietEvents DEF HTimeout
    <2> QED
      BY <2>1, QuietKeys
  <1>3. ASSUME NEW s \in STA, HSupplicant(s) PROVE EarlyInv' /\ KeysInv'
    BY <1>3, SupplicantStep, AboutEarly
  <1>4. CASE UNCHANGED allvars
    <2>1. /\ sm' = sm /\ supp' = supp /\ air' = air /\ auth' = auth /\ gk' = gk
          /\ caller' = caller /\ cont' = cont
      BY <1>4 DEF allvars, vars, stack, data
    <2>2. EarlyInv'
      BY <2>1 DEF EarlyInv, Awaits
    <2>3. KeysInv'
      BY <2>1 DEF KeysInv, StationKeysInv, Counter, GTKNonce, Awaits
    <2> QED
      BY <2>2, <2>3
  <1> QED
    BY <1>1, <1>2, <1>3, <1>4, MachinesKeys, AssociationKeys, DepartureKeys, ReceiveKeys
       DEF HNext

\* Before the first association there is nothing to agree on.
LEMMA KeysInit ==
    ASSUME HInit
    PROVE  EarlyInv /\ KeysInv
  <1>1. Counter = 2 /\ GTKNonce = 1
    <2>1. gk[DefaultGroup]
            = wpa_gtk_update([Counter |-> 1, GTK |-> [i \in 1..2 |-> 0], GN |-> 1])
      BY DefaultGroupType DEF HInit
    <2>2. ASSUME NEW k \in GroupKeys, k.Counter = 1, k.GN = 1
          PROVE  wpa_gtk_update(k).Counter = 2 /\ wpa_gtk_update(k).GN = 1
                 /\ wpa_gtk_update(k).GTK[1] = 1
      BY <2>2 DEF wpa_gtk_update, GroupKeys
    <2>3. [Counter |-> 1, GTK |-> [i \in 1..2 |-> 0], GN |-> 1] \in GroupKeys
      BY DEF GroupKeys
    <2> QED
      BY <2>1, <2>2, <2>3 DEF Counter, GTKNonce
  <1>2. \A s \in STA : ~Awaits(s)
    BY DEF HInit, Init, Awaits
  <1>3. EarlyInv
    BY <1>2 DEF EarlyInv, EarlyOK
  <1>4. ASSUME NEW s \in STA PROVE StationKeysInv(s)
    <2> DEFINE m == sm[s]
               a == auth[s]
               u == supp[s]
    <2>1. m = wpa_auth_sta_init("none") /\ a = AuthData /\ u = wpa_sm_init /\ air[s] = {}
      BY DEF HInit, Init, SuppInit
    <2>2. /\ m.group = DefaultGroup /\ m.wpa_ptk_state = "INITIALIZE" /\ ~m.Init
          /\ ~m.AuthenticationRequest /\ ~m.ReAuthenticationRequest /\ ~m.PTKRequest
          /\ ~m.PTK_valid /\ m.EAPOLKey # "PAIRWISE" /\ ~Renewing(m, FALSE)
          /\ ~Live(m, FALSE) /\ ~HasKey(m) /\ ~Derived(m)
      BY <2>1 DEF wpa_auth_sta_init, Renewing, Live, HasKey, Derived
    <2>3. a.ANonce = 0 /\ a.PTK = NoKey /\ a.last = NoKey
      BY <2>1 DEF AuthData
    <2>4. /\ u.tptk = NoKey /\ u.ptk = NoKey /\ u.last = NoKey /\ u.snonce = 0
          /\ u.renew_snonce /\ ~u.joined /\ u.gtk = NoKey
      BY <2>1 DEF wpa_sm_init
    <2>5. AirOK(u, {}, 2, 1, 1, {})
      BY <2>4, NoKeyParts DEF AirOK, UsedOK, StationOK, Covers, GTKOK
    <2>6. ApOK(m, FALSE, a, u, {}, 2, 1, {})
      <3> HIDE DEF m, a, u
      <3>1. EpochOK(m, FALSE, a, u, 2, 1)
        <4>1. m.group = DefaultGroup /\ a.ANonce < 2
          BY <2>2, <2>3
        <4>2. ~(Live(m, FALSE) \/ m.PTKRequest)
          BY <2>2, Zenon
        <4>3. ~Renewing(m, FALSE)
          BY <2>2, Zenon
        <4> QED
          BY <4>1, <4>2, <4>3, Zenon DEF EpochOK
      <3>2. ApKeyOK(m, a, u, 1, {}) /\ ReplayEpochOK(m, a, {}, 1, {})
        BY <2>2, <2>3 DEF ApKeyOK, ReplayEpochOK
      <3>3. ReceivedOK(m, a, u, 1, {})
        BY <2>2 DEF ReceivedOK
      <3>4. InstalledOK(m, a, u, 1)
        BY <2>2, <2>3, <2>4, NoKeyParts DEF InstalledOK
      <3> QED
        BY <3>1, <3>2, <3>3, <3>4 DEF ApOK
    <2>7. UsedKeys(u, {}) = {}
      BY <2>4 DEF UsedKeys
    <2>8. Awaits(s) = FALSE
      BY <1>2 DEF Awaits
    <2>9. 1 \in 1..Counter
      BY <1>1
    <2> QED
      BY <1>1, <2>1, <2>5, <2>6, <2>7, <2>8, <2>9 DEF StationKeysInv
  <1> QED
    BY <1>1, <1>3, <1>4 DEF KeysInv

\* Along every run, whatever frames are lost, repeated, reordered or delayed, each
\* station has an epoch that orders its keys, nonces, replay counters and GTKs.
THEOREM KeysCorrect == HSpec => [](EarlyInv /\ KeysInv)
  <1>1. HInit => EarlyInv /\ KeysInv
    BY KeysInit
  <1>2. TypeOK /\ LoopInv /\ KnownInv /\ DataTypeOK /\ EarlyInv /\ KeysInv
          /\ [HNext]_allvars => (EarlyInv /\ KeysInv)'
    BY KeysStep
  <1> QED
    BY <1>1, <1>2, HandshakeIsAuthenticator, TypeCorrect, LoopCorrect,
       StrangersAreBlank, DataCorrect, PTL DEF HSpec

\* Once the AP has completed a 4-way handshake with a station that is still
\* associated, both drivers use the same pairwise key, for any number of stations,
\* retries, rekeyings and (re)associations and with any messages delayed.
THEOREM HandshakeAgrees == HSpec => []Agreement
  <1>1. KeysInv => Agreement
    <2> SUFFICES ASSUME KeysInv, NEW s \in STA, InTouch(s),
                        sm[s].wpa_ptk_state = "PTKINITDONE", sm[s].pairwise_set
                 PROVE  auth[s].key # NoKey /\ auth[s].key = supp[s].key
      BY DEF Agreement
    <2>1. PICK e \in 1..Counter :
            /\ StationOK(supp[s], e, UsedKeys(supp[s], air[s]))
            /\ ApKeyOK(sm[s], auth[s], supp[s], e, UsedKeys(supp[s], air[s]))
            /\ InstalledOK(sm[s], auth[s], supp[s], e)
      BY DEF KeysInv, StationKeysInv, AirOK, ApOK
    <2>2. HasKey(sm[s]) /\ supp[s].joined
      BY DEF HasKey, InTouch, Associated
    <2>3. /\ auth[s].PTK # NoKey /\ auth[s].key = auth[s].PTK /\ supp[s].last = auth[s].PTK
          /\ auth[s].PTK[1] = e
      BY <2>1, <2>2 DEF InstalledOK, ApKeyOK
    <2>4. supp[s].key = supp[s].last
      BY <2>1, <2>2, <2>3 DEF StationOK
    <2> QED
      BY <2>3, <2>4
  <1> QED
    BY <1>1, KeysCorrect, PTL

-----------------------------------------------------------------------------
(* What a step may do to the keys in the two drivers.                      *)

\* The AP's driver is given the key that the station was given last, a newer one
\* than before; or it keeps the key it has or drops it.
ApTakes(s) ==
    /\ supp' = supp
    /\ auth'[s].key = supp[s].last /\ auth'[s].last = supp[s].last
    /\ auth'[s].times = auth[s].times + 1
    /\ supp[s].last[1] >= auth[s].last[1] /\ supp[s].last[2] > auth[s].last[2]

ApKeepsOrDrops(s) ==
    /\ supp'[s].last = supp[s].last
    /\ auth'[s].last = auth[s].last /\ auth'[s].times = auth[s].times
    /\ auth'[s].key \in {auth[s].key, NoKey}

\* At most one station's keys change.
DriverStep(s) ==
    /\ \A i \in STA \ {s} : supp'[i] = supp[i] /\ auth'[i] = auth[i]
    /\ Forward(supp[s], supp'[s])
    /\ auth' = auth \/ ApKeepsOrDrops(s) \/ ApTakes(s)

\* A step of the AP that changes its data for s to b.
LEMMA ApDrivers ==
    ASSUME DataTypeOK, NEW s \in STA, NEW b, b.last = auth[s].last,
           b.times = auth[s].times, b.key \in {auth[s].key, NoKey},
           auth' = [auth EXCEPT ![s] = b], supp' = supp
    PROVE  DriverStep(s)
  <1>1. /\ auth'[s] = b /\ \A i \in STA \ {s} : auth'[i] = auth[i]
        /\ supp[s] \in SuppData
    BY DEF DataTypeOK
  <1>2. Forward(supp[s], supp[s])
    BY <1>1, KeyParts DEF Forward, Follows, SuppData
  <1>3. ApKeepsOrDrops(s)
    BY <1>1 DEF ApKeepsOrDrops
  <1> QED
    BY <1>1, <1>2, <1>3 DEF DriverStep

\* What every step that is not one of group rekeying does to the drivers.
LEMMA DriversStep ==
    ASSUME TypeOK, LoopInv, EarlyInv, DataTypeOK, KeysInv, [HNext]_allvars
    PROVE  UNCHANGED <<supp, auth>> \/ \E s \in STA : DriverStep(s)
  <1>1. ASSUME UNCHANGED data PROVE UNCHANGED <<supp, auth>>
    BY <1>1 DEF data
  <1>2. ASSUME NEW s \in STA PROVE auth[s] \in ApData /\ supp[s] \in SuppData
    BY DEF DataTypeOK
  <1>3. CASE HRekey
    BY <1>3, RekeyStep
  <1>4. ASSUME NEW s \in STA, NEW b, AuthOnly(s, b), b.last = auth[s].last,
               b.times = auth[s].times, b.key \in {auth[s].key, NoKey}
        PROVE  DriverStep(s)
    BY <1>4, ApDrivers DEF AuthOnly
  <1>5. ASSUME NEW s \in STA
        PROVE  /\ AuthOnly(s, auth[s]) => DriverStep(s)
               /\ AuthOnly(s, RemovePTK(auth[s])) => DriverStep(s)
               /\ AuthOnly(s, [auth[s] EXCEPT !.PTK = NoKey]) => DriverStep(s)
               /\ AuthOnly(s, ClearKeyReplay(auth[s])) => DriverStep(s)
               /\ AuthOnly(s, [AuthData EXCEPT !.last = auth[s].last,
                                               !.times = auth[s].times]) => DriverStep(s)
    <2> DEFINE a == auth[s]
    <2>0. a \in ApData
      BY <1>2
    <2>1. /\ RemovePTK(a).last = a.last /\ RemovePTK(a).times = a.times
          /\ RemovePTK(a).key = NoKey
      BY <2>0 DEF RemovePTK, ApData
    <2>2. LET b == [a EXCEPT !.PTK = NoKey]
          IN  b.last = a.last /\ b.times = a.times /\ b.key = a.key
      BY <2>0 DEF ApData
    <2>3. LET b == ClearKeyReplay(a)
          IN  b.last = a.last /\ b.times = a.times /\ b.key = a.key
      BY <2>0 DEF ApData, ClearKeyReplay
    <2>4. LET b == [AuthData EXCEPT !.last = a.last, !.times = a.times]
          IN  b.last = a.last /\ b.times = a.times /\ b.key = NoKey
      BY DEF AuthData
    <2> HIDE DEF a
    <2>5. AuthOnly(s, a) => DriverStep(s)
      BY <1>4 DEF a
    <2>6. AuthOnly(s, RemovePTK(a)) => DriverStep(s)
      BY <1>4, <2>1 DEF a
    <2>7. AuthOnly(s, [a EXCEPT !.PTK = NoKey]) => DriverStep(s)
      BY <1>4, <2>2 DEF a
    <2>8. AuthOnly(s, ClearKeyReplay(a)) => DriverStep(s)
      BY <1>4, <2>3 DEF a
    <2>9. AuthOnly(s, [AuthData EXCEPT !.last = a.last, !.times = a.times])
            => DriverStep(s)
      BY <1>4, <2>4 DEF a
    <2> QED
      BY <2>5, <2>6, <2>7, <2>8, <2>9 DEF a
  <1>6. ASSUME NEW s \in STA, NEW msg, NEW nonce, NEW gtk, SendOrNot(s, msg, nonce, gtk)
        PROVE  UNCHANGED <<supp, auth>> \/ DriverStep(s)
    <2> DEFINE b == NextReplayCounter(auth[s])
    <2>1. b.last = auth[s].last /\ b.times = auth[s].times /\ b.key = auth[s].key
      BY <1>2 DEF NextReplayCounter, ApData
    <2>2. supp' = supp /\ (auth' = auth \/ auth' = [auth EXCEPT ![s] = b])
      BY <1>6 DEF SendOrNot, __wpa_send_eapol
    <2> HIDE DEF b
    <2> QED
      BY <2>1, <2>2, ApDrivers
  <1>7. ASSUME NEW s \in STA, HPtkCalcNegotiating(s) PROVE DriverStep(s)
    <2> DEFINE k == <<auth[s].ANonce, auth[s].SNonce>>
               b == [auth[s] EXCEPT !.PTK = k]
    <2>1. b.last = auth[s].last /\ b.times = auth[s].times /\ b.key = auth[s].key
      BY <1>2 DEF ApData
    <2>2. AuthOnly(s, b) \/ AuthOnly(s, auth[s])
      BY <1>7 DEF HPtkCalcNegotiating
    <2> HIDE DEF b
    <2> QED
      BY <1>4, <1>5, <2>1, <2>2
  <1>8. ASSUME NEW s \in STA, NEW ok \in BOOLEAN, HPtkInitDone(s, ok) PROVE DriverStep(s)
    <2>1. CASE ~ok
      <3>1. AuthOnly(s, auth[s])
        BY <1>8, <2>1 DEF HPtkInitDone
      <3> QED
        BY <1>5, <3>1
    <2>2. CASE ok
      <3> DEFINE a == auth[s]
                 b == [a EXCEPT !.key = a.PTK, !.last = a.PTK, !.times = @ + 1]
      <3>1. /\ a.PTK = supp[s].last /\ a.last[1] <= a.PTK[1] /\ a.last[2] < a.PTK[2]
        BY <1>8, <2>2, DoneStep
      <3>2. b.key = a.PTK /\ b.last = a.PTK /\ b.times = a.times + 1
        BY <1>2 DEF ApData
      <3>3. AuthOnly(s, b)
        BY <1>8, <2>2 DEF HPtkInitDone
      <3> HIDE DEF b
      <3>4. /\ supp' = supp /\ auth'[s] = b /\ \A i \in STA \ {s} : auth'[i] = auth[i]
        BY <3>3 DEF AuthOnly, DataTypeOK
      <3>5. Forward(supp[s], supp[s])
        BY <1>2, KeyParts DEF Forward, Follows, SuppData
      <3>6. ApTakes(s)
        <4>1. a.PTK \in Keys /\ a.last \in Keys
          BY <1>2 DEF ApData
        <4> QED
          BY <3>1, <3>2, <3>4, <4>1, KeyParts DEF ApTakes
      <3> QED
        BY <3>4, <3>5, <3>6 DEF DriverStep
    <2> QED
      BY <2>1, <2>2
  <1>9. ASSUME NEW s \in STA, HMachines(s)
        PROVE  UNCHANGED <<supp, auth>> \/ DriverStep(s)
    <2>1. ASSUME NEW ready, HAuthentication2(s, ready) PROVE DriverStep(s)
      <3>1. PICK n : auth' = [auth EXCEPT ![s].ANonce = n] /\ supp' = supp
        BY <2>1 DEF HAuthentication2
      <3> DEFINE b == [auth[s] EXCEPT !.ANonce = n]
      <3>2. b.last = auth[s].last /\ b.times = auth[s].times /\ b.key = auth[s].key
        BY <1>2 DEF ApData
      <3>3. auth' = [auth EXCEPT ![s] = b]
        BY <3>1 DEF DataTypeOK
      <3> HIDE DEF b
      <3> QED
        BY <3>1, <3>2, <3>3, ApDrivers
    <2>2. CASE PTK_INITIALIZE(s) /\ AuthOnly(s, RemovePTK(auth[s]))
      BY <1>5, <2>2
    <2>3. CASE PTK_AUTHENTICATION(s) /\ AuthOnly(s, [auth[s] EXCEPT !.PTK = NoKey])
      BY <1>5, <2>3
    <2>4. CASE SendOrNot(s, "1/4", auth[s].ANonce, NoKey)
      BY <1>6, <2>4
    <2>5. CASE SendOrNot(s, "3/4", auth[s].ANonce,
                         IF Version[s] = "WPA2" THEN GTK(s) ELSE NoKey)
      BY <1>6, <2>5
    <2>6. CASE SendOrNot(s, "1/2", 0, GTK(s))
      BY <1>6, <2>6
    <2>7. CASE UNCHANGED data
      BY <1>1, <2>7
    <2> QED
      BY <1>7, <1>8, <1>9, <2>1, <2>2, <2>3, <2>4, <2>5, <2>6, <2>7 DEF HMachines
  <1>10. ASSUME NEW s \in STA, HAssociation(s)
         PROVE  UNCHANGED <<supp, auth>> \/ DriverStep(s)
    <2>1. CASE /\ auth' = [auth EXCEPT ![s] = RemovePTK(@)]
               /\ supp' = [supp EXCEPT ![s] = wpa_sm_notify_assoc(@)]
      <3> DEFINE v == wpa_sm_notify_assoc(supp[s])
                 b == RemovePTK(auth[s])
      <3>1. v.last = supp[s].last /\ v.gtk = supp[s].gtk
        BY <1>2 DEF wpa_sm_notify_assoc, SuppData
      <3>2. b.last = auth[s].last /\ b.times = auth[s].times /\ b.key = NoKey
        BY <1>2 DEF RemovePTK, ApData
      <3>3. /\ supp'[s] = v /\ auth'[s] = b
            /\ \A i \in STA \ {s} : supp'[i] = supp[i] /\ auth'[i] = auth[i]
        BY <2>1 DEF DataTypeOK
      <3> HIDE DEF v, b
      <3>4. Forward(supp[s], supp'[s])
        BY <1>2, <3>1, <3>3, KeyParts DEF Forward, Follows, SuppData
      <3>5. ApKeepsOrDrops(s)
        BY <3>1, <3>2, <3>3 DEF ApKeepsOrDrops
      <3> QED
        BY <3>3, <3>4, <3>5 DEF DriverStep
    <2>2. CASE /\ CONT_assoc(s)
               /\ AuthOnly(s, IF sm[s].started THEN ClearKeyReplay(auth[s]) ELSE auth[s])
      <3>1. AuthOnly(s, ClearKeyReplay(auth[s])) \/ AuthOnly(s, auth[s])
        BY <2>2
      <3> QED
        BY <1>5, <3>1
    <2> QED
      BY <1>1, <1>5, <1>10, <2>1, <2>2 DEF HAssociation
  <1>11. ASSUME NEW s \in STA, HDeparture(s)
         PROVE  UNCHANGED <<supp, auth>> \/ DriverStep(s)
    BY <1>1, <1>5, <1>11 DEF HDeparture
  <1>12. ASSUME NEW s \in STA, HTimeout(s) PROVE UNCHANGED <<supp, auth>>
    BY <1>1, <1>12 DEF HTimeout
  <1>13. ASSUME NEW s \in STA, NEW f \in air[s], HReceive(s, f)
         PROVE  UNCHANGED <<supp, auth>> \/ DriverStep(s)
    <2> DEFINE b == [auth[s] EXCEPT !.pending = 0, !.mic = f.mic, !.SNonce = f.nonce]
    <2>1. b.last = auth[s].last /\ b.times = auth[s].times /\ b.key = auth[s].key
      BY <1>2 DEF ApData
    <2>2. UNCHANGED data \/ AuthOnly(s, b)
      BY <1>13 DEF HReceive
    <2> HIDE DEF b
    <2> QED
      BY <1>1, <1>4, <2>1, <2>2
  <1>14. ASSUME NEW s \in STA, HSupplicant(s) PROVE DriverStep(s)
    <2>1. /\ Forward(supp[s], supp'[s]) /\ auth' = auth
          /\ \A i \in STA \ {s} : supp'[i] = supp[i]
      BY <1>14, SupplicantStep
    <2> QED
      BY <2>1 DEF DriverStep
  <1>15. CASE UNCHANGED allvars
    BY <1>1, <1>15 DEF allvars
  <1> QED
    BY <1>3, <1>9, <1>10, <1>11, <1>12, <1>13, <1>14, <1>15 DEF HNext


-----------------------------------------------------------------------------

\* Whatever frames are repeated, delayed or overtaken, a station that stays
\* associated never replaces its GTK by an older one
\* (wpa_supplicant_install_gtk).
THEOREM GTKNeverRollsBack == HSpec => NoGTKRollback
  <1> DEFINE Newer == \A s \in STA : supp[s].joined /\ supp'[s].joined
                                       => supp'[s].gtk[2] >= supp[s].gtk[2]
  <1>1. TypeOK /\ LoopInv /\ EarlyInv /\ DataTypeOK /\ KeysInv /\ [HNext]_allvars
          => [Newer]_supp
    <2> SUFFICES ASSUME TypeOK, LoopInv, EarlyInv, DataTypeOK, KeysInv, [HNext]_allvars,
                        supp' # supp, NEW i \in STA,
                        supp[i].joined, supp'[i].joined
                 PROVE  supp'[i].gtk[2] >= supp[i].gtk[2]
      BY Zenon
    <2>1. supp[i].gtk \in Keys
      BY DEF DataTypeOK, SuppData
    <2>2. PICK s \in STA : DriverStep(s)
      BY DriversStep
    <2>3. CASE i = s
      BY <2>2, <2>3 DEF DriverStep, Forward
    <2>4. CASE i # s
      <3>1. supp'[i] = supp[i]
        BY <2>2, <2>4 DEF DriverStep
      <3> QED
        BY <2>1, <3>1, KeyParts
    <2> QED
      BY <2>3, <2>4
  <1> QED
    BY <1>1, HandshakeIsAuthenticator, TypeCorrect, LoopCorrect, DataCorrect,
       KeysCorrect, PTL DEF HSpec, NoGTKRollback

-----------------------------------------------------------------------------
(***************************************************************************)
(* The refinement: with frames, timers and machines forgotten, the two     *)
(* drivers are given keys as KeyAgreement says.                            *)
(***************************************************************************)

\* No driver has a key when the AP starts.
LEMMA RefinesInit ==
    ASSUME HInit
    PROVE  Abstract!KInit
  <1>1. ASSUME NEW s \in STA
        PROVE  /\ supp[s].last = NoKey /\ auth[s].key = NoKey
               /\ auth[s].last = NoKey /\ auth[s].times = 0
    BY DEF HInit, SuppInit, wpa_sm_init, AuthData
  <1> QED
    BY <1>1 DEF Abstract!KInit, Abstract!None, NoKey

\* Every step gives at most one driver a key, or takes one from the AP's, as
\* KeyAgreement allows, or changes no driver's keys.
LEMMA RefinesStep ==
    ASSUME TypeOK, LoopInv, EarlyInv, DataTypeOK, DataTypeOK', KeysInv, [HNext]_allvars
    PROVE  [Abstract!KNext]_Abstract!kvars
  <1> DEFINE St == [i \in STA |-> supp[i].last]
             Ap == [i \in STA |-> auth[i].key]
             La == [i \in STA |-> auth[i].last]
             Ti == [i \in STA |-> auth[i].times]
  <1>1. CASE UNCHANGED <<supp, auth>>
    BY <1>1 DEF Abstract!kvars
  <1>2. ASSUME NEW s \in STA, DriverStep(s)
        PROVE  [Abstract!KNext]_Abstract!kvars
    <2>1. \A i \in STA \ {s} : supp'[i] = supp[i] /\ auth'[i] = auth[i]
      BY <1>2 DEF DriverStep
    <2>2. Follows(supp'[s].last, supp[s].last)
      BY <1>2 DEF DriverStep, Forward
    <2>3. supp'[s].last \in Abstract!Key
      BY DEF DataTypeOK, SuppData, Keys, Abstract!Key
    <2>4. CASE auth' = auth /\ supp'[s].last # supp[s].last
      <3>1. La' = La /\ Ap' = Ap /\ Ti' = Ti
        BY <2>4
      <3>2. St' = [St EXCEPT ![s] = St'[s]]
        BY <2>1
      <3>3. Abstract!Newer(St'[s], St[s]) /\ St'[s] \in Abstract!Key
        BY <2>2, <2>3, <2>4 DEF Follows, Abstract!Newer
      <3>4. Abstract!StationInstalls(s)
        BY <3>1, <3>2, <3>3 DEF Abstract!StationInstalls
      <3> QED
        BY <3>4 DEF Abstract!KNext
    <2>5. CASE auth' = auth /\ supp'[s].last = supp[s].last
      <3>1. La' = La /\ Ap' = Ap /\ Ti' = Ti
        BY <2>5
      <3>2. St' = St
        BY <2>1, <2>5
      <3> QED
        BY <3>1, <3>2 DEF Abstract!kvars
    <2>6. CASE ApKeepsOrDrops(s)
      <3>1. St' = St /\ La' = La /\ Ti' = Ti
        BY <2>1, <2>6 DEF ApKeepsOrDrops
      <3>2. CASE auth'[s].key = auth[s].key
        <4>1. Ap' = Ap
          BY <2>1, <3>2
        <4> QED
          BY <3>1, <4>1 DEF Abstract!kvars
      <3>3. CASE auth'[s].key = NoKey
        <4>1. Ap' = [Ap EXCEPT ![s] = Abstract!None]
          BY <2>1, <3>3 DEF Abstract!None, NoKey
        <4>2. Abstract!ApRemoves(s)
          BY <3>1, <4>1 DEF Abstract!ApRemoves
        <4> QED
          BY <4>2 DEF Abstract!KNext
      <3> QED
        BY <2>6, <3>2, <3>3 DEF ApKeepsOrDrops
    <2>7. CASE ApTakes(s)
      <3>1. St' = St
        BY <2>7 DEF ApTakes
      <3>2. /\ Ap' = [Ap EXCEPT ![s] = St[s]]
            /\ La' = [La EXCEPT ![s] = St[s]]
            /\ Ti' = [Ti EXCEPT ![s] = @ + 1]
        BY <2>1, <2>7 DEF ApTakes
      <3>3. Abstract!Newer(St[s], La[s])
        BY <2>7 DEF ApTakes, Abstract!Newer
      <3>4. Abstract!ApInstalls(s)
        BY <3>1, <3>2, <3>3 DEF Abstract!ApInstalls
      <3> QED
        BY <3>4 DEF Abstract!KNext
    <2> QED
      BY <1>2, <2>4, <2>5, <2>6, <2>7 DEF DriverStep
  <1> QED
    BY <1>1, <1>2, DriversStep

\* The handshake implements KeyAgreement: the AP's driver is only ever given the
\* key that the station's driver was given last, and never one a second time
\* (no key is reinstalled by a repeated message 4/4).
THEOREM HandshakeImplementsKeyAgreement == HSpec => ImplementsKeyAgreement
  <1>1. HInit => Abstract!KInit
    BY RefinesInit
  <1>2. TypeOK /\ LoopInv /\ EarlyInv /\ DataTypeOK /\ DataTypeOK' /\ KeysInv
          /\ [HNext]_allvars => [Abstract!KNext]_Abstract!kvars
    BY RefinesStep
  <1> QED
    BY <1>1, <1>2, HandshakeIsAuthenticator, TypeCorrect, LoopCorrect, DataCorrect,
       KeysCorrect, PTL DEF HSpec, ImplementsKeyAgreement, Abstract!KSpec
=============================================================================
