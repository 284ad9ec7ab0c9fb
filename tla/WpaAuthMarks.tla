---------------------------- MODULE WpaAuthMarks -----------------------------
(***************************************************************************)
(* The bookkeeping of a GTK rekeying: GKeyDoneStations of a group counts   *)
(* the stations that are marked with GUpdateStationKeys.  It is proved for *)
(* an authenticator with one group (no VLANs), any number of stations.     *)
(*                                                                         *)
(* MarksCounted is not inductive: wpa_group_setkeys() zeroes the count and *)
(* the marks are brought in line station by station, in the callbacks of   *)
(* wpa_auth_for_each_sta, from inside which wpa_sm_step() may drop marks   *)
(* again.  MarksInv counts the marks of the stations already called, and   *)
(* knows that a station without an entry, which is not called, has none.   *)
(***************************************************************************)
EXTENDS WpaAuthLoop

SingleGroup == Len(GroupSeq) = 1

Count == group[DefaultGroup].GKeyDoneStations

Called == {s \in STA \ todo : sm[s].GUpdateStationKeys}

MarksInv ==
    /\ Count = Cardinality(Called)
    /\ \A s \in STA : sm[s].assoc = "none" => ~sm[s].GUpdateStationKeys
    /\ \A s \in todo : sm[s].assoc # "none"

\* Record n has the mark of record m.
SameMark(m, n) ==
    /\ n.GUpdateStationKeys = m.GUpdateStationKeys
    /\ n.assoc = "none" => m.assoc = "none"

\* A step that leaves the marks and the count alone.
KeepsMarks ==
    /\ \A t \in STA : SameMark(sm[t], sm'[t])
    /\ Count' = Count

\* A step that clears the mark of s and counts it down.
DropsMark(s) ==
    /\ ~sm'[s].GUpdateStationKeys
    /\ \A t \in STA \ {s} : sm'[t] = sm[t]
    /\ Count' = IF sm[s].GUpdateStationKeys THEN Count - 1 ELSE Count

-----------------------------------------------------------------------------
(* The two kinds of step preserve MarksInv.                                *)

\* With one group every station is in the default group.
LEMMA SingleGroupIsDefault ==
    ASSUME SingleGroup
    PROVE  Group = {DefaultGroup}
  BY ConstantAssumption DEF SingleGroup, Group, DefaultGroup

\* A step that keeps the marks keeps the invariant.
LEMMA KeepsInv ==
    ASSUME TypeOK, MarksInv, KeepsMarks, todo' = todo
    PROVE  MarksInv'
  <1>1. Called' = Called
    BY DEF Called, KeepsMarks, SameMark
  <1> QED
    BY <1>1 DEF MarksInv, KeepsMarks, SameMark, TypeOK

\* A step that drops the mark of a called station keeps the invariant.
LEMMA DropsInv ==
    ASSUME TypeOK, MarksInv, NEW s \in STA \ todo, DropsMark(s), todo' = todo
    PROVE  MarksInv'
  <1>1. Called' = Called \ {s}
    BY DEF Called, DropsMark
  <1>2. IsFiniteSet(Called)
    BY ConstantAssumption, FS_Subset DEF Called
  <1>3. Cardinality(Called \ {s})
          = IF s \in Called THEN Cardinality(Called) - 1 ELSE Cardinality(Called)
    BY <1>2, FS_RemoveElement
  <1>4. s \in Called <=> sm[s].GUpdateStationKeys
    BY DEF Called
  <1> QED
    BY <1>1, <1>3, <1>4 DEF MarksInv, DropsMark, TypeOK

\* A step of station s that keeps its mark.
LEMMA StationKeeps ==
    ASSUME NEW s \in STA, \A t \in STA \ {s} : sm'[t] = sm[t],
           SameMark(sm[s], sm'[s]), Count' = Count
    PROVE  KeepsMarks
  BY DEF KeepsMarks, SameMark

\* The loop head does not touch the count.
LEMMA ClearChangedCount ==
    ASSUME group \in Groups, group' = ClearChanged(group)
    PROVE  Count' = Count
  BY DefaultGroupType DEF Count, ClearChanged, Groups, WpaGroup

\* DropMark counts a mark down in the group of its station.
LEMMA DropMarkCount ==
    ASSUME SingleGroup, NEW gr \in Groups, NEW m \in WpaStateMachine
    PROVE  DropMark(gr, m)[DefaultGroup].GKeyDoneStations =
             IF m.GUpdateStationKeys
             THEN gr[DefaultGroup].GKeyDoneStations - 1
             ELSE gr[DefaultGroup].GKeyDoneStations
  <1>1. m.group = DefaultGroup
    BY SingleGroupIsDefault DEF WpaStateMachine
  <1> QED
    BY <1>1, DefaultGroupType DEF DropMark, Groups, WpaGroup

-----------------------------------------------------------------------------
(* One lemma for each part of the next-state relation.                     *)

\* The 4-way handshake machine: only INITIALIZE drops a mark.
LEMMA PtkMarks ==
    ASSUME SingleGroup, TypeOK, MarksInv, NEW s \in STA, WPA_PTK(s)
    PROVE  MarksInv'
  <1>0. sm[s] \in WpaStateMachine /\ sm \in SMs /\ group \in Groups
    BY DEF TypeOK, SMs, Groups
  <1>1. pc = "ptk" /\ cur = s /\ todo' = todo
    BY DEF WPA_PTK, PTK_stay, PTK_INITIALIZE, PTK_DISCONNECT, PTK_DISCONNECTED,
           PTK_AUTHENTICATION, PTK_AUTHENTICATION2, PTK_INITPMK, PTK_INITPSK,
           PTK_PTKSTART, PTK_PTKCALCNEGOTIATING, PTK_PTKCALCNEGOTIATING2,
           PTK_PTKINITNEGOTIATING, PTK_PTKINITDONE, EnterPtk, GoTo
  <1>2. s \in STA \ todo
    BY <1>1 DEF TypeOK
  <1>3. \A t \in STA \ {s} : sm'[t] = sm[t]
    BY <1>0 DEF WPA_PTK, PTK_stay, PTK_INITIALIZE, PTK_DISCONNECT,
           PTK_DISCONNECTED, PTK_AUTHENTICATION, PTK_AUTHENTICATION2,
           PTK_INITPMK, PTK_INITPSK, PTK_PTKSTART, PTK_PTKCALCNEGOTIATING,
           PTK_PTKCALCNEGOTIATING2, PTK_PTKINITNEGOTIATING, PTK_PTKINITDONE,
           EnterPtk, SMs
  <1>4. ASSUME SameMark(sm[s], sm'[s]), group' = ClearChanged(group)
        PROVE  MarksInv'
    BY <1>0, <1>1, <1>3, <1>4, ClearChangedCount, StationKeeps, KeepsInv
  <1>5. CASE PTK_INITIALIZE(s)
    <2>1. ~sm'[s].GUpdateStationKeys
      BY <1>0, <1>5 DEF PTK_INITIALIZE, EnterPtk, SMs, WpaStateMachine,
                        wpa_remove_ptk
    <2>2. Count' = IF sm[s].GUpdateStationKeys THEN Count - 1 ELSE Count
      <3>1. ClearChanged(group)[DefaultGroup].GKeyDoneStations = Count
        BY <1>0, DefaultGroupType DEF Count, ClearChanged, Groups, WpaGroup
      <3> QED
        BY <1>0, <1>5, <3>1, ClearChangedType, DropMarkCount
           DEF PTK_INITIALIZE, Count
    <2> QED
      BY <1>1, <1>2, <1>3, <2>1, <2>2, DropsInv DEF DropsMark
  <1>6. CASE PTK_stay(s)
    BY <1>0, <1>4, <1>6 DEF PTK_stay, SameMark, SMs, WpaStateMachine
  <1>7. CASE PTK_DISCONNECT(s)
    BY <1>0, <1>4, <1>7 DEF PTK_DISCONNECT, EnterPtk, wpa_sta_disconnect,
       SameMark, SMs, WpaStateMachine
  <1>7a. CASE PTK_DISCONNECTED(s)
    BY <1>0, <1>4, <1>7a DEF PTK_DISCONNECTED, EnterPtk, SameMark, SMs,
       WpaStateMachine
  <1>7b. CASE PTK_AUTHENTICATION(s)
    BY <1>0, <1>4, <1>7b DEF PTK_AUTHENTICATION, EnterPtk, SameMark, SMs,
       WpaStateMachine
  <1>8. ASSUME NEW ready \in BOOLEAN, PTK_AUTHENTICATION2(s, ready)
        PROVE  MarksInv'
    <2>1. SameMark(sm[s], sm'[s])
      BY <1>0, <1>8 DEF PTK_AUTHENTICATION2, EnterPtk, SameMark, SMs,
                        WpaStateMachine
    <2>2. Count' = Count
      BY <1>0, <1>8, DefaultGroupType DEF PTK_AUTHENTICATION2, ClearChanged,
         wpa_group_first_station, Count, Groups, WpaGroup
    <2> QED
      BY <1>1, <1>3, <2>1, <2>2, StationKeeps, KeepsInv
  <1>9. CASE PTK_INITPMK(s)
    BY <1>0, <1>4, <1>9 DEF PTK_INITPMK, EnterPtk, SameMark, SMs, WpaStateMachine
  <1>9a. CASE PTK_INITPSK(s)
    BY <1>0, <1>4, <1>9a DEF PTK_INITPSK, EnterPtk, SameMark, SMs, WpaStateMachine
  <1>9b. CASE PTK_PTKCALCNEGOTIATING2(s)
    BY <1>0, <1>4, <1>9b DEF PTK_PTKCALCNEGOTIATING2, EnterPtk, SameMark, SMs,
       WpaStateMachine
  <1>10. CASE PTK_PTKSTART(s)
    BY <1>0, <1>4, <1>10 DEF PTK_PTKSTART, EnterPtk, wpa_send_eapol, SameMark,
       SMs, WpaStateMachine
  <1>11. ASSUME NEW ok \in BOOLEAN, PTK_PTKCALCNEGOTIATING(s, ok)
         PROVE  MarksInv'
    BY <1>0, <1>4, <1>11 DEF PTK_PTKCALCNEGOTIATING, EnterPtk,
       cancel_eapol_timeout, SameMark, SMs, WpaStateMachine
  <1>12. CASE PTK_PTKINITNEGOTIATING(s)
    BY <1>0, <1>4, <1>12 DEF PTK_PTKINITNEGOTIATING, EnterPtk, wpa_send_eapol,
       SameMark, SMs, WpaStateMachine
  <1>13. ASSUME NEW ok \in BOOLEAN, PTK_PTKINITDONE(s, ok)
         PROVE  MarksInv'
    BY <1>0, <1>4, <1>13 DEF PTK_PTKINITDONE, EnterPtk, wpa_sta_disconnect,
       SameMark, SMs, WpaStateMachine
  <1> QED
    BY <1>5, <1>6, <1>7, <1>7a, <1>7b, <1>8, <1>9, <1>9a, <1>9b, <1>10, <1>11,
       <1>12, <1>13 DEF WPA_PTK

\* The group key handshake machine: REKEYESTABLISHED and KEYERROR drop a mark.
LEMMA PtkGroupMarks ==
    ASSUME SingleGroup, TypeOK, MarksInv, NEW s \in STA, WPA_PTK_GROUP(s)
    PROVE  MarksInv'
  <1>0. sm[s] \in WpaStateMachine /\ sm \in SMs /\ group \in Groups
    BY DEF TypeOK, SMs, Groups
  <1>1. pc = "grp" /\ cur = s /\ todo' = todo
    BY DEF WPA_PTK_GROUP, GROUP_stay, GROUP_IDLE, GROUP_REKEYNEGOTIATING,
           GROUP_REKEYESTABLISHED, GROUP_KEYERROR, EnterGroup, GoTo
  <1>2. s \in STA \ todo
    BY <1>1 DEF TypeOK
  <1>3. \A t \in STA \ {s} : sm'[t] = sm[t]
    BY <1>0 DEF WPA_PTK_GROUP, GROUP_stay, GROUP_IDLE, GROUP_REKEYNEGOTIATING,
           GROUP_REKEYESTABLISHED, GROUP_KEYERROR, EnterGroup, SMs
  <1>4. ASSUME SameMark(sm[s], sm'[s]), UNCHANGED group
        PROVE  MarksInv'
    BY <1>1, <1>3, <1>4, StationKeeps, KeepsInv DEF Count
  <1>5. ASSUME ~sm'[s].GUpdateStationKeys, group' = DropMark(group, sm[s])
        PROVE  MarksInv'
    BY <1>0, <1>1, <1>2, <1>3, <1>5, DropMarkCount, DropsInv DEF DropsMark, Count
  <1>6. CASE GROUP_stay(s)
    BY <1>4, <1>6 DEF GROUP_stay, SameMark
  <1>7. CASE GROUP_IDLE(s)
    BY <1>0, <1>4, <1>7 DEF GROUP_IDLE, EnterGroup, SameMark, SMs, WpaStateMachine
  <1>8. CASE GROUP_REKEYNEGOTIATING(s)
    BY <1>0, <1>4, <1>8 DEF GROUP_REKEYNEGOTIATING, EnterGroup, wpa_send_eapol,
       SameMark, SMs, WpaStateMachine
  <1>9. CASE GROUP_REKEYESTABLISHED(s)
    BY <1>0, <1>5, <1>9 DEF GROUP_REKEYESTABLISHED, EnterGroup, SMs,
       WpaStateMachine
  <1>10. CASE GROUP_KEYERROR(s)
    BY <1>0, <1>5, <1>10 DEF GROUP_KEYERROR, EnterGroup, SMs, WpaStateMachine
  <1> QED
    BY <1>6, <1>7, <1>8, <1>9, <1>10 DEF WPA_PTK_GROUP

\* The end of the loop: neither marks nor count change.
LEMMA GsmMarks ==
    ASSUME TypeOK, MarksInv, NEW s \in STA, GSM_setkeysdone(s) \/ GSM_stay(s)
    PROVE  MarksInv'
  <1>1. sm' = sm /\ pc = "gsm"
    BY DEF GSM_setkeysdone, GSM_stay
  <1>2. todo' = todo
    BY DEF GSM_setkeysdone, GSM_stay, LoopEnd, GoTo, Finish, TypeOK
  <1>3. Count' = Count
    <2>1. group \in Groups /\ sm[s].group \in Group
      BY DEF TypeOK, Groups, WpaStateMachine
    <2> QED
      BY <2>1, DefaultGroupType DEF GSM_setkeysdone, GSM_stay,
         wpa_group_setkeysdone, Count, Groups, WpaGroup
  <1> QED
    BY <1>1, <1>2, <1>3, KeepsInv DEF KeepsMarks, SameMark

\* wpa_rekey_gtk: setkeys zeroes the count when no station is called yet.
LEMMA RekeyMarks ==
    ASSUME SingleGroup, TypeOK, MarksInv, RunRekey
    PROVE  MarksInv'
  <1> DEFINE g == Head(rekeyq)
  <1>0. /\ group \in Groups /\ rekeyq \in Seq(Group)
        /\ rekeyq # <<>> /\ g \in Group
    BY DEF TypeOK, Groups, RunRekey, REKEY_setkeysdone, REKEY_setkeys,
           REKEY_stay, EACH_done
  <1> HIDE DEF g
  <1>1. ASSUME sm' = sm, todo' = todo, Count' = Count
        PROVE  MarksInv'
    BY <1>1, KeepsInv DEF KeepsMarks, SameMark
  <1>2. ASSUME NEW gr \in Groups, NextGroup(gr), todo = {},
               gr[DefaultGroup].GKeyDoneStations = Count
        PROVE  todo' = todo /\ Count' = Count
    <2>1. todo' = todo
      BY <1>2 DEF NextGroup, Finish
    <2>2. ASSUME NEW h \in Group, group' = RequestGTKReKey(gr, h)
          PROVE  Count' = Count
      BY <1>2, <2>2, DefaultGroupType DEF RequestGTKReKey, Count, Groups, WpaGroup
    <2>3. ASSUME group' = gr
          PROVE  Count' = Count
      BY <1>2, <2>3 DEF Count
    <2>4. Len(rekeyq) > 1 => rekeyq[2] \in Group
      BY <1>0
    <2> QED
      BY <1>2, <2>1, <2>2, <2>3, <2>4 DEF NextGroup
  <1>3. CASE REKEY_setkeysdone
    <2>1. Count' = Count
      BY <1>0, <1>3, DefaultGroupType DEF g, REKEY_setkeysdone,
         wpa_group_setkeysdone, Count, Groups, WpaGroup
    <2> QED
      BY <1>1, <1>3, <2>1 DEF REKEY_setkeysdone, GoTo
  <1>4. CASE REKEY_setkeys
    <2>1. sm' = sm /\ todo' = {s \in STA : Known(s)} /\ todo = {}
      BY <1>4 DEF REKEY_setkeys, TypeOK
    <2>2. Called' = {}
      BY <2>1 DEF Called, Known, MarksInv
    <2>3. Cardinality(Called') = 0
      BY <2>2, FS_EmptySet
    <2>4. Count' = 0
      <3> DEFINE r == [group[g] EXCEPT !.state = "SETKEYS", !.changed = TRUE,
                                       !.GTKReKey = FALSE,
                                       !.GKeyDoneStations = 0]
      <3>1. group' = [group EXCEPT ![g] = r]
        BY <1>4 DEF REKEY_setkeys, g
      <3>2. r.GKeyDoneStations = 0
        BY <1>0 DEF Groups, WpaGroup
      <3>3. g = DefaultGroup
        BY <1>0, SingleGroupIsDefault
      <3> QED
        BY <1>0, <3>1, <3>2, <3>3 DEF Count, Groups
    <2> QED
      BY <2>1, <2>3, <2>4 DEF MarksInv, Known
  <1>5. CASE REKEY_stay
    <2> DEFINE gr == [group EXCEPT ![g].changed = FALSE]
    <2>1. gr \in Groups
      BY <1>0 DEF Groups, WpaGroup
    <2>2. gr[DefaultGroup].GKeyDoneStations = Count
      BY <1>0, DefaultGroupType DEF Groups, WpaGroup, Count
    <2>3. NextGroup(gr) /\ todo = {} /\ sm' = sm
      BY <1>5 DEF REKEY_stay, TypeOK, g
    <2> HIDE DEF gr
    <2> QED
      BY <1>1, <1>2, <2>1, <2>2, <2>3
  <1>6. CASE EACH_done
    <2>1. CASE UNCHANGED group /\ GoTo("rekey")
      BY <1>1, <1>6, <2>1 DEF EACH_done, GoTo, Count
    <2>2. CASE NextGroup(group)
      BY <1>0, <1>1, <1>2, <1>6, <2>2 DEF EACH_done, Count
    <2> QED
      BY <1>6, <2>1, <2>2 DEF EACH_done
  <1> QED
    BY <1>3, <1>4, <1>5, <1>6 DEF RunRekey

\* wpa_group_update_sta: a station that is called is marked and counted, or
\* neither.
LEMMA UpdateStaMarks ==
    ASSUME SingleGroup, TypeOK, MarksInv, NEW s \in STA, wpa_group_update_sta(s)
    PROVE  MarksInv'
  <1>0. /\ sm[s] \in WpaStateMachine /\ sm \in SMs /\ group \in Groups
        /\ s \in todo /\ todo' = todo \ {s} /\ todo \subseteq STA
        /\ s \notin Called
    BY DEF TypeOK, SMs, Groups, wpa_group_update_sta, EACH_skip, EACH_mark, Called
  <1>1. \A t \in STA \ {s} : sm'[t] = sm[t]
    BY <1>0 DEF wpa_group_update_sta, EACH_skip, EACH_mark, SMs
  <1>2. CASE EACH_skip(s)
    <2>1. /\ ~sm'[s].GUpdateStationKeys /\ Count' = Count
          /\ sm'[s].assoc = sm[s].assoc
      BY <1>0, <1>2 DEF EACH_skip, SMs, WpaStateMachine, Count
    <2>2. Called' = Called
      BY <1>0, <1>1, <2>1 DEF Called
    <2> QED
      BY <1>0, <1>1, <2>1, <2>2 DEF MarksInv
  <1>3. CASE EACH_mark(s)
    <2>1. sm'[s].GUpdateStationKeys /\ sm'[s].assoc = sm[s].assoc
      BY <1>0, <1>3 DEF EACH_mark, SMs, WpaStateMachine
    <2>2. Count' = Count + 1
      <3>1. sm[s].group = DefaultGroup
        BY <1>0, SingleGroupIsDefault DEF WpaStateMachine
      <3> QED
        BY <1>0, <1>3, <3>1, DefaultGroupType DEF EACH_mark, Count, Groups, WpaGroup
    <2>3. Called' = Called \cup {s}
      BY <1>0, <1>1, <2>1 DEF Called
    <2>4. Cardinality(Called \cup {s}) = Cardinality(Called) + 1
      <3>1. IsFiniteSet(Called)
        BY ConstantAssumption, FS_Subset DEF Called
      <3> QED
        BY <1>0, <3>1, FS_AddElement
    <2>5. sm[s].assoc # "none"
      BY <1>0 DEF MarksInv
    <2> QED
      BY <1>0, <1>1, <2>1, <2>2, <2>3, <2>4, <2>5 DEF MarksInv
  <1> QED
    BY <1>2, <1>3 DEF wpa_group_update_sta

\* The rest of an event: reauthentication and removal drop the mark.
LEMMA ContMarks ==
    ASSUME SingleGroup, TypeOK, MarksInv, NEW s \in STA,
           \/ CONT_assoc(s) \/ CONT_auth(s) \/ CONT_reauth(s)
           \/ CONT_free(s) \/ CONT_recv(s)
    PROVE  MarksInv'
  <1>0. /\ sm[s] \in WpaStateMachine /\ sm \in SMs /\ group \in Groups
        /\ todo = {} /\ todo' = {} /\ s \in STA \ todo
    BY DEF TypeOK, SMs, Groups, CONT_assoc, CONT_auth, CONT_reauth, CONT_free,
           CONT_recv, StepLoop, Finish
  <1>1. \A t \in STA \ {s} : sm'[t] = sm[t]
    BY <1>0 DEF CONT_assoc, CONT_auth, CONT_reauth, CONT_free, CONT_recv,
                wpa_auth_sta_deinit, SMs
  <1>2. ASSUME SameMark(sm[s], sm'[s]), UNCHANGED group
        PROVE  MarksInv'
    BY <1>0, <1>1, <1>2, StationKeeps, KeepsInv DEF Count
  <1>3. ASSUME ~sm'[s].GUpdateStationKeys, group' = DropMark(group, sm[s])
        PROVE  MarksInv'
    BY <1>0, <1>1, <1>3, DropMarkCount, DropsInv DEF DropsMark, Count
  <1>b. ASSUME NEW b \in ieee802_1x_new_station(s)
        PROVE  /\ b \in WpaStateMachine /\ SameMark(sm[s], b)
               /\ DropMark(group, b) = DropMark(group, sm[s])
    <2>1. b \in WpaStateMachine
      BY <1>0, NewStationType
    <2>2. CASE b = sm[s]
      BY <1>0, <2>1, <2>2 DEF SameMark
    <2>3. ASSUME NEW g \in Group,
                 b = [sm[s] EXCEPT !.keyRun = TRUE, !.keyAvailable = TRUE, !.group = g]
          PROVE  /\ SameMark(sm[s], b) /\ b.group = sm[s].group
                 /\ b.GUpdateStationKeys = sm[s].GUpdateStationKeys
      BY <1>0, <2>3, SingleGroupIsDefault DEF SameMark, WpaStateMachine
    <2>4. b = sm[s] \/ \E g \in Group :
            b = [sm[s] EXCEPT !.keyRun = TRUE, !.keyAvailable = TRUE, !.group = g]
      BY <1>0, NewStationType
    <2> QED
      BY <2>1, <2>2, <2>3, <2>4 DEF DropMark
  <1>4. CASE CONT_assoc(s)
    <2>1. PICK b \in ieee802_1x_new_station(s) :
            \/ sm' = [sm EXCEPT ![s] = [b EXCEPT !.replay_valid = FALSE,
                                                 !.ReAuthenticationRequest = TRUE]]
            \/ sm' = [sm EXCEPT ![s] = [b EXCEPT !.started = TRUE, !.Init = TRUE]]
      BY <1>4 DEF CONT_assoc
    <2>2. b \in WpaStateMachine /\ SameMark(sm[s], b)
      BY <1>b
    <2>3. ASSUME NEW n, sm' = [sm EXCEPT ![s] = n], n.assoc = b.assoc,
                 n.GUpdateStationKeys = b.GUpdateStationKeys
          PROVE  SameMark(sm[s], sm'[s])
      BY <1>0, <2>2, <2>3 DEF SameMark, SMs
    <2>4. SameMark(sm[s], sm'[s])
      BY <2>1, <2>2, <2>3 DEF WpaStateMachine
    <2> QED
      BY <1>2, <1>4, <2>4 DEF CONT_assoc
  <1>5. CASE CONT_auth(s)
    BY <1>0, <1>2, <1>5 DEF CONT_auth, SameMark, SMs, WpaStateMachine
  <1>6. CASE CONT_reauth(s)
    <2>1. PICK b \in ieee802_1x_new_station(s) :
            /\ sm' = [sm EXCEPT ![s] = wpa_remove_ptk(Reauthenticate(b))]
            /\ group' = DropMark(group, b)
      BY <1>6 DEF CONT_reauth
    <2>2. ~sm'[s].GUpdateStationKeys
      BY <1>0, <1>b, <2>1 DEF Reauthenticate, wpa_remove_ptk, SMs, WpaStateMachine
    <2> QED
      BY <1>3, <1>b, <2>1, <2>2
  <1>7. CASE CONT_free(s)
    BY <1>0, <1>3, <1>7 DEF CONT_free, wpa_auth_sta_deinit, wpa_auth_sta_init, SMs
  <1>8. CASE CONT_recv(s)
    BY <1>0, <1>2, <1>8 DEF CONT_recv, SameMark, SMs, WpaStateMachine
  <1> QED
    BY <1>4, <1>5, <1>6, <1>7, <1>8

\* No received frame changes a mark before the machines run.
LEMMA ReceiveMarks ==
    ASSUME TypeOK, MarksInv, NEW s \in STA, wpa_receive(s)
    PROVE  MarksInv'
  <1>0. sm[s] \in WpaStateMachine /\ sm \in SMs /\ group \in Groups
    BY DEF TypeOK, SMs, Groups
  <1>1. pc = "idle" /\ todo = {} /\ todo' = todo
    BY DEF wpa_receive, wpa_receive_entropy, wpa_receive_ie_mismatch,
           wpa_receive_bad_mic, wpa_receive_key, wpa_receive_request,
           wpa_receive_request_gtk, Receivable, TypeOK, StepLoop, StartRekey, stack
  <1>2. \A t \in STA \ {s} : sm'[t] = sm[t]
    BY <1>0 DEF wpa_receive, wpa_receive_entropy, wpa_receive_ie_mismatch,
           wpa_receive_bad_mic, wpa_receive_key, wpa_receive_request,
           wpa_receive_request_gtk, SMs
  <1>3. ASSUME SameMark(sm[s], sm'[s]), Count' = Count
        PROVE  MarksInv'
    BY <1>1, <1>2, <1>3, StationKeeps, KeepsInv
  <1>4. CASE wpa_receive_entropy(s)
    <2>1. Count' = Count
      BY <1>0, <1>4, DefaultGroupType DEF wpa_receive_entropy, Count, Groups,
         WpaGroup
    <2>2. SameMark(sm[s], sm'[s])
      BY <1>0, <1>4 DEF wpa_receive_entropy, wpa_sta_disconnect, SameMark, SMs,
         WpaStateMachine
    <2> QED
      BY <1>3, <2>1, <2>2
  <1>5. CASE wpa_receive_ie_mismatch(s)
    BY <1>0, <1>3, <1>5 DEF wpa_receive_ie_mismatch, wpa_sta_disconnect,
       SameMark, SMs, WpaStateMachine, Count
  <1>6. ASSUME NEW kind \in KeyKinds, wpa_receive_bad_mic(s, kind)
        PROVE  MarksInv'
    BY <1>0, <1>3, <1>6 DEF wpa_receive_bad_mic, SameMark, SMs,
       WpaStateMachine, Count
  <1>v. SameMark(sm[s], VerifyMIC(sm[s]))
    BY <1>0 DEF VerifyMIC, cancel_eapol_timeout, SameMark, WpaStateMachine
  <1>t. VerifyMIC(sm[s]) \in WpaStateMachine
    BY <1>0, VerifyMICType
  <1>7. ASSUME NEW kind \in KeyKinds, wpa_receive_key(s, kind)
        PROVE  MarksInv'
    <2>1. SameMark(VerifyMIC(sm[s]), sm'[s])
      BY <1>0, <1>t, <1>7 DEF wpa_receive_key, SameMark, SMs, WpaStateMachine
    <2> QED
      BY <1>3, <1>7, <1>v, <2>1 DEF wpa_receive_key, SameMark, Count
  <1>8. ASSUME NEW kind \in KeyKinds, wpa_receive_request(s, kind)
        PROVE  MarksInv'
    <2>1. SameMark(VerifyMIC(sm[s]), sm'[s])
      BY <1>0, <1>t, <1>8 DEF wpa_receive_request, wpa_request_new_ptk,
         SameMark, SMs, WpaStateMachine
    <2> QED
      BY <1>3, <1>8, <1>v, <2>1 DEF wpa_receive_request, SameMark, Count
  <1>9. CASE wpa_receive_request_gtk(s)
    <2>1. sm'[s] = VerifyMIC(sm[s])
      BY <1>0, <1>9 DEF wpa_receive_request_gtk, SMs
    <2>2. Count' = Count
      BY <1>0, <1>9, DefaultGroupType DEF wpa_receive_request_gtk, StartRekey,
         RequestGTKReKey, Count, Groups, WpaGroup
    <2> QED
      BY <1>3, <1>v, <2>1, <2>2
  <1> QED
    BY <1>4, <1>5, <1>6, <1>7, <1>8, <1>9 DEF wpa_receive

\* The events of a station: reauthentication and removal drop its mark, and a
\* new entry has none.
LEMMA StationEventMarks ==
    ASSUME SingleGroup, TypeOK, MarksInv, NEW s \in STA, StationEvent(s)
    PROVE  MarksInv'
  <1>0. sm[s] \in WpaStateMachine /\ sm \in SMs /\ group \in Groups
    BY DEF TypeOK, SMs, Groups
  <1>1. CASE wpa_receive(s)
    BY <1>1, ReceiveMarks
  <1>2. ASSUME \A t \in STA \ {s} : sm'[t] = sm[t], SameMark(sm[s], sm'[s]),
               UNCHANGED group, StepLoop(s, cont') \/ UNCHANGED stack
        PROVE  MarksInv'
    BY <1>2, StationKeeps, KeepsInv DEF Count, StepLoop, stack
  <1>3. ASSUME \A t \in STA \ {s} : sm'[t] = sm[t], pc = "idle",
               ~sm'[s].GUpdateStationKeys, group' = DropMark(group, sm[s]),
               StepLoop(s, cont') \/ UNCHANGED stack
        PROVE  MarksInv'
    <2>1. s \in STA \ todo /\ todo' = todo
      BY <1>3 DEF TypeOK, StepLoop, stack
    <2> QED
      BY <1>0, <1>3, <2>1, DropMarkCount, DropsInv DEF DropsMark, Count
  <1>4. CASE handle_assoc(s)
    <2>1. ~sm[s].GUpdateStationKeys /\ sm[s].assoc = "none"
      BY <1>4 DEF handle_assoc, Known, MarksInv
    <2>2. SameMark(sm[s], sm'[s])
      BY <1>0, <1>4, <2>1 DEF handle_assoc, SameMark, SMs, wpa_auth_sta_init,
         WpaStateMachine
    <2> QED
      BY <1>0, <1>2, <1>4, <2>2 DEF handle_assoc, SMs
  <1>5. CASE handle_auth(s)
    BY <1>0, <1>2, <1>5 DEF handle_auth, wpa_remove_ptk, SameMark, SMs,
       WpaStateMachine, StepLoop
  <1>6. CASE handle_assoc_cb(s)
    <2>1. PICK g \in Group :
            sm' = [sm EXCEPT ![s] = [wpa_remove_ptk(sm[s]) EXCEPT !.assoc = "assoc", !.group = g]]
      BY <1>6 DEF handle_assoc_cb
    <2>2. SameMark(sm[s], sm'[s]) /\ \A t \in STA \ {s} : sm'[t] = sm[t]
      BY <1>0, <2>1, SingleGroupIsDefault DEF wpa_remove_ptk, SameMark, SMs, WpaStateMachine
    <2> QED
      BY <1>2, <1>6, <2>2 DEF handle_assoc_cb, StepLoop
  <1>d. SameMark(sm[s], Deauthenticate(sm[s]))
    BY <1>0 DEF Deauthenticate, ieee802_1x_free_station, wpa_remove_ptk,
       SameMark, WpaStateMachine
  <1>7. CASE handle_disassoc(s)
    BY <1>0, <1>2, <1>7, <1>d DEF handle_disassoc, SMs, StepLoop
  <1>8. CASE handle_deauth(s)
    BY <1>0, <1>2, <1>8, <1>d DEF handle_deauth, SMs, StepLoop
  <1>9. CASE ap_handle_timer_disassoc(s)
    BY <1>0, <1>2, <1>9 DEF ap_handle_timer_disassoc, ieee802_1x_free_station,
       SameMark, SMs, WpaStateMachine
  <1>10. CASE ap_handle_timer_remove(s)
    BY <1>0, <1>3, <1>10 DEF ap_handle_timer_remove, wpa_auth_sta_deinit,
       wpa_auth_sta_init, SMs
  <1>11. CASE wpa_reauth_eapol(s)
    BY <1>0, <1>3, <1>11 DEF wpa_reauth_eapol, Reauthenticate, SMs,
       WpaStateMachine, StepLoop
  <1>12. CASE wpa_sm_call_step(s)
    BY <1>2, <1>12 DEF wpa_sm_call_step, SameMark, StepLoop
  <1>13. ASSUME NEW run \in BOOLEAN, NEW avail \in BOOLEAN, eapol_keyRun(s, run, avail)
         PROVE  MarksInv'
    BY <1>0, <1>2, <1>13 DEF eapol_keyRun, SameMark, SMs, WpaStateMachine
  <1>14. ASSUME NEW g \in Group, wpa_auth_sta_set_vlan(s, g)
         PROVE  MarksInv'
    BY <1>0, <1>2, <1>14 DEF wpa_auth_sta_set_vlan, SameMark, SMs, WpaStateMachine
  <1>15. CASE wpa_send_eapol_timeout(s)
    BY <1>0, <1>2, <1>15 DEF wpa_send_eapol_timeout, SameMark, SMs,
       WpaStateMachine, StepLoop
  <1>16. CASE wpa_rekey_ptk(s)
    BY <1>0, <1>2, <1>16 DEF wpa_rekey_ptk, wpa_request_new_ptk, SameMark, SMs,
       WpaStateMachine, StepLoop
  <1> QED
    BY <1>1, <1>4, <1>5, <1>6, <1>7, <1>8, <1>9, <1>10, <1>11, <1>12, <1>13,
       <1>14, <1>15, <1>16 DEF StationEvent

\* MarksInv is an invariant: the count is that of the marked stations which
\* the running wpa_auth_for_each_sta, if there is one, has already called.
THEOREM MarksCorrect ==
    ASSUME SingleGroup
    PROVE  Spec => []MarksInv
  <1>1. Init => MarksInv
    <2> SUFFICES ASSUME Init PROVE MarksInv
      OBVIOUS
    <2>1. Called = {}
      BY DEF Init, Called, wpa_auth_sta_init
    <2>2. Count = 0
      BY DefaultGroupType DEF Init, Count
    <2> QED
      BY <2>1, <2>2, FS_EmptySet DEF MarksInv, Init, wpa_auth_sta_init
  <1>2. TypeOK /\ MarksInv /\ [Next]_vars => MarksInv'
    <2> SUFFICES ASSUME TypeOK, MarksInv, [Next]_vars PROVE MarksInv'
      OBVIOUS
    <2>1. ASSUME NEW s \in STA, Run(s) PROVE MarksInv'
      BY <2>1, PtkMarks, PtkGroupMarks, GsmMarks, ContMarks, UpdateStaMarks DEF Run
    <2>2. ASSUME NEW s \in STA, StationEvent(s) PROVE MarksInv'
      BY <2>2, StationEventMarks
    <2>3. CASE RunRekey
      BY <2>3, RekeyMarks
    <2>4. CASE wpa_rekey_gtk
      <3>1. sm' = sm /\ todo' = todo
        BY <2>4 DEF wpa_rekey_gtk, StartRekey, TypeOK
      <3>2. Count' = Count
        BY <2>4, DefaultGroupType DEF wpa_rekey_gtk, StartRekey,
           RequestGTKReKey, Count, TypeOK, WpaGroup
      <3> QED
        BY <3>1, <3>2, KeepsInv DEF KeepsMarks, SameMark
    <2>5. CASE UNCHANGED vars
      BY <2>5, KeepsInv DEF vars, KeepsMarks, SameMark, Count
    <2> QED
      BY <2>1, <2>2, <2>3, <2>4, <2>5 DEF Next
  <1> QED
    BY <1>1, <1>2, TypeCorrect, PTL DEF Spec

\* GKeyDoneStations never drifts from the marks: with one group and any number
\* of stations it counts, between events, exactly the stations that have yet to
\* be told the new GTK, whatever order associations, reauthentications,
\* departures, failed handshakes and further rekeyings come in.
THEOREM MarksCountedSingleGroup ==
    ASSUME SingleGroup
    PROVE  Spec => []MarksCounted
  <1>1. TypeOK /\ MarksInv => MarksCounted
    <2> SUFFICES ASSUME TypeOK, MarksInv, pc = "idle", NEW g \in Group
                 PROVE  group[g].GKeyDoneStations = Cardinality(Marked(g))
      BY DEF MarksCounted
    <2>1. g = DefaultGroup /\ \A s \in STA : sm[s].group = g
      BY SingleGroupIsDefault DEF TypeOK, WpaStateMachine
    <2>2. Marked(g) = Called
      BY <2>1 DEF Marked, Called, TypeOK
    <2> QED
      BY <2>1, <2>2 DEF MarksInv, Count
  <1> QED
    BY <1>1, MarksCorrect, TypeCorrect, PTL

-----------------------------------------------------------------------------
(* The end of a GTK rekeying: a group that is in SETKEYSDONE, whose GTK    *)
(* the driver was given for transmission, has no station that still has to *)
(* be told.  It is proved for an authenticator with one group, any number  *)
(* of stations, and a group retry limit of at least 1 (the code's is 4).   *)
(*                                                                         *)
(* The hard part is that wpa_group_sm_step() runs in the loop of every     *)
(* station that wpa_auth_for_each_sta has just marked, when the others are *)
(* not yet marked: the group would be done at once if that station lost    *)
(* its mark in its own loop.  TellingInv says why it does not: the station *)
(* was settled when it was marked (LoopInv), so that its 4-way handshake   *)
(* machine does not move and its group key machine sends message 1/2 at    *)
(* most.  With a retry limit of 0 that machine would give up at once, and  *)
(* KeysDoneMeansAllTold would fail.                                        *)

\* The retry limit of the group key machine is not 0.
GroupRetries == dot11RSNAConfigGroupUpdateCount >= 1

State == group[DefaultGroup].state

\* A station that is being told a new GTK inside wpa_rekey_gtk.
Telling(m) ==
    /\ m.GUpdateStationKeys
    /\ m.wpa_ptk_state = "PTKINITDONE" /\ PtkRequested(m) = "none"
    /\ ~m.PtkGroupInit /\ m.EAPOLKey \notin {"PAIRWISE", "GROUP"}
    /\ \/ m.wpa_ptk_group_state = "IDLE" /\ m.GTimeoutCtr = 0
       \/ /\ m.wpa_ptk_group_state = "REKEYNEGOTIATING"
          /\ m.GTimeoutCtr <= dot11RSNAConfigGroupUpdateCount
          /\ ~m.TimeoutEvt

TellingInv == InLoop /\ rekeyq # <<>> => Telling(sm[cur])

\* A group that is done awaits no station.  By MarksInv a count of 0 says that
\* no station is marked.
DoneInv == State = "SETKEYSDONE" => todo = {} /\ Count = 0

-----------------------------------------------------------------------------
(* TellingInv.                                                             *)

\* The 4-way handshake machine of a station that is being told stays.
LEMMA TellingPtkStays ==
    ASSUME NEW m \in WpaStateMachine, NEW mgmt, Telling(m)
    PROVE  SM_STEP_WPA_PTK(m, mgmt) = "stay"
  BY DEF Telling, SM_STEP_WPA_PTK, PtkInState

\* Its group key machine stays, or sends message 1/2.
LEMMA TellingGroupStep ==
    ASSUME NEW m \in WpaStateMachine, NEW version, Telling(m)
    PROVE  \/ SM_STEP_WPA_PTK_GROUP(m, version) = "stay"
           \/ /\ SM_STEP_WPA_PTK_GROUP(m, version) = "REKEYNEGOTIATING"
              /\ m.wpa_ptk_group_state = "IDLE"
  BY ConstantAssumption DEF Telling, PtkRequested, SM_STEP_WPA_PTK_GROUP,
     WpaStateMachine, PtkGroupStates

\* The WPA_PTK call of the loop.
LEMMA PtkTelling ==
    ASSUME TypeOK, TellingInv, NEW s \in STA, WPA_PTK(s)
    PROVE  TellingInv'
  <1> DEFINE m == sm[s]
  <1>1. /\ pc = "ptk" /\ cur = s /\ cur' = s /\ rekeyq' = rekeyq
        /\ m \in WpaStateMachine
    BY DEF WPA_PTK, PTK_stay, PTK_INITIALIZE, PTK_DISCONNECT, PTK_DISCONNECTED,
           PTK_AUTHENTICATION, PTK_AUTHENTICATION2, PTK_INITPMK, PTK_INITPSK,
           PTK_PTKSTART, PTK_PTKCALCNEGOTIATING, PTK_PTKCALCNEGOTIATING2,
           PTK_PTKINITNEGOTIATING, PTK_PTKINITDONE, EnterPtk, GoTo, TypeOK
  <1> SUFFICES ASSUME rekeyq # <<>> PROVE Telling(sm'[s])
    BY <1>1 DEF TellingInv
  <1>2. Telling(m) /\ SM_STEP_WPA_PTK(m, KeyMgmt[s]) = "stay"
    BY <1>1, TellingPtkStays DEF TellingInv, InLoop
  <1>3. PTK_stay(s)
    BY <1>2 DEF WPA_PTK, PTK_INITIALIZE, PTK_DISCONNECT, PTK_DISCONNECTED,
           PTK_AUTHENTICATION, PTK_AUTHENTICATION2, PTK_INITPMK, PTK_INITPSK,
           PTK_PTKSTART, PTK_PTKCALCNEGOTIATING, PTK_PTKCALCNEGOTIATING2,
           PTK_PTKINITNEGOTIATING, PTK_PTKINITDONE, EnterPtk
  <1>4. sm'[s] = [m EXCEPT !.changed = FALSE]
    BY <1>3 DEF PTK_stay, TypeOK
  <1> HIDE DEF m
  <1> QED
    BY <1>1, <1>2, <1>4 DEF Telling, PtkRequested, WpaStateMachine

\* The WPA_PTK_GROUP call of the loop.
LEMMA PtkGroupTelling ==
    ASSUME GroupRetries, TypeOK, TellingInv, NEW s \in STA, WPA_PTK_GROUP(s)
    PROVE  TellingInv'
  <1> DEFINE m == sm[s]
  <1>1. /\ pc = "grp" /\ cur = s /\ cur' = s /\ rekeyq' = rekeyq
        /\ m \in WpaStateMachine
    BY DEF WPA_PTK_GROUP, GROUP_stay, GROUP_IDLE, GROUP_REKEYNEGOTIATING,
           GROUP_REKEYESTABLISHED, GROUP_KEYERROR, EnterGroup, GoTo, TypeOK
  <1> SUFFICES ASSUME rekeyq # <<>> PROVE Telling(sm'[s])
    BY <1>1 DEF TellingInv
  <1>2. Telling(m)
    BY <1>1 DEF TellingInv, InLoop
  <1>3. \/ GROUP_stay(s)
        \/ GROUP_REKEYNEGOTIATING(s) /\ m.wpa_ptk_group_state = "IDLE"
    BY <1>1, <1>2, TellingGroupStep DEF WPA_PTK_GROUP, GROUP_stay, GROUP_IDLE,
       GROUP_REKEYNEGOTIATING, GROUP_REKEYESTABLISHED, GROUP_KEYERROR, EnterGroup
  <1>4. CASE GROUP_stay(s)
    BY <1>2, <1>4 DEF GROUP_stay
  <1>5. CASE GROUP_REKEYNEGOTIATING(s) /\ m.wpa_ptk_group_state = "IDLE"
    <2> DEFINE k == [m EXCEPT !.GTimeoutCtr = @ + 1]
               r == IF k.GTimeoutCtr > dot11RSNAConfigGroupUpdateCount
                    THEN k
                    ELSE wpa_send_eapol([k EXCEPT
                           !.PInitAKeys = @ /\ Version[s] # "WPA",
                           !.TimeoutEvt = FALSE])
    <2>1. PICK c : sm'[s] = [r EXCEPT !.wpa_ptk_group_state = "REKEYNEGOTIATING",
                                      !.changed = c]
      BY <1>5 DEF GROUP_REKEYNEGOTIATING, EnterGroup, TypeOK
    <2> HIDE DEF m
    <2>2. r = wpa_send_eapol([k EXCEPT !.PInitAKeys = @ /\ Version[s] # "WPA",
                                       !.TimeoutEvt = FALSE])
      BY <1>1, <1>2, <1>5, ConstantAssumption DEF Telling, GroupRetries,
         WpaStateMachine
    <2>3. m.GTimeoutCtr + 1 <= dot11RSNAConfigGroupUpdateCount
      BY <1>1, <1>2, <1>5, ConstantAssumption DEF Telling, GroupRetries,
         WpaStateMachine
    <2> HIDE DEF r
    <2> QED
      BY <1>1, <1>2, <2>1, <2>2, <2>3 DEF Telling, PtkRequested, wpa_send_eapol,
         WpaStateMachine
  <1> QED
    BY <1>3, <1>4, <1>5

\* A station is settled when it is marked.
LEMMA UpdateStaTelling ==
    ASSUME TypeOK, LoopInv, TellingInv, NEW s \in STA, wpa_group_update_sta(s)
    PROVE  TellingInv'
  <1> DEFINE m == sm[s]
  <1>1. CASE EACH_skip(s)
    BY <1>1 DEF EACH_skip, TellingInv, InLoop
  <1>2. CASE EACH_mark(s)
    <2>1. /\ m \in WpaStateMachine /\ Where(s) = "out" /\ cur' = s
          /\ m.wpa_ptk_state = "PTKINITDONE"
          /\ sm'[s] = [m EXCEPT !.GUpdateStationKeys = TRUE]
      BY <1>2 DEF EACH_mark, TypeOK, Where, InLoop
    <2>2. /\ MachineInv(m, "out", KeyMgmt[s], Version[s])
          /\ m.EAPOLKey \in {"none", "REQUEST"}
      BY <2>1, OutSettled
    <2> HIDE DEF m
    <2>3. Telling(sm'[s])
      BY <2>1, <2>2 DEF MachineInv, PlaceKept, PtkQuiet, GroupQuiet, CountersKept,
         PtkRequested, Telling, WpaStateMachine
    <2> QED
      BY <2>1, <2>3 DEF TellingInv
  <1> QED
    BY <1>1, <1>2 DEF wpa_group_update_sta

\* TellingInv is kept by every step: outside wpa_rekey_gtk it says nothing.
LEMMA TellingStep ==
    ASSUME GroupRetries, TypeOK, LoopInv, TellingInv, [Next]_vars
    PROVE  TellingInv'
  <1>1. ASSUME ~InLoop' \/ rekeyq' = <<>> PROVE TellingInv'
    BY <1>1 DEF TellingInv
  <1>2. ASSUME NEW s \in STA, GSM_setkeysdone(s) \/ GSM_stay(s) PROVE TellingInv'
    <2>1. sm' = sm /\ InLoop
      BY <1>2 DEF GSM_setkeysdone, GSM_stay, InLoop
    <2>2. PICK changed : LoopEnd(s, changed)
      BY <1>2 DEF GSM_setkeysdone, GSM_stay
    <2>3. ~InLoop' \/ (cur' = cur /\ rekeyq' = rekeyq)
      BY <2>2 DEF LoopEnd, GoTo, Finish, InLoop
    <2> QED
      BY <2>1, <2>3 DEF TellingInv
  <1>3. ASSUME NEW s \in STA,
               CONT_assoc(s) \/ CONT_auth(s) \/ CONT_reauth(s) \/ CONT_free(s)
                 \/ CONT_recv(s)
        PROVE  TellingInv'
    BY <1>1, <1>3 DEF CONT_assoc, CONT_auth, CONT_reauth, CONT_free, CONT_recv,
       StepLoop, Finish, TypeOK
  <1>4. ASSUME NEW s \in STA, StationEvent(s) PROVE TellingInv'
    <2>1. CASE wpa_receive(s)
      BY <1>1, <2>1 DEF wpa_receive, wpa_receive_entropy, wpa_receive_ie_mismatch,
         wpa_receive_bad_mic, wpa_receive_key, wpa_receive_request,
         wpa_receive_request_gtk, Receivable, StepLoop, StartRekey, stack, TypeOK,
         InLoop
    <2>2. CASE ~wpa_receive(s)
      BY <1>1, <1>4, <2>2 DEF StationEvent, handle_assoc, handle_auth,
         handle_assoc_cb, handle_disassoc, handle_deauth, ap_handle_timer_disassoc,
         ap_handle_timer_remove, wpa_reauth_eapol, wpa_sm_call_step, eapol_keyRun,
         wpa_auth_sta_set_vlan, wpa_send_eapol_timeout, wpa_rekey_ptk, StepLoop,
         stack, TypeOK
    <2> QED
      BY <2>1, <2>2
  <1>5. CASE RunRekey
    BY <1>1, <1>5 DEF RunRekey, REKEY_setkeysdone, REKEY_setkeys, REKEY_stay,
       EACH_done, NextGroup, GoTo, Finish, InLoop
  <1>6. CASE wpa_rekey_gtk
    BY <1>1, <1>6 DEF wpa_rekey_gtk, StartRekey, InLoop
  <1>7. CASE UNCHANGED vars
    BY <1>7 DEF vars, TellingInv, InLoop
  <1> QED
    BY <1>2, <1>3, <1>4, <1>5, <1>6, <1>7, PtkTelling, PtkGroupTelling,
       UpdateStaTelling DEF Next, Run

-----------------------------------------------------------------------------
(* DoneInv.                                                                *)

\* The groups gr2 have the default group in its state in gr1, counting no more
\* stations.
NoneAdded(gr1, gr2) ==
    /\ gr2[DefaultGroup].state = gr1[DefaultGroup].state
    /\ gr2[DefaultGroup].GKeyDoneStations <= gr1[DefaultGroup].GKeyDoneStations

\* The functions of the groups that neither mark a station nor enter a state.
LEMMA ClearChangedNone ==
    ASSUME NEW gr \in Groups
    PROVE  NoneAdded(gr, ClearChanged(gr))
  BY DefaultGroupType DEF NoneAdded, ClearChanged, Groups, WpaGroup

\* A mark that is dropped is counted down.
LEMMA DropMarkNone ==
    ASSUME NEW gr \in Groups, NEW m \in WpaStateMachine
    PROVE  NoneAdded(gr, DropMark(gr, m))
  <1>1. m.group \in Group
    BY DEF WpaStateMachine
  <1> QED
    BY <1>1, DefaultGroupType DEF NoneAdded, DropMark, Groups, WpaGroup

\* The first station of a group.
LEMMA FirstStationNone ==
    ASSUME NEW gr \in Groups, NEW g \in Group, NEW ready \in BOOLEAN
    PROVE  NoneAdded(gr, wpa_group_first_station(gr, g, ready))
  BY DefaultGroupType DEF NoneAdded, wpa_group_first_station, Groups, WpaGroup

\* The request to rekey a group.
LEMMA RequestGTKReKeyNone ==
    ASSUME NEW gr \in Groups, NEW g \in Group
    PROVE  NoneAdded(gr, RequestGTKReKey(gr, g))
  BY DefaultGroupType DEF NoneAdded, RequestGTKReKey, Groups, WpaGroup

\* Groups that do not change, and two such changes in a row.
LEMMA NoneAddedOrder ==
    /\ \A gr \in Groups : NoneAdded(gr, gr)
    /\ \A gr1, gr2, gr3 \in Groups :
         NoneAdded(gr1, gr2) /\ NoneAdded(gr2, gr3) => NoneAdded(gr1, gr3)
  BY DefaultGroupType DEF NoneAdded, Groups, WpaGroup

\* A step that adds no station keeps DoneInv.
LEMMA NoneAddedDone ==
    ASSUME MarksInv', DoneInv, TypeOK, NoneAdded(group, group'), todo' = todo
    PROVE  DoneInv'
  <1>1. Count' >= 0
    <2>1. IsFiniteSet(Called')
      BY ConstantAssumption, FS_Subset DEF Called
    <2> QED
      BY <2>1, FS_CardinalityType DEF MarksInv
  <1>2. Count \in Int
    BY DefaultGroupType DEF Count, TypeOK, WpaGroup
  <1>3. Count' \in Int
    <2>1. IsFiniteSet(Called')
      BY ConstantAssumption, FS_Subset DEF Called
    <2> QED
      BY <2>1, FS_CardinalityType DEF MarksInv
  <1> QED
    BY <1>1, <1>2, <1>3 DEF DoneInv, NoneAdded, State, Count

\* The machines of a station add none.
LEMMA MachinesNone ==
    ASSUME TypeOK, NEW s \in STA, WPA_PTK(s) \/ WPA_PTK_GROUP(s)
    PROVE  NoneAdded(group, group') /\ todo' = todo
  <1>0. sm[s] \in WpaStateMachine /\ group \in Groups /\ sm[s].group \in Group
    BY SMTT(30) DEF TypeOK, Groups, WpaStateMachine
  <1>1. ClearChanged(group) \in Groups /\ NoneAdded(group, ClearChanged(group))
    BY <1>0, ClearChangedType, ClearChangedNone
  <1>2. CASE WPA_PTK(s)
    <2>1. todo' = todo
      BY <1>2 DEF WPA_PTK, PTK_stay, PTK_INITIALIZE, PTK_DISCONNECT,
         PTK_DISCONNECTED, PTK_AUTHENTICATION, PTK_AUTHENTICATION2, PTK_INITPMK,
         PTK_INITPSK, PTK_PTKSTART, PTK_PTKCALCNEGOTIATING,
         PTK_PTKCALCNEGOTIATING2, PTK_PTKINITNEGOTIATING, PTK_PTKINITDONE,
         EnterPtk, GoTo
    <2>2. CASE PTK_INITIALIZE(s)
      <3>1. group' = DropMark(ClearChanged(group), sm[s])
        BY <2>2 DEF PTK_INITIALIZE
      <3> QED
        BY <1>0, <1>1, <2>1, <3>1, DropMarkType, DropMarkNone, NoneAddedOrder
    <2>3. ASSUME NEW ready \in BOOLEAN, PTK_AUTHENTICATION2(s, ready)
          PROVE  NoneAdded(group, group')
      <3>1. group' = wpa_group_first_station(ClearChanged(group), sm[s].group, ready)
        BY <2>3 DEF PTK_AUTHENTICATION2
      <3> QED
        BY <1>0, <1>1, <3>1, FirstStationType, FirstStationNone, NoneAddedOrder
    <2>4. ASSUME group' = ClearChanged(group) PROVE NoneAdded(group, group')
      BY <1>1, <2>4
    <2> QED
      BY <1>2, <2>1, <2>2, <2>3, <2>4 DEF WPA_PTK, PTK_stay, PTK_DISCONNECT,
         PTK_DISCONNECTED, PTK_AUTHENTICATION, PTK_INITPMK, PTK_INITPSK,
         PTK_PTKSTART, PTK_PTKCALCNEGOTIATING, PTK_PTKCALCNEGOTIATING2,
         PTK_PTKINITNEGOTIATING, PTK_PTKINITDONE
  <1>3. CASE WPA_PTK_GROUP(s)
    <2>1. group' = group \/ group' = DropMark(group, sm[s])
      BY <1>3 DEF WPA_PTK_GROUP, GROUP_stay, GROUP_IDLE, GROUP_REKEYNEGOTIATING,
         GROUP_REKEYESTABLISHED, GROUP_KEYERROR
    <2>2. todo' = todo
      BY <1>3 DEF WPA_PTK_GROUP, GROUP_stay, GROUP_IDLE, GROUP_REKEYNEGOTIATING,
         GROUP_REKEYESTABLISHED, GROUP_KEYERROR, EnterGroup, GoTo
    <2> QED
      BY <1>0, <2>1, <2>2, DropMarkNone, NoneAddedOrder
  <1> QED
    BY <1>2, <1>3

\* The events of a station, and what follows its loop, add none.
LEMMA EventsNone ==
    ASSUME TypeOK, NEW s \in STA,
           \/ CONT_assoc(s) \/ CONT_auth(s) \/ CONT_reauth(s) \/ CONT_free(s)
           \/ CONT_recv(s) \/ StationEvent(s)
    PROVE  NoneAdded(group, group') /\ todo' = todo
  <1>0. sm[s] \in WpaStateMachine /\ group \in Groups /\ sm[s].group \in Group
    BY DEF TypeOK, Groups, WpaStateMachine
  <1>1. CASE CONT_assoc(s) \/ CONT_auth(s) \/ CONT_reauth(s) \/ CONT_free(s)
               \/ CONT_recv(s)
    <2>1. \/ group' = group \/ group' = DropMark(group, sm[s])
          \/ \E b \in ieee802_1x_new_station(s) : group' = DropMark(group, b)
      BY <1>1 DEF CONT_assoc, CONT_auth, CONT_reauth, CONT_free, CONT_recv,
         wpa_auth_sta_deinit
    <2>b. ASSUME NEW b \in ieee802_1x_new_station(s) PROVE b \in WpaStateMachine
      BY <1>0, NewStationType
    <2>2. todo' = todo
      BY <1>1 DEF CONT_assoc, CONT_auth, CONT_reauth, CONT_free, CONT_recv,
         StepLoop, Finish, TypeOK
    <2> QED
      BY <1>0, <2>1, <2>2, <2>b, DropMarkNone, NoneAddedOrder
  <1>2. CASE wpa_receive(s)
    <2>1. pc = "idle" /\ todo = {} /\ todo' = todo
      BY <1>2 DEF wpa_receive, wpa_receive_entropy, wpa_receive_ie_mismatch,
         wpa_receive_bad_mic, wpa_receive_key, wpa_receive_request,
         wpa_receive_request_gtk, Receivable, TypeOK, StepLoop, StartRekey, stack
    <2>2. CASE wpa_receive_entropy(s)
      BY <1>0, <2>1, <2>2, DefaultGroupType DEF wpa_receive_entropy, NoneAdded,
         Groups, WpaGroup
    <2>3. CASE wpa_receive_request_gtk(s)
      BY <1>0, <2>1, <2>3, DefaultGroupType, RequestGTKReKeyNone
         DEF wpa_receive_request_gtk, StartRekey
    <2>4. CASE UNCHANGED group
      BY <1>0, <2>1, <2>4, NoneAddedOrder
    <2> QED
      BY <1>2, <2>2, <2>3, <2>4 DEF wpa_receive, wpa_receive_ie_mismatch,
         wpa_receive_bad_mic, wpa_receive_key, wpa_receive_request
  <1>3. CASE StationEvent(s) /\ ~wpa_receive(s)
    <2>1. group' = group \/ group' = DropMark(group, sm[s])
      BY <1>3 DEF StationEvent, handle_assoc, handle_auth, handle_assoc_cb,
         handle_disassoc, handle_deauth, ap_handle_timer_disassoc,
         ap_handle_timer_remove, wpa_auth_sta_deinit, wpa_reauth_eapol,
         wpa_sm_call_step, eapol_keyRun, wpa_auth_sta_set_vlan,
         wpa_send_eapol_timeout, wpa_rekey_ptk
    <2>2. todo' = todo
      BY <1>3 DEF StationEvent, handle_assoc, handle_auth, handle_assoc_cb,
         handle_disassoc, handle_deauth, ap_handle_timer_disassoc,
         ap_handle_timer_remove, wpa_reauth_eapol, wpa_sm_call_step,
         eapol_keyRun, wpa_auth_sta_set_vlan, wpa_send_eapol_timeout,
         wpa_rekey_ptk, StepLoop, stack
    <2> QED
      BY <1>0, <2>1, <2>2, DropMarkNone, NoneAddedOrder
  <1> QED
    BY <1>1, <1>2, <1>3

\* No station is counted exactly when none of those called is marked.
LEMMA CountZero ==
    ASSUME MarksInv
    PROVE  Count = 0 <=> Called = {}
  <1>1. IsFiniteSet(Called)
    BY ConstantAssumption, FS_Subset DEF Called
  <1> QED
    BY <1>1, FS_EmptySet DEF MarksInv

\* The last call of the loop ends a rekeying when all stations are called and
\* none is marked: the station whose loop runs inside wpa_rekey_gtk is marked.
LEMMA GsmDone ==
    ASSUME SingleGroup, TypeOK, MarksInv, MarksInv', TellingInv, DoneInv,
           NEW s \in STA, GSM_setkeysdone(s) \/ GSM_stay(s)
    PROVE  DoneInv'
  <1>0. /\ sm[s].group = DefaultGroup /\ group \in Groups
        /\ pc = "gsm" /\ cur = s
    BY SingleGroupIsDefault DEF TypeOK, Groups, WpaStateMachine,
       GSM_setkeysdone, GSM_stay
  <1>1. todo' = todo
    BY DEF GSM_setkeysdone, GSM_stay, LoopEnd, GoTo, Finish, TypeOK
  <1>2. CASE GSM_stay(s)
    BY <1>0, <1>1, <1>2, NoneAddedOrder, NoneAddedDone DEF GSM_stay
  <1>3. CASE GSM_setkeysdone(s)
    <2>1. Count = 0 /\ Called = {}
      BY <1>0, <1>3, CountZero DEF GSM_setkeysdone, AllKeysDone, Count
    <2>2. rekeyq = <<>>
      <3>1. s \in STA \ todo
        BY <1>0 DEF TypeOK
      <3> QED
        BY <1>0, <2>1, <3>1 DEF TellingInv, InLoop, Telling, Called
    <2>3. todo = {}
      BY <1>0, <2>2 DEF TypeOK
    <2>4. Count' = Count
      BY <1>0, <1>3, DefaultGroupType DEF GSM_setkeysdone, wpa_group_setkeysdone,
         Count, Groups, WpaGroup
    <2> QED
      BY <1>1, <2>1, <2>3, <2>4 DEF DoneInv
  <1> QED
    BY <1>2, <1>3

\* wpa_rekey_gtk outside its callbacks: a new rekeying leaves SETKEYSDONE before
\* the first station is called.
LEMMA RekeyDone ==
    ASSUME SingleGroup, TypeOK, MarksInv, MarksInv', DoneInv, RunRekey
    PROVE  DoneInv'
  <1> DEFINE g == Head(rekeyq)
  <1>0. /\ group \in Groups /\ rekeyq \in Seq(Group)
        /\ rekeyq # <<>> /\ g \in Group
    BY DEF TypeOK, Groups, RunRekey, REKEY_setkeysdone, REKEY_setkeys,
           REKEY_stay, EACH_done
  <1>1. g = DefaultGroup
    BY <1>0, SingleGroupIsDefault
  <1> HIDE DEF g
  <1>2. ASSUME NEW gr \in Groups, NextGroup(gr), todo = {}, NoneAdded(group, gr)
        PROVE  DoneInv'
    <2>1. todo' = todo
      BY <1>2 DEF NextGroup, Finish
    <2>2. Len(rekeyq) > 1 => rekeyq[2] \in Group
      BY <1>0
    <2>3. NoneAdded(group, group')
      <3>1. CASE group' = gr
        BY <1>2, <3>1
      <3>2. CASE Len(rekeyq) > 1 /\ group' = RequestGTKReKey(gr, rekeyq[2])
        <4>1. group' \in Groups /\ NoneAdded(gr, group')
          BY <1>2, <2>2, <3>2, RequestGTKReKeyType, RequestGTKReKeyNone
        <4> QED
          BY <1>0, <1>2, <4>1, NoneAddedOrder
      <3> QED
        BY <1>2, <3>1, <3>2 DEF NextGroup
    <2> QED
      BY <2>1, <2>3, NoneAddedDone
  <1>3. CASE REKEY_setkeysdone
    <2>1. todo = {} /\ todo' = {} /\ Count = 0
      BY <1>1, <1>3 DEF g, REKEY_setkeysdone, AllKeysDone, GoTo, TypeOK, Count
    <2>2. Count' = Count
      BY <1>0, <1>3, DefaultGroupType DEF g, REKEY_setkeysdone,
         wpa_group_setkeysdone, Count, Groups, WpaGroup
    <2> QED
      BY <2>1, <2>2 DEF DoneInv
  <1>4. CASE REKEY_setkeys
    <2> DEFINE r == [group[g] EXCEPT !.state = "SETKEYS", !.changed = TRUE,
                                     !.GTKReKey = FALSE,
                                     !.GKeyDoneStations = 0]
    <2>1. group' = [group EXCEPT ![g] = r]
      BY <1>4 DEF REKEY_setkeys, g
    <2>2. r.state = "SETKEYS"
      BY <1>0 DEF Groups, WpaGroup
    <2> QED
      BY <1>0, <1>1, <2>1, <2>2 DEF DoneInv, State, Groups
  <1>5. CASE REKEY_stay
    <2> DEFINE gr == [group EXCEPT ![g].changed = FALSE]
    <2>1. gr \in Groups
      BY <1>0 DEF Groups, WpaGroup
    <2>2. NoneAdded(group, gr)
      BY <1>0, DefaultGroupType DEF Groups, WpaGroup, NoneAdded
    <2>3. NextGroup(gr) /\ todo = {}
      BY <1>5 DEF REKEY_stay, TypeOK, g
    <2> HIDE DEF gr
    <2> QED
      BY <1>2, <2>1, <2>2, <2>3
  <1>6. CASE EACH_done
    <2>1. CASE UNCHANGED group /\ GoTo("rekey")
      BY <1>0, <2>1, NoneAddedOrder, NoneAddedDone DEF GoTo
    <2>2. CASE NextGroup(group)
      BY <1>0, <1>2, <1>6, <2>2, NoneAddedOrder DEF EACH_done
    <2> QED
      BY <1>6, <2>1, <2>2 DEF EACH_done
  <1> QED
    BY <1>3, <1>4, <1>5, <1>6 DEF RunRekey

\* wpa_group_update_sta is called while the group is in SETKEYS.
LEMMA UpdateStaDone ==
    ASSUME TypeOK, DoneInv, NEW s \in STA, wpa_group_update_sta(s)
    PROVE  DoneInv'
  <1>1. State # "SETKEYSDONE"
    BY DEF wpa_group_update_sta, EACH_skip, EACH_mark, DoneInv
  <1>2. State' = State
    <2>1. group \in Groups /\ sm[s].group \in Group
      BY DEF TypeOK, Groups, WpaStateMachine
    <2> QED
      BY <2>1, DefaultGroupType DEF wpa_group_update_sta, EACH_skip, EACH_mark,
         State, Groups, WpaGroup
  <1> QED
    BY <1>1, <1>2 DEF DoneInv

\* DoneInv is kept by every step.
LEMMA DoneStep ==
    ASSUME SingleGroup, TypeOK, MarksInv, MarksInv', TellingInv, DoneInv,
           [Next]_vars
    PROVE  DoneInv'
  <1>0. group \in Groups
    BY DEF TypeOK, Groups
  <1>1. ASSUME NEW s \in STA, Run(s) PROVE DoneInv'
    BY <1>1, MachinesNone, EventsNone, NoneAddedDone, GsmDone, UpdateStaDone
       DEF Run
  <1>2. ASSUME NEW s \in STA, StationEvent(s) PROVE DoneInv'
    BY <1>2, EventsNone, NoneAddedDone
  <1>3. CASE RunRekey
    BY <1>3, RekeyDone
  <1>4. CASE wpa_rekey_gtk
    <2>1. todo' = todo
      BY <1>4 DEF wpa_rekey_gtk, StartRekey, TypeOK
    <2>2. NoneAdded(group, group')
      BY <1>0, <1>4, DefaultGroupType, RequestGTKReKeyNone
         DEF wpa_rekey_gtk, StartRekey
    <2> QED
      BY <2>1, <2>2, NoneAddedDone
  <1>5. CASE UNCHANGED vars
    BY <1>0, <1>5, NoneAddedOrder, NoneAddedDone DEF vars
  <1> QED
    BY <1>1, <1>2, <1>3, <1>4, <1>5 DEF Next

\* A GTK that is in use was told to every station: with one group, any number
\* of stations and at least one attempt of the group key handshake, a group in
\* SETKEYSDONE has no marked station, and none that wpa_auth_for_each_sta has
\* yet to call, also while wpa_group_sm_step() runs from inside its callbacks.
THEOREM KeysDoneAlwaysTold ==
    ASSUME SingleGroup, GroupRetries
    PROVE  Spec => []KeysDoneMeansAllTold
  <1>1. Init => TellingInv /\ DoneInv
    <2> SUFFICES ASSUME Init PROVE TellingInv /\ DoneInv
      OBVIOUS
    <2>1. Count = 0 /\ todo = {}
      BY DefaultGroupType DEF Init, Count
    <2> QED
      BY <2>1 DEF Init, TellingInv, InLoop, DoneInv
  <1>2. TypeOK /\ LoopInv /\ MarksInv /\ MarksInv' /\ TellingInv /\ DoneInv
          /\ [Next]_vars => TellingInv' /\ DoneInv'
    BY TellingStep, DoneStep
  <1>3. TypeOK /\ MarksInv /\ DoneInv => KeysDoneMeansAllTold
    <2> SUFFICES ASSUME TypeOK, MarksInv, DoneInv, NEW g \in Group,
                        group[g].state = "SETKEYSDONE"
                 PROVE  Marked(g) = {} /\ todo = {}
      BY DEF KeysDoneMeansAllTold
    <2>1. g = DefaultGroup
      BY SingleGroupIsDefault
    <2>2. todo = {} /\ Called = {}
      BY <2>1, CountZero DEF DoneInv, State
    <2> QED
      BY <2>2 DEF Marked, Called
  <1> QED
    BY <1>1, <1>2, <1>3, TypeCorrect, LoopCorrect, MarksCorrect, PTL DEF Spec

=============================================================================
