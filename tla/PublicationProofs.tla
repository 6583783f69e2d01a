------------------------- MODULE PublicationProofs -------------------------
(***************************************************************************)
(* Theorems about Publication, for every oplog, set of databases, number   *)
(* of failures and number of crashes.                                      *)
(***************************************************************************)
EXTENDS PublicationStates

(* The type of the records that the actions build. *)
LEMMA NoPendingType == NoPending \in PendingPublication
  BY ConstantsAssumption DEF NoPending, PendingPublication, NoCommit, CommitID, Entries

LEMMA IntervalType ==
  ASSUME TypeOK, op # 0
  PROVE  Interval \in CommitInterval
  BY DEF TypeOK, State, Interval, CommitInterval, PendingPublication, op, Entries

(* A new control state is well formed, and so is the commit that the initial sync *)
(* makes to each database it publishes.                                           *)
LEMMA NewStateType == NewState \in State
  BY ConstantsAssumption, NoPendingType DEF NewState, State

LEMMA ClonedType ==
  ASSUME NEW dbs
  PROVE  FirstCommit \in Commit /\ Cloned(dbs) \in [Databases -> CommitID]
<1>1. 1 \in Entries /\ 1 \in 0..Last
  BY ConstantsAssumption DEF Entries
<1>2. FirstCommit \in Commit
  BY <1>1 DEF FirstCommit, Commit
<1> QED
  BY <1>2 DEF Cloned, CommitID

(* Init establishes the types. *)
LEMMA InitType == Init => TypeOK
<1> SUFFICES ASSUME Init PROVE TypeOK
  OBVIOUS
<1>0. 1 \in Entries /\ 1 \in 0..Last /\ 0 \in 0..Last /\ 2 \in 1..(Last + 1)
  BY ConstantsAssumption DEF Entries
<1>1. InitialState \in State
  <2>1. [op |-> 1, commits |-> Cloned(Affected[1])] \in CommitInterval
    BY <1>0, ClonedType DEF CommitInterval
  <2>2. Mapped \cap {1} \in SUBSET Entries
    BY <1>0
  <2> QED
    BY <1>0, <2>1, <2>2, NoPendingType DEF InitialState, State
<1>2. CommittedState \in State
  <2> DEFINE earlier == {d \in Affected[1] : Rank[d] < Rank[Admin]}
             p == [op |-> 1, ready |-> TRUE, pre |-> Mapped \cap {1}, commits |-> Cloned(earlier)]
             s == [applied |-> 0, phase |-> "running", maps |-> Mapped \cap {1}, intervals |-> {},
                   pending |-> p]
  <2>1. Mapped \cap {1} \in SUBSET Entries
    BY <1>0
  <2>2. Cloned(earlier) \in [Databases -> CommitID]
    BY ClonedType
  <2>3. p \in PendingPublication
    BY <1>0, <2>1, <2>2 DEF PendingPublication
  <2>4. s \in State
    BY <1>0, <2>1, <2>3 DEF State
  <2>5. CommittedState = IF Admin \in Affected[1] THEN s ELSE NewState
    BY Zenon DEF CommittedState
  <2> QED
    BY <2>4, <2>5, NewStateType
<1>3. head \in [Databases -> Commit]
  <2>1. Root \in Commit
    BY ConstantsAssumption DEF Root, Commit
  <2> QED
    BY <2>1, ClonedType DEF Init
<1>4. work \in [Databases -> SUBSET Entries]
  BY <1>0 DEF Init
<1>5. exists \in SUBSET Databases
  BY <1>0, ConstantsAssumption DEF Init
<1> QED
  BY <1>0, <1>1, <1>2, <1>3, <1>4, <1>5 DEF Init, TypeOK

(* Every step preserves the types of memory, disk, commits and working sets. *)
LEMMA StepType == TypeOK /\ Working /\ [Next]_vars => TypeOK' /\ Working'
<1> SUFFICES ASSUME TypeOK, Working, [Next]_vars PROVE TypeOK' /\ Working'
  OBVIOUS
<1> USE ConstantsAssumption
<1>1. ASSUME NEW s \in State, NEW where, NEW dbs, dbs \subseteq Databases,
             Persist(s, where, dbs), UNCHANGED <<data, next, crashes>>,
             where \in {"applying", "completing"}, s.pending.op # 0
      PROVE  TypeOK' /\ Working'
  <2>1. TypeOK'
    BY <1>1 DEF Persist, Saved, Goto, Fail, Fault, TypeOK, State, data
  <2>2. Working'
    BY <1>1 DEF Persist, Goto, Fail, Fault, Working, op
  <2> QED
    BY <2>1, <2>2
<1>2. CASE RecoverIdle
  <2>1. next' \in 1..(Last + 1)
    BY <1>2 DEF RecoverIdle, TypeOK, State
  <2> QED
    BY <2>1, <1>2 DEF RecoverIdle, Goto, data, TypeOK, Working
<1>3. CASE RunInitialSync
  BY <1>3 DEF RunInitialSync, Goto, data, TypeOK, Working
<1>4. Target \in SUBSET Databases /\ (op # 0 => op \in Entries)
  BY DEF TypeOK, State, Target, op, PendingPublication, Entries
<1>5. CASE RecoverPublication
  BY <1>5, <1>4 DEF RecoverPublication, Goto, data, TypeOK, Working, op
<1>6. CASE Retry
  BY <1>6 DEF Retry, Saved, Fault, data, TypeOK, State, Working
<1>7. CASE AdvanceApplied
  <2>1. next \in 0..Last
    BY <1>7 DEF AdvanceApplied, Entries
  <2> DEFINE s == [mem EXCEPT !.applied = next]
  <2>2. s \in State
    BY <2>1 DEF TypeOK, State
  <2>3. Persist(s, "steady", {}) /\ UNCHANGED <<data, crashes>> /\ next' \in 1..(Last + 1)
    BY <2>1, <1>7 DEF AdvanceApplied
  <2> HIDE DEF s
  <2>4. TypeOK'
    BY <2>2, <2>3 DEF Persist, Saved, Goto, Fail, Fault, TypeOK, State, data
  <2> QED
    BY <2>3, <2>4 DEF Persist, Goto, Fail, Working
<1>8. CASE BeginPublication
  <2>1. next \in 1..Last
    BY <1>8 DEF BeginPublication, Entries
  <2>2. Planned \in PendingPublication /\ Planned.op # 0
    BY <2>1 DEF Planned, PendingPublication, CommitID, TypeOK, State
  <2>3. Affected[next] \subseteq Databases
    BY <2>1 DEF Entries
  <2> DEFINE s == [mem EXCEPT !.pending = Planned]
  <2>4. s \in State /\ s.pending.op # 0
    BY <2>2 DEF TypeOK, State
  <2>5. Persist(s, "applying", Affected[next]) /\ UNCHANGED <<data, next, crashes>>
    BY <1>8 DEF BeginPublication
  <2> HIDE DEF s
  <2> QED
    BY <2>3, <2>4, <2>5, <1>1
<1>9. ASSUME NEW d \in Databases, ApplyData(d) PROVE TypeOK' /\ Working'
  <2>1. op \in Entries
    BY <1>9, <1>4 DEF ApplyData, Working
  <2>2. work' \in [Databases -> SUBSET Entries]
    BY <2>1, <1>9 DEF ApplyData, TypeOK
  <2> QED
    BY <2>2, <1>9 DEF ApplyData, TypeOK, Working, op
<1>10. CASE ApplyControl
  <2>1. op \in Entries
    BY <1>10, <1>4 DEF ApplyControl, Working
  <2>2. mem' \in State
    BY <2>1, <1>10 DEF ApplyControl, TypeOK, State
  <2>3. mem'.pending = mem.pending
    BY <1>10 DEF ApplyControl, TypeOK, State
  <2>4. disk' \in State
    BY <2>2, <1>10 DEF ApplyControl, TypeOK, State, Saved
  <2> QED
    BY <2>2, <2>3, <2>4, <1>4, <1>10 DEF ApplyControl, Goto, Fault, data, TypeOK, Working, op
<1>11. CASE ApplyFails
  BY <1>11, <1>4 DEF ApplyFails, Fault, data, TypeOK, Working, op
<1>12. CASE MarkPublicationReady
  <2>1. [mem EXCEPT !.pending.ready = TRUE] \in State
    BY DEF TypeOK, State, PendingPublication
  <2>2. [mem EXCEPT !.pending.ready = TRUE].pending.op # 0
    BY <1>12 DEF MarkPublicationReady, TypeOK, State, PendingPublication, Working, op
  <2> QED
    BY <2>1, <2>2, <1>1, <1>12 DEF MarkPublicationReady
<1>13. ASSUME NEW d \in Databases, ResetDatabase(d) PROVE TypeOK' /\ Working'
  <2>1. work' \in [Databases -> SUBSET Entries]
    BY <1>13 DEF ResetDatabase, TypeOK, Commit
  <2> QED
    BY <2>1, <1>13 DEF ResetDatabase, Goto, Fail, Fault, TypeOK, Working, op
<1>14. CASE AbortPublication
  <2> DEFINE s == [mem EXCEPT !.pending = NoPending, !.maps = mem.pending.pre]
  <2>1. s \in State
    BY NoPendingType DEF TypeOK, State, PendingPublication
  <2>2. Persist(s, "recover", {}) /\ UNCHANGED <<data, next, crashes>>
    BY <1>14 DEF AbortPublication
  <2> HIDE DEF s
  <2>3. TypeOK'
    BY <2>1, <2>2 DEF Persist, Saved, Goto, Fail, Fault, TypeOK, State, data
  <2> QED
    BY <2>2, <2>3 DEF Persist, Goto, Fail, Working
<1>15. ASSUME NEW d \in Databases, CommitDatabase(d) PROVE TypeOK' /\ Working'
  <2>1. op \in 0..Last
    BY DEF TypeOK, State, PendingPublication, op
  <2>2. head' \in [Databases -> Commit]
    BY <2>1, <1>15 DEF CommitDatabase, NewCommit, TypeOK, Commit
  <2> QED
    BY <2>2, <1>15 DEF CommitDatabase, Goto, Fail, Fault, TypeOK, Working, op
<1>16. ASSUME NEW d \in Databases, RecordPublicationCommit(d) PROVE TypeOK' /\ Working'
  <2> DEFINE s == [mem EXCEPT !.pending.commits[d] = head[d]]
  <2>1. s \in State /\ s.pending.op = op
    BY DEF TypeOK, State, PendingPublication, CommitID, op
  <2>2. op # 0
    BY <1>16 DEF RecordPublicationCommit, Working
  <2> QED
    BY <2>1, <2>2, <1>1, <1>16 DEF RecordPublicationCommit
<1>17. ASSUME op # 0 PROVE Published \in State /\ Published.pending.op = 0
  <2>1. op \in 0..Last /\ Interval \in CommitInterval /\ NoPending.op = 0
    BY <1>17, <1>4, IntervalType DEF Entries, NoPending
  <2> QED
    BY <2>1, NoPendingType DEF Published, TypeOK, State
<1>18. CASE AppendCommitInterval
  <2>1. op # 0
    BY <1>18 DEF AppendCommitInterval, Working
  <2>2. disk' \in State
    BY <2>1, <1>18, IntervalType DEF AppendCommitInterval, TypeOK, State
  <2> QED
    BY <2>1, <2>2, <1>18 DEF AppendCommitInterval, Goto, Fail, Fault, data, TypeOK, Working, op
<1>19. AfterPublication \in {"steady", "recover"}
  BY DEF AfterPublication
<1>20. CASE SavePublication
  <2>1. op # 0
    BY <1>20 DEF SavePublication, Working
  <2>2. next' \in 1..(Last + 1)
    BY <2>1, <1>4, <1>20 DEF SavePublication, Entries
  <2>3. mem' \in State /\ disk' \in State
    BY <2>1, <1>17, <1>20, IntervalType DEF SavePublication, Saved, TypeOK, State
  <2> QED
    BY <2>2, <2>3, <1>20, <1>19 DEF SavePublication, Goto, Fail, Fault, data, TypeOK, Working
<1>21. CASE RepublishCommit
  <2>1. op # 0
    BY <1>21 DEF RepublishCommit, Working
  <2>2. next' \in 1..(Last + 1)
    BY <2>1, <1>4, <1>21 DEF RepublishCommit, Entries
  <2>3. mem' \in State /\ disk' \in State
    BY <2>1, <1>17, <1>21 DEF RepublishCommit, Saved, TypeOK, State
  <2> QED
    BY <2>2, <2>3, <1>21, <1>19 DEF RepublishCommit, Goto, Fail, Fault, data, TypeOK, Working
<1>22. CASE BackgroundPersist
  BY <1>22 DEF BackgroundPersist, Saved, data, TypeOK, State, Working, op
<1>23. CASE Restart
  BY <1>23 DEF Restart, Goto, data, TypeOK, Working
<1>24. CASE SkipComplete
  BY <1>24 DEF SkipComplete, data, TypeOK, Working, op, Entries
<1>25. CASE UNCHANGED vars
  BY <1>25 DEF vars, TypeOK, Working, op
<1>26. ASSUME NEW d \in Databases, ResetInitialSyncData(d) PROVE TypeOK' /\ Working'
  <2>1. head' \in [Databases -> Commit] /\ work' \in [Databases -> SUBSET Entries]
    BY <1>26 DEF ResetInitialSyncData, Root, TypeOK, Commit
  <2>2. base' \in State
    BY <1>26, NewStateType DEF ResetInitialSyncData, TypeOK
  <2>3. UNCHANGED <<mem, disk, exists, next, crashes>> /\ pc' \in {pc, "retrying"} /\ faults' \in Nat
        /\ todo' \subseteq Databases /\ pc \in {"resetting", "clearing"}
    BY <1>26 DEF ResetInitialSyncData, Goto, Fail, Fault, TypeOK
  <2> QED
    BY <2>1, <2>2, <2>3 DEF TypeOK, Working
<1>27. CASE ResetInitialSync
  BY <1>27, NewStateType DEF ResetInitialSync, Goto, Fail, Fault, data, TypeOK, Working
<1>28. CASE BeginInitialSync
  <2> DEFINE s == [mem EXCEPT !.phase = "running"]
  <2>1. s \in State
    BY DEF TypeOK, State
  <2>2. Persist(s, "cloning", {}) /\ UNCHANGED <<data, next, crashes>>
    BY <1>28 DEF BeginInitialSync
  <2> HIDE DEF s
  <2>3. TypeOK'
    BY <2>1, <2>2 DEF Persist, Saved, Goto, Fail, Fault, TypeOK, State, data
  <2> QED
    BY <2>2, <2>3 DEF Persist, Goto, Fail, Working
<1> QED
  BY <1>26, <1>27, <1>28, <1>2, <1>3, <1>5, <1>6, <1>7, <1>8, <1>9, <1>10, <1>11, <1>12, <1>13, <1>14, <1>15,
     <1>16, <1>18, <1>20, <1>21, <1>22, <1>23, <1>24, <1>25 DEF Next, Step

(* Whatever fails and whenever the process restarts, memory and the control *)
(* collection hold a well-formed control state: Open never meets a document *)
(* it cannot decode.                                                        *)
THEOREM TypeCorrect == Spec => []TypeOK
<1>1. Init => Working
  BY DEF Init, Working
<1> QED
  BY <1>1, InitType, StepType, PTL DEF Spec

-----------------------------------------------------------------------------
(* The inductive invariant *)

(* storage.save leaves nothing out when the intervals on disk are those in *)
(* memory.                                                                 *)
LEMMA SavedSame ==
  ASSUME NEW s \in State, s.intervals = disk.intervals
  PROVE  Saved(s) = s
  BY DEF Saved, State

(* Steady replication starts with what the initial sync brought on main and in the *)
(* working sets.                                                                   *)
LEMMA FirstContents ==
  ASSUME Init, NEW d \in Databases
  PROVE  head[d].content = Through(d, 1) /\ head[d].pub \in {0, 1} /\ work[d] = head[d].content
<1>1. 1 \in Entries \ Noop /\ \A e \in Entries : e <= 1 <=> e = 1
  BY ConstantsAssumption DEF Entries
<1>2. Through(d, 1) = IF d \in Affected[1] THEN {1} ELSE {}
  BY <1>1 DEF Through
<1> QED
  BY <1>2 DEF Init, FirstCommit, Root

(* Init establishes the invariant. *)
LEMMA InitInv == Init => IInv
<1> SUFFICES ASSUME Init PROVE IInv
  OBVIOUS
<1>0. 1 \in Entries /\ 1 \in Entries \ Noop
  BY ConstantsAssumption DEF Entries
<1>1. {e \in Mapped : e <= 1} = Mapped \cap {1}
  <2>1. \A e \in Mapped : e <= 1 <=> e = 1
    BY ConstantsAssumption DEF Entries
  <2> QED
    BY <2>1
<1>2. /\ mem.pending = NoPending /\ mem.pending.op = 0 /\ mem.applied = 1
      /\ mem.maps = Mapped \cap {1} /\ mem.phase = "complete"
      /\ mem.intervals = {[op |-> 1, commits |-> Cloned(Affected[1])]}
  BY DEF Init, InitialState, NoPending
<1>3. \A d \in Databases :
        head[d].content = Through(d, 1) /\ head[d].pub \in {0, 1} /\ work[d] = head[d].content
  BY FirstContents
<1>4. StateOK(mem, head, work)
  <2>1. PendingOK(mem, head)
    BY <1>2 DEF PendingOK
  <2>2. MapsOK(mem)
    BY <1>1, <1>2 DEF MapsOK
  <2>3. HeadsOK(mem, head)
    <3> SUFFICES ASSUME NEW d \in Databases
                 PROVE  head[d].content = Through(d, mem.applied) /\ head[d].pub <= mem.applied
      BY DEF HeadsOK
    <3> QED
      BY <1>2, <1>3
  <2>4. WorkOK(mem, head, work)
    BY <1>2, <1>3 DEF WorkOK, Touches
  <2>5. IntervalsOK(mem)
    <3> DEFINE i == [op |-> 1, commits |-> Cloned(Affected[1])]
    <3>1. mem.intervals = {i} /\ i.op = 1 /\ i.commits = Cloned(Affected[1])
      BY <1>2
    <3> HIDE DEF i
    <3>2. ASSUME NEW d \in Affected[1]
          PROVE  i.commits[d].pub = 1 /\ i.commits[d].content = Through(d, 1)
      <4>1. d \in Databases
        BY <1>0, ConstantsAssumption
      <4>2. i.commits[d] = FirstCommit
        BY <3>1, <4>1 DEF Cloned
      <4> QED
        BY <1>3, <4>1, <4>2, <3>2 DEF FirstCommit, Init
    <3>3. \A e \in Entries \ Noop : e <= mem.applied => e = 1
      BY <1>2 DEF Entries
    <3>4. \A x \in mem.intervals : x = i
      BY <3>1
    <3> QED
      BY <1>0, <1>2, <3>1, <3>2, <3>3, <3>4 DEF IntervalsOK
  <2> QED
    BY <1>2, <2>1, <2>2, <2>3, <2>4, <2>5 DEF StateOK
<1>5. disk = mem /\ pc = "recover"
  BY DEF Init
<1> QED
  BY <1>4, <1>5 DEF IInv, Lag, PcOK

(* A method of Store that changes memory to s and then persists. *)
LEMMA PersistOK ==
  ASSUME TypeOK, IInv, NEW s \in State, NEW where, NEW dbs, Persist(s, where, dbs),
         UNCHANGED <<head, work>>, pc # "saving", s.intervals = mem.intervals,
         StateOK(s, head, work)
  PROVE  /\ StateOK(mem, head, work)' /\ StateOK(disk, head, work)'
         /\ mem' = s /\ disk'.intervals = mem'.intervals
         /\ \/ disk' = s /\ pc' = where /\ todo' = dbs
            \/ disk' = disk /\ pc' = "retrying"
<1>1. disk.intervals = mem.intervals
  BY DEF IInv, Lag
<1>2. Saved(s) = s
  BY <1>1, SavedSame
<1>3. mem' = s /\ (disk' = s \/ disk' = disk)
  BY <1>2 DEF Persist
<1>4. disk'.intervals = mem'.intervals
  BY <1>1, <1>3
<1>5. StateOK(mem', head', work') /\ StateOK(disk', head', work')
  BY <1>3 DEF IInv
<1> QED
  BY <1>2, <1>3, <1>4, <1>5 DEF Persist, Goto, Fail

(* Every step preserves the invariant, when no entry touches admin and the *)
(* write by which retry records a failure succeeds.                        *)
LEMMA StepInv ==
  ASSUME AdminUntouched, ~StickyFaults, TypeOK, TypeOK', IInv, [Next]_vars
  PROVE  IInv'
<1> USE ConstantsAssumption
<1>0. /\ mem \in State /\ disk \in State /\ head \in [Databases -> Commit]
      /\ work \in [Databases -> SUBSET Entries]
      /\ mem' \in State /\ disk' \in State
  BY DEF TypeOK
<1>1. StateOK(mem, head, work) /\ StateOK(disk, head, work) /\ Lag /\ PcOK
  BY DEF IInv
<1>2. (op # 0 => Target = Affected[op] /\ op \in Entries) /\ Target \subseteq Databases
  BY <1>0, StateParts DEF Target, op
<1>3. CASE RecoverIdle
  <2>1. UNCHANGED <<mem, disk, head, work>>
    BY <1>3 DEF RecoverIdle, data
  <2>2. Lag' /\ PcOK'
    BY <1>1, <1>3, <2>1 DEF RecoverIdle, Goto, Lag, PcOK, op
  <2> QED
    BY <1>1, <2>1, <2>2 DEF IInv
<1>4. mem.phase = "complete" /\ AfterPublication = "steady"
  BY <1>1 DEF StateOK, AfterPublication
<1>5. ASSUME \/ RunInitialSync \/ ResetInitialSync \/ BeginInitialSync
              \/ \E d \in Databases : ResetInitialSyncData(d)
       PROVE  FALSE
  BY <1>1, <1>4, <1>5
  DEF RunInitialSync, ResetInitialSync, BeginInitialSync, ResetInitialSyncData, PcOK
<1>6. CASE RecoverPublication
  <2>1. UNCHANGED <<mem, disk, head, work>>
    BY <1>6 DEF RecoverPublication, data
  <2>2. disk = mem
    BY <1>1, <1>6 DEF RecoverPublication, Lag
  <2>3. \/ pc' = "completing" /\ mem.pending.ready
        \/ pc' = "aborting" /\ ~mem.pending.ready /\ todo' = Target
    BY <1>6 DEF RecoverPublication, Goto
  <2>4. op # 0 /\ op' = op /\ Target' = Target
    BY <1>6, <2>1 DEF RecoverPublication, op, Target
  <2>5. Lag'
    BY <2>1, <2>2, <2>3 DEF Lag
  <2>6. PcOK'
    BY <2>1, <2>3, <2>4 DEF PcOK
  <2> QED
    BY <1>1, <2>1, <2>5, <2>6 DEF IInv
<1>7. CASE Retry
  <2>1. UNCHANGED <<mem, head, work>> /\ pc' = "recover"
    BY <1>7 DEF Retry, data
  <2>2. disk' = mem
    BY <1>0, <1>1, <1>7, SavedSame DEF Retry, Lag
  <2>3. Lag' /\ PcOK'
    BY <2>1, <2>2 DEF Lag, PcOK
  <2> QED
    BY <1>1, <2>1, <2>2, <2>3 DEF IInv
<1>8. CASE AdvanceApplied
  <2> DEFINE s == [mem EXCEPT !.applied = next]
  <2>1. pc = "steady" /\ next \in Noop /\ UNCHANGED <<head, work>> /\ next' = next + 1
    BY <1>8 DEF AdvanceApplied, data
  <2>2. op = 0 /\ next = mem.applied + 1
    BY <1>1, <2>1 DEF PcOK
  <2>3. s \in State /\ s.applied = mem.applied + 1 /\ s.phase = mem.phase
        /\ s.pending = mem.pending /\ s.maps = mem.maps /\ s.intervals = mem.intervals
    <3>1. next \in 0..Last
      BY <2>1 DEF Entries
    <3> QED
      BY <1>0, <3>1, <2>2 DEF State
  <2>4. Persist(s, "steady", {})
    BY <1>8 DEF AdvanceApplied
  <2> HIDE DEF s
  <2>5. StateOK(s, head, work)
    BY <1>0, <1>1, <2>1, <2>2, <2>3, AdvanceOK DEF op
  <2>6. /\ StateOK(mem, head, work)' /\ StateOK(disk, head, work)'
        /\ mem' = s /\ disk'.intervals = mem'.intervals
        /\ \/ disk' = s /\ pc' = "steady"
           \/ disk' = disk /\ pc' = "retrying"
    BY <2>1, <2>3, <2>4, <2>5, PersistOK
  <2>7. op' = 0 /\ next' = mem'.applied + 1
    BY <2>1, <2>2, <2>3, <2>6 DEF op
  <2>8. Lag'
    BY <1>1, <2>1, <2>3, <2>6, <2>7 DEF Lag
  <2>9. PcOK'
    BY <2>6, <2>7 DEF PcOK
  <2> QED
    BY <2>6, <2>8, <2>9 DEF IInv
<1>9. CASE SkipComplete
  <2>1. pc = "steady" /\ next \in Entries \ Noop /\ IntervalOf(mem, next) # {}
    BY <1>9 DEF SkipComplete
  <2>2. op = 0 /\ next = mem.applied + 1
    BY <1>1, <2>1 DEF PcOK
  <2>3. PICK i \in mem.intervals : i.op = next
    BY <2>1 DEF IntervalOf
  <2>4. i.op <= mem.applied
    BY <1>1, <2>1, <2>2, <2>3 DEF StateOK, IntervalsOK, op, Entries
  <2> QED
    BY <1>0, <2>2, <2>3, <2>4, StateParts
<1>10. CASE BeginPublication
  <2> DEFINE s == [mem EXCEPT !.pending = Planned]
  <2>1. pc = "steady" /\ next \in Entries \ Noop /\ UNCHANGED <<head, work, next>>
    BY <1>10 DEF BeginPublication, data
  <2>2. op = 0 /\ next = mem.applied + 1 /\ next # 0
    BY <1>1, <2>1 DEF PcOK, Entries
  <2>3. /\ Planned.op = next /\ ~Planned.ready /\ Planned.pre = mem.maps
        /\ Planned.commits = [d \in Databases |-> NoCommit] /\ Planned \in PendingPublication
    BY <1>0, <2>1 DEF Planned, PendingPublication, CommitID, State, Entries
  <2>4. /\ s \in State /\ s.applied = mem.applied /\ s.phase = mem.phase
        /\ s.pending = Planned /\ s.maps = mem.maps /\ s.intervals = mem.intervals
    BY <1>0, <2>3 DEF State
  <2>5. Persist(s, "applying", Affected[next])
    BY <1>10 DEF BeginPublication
  <2> HIDE DEF s
  <2>6. StateOK(s, head, work)
    BY <1>0, <1>1, <2>1, <2>2, <2>3, <2>4, BeginOK DEF op
  <2>7. /\ StateOK(mem, head, work)' /\ StateOK(disk, head, work)'
        /\ mem' = s /\ disk'.intervals = mem'.intervals
        /\ \/ disk' = s /\ pc' = "applying" /\ todo' = Affected[next]
           \/ disk' = disk /\ pc' = "retrying"
    BY <2>1, <2>4, <2>5, <2>6, PersistOK
  <2>8. Lag'
    BY <1>1, <2>1, <2>4, <2>7 DEF Lag
  <2>9. op' = next /\ Target' = Affected[next] /\ ~mem'.pending.ready
    BY <2>2, <2>3, <2>4, <2>7 DEF op, Target
  <2>10. \A d \in Databases : work[d] = Through(d, mem.applied)
    BY <1>1, <2>2 DEF StateOK, WorkOK, HeadsOK, Touches, op
  <2>11. \A d \in Databases : next \notin work[d]
    BY <1>0, <2>1, <2>2, <2>10 DEF Through, State
  <2>12. PcOK'
    BY <1>2, <2>1, <2>2, <2>7, <2>9, <2>11 DEF PcOK
  <2> QED
    BY <2>7, <2>8, <2>12 DEF IInv
<1>11. ASSUME NEW d \in Databases, ApplyData(d) PROVE IInv'
  <2>1. pc = "applying" /\ d \in todo /\ UNCHANGED <<mem, disk, head, pc>> /\ todo' = todo \ {d}
        /\ work'[d] = work[d] \cup {mem.pending.op} /\ \A x \in Databases : x # d => work'[x] = work[x]
    BY <1>0, <1>11 DEF ApplyData, op
  <2>2. /\ op # 0 /\ ~mem.pending.ready /\ d \in Affected[op] /\ disk = mem /\ todo \subseteq Target
        /\ \A x \in Target \ todo : work[x] = Through(x, op)
        /\ \A x \in todo : op \notin work[x]
    BY <1>1, <1>2, <2>1 DEF PcOK, Lag
  <2>3. StateOK(mem, head, work') /\ work'[d] = Through(d, op)
    <3>1. mem.pending.op # 0 /\ d \in Affected[mem.pending.op]
      BY <2>2 DEF op
    <3>2. StateOK(mem, head, work') /\ work'[d] = Through(d, mem.pending.op)
      BY <1>0, <1>1, <2>1, <2>2, <3>1, ApplyDataOK
    <3> QED
      BY <3>2 DEF op
  <2>4. Lag'
    BY <1>1, <2>1, <2>2 DEF Lag
  <2>5. op' = op /\ Target' = Target
    BY <2>1 DEF op, Target
  <2>6. \A x \in Target \ todo' : work'[x] = Through(x, op)
    BY <1>2, <2>1, <2>2, <2>3
  <2>7. \A x \in todo' : op \notin work'[x]
    BY <1>2, <2>1, <2>2
  <2>8. PcOK'
    BY <2>1, <2>2, <2>5, <2>6, <2>7 DEF PcOK
  <2> QED
    BY <2>1, <2>2, <2>3, <2>4, <2>8 DEF IInv
<1>12. CASE ApplyControl
  <2>1. /\ pc = "applying" /\ op \in Mapped \ mem.maps
        /\ mem' = [mem EXCEPT !.maps = @ \cup {op}] /\ UNCHANGED <<head, work>>
    BY <1>12 DEF ApplyControl, data
  <2>2. /\ op # 0 /\ ~mem.pending.ready /\ disk = mem /\ todo \subseteq Target
        /\ \A x \in Target \ todo : work[x] = Through(x, op)
        /\ \A x \in todo : op \notin work[x]
    BY <1>1, <2>1 DEF PcOK, Lag
  <2>3. /\ mem'.applied = mem.applied /\ mem'.phase = mem.phase /\ mem'.pending = mem.pending
        /\ mem'.maps = mem.maps \cup {op} /\ mem'.intervals = mem.intervals
    BY <1>0, <2>1 DEF State
  <2>4. StateOK(mem', head, work)
    BY <1>0, <1>1, <2>1, <2>2, <2>3, ApplyControlOK DEF op
  <2>5. Saved(mem') = mem'
    BY <1>0, <2>2, <2>3, SavedSame
  <2>6. \/ disk' = mem' /\ pc' = "applying" /\ todo' = todo
        \/ disk' = disk /\ pc' = "aborting" /\ todo' = Target
    BY <1>12, <2>5 DEF ApplyControl, Goto
  <2>7. op' = op /\ Target' = Target
    BY <2>3 DEF op, Target
  <2>8. Lag'
    BY <2>2, <2>3, <2>6 DEF Lag
  <2>9. CASE pc' = "applying"
    <3>1. PcOK'
      BY <2>1, <2>2, <2>3, <2>6, <2>7, <2>9 DEF PcOK
    <3> QED
      BY <1>1, <2>1, <2>4, <2>6, <2>8, <3>1 DEF IInv
  <2>10. CASE pc' = "aborting"
    <3>1. PcOK'
      BY <2>1, <2>2, <2>3, <2>6, <2>7, <2>10 DEF PcOK
    <3> QED
      BY <1>1, <2>1, <2>4, <2>6, <2>8, <3>1 DEF IInv
  <2> QED
    BY <2>6, <2>9, <2>10
<1>13. CASE ApplyFails
  <2>1. /\ pc = "applying" /\ UNCHANGED <<mem, disk, head, work>>
        /\ pc' = "aborting" /\ todo' = Target
    BY <1>13 DEF ApplyFails, data
  <2>2. op' = op /\ Target' = Target
    BY <2>1 DEF op, Target
  <2>3. Lag' /\ PcOK'
    BY <1>1, <2>1, <2>2 DEF Lag, PcOK
  <2> QED
    BY <1>1, <2>1, <2>3 DEF IInv
<1>14. CASE MarkPublicationReady
  <2> DEFINE s == [mem EXCEPT !.pending.ready = TRUE]
  <2>1. pc = "applying" /\ todo = {} /\ op \notin Mapped \ mem.maps /\ UNCHANGED <<head, work>>
    BY <1>14 DEF MarkPublicationReady, data
  <2>2. op # 0 /\ ~mem.pending.ready /\ \A x \in Affected[op] : work[x] = Through(x, op)
    BY <1>1, <1>2, <2>1 DEF PcOK
  <2>3. /\ s \in State /\ s.applied = mem.applied /\ s.phase = mem.phase
        /\ s.maps = mem.maps /\ s.intervals = mem.intervals
        /\ s.pending.op = mem.pending.op /\ s.pending.ready = TRUE
        /\ s.pending.commits = mem.pending.commits /\ s.pending.pre = mem.pending.pre
    BY <1>0 DEF State, PendingPublication
  <2>4. Persist(s, "completing", {})
    BY <1>14 DEF MarkPublicationReady
  <2> HIDE DEF s
  <2>5. StateOK(s, head, work)
    BY <1>0, <1>1, <2>1, <2>2, <2>3, MarkReadyOK DEF op
  <2>6. /\ StateOK(mem, head, work)' /\ StateOK(disk, head, work)'
        /\ mem' = s /\ disk'.intervals = mem'.intervals
        /\ \/ disk' = s /\ pc' = "completing"
           \/ disk' = disk /\ pc' = "retrying"
    BY <2>1, <2>3, <2>4, <2>5, PersistOK
  <2>7. Lag'
    BY <1>1, <2>1, <2>3, <2>6 DEF Lag
  <2>8. op' # 0 /\ mem'.pending.ready
    BY <2>2, <2>3, <2>6 DEF op
  <2>9. PcOK'
    BY <2>6, <2>8 DEF PcOK
  <2> QED
    BY <2>6, <2>7, <2>9 DEF IInv
<1>15. ASSUME NEW d \in Databases, ResetDatabase(d) PROVE IInv'
  <2>1. pc = "aborting" /\ d \in todo /\ UNCHANGED <<mem, head>>
    BY <1>15 DEF ResetDatabase, FirstOf
  <2>2. op # 0 /\ ~mem.pending.ready /\ d \in Affected[op] /\ todo \subseteq Target
        /\ disk.pending = mem.pending /\ disk.applied = mem.applied /\ disk.intervals = mem.intervals
        /\ \A x \in Target \ todo : work[x] = head[x].content
    BY <1>1, <1>2, <2>1 DEF PcOK, Lag
  <2>3. op' = op /\ Target' = Target
    BY <2>1 DEF op, Target
  <2>4. d # Admin
    <3>1. op = mem.applied + 1 /\ mem.applied # 0 /\ mem.applied \in Nat
      BY <1>0, <1>1, <2>2, StateParts DEF StateOK, PendingOK, op
    <3> QED
      BY SMTT(30), <1>2, <2>2, <3>1 DEF AdminUntouched
  <2>5. CASE UNCHANGED <<work, disk>> /\ pc' = "retrying"
    <3>1. Lag' /\ PcOK'
      BY <2>1, <2>2, <2>5 DEF Lag, PcOK
    <3> QED
      BY <1>1, <2>1, <2>5, <3>1 DEF IInv
  <2>6. CASE /\ work' = [work EXCEPT ![d] = head[d].content] /\ UNCHANGED disk
             /\ pc' = "aborting" /\ todo' = todo \ {d}
    <3>1. work'[d] = head[d].content /\ \A x \in Databases : x # d => work'[x] = work[x]
      BY <1>0, <2>6
    <3>2. StateOK(mem, head, work')
      BY <1>0, <1>1, <2>2, <3>1, ResetOK DEF op
    <3>3. StateOK(disk, head, work')
      <4>1. disk.pending.op # 0 /\ ~disk.pending.ready /\ d \in Affected[disk.pending.op]
        BY <2>2 DEF op
      <4> QED
        BY <1>0, <1>1, <4>1, <3>1, ResetOK
    <3>4. Lag'
      BY <2>1, <2>2, <2>6 DEF Lag
    <3>5. \A x \in Target \ todo' : work'[x] = head[x].content
      BY <1>2, <2>2, <2>6, <3>1
    <3>6. PcOK'
      BY <2>1, <2>2, <2>3, <2>6, <3>5 DEF PcOK
    <3> QED
      BY <2>1, <2>6, <3>2, <3>3, <3>4, <3>6 DEF IInv
  <2> QED
    BY <1>15, <2>4, <2>5, <2>6 DEF ResetDatabase, Goto, Fail
<1>16. CASE AbortPublication
  <2> DEFINE s == [mem EXCEPT !.pending = NoPending, !.maps = mem.pending.pre]
  <2>1. pc = "aborting" /\ todo = {} /\ UNCHANGED <<head, work>>
    BY <1>16 DEF AbortPublication, data
  <2>2. op # 0 /\ ~mem.pending.ready /\ \A x \in Affected[op] : work[x] = head[x].content
    BY <1>1, <1>2, <2>1 DEF PcOK
  <2>3. /\ s \in State /\ s.applied = mem.applied /\ s.phase = mem.phase
        /\ s.pending = NoPending /\ s.maps = mem.pending.pre /\ s.intervals = mem.intervals
    BY <1>0, NoPendingType DEF State, PendingPublication
  <2>4. Persist(s, "recover", {})
    BY <1>16 DEF AbortPublication
  <2> HIDE DEF s
  <2>5. StateOK(s, head, work)
    BY <1>0, <1>1, <2>1, <2>2, <2>3, AbortOK DEF op
  <2>6. /\ StateOK(mem, head, work)' /\ StateOK(disk, head, work)'
        /\ mem' = s /\ disk'.intervals = mem'.intervals
        /\ \/ disk' = s /\ pc' = "recover"
           \/ disk' = disk /\ pc' = "retrying"
    BY <2>1, <2>3, <2>4, <2>5, PersistOK
  <2>7. Lag'
    BY <1>1, <2>1, <2>3, <2>6 DEF Lag
  <2>8. PcOK'
    BY <2>6 DEF PcOK
  <2> QED
    BY <2>6, <2>7, <2>8 DEF IInv
<1>17. ASSUME NEW d \in Databases, CommitDatabase(d) PROVE IInv'
  <2>1. pc = "completing" /\ d \in Unrecorded /\ head[d].pub # op /\ UNCHANGED <<mem, disk, work>>
    BY <1>17 DEF CommitDatabase, FirstOf
  <2>2. op # 0 /\ mem.pending.ready /\ disk = mem
    BY <1>1, <2>1 DEF PcOK, Lag
  <2>3. d \in Affected[op]
    BY <1>2, <2>1, <2>2 DEF Unrecorded
  <2>4. CASE UNCHANGED head /\ pc' = "retrying"
    <3>1. Lag' /\ PcOK'
      BY <2>1, <2>2, <2>4 DEF Lag, PcOK
    <3> QED
      BY <1>1, <2>1, <2>4, <3>1 DEF IInv
  <2>5. CASE head' = [head EXCEPT ![d] = NewCommit(d)] /\ pc' = pc
    <3>1. head'[d].pub = op /\ head'[d].content = work[d]
          /\ \A x \in Databases : x # d => head'[x] = head[x]
      BY <1>0, <2>5 DEF NewCommit
    <3>2. StateOK(mem, head', work)
      BY <1>0, <1>1, <2>1, <2>2, <2>3, <3>1, CommitOK DEF op
    <3>3. op' = op
      BY <2>1 DEF op
    <3>4. Lag' /\ PcOK'
      BY <2>1, <2>2, <2>5, <3>3 DEF Lag, PcOK
    <3> QED
      BY <2>1, <2>2, <3>2, <3>4 DEF IInv
  <2> QED
    BY <1>17, <2>4, <2>5 DEF CommitDatabase, Goto, Fail
<1>18. ASSUME NEW d \in Databases, RecordPublicationCommit(d) PROVE IInv'
  <2> DEFINE s == [mem EXCEPT !.pending.commits[d] = head[d]]
  <2>1. pc = "completing" /\ d \in Unrecorded /\ head[d].pub = op /\ UNCHANGED <<head, work>>
    BY <1>18 DEF RecordPublicationCommit, FirstOf, data
  <2>2. op # 0 /\ mem.pending.ready
    BY <1>1, <2>1 DEF PcOK
  <2>3. d \in Affected[op] /\ mem.pending.commits[d] = NoCommit
    BY <1>2, <2>1, <2>2 DEF Unrecorded
  <2>4. /\ s \in State /\ s.applied = mem.applied /\ s.phase = mem.phase
        /\ s.maps = mem.maps /\ s.intervals = mem.intervals
        /\ s.pending.op = mem.pending.op /\ s.pending.ready = mem.pending.ready
        /\ s.pending.commits = [mem.pending.commits EXCEPT ![d] = head[d]]
        /\ s.pending.pre = mem.pending.pre
    BY <1>0 DEF State, PendingPublication, CommitID
  <2>5. Persist(s, "completing", {})
    BY <1>18 DEF RecordPublicationCommit
  <2> HIDE DEF s
  <2>6. StateOK(s, head, work)
    BY <1>0, <1>1, <2>1, <2>2, <2>3, <2>4, RecordOK DEF op
  <2>7. /\ StateOK(mem, head, work)' /\ StateOK(disk, head, work)'
        /\ mem' = s /\ disk'.intervals = mem'.intervals
        /\ \/ disk' = s /\ pc' = "completing"
           \/ disk' = disk /\ pc' = "retrying"
    BY <2>1, <2>4, <2>5, <2>6, PersistOK
  <2>8. Lag'
    BY <1>1, <2>1, <2>4, <2>7 DEF Lag
  <2>9. op' # 0 /\ mem'.pending.ready
    BY <2>2, <2>4, <2>7 DEF op
  <2>10. PcOK'
    BY <2>7, <2>9 DEF PcOK
  <2> QED
    BY <2>7, <2>8, <2>10 DEF IInv
<1>19. ASSUME op # 0, Unrecorded = {} PROVE AllRecorded(mem)
  BY <1>2, <1>19 DEF Unrecorded, AllRecorded, op
<1>20. Interval.op = mem.pending.op /\ Interval.commits = mem.pending.commits
  BY DEF Interval, op
<1>21. /\ Published.applied = mem.pending.op /\ Published.phase = mem.phase
       /\ Published.maps = mem.maps /\ Published.pending = NoPending
       /\ Published.intervals = mem.intervals \cup {Interval}
  BY <1>0 DEF Published, State, op
<1>22. ASSUME op # 0, mem.pending.ready, Unrecorded = {}, UNCHANGED <<head, work>>, next' = op + 1,
              mem' = Published, disk' = Published, pc' = "steady"
       PROVE  IInv'
  <2>1. StateOK(mem', head, work)
    <3>1. AllRecorded(mem) /\ mem.pending.op # 0
      BY <1>19, <1>22 DEF op
    <3>2. /\ mem'.applied = mem.pending.op /\ mem'.phase = mem.phase /\ mem'.maps = mem.maps
          /\ mem'.pending = NoPending /\ mem'.intervals = mem.intervals \cup {Interval}
      BY <1>21, <1>22
    <3> QED
      BY <1>0, <1>1, <1>20, <1>22, <3>1, <3>2, PublishOK
  <2>2. op' = 0 /\ next' = mem'.applied + 1
    BY <1>21, <1>22 DEF op, NoPending
  <2>3. Lag' /\ PcOK'
    BY <1>22, <2>2 DEF Lag, PcOK
  <2> QED
    BY <1>22, <2>1, <2>3 DEF IInv
<1>23. CASE AppendCommitInterval
  <2>1. /\ pc = "completing" /\ Unrecorded = {} /\ UNCHANGED <<mem, head, work>>
        /\ \A i \in mem.intervals : i.op < op
    BY <1>23 DEF AppendCommitInterval, data
  <2>2. op # 0 /\ mem.pending.ready /\ disk = mem
    BY <1>1, <2>1 DEF PcOK, Lag
  <2>3. CASE UNCHANGED disk /\ pc' = "retrying"
    <3>1. Lag' /\ PcOK'
      BY <2>1, <2>2, <2>3 DEF Lag, PcOK
    <3> QED
      BY <1>1, <2>1, <2>3, <3>1 DEF IInv
  <2>4. CASE disk' = [disk EXCEPT !.intervals = @ \cup {Interval}] /\ pc' = "saving"
    <3>1. /\ disk'.applied = mem.applied /\ disk'.phase = mem.phase /\ disk'.maps = mem.maps
          /\ disk'.pending = mem.pending /\ disk'.intervals = mem.intervals \cup {Interval}
      BY <1>0, <2>2, <2>4 DEF State
    <3>2. StateOK(disk', head, work)
      BY <1>0, <1>1, <1>19, <1>20, <2>1, <2>2, <3>1, AppendOK DEF op
    <3>3. op' = op /\ Interval' = Interval /\ Unrecorded' = Unrecorded
      BY <2>1 DEF op, Interval, Unrecorded, Target
    <3>4. Lag'
      BY <2>1, <2>2, <2>4, <3>3 DEF Lag
    <3>5. PcOK'
      BY <2>1, <2>2, <2>4, <3>3 DEF PcOK
    <3> QED
      BY <1>1, <2>1, <3>2, <3>4, <3>5 DEF IInv
  <2> QED
    BY <1>23, <2>3, <2>4 DEF AppendCommitInterval, Goto, Fail
<1>24. CASE SavePublication
  <2>1. pc = "saving" /\ UNCHANGED <<head, work>> /\ next' = op + 1
    BY <1>24 DEF SavePublication, data
  <2>2. op # 0 /\ mem.pending.ready /\ Unrecorded = {}
        /\ disk = [mem EXCEPT !.intervals = @ \cup {Interval}]
    BY <1>1, <2>1 DEF PcOK, Lag
  <2>3. CASE mem' = Published /\ disk' = Saved(Published) /\ pc' = "steady"
    <3>1. Published.intervals = disk.intervals
      BY <1>0, <1>21, <2>2 DEF State
    <3>2. disk' = Published
      BY <1>0, <2>3, <3>1, SavedSame
    <3> QED
      BY <1>22, <2>1, <2>2, <2>3, <3>2
  <2>4. CASE mem' = [mem EXCEPT !.intervals = @ \cup {Interval}] /\ UNCHANGED disk /\ pc' = "retrying"
    <3>1. mem' = disk
      BY <2>2, <2>4
    <3>2. Lag' /\ PcOK'
      BY <2>4, <3>1 DEF Lag, PcOK
    <3> QED
      BY <1>1, <2>1, <2>4, <3>1, <3>2 DEF IInv
  <2> QED
    BY <1>4, <1>24, <2>3, <2>4 DEF SavePublication, Goto, Fail
<1>25. CASE RepublishCommit
  <2>1. /\ pc = "completing" /\ Unrecorded = {} /\ UNCHANGED <<head, work>> /\ next' = op + 1
        /\ IntervalOf(mem, op) = {Interval}
    BY <1>25 DEF RepublishCommit, data
  <2>2. op # 0 /\ mem.pending.ready /\ disk = mem
    BY <1>1, <2>1 DEF PcOK, Lag
  <2>3. CASE mem' = Published /\ disk' = Saved(Published) /\ pc' = "steady"
    <3>1. Interval \in mem.intervals
      BY <2>1 DEF IntervalOf
    <3>2. Published.intervals = disk.intervals
      BY <1>21, <2>2, <3>1
    <3>3. disk' = Published
      BY <1>0, <2>3, <3>2, SavedSame
    <3> QED
      BY <1>22, <2>1, <2>2, <2>3, <3>3
  <2>4. CASE UNCHANGED <<mem, disk>> /\ pc' = "retrying"
    <3>1. Lag' /\ PcOK'
      BY <2>2, <2>4 DEF Lag, PcOK
    <3> QED
      BY <1>1, <2>1, <2>4, <3>1 DEF IInv
  <2> QED
    BY <1>4, <1>25, <2>3, <2>4 DEF RepublishCommit, Goto, Fail
<1>26. CASE BackgroundPersist
  <2>1. pc # "saving" /\ UNCHANGED <<mem, head, work, pc, todo, next>> /\ disk' = Saved(mem)
    BY <1>26 DEF BackgroundPersist, data
  <2>2. disk' = mem
    BY <1>0, <1>1, <2>1, SavedSame DEF Lag
  <2>3. op' = op /\ Target' = Target
    BY <2>1 DEF op, Target
  <2>4. Lag'
    BY <2>1, <2>2 DEF Lag
  <2>5. PcOK'
    BY <1>1, <2>1, <2>3 DEF PcOK
  <2> QED
    BY <1>1, <2>1, <2>2, <2>4, <2>5 DEF IInv
<1>27. CASE Restart
  <2>1. UNCHANGED <<disk, head, work>> /\ mem' = disk /\ pc' = "recover"
    BY <1>27 DEF Restart, Goto, data
  <2>2. Lag' /\ PcOK'
    BY <2>1 DEF Lag, PcOK
  <2> QED
    BY <1>1, <2>1, <2>2 DEF IInv
<1>28. CASE UNCHANGED vars
  <2>1. UNCHANGED <<mem, disk, head, work, pc, todo, next>>
    BY <1>28 DEF vars
  <2>2. op' = op /\ Target' = Target /\ Interval' = Interval /\ Unrecorded' = Unrecorded
    BY <2>1 DEF op, Target, Interval, Unrecorded
  <2>3. Lag' /\ PcOK'
    BY <1>1, <2>1, <2>2 DEF Lag, PcOK
  <2> QED
    BY <1>1, <2>1, <2>3 DEF IInv
<1> QED
  BY <1>3, <1>5, <1>6, <1>7, <1>8, <1>9, <1>10, <1>11, <1>12, <1>13, <1>14, <1>15, <1>16, <1>17,
     <1>18, <1>23, <1>24, <1>25, <1>26, <1>27, <1>28 DEF Next, Step

-----------------------------------------------------------------------------
(* The theorems *)

(* The invariant holds of every behaviour. *)
THEOREM Invariance ==
  ASSUME AdminUntouched, ~StickyFaults
  PROVE  Spec => [](TypeOK /\ IInv)
<1>1. Init => TypeOK /\ Working /\ IInv
  BY InitType, InitInv DEF Init, Working
<1>2. (TypeOK /\ Working /\ IInv) /\ [Next]_vars => (TypeOK /\ Working /\ IInv)'
  BY StepType, StepInv
<1> QED
  BY <1>1, <1>2, PTL DEF Spec

(* Whatever write fails and whenever the process dies, main of every       *)
(* database holds exactly the entries up to the checkpoint, and at most    *)
(* the entry being published on top of them (HeadsExact).                  *)
THEOREM HeadsCorrect ==
  ASSUME AdminUntouched, ~StickyFaults
  PROVE  Spec => []HeadsExact
<1>1. TypeOK /\ IInv => HeadsExact
  <2> SUFFICES ASSUME TypeOK, IInv, NEW d \in Databases, NEW s \in {mem, disk}
               PROVE  \/ head[d].content = Through(d, s.applied)
                      \/ head[d].content = Through(d, s.applied + 1)
    BY DEF HeadsExact
  <2>1. HeadsOK(s, head) /\ PendingOK(s, head)
    BY DEF IInv, StateOK
  <2> QED
    BY <2>1 DEF HeadsOK, PendingOK, Touches
<1> QED
  BY <1>1, Invariance, PTL

(* An abort or a restart finds the control maps of the checkpoint          *)
(* (MapsExact).                                                            *)
THEOREM MapsCorrect ==
  ASSUME AdminUntouched, ~StickyFaults
  PROVE  Spec => []MapsExact
<1>1. TypeOK /\ IInv => MapsExact
  <2> SUFFICES ASSUME TypeOK, IInv PROVE MapsExact
    OBVIOUS
  <2>1. MapsOK(mem) /\ MapsOK(disk)
    BY DEF IInv, StateOK
  <2> QED
    BY <2>1 DEF MapsOK, MapsExact
<1> QED
  BY <1>1, Invariance, PTL

(* Every applied entry has its commit interval on disk, and the intervals  *)
(* name the right commits (IntervalsExact).                                *)
THEOREM IntervalsCorrect ==
  ASSUME AdminUntouched, ~StickyFaults
  PROVE  Spec => []IntervalsExact
<1>1. TypeOK /\ IInv => IntervalsExact
  <2> SUFFICES ASSUME TypeOK, IInv PROVE IntervalsExact
    OBVIOUS
  <2>1. IntervalsOK(mem) /\ IntervalsOK(disk)
    BY DEF IInv, StateOK
  <2>2. mem \in State /\ disk \in State
    BY DEF TypeOK
  <2>3. mem.intervals \subseteq disk.intervals
    BY <2>2 DEF IInv, Lag, State
  <2>4. IntervalsSurvive
    BY <2>1, <2>3 DEF IntervalsOK, IntervalsSurvive, IntervalOf
  <2> QED
    BY <2>1, <2>4 DEF IntervalsOK, IntervalsExact
<1> QED
  BY <1>1, Invariance, PTL

(* The control store refuses nothing the runtime asks of it, and a         *)
(* publication it calls complete is applied (NeverRefused,                 *)
(* CompleteMeansApplied).                                                  *)
THEOREM NothingRefused ==
  ASSUME AdminUntouched, ~StickyFaults
  PROVE  Spec => [](NeverRefused /\ CompleteMeansApplied)
<1>1. TypeOK /\ IInv => NeverRefused /\ CompleteMeansApplied
  <2> SUFFICES ASSUME TypeOK, IInv PROVE NeverRefused /\ CompleteMeansApplied
    OBVIOUS
  <2>0. mem \in State /\ disk \in State
    BY DEF TypeOK
  <2>1. PendingOK(mem, head) /\ IntervalsOK(mem) /\ PcOK /\ Lag
    BY DEF IInv, StateOK
  <2>2. ASSUME pc = "steady" PROVE op = 0 /\ IntervalOf(mem, next) = {}
    <3>1. op = 0 /\ next = mem.applied + 1
      BY <2>1, <2>2 DEF PcOK
    <3>2. \A i \in mem.intervals : i.op <= mem.applied
      BY <2>0, <2>1, <3>1, StateParts DEF IntervalsOK, op, Entries
    <3>3. \A i \in mem.intervals : i.op # next
      BY <2>0, <3>1, <3>2, StateParts
    <3> QED
      BY <3>1, <3>3 DEF IntervalOf
  <2>3. ASSUME pc = "completing"
        PROVE  /\ mem.pending.ready /\ mem.applied < op
               /\ \A i \in mem.intervals : i.op <= op
               /\ IntervalOf(mem, op) \subseteq {Interval} /\ disk = mem
    <3>1. mem.pending.ready /\ op # 0 /\ disk = mem
      BY <2>1, <2>3 DEF PcOK, Lag
    <3>2. op = mem.applied + 1
      BY <2>1, <3>1 DEF PendingOK, op
    <3>3. mem.applied < op
      BY <2>0, <3>2, StateParts
    <3>4. \A i \in mem.intervals : i.op <= op
      BY <2>0, <2>1, <3>2, StateParts DEF IntervalsOK, op
    <3>5. ASSUME NEW i \in mem.intervals, i.op = op PROVE i = Interval
      <4>1. ~(i.op <= mem.applied)
        <5>1. mem.applied \in Nat
          BY <2>0, StateParts
        <5> QED
          BY <5>1, <3>2, <3>5
      <4>2. i.commits = mem.pending.commits
        BY <2>1, <4>1 DEF IntervalsOK
      <4> QED
        BY <2>0, <3>5, <4>2 DEF State, CommitInterval, Interval
    <3> QED
      BY <3>1, <3>3, <3>4, <3>5 DEF IntervalOf
  <2>4. ASSUME pc = "aborting" PROVE ~mem.pending.ready /\ Unrecorded = Target
    <3>1. ~mem.pending.ready /\ op # 0
      BY <2>1, <2>4 DEF PcOK
    <3>2. Target \subseteq Databases
      BY <2>0, StateParts DEF Target, op
    <3>3. \A d \in Databases : mem.pending.commits[d] = NoCommit
      BY <2>1, <3>1 DEF PendingOK, op
    <3> QED
      BY <3>1, <3>2, <3>3 DEF Unrecorded
  <2> QED
    BY <2>2, <2>3, <2>4 DEF NeverRefused, CompleteMeansApplied
<1> QED
  BY <1>1, Invariance, PTL

-----------------------------------------------------------------------------
(* What a step does to HEAD and to the checkpoint on disk *)

(* storage.save writes the checkpoint of the state it is given. *)
LEMMA SavedParts ==
  ASSUME NEW s \in State
  PROVE  Saved(s).applied = s.applied /\ Saved(s).pending = s.pending
  BY SMTT(30) DEF Saved, State

(* The checkpoint on disk stays, or moves by one entry when nothing is     *)
(* pending any more.                                                       *)
LEMMA CheckpointStep ==
  ASSUME AdminUntouched, ~StickyFaults, TypeOK, TypeOK', IInv, [Next]_vars,
         disk'.applied # disk.applied
  PROVE  disk'.applied = disk.applied + 1 /\ disk'.pending.op = 0
<1>0. /\ mem \in State /\ disk \in State /\ mem' \in State
      /\ PendingOK(mem, head) /\ Lag /\ PcOK
      /\ mem.phase = "complete" /\ mem.applied # 0
  BY DEF TypeOK, IInv, StateOK
<1>1. ASSUME disk' = Saved(mem), pc # "saving"
      PROVE  disk'.applied = disk.applied + 1 /\ disk'.pending.op = 0
  BY <1>0, <1>1, SavedParts DEF Lag, op
<1>2. ASSUME NEW s \in State, NEW where, NEW dbs, Persist(s, where, dbs),
             pc \in {"steady", "applying", "aborting", "completing"},
             s.applied = mem.applied
      PROVE  FALSE
  <2>1. disk' = Saved(s)
    BY SMTT(30), <1>2 DEF Persist
  <2> QED
    BY <1>0, <1>2, <2>1, SavedParts DEF Lag
<1>3. CASE Retry \/ BackgroundPersist
  BY <1>1, <1>3 DEF Retry, BackgroundPersist
<1>4. CASE AdvanceApplied
  <2>1. pc = "steady" /\ mem' = [mem EXCEPT !.applied = next] /\ disk' = Saved(mem')
    BY <1>4 DEF AdvanceApplied, Persist
  <2>2. op = 0 /\ next = mem.applied + 1 /\ disk = mem
    BY <1>0, <2>1 DEF PcOK, Lag
  <2>3. mem'.applied = mem.applied + 1 /\ mem'.pending = mem.pending
    BY <1>0, <2>1, <2>2 DEF State
  <2> QED
    BY <1>0, <2>1, <2>2, <2>3, SavedParts DEF op
<1>5. CASE BeginPublication
  <2>1. mem' = [mem EXCEPT !.pending = Planned] /\ pc = "steady"
    BY <1>5 DEF BeginPublication, Persist
  <2>2. mem'.applied = mem.applied
    BY <1>0, <2>1 DEF State
  <2>3. Persist(mem', "applying", Affected[next])
    BY <1>5, <2>1 DEF BeginPublication
  <2> QED
    BY <1>0, <1>2, <2>1, <2>2, <2>3
<1>6. CASE ApplyControl
  <2>1. pc = "applying" /\ mem' = [mem EXCEPT !.maps = @ \cup {op}] /\ disk' = Saved(mem')
    BY <1>6 DEF ApplyControl
  <2> QED
    BY <1>0, <2>1, SavedParts DEF Lag, State
<1>7. CASE MarkPublicationReady
  <2>1. mem' = [mem EXCEPT !.pending.ready = TRUE] /\ pc = "applying"
    BY <1>7 DEF MarkPublicationReady, Persist
  <2>2. mem'.applied = mem.applied
    BY <1>0, <2>1 DEF State
  <2>3. Persist(mem', "completing", {})
    BY <1>7, <2>1 DEF MarkPublicationReady
  <2> QED
    BY <1>0, <1>2, <2>1, <2>2, <2>3
<1>8. CASE AbortPublication
  <2>1. mem' = [mem EXCEPT !.pending = NoPending, !.maps = mem.pending.pre] /\ pc = "aborting"
    BY <1>8 DEF AbortPublication, Persist
  <2>2. mem'.applied = mem.applied
    BY <1>0, <2>1 DEF State
  <2>3. Persist(mem', "recover", {})
    BY <1>8, <2>1 DEF AbortPublication
  <2> QED
    BY <1>0, <1>2, <2>1, <2>2, <2>3
<1>9. ASSUME NEW d \in Databases, RecordPublicationCommit(d) PROVE FALSE
  <2>1. mem' = [mem EXCEPT !.pending.commits[d] = head[d]] /\ pc = "completing"
    BY <1>9 DEF RecordPublicationCommit, Persist
  <2>2. mem'.applied = mem.applied
    BY <1>0, <2>1 DEF State
  <2>3. Persist(mem', "completing", {})
    BY <1>9, <2>1 DEF RecordPublicationCommit
  <2> QED
    BY <1>0, <1>2, <2>1, <2>2, <2>3
<1>10. ASSUME NEW d \in Databases, ResetDatabase(d) PROVE FALSE
  <2>1. pc = "aborting" /\ d \in todo
    BY <1>10 DEF ResetDatabase, FirstOf
  <2>2. d \in Affected[op] /\ op \in Entries \ {1}
    <3>1. op \in Entries /\ op = mem.applied + 1 /\ mem.applied # 0 /\ mem.applied \in Nat
      BY <1>0, <2>1, StateParts DEF PcOK, PendingOK, op
    <3> QED
      BY <1>0, <2>1, <3>1 DEF PcOK, Target
  <2>3. d # Admin
    BY <2>2 DEF AdminUntouched
  <2> QED
    BY <1>10, <2>3 DEF ResetDatabase
<1>11. CASE AppendCommitInterval
  BY <1>0, <1>11 DEF AppendCommitInterval, State
<1>12. CASE SavePublication \/ RepublishCommit
  <2>1. pc \in {"saving", "completing"} /\ mem' = Published /\ disk' = Saved(Published)
    BY <1>12 DEF SavePublication, RepublishCommit
  <2>2. op = mem.applied + 1 /\ disk.applied = mem.applied
    BY <1>0, <2>1 DEF PcOK, PendingOK, Lag, op, State
  <2>3. Published.applied = op /\ Published.pending.op = 0
    BY <1>0 DEF Published, State, NoPending
  <2> QED
    BY <1>0, <2>1, <2>2, <2>3, SavedParts
<1>13. ASSUME UNCHANGED disk PROVE FALSE
  BY <1>13
<1>14. ASSUME \/ RunInitialSync \/ ResetInitialSync \/ BeginInitialSync
              \/ \E d \in Databases : ResetInitialSyncData(d)
       PROVE  FALSE
  BY <1>0, <1>14
  DEF RunInitialSync, ResetInitialSync, BeginInitialSync, ResetInitialSyncData, PcOK
<1> QED
  BY <1>14, <1>3, <1>4, <1>5, <1>6, <1>7, <1>8, <1>9, <1>10, <1>11, <1>12, <1>13
  DEF Next, Step, RecoverIdle, RecoverPublication, SkipComplete, ApplyData, ApplyFails,
      CommitDatabase, Restart, vars

(* HEAD of a database moves by CommitDatabase alone: from the entries up   *)
(* to the checkpoint to those and the next.                                *)
LEMMA HeadStep ==
  ASSUME TypeOK, IInv, [Next]_vars, head' # head
  PROVE  \E d \in Databases :
           /\ d \in Affected[disk.applied + 1]
           /\ disk.applied + 1 \in Entries \ Noop
           /\ head' = [head EXCEPT ![d] = NewCommit(d)]
           /\ head[d].content = Through(d, disk.applied) /\ head[d].pub <= disk.applied
           /\ NewCommit(d).pub = disk.applied + 1
           /\ NewCommit(d).content = Through(d, disk.applied + 1)
           /\ UNCHANGED disk
<1>0. /\ mem \in State /\ StateOK(mem, head, work) /\ Lag /\ PcOK
  BY DEF TypeOK, IInv
<1>1. ~\E d \in Databases : ResetInitialSyncData(d)
  BY <1>0 DEF ResetInitialSyncData, PcOK
<1>2. PICK d \in Databases : CommitDatabase(d)
  BY <1>1 DEF Next, Step, RecoverIdle, RunInitialSync, ResetInitialSync, BeginInitialSync, RecoverPublication, Retry, AdvanceApplied, SkipComplete,
    BeginPublication, ApplyData, ApplyControl, ApplyFails, MarkPublicationReady, ResetDatabase,
    AbortPublication, RecordPublicationCommit, AppendCommitInterval, SavePublication,
    RepublishCommit, BackgroundPersist, Restart, vars, data
<1>3. /\ pc = "completing" /\ d \in Unrecorded /\ head[d].pub # op
      /\ head' = [head EXCEPT ![d] = NewCommit(d)] /\ UNCHANGED disk
  BY <1>2 DEF CommitDatabase, FirstOf
<1>4. op # 0 /\ mem.pending.ready /\ disk = mem
  BY <1>0, <1>3 DEF PcOK, Lag
<1>5. op = disk.applied + 1 /\ op \in Entries \ Noop
  BY <1>0, <1>4 DEF StateOK, PendingOK, op
<1>6. Touches(mem, d)
  BY <1>3, <1>4 DEF Unrecorded, Target, Touches, op
<1>7. head[d].content = Through(d, disk.applied) /\ head[d].pub <= disk.applied
  BY <1>0, <1>3, <1>4 DEF StateOK, HeadsOK, op
<1>8. work[d] = Through(d, op)
  BY <1>0, <1>4, <1>6 DEF StateOK, WorkOK, op
<1>9. NewCommit(d).pub = op /\ NewCommit(d).content = work[d]
  BY DEF NewCommit
<1> QED
  BY <1>3, <1>5, <1>6, <1>7, <1>8, <1>9 DEF Touches, op

-----------------------------------------------------------------------------
(* Theorems about steps *)

(* No commit of a publication is made twice or out of order, whatever is   *)
(* retried or recovered (PublishedOnce).                                   *)
THEOREM PublicationOrder ==
  ASSUME AdminUntouched, ~StickyFaults
  PROVE  Spec => PublishedOnce
<1>1. ASSUME TypeOK, IInv, [Next]_vars
      PROVE  [\A d \in Databases : head'[d] # head[d] => head'[d].pub > head[d].pub]_vars
  <2> SUFFICES ASSUME NEW x \in Databases, head'[x] # head[x]
               PROVE  head'[x].pub > head[x].pub
    OBVIOUS
  <2>1. head \in [Databases -> Commit] /\ disk.applied \in Nat
    BY <1>1, StateParts DEF TypeOK
  <2>2. PICK d \in Databases :
          /\ head' = [head EXCEPT ![d] = NewCommit(d)]
          /\ head[d].pub <= disk.applied /\ NewCommit(d).pub = disk.applied + 1
    BY <1>1, HeadStep
  <2>3. x = d /\ head'[x] = NewCommit(x)
    BY <2>1, <2>2
  <2>4. head[x].pub \in Int
    BY <2>1, ConstantsAssumption DEF Commit
  <2> QED
    BY <2>1, <2>2, <2>3, <2>4
<1> QED
  BY <1>1, Invariance, PTL DEF Spec, PublishedOnce

(* An entry is never applied to a database whose main has it (AppliedOnce). *)
THEOREM ApplicationOnce ==
  ASSUME AdminUntouched, ~StickyFaults
  PROVE  Spec => AppliedOnce
<1>1. ASSUME TypeOK, IInv, [Next]_vars
      PROVE  [\A d \in Databases :
                pc = "applying" /\ d \in todo \ todo' => op \notin work[d] \cup head[d].content]_vars
  <2> SUFFICES ASSUME NEW d \in Databases, pc = "applying", d \in todo
               PROVE  op \notin work[d] \cup head[d].content
    OBVIOUS
  <2>1. /\ mem \in State /\ StateOK(mem, head, work) /\ ~mem.pending.ready /\ op # 0
        /\ op \notin work[d]
    BY SMTT(30), <1>1 DEF TypeOK, IInv, PcOK
  <2>2. op = mem.applied + 1 /\ op \in Entries /\ mem.applied \in Nat
    BY ZenonT(30), <2>1, StateParts DEF StateOK, PendingOK, op
  <2>3. head[d].content = Through(d, mem.applied)
    BY <2>1 DEF StateOK, HeadsOK
  <2> QED
    BY <2>1, <2>2, <2>3, ThroughNext
<1> QED
  BY <1>1, Invariance, PTL DEF Spec, AppliedOnce

(* Publication implements the abstract replica: the durable checkpoint and *)
(* the HEADs of main behave as Replica says (ImplementsReplica).           *)
THEOREM Refinement ==
  ASSUME AdminUntouched, ~StickyFaults
  PROVE  Spec => ImplementsReplica
<1> DEFINE heads == [d \in Databases |-> head[d].content]
<1>1. Init => Promise!Init
  <2> SUFFICES ASSUME Init PROVE disk.applied = 1 /\ heads = [d \in Databases |-> Promise!Through(d, 1)]
    BY DEF Promise!Init
  <2>1. \A d \in Databases : Promise!Through(d, 1) = Through(d, 1)
    BY DEF Promise!Through, Through, Promise!Entries, Entries
  <2>2. \A d \in Databases : head[d].content = Through(d, 1)
    BY FirstContents
  <2> QED
    BY <2>1, <2>2 DEF Init, InitialState
<1>2. ASSUME TypeOK, TypeOK', IInv, IInv', [Next]_vars
      PROVE  [Promise!Next]_<<disk.applied, heads>>
  <2>0. head \in [Databases -> Commit] /\ head' \in [Databases -> Commit]
    BY <1>2 DEF TypeOK
  <2>1. \A d \in Databases, n \in Nat : Promise!Through(d, n) = Through(d, n)
    BY DEF Promise!Through, Through, Promise!Entries, Entries
  <2>2. disk.applied \in Nat /\ disk.applied + 1 \in Nat
    <3>1. disk \in State
      BY <1>2 DEF TypeOK
    <3> QED
      BY <3>1, StateParts
  <2>3. CASE head' # head
    <3>1. PICK d \in Databases :
           /\ d \in Affected[disk.applied + 1]
           /\ disk.applied + 1 \in Entries \ Noop
           /\ head' = [head EXCEPT ![d] = NewCommit(d)]
           /\ head[d].content = Through(d, disk.applied)
           /\ NewCommit(d).content = Through(d, disk.applied + 1)
           /\ UNCHANGED disk
      BY <1>2, <2>3, HeadStep
    <3>2. heads' = [heads EXCEPT ![d] = Through(d, disk.applied + 1)]
      BY ZenonT(30), <2>0, <3>1
    <3>3. heads[d] = Promise!Through(d, disk.applied)
      BY <2>1, <2>2, <3>1
    <3>4. Through(d, disk.applied + 1) = Promise!Through(d, disk.applied + 1)
      BY <2>1, <2>2
    <3>5. disk.applied + 1 \in Promise!Entries \ Noop
      BY <3>1 DEF Entries, Promise!Entries
    <3>6. Promise!Publish(d)
      BY <3>1, <3>2, <3>3, <3>4, <3>5 DEF Promise!Publish
    <3> QED
      BY <3>6 DEF Promise!Next
  <2>4. CASE head' = head /\ disk'.applied # disk.applied
    <3>1. disk'.applied = disk.applied + 1 /\ disk'.pending.op = 0
      BY <1>2, <2>4, CheckpointStep
    <3>2. \A d \in Databases : head[d].content = Through(d, disk.applied + 1)
      <4>1. HeadsOK(disk', head)
        BY <1>2, <2>4 DEF IInv, StateOK
      <4> QED
        BY <3>1, <4>1 DEF HeadsOK, Touches
    <3>3. \A d \in Databases : heads[d] = Promise!Through(d, disk.applied + 1)
      BY <2>1, <2>2, <3>2
    <3>4. disk.applied + 1 \in Promise!Entries
      BY <1>2, <2>2, <3>1, StateParts DEF TypeOK, Promise!Entries
    <3>5. heads' = heads
      BY <2>4
    <3>6. Promise!Advance
      BY <3>1, <3>3, <3>4, <3>5 DEF Promise!Advance
    <3> QED
      BY <3>6 DEF Promise!Next
  <2>5. CASE head' = head /\ disk'.applied = disk.applied
    BY <2>5
  <2> QED
    BY <2>3, <2>4, <2>5
<1>3. Spec => [](TypeOK /\ IInv)
  BY Invariance
<1> QED
  BY <1>1, <1>2, <1>3, PTL DEF Spec, ImplementsReplica, Promise!Spec

-----------------------------------------------------------------------------
(* What holds even when entries touch admin or records of failures are lost *)

(* A HEAD is never ahead of its working set, and HEADs are taken back only *)
(* while memory says that the initial sync is incomplete; so main never    *)
(* loses an entry but to a new initial sync (MainKeepsEntries).            *)
THEOREM MainGrows == Spec => MainKeepsEntries
<1> DEFINE Covered == \A d \in Databases : head[d].content \subseteq work[d]
           Incomplete == pc \in {"resetting", "clearing"} => mem.phase # "complete"
           Keeps == mem.phase = "complete" =>
                      \A d \in Databases : head[d].content \subseteq head'[d].content
<1>1. Init => Covered /\ Incomplete
  <2> SUFFICES ASSUME Init PROVE Covered /\ Incomplete
    OBVIOUS
  <2>1. Covered
    BY FirstContents
  <2> QED
    BY <2>1 DEF Init
<1>2. TypeOK /\ Covered /\ Incomplete /\ [Next]_vars => Covered' /\ Keeps
  <2> SUFFICES ASSUME TypeOK, Covered, Incomplete, [Next]_vars PROVE Covered' /\ Keeps
    OBVIOUS
  <2>0. head \in [Databases -> Commit] /\ work \in [Databases -> SUBSET Entries]
    BY DEF TypeOK
  <2>1. ASSUME NEW d \in Databases, ApplyData(d) \/ ResetDatabase(d) \/ CommitDatabase(d)
        PROVE  Covered' /\ Keeps
    <3>1. CASE ApplyData(d)
      BY <2>0, <3>1 DEF ApplyData
    <3>2. CASE ResetDatabase(d)
      BY <2>0, <3>2 DEF ResetDatabase
    <3>3. CASE CommitDatabase(d)
      BY <2>0, <3>3 DEF CommitDatabase, NewCommit
    <3> QED
      BY <2>1, <3>1, <3>2, <3>3
  <2>2. ASSUME NEW d \in Databases, ResetInitialSyncData(d) PROVE Covered' /\ Keeps
    <3>1. mem.phase # "complete"
      BY <2>2 DEF ResetInitialSyncData
    <3>2. Covered'
      BY <2>0, <2>2 DEF ResetInitialSyncData, Root
    <3> QED
      BY <3>1, <3>2
  <2>3. ASSUME UNCHANGED <<head, work>> PROVE Covered' /\ Keeps
    BY <2>3
  <2> QED
    BY <2>1, <2>2, <2>3
    DEF Next, Step, RecoverIdle, RecoverPublication, RunInitialSync, ResetInitialSync,
      BeginInitialSync, Retry, AdvanceApplied, SkipComplete,
      BeginPublication, ApplyControl, ApplyFails, MarkPublicationReady, AbortPublication,
      RecordPublicationCommit, AppendCommitInterval, SavePublication, RepublishCommit,
      BackgroundPersist, Restart, vars, data
<1>3. TypeOK /\ Incomplete /\ [Next]_vars => Incomplete'
  <2> SUFFICES ASSUME TypeOK, Incomplete, [Next]_vars, pc' \in {"resetting", "clearing"}
               PROVE  mem'.phase # "complete"
    OBVIOUS
  <2>1. CASE RunInitialSync
    BY <2>1 DEF RunInitialSync
  <2>2. CASE ResetInitialSync
    BY <2>2 DEF ResetInitialSync, NewState, Fail
  <2>3. CASE \E d \in Databases : ResetInitialSyncData(d)
    BY <2>3 DEF ResetInitialSyncData, Fail
  <2>4. CASE BackgroundPersist \/ UNCHANGED vars
    BY <2>4 DEF BackgroundPersist, vars
  <2>5. AfterPublication \in {"steady", "recover"}
    BY DEF AfterPublication
  <2> QED
    BY <2>1, <2>2, <2>3, <2>4, <2>5
    DEF Next, Step, RecoverIdle, RecoverPublication, BeginInitialSync, Retry, AdvanceApplied,
      SkipComplete, BeginPublication, ApplyData, ApplyControl, ApplyFails, MarkPublicationReady,
      ResetDatabase, AbortPublication, CommitDatabase, RecordPublicationCommit,
      AppendCommitInterval, SavePublication, RepublishCommit, Restart, Persist, Goto, Fail
<1> QED
  BY <1>1, <1>2, <1>3, TypeCorrect, PTL DEF Spec, MainKeepsEntries

(* Unless an entry touches admin, a member that has completed its initial sync  *)
(* never starts another, whatever fails, the records of failures included: only *)
(* a hard reset of admin brings back a control state from before its end, and   *)
(* no publication but that of the initial sync has admin among its databases.   *)
THEOREM InitialSyncKept ==
  ASSUME AdminUntouched
  PROVE  Spec => []SyncStaysComplete
<1> DEFINE Kept(s) == s.phase = "complete" /\ s.applied # 0 /\ s.pending.op # 1
           KInv == /\ Kept(mem) /\ Kept(disk)
                   /\ next # 1
                   /\ pc \notin {"resetting", "clearing", "cloning"}
                   /\ pc = "aborting" => Admin \notin todo
<1>1. Init => KInv
  <2>1. Kept(InitialState)
    BY SMTT(30) DEF InitialState, NoPending
  <2> HIDE DEF Kept
  <2> QED
    BY <2>1 DEF Init
<1>2. TypeOK /\ Working /\ KInv /\ [Next]_vars => KInv'
  <2> SUFFICES ASSUME TypeOK, Working, KInv, [Next]_vars PROVE KInv'
    OBVIOUS
  <2>0. /\ mem \in State /\ disk \in State /\ next \in Nat \ {0} /\ mem.applied \in Nat
        /\ op \in Nat /\ op # 1
    BY ConstantsAssumption DEF TypeOK, State, PendingPublication, op
  <2>1. AfterPublication = "steady" /\ Admin \notin Target
    <3>1. op # 0 => op \in Entries \ {1}
      BY <2>0 DEF State, PendingPublication, op, Entries
    <3> QED
      BY <3>1, AdminUntouched DEF AdminUntouched, AfterPublication, Target
  <2>2. ASSUME NEW s \in State, NEW where, NEW dbs, Kept(s), Persist(s, where, dbs),
               where \notin {"resetting", "clearing", "cloning", "aborting"}, next' # 1
        PROVE  KInv'
    <3>1. Kept(Saved(s))
      BY <2>0, <2>2 DEF Saved, State
    <3> QED
      BY <2>2, <3>1 DEF Persist, Goto, Fail
  <2>3. Kept(Saved(mem))
    BY <2>0 DEF Saved, State
  <2>4. CASE RecoverIdle
    <3>1. next' = mem.applied + 1
      BY <2>4 DEF RecoverIdle
    <3>2. next' # 1
      BY <2>0, <3>1
    <3> QED
      BY <2>4, <3>2 DEF RecoverIdle, Goto
  <2>21. CASE SkipComplete
    <3>1. next' = next + 1
      BY <2>21 DEF SkipComplete
    <3>2. next' # 1
      BY <2>0, <3>1
    <3> QED
      BY <2>21, <3>2 DEF SkipComplete
  <2>5. CASE RecoverPublication
    BY <2>1, <2>5 DEF RecoverPublication, Goto
  <2>6. CASE Retry \/ BackgroundPersist
    BY <2>3, <2>6 DEF Retry, BackgroundPersist
  <2>7. CASE Restart \/ UNCHANGED vars
    BY <2>7 DEF Restart, Goto, vars
  <2>8. CASE AdvanceApplied
    <3> DEFINE s == [mem EXCEPT !.applied = next]
    <3>1. next \in 1..Last /\ Persist(s, "steady", {}) /\ next' = next + 1
      BY <2>8, ConstantsAssumption DEF AdvanceApplied, Entries
    <3>2. s \in State /\ Kept(s) /\ next' # 1
      BY <2>0, <3>1 DEF State
    <3> HIDE DEF s
    <3> QED
      BY <2>2, <3>1, <3>2
  <2>9. CASE BeginPublication
    <3> DEFINE s == [mem EXCEPT !.pending = Planned]
    <3>1. next \in Entries /\ next' # 1 /\ Persist(s, "applying", Affected[next])
      BY <2>9 DEF BeginPublication
    <3>2. Planned \in PendingPublication /\ Planned.op # 1
      BY <2>0, <3>1 DEF Planned, PendingPublication, State, Entries, CommitID
    <3>3. s \in State /\ Kept(s)
      BY <2>0, <3>2 DEF State
    <3> HIDE DEF s
    <3> QED
      BY <2>2, <3>1, <3>3
  <2>10. CASE ApplyControl
    <3>1. /\ mem'.phase = mem.phase /\ mem'.applied = mem.applied /\ mem'.pending = mem.pending
          /\ mem' \in State
      BY <2>0, <2>10, ConstantsAssumption DEF ApplyControl, State
    <3>2. disk' = disk \/ Kept(disk')
      BY ZenonT(30), <2>0, <2>10 DEF ApplyControl, Saved, State
    <3> QED
      BY <2>1, <2>10, <3>1, <3>2 DEF ApplyControl, Goto
  <2>11. ASSUME NEW d \in Databases, ApplyData(d) \/ CommitDatabase(d) PROVE KInv'
    BY <2>11 DEF ApplyData, CommitDatabase, Goto, Fail
  <2>12. CASE ApplyFails
    BY <2>1, <2>12 DEF ApplyFails, data
  <2>13. CASE MarkPublicationReady
    <3> DEFINE s == [mem EXCEPT !.pending.ready = TRUE]
    <3>1. next' # 1 /\ Persist(s, "completing", {})
      BY <2>13 DEF MarkPublicationReady
    <3>2. s \in State /\ Kept(s)
      BY ZenonT(30), <2>0 DEF State, PendingPublication, op
    <3> HIDE DEF s
    <3> QED
      BY <2>2, <3>1, <3>2
  <2>14. ASSUME NEW d \in Databases, ResetDatabase(d) PROVE KInv'
    <3>1. d # Admin
      BY ZenonT(30), <2>14 DEF ResetDatabase, FirstOf
    <3> QED
      BY <2>14, <3>1 DEF ResetDatabase, Goto, Fail
  <2>15. CASE AbortPublication
    <3> DEFINE s == [mem EXCEPT !.pending = NoPending, !.maps = mem.pending.pre]
    <3>1. next' # 1 /\ Persist(s, "recover", {})
      BY <2>15 DEF AbortPublication
    <3>2. mem.pending.pre \in SUBSET Entries /\ NoPending.op # 1
      BY <2>0 DEF State, PendingPublication, NoPending
    <3>3. s \in State /\ Kept(s)
      BY <2>0, <3>2, NoPendingType DEF State
    <3> HIDE DEF s
    <3> QED
      BY <2>2, <3>1, <3>3
  <2>16. ASSUME NEW d \in Databases, RecordPublicationCommit(d) PROVE KInv'
    <3> DEFINE s == [mem EXCEPT !.pending.commits[d] = head[d]]
    <3>1. next' # 1 /\ Persist(s, "completing", {})
      BY <2>16 DEF RecordPublicationCommit
    <3>2. head[d] \in CommitID
      BY DEF TypeOK, CommitID
    <3>3. s \in State /\ Kept(s)
      BY <2>0, <3>2 DEF State, PendingPublication, op
    <3> HIDE DEF s
    <3> QED
      BY <2>2, <3>1, <3>3
  <2>17. CASE AppendCommitInterval
    BY <2>0, <2>17 DEF AppendCommitInterval, Goto, Fail, State
  <2>18. ASSUME op # 0 PROVE Kept(Published) /\ Kept(Saved(Published)) /\ op + 1 # 1
    BY <2>0, <2>18 DEF Published, Saved, NoPending, State
  <2>19. CASE SavePublication \/ RepublishCommit
    <3>1. op # 0 /\ next' = op + 1
      BY <2>19 DEF SavePublication, RepublishCommit, Working
    <3>2. Kept([mem EXCEPT !.intervals = @ \cup {Interval}])
      BY <2>0 DEF State
    <3> QED
      BY <2>1, <2>18, <2>19, <3>1, <3>2 DEF SavePublication, RepublishCommit, Goto, Fail
  <2>20. ASSUME \/ RunInitialSync \/ ResetInitialSync \/ BeginInitialSync
                \/ \E d \in Databases : ResetInitialSyncData(d)
         PROVE  FALSE
    BY <2>20 DEF RunInitialSync, ResetInitialSync, BeginInitialSync, ResetInitialSyncData
  <2> QED
    BY <2>4, <2>6, <2>7, <2>8, <2>9, <2>10, <2>11, <2>13, <2>14, <2>15, <2>16, <2>17, <2>19, <2>20,
      <2>5, <2>12, <2>21
    DEF Next, Step
<1>3. KInv => SyncStaysComplete
  BY DEF SyncStaysComplete
<1>4. Init => TypeOK /\ Working
  BY InitType DEF Init, Working
<1>5. (TypeOK /\ Working) /\ [Next]_vars => (TypeOK /\ Working)'
  BY StepType
<1> QED
  BY <1>1, <1>2, <1>3, <1>4, <1>5, PTL DEF Spec
=============================================================================
