---------------------------- MODULE Publication ----------------------------
(***************************************************************************)
(* How a replication member turns one oplog entry after another into       *)
(* commits on the main branch of every database the entry touches.         *)
(*                                                                         *)
(*   runtime.go    applyEntry, recoverPublication, retry: `pc', `todo'     *)
(*   publisher.go  Begin, MarkReady, Complete                              *)
(*   store.go, publication.go   the control state held in memory: `mem'    *)
(*   storage.go    the control document and the commit-interval documents, *)
(*                 in the working set of the admin database: `disk'        *)
(*   backend.go    commit and hard reset of a database: `head', `work'     *)
(*                                                                         *)
(* An OpTime is its index in the source's oplog, 0 being the zero OpTime.  *)
(* The contents of a database are the set of entries it reflects.          *)
(* The control collection is part of the admin database, so a commit of    *)
(* admin captures it (`base') and a hard reset of admin restores it.       *)
(* The fetcher is left out: here the next entry is at hand when asked for. *)
(* Entry 1 stands for the range of the oplog the initial sync covers, from *)
(* BeginApply to Stop, and its publication is the one PublishInitialSync   *)
(* makes; the entries after it are those of steady replication.            *)
(***************************************************************************)
EXTENDS Integers

CONSTANTS
  Databases,    \* names of the databases
  Admin,        \* the database that holds the control collection
  Rank,         \* the sort order of the names
  Last,         \* length of the source's oplog
  Affected,     \* Affected[e]: what AffectedDatabases returns for entry e
  Noop,         \* the entries with operation "n"
  Mapped,       \* the entries whose application changes a control map
  Drops,        \* the entries that are a dropDatabase command
  StickyFaults, \* whether the write by which retry records a failure may fail too
  MaxFaults,    \* bound on failed writes and failed applications
  MaxCrashes    \* bound on restarts of the process

Entries == 1..Last

ASSUME ConstantsAssumption ==
  /\ Last \in Nat \ {0} /\ MaxFaults \in Nat /\ MaxCrashes \in Nat
  /\ StickyFaults \in BOOLEAN
  /\ Admin \in Databases
  /\ Rank \in [Databases -> Int]
  /\ \A d1, d2 \in Databases : Rank[d1] = Rank[d2] => d1 = d2
  /\ Affected \in [Entries -> SUBSET Databases]
  /\ Noop \subseteq Entries /\ Mapped \subseteq Entries
  /\ Mapped \cap Noop = {} /\ 1 \notin Noop
  /\ Drops \subseteq Entries

VARIABLES
  mem,      \* Store.state
  disk,     \* the control collection in admin's working set
  base,     \* the control collection in admin's HEAD commit
  head,     \* head[d]: the HEAD commit of d's main branch
  work,     \* work[d]: the contents of d's working set
  exists,   \* the databases that have been created
  pc,       \* where the runtime goroutine stands
  next,     \* the entry applyEntry is given next
  todo,     \* databases the current apply or reset loop still has to visit
  faults, crashes

vars == <<mem, disk, base, head, work, exists, pc, next, todo, faults, crashes>>

-----------------------------------------------------------------------------
(* Data.  The ID of a commit is a hash of its message, which names the     *)
(* publication (0 for "Initialize database"), of its ancestors, here their *)
(* number, and of its root, which holds the contents.                      *)
Commit == [pub : 0..Last, height : Nat, content : SUBSET Entries]

(* The empty commit ID a Go map returns for a database not yet recorded. *)
NoCommit == [pub |-> -1, height |-> 0, content |-> {}]

CommitID == Commit \cup {NoCommit}

(* op = 0 stands for a nil PendingPublication. *)
PendingPublication ==
  [op : 0..Last, ready : BOOLEAN, commits : [Databases -> CommitID], pre : SUBSET Entries]

NoPending ==
  [op |-> 0, ready |-> FALSE, commits |-> [d \in Databases |-> NoCommit], pre |-> {}]

CommitInterval == [op : Entries, commits : [Databases -> CommitID]]

(* applied: Checkpoint.Written = Durable = Applied.  phase: that of the    *)
(* initial sync, "running" from BeginInitialSync to its completion.  maps: *)
(* the entries reflected by CollectionMappings, TransactionParts,          *)
(* AuthOwnership and ReplicationMetadata together.                         *)
State ==
  [applied : 0..Last, phase : {"notStarted", "running", "complete"}, pending : PendingPublication,
   maps : SUBSET Entries, intervals : SUBSET CommitInterval]

(* What database d reflects once every entry up to n has been applied. *)
Through(d, n) == {e \in Entries : e <= n /\ e \notin Noop /\ d \in Affected[e]}

op == mem.pending.op

Target == IF op = 0 THEN {} ELSE Affected[op]

(* The databases Complete has still to commit or to record. *)
Unrecorded == {d \in Target : mem.pending.commits[d] = NoCommit}

FirstOf(d, S) == d \in S /\ \A x \in S : Rank[d] <= Rank[x]

Interval == [op |-> op, commits |-> mem.pending.commits]

IntervalOf(s, e) == {i \in s.intervals : i.op = e}

-----------------------------------------------------------------------------
(* A control store that knows of no initial sync. *)
NewState ==
  [applied |-> 0, phase |-> "notStarted", pending |-> NoPending, maps |-> {}, intervals |-> {}]

(* "Initialize database" *)
Root == [pub |-> 0, height |-> 0, content |-> {}]

(* What PublishInitialSync commits to the databases it publishes, admin    *)
(* among them when the source has one.                                     *)
FirstCommit == [pub |-> 1, height |-> 1, content |-> {1}]

Cloned(dbs) == [d \in Databases |-> IF d \in dbs THEN FirstCommit ELSE NoCommit]

(* Steady replication starts when CompleteInitialSync has saved this state. *)
InitialState ==
  [applied |-> 1, phase |-> "complete", pending |-> NoPending, maps |-> Mapped \cap {1},
   intervals |-> {[op |-> 1, commits |-> Cloned(Affected[1])]}]

(* The last commit of admin was made by Complete in the midst of that      *)
(* publication: it holds a control document with the publication ready,    *)
(* the databases before admin recorded, and the initial sync incomplete.   *)
(* When the initial sync did not publish admin, HEAD has no document.      *)
CommittedState ==
  IF Admin \in Affected[1]
  THEN [applied |-> 0, phase |-> "running", maps |-> Mapped \cap {1}, intervals |-> {},
        pending |-> [op |-> 1, ready |-> TRUE, pre |-> Mapped \cap {1},
                     commits |-> Cloned({d \in Affected[1] : Rank[d] < Rank[Admin]})]]
  ELSE NewState

Init ==
  /\ mem = InitialState
  /\ disk = InitialState
  /\ base = CommittedState
  /\ head = [d \in Databases |-> IF d \in Affected[1] THEN FirstCommit ELSE Root]
  /\ work = [d \in Databases |-> IF d \in Affected[1] THEN {1} ELSE {}]
  /\ exists = Affected[1] \cup {Admin}
  /\ pc = "recover"
  /\ next = 2
  /\ todo = {}
  /\ faults = 0 /\ crashes = 0

(* storage.save writes the whole state except the commit intervals. *)
Saved(s) == [s EXCEPT !.intervals = disk.intervals]

(* A write, or the application of an entry, fails. *)
Fault ==
  /\ faults < MaxFaults
  /\ faults' = faults + 1

Goto(where, dbs) ==
  /\ pc' = where
  /\ todo' = dbs
  /\ UNCHANGED faults

(* The step returns an error: runSteady or recoverPublication gives up and *)
(* Run calls retry.                                                        *)
Fail ==
  /\ Fault
  /\ pc' = "retrying"
  /\ todo' = {}

(* Most methods of Store change memory first and then persist, and leave   *)
(* memory changed when the write fails.                                    *)
Persist(s, where, dbs) ==
  /\ mem' = s
  /\ \/ disk' = Saved(s) /\ Goto(where, dbs)
     \/ UNCHANGED disk /\ Fail

data == <<base, head, work, exists>>

-----------------------------------------------------------------------------
(* runtime.Run *)

(* recoverPublication finds nothing pending; with no rollback pending and  *)
(* a source at hand, runSteady follows and fetches from the checkpoint.    *)
RecoverIdle ==
  /\ pc = "recover" /\ op = 0 /\ mem.phase = "complete"
  /\ Goto("steady", {})
  /\ next' = mem.applied + 1
  /\ UNCHANGED <<mem, disk, data, crashes>>

(* A control state from before the end of the initial sync sends Run to    *)
(* runInitialSync, which starts over: Coordinator.Reset, unless there is   *)
(* nothing to reset, and then Coordinator.Run, which clears the data too.  *)
RunInitialSync ==
  /\ pc = "recover" /\ op = 0 /\ mem.phase # "complete"
  /\ Goto(IF mem.phase = "running" THEN "resetting" ELSE "clearing", exists)
  /\ UNCHANGED <<mem, disk, data, next, crashes>>

(* ResetInitialSyncData takes main of every database on disk back to its   *)
(* first commit; the working set of admin keeps the control collection.    *)
ResetInitialSyncData(d) ==
  /\ pc \in {"resetting", "clearing"} /\ FirstOf(d, todo)
  /\ \/ /\ head' = [head EXCEPT ![d] = Root]
        /\ work' = [work EXCEPT ![d] = {}]
        /\ base' = IF d = Admin THEN NewState ELSE base
        /\ Goto(pc, todo \ {d})
     \/ Fail /\ UNCHANGED <<head, work, base>>
  /\ UNCHANGED <<mem, disk, exists, next, crashes>>

(* Store.ResetInitialSync forgets everything, and restores memory when the *)
(* write fails.                                                            *)
ResetInitialSync ==
  /\ pc = "resetting" /\ todo = {}
  /\ \/ mem' = NewState /\ disk' = NewState /\ Goto("clearing", exists)
     \/ Fail /\ UNCHANGED <<mem, disk>>
  /\ UNCHANGED <<data, next, crashes>>

(* Coordinator.Run begins an attempt; its clone is beyond this module. *)
BeginInitialSync ==
  /\ pc = "clearing" /\ todo = {}
  /\ Persist([mem EXCEPT !.phase = "running"], "cloning", {})
  /\ UNCHANGED <<data, next, crashes>>

(* Mutant: only a publication that was not ready is recovered. *)
RecoverUnready ==
  /\ pc = "recover" /\ op # 0 /\ ~mem.pending.ready
  /\ Goto("aborting", Target)
  /\ UNCHANGED <<mem, disk, data, next, crashes>>

(* Mutant: the abort resets the database of the control collection too. *)
RecoverWithAdmin ==
  /\ pc = "recover" /\ op # 0
  /\ \/ mem.pending.ready /\ Goto("completing", {})
     \/ ~mem.pending.ready /\ Goto("aborting", Target \cup {Admin})
  /\ UNCHANGED <<mem, disk, data, next, crashes>>

(* recoverPublication completes a publication that was ready and aborts    *)
(* one that was not.                                                       *)
RecoverPublication ==
  /\ pc = "recover" /\ op # 0
  /\ \/ mem.pending.ready /\ Goto("completing", {})
     \/ ~mem.pending.ready /\ Goto("aborting", Target)
  /\ UNCHANGED <<mem, disk, data, next, crashes>>

(* Mutant: the failure is not recorded. *)
RetryUnrecorded ==
  /\ pc = "retrying"
  /\ pc' = "recover"
  /\ UNCHANGED <<mem, disk, data, todo, faults, next, crashes>>

(* retry: RecordFailure persists the state; a failed write is only logged. *)
Retry ==
  /\ pc = "retrying"
  /\ \/ disk' = Saved(mem) /\ UNCHANGED faults
     \/ StickyFaults /\ UNCHANGED disk /\ Fault
  /\ pc' = "recover"
  /\ UNCHANGED <<mem, data, todo, next, crashes>>

-----------------------------------------------------------------------------
(* runtime.applyEntry *)

(* A no-op: AdvanceApplied moves the checkpoint, nothing is published. *)
AdvanceApplied ==
  /\ pc = "steady" /\ next \in Noop
  /\ Persist([mem EXCEPT !.applied = next], "steady", {})
  /\ next' = next + 1
  /\ UNCHANGED <<data, crashes>>

(* BeginPublication answers ErrPublicationComplete: applyEntry is done. *)
SkipComplete ==
  /\ pc = "steady" /\ next \in Entries \ Noop
  /\ IntervalOf(mem, next) # {}
  /\ next' = next + 1
  /\ UNCHANGED <<mem, disk, data, pc, todo, faults, crashes>>

Planned ==
  [op |-> next, ready |-> FALSE, commits |-> [d \in Databases |-> NoCommit], pre |-> mem.maps]

(* Mutant: the checkpoint moves when the publication begins. *)
BeginPublicationEarly ==
  /\ pc = "steady" /\ next \in Entries \ Noop
  /\ IntervalOf(mem, next) = {}
  /\ op = 0
  /\ Persist([mem EXCEPT !.pending = Planned, !.applied = next],
             "applying", Affected[next])
  /\ UNCHANGED <<data, next, crashes>>

(* BeginPublication.  Its refusal (another publication is pending) is a    *)
(* guard; NeverRefused says that it never holds.                           *)
BeginPublication ==
  /\ pc = "steady" /\ next \in Entries \ Noop
  /\ IntervalOf(mem, next) = {}
  /\ op = 0
  /\ Persist([mem EXCEPT !.pending = Planned], "applying", Affected[next])
  /\ UNCHANGED <<data, next, crashes>>

(* Applier.Apply writes the entry to the working set of one database,      *)
(* creating the database when it is new; dropDatabase of a database that   *)
(* does not exist does nothing, and so leaves it missing.                  *)
ApplyData(d) ==
  /\ pc = "applying" /\ d \in todo
  /\ work' = [work EXCEPT ![d] = @ \cup {op}]
  /\ exists' = IF op \in Drops THEN exists ELSE exists \cup {d}
  /\ todo' = todo \ {d}
  /\ UNCHANGED <<mem, disk, base, head, pc, faults, next, crashes>>

(* Applier.Apply records a mapping, a transaction fragment, an ownership   *)
(* or a metadata record.  A failed write fails the application.            *)
ApplyControl ==
  /\ pc = "applying" /\ op \in Mapped \ mem.maps
  /\ mem' = [mem EXCEPT !.maps = @ \cup {op}]
  /\ \/ disk' = Saved(mem') /\ Goto("applying", todo)
     \/ UNCHANGED disk /\ Fault /\ pc' = "aborting" /\ todo' = Target
  /\ UNCHANGED <<data, next, crashes>>

(* Applier.Apply returns an error: abortApplyingPublication. *)
ApplyFails ==
  /\ pc = "applying"
  /\ Fault /\ pc' = "aborting" /\ todo' = Target
  /\ UNCHANGED <<mem, disk, data, next, crashes>>

(* Mutant: the publication is ready before every database has its writes. *)
MarkReadyTooSoon ==
  /\ pc = "applying" /\ op \notin Mapped \ mem.maps
  /\ Persist([mem EXCEPT !.pending.ready = TRUE], "completing", {})
  /\ UNCHANGED <<data, next, crashes>>

(* Mutant: the publication goes on to its commits without being marked. *)
MarkNothing ==
  /\ pc = "applying" /\ todo = {} /\ op \notin Mapped \ mem.maps
  /\ Persist(mem, "completing", {})
  /\ UNCHANGED <<data, next, crashes>>

(* Applier.Apply has returned: MarkPublicationReady. *)
MarkPublicationReady ==
  /\ pc = "applying" /\ todo = {} /\ op \notin Mapped \ mem.maps
  /\ Persist([mem EXCEPT !.pending.ready = TRUE], "completing", {})
  /\ UNCHANGED <<data, next, crashes>>

-----------------------------------------------------------------------------
(* runtime.abortApplyingPublication *)

(* Mutant: the reset takes main back to its first commit, as the reset for *)
(* an initial sync does.                                                   *)
ResetToRoot(d) ==
  /\ pc = "aborting" /\ FirstOf(d, todo)
  /\ d \in exists
  /\ head' = [head EXCEPT ![d] = Root]
  /\ work' = [work EXCEPT ![d] = {}]
  /\ disk' = IF d = Admin THEN base ELSE disk
  /\ Goto("aborting", todo \ {d})
  /\ UNCHANGED <<mem, base, exists, next, crashes>>

(* A hard reset of main to its HEAD.  A reset of admin takes the control   *)
(* collection back with it.  A database that does not exist is an error.   *)
ResetDatabase(d) ==
  /\ pc = "aborting" /\ FirstOf(d, todo)
  /\ \/ /\ d \in exists
        /\ work' = [work EXCEPT ![d] = head[d].content]
        /\ disk' = IF d = Admin THEN base ELSE disk
        /\ Goto("aborting", todo \ {d})
     \/ d \in exists /\ Fail /\ UNCHANGED <<work, disk>>
     \/ d \notin exists /\ Goto("retrying", {}) /\ UNCHANGED <<work, disk>>
  /\ UNCHANGED <<mem, base, head, exists, next, crashes>>

(* Mutant: the control maps are not restored. *)
AbortKeepsMaps ==
  /\ pc = "aborting" /\ todo = {}
  /\ ~mem.pending.ready /\ Unrecorded = Target
  /\ Persist([mem EXCEPT !.pending = NoPending], "recover", {})
  /\ UNCHANGED <<data, next, crashes>>

(* AbortPublication restores the control maps; Run starts over. *)
AbortPublication ==
  /\ pc = "aborting" /\ todo = {}
  /\ ~mem.pending.ready /\ Unrecorded = Target
  /\ Persist([mem EXCEPT !.pending = NoPending, !.maps = mem.pending.pre], "recover", {})
  /\ UNCHANGED <<data, next, crashes>>

-----------------------------------------------------------------------------
(* publisher.Complete *)

NewCommit(d) == [pub |-> op, height |-> head[d].height + 1, content |-> work[d]]

(* Mutant: without existingCommit. *)
CommitAgain(d) ==
  /\ pc = "completing" /\ FirstOf(d, Unrecorded)
  /\ \/ /\ d \in exists
        /\ head' = [head EXCEPT ![d] = NewCommit(d)]
        /\ base' = IF d = Admin THEN disk ELSE base
        /\ UNCHANGED <<pc, todo, faults>>
     \/ Fail /\ UNCHANGED <<head, base>>
  /\ UNCHANGED <<mem, disk, work, exists, next, crashes>>

(* DumboDBCommit, unless existingCommit finds the publication's message on *)
(* HEAD.  A database that does not exist is an error again.                *)
CommitDatabase(d) ==
  /\ pc = "completing" /\ FirstOf(d, Unrecorded)
  /\ head[d].pub # op
  /\ \/ /\ d \in exists
        /\ head' = [head EXCEPT ![d] = NewCommit(d)]
        /\ base' = IF d = Admin THEN disk ELSE base
        /\ UNCHANGED <<pc, todo, faults>>
     \/ d \in exists /\ Fail /\ UNCHANGED <<head, base>>
     \/ d \notin exists /\ Goto("retrying", {}) /\ UNCHANGED <<head, base>>
  /\ UNCHANGED <<mem, disk, work, exists, next, crashes>>

(* RecordPublicationCommit *)
RecordPublicationCommit(d) ==
  /\ pc = "completing" /\ FirstOf(d, Unrecorded)
  /\ head[d].pub = op
  /\ Persist([mem EXCEPT !.pending.commits[d] = head[d]], "completing", {})
  /\ UNCHANGED <<data, next, crashes>>

(* Mutant: the interval document is not written. *)
AppendNothing ==
  /\ pc = "completing" /\ Unrecorded = {}
  /\ IntervalOf(mem, op) = {}
  /\ Goto("saving", {})
  /\ UNCHANGED <<mem, disk, data, next, crashes>>

(* PublishCommit, first half: the interval document is inserted.  The      *)
(* refusals are guards again.                                              *)
AppendCommitInterval ==
  /\ pc = "completing" /\ Unrecorded = {}
  /\ IntervalOf(mem, op) = {}
  /\ \A i \in mem.intervals : i.op < op
  /\ IntervalOf(disk, op) \subseteq {Interval}
  /\ mem.applied < op
  /\ \/ disk' = [disk EXCEPT !.intervals = @ \cup {Interval}] /\ Goto("saving", {})
     \/ UNCHANGED disk /\ Fail
  /\ UNCHANGED <<mem, data, next, crashes>>

(* Mutant: the publication is cleared before its interval is read from it. *)
PublishedCleared ==
  LET cleared == [mem EXCEPT !.pending = NoPending] IN
  [cleared EXCEPT
     !.applied = cleared.pending.op,
     !.intervals = @ \cup {[op |-> cleared.pending.op, commits |-> cleared.pending.commits]}]

(* Mutant: the publication stays pending. *)
PublishedPending == [mem EXCEPT !.applied = op, !.intervals = @ \cup {Interval}]

(* Mutant: the checkpoint stays behind. *)
PublishedBehind == [mem EXCEPT !.pending = NoPending, !.intervals = @ \cup {Interval}]

Published == [mem EXCEPT !.applied = op, !.pending = NoPending, !.intervals = @ \cup {Interval}]

(* After a publication applyEntry takes the next entry; after the one of   *)
(* an initial sync that is not complete, which only a recovery meets here, *)
(* Run goes on to runInitialSync.                                          *)
AfterPublication == IF mem.phase = "complete" THEN "steady" ELSE "recover"

(* PublishCommit, second half: the checkpoint moves and the publication    *)
(* ends.  When the write fails memory goes back, but keeps the interval.   *)
SavePublication ==
  /\ pc = "saving"
  /\ \/ mem' = Published /\ disk' = Saved(Published) /\ Goto(AfterPublication, {})
     \/ mem' = [mem EXCEPT !.intervals = @ \cup {Interval}] /\ UNCHANGED disk /\ Fail
  /\ next' = op + 1
  /\ UNCHANGED <<data, crashes>>

(* PublishCommit of an interval that is recorded already. *)
RepublishCommit ==
  /\ pc = "completing" /\ Unrecorded = {}
  /\ IntervalOf(mem, op) = {Interval}
  /\ mem.applied < op
  /\ \/ mem' = Published /\ disk' = Saved(Published) /\ Goto(AfterPublication, {})
     \/ UNCHANGED <<mem, disk>> /\ Fail
  /\ next' = op + 1
  /\ UNCHANGED <<data, crashes>>

-----------------------------------------------------------------------------
(* Any other method of Store (the fetcher's checkpoint, a heartbeat's term *)
(* or source) persists the whole state, including what an earlier write    *)
(* failed to persist.  Store.mu keeps it out of PublishCommit.             *)
BackgroundPersist ==
  /\ pc # "saving"
  /\ disk' = Saved(mem)
  /\ UNCHANGED <<mem, data, pc, todo, faults, next, crashes>>

(* The process dies and Open loads the control collection. *)
Restart ==
  /\ crashes < MaxCrashes
  /\ crashes' = crashes + 1
  /\ mem' = disk
  /\ Goto("recover", {})
  /\ UNCHANGED <<disk, data, next>>

Step ==
  \/ RecoverIdle \/ RecoverPublication \/ Retry
  \/ RunInitialSync \/ ResetInitialSync \/ BeginInitialSync
  \/ (\E d \in Databases : ResetInitialSyncData(d))
  \/ AdvanceApplied \/ SkipComplete \/ BeginPublication
  \/ (\E d \in Databases : ApplyData(d))
  \/ ApplyControl \/ ApplyFails \/ MarkPublicationReady
  \/ (\E d \in Databases : ResetDatabase(d))
  \/ AbortPublication
  \/ (\E d \in Databases : CommitDatabase(d) \/ RecordPublicationCommit(d))
  \/ AppendCommitInterval \/ SavePublication \/ RepublishCommit

Next == Step \/ BackgroundPersist \/ Restart

Spec == Init /\ [][Next]_vars

(* The runtime is one goroutine whose loop never blocks between these      *)
(* steps, so it is enough that it goes on taking steps.                    *)
FairSpec == Spec /\ WF_vars(Step)

-----------------------------------------------------------------------------
(* Properties *)

TypeOK ==
  /\ mem \in State /\ disk \in State /\ base \in State
  /\ head \in [Databases -> Commit]
  /\ work \in [Databases -> SUBSET Entries]
  /\ exists \in SUBSET Databases
  /\ pc \in {"recover", "retrying", "steady", "applying", "aborting", "completing",
             "saving", "resetting", "clearing", "cloning"}
  /\ next \in 1..(Last + 1)
  /\ todo \in SUBSET Databases
  /\ faults \in Nat /\ crashes \in Nat

(* Main of every database holds exactly the entries up to the applied checkpoint  *)
(* that affect it, and at most the entry now being published on top of them, for  *)
(* the checkpoint in memory and for the one a restart would load: whatever fails  *)
(* and whenever the process dies, publication neither loses an entry nor lets a   *)
(* partly applied one into a commit.                                              *)
HeadsExact ==
  \A d \in Databases :
    \A s \in {mem, disk} :
      head[d].content = Through(d, s.applied) \/ head[d].content = Through(d, s.applied + 1)

(* The control maps a restart would load are those of the applied checkpoint,     *)
(* changed by nothing but the publication that is pending; and the snapshot that  *)
(* AbortPublication would restore is that of the checkpoint.                      *)
MapsExact ==
  \A s \in {mem, disk} :
    LET applied == {e \in Mapped : e <= s.applied} IN
    IF s.pending.op = 0
    THEN s.maps = applied
    ELSE s.pending.pre = applied /\ applied \subseteq s.maps
         /\ s.maps \subseteq applied \cup {s.pending.op}

(* Every applied entry has its commit interval on disk, for CommitFor to find     *)
(* after any restart.                                                             *)
IntervalsSurvive == \A e \in Entries \ Noop : e <= mem.applied => IntervalOf(disk, e) # {}

(* Moreover the commit an interval names for a database holds exactly the entries *)
(* up to it: DatabaseHeadsAt, and so a rollback to that point, finds what it      *)
(* needs after any restart.                                                       *)
IntervalsExact ==
  /\ IntervalsSurvive
  /\ \A s \in {mem, disk} : \A i \in s.intervals : \A d \in Affected[i.op] :
       i.commits[d].pub = i.op /\ i.commits[d].content = Through(d, i.op)

(* When BeginPublication answers that a publication is already complete, the      *)
(* checkpoint is past its entry.                                                  *)
CompleteMeansApplied == pc = "steady" => IntervalOf(mem, next) = {}

(* The control store refuses no publication the runtime asks of it, so no retry   *)
(* is in vain: Begin never meets another pending publication, PublishCommit never *)
(* an interval in its way or a checkpoint at or past its own, AbortPublication    *)
(* never one that has entered its commit.  The order of the fetched and the       *)
(* applied position, which validateCheckpoint also asks for, depends on the       *)
(* fetcher and is a matter of Steady.                                             *)
NeverRefused ==
  /\ pc = "steady" => op = 0
  /\ pc = "completing" =>
       /\ mem.pending.ready /\ mem.applied < op
       /\ Unrecorded = {} => /\ IntervalOf(mem, op) \subseteq {Interval}
                             /\ IntervalOf(disk, op) \subseteq {Interval}
                             /\ \A i \in mem.intervals : i.op <= op
  /\ pc = "aborting" => ~mem.pending.ready /\ Unrecorded = Target

(* Publications reach main in oplog order, each once: a retry or a recovery never *)
(* commits again what HEAD already carries.                                       *)
PublishedOnce ==
  [][\A d \in Databases : head'[d] # head[d] => head'[d].pub > head[d].pub]_vars

(* Main never loses an entry it has shown, except to a new initial sync: no       *)
(* abort, retry or recovery takes a HEAD back while the control state in memory   *)
(* says that the initial sync is complete, not even when a hard reset of admin    *)
(* has taken the control state on disk back.                                      *)
MainKeepsEntries ==
  [][mem.phase = "complete" =>
       \A d \in Databases : head[d].content \subseteq head'[d].content]_vars

(* No failure and no crash sends the member back to an initial sync, which would  *)
(* take every main back to its first commit: the control state in memory and the  *)
(* one a restart would load both say that it is complete.  (A source whose oplog  *)
(* no longer reaches back to the checkpoint does; it is not modelled.)            *)
SyncStaysComplete == mem.phase = "complete" /\ disk.phase = "complete"

Promise ==
  INSTANCE Replica WITH position <- disk.applied, main <- [d \in Databases |-> head[d].content]

(* To a reader of main and to a restart, all this is entry after entry of the     *)
(* oplog: a commit on main takes one database over the entry after the durable    *)
(* checkpoint, and the checkpoint moves by one entry, and only when every         *)
(* database the entry affects has it on main.                                     *)
ImplementsReplica == Promise!Spec

(* An entry is not applied to a database whose working set already has it, in     *)
(* part or from an earlier attempt, or whose main has: the applier finds every    *)
(* database as the entry before left it.                                          *)
AppliedOnce ==
  [][\A d \in Databases :
       pc = "applying" /\ d \in todo \ todo' => op \notin work[d] \cup head[d].content]_vars

(* A pending publication is completed or aborted, whatever failed before.  *)
PublicationResolves == (op # 0) ~> (op = 0)
=============================================================================
