------------------------------- MODULE Steady -------------------------------
(***************************************************************************)
(* Steady replication: how the entries of the source's oplog reach the     *)
(* runtime, one after the other.                                           *)
(*                                                                         *)
(*   fetcher.go   one goroutine that tails the source's oplog: `fpc'       *)
(*   buffer.go    the bounded buffer between it and the runtime            *)
(*   runtime.go   the goroutine that applies and publishes: `rpc'          *)
(*   manager.go   the member's state and its copy of the checkpoint        *)
(*   store.go     the checkpoint in memory (`store') and saved (`disk')    *)
(*                                                                         *)
(* An OpTime is its index in the oplog.  A checkpoint is the pair of       *)
(* Fetched = Buffered and Written = Durable = Applied.  What a publication *)
(* does to the databases is in Publication; here it is begun, made ready,  *)
(* completed or aborted.  The sources never roll back.                     *)
(***************************************************************************)
EXTENDS Integers, Sequences

CONSTANTS
  Last,        \* number of entries the source ever writes
  Noop,        \* the entries with operation "n"
  Capacity,    \* BufferLimits.Entries
  MaxFaults,   \* bound on failed writes, requests and applications
  MaxSwitches, \* bound on changes of the sync source
  MaxCrashes   \* bound on restarts

Entries == 1..Last

ASSUME SteadyAssumption ==
  /\ Last \in Nat \ {0} /\ Noop \subseteq Entries
  /\ Capacity \in Nat \ {0}
  /\ MaxFaults \in Nat /\ MaxSwitches \in Nat /\ MaxCrashes \in Nat

VARIABLES
  source,     \* the number of entries the current source has
  switched,   \* whether the source changed since the fetcher asked for it
  fpc,        \* where the fetcher stands
  position,   \* where its find request starts
  cursor,     \* the next entry it consumes
  batch,      \* the last entry of the response it consumes, 0 before the first
  continuity, \* continuityPending
  buffer,     \* Buffer.entries
  rpc,        \* where the runtime stands
  entry,      \* the entry it has drained
  state,      \* Manager.state.State
  manager,    \* Manager.state.Checkpoint
  store,      \* Store.state: checkpoint and pending publication
  disk,       \* the control document
  faults, switches, crashes

fetcher == <<fpc, position, cursor, batch, continuity>>
runtime == <<rpc, entry, state>>
bounds == <<faults, switches, crashes>>
vars == <<source, switched, fetcher, buffer, runtime, manager, store, disk, bounds>>

-----------------------------------------------------------------------------
Checkpoint == [fetched : 0..Last, written : 0..Last]

(* The pending publication: its entry (0 for none), the Fetched of the     *)
(* checkpoint it was begun with, and whether it is ready.                  *)
Pending == [op : 0..Last, fetched : 0..Last, ready : BOOLEAN]

NoPending == [op |-> 0, fetched |-> 0, ready |-> FALSE]

State == [fetched : 0..Last, written : 0..Last, pending : Pending]

CheckpointOf(s) == [fetched |-> s.fetched, written |-> s.written]

(* Buffer.Tail, 0 for an empty buffer *)
BufferTail == IF buffer = <<>> THEN 0 ELSE buffer[Len(buffer)]

Larger(a, b) == IF a < b THEN b ELSE a

(* The initial sync has brought the member to the first entry. *)
Init ==
  /\ source \in Entries
  /\ switched = FALSE
  /\ fpc = "off" /\ position = 0 /\ cursor = 0 /\ batch = 0 /\ continuity = FALSE
  /\ buffer = <<>>
  /\ rpc = "recover" /\ entry = 0 /\ state = "SECONDARY"
  /\ manager = [fetched |-> 1, written |-> 1]
  /\ store = [fetched |-> 1, written |-> 1, pending |-> NoPending]
  /\ disk = store
  /\ faults = 0 /\ switches = 0 /\ crashes = 0

Fault ==
  /\ faults < MaxFaults
  /\ faults' = faults + 1
  /\ UNCHANGED <<switches, crashes>>

-----------------------------------------------------------------------------
(* Control store and manager *)

(* Mutant: a checkpoint may move back. *)
AcceptableBack(c) == c.written <= c.fetched

(* Mutant: the positions need not be ordered. *)
AcceptableUnordered(c) == c.fetched >= store.fetched /\ c.written >= store.written

(* What validateCheckpoint and checkpointRegresses let through. *)
Acceptable(c) ==
  /\ c.written <= c.fetched
  /\ c.fetched >= store.fetched /\ c.written >= store.written

(* Manager.AdvanceFetched and AdvanceApplied: SetCheckpoint changes memory *)
(* and persists; the manager follows only when that succeeds.              *)
SetCheckpoint(c) ==
  /\ Acceptable(c)
  /\ store' = [store EXCEPT !.fetched = c.fetched, !.written = c.written]
  /\ disk' = store'
  /\ manager' = c
  /\ UNCHANGED bounds

SetCheckpointFails(c) ==
  \/ /\ ~Acceptable(c)
     /\ UNCHANGED <<store, disk, manager, bounds>>
  \/ /\ Acceptable(c)
     /\ store' = [store EXCEPT !.fetched = c.fetched, !.written = c.written]
     /\ Fault
     /\ UNCHANGED <<disk, manager>>

Fetched(e) == [manager EXCEPT !.fetched = e]

Applied(e) == [manager EXCEPT !.written = e]

-----------------------------------------------------------------------------
(* Fetcher *)

(* Fetch takes a snapshot of the manager's state. *)
FetchStart ==
  /\ fpc = "fetch"
  /\ fpc' = "connect"
  /\ position' = manager.written
  /\ switched' = FALSE
  /\ UNCHANGED <<source, cursor, batch, continuity, buffer, runtime, manager, store, disk,
                 bounds>>

StartPosition == Larger(position, BufferTail)

(* fetchFrom: the RBID is as expected; the find request starts at the      *)
(* position or at the buffered tail.                                       *)
Connect ==
  /\ fpc = "connect" /\ ~switched
  /\ position' = StartPosition
  /\ cursor' = Larger(position', 1)
  /\ batch' = 0
  /\ continuity' = (position' # 0)
  /\ fpc' = "stream"
  /\ UNCHANGED <<source, switched, buffer, runtime, manager, store, disk, bounds>>

(* Where the fetcher looks at the source, or waits for its answer. *)
AtSource == fpc = "connect" \/ (fpc = "stream" /\ cursor > batch)

(* Mutant: the fetcher stays with a source it has lost. *)
SourceChangedUnnoticed ==
  /\ AtSource /\ switched
  /\ UNCHANGED vars

(* ObserveSourceRBID and consumeResponse refuse an answer of a source that *)
(* is not the current one; once consumeResponse has begun with a response, *)
(* it goes through to its last entry.                                      *)
SourceChanged ==
  /\ AtSource /\ switched
  /\ fpc' = IF fpc = "connect" THEN "failed" ELSE "wait"
  /\ UNCHANGED <<source, switched, position, cursor, batch, continuity, buffer, runtime,
                 manager, store, disk, bounds>>

(* consumeResponse begins: the response brings some of the entries.        *)
Respond ==
  /\ fpc = "stream" /\ ~switched /\ cursor > batch
  /\ batch' \in cursor..source
  /\ UNCHANGED <<source, switched, fpc, position, cursor, continuity, buffer, runtime,
                 manager, store, disk, bounds>>

(* consumeResponse: the first entry must be the one the fetcher has.       *)
ReceiveFirst ==
  /\ fpc = "stream" /\ continuity /\ cursor <= batch
  /\ continuity' = FALSE
  /\ \/ SetCheckpoint(Fetched(cursor)) /\ cursor' = cursor + 1 /\ UNCHANGED fpc
     \/ SetCheckpointFails(Fetched(cursor)) /\ fpc' = "failed" /\ UNCHANGED cursor
  /\ UNCHANGED <<source, switched, position, batch, buffer, runtime>>

(* Mutant: an entry that finds no space is dropped. *)
ReceiveDropping ==
  /\ fpc = "stream" /\ ~continuity /\ cursor <= batch
  /\ \/ Len(buffer) < Capacity /\ buffer' = Append(buffer, cursor)
     \/ Len(buffer) = Capacity /\ UNCHANGED buffer
  /\ fpc' = "advance"
  /\ UNCHANGED <<source, switched, position, cursor, batch, continuity, runtime, manager, store,
                 disk, bounds>>

(* Mutant: the capacity of the buffer is not looked at. *)
ReceiveUnbounded ==
  /\ fpc = "stream" /\ ~continuity /\ cursor <= batch
  /\ cursor > BufferTail
  /\ buffer' = Append(buffer, cursor)
  /\ fpc' = "advance"
  /\ UNCHANGED <<source, switched, position, cursor, batch, continuity, runtime, manager, store,
                 disk, bounds>>

(* consumeResponse: TryAppend, after waiting for space.  Its refusal of an *)
(* entry not after the tail is a guard; FetchFollows says it never holds.  *)
Receive ==
  /\ fpc = "stream" /\ ~continuity /\ cursor <= batch
  /\ cursor > BufferTail
  /\ Len(buffer) < Capacity
  /\ buffer' = Append(buffer, cursor)
  /\ fpc' = "advance"
  /\ UNCHANGED <<source, switched, position, cursor, batch, continuity, runtime, manager, store,
                 disk, bounds>>

(* consumeResponse: AdvanceFetched for the entry just buffered. *)
AdvanceFetched ==
  /\ fpc = "advance"
  /\ \/ SetCheckpoint(Fetched(cursor)) /\ cursor' = cursor + 1 /\ fpc' = "stream"
     \/ SetCheckpointFails(Fetched(cursor)) /\ fpc' = "failed" /\ UNCHANGED cursor
  /\ UNCHANGED <<source, switched, position, batch, continuity, buffer, runtime>>

(* A request fails or the source closes the cursor. *)
FetchFails ==
  /\ AtSource
  /\ fpc' = "failed"
  /\ Fault
  /\ UNCHANGED <<source, switched, position, cursor, batch, continuity, buffer, runtime,
                 manager, store, disk>>

(* Fetcher.Run records the failure; when that fails too, it gives up. *)
RecordFetchFailure ==
  /\ fpc = "failed"
  /\ \/ fpc' = "wait" /\ disk' = store /\ UNCHANGED bounds
     \/ fpc' = "done" /\ Fault /\ UNCHANGED disk
  /\ UNCHANGED <<source, switched, position, cursor, batch, continuity, buffer, runtime,
                 manager, store>>

(* The timer of Fetcher.Run. *)
FetchAgain ==
  /\ fpc = "wait"
  /\ fpc' = "fetch"
  /\ UNCHANGED <<source, switched, position, cursor, batch, continuity, buffer, runtime,
                 manager, store, disk, bounds>>

Fetcher ==
  \/ FetchStart \/ Connect \/ SourceChanged
  \/ Respond \/ ReceiveFirst \/ Receive \/ AdvanceFetched
  \/ FetchFails \/ RecordFetchFailure \/ FetchAgain

-----------------------------------------------------------------------------
(* Runtime *)

(* A method of the store that changes memory to s and persists it: success *)
(* leads to ok, a failed write to failed.                                  *)
Persist(s, ok, failed) ==
  /\ store' = s
  /\ \/ disk' = s /\ rpc' = ok /\ UNCHANGED bounds
     \/ UNCHANGED disk /\ rpc' = failed /\ Fault

(* recoverPublication has nothing to do. *)
RecoverIdle ==
  /\ rpc = "recover" /\ store.pending.op = 0
  /\ rpc' = "start"
  /\ UNCHANGED <<source, switched, fetcher, buffer, entry, state, manager, store,
                 disk, bounds>>

(* preserveFetchProgress *)
Completed ==
  [fetched |-> Larger(store.pending.fetched, store.fetched),
   written |-> store.pending.op, pending |-> NoPending]

(* Manager.PublishCommit: when the save fails, memory goes back. *)
PublishCommit(ok, failed) ==
  /\ store.pending.op > store.written
  /\ \/ /\ store' = Completed /\ disk' = Completed
        /\ manager' = CheckpointOf(Completed)
        /\ rpc' = ok
        /\ UNCHANGED bounds
     \/ /\ rpc' = failed
        /\ Fault
        /\ UNCHANGED <<store, disk, manager>>

(* abortApplyingPublication: the resets (in Publication), AbortPublication *)
(* and ResetFetchProgress.                                                 *)
Abort(ok, failed) ==
  LET aborted == [store EXCEPT !.pending = NoPending]
      reset   == [aborted EXCEPT !.fetched = store.written] IN
  \/ /\ store' = reset /\ disk' = reset /\ manager' = CheckpointOf(reset)
     /\ rpc' = ok
     /\ UNCHANGED bounds
  \/ /\ rpc' = failed /\ Fault
     /\ \/ UNCHANGED <<store, disk>>
        \/ store' = aborted /\ UNCHANGED disk
        \/ store' = reset /\ disk' = aborted
     /\ UNCHANGED manager

RecoverPublication ==
  /\ rpc = "recover" /\ store.pending.op # 0
  /\ \/ store.pending.ready /\ PublishCommit("start", "retrying")
     \/ ~store.pending.ready /\ Abort("start", "retrying")
  /\ UNCHANGED <<source, switched, fetcher, buffer, entry, state>>

(* runSteady: a new buffer, NewFetcher with its ResetFetchProgress, and    *)
(* the fetcher's goroutine.                                                *)
StartSteady ==
  /\ rpc = "start"
  /\ buffer' = <<>>
  /\ Persist([store EXCEPT !.fetched = store.written], "loop", "stopping")
  /\ manager' = IF rpc' = "loop" THEN CheckpointOf(store') ELSE manager
  /\ fpc' = IF rpc' = "loop" THEN "fetch" ELSE fpc
  /\ UNCHANGED <<source, switched, position, cursor, batch, continuity, entry, state>>

(* The fetcher has given up. *)
FetchDone ==
  /\ rpc = "loop" /\ fpc = "done"
  /\ rpc' = "stopping"
  /\ UNCHANGED <<source, switched, fetcher, buffer, entry, state, manager, store,
                 disk, bounds>>

(* A member in RECOVERING waits for the fetcher only. *)
Drain ==
  /\ rpc = "loop" /\ state = "SECONDARY" /\ buffer # <<>>
  /\ entry' = Head(buffer)
  /\ buffer' = Tail(buffer)
  /\ rpc' = "apply"
  /\ UNCHANGED <<source, switched, fetcher, state, manager, store, disk, bounds>>

(* applyEntry of a no-op *)
AdvanceApplied ==
  /\ rpc = "apply" /\ entry \in Noop
  /\ \/ SetCheckpoint(Applied(entry)) /\ rpc' = "loop"
     \/ SetCheckpointFails(Applied(entry)) /\ rpc' = "stopping"
  /\ UNCHANGED <<source, switched, fetcher, buffer, entry, state>>

(* applyEntry: BeginPublication with a snapshot of the checkpoint, which   *)
(* must not be behind the entry.  Its other answers are in Publication.    *)
BeginPublication ==
  /\ rpc = "apply" /\ entry \notin Noop
  /\ \/ /\ entry > manager.fetched
        /\ rpc' = "stopping"
        /\ UNCHANGED <<store, disk, bounds>>
     \/ /\ entry <= manager.fetched
        /\ store.pending.op = 0
        /\ Persist([store EXCEPT !.pending =
                      [op |-> entry, fetched |-> manager.fetched, ready |-> FALSE]],
                   "applying", "stopping")
  /\ UNCHANGED <<source, switched, fetcher, buffer, entry, state, manager>>

(* applyEntry: Apply and MarkReady, or the abort when Apply fails. *)
ApplyEntry ==
  /\ rpc = "applying"
  /\ \/ /\ Persist([store EXCEPT !.pending.ready = TRUE], "completing", "stopping")
        /\ UNCHANGED manager
     \/ faults < MaxFaults /\ Abort("stopping", "stopping")
  /\ UNCHANGED <<source, switched, fetcher, buffer, entry, state>>

Complete ==
  /\ rpc = "completing"
  /\ PublishCommit("loop", "stopping")
  /\ UNCHANGED <<source, switched, fetcher, buffer, entry, state>>

(* runSteady returns an error: the fetcher is stopped, and Run marks the   *)
(* member as recovering.                                                   *)
StopSteady ==
  /\ rpc = "stopping"
  /\ fpc' = "off"
  /\ state' = "RECOVERING"
  /\ rpc' = "retrying"
  /\ UNCHANGED <<source, switched, position, cursor, batch, continuity, buffer, entry,
                 manager, store, disk, bounds>>

(* retry *)
Retry ==
  /\ rpc = "retrying"
  /\ \/ disk' = store /\ UNCHANGED bounds
     \/ UNCHANGED disk /\ Fault
  /\ rpc' = "recover"
  /\ UNCHANGED <<source, switched, fetcher, buffer, entry, state, manager, store>>

Runtime ==
  \/ RecoverIdle \/ RecoverPublication \/ StartSteady \/ FetchDone \/ Drain
  \/ AdvanceApplied \/ BeginPublication \/ ApplyEntry \/ Complete \/ StopSteady \/ Retry

-----------------------------------------------------------------------------
(* Environment *)

SourceWrites ==
  /\ source < Last
  /\ source' = source + 1
  /\ UNCHANGED <<switched, fetcher, buffer, runtime, manager, store, disk, bounds>>

(* selectSourceLocked picks another member, which may be ahead or behind.  *)
SwitchSource ==
  /\ switches < MaxSwitches
  /\ switches' = switches + 1
  /\ source' \in Entries
  /\ switched' = TRUE
  /\ disk' = store
  /\ UNCHANGED <<fetcher, buffer, runtime, manager, store, faults, crashes>>

(* The process dies; control.Open and topology.New load what was saved.    *)
Restart ==
  /\ crashes < MaxCrashes
  /\ crashes' = crashes + 1
  /\ fpc' = "off" /\ position' = 0 /\ cursor' = 0 /\ batch' = 0 /\ continuity' = FALSE
  /\ buffer' = <<>>
  /\ rpc' = "recover" /\ entry' = 0 /\ state' = "SECONDARY"
  /\ store' = disk /\ manager' = CheckpointOf(disk)
  /\ UNCHANGED <<source, switched, disk, faults, switches>>

Next == Fetcher \/ Runtime \/ SourceWrites \/ SwitchSource \/ Restart

Spec == Init /\ [][Next]_vars

(* Two goroutines, and a source that goes on writing. *)
FairSpec == Spec /\ WF_vars(Fetcher) /\ WF_vars(Runtime) /\ WF_vars(SourceWrites)

-----------------------------------------------------------------------------
(* Properties *)

TypeOK ==
  /\ source \in 0..Last /\ switched \in BOOLEAN
  /\ fpc \in {"off", "fetch", "connect", "stream", "advance", "failed", "wait", "done"}
  /\ position \in 0..Last /\ cursor \in 0..(Last + 1) /\ batch \in 0..Last
  /\ continuity \in BOOLEAN
  /\ buffer \in Seq(Entries) /\ Len(buffer) <= Capacity
  /\ rpc \in {"recover", "start", "loop", "apply", "applying", "completing", "stopping",
              "retrying"}
  /\ entry \in 0..Last /\ state \in {"SECONDARY", "RECOVERING"}
  /\ manager \in Checkpoint /\ store \in State /\ disk \in State
  /\ faults \in Nat /\ switches \in Nat /\ crashes \in Nat

(* The last entry the runtime has, or is working on. *)
Reached == IF rpc \in {"apply", "applying", "completing"} THEN entry ELSE store.written

Following == rpc \in {"loop", "apply", "applying", "completing"}

(* While the runtime follows the oplog the buffer holds the entries after the one *)
(* it works on, without a gap and without a repetition, and that one comes after  *)
(* the checkpoint: whatever the fetcher goes through (reconnects, another source, *)
(* failed writes of the fetched position, a full buffer), an entry is neither     *)
(* lost nor handed over twice, and applyEntry gets what Publication assumes.      *)
BufferFollows ==
  Following =>
    /\ rpc # "loop" => entry = store.written + 1
    /\ \A i \in DOMAIN buffer : buffer[i] = Reached + i

(* The next entry the fetcher appends is the one after the buffer, so that        *)
(* TryAppend never refuses it.                                                    *)
FetchFollows ==
  Following /\ fpc = "stream" /\ ~continuity => cursor = Reached + Len(buffer) + 1

(* The positions are ordered and no position is beyond what was fetched, in       *)
(* memory and in what a restart loads.                                            *)
CheckpointOrdered == \A c \in {manager, store, disk} : c.written <= c.fetched

(* The applied position moves one entry at a time and never back, not even over a *)
(* restart.                                                                       *)
AppliedInOrder == [][disk'.written \in {disk.written, disk.written + 1}]_vars

(* As long as no error has sent the member to RECOVERING, every entry the source  *)
(* writes is applied, in spite of failing fetches, changes of source and a full   *)
(* buffer.                                                                        *)
SecondaryFollows == [](state = "SECONDARY") => <>(store.written = Last)

(* Every entry that arrives is applied. *)
EveryEntryApplied ==
  \A e \in Entries : (\E i \in DOMAIN buffer : buffer[i] = e) ~> store.written >= e
=============================================================================
