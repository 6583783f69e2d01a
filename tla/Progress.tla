------------------------------ MODULE Progress ------------------------------
(***************************************************************************)
(* position_reporter.go: how the source learns of the applied position.    *)
(* The runtime moves the position and calls Notify after it has released   *)
(* the manager's lock; the reporter's goroutine reads the position and the *)
(* count of requests one after the other, sends, and acknowledges the      *)
(* requests it had counted.  The wake channel holds one token.  Two calls  *)
(* move the manager's position and notify nobody: ResetFetchProgress,      *)
(* after a write of the position that failed has left the control store's  *)
(* memory ahead of the manager, and ResetInitialSync.                      *)
(***************************************************************************)
EXTENDS Integers

CONSTANTS
  Sources,      \* members that can be the sync source
  None,         \* no sync source, no client
  Last,         \* bound on the position
  MaxFailures,  \* bound on reports and on writes of the position that fail
  MaxSwitches,  \* bound on changes of the sync source
  MaxRollbacks  \* bound on rollbacks and on resets for a new initial sync

ASSUME ProgressAssumption ==
  /\ None \notin Sources
  /\ Last \in Nat /\ MaxFailures \in Nat /\ MaxSwitches \in Nat /\ MaxRollbacks \in Nat

VARIABLES
  position,     \* Manager.state.Checkpoint.Applied
  stored,       \* the same field in the memory of the control store
  silent,       \* history: since the reporter read it, the position last moved unnotified
  syncSource,   \* Manager.state.SyncSource
  npc,          \* where the runtime stands in Notify
  requested,    \* ProgressReporter.requested
  acknowledged, \* ProgressReporter.acknowledged
  wake,         \* whether the wake channel holds a token
  pc,           \* where the reporter stands
  client,       \* the source its client is connected to
  snapshot,     \* the position it has read
  generation,   \* the count of requests it has read
  reported,     \* the position each source has last been told
  failures, switches, rollbacks

manager == <<position, stored, silent, syncSource>>
notifier == <<npc, requested, wake>>
reporter == <<pc, client, snapshot, generation, acknowledged>>
bounds == <<failures, switches, rollbacks>>
vars == <<manager, notifier, reporter, reported, bounds>>

Init ==
  /\ position = 0 /\ stored = 0 /\ silent = FALSE /\ syncSource = None
  /\ npc = "idle" /\ requested = 0 /\ wake = FALSE
  /\ pc = "wait" /\ client = None /\ snapshot = 0 /\ generation = 0 /\ acknowledged = 0
  /\ reported = [s \in Sources |-> 0]
  /\ failures = 0 /\ switches = 0 /\ rollbacks = 0

-----------------------------------------------------------------------------
(* The notified moves leave the store and the manager with the same position. *)
MoveTo(p) ==
  /\ position' = p /\ stored' = p
  /\ silent' = FALSE
  /\ npc' = "notify"

(* Manager.AdvanceApplied and PublishCommit, up to the call of the listener *)
AdvanceApplied ==
  /\ npc = "idle" /\ position < Last
  /\ MoveTo(position + 1)
  /\ UNCHANGED <<syncSource, requested, wake, reporter, reported, bounds>>

(* SetCheckpoint changes the store's memory before it writes; when the write fails *)
(* the manager keeps its position and the store keeps the new one.                 *)
AdvanceFails ==
  /\ npc = "idle" /\ position < Last /\ failures < MaxFailures
  /\ stored' = position + 1
  /\ failures' = failures + 1
  /\ UNCHANGED <<position, silent, syncSource, notifier, reporter, reported, switches, rollbacks>>

(* NewFetcher and the abort copy the store's position; nobody is notified. *)
ResetFetchProgress ==
  /\ npc = "idle"
  /\ position' = stored
  /\ silent' = (silent \/ position # stored)
  /\ UNCHANGED <<stored, syncSource, notifier, reporter, reported, bounds>>

(* A new initial sync forgets the position; nobody is notified. *)
ResetInitialSync ==
  /\ npc = "idle" /\ rollbacks < MaxRollbacks
  /\ position' = 0 /\ stored' = 0
  /\ silent' = (silent \/ position # 0)
  /\ rollbacks' = rollbacks + 1
  /\ UNCHANGED <<syncSource, notifier, reporter, reported, failures, switches>>

(* CompleteRollback takes the position back and sets the source. *)
CompleteRollback ==
  /\ npc = "idle" /\ rollbacks < MaxRollbacks
  /\ \E p \in 0..position : MoveTo(p)
  /\ syncSource' \in Sources
  /\ rollbacks' = rollbacks + 1
  /\ UNCHANGED <<requested, wake, reporter, reported, failures, switches>>

(* A heartbeat or a configuration selects another source or none; nobody is notified. *)
SelectSource ==
  /\ switches < MaxSwitches
  /\ syncSource' \in (Sources \union {None}) \ {syncSource}
  /\ switches' = switches + 1
  /\ UNCHANGED <<position, stored, silent, notifier, reporter, reported, failures, rollbacks>>

(* Notify counts the request ... *)
Notify ==
  /\ npc = "notify"
  /\ requested' = requested + 1
  /\ npc' = "wake"
  /\ UNCHANGED <<manager, wake, reporter, reported, bounds>>

(* Mutant: only a reporter that is waiting is woken. *)
WakeWaiting ==
  /\ npc = "wake"
  /\ wake' = (wake \/ pc = "wait")
  /\ npc' = "idle"
  /\ UNCHANGED <<manager, requested, reporter, reported, bounds>>

(* ... and puts a token into the channel unless there is one. *)
Wake ==
  /\ npc = "wake"
  /\ wake' = TRUE
  /\ npc' = "idle"
  /\ UNCHANGED <<manager, requested, reporter, reported, bounds>>

-----------------------------------------------------------------------------
(* Run waits for the ticker or the token. *)
Tick ==
  /\ pc = "wait"
  /\ pc' = "read"
  /\ UNCHANGED <<manager, notifier, client, snapshot, generation, acknowledged, reported, bounds>>

Woken ==
  /\ pc = "wait" /\ wake
  /\ wake' = FALSE
  /\ pc' = "read"
  /\ UNCHANGED <<manager, npc, requested, client, snapshot, generation, acknowledged, reported,
                 bounds>>

(* Without a source the round is over. *)
NoSource ==
  /\ pc = "read" /\ syncSource = None
  /\ pc' = "wait"
  /\ UNCHANGED <<manager, notifier, client, snapshot, generation, acknowledged, reported, bounds>>

(* Mutant: a client that is open is kept. *)
ReadStateKeeping ==
  /\ pc = "read" /\ syncSource # None
  /\ snapshot' = position
  /\ silent' = FALSE
  /\ client' = IF client = None THEN syncSource ELSE client
  /\ pc' = "count"
  /\ UNCHANGED <<position, stored, syncSource, notifier, generation, acknowledged, reported, bounds>>

(* Position and source are read together, and the client follows the source. *)
ReadState ==
  /\ pc = "read" /\ syncSource # None
  /\ snapshot' = position
  /\ silent' = FALSE
  /\ client' = syncSource
  /\ pc' = "count"
  /\ UNCHANGED <<position, stored, syncSource, notifier, generation, acknowledged, reported, bounds>>

(* requestedGeneration, after the position has been read *)
ReadGeneration ==
  /\ pc = "count"
  /\ generation' = requested
  /\ pc' = "send"
  /\ UNCHANGED <<manager, notifier, client, snapshot, acknowledged, reported, bounds>>

Send ==
  /\ pc = "send"
  /\ reported' = [reported EXCEPT ![client] = snapshot]
  /\ pc' = "acknowledge"
  /\ UNCHANGED <<manager, notifier, client, snapshot, generation, acknowledged, bounds>>

(* The request or its answer is lost: the client is closed and the round is over. *)
SendFails ==
  /\ pc = "send" /\ failures < MaxFailures
  /\ reported' \in {reported, [reported EXCEPT ![client] = snapshot]}
  /\ client' = None
  /\ pc' = "wait"
  /\ failures' = failures + 1
  /\ UNCHANGED <<manager, notifier, snapshot, generation, acknowledged, switches, rollbacks>>

(* Mutant: one request too many is acknowledged. *)
AcknowledgeNext ==
  /\ pc = "acknowledge"
  /\ acknowledged' = IF generation >= acknowledged THEN generation + 1 ELSE acknowledged
  /\ pc' = IF requested = acknowledged' THEN "wait" ELSE "read"
  /\ UNCHANGED <<manager, notifier, client, snapshot, generation, reported, bounds>>

(* acknowledge; with newer requests Run reports again at once. *)
Acknowledge ==
  /\ pc = "acknowledge"
  /\ acknowledged' = IF generation > acknowledged THEN generation ELSE acknowledged
  /\ pc' = IF requested = acknowledged' THEN "wait" ELSE "read"
  /\ UNCHANGED <<manager, notifier, client, snapshot, generation, reported, bounds>>

Reporter ==
  Tick \/ Woken \/ NoSource \/ ReadState \/ ReadGeneration \/ Send \/ SendFails \/ Acknowledge

Next ==
  \/ AdvanceApplied \/ AdvanceFails \/ ResetFetchProgress \/ ResetInitialSync \/ CompleteRollback
  \/ SelectSource \/ Notify \/ Wake \/ Reporter

Spec == Init /\ [][Next]_vars

(* Both goroutines go on, and the ticker ticks. *)
FairSpec == Spec /\ WF_vars(Notify \/ Wake) /\ WF_vars(Reporter)

-----------------------------------------------------------------------------
(* Types; the reporter never acknowledges a request that was not made. *)
TypeOK ==
  /\ position \in 0..Last /\ stored \in position..Last /\ silent \in BOOLEAN
  /\ syncSource \in Sources \union {None}
  /\ npc \in {"idle", "notify", "wake"} /\ requested \in Nat /\ wake \in BOOLEAN
  /\ pc \in {"wait", "read", "count", "send", "acknowledge"}
  /\ client \in Sources \union {None} /\ snapshot \in 0..Last
  /\ generation \in 0..requested /\ acknowledged \in 0..requested
  /\ reported \in [Sources -> 0..Last]
  /\ failures \in 0..MaxFailures /\ switches \in 0..MaxSwitches /\ rollbacks \in 0..MaxRollbacks

(* Something beside the ticker will start another round. *)
RoundAhead == wake \/ npc # "idle"

(* What makes QuietMeansReported inductive: during a round the position that was   *)
(* read, and after Send the one the source has been told, is current, or a token   *)
(* or a request under way will start another round, or the position has moved      *)
(* since it was read by a call that notifies nobody.                               *)
RoundOK ==
  /\ pc \in {"count", "send", "acknowledge"} => client \in Sources
  /\ pc \in {"count", "send"} => snapshot = position \/ RoundAhead \/ silent
  /\ pc = "acknowledge" => reported[client] = position \/ RoundAhead \/ silent

(* When Run goes back to waiting after a successful report, the source it reported *)
(* to has the current position, or a token or a request under way will wake it: no *)
(* notified progress is left to the ticker.  The exception is exact: the position  *)
(* moved during this very round, and its last move was one of the two that notify  *)
(* nobody.  Run reads the position before it counts the requests, so it may        *)
(* acknowledge a request with a report older than it.                              *)
QuietMeansReported ==
  [][pc = "acknowledge" /\ pc' = "wait" =>
       reported[client] = position \/ RoundAhead \/ silent]_vars

(* Once positions, sources and failures settle, the sync source has the position,  *)
(* also after lost answers, a rollback, or a change of the source or of the        *)
(* position nobody is told of: there it is the ticker that brings it.              *)
SourceLearns == <>[](syncSource # None => reported[syncSource] = position)
=============================================================================
