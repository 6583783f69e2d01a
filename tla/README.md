# DumboDB in TLA+

DumboDB speaks the MongoDB wire protocol and keeps its data in Dolt, so that every
database has branches and commits. It can join a MongoDB replica set as a hidden,
non-voting member: it clones the set's data, follows the oplog, and makes a commit
on `main` for every oplog entry. The hard part is that one entry touches several
databases, a control collection and an in-memory state, that these are written one
after the other, and that any write may fail and the process may die between any
two. This directory holds the models of that part, the TLC runs on small instances
and the TLAPS proofs.

## The system and its parts

| part | source | module |
| --- | --- | --- |
| publication of entries | `internal/replication/publication`, `control/publication.go`, `runtime/runtime.go` | `Publication`, `Replica`, `PublicationInv` |
| control store | `internal/replication/control` | `Publication` (the part that publication and the reset for an initial sync use), `Steady` |
| replication runtime | `internal/replication/runtime` | `Publication` (recovery, application, retry) |
| oplog applier | `internal/replication/oplog/applier.go`, `affected.go` | `Publication` (its effects) |
| commit and reset of `main` | `internal/backends/dolt/backend.go` | `Publication` (as publication uses them) |
| fetcher and buffer, checkpoints, steady replication | `internal/replication/oplog/fetcher.go`, `buffer.go`, `runtime/runtime.go`, `topology/manager.go` | `Steady` |
| progress reports | `internal/replication/topology/position_reporter.go` | `Progress` |
| initial sync | `internal/replication/initialsync`, `internal/backends/dolt/initial_sync.go` | `Publication` (what it leaves behind, and how another one begins); the rest planned |
| rollback recovery, configuration, catalog, special namespaces | `internal/replication/...` | planned |
| sessions, transactions, merge, document locks, garbage collection | `internal/backends/dolt` | planned |
| cursors, sessions, retryable writes | `internal/clientconn/cursor`, `internal/handler` | planned |
| wire protocol, BSON, query and aggregation operators | `internal/clientconn`, `internal/bson`, `internal/handler/common` | not modelled: encodings and pure functions on values |

How they interact. `Runtime.Run` is one goroutine. Each round it first settles what
an earlier round or an earlier process left behind (`recoverPublication`, a pending
rollback), then runs the initial sync if there is none, then `runSteady`: entries
arrive from the source through fetcher and buffer, and `applyEntry` takes each one
through `Publisher.Begin`, `Applier.Apply`, `Publisher.MarkReady` and
`Publisher.Complete`. Every one of these changes the control `Store`, whose state
lives in memory and, after `persistLocked`, in a document on the working set of the
`admin` database; commit intervals (which commit of which database belongs to which
OpTime) are separate documents of the same collection. Whatever fails sends the
round to `retry`, which records the failure and starts the next one. Meanwhile
heartbeats and the fetcher change and persist the same `Store` under its mutex.

## Publication.tla

State and code:

| variable | code |
| --- | --- |
| `mem` | `Store.state`: checkpoint, phase of the initial sync, pending publication, control maps, commit intervals |
| `disk` | the control document and the interval documents in admin's working set |
| `base` | the same collection in admin's HEAD commit, to which a hard reset returns |
| `head`, `work` | HEAD commit of `main` and working set, per database |
| `exists` | the databases that have been created |
| `pc`, `next`, `todo` | where the runtime goroutine stands, the entry it is given next, the databases its loop still has to visit |

Data is abstracted to what the properties tell apart. An OpTime is an index of the
source's oplog. The contents of a database are the set of entries it reflects. A
commit is the publication its message names, the number of its ancestors and its
contents, so that a second commit of the same contents is a different commit. The
four control maps that an entry may change (collection mappings, transaction
fragments, ownership of auth documents, metadata records), and that
`AbortPublication` restores together, are one set of entries, `maps`.

Entry 1 stands for the range of the oplog that the initial sync covers, and `Init` is
the moment after `CompleteInitialSync`: the databases it cloned have the commit of
`PublishInitialSync`, and the control store has that publication's interval and the
phase "complete". The last commit of admin is older than that. `Complete` made it in
the midst of the initial sync's publication, so the control document in it (`base`)
has that publication pending and ready, the databases that sort before admin recorded,
and the initial sync running. When the initial sync published no admin, admin's HEAD
is its root commit and has no control document.

Actions and code: `RecoverIdle`, `RunInitialSync`, `RecoverPublication` and `Retry` are
the branches of `Run`; `ResetInitialSyncData`, one database at a time,
`ResetInitialSync` and `BeginInitialSync` are how a new initial sync begins, by
`Coordinator.Reset` and `Coordinator.Run`, up to its clone; `AdvanceApplied`, `SkipComplete` and `BeginPublication` are how
`applyEntry` begins; `ApplyData`, `ApplyControl`, `ApplyFails` are
`Applier.Apply`, one database or one control record at a time;
`MarkPublicationReady`; `ResetDatabase` and `AbortPublication` are
`abortApplyingPublication`; `CommitDatabase`, `RecordPublicationCommit`,
`AppendCommitInterval`, `SavePublication`, `RepublishCommit` are
`Publisher.Complete` with `PublishCommit` split at its two writes.
`BackgroundPersist` is any other method of the store that saves the whole state,
and `Restart` a crash followed by `Open`. Every write may fail. A store method that
changes memory before it persists leaves memory changed when the write fails, and
one that restores memory restores it here too. A database an entry names may be
missing: the application creates it, except for a `dropDatabase` (`Drops`), which
does nothing then; reset and commit of a missing database are errors.

Properties:

- `HeadsExact`: main of every database holds the entries up to the checkpoint that
  affect it, and at most the one being published; for memory and for disk.
- `MapsExact`: the same for the control maps and for the snapshot an abort restores.
- `IntervalsExact` (and `IntervalsSurvive` by itself): every applied entry has its
  interval on disk, naming commits with exactly the entries up to it.
- `NeverRefused`: the store never refuses to begin, complete or abort a publication.
  The check of `validateCheckpoint` that the applied position is not ahead of the
  fetched one is not part of this, because the fetcher is not; see `Steady` and the
  run `fetch_race`.
- `CompleteMeansApplied`: `ErrPublicationComplete` is only ever said of an applied
  entry.
- `PublishedOnce`, `AppliedOnce`: commits come in oplog order and once each; an entry
  is applied to a database only when neither its working set nor its main has it.
- `MainKeepsEntries`: main loses entries to nothing but a new initial sync: no HEAD
  goes back while memory says that the initial sync is complete.
- `SyncStaysComplete`: and no failure or crash leads to a new one.
- `ImplementsReplica`: the whole implements `Replica.tla`, in which a position moves
  along the oplog one entry at a time and each database's main moves from one entry
  to the next before the position does.
- `PublicationResolves`: a pending publication is eventually completed or aborted.

## Steady.tla

`Publication` is given its entries one after the other; `Steady` is how they get
there. Two goroutines: the fetcher (`fpc`, `position`, `cursor`, `batch`,
`continuity`) and the runtime (`rpc`, `entry`), with `buffer` between them, the member's `state`, and
three copies of the checkpoint: `manager`, `store` and, saved, `disk`. An OpTime is
an index; Fetched and Buffered always move together, as do Written, Durable and
Applied, so a checkpoint is a pair. Of a publication only its stages are left. The
actions are the steps of `Fetcher.Run`, `fetchFrom` and `consumeResponse`
(a response brings any number of entries, and the fetcher looks at the source before
it but not again until its end; `TryAppend` and `AdvanceFetched` are two steps), those of `runSteady` and
`applyEntry`, a write on the source, a change of source and a restart. Sources do
not roll back here: the `ErrTooStale` and `ErrContinuityLost` exits belong to the
rollback module.

- `BufferFollows`, `FetchFollows`: what the runtime works on, what is buffered and
  what the fetcher appends next are consecutive entries.
- `CheckpointOrdered`, `AppliedInOrder`: no copy of the checkpoint has applied more
  than was fetched; the saved position moves by single entries and never back.
- `SecondaryFollows`: a member that stays SECONDARY applies everything.
- `EveryEntryApplied`: what arrives is applied (violated, see below).

## Progress.tla

The runtime moves the position and calls `Notify` after releasing the manager's lock;
`Notify` counts the request and then puts a token into a channel of capacity one.
The reporter's goroutine reads position and source, then the count, sends, and
acknowledges what it had counted. A report or its answer may be lost, the source may
change or vanish without a notification, and a rollback moves the position back.
Two calls move the manager's position and notify nobody: `ResetInitialSync` clears it,
and `ResetFetchProgress` copies the control store's, which is ahead (`stored`) after a
write of `AdvanceApplied` has failed.

- `QuietMeansReported`: when `Run` goes back to waiting after a successful report,
  the source has the current position, or another round is already due, or the
  position was last moved, during this round, by one of those two calls. The token
  guarantees this, not the count: since the position is read first, a request may be
  acknowledged by a report older than it. After a failed report, or a round without
  a source, it is the ticker alone that repeats it, and the property does not speak
  of those.
- `SourceLearns`: once things settle the sync source has the position, however it was
  moved: for the silent moves it is the ticker that sees to it.
- `RoundOK`: the inductive form of the first.

## Runs

| run | what it checks | result |
| --- | --- | --- |
| `publication` | all safety properties and the refinement, four failures and three crashes | holds |
| `publication_inductive` | the invariant of the proofs | holds |
| `publication_live` | `PublicationResolves` under weak fairness of the runtime | holds |
| `admin_entries` | two entries on `admin`, failures that `retry` cannot record, two crashes: `NeverRefused`, `MainKeepsEntries` | holds |
| `admin_interval_loss` | `IntervalsSurvive` when an entry on `admin` is aborted | violated |
| `new_database_stuck` | `PublicationResolves` when an entry creates a database | violated |
| `drop_missing` | `PublicationResolves` when a database the member does not have is dropped; no failure | violated |
| `unrecorded_failure` | `CompleteMeansApplied` when two control writes in a row fail | violated |
| `steady` | the safety properties of `Steady`, two failures, a change of source, a crash | holds |
| `steady_live` | `SecondaryFollows`, one failure and a change of source | holds |
| `fetch_race` | `EveryEntryApplied` without any failure | violated |
| `progress` | all properties of `Progress` | holds |

Bounds. In `Publication`, four databases: one that sorts before admin, admin, one
after it and one that nothing is ever written to. After the initial sync come five
entries: a transaction over two databases, of which the initial sync has brought one;
a no-op; a transaction fragment that changes only a control map; a `dropDatabase`; and
one of the missing database, which is last because it blocks what follows. The sort
order of the names matters (databases are committed and reset in that order), so no
symmetry is declared. Four failures allow one in the application, one in the abort, one
in the retry after it and one more in the completion; three crashes allow one during
the recovery from another. `publication_live` and `unrecorded_failure` start with all
databases created, since a missing one blocks everything (the runs
`new_database_stuck` and `drop_missing`).

`admin_entries` has two entries on admin, with entries between and after them. The
abort of one of them takes the control collection back to the last commit of admin,
which is that of the initial sync or that of the first of the two;
both hold a publication that is pending and ready. A crash before memory is saved
again makes that the state of the member. It then completes the old publication a
second time, on top of a main that is further on, or starts a new initial sync. So the
properties about exactness and order (`HeadsExact`, `MapsExact`, `PublishedOnce`,
`AppliedOnce`, `SyncStaysComplete`) do not hold there and are not claimed. What the run
shows is that the store's refusals do not then block the member, and that no entry
disappears from main except by a new initial sync.

The proofs below remove these bounds for the safety properties. In `Steady`, four entries
and a buffer of two, so that the fetcher meets a full buffer with entries still to
come; the second entry is a no-op. In `Progress`, two sources and two changes, so that
a source can be left and returned to, two failures, so that a failed write of the
position and a lost report can meet, and one rollback or reset.

Fairness. `FairSpec` assumes weak fairness of the runtime's steps alone. The
runtime is one goroutine whose steps do not wait for one another; failures and
crashes are bounded by `MaxFaults` and `MaxCrashes`, so that an endless series of
failures is not held against the code. `Steady` has weak fairness of each of its two
goroutines and of the source's writes, `Progress` of the notifying goroutine and of
the reporter, whose ticker is always running.

The five violations are places where the code does not do what its tests, its error
texts or its documentation say:

1. *Intervals lost with admin's working set.* The interval documents live in the
   working set that `abortApplyingPublication` resets when the failed entry touches
   admin. The reset removes every interval written since admin was last committed;
   `AbortPublication` rewrites the control document only. After a restart
   `CommitFor` and `DatabaseHeadsAt` no longer find them. Memory still has them, so
   nothing is seen before the restart.
2. *A publication that cannot be aborted.* `abortApplyingPublication` returns the
   error that `DumboDBReset` gives for a missing database. When the entry was to
   create the database and failed before it did, every retry meets the same error.
3. *A publication that cannot be completed.* `AffectedDatabases` names the database of
   a `dropDatabase`, and the catalog does nothing when the member does not have it (the
   initial sync may have ended between the drops of its collections and the
   `dropDatabase`). `Complete` then asks for the log of the missing database, an error
   at every retry, and no later entry is applied.
4. *A skipped entry.* `BeginPublication` takes an interval for proof that the entry
   is applied. When the write of `MarkPublicationReady` fails and `retry` cannot
   record that failure either, memory says ready and disk does not; `Complete` then
   inserts the interval, and a crash before the final save makes recovery abort what
   the interval calls complete. The entry in the run is one without databases, whose
   completion needs no other control write in between.
5. *A member that stops following.* `consumeResponse` buffers an entry before it
   advances the fetched position. When the runtime drains the entry in between, the
   control store refuses a checkpoint that is ahead of Fetched, and `Run` marks the
   member RECOVERING. In that state `runSteady` only waits for the fetcher to end,
   which it does not, and `MarkSteady` has no caller outside the tests. A restart, a
   rollback, a new initial sync or a removal and re-adding of the member ends it.

## Proofs

`PublicationStates` has the lemmas about one control state and `PublicationProofs`
the theorems. They hold for any databases, any oplog and any number of failures and
crashes.

- `TypeCorrect` and `MainGrows` (`MainKeepsEntries`) need no assumption. `MainGrows`
  rests on two facts: a HEAD is never ahead of its working set, which a commit then
  makes the HEAD; and the reset for an initial sync is under way only while memory says
  that the initial sync is incomplete.
- `InitialSyncKept` (`SyncStaysComplete`) assumes `AdminUntouched`: no entry after the
  initial sync affects admin. Only a hard reset of admin brings back a control state
  from before the end of the initial sync; an abort resets the databases of the pending
  publication, and that is never the one of the initial sync again, because entries are
  asked for from the one after a checkpoint that is never zero.
- `Invariance`, `HeadsCorrect`, `MapsCorrect`, `IntervalsCorrect`, `NothingRefused`,
  `PublicationOrder`, `ApplicationOnce` and `Refinement` assume `AdminUntouched` and `~StickyFaults` (`retry` manages to record the failure).
  The violations above show why: without the first `IntervalsCorrect` fails, without
  the second the `CompleteMeansApplied` half of `NothingRefused`.

The argument. None of the properties is inductive: each speaks of memory or of disk,
and what keeps it true is how the two may differ. `IInv` (in `PublicationInv`) says
four things. `StateOK(mem, head, work)` and `StateOK(disk, head, work)`: the same
condition holds of the state in memory and of the one a restart would load, relating
each to the HEADs and the working sets (the pending entry is the one after the
checkpoint; recorded commits are HEADs; a HEAD is at the checkpoint, or at the
pending entry if that is ready; a working set is at the one or the other; only the
pending publication may have an interval past the checkpoint, and then with all its
commits recorded). `Lag`: where the program may be when the two differ, and by how
much. `PcOK`: what the place of the runtime says of the pending publication. Each
lemma of `PublicationStates` says that one change of a control state, of a HEAD or of
a working set preserves `StateOK`; `StepInv` applies them, once to memory and once to
disk, action by action. A crash is then trivial, since it replaces memory by disk.
`Refinement` maps the position to the checkpoint on disk: only the save that ends a
publication, a no-op, or the record of a failure after one of them moves it, and
`StateOK` gives that every affected HEAD is there already.

`ProgressProofs` proves `ProgressInvariance` and `QuietReported` for any sources and
bounds. `QuietMeansReported` needs to know what a round read before it ended:
`RoundOK` says that the position read (after `Send`, the one reported) is current, or
that a token or a request under way is left, or that the last move notified nobody.
Only a waiting reporter takes the token, and every other move leaves one, so no step
during a round can undo this.

Only model-checked: all of `Steady`; `SourceLearns`, `SecondaryFollows` and
`PublicationResolves` (liveness is beyond the prover);
`NeverRefused` with entries on admin, and the violations.

## Not modelled yet, and the plan

In this order:

1. *Rollback*: plan, audit branches, resets and `RollbackTo` (`recovery/recovery.go`,
   `control/rollback.go`), across crashes; the reset of admin takes back the pending
   rollback as well.
2. *Steady replication*: proofs of `BufferFollows` and `CheckpointOrdered`; RBIDs and
   the exits of the fetcher that lead to rollback, with the rollback module.
3. *Initial sync*: clone under concurrent oplog entries, catch-up and publication, from
   where `BeginInitialSync` leaves it.
4. *Configuration*: `InstallConfiguration`, heartbeats, terms, source selection.
5. *Control maps*: collection mappings, transaction fragments, ownership.
6. *Dolt backend*: branch working sets and the commit loop, document locks,
   transaction merge, merge state, garbage collection.
7. *Cursors and sessions*: registry, timeouts, retryable writes.

Left out for good: the wire protocol, BSON, the query and aggregation operators and
the formatting of messages, which hold no protocol state; Dolt's storage, which is
another project and appears as atomic commit, reset and write of a working set.
