-------------------------- MODULE PublicationInv --------------------------
(***************************************************************************)
(* The inductive invariant of Publication.  It speaks of two control       *)
(* states at once: the one in memory and the one a restart would load.     *)
(***************************************************************************)
EXTENDS Publication

(* No entry after the initial sync touches the database that holds the     *)
(* control collection, so no hard reset takes the control state back.      *)
AdminUntouched == \A e \in Entries \ {1} : Admin \notin Affected[e]

(* A publication is pending wherever the runtime works on one; with TypeOK *)
(* this is inductive.                                                      *)
Working == pc \in {"applying", "aborting", "completing", "saving"} => op # 0

AllRecorded(s) == \A d \in Affected[s.pending.op] : s.pending.commits[d] # NoCommit

(* The conditions below are on a control state s, the HEADs h and the      *)
(* working sets w.                                                         *)

(* A publication is of the entry after the checkpoint; only a ready one    *)
(* has recorded commits, and those are the HEADs.                          *)
PendingOK(s, h) ==
  LET p == s.pending IN
  IF p.op = 0
  THEN p = NoPending
  ELSE /\ p.op = s.applied + 1
       /\ p.op \in Entries \ Noop
       /\ p.ready => p.op \notin Mapped \ s.maps
       /\ \A d \in Databases :
            p.commits[d] # NoCommit =>
              p.ready /\ d \in Affected[p.op] /\ h[d].pub = p.op /\ p.commits[d] = h[d]

MapsOK(s) ==
  LET applied == {e \in Mapped : e <= s.applied} IN
  IF s.pending.op = 0
  THEN s.maps = applied
  ELSE /\ s.pending.pre = applied
       /\ s.maps = applied \/ s.maps = applied \cup {s.pending.op}
       /\ s.maps \subseteq Mapped

(* Whether the publication pending in s affects database d. *)
Touches(s, d) == s.pending.op # 0 /\ d \in Affected[s.pending.op]

HeadsOK(s, h) ==
  \A d \in Databases :
    \/ h[d].content = Through(d, s.applied) /\ h[d].pub <= s.applied
    \/ /\ Touches(s, d) /\ s.pending.ready
       /\ h[d].pub = s.pending.op /\ h[d].content = Through(d, s.pending.op)

WorkOK(s, h, w) ==
  \A d \in Databases :
    IF Touches(s, d)
    THEN \/ w[d] = Through(d, s.pending.op)
         \/ ~s.pending.ready /\ w[d] = Through(d, s.applied)
    ELSE w[d] = h[d].content

(* Only the pending publication may have an interval past the checkpoint,  *)
(* and then all its commits are recorded.                                  *)
IntervalsOK(s) ==
  /\ \A e \in Entries \ Noop : e <= s.applied => \E i \in s.intervals : i.op = e
  /\ \A i \in s.intervals :
       /\ i.op \notin Noop
       /\ \A d \in Affected[i.op] :
            i.commits[d].pub = i.op /\ i.commits[d].content = Through(d, i.op)
       /\ \/ i.op <= s.applied
          \/ /\ s.pending.op = i.op /\ s.pending.ready
             /\ i.commits = s.pending.commits /\ AllRecorded(s)

StateOK(s, h, w) ==
  /\ s.phase = "complete" /\ s.applied # 0
  /\ PendingOK(s, h) /\ MapsOK(s) /\ HeadsOK(s, h) /\ WorkOK(s, h, w) /\ IntervalsOK(s)

(* Where disk may lag behind memory: after a failed write until retry has  *)
(* recorded the failure, in an abort after a failed write of a control     *)
(* map, and between the two writes of PublishCommit.                       *)
Lag ==
  /\ pc \notin {"retrying", "aborting", "saving"} => disk = mem
  /\ pc = "aborting" => disk.pending = mem.pending /\ disk.applied = mem.applied
  /\ pc = "saving" => disk = [mem EXCEPT !.intervals = @ \cup {Interval}]
  /\ pc # "saving" => disk.intervals = mem.intervals
  /\ pc = "retrying" =>
       disk.applied = mem.applied \/ (op = 0 /\ mem.applied = disk.applied + 1)

(* What the place of the runtime says of the pending publication, and of   *)
(* the working sets its loop has been over.                                *)
PcOK ==
  /\ pc \notin {"resetting", "clearing", "cloning"}
  /\ pc = "steady" => op = 0 /\ next = mem.applied + 1
  /\ pc \in {"applying", "aborting"} =>
       op # 0 /\ ~mem.pending.ready /\ todo \subseteq Target
  /\ pc = "applying" => \A d \in Target \ todo : work[d] = Through(d, op)
  /\ pc = "applying" => \A d \in todo : op \notin work[d]
  /\ pc = "aborting" => \A d \in Target \ todo : work[d] = head[d].content
  /\ pc \in {"completing", "saving"} => op # 0 /\ mem.pending.ready
  /\ pc = "saving" => Unrecorded = {} /\ \A i \in mem.intervals : i.op < op

(* A crash at any point leaves a state from which recovery can go on: both *)
(* the control state in memory and the one on disk agree with the HEADs    *)
(* and the working sets.                                                   *)
IInv == StateOK(mem, head, work) /\ StateOK(disk, head, work) /\ Lag /\ PcOK
=============================================================================
