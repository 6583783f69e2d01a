------------------------- MODULE PublicationStates -------------------------
(***************************************************************************)
(* How each method of the control store, and each commit and reset of a    *)
(* database, preserves StateOK: lemmas on one control state s, the HEADs h *)
(* and the working sets w, used in PublicationProofs for memory and disk.  *)
(***************************************************************************)
EXTENDS PublicationInv, TLAPS

(* What an entry adds to the contents of a database. *)
LEMMA ThroughNext ==
  ASSUME NEW d \in Databases, NEW n \in Nat, n + 1 \in Entries
  PROVE  /\ n + 1 \notin Through(d, n)
         /\ n + 1 \notin Noop /\ d \in Affected[n + 1]
              => Through(d, n + 1) = Through(d, n) \cup {n + 1}
         /\ n + 1 \in Noop \/ d \notin Affected[n + 1]
              => Through(d, n + 1) = Through(d, n)
  BY ConstantsAssumption DEF Through, Entries

(* What an entry adds to the control maps. *)
LEMMA MapsNext ==
  ASSUME NEW n \in Nat
  PROVE  /\ n + 1 \in Mapped => {e \in Mapped : e <= n + 1} = {e \in Mapped : e <= n} \cup {n + 1}
         /\ n + 1 \notin Mapped => {e \in Mapped : e <= n + 1} = {e \in Mapped : e <= n}
<1>1. \A e \in Mapped : e \in Int /\ (e <= n + 1 <=> e <= n \/ e = n + 1)
  BY ConstantsAssumption DEF Entries
<1> QED
  BY <1>1

(* The types of the parts of a control state. *)
LEMMA StateParts ==
  ASSUME NEW s \in State
  PROVE  /\ s.applied \in Nat /\ s.applied \in 0..Last
         /\ s.pending.op \in Nat /\ s.pending.op \in 0..Last
         /\ s.pending.ready \in BOOLEAN
         /\ s.pending.commits \in [Databases -> CommitID]
         /\ \A i \in s.intervals : i.op \in Entries /\ i.op \in Nat /\ Affected[i.op] \subseteq Databases
         /\ s.pending.op # 0 => s.pending.op \in Entries /\ Affected[s.pending.op] \subseteq Databases
  BY ConstantsAssumption DEF State, PendingPublication, CommitInterval, Entries

(* What HeadsOK and WorkOK depend on. *)
LEMMA SamePlace ==
  ASSUME NEW s, NEW t, NEW h, NEW w, HeadsOK(s, h), WorkOK(s, h, w),
         t.applied = s.applied, t.pending.op = s.pending.op, t.pending.ready = s.pending.ready
  PROVE  HeadsOK(t, h) /\ WorkOK(t, h, w)
<1>1. \A d \in Databases : Touches(t, d) <=> Touches(s, d)
  BY DEF Touches
<1>2. HeadsOK(t, h)
  BY <1>1 DEF HeadsOK
<1>3. WorkOK(t, h, w)
  BY <1>1 DEF WorkOK
<1> QED
  BY <1>2, <1>3

(* AdvanceApplied over a no-op. *)
LEMMA AdvanceOK ==
  ASSUME NEW s \in State, NEW t \in State, NEW h \in [Databases -> Commit], NEW w,
         StateOK(s, h, w), s.pending.op = 0, s.applied + 1 \in Noop,
         t.applied = s.applied + 1, t.phase = s.phase, t.pending = s.pending,
         t.maps = s.maps, t.intervals = s.intervals
  PROVE  StateOK(t, h, w)
<1> USE StateParts DEF StateOK
<1>0. s.applied + 1 \in Entries /\ s.applied + 1 \notin Mapped
  BY ConstantsAssumption
<1>1. PendingOK(t, h)
  BY DEF PendingOK
<1>2. MapsOK(t)
  BY <1>0, MapsNext DEF MapsOK
<1>3. HeadsOK(t, h)
  <2> SUFFICES ASSUME NEW d \in Databases
               PROVE  h[d].content = Through(d, t.applied) /\ h[d].pub <= t.applied
    BY DEF HeadsOK
  <2>1. h[d].content = Through(d, s.applied) /\ h[d].pub <= s.applied
    BY DEF HeadsOK, Touches
  <2>2. Through(d, t.applied) = Through(d, s.applied)
    BY <1>0, ThroughNext
  <2>3. h[d].pub \in Int
    BY DEF Commit
  <2> QED
    BY <2>1, <2>2, <2>3
<1>4. WorkOK(t, h, w)
  BY DEF WorkOK, Touches
<1>5. IntervalsOK(t)
  <2>1. \A e \in Entries \ Noop : e <= t.applied => e <= s.applied
    BY DEF Entries
  <2> QED
    BY <2>1 DEF IntervalsOK
<1> QED
  BY <1>1, <1>2, <1>3, <1>4, <1>5

(* BeginPublication *)
LEMMA BeginOK ==
  ASSUME NEW s \in State, NEW t \in State, NEW h, NEW w,
         StateOK(s, h, w), s.pending.op = 0, s.applied + 1 \in Entries \ Noop,
         t.applied = s.applied, t.phase = s.phase,
         t.maps = s.maps, t.intervals = s.intervals,
         t.pending.op = s.applied + 1, ~t.pending.ready,
         t.pending.commits = [d \in Databases |-> NoCommit], t.pending.pre = s.maps
  PROVE  StateOK(t, h, w)
<1> USE StateParts DEF StateOK
<1>1. PendingOK(t, h)
  BY DEF PendingOK
<1>2. MapsOK(t)
  BY DEF MapsOK
<1>3. HeadsOK(t, h)
  BY DEF HeadsOK, Touches
<1>4. WorkOK(t, h, w)
  BY DEF WorkOK, HeadsOK, Touches
<1>5. IntervalsOK(t)
  BY DEF IntervalsOK
<1> QED
  BY <1>1, <1>2, <1>3, <1>4, <1>5

(* The entry reaches the working set of one database. *)
LEMMA ApplyDataOK ==
  ASSUME NEW s \in State, NEW h, NEW w, NEW v, NEW d \in Databases,
         StateOK(s, h, w), s.pending.op # 0, ~s.pending.ready, d \in Affected[s.pending.op],
         v[d] = w[d] \cup {s.pending.op}, \A x \in Databases : x # d => v[x] = w[x]
  PROVE  StateOK(s, h, v) /\ v[d] = Through(d, s.pending.op)
<1> USE StateParts DEF StateOK
<1>1. v[d] = Through(d, s.pending.op)
  BY ThroughNext DEF WorkOK, Touches, PendingOK
<1>2. WorkOK(s, h, v)
  BY <1>1 DEF WorkOK, Touches
<1> QED
  BY <1>1, <1>2

(* The entry reaches the control maps. *)
LEMMA ApplyControlOK ==
  ASSUME NEW s \in State, NEW t \in State, NEW h, NEW w,
         StateOK(s, h, w), s.pending.op # 0, ~s.pending.ready, s.pending.op \in Mapped,
         t.applied = s.applied, t.phase = s.phase, t.pending = s.pending,
         t.maps = s.maps \cup {s.pending.op}, t.intervals = s.intervals
  PROVE  StateOK(t, h, w)
<1> USE StateParts DEF StateOK
<1>1. PendingOK(t, h)
  BY DEF PendingOK
<1>2. MapsOK(t)
  BY DEF MapsOK
<1>3. HeadsOK(t, h) /\ WorkOK(t, h, w)
  BY SamePlace
<1>4. IntervalsOK(t)
  BY DEF IntervalsOK
<1> QED
  BY <1>1, <1>2, <1>3, <1>4

(* MarkPublicationReady *)
LEMMA MarkReadyOK ==
  ASSUME NEW s \in State, NEW t \in State, NEW h, NEW w,
         StateOK(s, h, w), s.pending.op # 0, ~s.pending.ready, s.pending.op \notin Mapped \ s.maps,
         \A d \in Affected[s.pending.op] : w[d] = Through(d, s.pending.op),
         t.applied = s.applied, t.phase = s.phase, t.maps = s.maps, t.intervals = s.intervals,
         t.pending.op = s.pending.op, t.pending.ready = TRUE,
         t.pending.commits = s.pending.commits, t.pending.pre = s.pending.pre
  PROVE  StateOK(t, h, w)
<1> USE StateParts DEF StateOK
<1>1. PendingOK(t, h)
  BY DEF PendingOK
<1>2. MapsOK(t)
  BY DEF MapsOK
<1>3. HeadsOK(t, h)
  BY DEF HeadsOK, Touches
<1>4. WorkOK(t, h, w)
  BY DEF WorkOK, Touches
<1>5. IntervalsOK(t)
  BY DEF IntervalsOK
<1> QED
  BY <1>1, <1>2, <1>3, <1>4, <1>5

(* A hard reset of one database of a publication that is not ready. *)
LEMMA ResetOK ==
  ASSUME NEW s \in State, NEW h, NEW w, NEW v, NEW d \in Databases,
         StateOK(s, h, w), s.pending.op # 0, ~s.pending.ready, d \in Affected[s.pending.op],
         v[d] = h[d].content, \A x \in Databases : x # d => v[x] = w[x]
  PROVE  StateOK(s, h, v)
<1> USE StateParts DEF StateOK
<1>1. h[d].content = Through(d, s.applied)
  BY DEF HeadsOK
<1>2. WorkOK(s, h, v)
  BY <1>1 DEF WorkOK, Touches
<1> QED
  BY <1>2

(* AbortPublication *)
LEMMA AbortOK ==
  ASSUME NEW s \in State, NEW t \in State, NEW h, NEW w,
         StateOK(s, h, w), s.pending.op # 0, ~s.pending.ready,
         \A d \in Affected[s.pending.op] : w[d] = h[d].content,
         t.applied = s.applied, t.phase = s.phase, t.pending = NoPending,
         t.maps = s.pending.pre, t.intervals = s.intervals
  PROVE  StateOK(t, h, w)
<1> USE StateParts DEF StateOK
<1>0. t.pending.op = 0
  BY DEF NoPending
<1>1. PendingOK(t, h)
  BY <1>0 DEF PendingOK
<1>2. MapsOK(t)
  BY <1>0 DEF MapsOK
<1>3. HeadsOK(t, h)
  BY <1>0 DEF HeadsOK, Touches
<1>4. WorkOK(t, h, w)
  BY <1>0 DEF WorkOK, Touches
<1>5. IntervalsOK(t)
  BY <1>0 DEF IntervalsOK
<1> QED
  BY <1>1, <1>2, <1>3, <1>4, <1>5

(* DumboDBCommit of a database whose HEAD is not the publication's commit. *)
LEMMA CommitOK ==
  ASSUME NEW s \in State, NEW h, NEW g, NEW w, NEW d \in Databases,
         StateOK(s, h, w), s.pending.op # 0, s.pending.ready,
         d \in Affected[s.pending.op], h[d].pub # s.pending.op,
         g[d].pub = s.pending.op, g[d].content = w[d],
         \A x \in Databases : x # d => g[x] = h[x]
  PROVE  StateOK(s, g, w)
<1> USE StateParts DEF StateOK
<1>1. w[d] = Through(d, s.pending.op)
  BY DEF WorkOK, Touches
<1>2. PendingOK(s, g)
  BY DEF PendingOK
<1>3. HeadsOK(s, g)
  BY <1>1 DEF HeadsOK, Touches
<1>4. WorkOK(s, g, w)
  BY <1>1 DEF WorkOK, Touches
<1> QED
  BY <1>2, <1>3, <1>4

(* RecordPublicationCommit of the HEAD that carries the publication. *)
LEMMA RecordOK ==
  ASSUME NEW s \in State, NEW t \in State, NEW h \in [Databases -> Commit], NEW w,
         NEW d \in Databases, StateOK(s, h, w), s.pending.op # 0, s.pending.ready,
         d \in Affected[s.pending.op], s.pending.commits[d] = NoCommit, h[d].pub = s.pending.op,
         t.applied = s.applied, t.phase = s.phase, t.maps = s.maps, t.intervals = s.intervals,
         t.pending.op = s.pending.op, t.pending.ready = s.pending.ready,
         t.pending.commits = [s.pending.commits EXCEPT ![d] = h[d]],
         t.pending.pre = s.pending.pre
  PROVE  StateOK(t, h, w)
<1> USE StateParts DEF StateOK
<1>0. t.pending.commits[d] = h[d]
      /\ \A x \in Databases : x # d => t.pending.commits[x] = s.pending.commits[x]
  OBVIOUS
<1>1. PendingOK(t, h)
  BY <1>0 DEF PendingOK
<1>2. MapsOK(t)
  BY DEF MapsOK
<1>3. HeadsOK(t, h) /\ WorkOK(t, h, w)
  BY SamePlace
<1>4. IntervalsOK(t)
  BY DEF IntervalsOK, AllRecorded
<1> QED
  BY <1>1, <1>2, <1>3, <1>4

(* The first write of PublishCommit, and what a failed second write leaves *)
(* in memory: the interval of the pending publication is recorded.         *)
LEMMA AppendOK ==
  ASSUME NEW s \in State, NEW t \in State, NEW h \in [Databases -> Commit], NEW w, NEW i,
         StateOK(s, h, w), s.pending.op # 0, s.pending.ready, AllRecorded(s),
         i.op = s.pending.op, i.commits = s.pending.commits,
         t.applied = s.applied, t.phase = s.phase, t.maps = s.maps, t.pending = s.pending,
         t.intervals = s.intervals \cup {i}
  PROVE  StateOK(t, h, w)
<1> USE StateParts DEF StateOK
<1>1. PendingOK(t, h)
  BY DEF PendingOK
<1>2. MapsOK(t)
  BY DEF MapsOK
<1>3. HeadsOK(t, h) /\ WorkOK(t, h, w)
  BY SamePlace
<1>4. \A d \in Affected[i.op] : i.commits[d].pub = i.op /\ i.commits[d].content = Through(d, i.op)
  <2> SUFFICES ASSUME NEW d \in Affected[i.op]
               PROVE  i.commits[d].pub = i.op /\ i.commits[d].content = Through(d, i.op)
    OBVIOUS
  <2>1. d \in Databases /\ i.commits[d] # NoCommit
    BY DEF AllRecorded
  <2>2. h[d].pub = i.op /\ i.commits[d] = h[d]
    BY <2>1 DEF PendingOK
  <2>3. ~(h[d].pub <= s.applied)
    BY <2>2 DEF PendingOK
  <2> QED
    BY <2>1, <2>2, <2>3 DEF HeadsOK
<1>5. i.op \notin Noop
  BY DEF PendingOK
<1>6. IntervalsOK(t)
  BY <1>4, <1>5 DEF IntervalsOK, AllRecorded
<1> QED
  BY <1>1, <1>2, <1>3, <1>6

(* The second write of PublishCommit: the checkpoint moves to the entry    *)
(* and the publication ends.                                               *)
LEMMA PublishOK ==
  ASSUME NEW s \in State, NEW t \in State, NEW h \in [Databases -> Commit], NEW w, NEW i,
         StateOK(s, h, w), s.pending.op # 0, s.pending.ready, AllRecorded(s),
         i.op = s.pending.op, i.commits = s.pending.commits,
         t.applied = s.pending.op, t.phase = s.phase, t.maps = s.maps, t.pending = NoPending,
         t.intervals = s.intervals \cup {i}
  PROVE  StateOK(t, h, w)
<1> USE StateParts DEF StateOK
<1> DEFINE n == s.applied
<1>0. /\ t.pending.op = 0 /\ s.pending.op = n + 1 /\ n \in Nat
      /\ n + 1 \in Entries \ Noop /\ n + 1 \notin Mapped \ s.maps
  BY DEF NoPending, PendingOK
<1>1. PendingOK(t, h)
  BY <1>0 DEF PendingOK
<1>2. MapsOK(t)
  BY <1>0, MapsNext DEF MapsOK
<1>3. ASSUME NEW d \in Databases, Touches(s, d)
      PROVE  h[d].pub = n + 1 /\ h[d].content = Through(d, n + 1)
             /\ s.pending.commits[d] = h[d]
  <2>1. s.pending.commits[d] # NoCommit
    BY <1>3 DEF AllRecorded, Touches
  <2>2. h[d].pub = n + 1 /\ s.pending.commits[d] = h[d]
    BY <2>1, <1>0 DEF PendingOK
  <2> QED
    BY <2>2, <1>0 DEF HeadsOK
<1>4. ASSUME NEW d \in Databases, ~Touches(s, d)
      PROVE  h[d].pub <= n /\ h[d].content = Through(d, n + 1)
  <2>1. Through(d, n + 1) = Through(d, n)
    BY <1>0, <1>4, ThroughNext DEF Touches
  <2> QED
    BY <2>1, <1>4 DEF HeadsOK
<1>5. HeadsOK(t, h)
  <2> SUFFICES ASSUME NEW d \in Databases
               PROVE  h[d].content = Through(d, n + 1) /\ h[d].pub <= n + 1
    BY <1>0 DEF HeadsOK
  <2>1. h[d].pub \in Int
    BY DEF Commit
  <2> QED
    BY <1>0, <1>3, <1>4, <2>1
<1>6. WorkOK(t, h, w)
  <2> SUFFICES ASSUME NEW d \in Databases PROVE w[d] = h[d].content
    BY <1>0 DEF WorkOK, Touches
  <2> QED
    BY <1>0, <1>3 DEF WorkOK
<1>7. IntervalsOK(t)
  <2>1. \A e \in Entries \ Noop : e <= t.applied => \E x \in t.intervals : x.op = e
    <3> SUFFICES ASSUME NEW e \in Entries \ Noop, e <= n + 1
                 PROVE  \E x \in t.intervals : x.op = e
      BY <1>0
    <3>1. e <= n \/ e = n + 1
      BY <1>0 DEF Entries
    <3> QED
      BY <3>1, <1>0 DEF IntervalsOK
  <2>2. \A x \in s.intervals : x.op <= n + 1
    BY <1>0 DEF IntervalsOK
  <2>3. \A d \in Affected[i.op] : d \in Databases /\ Touches(s, d)
    BY DEF Touches
  <2>4. \A d \in Affected[i.op] : i.commits[d].pub = i.op /\ i.commits[d].content = Through(d, i.op)
    <3> SUFFICES ASSUME NEW d \in Affected[i.op]
                 PROVE  i.commits[d].pub = i.op /\ i.commits[d].content = Through(d, i.op)
      OBVIOUS
    <3>1. d \in Databases /\ Touches(s, d)
      BY <2>3
    <3>2. h[d].pub = n + 1 /\ h[d].content = Through(d, n + 1) /\ s.pending.commits[d] = h[d]
      BY <3>1, <1>3
    <3> QED
      BY <3>2, <1>0
  <2> QED
    <3>1. ASSUME NEW x \in t.intervals
          PROVE  /\ x.op \notin Noop /\ x.op <= t.applied
                 /\ \A d \in Affected[x.op] :
                      x.commits[d].pub = x.op /\ x.commits[d].content = Through(d, x.op)
      <4>1. CASE x = i
        BY <4>1, <2>4, <1>0
      <4>2. CASE x \in s.intervals
        BY <4>2, <2>2, <1>0 DEF IntervalsOK
      <4> QED
        BY <4>1, <4>2
    <3> QED
      BY <2>1, <3>1 DEF IntervalsOK
<1> QED
  BY <1>1, <1>2, <1>5, <1>6, <1>7
=============================================================================
