--------------------------- MODULE ProgressProofs ---------------------------
(* Proofs about the progress reporter, for any sources and any bounds. *)
EXTENDS Progress, TLAPS

(* The reporter starts waiting, with no request made. *)
LEMMA InitInv == Init => TypeOK /\ RoundOK
<1> SUFFICES ASSUME Init PROVE TypeOK /\ RoundOK
  OBVIOUS
<1>1. 0 \in 0..Last /\ 0 \in 0..MaxFailures /\ 0 \in 0..MaxSwitches /\ 0 \in 0..MaxRollbacks
  BY ProgressAssumption
<1>2. reported \in [Sources -> 0..Last]
  BY <1>1 DEF Init
<1>3. wake \in BOOLEAN /\ silent \in BOOLEAN /\ syncSource \in Sources \union {None} /\ client \in Sources \union {None}
  BY Zenon DEF Init
<1>4. stored \in position..Last /\ requested \in Nat /\ generation \in 0..requested /\ acknowledged \in 0..requested
  BY ProgressAssumption DEF Init
<1>5. TypeOK
  BY <1>1, <1>2, <1>3, <1>4, Zenon DEF Init, TypeOK
<1>6. RoundOK
  BY DEF Init, RoundOK
<1> QED
  BY <1>5, <1>6

(* Every step of the runtime, the heartbeats and the reporter keeps the types. *)
LEMMA StepType == TypeOK /\ RoundOK /\ [Next]_vars => TypeOK'
<1> SUFFICES ASSUME TypeOK, RoundOK, [Next]_vars PROVE TypeOK'
  OBVIOUS
<1> USE ProgressAssumption DEF TypeOK, manager, notifier, reporter, bounds
<1>1. CASE AdvanceApplied
  <2>1. position' \in 0..Last /\ stored' \in position'..Last
    BY <1>1 DEF AdvanceApplied, MoveTo
  <2>2. silent' \in BOOLEAN /\ npc' \in {"idle", "notify", "wake"}
    BY <1>1, Zenon DEF AdvanceApplied, MoveTo
  <2> QED
    BY <1>1, <2>1, <2>2, Zenon DEF AdvanceApplied
<1>2. CASE CompleteRollback
  <2>1. position' \in 0..Last /\ stored' \in position'..Last
    BY <1>2 DEF CompleteRollback, MoveTo
  <2>2. silent' \in BOOLEAN /\ npc' \in {"idle", "notify", "wake"}
    BY <1>2, Zenon DEF CompleteRollback, MoveTo
  <2>3. rollbacks' \in 0..MaxRollbacks /\ syncSource' \in Sources \union {None}
    BY <1>2 DEF CompleteRollback
  <2> QED
    BY <1>2, <2>1, <2>2, <2>3, Zenon DEF CompleteRollback
<1>3. CASE SelectSource BY <1>3 DEF SelectSource
<1>4. CASE Notify BY <1>4 DEF Notify
<1>5. CASE Wake BY <1>5 DEF Wake
<1>6. CASE Tick BY <1>6 DEF Tick
<1>7. CASE Woken BY <1>7 DEF Woken
<1>8. CASE NoSource BY <1>8 DEF NoSource
<1>9. CASE ReadState BY <1>9 DEF ReadState
<1>10. CASE ReadGeneration BY <1>10 DEF ReadGeneration
<1>11. CASE Send BY <1>11 DEF Send
<1>12. CASE SendFails BY <1>12 DEF SendFails
<1>13. CASE Acknowledge BY <1>13 DEF Acknowledge
<1>14. CASE AdvanceFails BY <1>14 DEF AdvanceFails
<1>15. CASE ResetFetchProgress BY <1>15 DEF ResetFetchProgress
<1>16. CASE ResetInitialSync BY <1>16 DEF ResetInitialSync
<1>17. CASE UNCHANGED vars BY <1>17 DEF vars
<1> QED
  BY <1>1, <1>2, <1>3, <1>4, <1>5, <1>6, <1>7, <1>8, <1>9, <1>10, <1>11, <1>12, <1>13, <1>14,
     <1>15, <1>16, <1>17
  DEF Next, Reporter

(* Every step keeps what a round has read current, leaves a wake-up behind, or is one *)
(* of the moves of the position that notify nobody.                                   *)
LEMMA StepRound == TypeOK /\ RoundOK /\ [Next]_vars => RoundOK'
<1> SUFFICES ASSUME TypeOK, RoundOK, [Next]_vars PROVE RoundOK'
  OBVIOUS
<1> USE DEF TypeOK, RoundOK, RoundAhead, manager, notifier, reporter, bounds
<1>1. CASE AdvanceApplied BY <1>1 DEF AdvanceApplied, MoveTo
<1>2. CASE CompleteRollback BY <1>2 DEF CompleteRollback, MoveTo
<1>3. CASE SelectSource BY <1>3 DEF SelectSource
<1>4. CASE Notify BY <1>4 DEF Notify
<1>5. CASE Wake BY <1>5 DEF Wake
<1>6. CASE Tick BY <1>6 DEF Tick
<1>7. CASE Woken BY <1>7 DEF Woken
<1>8. CASE NoSource BY <1>8 DEF NoSource
<1>9. CASE ReadState BY <1>9 DEF ReadState
<1>10. CASE ReadGeneration BY <1>10 DEF ReadGeneration
<1>11. CASE Send BY <1>11 DEF Send
<1>12. CASE SendFails BY <1>12 DEF SendFails
<1>13. CASE Acknowledge BY <1>13 DEF Acknowledge
<1>14. CASE AdvanceFails BY <1>14 DEF AdvanceFails
<1>15. CASE ResetFetchProgress BY <1>15 DEF ResetFetchProgress
<1>16. CASE ResetInitialSync BY <1>16 DEF ResetInitialSync
<1>17. CASE UNCHANGED vars BY <1>17 DEF vars
<1> QED
  BY <1>1, <1>2, <1>3, <1>4, <1>5, <1>6, <1>7, <1>8, <1>9, <1>10, <1>11, <1>12, <1>13, <1>14,
     <1>15, <1>16, <1>17
  DEF Next, Reporter

(* The types hold, and a round's reading is current, or a wake-up is pending, or the *)
(* position moved since by ResetFetchProgress or ResetInitialSync, which notify       *)
(* nobody.                                                                            *)
THEOREM ProgressInvariance == Spec => [](TypeOK /\ RoundOK)
<1>1. (TypeOK /\ RoundOK) /\ [Next]_vars => (TypeOK /\ RoundOK)'
  BY StepType, StepRound
<1> QED
  BY InitInv, <1>1, PTL DEF Spec

(* Run never goes back to waiting after a successful report with notified progress    *)
(* that only the ticker would bring to the source.                                    *)
THEOREM QuietReported == Spec => QuietMeansReported
<1>1. TypeOK /\ RoundOK /\ [Next]_vars =>
        [pc = "acknowledge" /\ pc' = "wait" =>
           reported[client] = position \/ RoundAhead \/ silent]_vars
  BY DEF RoundOK
<1> QED
  BY <1>1, ProgressInvariance, PTL DEF Spec, QuietMeansReported
=============================================================================
