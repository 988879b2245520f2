-------------------------- MODULE HillClimbingProofs --------------------------
(****************************************************************************)
(* Proofs about HillClimbing: for every set of rates, every pair of         *)
(* thresholds and every start ratio, the climbs keep their types, move      *)
(* pages by one step, and record what they place unless they end on a rate  *)
(* that was transient or with a step past the end.                          *)
(****************************************************************************)
EXTENDS HillClimbing, TLAPS

\* The best rate is never NaN.
LEMMA BetterType ==
    ASSUME NEW rate \in Measured, NEW best \in Measured \ {NaN}
    PROVE  Better(rate, best) \in Measured \ {NaN}
BY DEF Better, Measured, Inf, NaN

\* What a placement does to the variables it is about.
LEMMA Placement ==
    ASSUME NEW r, NEW next, place_all_pages(r, next)
    PROVE  /\ UNCHANGED <<i, stall_rate, best_stall_rate>>
           /\ \/ placed' = r /\ pc' = next /\ exited' = exited
              \/ placed' \in {placed, r} /\ exited' = "moves" /\ pc' = pc
BY DEF place_all_pages, rates

\* A placement is no step on a transient rate.
LEMMA PlacementFlag ==
    ASSUME NEW r, NEW next, place_all_pages(r, next)
    PROVE  transient' \in BOOLEAN
BY DEF place_all_pages

\* Flags that a step leaves alone.
LEMMA FlagsKept ==
    ASSUME TypeOK
    PROVE  /\ UNCHANGED hung => hung' \in BOOLEAN
           /\ UNCHANGED transient => transient' \in BOOLEAN
BY DEF TypeOK

-----------------------------------------------------------------------------
(* One lemma per action.                                                    *)

\* The first measurement is the best one, so that no other branch is taken.
LEMMA disabled_controllerIInv == ASSUME IInv, disabled_controller, UNCHANGED hung PROVE IInv'
<1> USE DEF disabled_controller, MainAt, IInv, pages
<1>1. PICK rate \in Measured :
          LET best == Better(rate, best_stall_rate) IN
          /\ stall_rate' = rate
          /\ IF PhaseChange(rate, best)
             THEN NewPhase /\ UNCHANGED exited
             ELSE /\ best_stall_rate' = best
                  /\ IF optimization_complete
                     THEN EndIteration /\ UNCHANGED exited
                     ELSE FirstClimb(Climb(rate, best))
  OBVIOUS
<1> DEFINE best == Better(rate, best_stall_rate)
<1>2. best \in Measured \ {NaN}
  BY BetterType DEF TypeOK
<1>3. /\ UNCHANGED <<i, current_remote_ratio, placed, transient>>
      /\ exited = "no" /\ pc = "measure" /\ Tracked
  BY DEF ClimbInv
<1>4. CASE PhaseChange(rate, best)
  <2>1. /\ stall_rate' = rate /\ best_stall_rate' = Inf
        /\ optimization_complete' = FALSE /\ pc' = Direction /\ exited' = "no"
    BY <1>1, <1>3, <1>4 DEF NewPhase
  <2>2. TypeOK'
    <3>1. Inf \in Measured \ {NaN}
      BY DEF Measured, Inf, NaN
    <3>2. Direction \in PCs
      BY DEF Direction, PCs
    <3> HIDE DEF best, disabled_controller
    <3> QED BY <1>3, <2>1, <3>1, <3>2 DEF TypeOK
  <2>3. pc' \in {"try", "up"} /\ (pc' = "try" => current_remote_ratio > 0)
    BY <2>1 DEF Direction
  <2>4. Tracked'
    BY <1>3 DEF Tracked, EndedTransient, PastTheEnd
  <2>5. ClimbInv' /\ PhaseInv'
    BY <1>3, <2>1, <2>3, <2>4 DEF ClimbInv, PhaseInv
  <2> QED BY <2>1, <2>2, <2>5 DEF ElseOnlyUnmeasured
<1>5. CASE ~PhaseChange(rate, best) /\ optimization_complete
  <2>1. /\ stall_rate' = rate /\ best_stall_rate' = best
        /\ optimization_complete' = TRUE /\ pc' = "measure" /\ exited' = "no"
    BY <1>1, <1>3, <1>5 DEF EndIteration
  <2> HIDE DEF best
  <2>2. TypeOK'
    BY <1>2, <1>3, <2>1 DEF TypeOK, PCs
  <2>3. ClimbInv' /\ PhaseInv'
    BY <1>3, <2>1 DEF ClimbInv, PhaseInv, Tracked, EndedTransient, PastTheEnd
  <2> QED BY <2>1, <2>2, <2>3 DEF ElseOnlyUnmeasured
<1>6. CASE ~PhaseChange(rate, best) /\ ~optimization_complete
  <2>1. /\ stall_rate' = rate /\ best_stall_rate' = best
        /\ FirstClimb(Climb(rate, best))
    BY <1>1, <1>6
  <2>2. best_stall_rate = Inf
    BY <1>3, <1>6 DEF PhaseInv
  <2>3. CASE rate \in {Inf, NaN}
    <3>1. Climb(rate, best) = "else"
      BY <2>2, <2>3, RatesAssumption
      DEF Climb, Better, Equals, Above, Within, Inf, NaN
    <3>2. exited' = "else" /\ UNCHANGED <<pc, optimization_complete>>
      BY <2>1, <3>1 DEF FirstClimb
    <3> HIDE DEF best
    <3>3. TypeOK'
      BY <1>2, <1>3, <2>1, <3>2 DEF TypeOK
    <3> QED BY <2>1, <2>3, <3>2, <3>3 DEF ElseOnlyUnmeasured
  <2>4. CASE rate \notin {Inf, NaN}
    <3>1. Climb(rate, best) = "up"
      BY <2>2, <2>4 DEF Climb, Better, Equals, Measured
    <3>2. exited' = "no" /\ pc' = "up" /\ optimization_complete' = FALSE
      BY <1>3, <2>1, <3>1 DEF FirstClimb
    <3> HIDE DEF best
    <3>3. TypeOK'
      BY <1>2, <1>3, <2>1, <3>2 DEF TypeOK, PCs
    <3>4. ClimbInv' /\ PhaseInv'
      BY <1>3, <3>2 DEF ClimbInv, PhaseInv, Tracked, EndedTransient, PastTheEnd
    <3> QED BY <3>2, <3>3, <3>4 DEF ElseOnlyUnmeasured
  <2> QED BY <2>3, <2>4
<1> QED BY <1>4, <1>5, <1>6

\* The attempt is one step below the recorded ratio.
LEMMA TryDownIInv == ASSUME IInv, TryDown, UNCHANGED hung PROVE IInv'
<1> USE DEF TryDown, MainAt, IInv
<1>1. /\ exited = "no" /\ pc = "try" /\ current_remote_ratio > 0
      /\ UNCHANGED <<current_remote_ratio, optimization_complete>>
      /\ place_all_pages(current_remote_ratio - ADAPTATION_STEP, "tried")
  BY DEF ClimbInv
<1>2. TypeOK'
  BY <1>1, Placement, PlacementFlag, FlagsKept DEF TypeOK, PCs, ADAPTATION_STEP
<1>3. exited' = "no" => ClimbInv' /\ PhaseInv'
  BY <1>1, Placement DEF ClimbInv, PhaseInv, TypeOK, ADAPTATION_STEP
<1> QED BY <1>1, <1>2, <1>3, Placement DEF ElseOnlyUnmeasured

\* An attempt that pays is recorded, one that does not is undone.
LEMMA JudgeTryIInv == ASSUME IInv, JudgeTry, UNCHANGED hung PROVE IInv'
<1> USE DEF JudgeTry, MainAt, IInv, rates, pages
<1>1. /\ exited = "no" /\ exited' = "no" /\ current_remote_ratio > 0
      /\ placed = current_remote_ratio - ADAPTATION_STEP
      /\ UNCHANGED <<i, stall_rate, best_stall_rate, placed, transient, optimization_complete>>
  BY DEF ClimbInv, GoOn
<1>2. \/ /\ current_remote_ratio' = current_remote_ratio - ADAPTATION_STEP
         /\ pc' = "down"
      \/ UNCHANGED current_remote_ratio /\ pc' = "undo"
  BY DEF GoOn
<1>3. TypeOK'
  BY <1>1, <1>2 DEF TypeOK, PCs, ADAPTATION_STEP
<1>4. ClimbInv' /\ PhaseInv'
  BY <1>1, <1>2 DEF ClimbInv, PhaseInv, Tracked, EndedTransient, PastTheEnd
<1> QED BY <1>1, <1>3, <1>4 DEF ElseOnlyUnmeasured

\* The undone attempt is back at the recorded ratio.
LEMMA UndoIInv == ASSUME IInv, Undo, UNCHANGED hung PROVE IInv'
<1> USE DEF Undo, MainAt, IInv
<1>1. /\ exited = "no" /\ pc = "undo" /\ current_remote_ratio > 0
      /\ UNCHANGED <<current_remote_ratio, optimization_complete>>
      /\ place_all_pages(current_remote_ratio, "up")
  BY DEF ClimbInv
<1>2. TypeOK'
  BY <1>1, Placement, PlacementFlag, FlagsKept DEF TypeOK, PCs
<1>3. exited' = "no" => ClimbInv' /\ PhaseInv'
  BY <1>1, Placement DEF ClimbInv, PhaseInv, Tracked, EndedTransient, PastTheEnd
<1> QED BY <1>1, <1>2, <1>3, Placement DEF ElseOnlyUnmeasured

\* A climb up starts one step beyond the recorded ratio.
LEMMA StartUpIInv == ASSUME IInv, StartUp, UNCHANGED hung PROVE IInv'
<1> USE DEF StartUp, MainAt, IInv, rates, pages
<1>1. /\ exited = "no" /\ exited' = "no" /\ pc = "up" /\ Tracked
      /\ ~optimization_complete
      /\ current_remote_ratio \in -9 .. 109 /\ placed \in -9 .. 109
      /\ UNCHANGED <<stall_rate, best_stall_rate, placed, transient>>
  BY DEF ClimbInv, PhaseInv, TypeOK
<1>2. /\ i' = current_remote_ratio'
      /\ \/ /\ current_remote_ratio < 100
            /\ current_remote_ratio' = current_remote_ratio + 10
         \/ /\ current_remote_ratio >= 100
            /\ current_remote_ratio' = current_remote_ratio
  BY <1>1 DEF ADAPTATION_STEP
<1>3. CASE i' <= 100
  <2>1. pc' = "upPlace" /\ optimization_complete' = optimization_complete
    BY <1>3 DEF LoopUp, GoOn
  <2>2. TypeOK'
    BY <1>1, <1>2, <1>3, <2>1 DEF TypeOK, PCs
  <2>3. /\ i' \in 1 .. 100
        /\ placed' \in {i', i' - 10} \/ EndedTransient'
    BY <1>1, <1>2, <1>3 DEF Tracked, EndedTransient, PastTheEnd, ADAPTATION_STEP
  <2>4. ClimbInv' /\ PhaseInv'
    BY <1>1, <2>1, <2>3 DEF ClimbInv, PhaseInv, ADAPTATION_STEP
  <2> QED BY <1>1, <2>2, <2>4 DEF ElseOnlyUnmeasured
<1>4. CASE ~(i' <= 100)
  <2>1. pc' = "measure" /\ optimization_complete' = TRUE
    BY <1>4 DEF LoopUp, EndIteration
  <2>2. TypeOK'
    BY <1>1, <1>2, <2>1 DEF TypeOK, PCs
  <2>3. Tracked'
    BY <1>1, <1>2, <1>4 DEF Tracked, EndedTransient, PastTheEnd, ADAPTATION_STEP
  <2>4. ClimbInv' /\ PhaseInv'
    BY <2>1, <2>3 DEF ClimbInv, PhaseInv
  <2> QED BY <1>1, <2>2, <2>4 DEF ElseOnlyUnmeasured
<1> QED BY <1>3, <1>4

\* A step up reaches the loop variable.
LEMMA StepUpIInv == ASSUME IInv, StepUp, UNCHANGED hung PROVE IInv'
<1> USE DEF StepUp, MainAt, IInv
<1>1. /\ exited = "no" /\ pc = "upPlace" /\ i \in 1 .. 100
      /\ UNCHANGED <<current_remote_ratio, optimization_complete>>
      /\ place_all_pages(i, "upRead")
  BY DEF ClimbInv
<1>2. TypeOK'
  BY <1>1, Placement, PlacementFlag, FlagsKept DEF TypeOK, PCs
<1>3. exited' = "no" => ClimbInv' /\ PhaseInv'
  BY <1>1, Placement DEF ClimbInv, PhaseInv
<1> QED BY <1>1, <1>2, <1>3, Placement DEF ElseOnlyUnmeasured

\* A measurement keeps the types of the rates.
LEMMA MeasureType ==
    ASSUME TypeOK, NEW rate \in Measured, Measure(rate)
    PROVE  /\ stall_rate' \in Measured /\ best_stall_rate' \in Measured \ {NaN}
           /\ UNCHANGED <<placed, transient>>
BY BetterType DEF Measure, TypeOK, pages

\* A climb up that goes on takes the next step from where the pages are, or
\* ends at the upper end.
LEMMA GoOnUp ==
    ASSUME i \in 1 .. 100, i' = i + ADAPTATION_STEP, LoopUp,
           optimization_complete = FALSE,
           placed' = i, current_remote_ratio' \in -9 .. 109,
           current_remote_ratio' = i \/ transient' = TRUE
    PROVE  /\ i' \in -10 .. 110 /\ pc' \in PCs
           /\ optimization_complete' \in BOOLEAN
           /\ ClimbInv' /\ PhaseInv'
<1>1. CASE i' <= 100
  <2>1. pc' = "upPlace" /\ optimization_complete' = FALSE
    BY <1>1 DEF LoopUp, GoOn
  <2>2. i' \in 1 .. 100 /\ placed' = i' - ADAPTATION_STEP
    BY <1>1 DEF ADAPTATION_STEP
  <2>3. ClimbInv'
    BY <2>1, <2>2 DEF ClimbInv
  <2>4. PhaseInv'
    BY <2>1 DEF PhaseInv
  <2>5. i' \in -10 .. 110
    BY <2>2
  <2>6. pc' \in PCs /\ optimization_complete' \in BOOLEAN
    BY <2>1 DEF PCs
  <2> QED BY <2>3, <2>4, <2>5, <2>6
<1>2. CASE ~(i' <= 100)
  <2>1. pc' = "measure" /\ optimization_complete' = TRUE
    BY <1>2 DEF LoopUp, EndIteration
  <2>2. placed' = current_remote_ratio' \/ EndedTransient'
    BY <1>2 DEF EndedTransient, ADAPTATION_STEP
  <2>3. i' \in -10 .. 110
    BY DEF ADAPTATION_STEP
  <2>4. Tracked'
    BY <2>2 DEF Tracked
  <2>5. ClimbInv'
    BY <2>1, <2>4 DEF ClimbInv
  <2>6. PhaseInv'
    BY <2>1 DEF PhaseInv
  <2>7. pc' \in PCs /\ optimization_complete' \in BOOLEAN
    BY <2>1 DEF PCs
  <2> QED BY <2>3, <2>5, <2>6, <2>7
<1> QED BY <1>1, <1>2

\* Every rate stops the climb, lets it go on, or is to be confirmed.
LEMMA JudgeUpIInv == ASSUME IInv, JudgeUp, UNCHANGED hung PROVE IInv'
<1>1. PICK rate \in Measured :
         /\ Measure(rate)
         /\ \/ GoOn("confirm") /\ UNCHANGED <<i, current_remote_ratio>>
            \/ GoOn("upBack") /\ UNCHANGED <<i, current_remote_ratio>>
            \/ /\ current_remote_ratio' = i
               /\ i' = i + ADAPTATION_STEP
               /\ LoopUp
  BY DEF JudgeUp, Recorded
<1>2. /\ exited = "no" /\ exited' = "no" /\ pc = "upRead"
      /\ i \in 1 .. 100 /\ placed = i /\ optimization_complete = FALSE
      /\ TypeOK
  BY DEF JudgeUp, MainAt, IInv, ClimbInv, PhaseInv, TypeOK
<1>3. /\ stall_rate' \in Measured /\ best_stall_rate' \in Measured \ {NaN}
      /\ placed' = placed /\ transient' = transient
  BY <1>1, <1>2, MeasureType
<1>4. CASE pc' \in {"confirm", "upBack"} /\ UNCHANGED <<i, current_remote_ratio, optimization_complete>>
  <2>1. TypeOK'
    BY <1>2, <1>3, <1>4, FlagsKept DEF TypeOK, PCs
  <2>2. ClimbInv' /\ PhaseInv'
    BY <1>2, <1>3, <1>4 DEF ClimbInv, PhaseInv
  <2> QED BY <1>2, <2>1, <2>2 DEF IInv, ElseOnlyUnmeasured
<1>5. CASE current_remote_ratio' = i /\ i' = i + ADAPTATION_STEP /\ LoopUp
  <2>1. /\ i' \in -10 .. 110 /\ pc' \in PCs
        /\ optimization_complete' \in BOOLEAN /\ ClimbInv' /\ PhaseInv'
    <3>1. current_remote_ratio' \in -9 .. 109 /\ placed' = i
      BY <1>2, <1>3, <1>5
    <3> QED BY <1>2, <1>5, <3>1, GoOnUp
  <2>2. TypeOK'
    BY <1>2, <1>3, <1>5, <2>1, FlagsKept DEF TypeOK
  <2> QED BY <1>2, <2>1, <2>2 DEF IInv, ElseOnlyUnmeasured
<1> QED BY <1>1, <1>4, <1>5 DEF GoOn

\* A transient goes on without a record; the pages are where the next step
\* expects them.
LEMMA ConfirmIInv == ASSUME IInv, Confirm, UNCHANGED hung PROVE IInv'
<1>1. /\ exited = "no" /\ exited' = "no" /\ pc = "confirm"
      /\ i \in 1 .. 100 /\ placed = i /\ optimization_complete = FALSE
      /\ TypeOK /\ current_remote_ratio \in -9 .. 109
      /\ UNCHANGED <<stall_rate, best_stall_rate, current_remote_ratio, placed>>
  BY DEF Confirm, MainAt, IInv, ClimbInv, PhaseInv, TypeOK, rates, pages
<1>2. CASE GoOn("upBack") /\ UNCHANGED <<i, transient>>
  <2>1. TypeOK'
    BY <1>1, <1>2 DEF TypeOK, PCs, GoOn
  <2>2. ClimbInv' /\ PhaseInv'
    BY <1>1, <1>2 DEF ClimbInv, PhaseInv, GoOn
  <2> QED BY <1>1, <2>1, <2>2 DEF IInv, ElseOnlyUnmeasured
<1>3. CASE i' = i + ADAPTATION_STEP /\ LoopUp /\ transient' = TRUE
  <2>1. /\ i' \in -10 .. 110 /\ pc' \in PCs
        /\ optimization_complete' \in BOOLEAN /\ ClimbInv' /\ PhaseInv'
    <3>1. current_remote_ratio' \in -9 .. 109 /\ placed' = i
      BY <1>1
    <3> QED BY <1>1, <1>3, <3>1, GoOnUp
  <2>2. TypeOK'
    BY <1>1, <1>3, <2>1 DEF TypeOK
  <2> QED BY <1>1, <2>1, <2>2 DEF IInv, ElseOnlyUnmeasured
<1> QED BY <1>2, <1>3 DEF Confirm

\* A step back, up or down, is recorded.
LEMMA StepBackIInv ==
    ASSUME IInv, exited = "no", pc \in {"upBack", "downBack"},
           NEW r \in -9 .. 109, place_all_pages(r, "measure"),
           IF exited' = "no"
           THEN current_remote_ratio' = r /\ optimization_complete' = TRUE
           ELSE UNCHANGED <<current_remote_ratio, optimization_complete>>,
           UNCHANGED hung
    PROVE  IInv'
<1>1. TypeOK'
  <2>1. /\ UNCHANGED <<i, stall_rate, best_stall_rate>>
        /\ placed' \in {placed, r} /\ pc' \in {pc, "measure"}
        /\ exited' \in {"no", "moves"}
    BY Placement
  <2>2. current_remote_ratio' \in {current_remote_ratio, r}
    OBVIOUS
  <2>3. optimization_complete' \in BOOLEAN /\ transient' \in BOOLEAN
    <3>1. optimization_complete \in BOOLEAN
      BY DEF IInv, TypeOK
    <3> QED BY <3>1, PlacementFlag
  <2> QED BY <2>1, <2>2, <2>3 DEF IInv, TypeOK, PCs
<1>2. CASE exited' = "no"
  <2>1. /\ placed' = r /\ pc' = "measure" /\ current_remote_ratio' = r
        /\ optimization_complete' = TRUE
    BY <1>2, Placement
  <2>2. ClimbInv' /\ PhaseInv'
    BY <2>1 DEF ClimbInv, PhaseInv, Tracked, EndedTransient, PastTheEnd
  <2> QED BY <1>1, <1>2, <2>2 DEF IInv, ElseOnlyUnmeasured
<1>3. CASE exited' # "no"
  BY <1>1, <1>3, Placement DEF IInv, ElseOnlyUnmeasured
<1> QED BY <1>2, <1>3

LEMMA StepBackUpIInv == ASSUME IInv, StepBackUp, UNCHANGED hung PROVE IInv'
<1>1. /\ exited = "no" /\ pc = "upBack" /\ i \in 1 .. 100
      /\ place_all_pages(i - ADAPTATION_STEP, "measure")
  BY DEF StepBackUp, MainAt, IInv, ClimbInv
<1>2. i - ADAPTATION_STEP \in -9 .. 109
  BY <1>1 DEF ADAPTATION_STEP
<1> QED BY <1>1, <1>2, StepBackIInv DEF StepBackUp

LEMMA StepBackDownIInv == ASSUME IInv, StepBackDown, UNCHANGED hung PROVE IInv'
<1>1. /\ exited = "no" /\ pc = "downBack" /\ i \in 0 .. 99
      /\ place_all_pages(i + ADAPTATION_STEP, "measure")
  BY DEF StepBackDown, MainAt, IInv, ClimbInv
<1>2. i + ADAPTATION_STEP \in -9 .. 109
  BY <1>1 DEF ADAPTATION_STEP
<1> QED BY <1>1, <1>2, StepBackIInv DEF StepBackDown

\* A climb down that goes on takes the next step from where the pages are, or
\* ends at the lower end.
LEMMA LoopDownInv ==
    ASSUME i' \in -10 .. 99, LoopDown, optimization_complete = FALSE,
           i' >= 0 => placed' \in {i', i' + ADAPTATION_STEP} \/ EndedTransient',
           i' < 0 => Tracked'
    PROVE  /\ pc' \in PCs /\ optimization_complete' \in BOOLEAN
           /\ ClimbInv' /\ PhaseInv'
<1>1. CASE i' >= 0
  <2>1. pc' = "downPlace" /\ optimization_complete' = FALSE
    BY <1>1 DEF LoopDown, GoOn
  <2>2. i' \in 0 .. 99
    BY <1>1
  <2>3. ClimbInv'
    BY <1>1, <2>1, <2>2 DEF ClimbInv
  <2>4. PhaseInv'
    BY <2>1 DEF PhaseInv
  <2>5. pc' \in PCs /\ optimization_complete' \in BOOLEAN
    BY <2>1 DEF PCs
  <2> QED BY <2>3, <2>4, <2>5
<1>2. CASE ~(i' >= 0)
  <2>1. pc' = "measure" /\ optimization_complete' = TRUE
    BY <1>2 DEF LoopDown, EndIteration
  <2>2. Tracked'
    BY <1>2
  <2>3. ClimbInv'
    BY <2>1, <2>2 DEF ClimbInv
  <2>4. PhaseInv'
    BY <2>1 DEF PhaseInv
  <2>5. pc' \in PCs /\ optimization_complete' \in BOOLEAN
    BY <2>1 DEF PCs
  <2> QED BY <2>3, <2>4, <2>5
<1> QED BY <1>1, <1>2

\* A climb down starts one step below the recorded ratio, if it is not 0.
LEMMA StartDownIInv == ASSUME IInv, StartDown, UNCHANGED hung PROVE IInv'
<1>1. /\ exited = "no" /\ exited' = "no" /\ pc = "down" /\ Tracked
      /\ optimization_complete = FALSE /\ TypeOK
      /\ current_remote_ratio \in -9 .. 109 /\ placed \in -9 .. 109
      /\ UNCHANGED <<stall_rate, best_stall_rate, placed, transient>>
      /\ i' = current_remote_ratio' /\ LoopDown
  BY DEF StartDown, MainAt, IInv, ClimbInv, PhaseInv, TypeOK, rates, pages
<1>2. \/ /\ current_remote_ratio > 0
         /\ current_remote_ratio' = current_remote_ratio - 10
      \/ /\ current_remote_ratio <= 0
         /\ current_remote_ratio' = current_remote_ratio
  BY <1>1 DEF StartDown, FirstStepDown, ADAPTATION_STEP
<1>3. i' \in -9 .. 99
  BY <1>1, <1>2
<1>4. i' >= 0 => placed' \in {i', i' + ADAPTATION_STEP} \/ EndedTransient'
  BY <1>1, <1>2 DEF Tracked, EndedTransient, PastTheEnd, ADAPTATION_STEP
<1>5. i' < 0 => Tracked'
  BY <1>1, <1>2 DEF Tracked, EndedTransient, PastTheEnd, ADAPTATION_STEP
<1>6. /\ pc' \in PCs /\ optimization_complete' \in BOOLEAN
      /\ ClimbInv' /\ PhaseInv'
  <2>1. i' \in -10 .. 99
    BY <1>3
  <2>2. LoopDown /\ optimization_complete = FALSE
    BY <1>1
  <2> QED BY <1>4, <1>5, <2>1, <2>2, LoopDownInv
<1>7. TypeOK'
  BY <1>1, <1>3, <1>6 DEF TypeOK
<1> QED BY <1>1, <1>6, <1>7 DEF IInv, ElseOnlyUnmeasured

\* A step down reaches the loop variable.
LEMMA StepDownIInv == ASSUME IInv, StepDown, UNCHANGED hung PROVE IInv'
<1> USE DEF StepDown, MainAt, IInv
<1>1. /\ exited = "no" /\ pc = "downPlace" /\ i \in 0 .. 99
      /\ UNCHANGED <<current_remote_ratio, optimization_complete>>
      /\ place_all_pages(i, "downRead")
  BY DEF ClimbInv
<1>2. TypeOK'
  BY <1>1, Placement, PlacementFlag, FlagsKept DEF TypeOK, PCs
<1>3. exited' = "no" => ClimbInv' /\ PhaseInv'
  BY <1>1, Placement DEF ClimbInv, PhaseInv
<1> QED BY <1>1, <1>2, <1>3, Placement DEF ElseOnlyUnmeasured

\* A rate that is much worse stops the climb, any other records the ratio.
LEMMA JudgeDownIInv == ASSUME IInv, JudgeDown, UNCHANGED hung PROVE IInv'
<1>1. PICK rate \in Measured :
         /\ Measure(rate)
         /\ \/ GoOn("downBack") /\ UNCHANGED <<i, current_remote_ratio>>
            \/ /\ current_remote_ratio' = i
               /\ i' = i - ADAPTATION_STEP
               /\ LoopDown
  BY DEF JudgeDown, Recorded
<1>2. /\ exited = "no" /\ exited' = "no" /\ pc = "downRead"
      /\ i \in 0 .. 99 /\ placed = i /\ optimization_complete = FALSE
      /\ TypeOK
  BY DEF JudgeDown, MainAt, IInv, ClimbInv, PhaseInv, TypeOK
<1>3. /\ stall_rate' \in Measured /\ best_stall_rate' \in Measured \ {NaN}
      /\ placed' = placed /\ transient' = transient
  BY <1>1, <1>2, MeasureType
<1>4. CASE GoOn("downBack") /\ UNCHANGED <<i, current_remote_ratio>>
  <2>1. TypeOK'
    BY <1>2, <1>3, <1>4, FlagsKept DEF TypeOK, PCs, GoOn
  <2>2. ClimbInv' /\ PhaseInv'
    BY <1>2, <1>3, <1>4 DEF ClimbInv, PhaseInv, GoOn
  <2> QED BY <1>2, <2>1, <2>2 DEF IInv, ElseOnlyUnmeasured
<1>5. CASE /\ current_remote_ratio' = i /\ i' = i - ADAPTATION_STEP
           /\ LoopDown
  <2>1. /\ i' \in -10 .. 99 /\ placed' = i' + ADAPTATION_STEP
        /\ placed' = current_remote_ratio'
    BY <1>2, <1>3, <1>5 DEF ADAPTATION_STEP
  <2>2. Tracked'
    BY <2>1 DEF Tracked, EndedTransient, PastTheEnd
  <2>3. /\ pc' \in PCs /\ optimization_complete' \in BOOLEAN
        /\ ClimbInv' /\ PhaseInv'
    BY <1>2, <1>5, <2>1, <2>2, LoopDownInv
  <2>4. TypeOK'
    BY <1>2, <1>3, <1>5, <2>1, <2>3, FlagsKept DEF TypeOK
  <2> QED BY <1>2, <2>3, <2>4 DEF IInv, ElseOnlyUnmeasured
<1> QED BY <1>1, <1>4, <1>5

\* The program ends where it is.
LEMMA EndIInv == ASSUME IInv, CountersFail \/ Interrupt, UNCHANGED hung PROVE IInv'
<1>1. /\ exited' \in {"counters", "sigint"}
      /\ UNCHANGED <<pc, i, stall_rate, best_stall_rate,
                     optimization_complete, current_remote_ratio, placed, transient>>
  BY DEF CountersFail, Interrupt, rates, pages
<1> QED BY <1>1 DEF IInv, TypeOK, ElseOnlyUnmeasured

\* A poll that never returns leaves everything where it is.
LEMMA HangIInv == ASSUME IInv, get_percentile_latency PROVE IInv'
<1>1. /\ exited = "no" /\ exited' = "no" /\ hung' = TRUE /\ stall_rate' \in Measured
      /\ UNCHANGED <<pc, i, best_stall_rate, optimization_complete,
                     current_remote_ratio, placed, transient>>
  BY DEF get_percentile_latency, pages
<1>2. TypeOK'
  BY <1>1 DEF IInv, TypeOK
<1>3. ClimbInv' /\ PhaseInv'
  BY <1>1
  DEF IInv, ClimbInv, PhaseInv, Tracked, EndedTransient, PastTheEnd
<1> QED BY <1>1, <1>2, <1>3 DEF IInv, ElseOnlyUnmeasured

-----------------------------------------------------------------------------
(* The invariant and the properties.                                        *)

LEMMA InitIInv == Init => IInv
<1> SUFFICES ASSUME Init PROVE IInv
  OBVIOUS
<1>1. TypeOK
  <2>1. pc \in PCs /\ i \in -10 .. 110 /\ exited = "no"
    BY DEF Init, PCs
  <2>2. stall_rate \in Measured /\ best_stall_rate \in Measured \ {NaN}
    BY DEF Init, Measured, Inf, NaN
  <2>3. optimization_complete \in BOOLEAN
    BY DEF Init
  <2>4. current_remote_ratio \in -9 .. 109 /\ placed \in -9 .. 109
    BY RatiosAssumption DEF Init
  <2>5. transient \in BOOLEAN /\ hung \in BOOLEAN
    BY DEF Init
  <2> QED BY <2>1, <2>2, <2>3, <2>4, <2>5 DEF TypeOK
<1>2. ClimbInv /\ PhaseInv
  BY DEF Init, ClimbInv, PhaseInv, Tracked, EndedTransient, PastTheEnd
<1> QED BY <1>1, <1>2 DEF Init, IInv, ElseOnlyUnmeasured

LEMMA NextIInv == IInv /\ [Next]_vars => IInv'
<1> SUFFICES ASSUME IInv, [Next]_vars PROVE IInv'
  OBVIOUS
<1>1. CASE MainStep
  BY <1>1, disabled_controllerIInv, TryDownIInv, JudgeTryIInv, UndoIInv,
     StartUpIInv, StepUpIInv, JudgeUpIInv, ConfirmIInv, StepBackUpIInv,
     StartDownIInv, StepDownIInv, JudgeDownIInv, StepBackDownIInv, EndIInv
  DEF MainStep, Climbing
<1>2. CASE Interrupt
  BY <1>2, EndIInv DEF Interrupt
<1>4. CASE get_percentile_latency
  BY <1>4, HangIInv
<1>3. CASE UNCHANGED vars
  BY <1>3
  DEF vars, rates, pages, IInv, TypeOK, ElseOnlyUnmeasured, ClimbInv, PhaseInv, Tracked, EndedTransient, PastTheEnd
<1> QED BY <1>1, <1>2, <1>3, <1>4 DEF Next, Done

\* The inductive invariant holds in every reachable state.
THEOREM Invariance == Spec => []IInv
BY InitIInv, NextIInv, PTL DEF Spec

\* Every variable keeps its type; in particular no ratio runs more than one
\* step past either end.
THEOREM TypeCorrect == Spec => []TypeOK
<1>1. IInv => TypeOK
  BY DEF IInv
<1> QED BY <1>1, Invariance, PTL

\* Between two climbs the recorded ratio is that of the pages, unless the last
\* step of a climb was passed on a transient rate or its first was past the end.
THEOREM RatioIsTracked == Spec => []RatioTracked
<1>1. IInv => RatioTracked
  BY DEF IInv, ClimbInv, Tracked, RatioTracked
<1> QED BY <1>1, Invariance, PTL

\* disabled_controller ends the program only on a rate that is no number.
THEOREM ElseUnmeasured == Spec => []ElseOnlyUnmeasured
<1>1. IInv => ElseOnlyUnmeasured
  BY DEF IInv
<1> QED BY <1>1, Invariance, PTL

\* A step that moves pages.
LEMMA StepsThatMove ==
    ASSUME IInv, Next, placed' # placed
    PROVE  /\ exited = "no" /\ pc # "measure"
           /\ \/ placed' \in {placed - ADAPTATION_STEP, placed + ADAPTATION_STEP}
              \/ EndedTransient
<1>1. placed \in -9 .. 109
  BY DEF IInv, TypeOK
<1>2. CASE TryDown
  <2>1. /\ exited = "no" /\ pc = "try" /\ current_remote_ratio > 0 /\ Tracked
    BY <1>2 DEF TryDown, MainAt, IInv, ClimbInv
  <2>2. placed' = current_remote_ratio - ADAPTATION_STEP
    BY <1>2, Placement DEF TryDown
  <2> QED BY <1>1, <2>1, <2>2 DEF Tracked, EndedTransient, PastTheEnd, IInv, TypeOK
<1>3. CASE Undo
  <2>1. /\ exited = "no" /\ pc = "undo"
        /\ placed = current_remote_ratio - ADAPTATION_STEP
        /\ current_remote_ratio \in -9 .. 109
    BY <1>3 DEF Undo, MainAt, IInv, ClimbInv, TypeOK
  <2>2. placed' = current_remote_ratio
    BY <1>3, Placement DEF Undo
  <2> QED BY <2>1, <2>2 DEF ADAPTATION_STEP
<1>4. CASE StepUp
  <2>1. /\ exited = "no" /\ pc = "upPlace" /\ i \in 1 .. 100
        /\ placed \in {i, i - ADAPTATION_STEP} \/ EndedTransient
    BY <1>4 DEF StepUp, MainAt, IInv, ClimbInv
  <2>2. placed' = i
    BY <1>4, Placement DEF StepUp
  <2> QED BY <1>1, <2>1, <2>2 DEF ADAPTATION_STEP
<1>5. CASE StepDown
  <2>1. /\ exited = "no" /\ pc = "downPlace" /\ i \in 0 .. 99
        /\ placed \in {i, i + ADAPTATION_STEP} \/ EndedTransient
    BY <1>5 DEF StepDown, MainAt, IInv, ClimbInv
  <2>2. placed' = i
    BY <1>5, Placement DEF StepDown
  <2> QED BY <1>1, <2>1, <2>2 DEF ADAPTATION_STEP
<1>6. CASE StepBackUp
  <2>1. exited = "no" /\ pc = "upBack" /\ placed = i
    BY <1>6 DEF StepBackUp, MainAt, IInv, ClimbInv
  <2>2. placed' = i - ADAPTATION_STEP
    BY <1>6, <2>1, Placement DEF StepBackUp
  <2> QED BY <2>1, <2>2
<1>7. CASE StepBackDown
  <2>1. exited = "no" /\ pc = "downBack" /\ placed = i
    BY <1>7 DEF StepBackDown, MainAt, IInv, ClimbInv
  <2>2. placed' = i + ADAPTATION_STEP
    BY <1>7, <2>1, Placement DEF StepBackDown
  <2> QED BY <2>1, <2>2
<1>8. CASE \/ disabled_controller \/ JudgeTry \/ StartUp \/ JudgeUp \/ Confirm
           \/ StartDown \/ JudgeDown \/ CountersFail \/ get_percentile_latency
           \/ Interrupt \/ Done
  <2>1. placed' = placed
    BY <1>8
    DEF disabled_controller, JudgeTry, StartUp, JudgeUp, Confirm, StartDown, JudgeDown,
        Measure, CountersFail, get_percentile_latency, Interrupt, Done, vars, pages
  <2> QED BY <2>1
<1> QED
  BY <1>2, <1>3, <1>4, <1>5, <1>6, <1>7, <1>8 DEF Next, MainStep, Climbing

\* Pages move by one step, except from where a climb ended on a transient rate.
THEOREM Jumps == Spec => JumpsFromTheEndOnly
<1> DEFINE Step == placed' # placed
                   => \/ placed' \in {placed - ADAPTATION_STEP, placed + ADAPTATION_STEP}
                      \/ EndedTransient
<1>1. IInv /\ [Next]_vars => [Step]_vars
  BY StepsThatMove
<1> QED BY <1>1, Invariance, PTL DEF Spec, JumpsFromTheEndOnly, Step

\* Pages do not move once a climb is complete.
THEOREM Stable == Spec => OptimizedIsStable
<1> DEFINE Step == placed' # placed => ~optimization_complete
<1>1. IInv /\ [Next]_vars => [Step]_vars
  <2>1. ASSUME IInv, Next, placed' # placed PROVE ~optimization_complete
    BY <2>1, StepsThatMove DEF IInv, PhaseInv
  <2> QED BY <2>1
<1> QED BY <1>1, Invariance, PTL DEF Spec, OptimizedIsStable, Step

-----------------------------------------------------------------------------
(* The length of a climb.                                                   *)

\* What is left of a climb is a natural number.
LEMMA LeftType == IInv /\ exited = "no" => Left \in 0 .. 403
<1> SUFFICES ASSUME IInv, exited = "no" PROVE Left \in 0 .. 403
  OBVIOUS
<1>1. /\ pc \in {"upPlace", "upRead", "confirm", "upBack"} => i \in 1 .. 100
      /\ pc \in {"downPlace", "downRead", "downBack"} => i \in 0 .. 99
  BY DEF IInv, ClimbInv
<1>2. pc \in PCs
  BY DEF IInv, TypeOK
<1> QED
  BY <1>1, <1>2 DEF Left, AheadUp, AheadDown, PCs

\* The first ratio of a climb leaves less than 400 steps.
LEMMA UpTo100 == \A n \in 1 .. 100 : 4 * (100 - n) + 3 < 400
OBVIOUS

\* So does that of a climb back to the worker.
LEMMA DownFrom99 == \A n \in 0 .. 99 : 4 * n + 3 < 400
OBVIOUS

\* The steps before the loops: the attempt of check_opt_direction and the first
\* ratio.
LEMMA EnterShrinks ==
    ASSUME IInv, IInv', TryDown \/ JudgeTry \/ Undo \/ StartUp \/ StartDown,
           pc' \notin {pc, "measure"}
    PROVE  Left' < Left
<1>1. exited = "no" /\ i \in Int
  BY DEF TryDown, JudgeTry, Undo, StartUp, StartDown, MainAt, IInv, TypeOK
<1>2. CASE TryDown
  BY <1>2 DEF TryDown, MainAt, place_all_pages, Left
<1>3. CASE JudgeTry
  BY <1>3 DEF JudgeTry, MainAt, GoOn, Left
<1>4. CASE Undo
  BY <1>4 DEF Undo, MainAt, place_all_pages, Left
<1>5. CASE StartUp
  <2>1. pc = "up" /\ pc' = "upPlace" /\ exited' = "no"
    BY <1>5 DEF StartUp, MainAt, LoopUp, GoOn, EndIteration
  <2>2. i' \in 1 .. 100
    BY <2>1 DEF IInv, ClimbInv
  <2>3. Left = 400 /\ Left' = 4 * (100 - i') + 3
    BY <2>1 DEF Left, AheadUp
  <2> QED
    BY <2>2, <2>3, UpTo100
<1>6. CASE StartDown
  <2>1. pc = "down" /\ pc' = "downPlace" /\ exited' = "no"
    BY <1>6 DEF StartDown, MainAt, LoopDown, GoOn, EndIteration
  <2>2. i' \in 0 .. 99
    BY <2>1 DEF IInv, ClimbInv
  <2>3. Left = 400 /\ Left' = 4 * i' + 3
    BY <2>1 DEF Left, AheadDown
  <2> QED
    BY <2>2, <2>3, DownFrom99
<1> QED
  BY <1>2, <1>3, <1>4, <1>5, <1>6

\* The loop over ratios up to 100.
LEMMA UpShrinks ==
    ASSUME IInv, StepUp \/ JudgeUp \/ Confirm \/ StepBackUp,
           pc' \notin {pc, "measure"}
    PROVE  Left' < Left
<1>1. i \in Int
  BY DEF IInv, TypeOK
<1>2. CASE StepUp
  BY <1>1, <1>2 DEF StepUp, MainAt, place_all_pages, Left, AheadUp
<1>3. CASE JudgeUp
  <2>1. pc = "upRead"
    BY <1>3 DEF JudgeUp, MainAt
  <2>2. \/ pc' \in {"confirm", "upBack"} /\ i' = i
        \/ pc' = "upPlace" /\ i' = i + 10
    BY <1>3 DEF JudgeUp, LoopUp, GoOn, EndIteration, ADAPTATION_STEP
  <2> QED
    BY <1>1, <2>1, <2>2 DEF Left, AheadUp
<1>4. CASE Confirm
  <2>1. pc = "confirm"
    BY <1>4 DEF Confirm, MainAt
  <2>2. \/ pc' = "upBack" /\ i' = i
        \/ pc' = "upPlace" /\ i' = i + 10
    BY <1>4 DEF Confirm, LoopUp, GoOn, EndIteration, ADAPTATION_STEP
  <2> QED
    BY <1>1, <2>1, <2>2 DEF Left, AheadUp
<1>5. CASE StepBackUp
  BY <1>5 DEF StepBackUp, MainAt, place_all_pages
<1> QED
  BY <1>2, <1>3, <1>4, <1>5

\* The loop over ratios down to 0.
LEMMA DownShrinks ==
    ASSUME IInv, StepDown \/ JudgeDown \/ StepBackDown,
           pc' \notin {pc, "measure"}
    PROVE  Left' < Left
<1>1. i \in Int
  BY DEF IInv, TypeOK
<1>2. CASE StepDown
  BY <1>1, <1>2 DEF StepDown, MainAt, place_all_pages, Left, AheadDown
<1>3. CASE JudgeDown
  <2>1. pc = "downRead"
    BY <1>3 DEF JudgeDown, MainAt
  <2>2. \/ pc' = "downBack" /\ i' = i
        \/ pc' = "downPlace" /\ i' = i - 10
    BY <1>3 DEF JudgeDown, LoopDown, GoOn, EndIteration, ADAPTATION_STEP
  <2> QED
    BY <1>1, <2>1, <2>2 DEF Left, AheadDown
<1>4. CASE StepBackDown
  BY <1>4 DEF StepBackDown, MainAt, place_all_pages
<1> QED
  BY <1>2, <1>3, <1>4

\* Every step of a climb brings what is left of it down, and that is a natural
\* number: no sequence of rates makes a climb longer than 403 steps.
THEOREM ClimbBounded ==
    Spec => ClimbShrinks /\ [](exited = "no" => Left \in 0 .. 403)
<1>1. IInv /\ IInv' /\ [Next]_vars =>
        [pc # "measure" /\ pc' \notin {pc, "measure"} => Left' < Left]_vars
  <2> SUFFICES ASSUME IInv, IInv', Next, pc # "measure", pc' \notin {pc, "measure"}
               PROVE  Left' < Left
    OBVIOUS
  <2>1. /\ ~disabled_controller /\ ~CountersFail /\ ~get_percentile_latency
        /\ ~Interrupt /\ ~Done
    BY DEF disabled_controller, MainAt, CountersFail, get_percentile_latency, Interrupt,
       Done, vars
  <2> QED
    BY <2>1, EnterShrinks, UpShrinks, DownShrinks DEF Next, MainStep, Climbing
<1>2. IInv => (exited = "no" => Left \in 0 .. 403)
  BY LeftType
<1> QED
  BY <1>1, <1>2, Invariance, PTL DEF Spec, ClimbShrinks
=============================================================================
