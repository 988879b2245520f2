---------------------------- MODULE HillClimbing ----------------------------
(****************************************************************************)
(* disabled_controller (Utilities.cpp) and the climbs it calls: page        *)
(* migration driven by the stall rate of the best-effort application alone. *)
(* No mode of the present program calls it.                                 *)
(*                                                                          *)
(* Each iteration measures the stall rate.  The first one, and every one    *)
(* that sees a phase change, climbs: it moves pages ten per cent at a time, *)
(* away from the worker (apply_pagemigration_lr_dc) or back to it           *)
(* (apply_pagemigration_rl_be), until the rate is worse than the best one   *)
(* seen in the phase, and takes the last step back.                         *)
(*                                                                          *)
(* A rate is a natural number, Inf or NaN: the average is a quotient of two *)
(* differences of counters.  The best rate is Inf at the start of a phase   *)
(* and never NaN, and never above a rate measured since.                    *)
(*                                                                          *)
(* The head of each iteration and each step of a climb also polls the       *)
(* latency (get_percentile_latency), on the main thread and without a       *)
(* timeout; the result is only logged, but the poll may never come back.    *)
(****************************************************************************)
EXTENDS Integers

CONSTANTS
    Rates,          \* the finite stall rates
    delta_be,       \* operation region of the best-effort application (-b)
    phase_change,   \* a rate so much above the best starts a new phase
    InitRatios,     \* the remote ratios (-r) the program may be started with
    CounterFaults,  \* may likwid fail to stop or start the counters?
    MoveFaults      \* may place_all_pages fail, in the weights or the kernel?

ADAPTATION_STEP == 10
Inf == -1
NaN == -2

ASSUME RatesAssumption  == /\ Rates \subseteq Nat
                           /\ delta_be \in Nat
                           /\ phase_change \in Nat
ASSUME RatiosAssumption == InitRatios \subseteq 0 .. 100
ASSUME FaultsAssumption == {CounterFaults, MoveFaults} \subseteq BOOLEAN

VARIABLES
    pc,                     \* where the main thread is
    i,                      \* the loop variable of the climb
    stall_rate,             \* the rate last measured
    best_stall_rate,        \* the best rate of this phase
    optimization_complete,
    current_remote_ratio,   \* the ratio the program believes in
    placed,                 \* the ratio the pages were last placed with
    transient,              \* history: did a climb go on from there because the
                            \* rate that was worse turned out transient?
    hung,                   \* is the main thread in a poll that never returns?
    exited                  \* how the process ended, or "no"

rates == <<stall_rate, best_stall_rate>>
pages == <<placed, transient>>
vars == <<pc, i, rates, optimization_complete, current_remote_ratio, pages, hung,
          exited>>

PCs == {"measure", "try", "tried", "undo",
        "up", "upPlace", "upRead", "confirm", "upBack",
        "down", "downPlace", "downRead", "downBack"}

Init == /\ pc = "measure"
        /\ i = 0
        /\ stall_rate = Inf
        /\ best_stall_rate = Inf
        /\ optimization_complete = FALSE
        /\ current_remote_ratio \in InitRatios
        /\ placed = current_remote_ratio
        /\ transient = FALSE
        /\ hung = FALSE
        /\ exited = "no"

-----------------------------------------------------------------------------
(* Rates and differences of rates.                                          *)

Measured == Rates \cup {Inf, NaN}

\* std::min(best, rate): a comparison with NaN is false.
Better(rate, best) == IF rate \in {Inf, NaN} THEN best
                      ELSE IF best = Inf \/ rate < best THEN rate ELSE best

\* rate - best > d
Above(rate, best, d) == /\ rate # NaN /\ best # Inf
                        /\ rate = Inf \/ rate - best > d

\* rate - best == 0
Equals(rate, best) == rate = best /\ rate \in Rates

\* rate - best < d, of a rate that is not below the best
Within(rate, best, d) == rate \in Rates /\ best # Inf /\ rate - best < d

\* abs(diff) > phase_change, and not infinite
PhaseChange(rate, best) == rate # Inf /\ Above(rate, best, phase_change)

-----------------------------------------------------------------------------
(* What ends the program, and the effects of the main thread.               *)

MeasurePCs == {"measure", "tried", "upRead", "confirm", "downRead"}

MainAt(p) == exited = "no" /\ pc = p

\* get_average_stall_rate calls exit(-1) when the counters fail.
CountersFail == /\ CounterFaults
                /\ exited = "no"
                /\ pc \in MeasurePCs
                /\ exited' = "counters"
                /\ UNCHANGED <<pc, i, rates, optimization_complete,
                               current_remote_ratio, pages>>

\* The poll at the head of an iteration or in a step of a climb blocks for good, in
\* connect or in read.  It comes after the measurement of the stall rate.
PollPCs == {"measure", "upRead", "downRead"}

get_percentile_latency ==
    /\ exited = "no"
    /\ ~hung
    /\ pc \in PollPCs
    /\ hung' = TRUE
    /\ stall_rate' \in Measured
    /\ UNCHANGED <<pc, i, best_stall_rate, optimization_complete,
                   current_remote_ratio, pages, exited>>

\* A failure, in the weights or in the kernel, ends the program.
place_all_pages(r, next) ==
    /\ \/ placed' = r /\ pc' = next /\ UNCHANGED exited
       \/ /\ MoveFaults
          /\ placed' \in {placed, r}
          /\ exited' = "moves"
          /\ UNCHANGED pc
    /\ transient' = FALSE
    /\ UNCHANGED <<i, rates>>

\* The measurement of a loop.
Measure(rate) == /\ stall_rate' = rate
                 /\ best_stall_rate' = Better(rate, best_stall_rate)
                 /\ UNCHANGED pages

\* (mutant: a step that paid is not recorded)
Unrecorded == UNCHANGED current_remote_ratio

\* A step that paid is recorded.
Recorded == current_remote_ratio' = i

\* (mutant: the loop forgets that it has optimized)
ForgetfulEnd == pc' = "measure" /\ UNCHANGED optimization_complete

\* The end of an iteration of disabled_controller.
EndIteration == pc' = "measure" /\ optimization_complete' = TRUE

GoOn(next) == pc' = next /\ UNCHANGED optimization_complete

-----------------------------------------------------------------------------
(* disabled_controller and check_opt_direction                              *)

\* check_opt_direction tries one step back to the worker, if there is one.
Direction == IF current_remote_ratio > 0 THEN "try" ELSE "up"

\* The branches on a difference that is not negative: those for a gain come
\* down to equality.  A difference of exactly delta_be, or one that is no
\* number, meets no branch, and the program ends.
Climb(rate, best) ==
    IF Equals(rate, best) THEN "up"
    ELSE IF Above(rate, best, delta_be) THEN "down"
    ELSE IF Within(rate, best, delta_be) THEN "measure" ELSE "else"

FirstClimb(next) ==
    IF next = "else"
    THEN exited' = "else" /\ UNCHANGED <<pc, optimization_complete>>
    ELSE /\ pc' = next
         /\ optimization_complete' = (next = "measure")
         /\ UNCHANGED exited

\* (mutant: the loop still believes that it has optimized)
NewPhaseUnnoticed == /\ best_stall_rate' = Inf
                     /\ GoOn(Direction)

NewPhase == /\ best_stall_rate' = Inf
            /\ optimization_complete' = FALSE
            /\ pc' = Direction

\* A phase change resets the best rate and climbs again.
disabled_controller ==
    /\ MainAt("measure")
    /\ \E rate \in Measured :
         LET best == Better(rate, best_stall_rate) IN
         /\ stall_rate' = rate
         /\ IF PhaseChange(rate, best)
            THEN NewPhase /\ UNCHANGED exited
            ELSE /\ best_stall_rate' = best
                 /\ IF optimization_complete
                    THEN EndIteration /\ UNCHANGED exited
                    ELSE FirstClimb(Climb(rate, best))
    /\ UNCHANGED <<i, current_remote_ratio, pages>>

TryDown == /\ MainAt("try")
           /\ place_all_pages(current_remote_ratio - ADAPTATION_STEP, "tried")
           /\ UNCHANGED <<current_remote_ratio, optimization_complete>>

\* The rate of the attempt is kept in a local: only the direction remembers it.
JudgeTry == /\ MainAt("tried")
            /\ \E rate \in Measured :
                 IF rate \in Rates /\ rate < stall_rate
                 THEN /\ current_remote_ratio' = current_remote_ratio - ADAPTATION_STEP
                      /\ GoOn("down")
                 ELSE /\ UNCHANGED current_remote_ratio
                      /\ GoOn("undo")
            /\ UNCHANGED <<i, rates, pages, exited>>

Undo == /\ MainAt("undo")
        /\ place_all_pages(current_remote_ratio, "up")
        /\ UNCHANGED <<current_remote_ratio, optimization_complete>>

-----------------------------------------------------------------------------
(* apply_pagemigration_lr_dc                                                *)

\* The head of the loop over ratios up to 100.
LoopUp == IF i' <= 100 THEN GoOn("upPlace") ELSE EndIteration

StartUp == /\ MainAt("up")
           /\ current_remote_ratio' = IF current_remote_ratio < 100
                                      THEN current_remote_ratio + ADAPTATION_STEP
                                      ELSE current_remote_ratio
           /\ i' = current_remote_ratio'
           /\ LoopUp
           /\ UNCHANGED <<rates, pages, exited>>

\* The loop tests i != 0 before it places, and before a step back: i is not 0.
StepUp == /\ MainAt("upPlace")
          /\ i # 0
          /\ place_all_pages(i, "upRead")
          /\ UNCHANGED <<current_remote_ratio, optimization_complete>>

\* A rate that is worse, or no number, is confirmed before the climb stops; one
\* that is little worse stops it; the best so far, or one worse by exactly
\* delta_be, goes on.
JudgeUp ==
    /\ MainAt("upRead")
    /\ \E rate \in Measured :
         LET best == best_stall_rate' IN
         /\ Measure(rate)
         /\ \/ /\ Above(rate, best, delta_be) \/ rate = NaN
               /\ GoOn("confirm")
               /\ UNCHANGED <<i, current_remote_ratio>>
            \/ /\ ~Equals(rate, best) /\ Within(rate, best, delta_be)
               /\ GoOn("upBack")
               /\ UNCHANGED <<i, current_remote_ratio>>
            \/ /\ rate # NaN /\ ~Above(rate, best, delta_be)
               /\ Equals(rate, best) \/ ~Within(rate, best, delta_be)
               /\ Recorded
               /\ i' = i + ADAPTATION_STEP
               /\ LoopUp
    /\ UNCHANGED exited

\* (mutant: a transient is measured again at the same ratio)
ConfirmAgain == /\ MainAt("confirm")
                /\ \E rate \in Measured :
                     IF Above(rate, best_stall_rate, delta_be) \/ rate = NaN
                     THEN GoOn("upBack") ELSE GoOn("upPlace")
                /\ UNCHANGED <<i, rates, current_remote_ratio, pages, exited>>

\* A rate that was transient lets the climb go on without a record of its ratio.
Confirm == /\ MainAt("confirm")
           /\ \E rate \in Measured :
                IF Above(rate, best_stall_rate, delta_be) \/ rate = NaN
                THEN GoOn("upBack") /\ UNCHANGED <<i, transient>>
                ELSE i' = i + ADAPTATION_STEP /\ LoopUp /\ transient' = TRUE
           /\ UNCHANGED <<rates, current_remote_ratio, placed, exited>>

\* The step that did not pay is taken back.
StepBackUp ==
    /\ MainAt("upBack")
    /\ place_all_pages(i - ADAPTATION_STEP, "measure")
    /\ IF exited' = "no"
       THEN /\ current_remote_ratio' = i - ADAPTATION_STEP
            /\ optimization_complete' = TRUE
       ELSE UNCHANGED <<current_remote_ratio, optimization_complete>>

-----------------------------------------------------------------------------
(* apply_pagemigration_rl_be                                                *)

\* (mutant: the first ratio is one step too far)
TwoStepsDown == 2 * ADAPTATION_STEP

FirstStepDown == ADAPTATION_STEP

\* The head of the loop over ratios down to 0.
LoopDown == IF i' >= 0 THEN GoOn("downPlace") ELSE EndIteration

\* (mutant: a ratio of 0 is not spared)
StartDownBelow ==
    /\ MainAt("down")
    /\ current_remote_ratio' = current_remote_ratio - FirstStepDown
    /\ i' = current_remote_ratio'
    /\ LoopDown
    /\ UNCHANGED <<rates, pages, exited>>

StartDown == /\ MainAt("down")
             /\ current_remote_ratio' = IF current_remote_ratio > 0
                                        THEN current_remote_ratio - FirstStepDown
                                        ELSE current_remote_ratio
             /\ i' = current_remote_ratio'
             /\ LoopDown
             /\ UNCHANGED <<rates, pages, exited>>

StepDown == /\ MainAt("downPlace")
            /\ place_all_pages(i, "downRead")
            /\ UNCHANGED <<current_remote_ratio, optimization_complete>>

JudgeDown ==
    /\ MainAt("downRead")
    /\ \E rate \in Measured :
         /\ Measure(rate)
         /\ IF Above(rate, best_stall_rate', delta_be)
            THEN GoOn("downBack") /\ UNCHANGED <<i, current_remote_ratio>>
            ELSE /\ Recorded
                 /\ i' = i - ADAPTATION_STEP
                 /\ LoopDown
    /\ UNCHANGED exited

\* The step that did not pay is taken back.  (i is not 100: the code tests it.)
StepBackDown ==
    /\ MainAt("downBack")
    /\ i # 100
    /\ place_all_pages(i + ADAPTATION_STEP, "measure")
    /\ IF exited' = "no"
       THEN /\ current_remote_ratio' = i + ADAPTATION_STEP
            /\ optimization_complete' = TRUE
       ELSE UNCHANGED <<current_remote_ratio, optimization_complete>>

-----------------------------------------------------------------------------
(* SIGINT and the specification.                                            *)

Interrupt == /\ exited = "no"
             /\ exited' = "sigint"
             /\ UNCHANGED <<pc, i, rates, optimization_complete,
                            current_remote_ratio, pages, hung>>

Done == exited # "no" /\ UNCHANGED vars

Climbing == \/ disabled_controller \/ TryDown \/ JudgeTry \/ Undo
            \/ StartUp \/ StepUp \/ JudgeUp \/ Confirm \/ StepBackUp
            \/ StartDown \/ StepDown \/ JudgeDown \/ StepBackDown
            \/ CountersFail

MainStep == ~hung /\ Climbing /\ UNCHANGED hung

Next == MainStep \/ get_percentile_latency \/ Interrupt \/ Done

Spec == Init /\ [][Next]_vars

\* The main thread waits for nobody but the server it polls: while no poll hangs it
\* keeps running.
FairSpec == Spec /\ WF_vars(MainStep)

-----------------------------------------------------------------------------
(* What the climbs promise.                                                 *)

\* The type of every variable.  The recorded ratio may run one step past
\* either end: from a start ratio that is no multiple of ten.
TypeOK == /\ pc \in PCs
          /\ i \in -10 .. 110
          /\ stall_rate \in Measured
          /\ best_stall_rate \in Measured \ {NaN}
          /\ optimization_complete \in BOOLEAN
          /\ current_remote_ratio \in -9 .. 109
          /\ placed \in -9 .. 109
          /\ transient \in BOOLEAN
          /\ hung \in BOOLEAN
          /\ exited \in {"no", "counters", "moves", "else", "sigint"}

\* The record is one step past either end, where no page goes.
PastTheEnd == \/ /\ current_remote_ratio > 100
                 /\ placed = current_remote_ratio - ADAPTATION_STEP
              \/ /\ current_remote_ratio < 0
                 /\ placed = current_remote_ratio + ADAPTATION_STEP

\* The last step of the climb was passed on a rate that was transient.
EndedTransient == transient /\ placed > 100 - ADAPTATION_STEP

\* Between two climbs the recorded ratio is the ratio of the pages, whichever way
\* the climbs ended.  There are two exceptions: a climb whose last step, and not
\* just any, was passed on a transient rate, which is not recorded; and a first
\* step past 0 or 100, which is recorded and not made (Utilities.cpp,
\* disabled_controller, check_opt_direction, apply_pagemigration_lr_dc,
\* apply_pagemigration_rl_be).
RatioTracked ==
    exited = "no" /\ pc = "measure"
    => placed = current_remote_ratio \/ EndedTransient \/ PastTheEnd

\* The program never falls through the branches of disabled_controller over a
\* rate that is a number, not even one exactly delta_be above the best: they
\* are only reached in the first iteration (Utilities.cpp, disabled_controller,
\* "Something else happened").
ElseOnlyUnmeasured == exited = "else" => stall_rate \in {Inf, NaN}

\* Pages move by ADAPTATION_STEP in either direction, through every climb, its
\* step back, and the attempts of check_opt_direction.  The exception is a
\* climb that starts after one whose last step was passed on a transient rate: it
\* jumps to where the recorded ratio stayed behind (Utilities.cpp,
\* check_opt_direction, apply_pagemigration_lr_dc, apply_pagemigration_rl_be).
JumpsFromTheEndOnly ==
    [][placed' # placed
       => \/ placed' \in {placed - ADAPTATION_STEP, placed + ADAPTATION_STEP}
          \/ EndedTransient]_vars

\* Once a climb is complete, no page moves until a phase change is seen: an
\* iteration that measures a rate near the best one leaves the pages alone
\* (Utilities.cpp, disabled_controller).
OptimizedIsStable == [][placed' # placed => ~optimization_complete]_vars

\* Every climb ends, unless a poll inside it never returns (Utilities.cpp, the loops
\* over ratios).
ClimbEnds == pc # "measure" ~> pc = "measure" \/ exited # "no" \/ hung

\* What is left of a climb: four steps for each ratio still ahead.
AheadUp   == 4 * (100 - i)
AheadDown == 4 * i
Left == [measure |-> 0, try |-> 403, tried |-> 402, undo |-> 401,
         up |-> 400, upPlace |-> AheadUp + 3, upRead |-> AheadUp + 2,
         confirm |-> AheadUp + 1, upBack |-> AheadUp,
         down |-> 400, downPlace |-> AheadDown + 3, downRead |-> AheadDown + 2,
         downBack |-> AheadDown + 1][pc]

\* Every step of a climb brings it nearer to its end, whatever the rates: a
\* rate that is confirmed, transient or no number never sends it back to a
\* point it has passed at the same ratio (Utilities.cpp, check_opt_direction,
\* apply_pagemigration_lr_dc, apply_pagemigration_rl_be).
ClimbShrinks ==
    [][pc # "measure" /\ pc' \notin {pc, "measure"} => Left' < Left]_vars

-----------------------------------------------------------------------------
(* The inductive invariant behind the safety properties.                    *)

\* Between two climbs, and at the start of one.
Tracked == placed = current_remote_ratio \/ EndedTransient \/ PastTheEnd

\* Within a climb the loop variable is one step ahead of the pages.
ClimbInv ==
    /\ pc \in {"measure", "up", "down"} => Tracked
    /\ pc \in {"try", "tried", "undo"} => current_remote_ratio > 0
    /\ pc = "try" => Tracked
    /\ pc \in {"tried", "undo"} => placed = current_remote_ratio - ADAPTATION_STEP
    /\ pc = "upPlace" => /\ i \in 1 .. 100
                         /\ placed \in {i, i - ADAPTATION_STEP} \/ EndedTransient
    /\ pc \in {"upRead", "confirm", "upBack"} => i \in 1 .. 100 /\ placed = i
    /\ pc = "downPlace" => /\ i \in 0 .. 99
                           /\ placed \in {i, i + ADAPTATION_STEP} \/ EndedTransient
    /\ pc \in {"downRead", "downBack"} => i \in 0 .. 99 /\ placed = i

\* Only the first iteration and the climbs run with optimization_complete FALSE.
PhaseInv ==
    /\ pc # "measure" => ~optimization_complete
    /\ pc = "measure" /\ ~optimization_complete => best_stall_rate = Inf

IInv == /\ TypeOK
        /\ ElseOnlyUnmeasured
        /\ exited = "no" => ClimbInv /\ PhaseInv
=============================================================================
