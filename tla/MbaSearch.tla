------------------------------ MODULE MbaSearch ------------------------------
(****************************************************************************)
(* The mba_only mode of BwManager (Utilities.cpp): when the latency of      *)
(* memcached violates its target, search_optimal_mba throttles the          *)
(* best-effort application to 40 and halves from there, reading the last    *)
(* sample after each level, until the target is met.                        *)
(*                                                                          *)
(* Each step first measures stall rates through likwid.  main has lost its  *)
(* call of initialize_likwid: in the present build the first measurement    *)
(* ends the program.  The search is modelled with likwid initialized too.   *)
(*                                                                          *)
(* The load of memcached is the highest level of the best-effort            *)
(* application under which it meets its target (0: under none).             *)
(****************************************************************************)
EXTENDS Integers

CONSTANTS
    Loads,          \* the loads memcached may see
    LoadChanges,    \* may the load change while the program runs?
    InitRatios,     \* the remote ratios (-r) the program may be started with
    LikwidStates,   \* is likwid initialized?  {FALSE} in the present build
    CounterFaults,  \* may likwid fail to stop or start the counters?
    MbaFaults       \* may pqos_mba_set fail?

ASSUME LoadsAssumption  == Loads \subseteq 0 .. 100
ASSUME RatiosAssumption == InitRatios \subseteq Nat
ASSUME FaultsAssumption == /\ LikwidStates \subseteq BOOLEAN
                           /\ {LoadChanges, CounterFaults, MbaFaults} \subseteq BOOLEAN

\* A latency of 0, one in the operation region of the target, one above it.
Latencies == {"zero", "met", "missed"}

VARIABLES
    load,                  \* the present load
    sample,                \* back() of percentile_samples
    likwid,                \* is likwid initialized?
    current_remote_ratio,  \* mba_only never changes it
    pc,                    \* where the main thread is
    i, previous_mba,       \* the locals of search_optimal_mba
    optimal_mba,           \* the level the program believes in
    current_latency,       \* the latency last read
    mba,                   \* the level of the hardware
    exited                 \* how the process ended, or "no"

config == <<likwid, current_remote_ratio>>
search == <<i, previous_mba, optimal_mba>>
vars == <<load, sample, config, pc, search, current_latency, mba, exited>>

PCs       == {"measure", "read", "loop", "judge", "revert"}
SearchPCs == {"loop", "judge", "revert"}
Ladder    == {40, 20, 10}    \* the levels the search can try

Init == /\ load \in Loads
        /\ sample = "zero"
        /\ likwid \in LikwidStates
        /\ current_remote_ratio \in InitRatios
        /\ pc = "measure"
        /\ i = 40
        /\ previous_mba = 40
        /\ optimal_mba = 100
        /\ current_latency = "zero"
        /\ mba = 100
        /\ exited = "no"

-----------------------------------------------------------------------------
(* The load and the measurement thread.                                     *)

ChangeLoad == /\ LoadChanges
              /\ exited = "no"
              /\ load' \in Loads
              /\ UNCHANGED <<sample, config, pc, search, current_latency, mba,
                             exited>>

Reply == IF mba <= load THEN "met" ELSE "missed"

\* A poll that fails reports 0.
measurement_collector ==
    /\ exited = "no"
    /\ sample' \in {"zero", Reply}
    /\ UNCHANGED <<load, config, pc, search, current_latency, mba, exited>>

-----------------------------------------------------------------------------
(* The steps of the main thread.                                            *)

MainAt(p) == /\ exited = "no"
             /\ pc = p
             /\ UNCHANGED <<load, sample, config>>

\* get_average_stall_rate stops and starts the counters of likwid, and calls
\* exit(-1), past all handlers, when that fails.
CountersFail == exited' = "exit" /\ UNCHANGED <<pc, search, current_latency, mba>>
CountersMayFail == ~likwid \/ CounterFaults

\* apply_mba exits the program when the library fails.
apply_mba(level, next) ==
    \/ mba' = level /\ pc' = next /\ UNCHANGED exited
    \/ MbaFaults /\ exited' = "exit" /\ UNCHANGED <<pc, mba>>

Measure == /\ MainAt("measure")
           /\ \/ likwid /\ pc' = "read"
                 /\ UNCHANGED <<search, current_latency, mba, exited>>
              \/ CountersMayFail /\ CountersFail

\* One iteration of mba_only; the call of search_optimal_mba sets its locals.
mba_only == /\ MainAt("read")
            /\ current_latency' = sample
            /\ IF current_latency' = "missed" /\ current_remote_ratio # 0
               THEN pc' = "loop" /\ i' = 40 /\ previous_mba' = 40
               ELSE pc' = "measure" /\ UNCHANGED <<i, previous_mba>>
            /\ UNCHANGED <<optimal_mba, mba, exited>>

-----------------------------------------------------------------------------
(* search_optimal_mba                                                       *)

\* (mutants: the ladder goes down by ten; it repeats its last level; it skips 10)
TenDown(level, progress)   == level - 10
NeverOut(level, progress)  == IF level = 40 THEN 20 ELSE 10
ShortLadder(level, progress) == IF level = 40 THEN 20 ELSE 0

\* The next level, given the sign of (latency - target).  The search asks only
\* when the target is missed, so only with a positive one.
mba_binary_search(level, progress) ==
    CASE progress > 0 /\ level = 40 -> 20
      [] progress > 0 /\ level = 20 -> 10
      [] progress > 0 /\ level = 60 -> 50
      [] progress < 0 /\ level = 40 -> 60
      [] progress < 0 /\ level = 20 -> 30
      [] progress < 0 /\ level = 60 -> 90
      [] OTHER -> 0

\* (mutant: the level 0 is recorded)
GiveUpAtZero == /\ MainAt("loop")
                /\ i = 0
                /\ pc' = "measure"
                /\ UNCHANGED <<search, current_latency, mba, exited>>

GiveUp == /\ MainAt("loop")
          /\ i = 0
          /\ optimal_mba' = previous_mba
          /\ pc' = "measure"
          /\ UNCHANGED <<i, previous_mba, current_latency, mba, exited>>

Probe == /\ MainAt("loop")
         /\ i # 0
         /\ apply_mba(i, "judge")
         /\ UNCHANGED <<search, current_latency>>

\* What follows each probe.  The test i != 10 || i != 30 || ... of the loop is
\* always true.
ReadLatency(class) == /\ MainAt("judge")
                      /\ sample = class
                      /\ current_latency' = class
                      /\ UNCHANGED <<mba, exited>>

\* Reverts to optimal_mba: from the second level on that is the one being tried.
JudgeZero == /\ ReadLatency("zero")
             /\ pc' = "revert"
             /\ UNCHANGED search

JudgeMet == /\ ReadLatency("met")
            /\ pc' = "measure"
            /\ optimal_mba' = i
            /\ UNCHANGED <<i, previous_mba>>

JudgeMissed == /\ ReadLatency("missed")
               /\ pc' = "loop"
               /\ previous_mba' = i
               /\ i' = mba_binary_search(i, 1)
               /\ optimal_mba' = i'

ProbeFails == MainAt("judge") /\ CountersMayFail /\ CountersFail

\* (mutant: the revert goes to the start value 100)
RevertFully == /\ MainAt("revert")
               /\ apply_mba(100, "measure")
               /\ UNCHANGED <<search, current_latency>>

Revert == /\ MainAt("revert")
          /\ apply_mba(optimal_mba, "measure")
          /\ UNCHANGED <<search, current_latency>>

-----------------------------------------------------------------------------

\* SIGINT may hit any step; its clean-up resets the level.
Interrupt == /\ exited = "no"
             /\ exited' = "sigint"
             /\ mba' \in IF MbaFaults THEN {100, mba} ELSE {100}
             /\ UNCHANGED <<load, sample, config, pc, search, current_latency>>

Done == exited # "no" /\ UNCHANGED vars

Search == \/ GiveUp \/ Probe \/ Revert
          \/ JudgeZero \/ JudgeMet \/ JudgeMissed \/ ProbeFails

MainStep == Measure \/ mba_only \/ Search

Next == MainStep \/ measurement_collector \/ ChangeLoad \/ Interrupt \/ Done

Spec == Init /\ [][Next]_vars

\* The main thread never waits; nothing is assumed of the collector.
FairSpec == Spec /\ WF_vars(MainStep)

-----------------------------------------------------------------------------
(* What the search promises.                                                *)

\* The type of every variable.
TypeOK == /\ load \in Loads
          /\ sample \in Latencies
          /\ likwid \in LikwidStates
          /\ current_remote_ratio \in InitRatios
          /\ pc \in PCs
          /\ i \in Ladder \cup {0}
          /\ previous_mba \in Ladder
          /\ optimal_mba \in Ladder \cup {0, 100}
          /\ current_latency \in Latencies
          /\ mba \in Ladder \cup {100}
          /\ exited \in {"no", "exit", "sigint"}

\* Whatever way a search ends (target met, ladder exhausted, no latency), the
\* level it leaves recorded is the level of the hardware (Utilities.cpp,
\* search_optimal_mba).
SearchCoherent ==
    exited = "no" /\ pc \in {"measure", "read"} => mba = optimal_mba

\* The present build never throttles in this mode: without likwid no level is
\* applied, whatever the latencies (BwManager.cpp, main; PerformanceCounters.cpp,
\* stop_counters).
NoControlWithoutCounters == ~likwid => mba = 100

Returns == pc \in SearchPCs /\ pc' = "measure"

\* A search that ends with the target missed has gone down to the lowest level
\* (Utilities.cpp, search_optimal_mba, mba_binary_search).
GivesUpAtTheBottom ==
    [][Returns /\ current_latency' = "missed" => mba' = 10]_vars

\* The bandwidth is raised only by the first probe of a search, to 40, or to
\* take back that first probe; once the search has gone below 40 a failed poll
\* keeps the level being tried (Utilities.cpp, search_optimal_mba).
RaisesAtTheStart ==
    [][mba' > mba /\ exited' = "no" => mba' = 40 \/ mba = 40]_vars

\* Every search ends (Utilities.cpp, search_optimal_mba: its loop condition is
\* always true, only the breaks end it).
SearchEnds == pc \in SearchPCs ~> pc \notin SearchPCs \/ exited # "no"

\* Under a load that settles at 10 or more, the level settles at one that meets
\* the target, whatever the stale and failed samples a search stopped on or went
\* down for before, if from some point on the steps that read a sample find the
\* reply under the load and the level of that moment (between a probe and the
\* next reading the sample may be as old as it likes).  Samples that are stale at
\* every reading can keep the search going (Utilities.cpp, mba_only,
\* search_optimal_mba).
Reads == mba_only \/ JudgeZero \/ JudgeMet \/ JudgeMissed
ReadsSettle == <>[][Reads => sample = Reply]_vars
SettlesAtTarget ==
    \A l \in Loads \ 0 .. 9 :
        <>[](load = l) /\ ReadsSettle =>
            <>[](mba <= l \/ exited # "no" \/ current_remote_ratio = 0)

\* What is left of a search: three steps for each level still ahead.
LevelsAhead == IF i = 40 THEN 3 ELSE IF i = 20 THEN 2 ELSE IF i = 10 THEN 1 ELSE 0
Left == 3 * LevelsAhead + (IF pc = "loop" THEN 2 ELSE IF pc = "judge" THEN 1 ELSE 0)

\* Every step of a search brings it nearer to its end, although the condition of
\* its loop is always true: a search takes at most twelve steps, whatever the
\* latencies (Utilities.cpp, search_optimal_mba, mba_binary_search).
SearchShrinks ==
    [][{pc, pc'} \subseteq SearchPCs /\ pc' # pc => Left' < Left]_vars

-----------------------------------------------------------------------------
(* The inductive invariant behind the safety properties.                    *)

\* Before a level below 40 is tried the level above it is applied.
LoopInv == pc = "loop" =>
    /\ i = 40 => mba = optimal_mba
    /\ i # 40 => mba = previous_mba /\ optimal_mba = i
    /\ i = 20 => mba = 40
    /\ i = 10 => mba = 20
    /\ i = 0  => mba = 10

TrialInv ==
    /\ pc \in {"judge", "revert"} => /\ mba = i
                                     /\ i # 40 => optimal_mba = i
                                     /\ optimal_mba # 0
    /\ pc = "revert" => current_latency = "zero"

IInv == /\ TypeOK
        /\ NoControlWithoutCounters
        /\ ~likwid => pc = "measure"
        /\ exited = "no" => SearchCoherent /\ LoopInv /\ TrialInv
=============================================================================
