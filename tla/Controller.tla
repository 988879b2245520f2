------------------------------ MODULE Controller ------------------------------
(****************************************************************************)
(* The control loops of BwManager and the two threads that share its        *)
(* samples.                                                                 *)
(*                                                                          *)
(* The main thread runs the loop of one mode (abc_numa, page_migration_only,*)
(* mba_10, linux_default or bw_manager_test, Utilities.cpp) and drives two  *)
(* actuators: the memory-bandwidth allocation (MBA) of the best-effort      *)
(* application and the share of its pages on the remote node.  The detached *)
(* measurement thread appends one latency per round to the vector of each   *)
(* latency-critical application (LCA); the main thread reads the back of    *)
(* the vectors without a lock.                                              *)
(*                                                                          *)
(* A latency is represented by the slack the loops derive from it,          *)
(* (target - latency) / target in per cent.  A failed poll and an empty     *)
(* vector give latency 0, that is a slack of exactly 100.                   *)
(****************************************************************************)
EXTENDS Integers

CONSTANTS
    Slacks,          \* the slacks a sample can stand for
    slack_up,        \* below it an LCA is in danger
    slack_down_mba,  \* above it an LCA is in the green zone
    Modes,           \* the modes (-m) the program may be started in
    InitRatios,      \* the remote ratios (-r) it may be started with
    WorkerWeights,   \* weight of the worker node 0 in the weights file
    MaxGrows,        \* bound on the reallocations of the sample vectors
    MbaFaults,       \* may pqos_mba_set fail?
    MoveFaults       \* may move_pages fail?

Lcas == {"memcached", "xapian"}
NoReply == 100
ADAPTATION_STEP == 10

AllModes == {"abc_numa", "page_migration_only", "linux_default", "mba_10",
             "bw_manager_test"}

ASSUME SlackAssumption == /\ Slacks \subseteq Int
                          /\ NoReply \in Slacks
                          /\ slack_up \in Int
                          /\ slack_down_mba \in Int
                          /\ slack_up < slack_down_mba
ASSUME ModesAssumption == Modes \subseteq AllModes
ASSUME RatioAssumption == InitRatios \subseteq Nat /\ WorkerWeights \subseteq Int
ASSUME BoundAssumption == /\ MaxGrows \in Nat
                          /\ MbaFaults \in BOOLEAN
                          /\ MoveFaults \in BOOLEAN

VARIABLES
    mode,                  \* bwman_mode_value
    weight,                \* BWMAN_WEIGHTS of node 0
    pc,                    \* where the main thread is
    i,                     \* the loop variable of release_mba or of a migration
    current_remote_ratio,  \* the ratio the program believes in
    optimal_mba,           \* the MBA level the program believes in
    slack,                 \* slack and slack_xpn, the globals last computed
    placed,                \* the ratio the pages were last placed with
    mba,                   \* the MBA level of the hardware
    exited,                \* how the process ended, or "no"
    samples,               \* back() of percentile_samples and .._xpn
    pushing,               \* the vector the collector appends to next
    growing,               \* is that push_back reallocating the vector?
    grows                  \* reallocations so far

config    == <<mode, weight>>
beliefs   == <<i, current_remote_ratio, optimal_mba>>
hardware  == <<placed, mba>>
collector == <<samples, pushing, growing, grows>>
vars == <<config, pc, beliefs, slack, hardware, exited, collector>>

\* Read points of the main thread: each loop reads memcached, then xapian.
MemcachedReads == {"head", "inner", "migRead", "relRead"}
XapianReads    == {"headx", "innerx", "migReadx", "relReadx"}
Actuations     == {"throttle", "release", "relStep", "revert", "danger",
                   "migrate", "migStep", "test", "testStep", "testNext"}
PCs == MemcachedReads \cup XapianReads \cup Actuations

Init == /\ mode \in Modes
        /\ weight \in WorkerWeights
        /\ pc = IF mode = "bw_manager_test" THEN "test" ELSE "head"
        /\ i = 0
        /\ current_remote_ratio \in InitRatios
        /\ optimal_mba = 100
        /\ slack = [l \in Lcas |-> NoReply]
        /\ placed = current_remote_ratio
        /\ mba = 100
        /\ exited = "no"
        /\ samples = [l \in Lcas |-> NoReply]
        /\ pushing = "memcached"
        /\ growing = FALSE
        /\ grows = 0

-----------------------------------------------------------------------------
(* The measurement thread.                                                  *)

OtherLca(l) == CHOOSE k \in Lcas : k # l

\* push_back of a sample into spare capacity: a reader sees the old back or
\* the new one.
Push == /\ exited = "no"
        /\ ~growing
        /\ \E s \in Slacks : samples' = [samples EXCEPT ![pushing] = s]
        /\ pushing' = OtherLca(pushing)
        /\ UNCHANGED <<config, pc, beliefs, slack, hardware, exited, growing,
                       grows>>

\* push_back of a full vector frees the old storage before it publishes the
\* new one.  The capacity doubles each time, so this happens finitely often.
BeginGrow == /\ exited = "no"
             /\ ~growing
             /\ grows < MaxGrows
             /\ growing' = TRUE
             /\ grows' = grows + 1
             /\ UNCHANGED <<config, pc, beliefs, slack, hardware, exited,
                            samples, pushing>>

EndGrow == /\ exited = "no"
           /\ growing
           /\ growing' = FALSE
           /\ \E s \in Slacks : samples' = [samples EXCEPT ![pushing] = s]
           /\ pushing' = OtherLca(pushing)
           /\ UNCHANGED <<config, pc, beliefs, slack, hardware, exited, grows>>

-----------------------------------------------------------------------------
(* What the main thread reads.                                              *)

Racing(l) == growing /\ pushing = l

\* back() while the vector reallocates reads freed memory: any value.
Latest(l) == IF Racing(l) THEN Slacks ELSE {samples[l]}

Read(l) == \E s \in Latest(l) : slack' = [slack EXCEPT ![l] = s]

ReadMemcached(from, to) ==
    /\ exited = "no"
    /\ pc = from
    /\ Read("memcached")
    /\ pc' = to
    /\ UNCHANGED <<config, beliefs, hardware, exited, collector>>

ReadXapian(from) == /\ exited = "no"
                    /\ pc = from
                    /\ Read("xapian")
                    /\ UNCHANGED <<config, hardware, exited, collector>>

\* Large vectors are unmapped when they are freed: the racy read may fault,
\* and nothing handles SIGSEGV.
RacyCrash ==
    /\ exited = "no"
    /\ \/ pc \in MemcachedReads /\ Racing("memcached")
       \/ pc \in XapianReads /\ Racing("xapian")
    /\ exited' = "segv"
    /\ UNCHANGED <<config, pc, beliefs, slack, hardware, collector>>

Violated(s) == \E l \in Lcas : s[l] < slack_up
Green(s)    == \A l \in Lcas : s[l] > slack_down_mba
Achieved(s) == \E l \in Lcas : s[l] > slack_up

-----------------------------------------------------------------------------
(* The actuators.                                                           *)

\* What the handlers of SIGINT and std::terminate leave behind: reset_mba
\* ignores a failure of pqos_mba_set.
ResetLevels == IF MbaFaults THEN {100, mba} ELSE {100}

HandlerExit(kind) == exited' = kind /\ mba' \in ResetLevels

\* apply_mba exits the program, without a reset, when the library fails.
apply_mba(level, next) ==
    /\ exited = "no"
    /\ \/ mba' = level /\ pc' = next /\ UNCHANGED exited
       \/ MbaFaults /\ exited' = "exit" /\ UNCHANGED <<pc, mba>>
    /\ UNCHANGED <<config, slack, placed, collector>>

\* get_new_weights_v2: the share taken from node 0 goes to node 1.
NewWeights(r) == [n \in {0, 1} |-> IF n = 0 THEN weight - r ELSE r]
CheckSum(w) == w[0] + w[1]

\* Weights that do not add up to 100 end the program with exit(-1), a failed
\* move_pages with std::terminate after some segments were moved.
place_all_pages(r, next) ==
    /\ exited = "no"
    /\ \/ /\ CheckSum(NewWeights(r)) = 100
          /\ placed' = r
          /\ pc' = next
          /\ UNCHANGED <<mba, exited>>
       \/ /\ CheckSum(NewWeights(r)) # 100
          /\ exited' = "exit"
          /\ UNCHANGED <<pc, hardware>>
       \/ /\ CheckSum(NewWeights(r)) = 100
          /\ MoveFaults
          /\ placed' \in {placed, r}
          /\ HandlerExit("terminate")
          /\ UNCHANGED pc
    /\ UNCHANGED <<config, beliefs, slack, collector>>

-----------------------------------------------------------------------------
(* The outer loops, one iteration at a time.                                *)

ReadHead == ReadMemcached("head", "headx")

abc_numa == /\ mode = "abc_numa"
            /\ ReadXapian("headx")
            /\ pc' = IF Violated(slack') /\ current_remote_ratio # 0
                     THEN IF optimal_mba # 10 THEN "throttle" ELSE "inner"
                     ELSE "head"
            /\ UNCHANGED beliefs

page_migration_only ==
    /\ mode = "page_migration_only"
    /\ ReadXapian("headx")
    /\ pc' = IF Violated(slack') /\ current_remote_ratio # 100
             THEN "migrate" ELSE "head"
    /\ UNCHANGED beliefs

mba_10 ==
    /\ mode = "mba_10"
    /\ ReadXapian("headx")
    /\ pc' = IF Violated(slack') /\ current_remote_ratio # 0 /\ optimal_mba # 10
             THEN "throttle" ELSE "head"
    /\ UNCHANGED beliefs

linux_default == /\ mode = "linux_default"
                 /\ ReadXapian("headx")
                 /\ pc' = "head"
                 /\ UNCHANGED beliefs

\* (mutant: the inner loop of abc_numa is never entered)
ThrottleOnly == /\ pc = "throttle"
                /\ apply_mba(10, "head")
                /\ optimal_mba' = IF exited' = "no" THEN 10 ELSE optimal_mba
                /\ UNCHANGED <<i, current_remote_ratio>>

Throttle == /\ pc = "throttle"
            /\ apply_mba(10, IF mode = "abc_numa" THEN "inner" ELSE "head")
            /\ optimal_mba' = IF exited' = "no" THEN 10 ELSE optimal_mba
            /\ UNCHANGED <<i, current_remote_ratio>>

-----------------------------------------------------------------------------
(* The inner loop of abc_numa: release MBA in the green zone, migrate in    *)
(* the danger zone, until MBA is back at 100.                               *)

ReadInner == optimal_mba # 100 /\ ReadMemcached("inner", "innerx")

LeaveInner == /\ exited = "no"
              /\ pc = "inner"
              /\ optimal_mba = 100
              /\ pc' = "head"
              /\ UNCHANGED <<config, beliefs, slack, hardware, exited, collector>>

\* (mutant: release whenever nothing is in danger)
ChooseZoneLoosely == /\ ReadXapian("innerx")
                     /\ pc' = IF ~Violated(slack') THEN "release" ELSE "danger"
                     /\ UNCHANGED beliefs

ChooseZone == /\ ReadXapian("innerx")
              /\ pc' = IF Green(slack') THEN "release" ELSE "danger"
              /\ UNCHANGED beliefs

\* (mutant: the danger zone is that of the other LCA)
CheckXapian == /\ exited = "no"
               /\ pc = "danger"
               /\ pc' = IF slack["xapian"] < slack_up THEN "migrate" ELSE "inner"
               /\ UNCHANGED <<config, beliefs, slack, hardware, exited, collector>>

CheckDanger == /\ exited = "no"
               /\ pc = "danger"
               /\ pc' = IF slack["memcached"] < slack_up THEN "migrate" ELSE "inner"
               /\ UNCHANGED <<config, beliefs, slack, hardware, exited, collector>>

-----------------------------------------------------------------------------
(* release_mba                                                              *)

\* (mutant: 70 and 80 are not skipped)
EveryLevel(level) == level

\* The loop skips 70 and 80.
NextLevel(level) == IF level \in {70, 80} THEN 90 ELSE level

StartRelease == /\ exited = "no"
                /\ pc = "release"
                /\ optimal_mba' = optimal_mba + 10
                /\ i' = IF current_remote_ratio = 0
                        THEN 100 ELSE NextLevel(optimal_mba')
                /\ pc' = "relStep"
                /\ UNCHANGED <<config, current_remote_ratio, slack, hardware,
                               exited, collector>>

ReleaseStep == /\ pc = "relStep"
               /\ apply_mba(i, "relRead")
               /\ UNCHANGED beliefs

ReadRelease == ReadMemcached("relRead", "relReadx")

JudgeRelease ==
    /\ ReadXapian("relReadx")
    /\ IF current_remote_ratio = 0
       THEN pc' = "danger" /\ optimal_mba' = 100 /\ UNCHANGED i
       ELSE IF Green(slack')
       THEN /\ optimal_mba' = i
            /\ i' = NextLevel(i + 10)
            /\ pc' = IF i' > 100 THEN "danger" ELSE "relStep"
       ELSE pc' = "revert" /\ UNCHANGED <<i, optimal_mba>>
    /\ UNCHANGED current_remote_ratio

\* (mutant: the revert is not recorded)
RevertUnrecorded == /\ pc = "revert"
                    /\ apply_mba(i - 10, "danger")
                    /\ UNCHANGED beliefs

Revert == /\ pc = "revert"
          /\ apply_mba(i - 10, "danger")
          /\ optimal_mba' = IF exited' = "no" THEN i - 10 ELSE optimal_mba
          /\ UNCHANGED <<i, current_remote_ratio>>

-----------------------------------------------------------------------------
(* apply_pagemigration_lr_same_socket                                       *)

\* (mutant: a migration always returns to the outer loop)
ReturnToHead == "head"
MigrationCaller == IF mode = "abc_numa" THEN "inner" ELSE "head"

StartMigration ==
    /\ exited = "no"
    /\ pc = "migrate"
    /\ IF current_remote_ratio = 100
       THEN pc' = MigrationCaller /\ UNCHANGED <<i, current_remote_ratio>>
       ELSE /\ current_remote_ratio' =
                   IF current_remote_ratio < 100
                   THEN current_remote_ratio + ADAPTATION_STEP
                   ELSE current_remote_ratio
            /\ i' = current_remote_ratio'
            /\ pc' = IF i' <= 100 THEN "migStep" ELSE MigrationCaller
    /\ UNCHANGED <<config, optimal_mba, slack, hardware, exited, collector>>

MigrationStep == pc = "migStep" /\ place_all_pages(i, "migRead")

ReadMigration == ReadMemcached("migRead", "migReadx")

\* (mutant: the ratio reached is not recorded)
JudgeUnrecorded ==
    /\ ReadXapian("migReadx")
    /\ IF Achieved(slack')
       THEN pc' = MigrationCaller /\ UNCHANGED i
       ELSE /\ i' = i + ADAPTATION_STEP
            /\ pc' = IF i' <= 100 THEN "migStep" ELSE MigrationCaller
    /\ UNCHANGED <<optimal_mba, current_remote_ratio>>

JudgeMigration ==
    /\ ReadXapian("migReadx")
    /\ current_remote_ratio' = i
    /\ IF Achieved(slack')
       THEN pc' = MigrationCaller /\ UNCHANGED i
       ELSE /\ i' = i + ADAPTATION_STEP
            /\ pc' = IF i' <= 100 THEN "migStep" ELSE MigrationCaller
    /\ UNCHANGED optimal_mba

-----------------------------------------------------------------------------
(* bw_manager_test and apply_pagemigration_lr: place every ratio up to 100, *)
(* then return from main.                                                   *)

StartTest == /\ exited = "no"
             /\ pc = "test"
             /\ current_remote_ratio' =
                    IF current_remote_ratio < 100
                    THEN current_remote_ratio + ADAPTATION_STEP
                    ELSE current_remote_ratio
             /\ i' = current_remote_ratio'
             /\ pc' = "testStep"
             /\ UNCHANGED <<config, optimal_mba, slack, hardware, exited,
                            collector>>

TestStep == /\ pc = "testStep"
            /\ i <= 100
            /\ place_all_pages(i, "testNext")

TestNext == /\ exited = "no"
            /\ pc = "testNext"
            /\ i' = i + ADAPTATION_STEP
            /\ pc' = "testStep"
            /\ UNCHANGED <<config, current_remote_ratio, optimal_mba, slack,
                           hardware, exited, collector>>

TestReturn == /\ exited = "no"
              /\ pc = "testStep"
              /\ i > 100
              /\ exited' = "return"
              /\ UNCHANGED <<config, pc, beliefs, slack, hardware, collector>>

-----------------------------------------------------------------------------
(* SIGINT and the specification.                                            *)

\* The kernel delivers SIGINT to the main thread, at any point of its loop.
Interrupt == /\ exited = "no"
             /\ HandlerExit("sigint")
             /\ UNCHANGED <<config, pc, beliefs, slack, placed, collector>>

\* The process is gone.
Done == exited # "no" /\ UNCHANGED vars

MainStep == \/ ReadHead \/ abc_numa \/ page_migration_only \/ mba_10
            \/ linux_default \/ Throttle
            \/ ReadInner \/ LeaveInner \/ ChooseZone \/ CheckDanger
            \/ StartRelease \/ ReleaseStep \/ ReadRelease \/ JudgeRelease \/ Revert
            \/ StartMigration \/ MigrationStep \/ ReadMigration \/ JudgeMigration
            \/ StartTest \/ TestStep \/ TestNext \/ TestReturn

Next == \/ MainStep
        \/ RacyCrash
        \/ Push \/ BeginGrow \/ EndGrow
        \/ Interrupt
        \/ Done

\* The main thread and a reallocation make progress; a poll may block for
\* ever, so nothing forces the collector to push.
Fairness == WF_vars(MainStep) /\ WF_vars(EndGrow)

Spec == Init /\ [][Next]_vars
FairSpec == Spec /\ Fairness

-----------------------------------------------------------------------------
(* What the loops promise.                                                  *)

MigrationPCs == {"migrate", "migStep", "migRead", "migReadx"}
ReleasePCs   == {"relStep", "relRead", "relReadx", "revert"}
Placing      == {"migStep", "migRead", "migReadx"}
Levels       == {10, 20, 30, 40, 50, 60, 80, 90, 100}

\* The type of every variable.
TypeOK == /\ mode \in AllModes
          /\ weight \in Int
          /\ pc \in PCs
          /\ i \in Nat
          /\ current_remote_ratio \in Nat
          /\ optimal_mba \in Nat
          /\ slack \in [Lcas -> Slacks]
          /\ placed \in Nat
          /\ mba \in Levels
          /\ exited \in {"no", "sigint", "terminate", "exit", "return", "segv"}
          /\ samples \in [Lcas -> Slacks]
          /\ pushing \in Lcas
          /\ growing \in BOOLEAN
          /\ grows \in 0 .. MaxGrows

\* Outside a release the level the loops believe in is the level of the
\* hardware, whatever path through release_mba, its revert and the throttle
\* led there: the tests of optimal_mba in abc_numa and mba_10 are about the
\* machine (Utilities.cpp, abc_numa, mba_10, release_mba).
BandwidthCoherent ==
    exited = "no" /\ pc \notin ReleasePCs => mba = optimal_mba

\* abc_numa only evaluates its outer test with the bandwidth fully released:
\* it cannot leave the inner loop while the best-effort application is still
\* throttled (Utilities.cpp, abc_numa).
OuterLoopUnthrottled ==
    exited = "no" /\ mode = "abc_numa" /\ pc \in {"head", "headx"} => mba = 100

\* abc_numa migrates pages only while the bandwidth is throttled.  After a
\* release that reached 100 the test of the danger zone still runs, on the
\* slack the release read: it must not start a migration (Utilities.cpp,
\* abc_numa after its call of release_mba).
MigrationThrottled ==
    exited = "no" /\ mode = "abc_numa" /\ pc \in MigrationPCs => mba # 100

\* While the pages are at a multiple of ADAPTATION_STEP the recorded remote
\* ratio is, outside a migration, the ratio they really have (Utilities.cpp,
\* apply_pagemigration_lr_same_socket).  From any other start ratio the last
\* migration records a ratio beyond 100 that it does not place.  The test mode
\* is left out: apply_pagemigration_lr does not record what it places.
AlignedRatios == {0, 10, 20, 30, 40, 50, 60, 70, 80, 90, 100}
PlacementTracked ==
    /\ placed \in AlignedRatios
    /\ exited = "no"
    /\ mode # "bw_manager_test"
    /\ pc \notin Placing
    => placed = current_remote_ratio

\* Pages only ever move towards the remote node, ADAPTATION_STEP at a time, in
\* every mode and from every start ratio (BwManager.hpp: "Move 10% of shared
\* pages to the worker nodes").
PagesMoveByStep == [][placed' \in {placed, placed + ADAPTATION_STEP}]_vars

\* While the program runs, the bandwidth is raised only when both LCAs were
\* read in the green zone, and then by one level of the ladder
\* (Utilities.cpp, abc_numa and release_mba).
ReleaseJustified ==
    [][mba' > mba /\ exited' = "no"
       => Green(slack) /\ mba' = NextLevel(mba + 10)]_vars

\* The contract of the modes, seen through the hardware and the slack last read.
Policy == INSTANCE BandwidthPolicy
              WITH Primary <- "memcached",
                   InitShares <- InitRatios,
                   level <- mba,
                   share <- placed,
                   view <- slack,
                   active <- (exited = "no")

\* Every step of the loops, of release_mba and of the migrations does what the
\* contract allows the mode to do or changes nothing it speaks of
\* (Utilities.cpp, the loop of each mode, release_mba, apply_mba,
\* apply_pagemigration_lr_same_socket, apply_pagemigration_lr).
PolicySpec == Policy!Spec

\* What is left of the call the main thread is in: four steps for each level of
\* release_mba, or each ratio of a migration, still ahead.
Calls == {{"release"} \cup ReleasePCs, MigrationPCs, {"test", "testStep", "testNext"}}
Ahead == 4 * (100 - i)
Left == IF pc \in {"release", "migrate", "test"} THEN 400
        ELSE IF pc \in {"relStep", "migStep"} THEN Ahead + 3
        ELSE IF pc \in {"relRead", "migRead"} THEN Ahead + 2
        ELSE IF pc \in {"relReadx", "migReadx"} THEN Ahead + 1
        ELSE IF pc = "testStep" THEN IF i > 100 THEN 0 ELSE Ahead + 3
        ELSE IF pc = "testNext" THEN Ahead + 2 ELSE Ahead

\* Every step of a release, a migration or a test brings it nearer to its end:
\* samples that keep changing beside it can keep abc_numa in its inner loop, but
\* neither a release nor a migration (Utilities.cpp, release_mba,
\* apply_pagemigration_lr_same_socket, apply_pagemigration_lr).
CallsShrink ==
    [][\A c \in Calls : pc \in c /\ pc' \in c \ {pc} => Left' < Left]_vars

\* The measurement thread, seen from the main thread.
Environment == INSTANCE Collector
                   WITH First <- "memcached",
                        latest <- samples,
                        turn <- pushing,
                        moving <- growing

\* The loops are checked beside what the measurement thread of LatencyPoll is
\* shown to do, and nothing less (Utilities.cpp, measurement_collector).
CollectorSpec == Environment!Spec

\* The pages, seen from the main thread.
Pages == INSTANCE Placement
             WITH InitShares <- InitRatios,
                  Step <- ADAPTATION_STEP,
                  share <- placed,
                  alive <- (exited = "no")

\* The loops ask of the pages only what the parallel loop of PagePlacement is
\* shown to do: one step at a time, and none beyond 100 (Utilities.cpp,
\* apply_pagemigration_lr_same_socket, apply_pagemigration_lr).
PlacementSpec == Pages!Spec

-----------------------------------------------------------------------------
(* The inductive invariant behind them: what holds at each point of the     *)
(* main thread, by subject.                                                 *)

InnerPCs == {"inner", "innerx", "release", "danger"} \cup ReleasePCs
TestPCs  == {"test", "testStep", "testNext"}

\* Which points belong to which mode.
ModeInv ==
    /\ mode = "abc_numa" => pc \notin TestPCs
    /\ mode = "page_migration_only" => pc \in {"head", "headx"} \cup MigrationPCs
    /\ mode = "mba_10" => pc \in {"head", "headx", "throttle"}
    /\ mode = "linux_default" => pc \in {"head", "headx"}
    /\ mode = "bw_manager_test" => pc \in TestPCs

\* The level of the hardware and what release_mba is about to do to it.
LevelInv ==
    /\ BandwidthCoherent
    /\ OuterLoopUnthrottled
    /\ MigrationThrottled
    /\ mode = "mba_10" => mba \in {10, 100}
    /\ mode \notin {"abc_numa", "mba_10"} => mba = 100
    /\ pc = "throttle" => mba = 100
    /\ pc \in {"innerx", "release"} => mba # 100
    /\ pc = "relStep" => mba # 100 /\ i = NextLevel(mba + 10)
    /\ pc \in {"relRead", "relReadx", "revert"} => i = mba /\ mba \notin {10, 80}

\* Some LCA has no slack beyond the threshold.
NoSlack(s) == \E l \in Lcas : s[l] <= slack_up

\* The slack each actuation was decided on.  At "danger" a fully released
\* bandwidth means that the release last read the green zone.
SlackInv ==
    /\ pc = "throttle" => Violated(slack)
    /\ pc \in {"release", "relStep"} => Green(slack)
    /\ pc = "revert" => ~Green(slack)
    /\ pc = "danger" /\ mba = 100 => Green(slack)
    /\ mode = "abc_numa" /\ pc \in {"migrate", "migStep"}
         => slack["memcached"] <= slack_up
    /\ pc \in {"migrate", "migStep"} => NoSlack(slack)

\* The recorded ratio, the loop variable and the ratio of the pages.
RatioInv ==
    /\ pc \notin Placing \cup TestPCs /\ current_remote_ratio <= 100
         => placed = current_remote_ratio
    /\ pc \in Placing => i \in 1 .. 100
    /\ pc = "migStep" => i = placed + ADAPTATION_STEP
    /\ pc \in {"migRead", "migReadx"} => i = placed
    /\ pc = "test" => placed = current_remote_ratio
    /\ pc = "testStep" /\ i <= 100 => i \in {placed, placed + ADAPTATION_STEP}
    /\ pc = "testNext" => i = placed /\ i <= 100
    /\ mode = "abc_numa" /\ pc \in InnerPCs \cup MigrationPCs
         => current_remote_ratio # 0
    /\ pc = "throttle" => current_remote_ratio # 0
    /\ current_remote_ratio # 0 /\ mode \in {"abc_numa", "mba_10"} => placed # 0

\* Aligned pages go with aligned recorded ratios.
AlignedInv ==
    placed \in AlignedRatios =>
        /\ current_remote_ratio \in AlignedRatios \/ mode = "bw_manager_test"
        /\ pc \in Placing => i \in AlignedRatios

IInv == /\ TypeOK
        /\ exited = "no" => /\ ModeInv
                            /\ LevelInv
                            /\ SlackInv
                            /\ RatioInv
                            /\ AlignedInv
=============================================================================
