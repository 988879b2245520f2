--------------------------- MODULE ControllerProofs ---------------------------
(****************************************************************************)
(* Proofs about Controller, for every set of slacks, thresholds, modes,     *)
(* start ratios, weights, fault flags and bound on the reallocations.       *)
(*                                                                          *)
(* The invariant IInv is inductive: one lemma per action of Next shows that *)
(* the action preserves it, with one step per part of IInv (the actions     *)
(* that end the process only owe TypeOK).  The properties then follow from  *)
(* IInv, and the refinement of BandwidthPolicy from IInv and the steps.     *)
(****************************************************************************)
EXTENDS Controller, TLAPS

-----------------------------------------------------------------------------
(* Facts about the operators of Controller.                                 *)

\* The collector alternates between the two vectors.
LEMMA OtherLcaType == \A l \in Lcas : OtherLca(l) \in Lcas
BY DEF OtherLca, Lcas

\* Whatever a read returns is a slack, even a racy one.
LEMMA LatestType == ASSUME TypeOK, NEW l \in Lcas PROVE Latest(l) \subseteq Slacks
BY DEF TypeOK, Latest

\* The green zone and the danger zone of memcached are disjoint: this is what
\* keeps abc_numa from migrating right after a complete release.
LEMMA GreenIsNotDanger ==
    ASSUME NEW s \in [Lcas -> Slacks], Green(s)
    PROVE  ~(s["memcached"] < slack_up)
<1>1. s["memcached"] \in Int /\ s["memcached"] > slack_down_mba
  BY SlackAssumption DEF Green, Lcas
<1> QED BY <1>1, SlackAssumption

\* A migration goes on only while memcached has no slack left.
LEMMA NotAchieved ==
    ASSUME NEW s \in [Lcas -> Slacks], ~Achieved(s)
    PROVE  s["memcached"] <= slack_up
<1>1. s["memcached"] \in Int /\ ~(s["memcached"] > slack_up)
  BY SlackAssumption DEF Achieved, Lcas
<1> QED BY <1>1, SlackAssumption

\* An LCA in danger has no slack.
LEMMA ViolatedNoSlack ==
    ASSUME NEW s \in [Lcas -> Slacks], Violated(s)
    PROVE  NoSlack(s)
<1>1. PICK l \in Lcas : s[l] < slack_up
  BY DEF Violated
<1>2. s[l] \in Int
  BY SlackAssumption
<1> QED BY <1>1, <1>2, SlackAssumption DEF NoSlack

\* Nor has any of two of which memcached has none.
LEMMA MemcachedNoSlack ==
    ASSUME NEW s, s["memcached"] <= slack_up
    PROVE  NoSlack(s)
BY DEF NoSlack, Lcas

\* A raise reaches a level of the ladder and never 80.
LEMMA NextLevelType ==
    \A l \in Levels \ {100} : NextLevel(l + 10) \in Levels \ {10, 80}
BY DEF Levels, NextLevel

-----------------------------------------------------------------------------
(* Every action preserves the inductive invariant.                          *)

\* Reading memcached at the head of a loop decides nothing.
LEMMA ReadHeadIInv == ASSUME IInv, ReadHead PROVE IInv'
<1>1. TypeOK'
  BY LatestType DEF ReadHead, ReadMemcached, Read, IInv, TypeOK, PCs,
         MemcachedReads, XapianReads, Actuations, config, beliefs, hardware,
         collector
<1>2. exited' = "no" =>
        ModeInv' /\ LevelInv' /\ SlackInv' /\ RatioInv' /\ AlignedInv'
  BY DEF ReadHead, ReadMemcached, IInv, ModeInv, LevelInv, SlackInv, RatioInv,
         AlignedInv, TestPCs, MigrationPCs, BandwidthCoherent,
         OuterLoopUnthrottled, MigrationThrottled, ReleasePCs, Placing,
         InnerPCs, config, beliefs, hardware
<1> QED BY <1>1, <1>2 DEF IInv

\* abc_numa throttles only on a violation and with remote pages.
LEMMA abc_numaIInv == ASSUME IInv, abc_numa PROVE IInv'
<1>1. TypeOK'
  BY LatestType DEF abc_numa, ReadXapian, Read, IInv, TypeOK, PCs,
         MemcachedReads, XapianReads, Actuations, config, beliefs, hardware,
         collector
<1>2. exited' = "no" => ModeInv'
  BY DEF abc_numa, ReadXapian, IInv, ModeInv, TestPCs, MigrationPCs, config,
         beliefs, hardware
<1>3. exited' = "no" => LevelInv'
  BY DEF abc_numa, ReadXapian, IInv, LevelInv, BandwidthCoherent,
         OuterLoopUnthrottled, MigrationThrottled, MigrationPCs, ReleasePCs,
         config, beliefs, hardware
<1>4. exited' = "no" => SlackInv'
  BY DEF abc_numa, ReadXapian, IInv, SlackInv, config, beliefs, hardware
<1>5. exited' = "no" => RatioInv'
  BY DEF abc_numa, ReadXapian, IInv, RatioInv, Placing, TestPCs, InnerPCs,
         MigrationPCs, ReleasePCs, config, beliefs, hardware
<1>6. exited' = "no" => AlignedInv'
  BY DEF abc_numa, ReadXapian, IInv, AlignedInv, Placing, AlignedRatios,
         config, beliefs, hardware
<1> QED BY <1>1, <1>2, <1>3, <1>4, <1>5, <1>6 DEF IInv

\* page_migration_only never leaves its loop but to migrate.
LEMMA page_migration_onlyIInv == ASSUME IInv, page_migration_only PROVE IInv'
<1>1. TypeOK'
  BY LatestType DEF page_migration_only, ReadXapian, Read, IInv, TypeOK, PCs,
         MemcachedReads, XapianReads, Actuations, config, beliefs, hardware,
         collector
<1>2. exited' = "no" => ModeInv'
  BY DEF page_migration_only, ReadXapian, IInv, ModeInv, TestPCs,
         MigrationPCs, config, beliefs, hardware
<1>3. exited' = "no" => LevelInv'
  BY DEF page_migration_only, ReadXapian, IInv, LevelInv, BandwidthCoherent,
         OuterLoopUnthrottled, MigrationThrottled, MigrationPCs, ReleasePCs,
         config, beliefs, hardware
<1>4. exited' = "no" => SlackInv'
  BY <1>1, ViolatedNoSlack
     DEF page_migration_only, ReadXapian, IInv, TypeOK, SlackInv, config,
         beliefs, hardware
<1>5. exited' = "no" => RatioInv'
  BY DEF page_migration_only, ReadXapian, IInv, RatioInv, Placing, TestPCs,
         InnerPCs, MigrationPCs, ReleasePCs, config, beliefs, hardware
<1>6. exited' = "no" => AlignedInv'
  BY DEF page_migration_only, ReadXapian, IInv, AlignedInv, Placing,
         AlignedRatios, config, beliefs, hardware
<1> QED BY <1>1, <1>2, <1>3, <1>4, <1>5, <1>6 DEF IInv

\* mba_10 throttles only on a violation.
LEMMA mba_10IInv == ASSUME IInv, mba_10 PROVE IInv'
<1>1. TypeOK'
  BY LatestType DEF mba_10, ReadXapian, Read, IInv, TypeOK, PCs,
         MemcachedReads, XapianReads, Actuations, config, beliefs, hardware,
         collector
<1>2. exited' = "no" => ModeInv'
  BY DEF mba_10, ReadXapian, IInv, ModeInv, TestPCs, MigrationPCs, config,
         beliefs, hardware
<1>3. exited' = "no" => LevelInv'
  BY DEF mba_10, ReadXapian, IInv, LevelInv, BandwidthCoherent,
         OuterLoopUnthrottled, MigrationThrottled, MigrationPCs, ReleasePCs,
         config, beliefs, hardware
<1>4. exited' = "no" => SlackInv'
  BY DEF mba_10, ReadXapian, IInv, SlackInv, config, beliefs, hardware
<1>5. exited' = "no" => RatioInv'
  BY DEF mba_10, ReadXapian, IInv, RatioInv, Placing, TestPCs, InnerPCs,
         MigrationPCs, ReleasePCs, config, beliefs, hardware
<1>6. exited' = "no" => AlignedInv'
  BY DEF mba_10, ReadXapian, IInv, AlignedInv, Placing, AlignedRatios, config,
         beliefs, hardware
<1> QED BY <1>1, <1>2, <1>3, <1>4, <1>5, <1>6 DEF IInv

\* linux_default only observes.
LEMMA linux_defaultIInv == ASSUME IInv, linux_default PROVE IInv'
<1>1. TypeOK'
  BY LatestType DEF linux_default, ReadXapian, Read, IInv, TypeOK, PCs,
         MemcachedReads, XapianReads, Actuations, config, beliefs, hardware,
         collector
<1>2. exited' = "no" => ModeInv'
  BY DEF linux_default, ReadXapian, IInv, ModeInv, TestPCs, MigrationPCs,
         config, beliefs, hardware
<1>3. exited' = "no" => LevelInv'
  BY DEF linux_default, ReadXapian, IInv, LevelInv, BandwidthCoherent,
         OuterLoopUnthrottled, MigrationThrottled, MigrationPCs, ReleasePCs,
         config, beliefs, hardware
<1>4. exited' = "no" => SlackInv'
  BY DEF linux_default, ReadXapian, IInv, SlackInv, config, beliefs, hardware
<1>5. exited' = "no" => RatioInv'
  BY DEF linux_default, ReadXapian, IInv, RatioInv, Placing, TestPCs,
         InnerPCs, MigrationPCs, ReleasePCs, config, beliefs, hardware
<1>6. exited' = "no" => AlignedInv'
  BY DEF linux_default, ReadXapian, IInv, AlignedInv, Placing, AlignedRatios,
         config, beliefs, hardware
<1> QED BY <1>1, <1>2, <1>3, <1>4, <1>5, <1>6 DEF IInv

\* The throttle sets the hardware and the belief together.
LEMMA ThrottleIInv == ASSUME IInv, Throttle PROVE IInv'
<1>1. TypeOK'
  BY SlackAssumption, BoundAssumption, RatioAssumption
     DEF IInv, TypeOK, ModeInv, LevelInv, SlackInv, RatioInv, AlignedInv,
         config, beliefs, hardware, collector, Throttle, apply_mba, AllModes,
         Levels, Lcas, PCs, MemcachedReads, XapianReads, Actuations
<1>2. exited' = "no" => ModeInv'
  BY DEF Throttle, apply_mba, IInv, ModeInv, TestPCs, MigrationPCs, config,
         beliefs, hardware
<1>3. exited' = "no" => LevelInv'
  BY DEF Throttle, apply_mba, IInv, TypeOK, AllModes, ModeInv, LevelInv,
         BandwidthCoherent, OuterLoopUnthrottled, MigrationThrottled,
         MigrationPCs, ReleasePCs, TestPCs, config, beliefs, hardware
<1>4. exited' = "no" => SlackInv'
  BY DEF Throttle, apply_mba, IInv, SlackInv, config, beliefs, hardware
<1>5. exited' = "no" => RatioInv'
  BY DEF Throttle, apply_mba, IInv, RatioInv, Placing, TestPCs, InnerPCs,
         MigrationPCs, ReleasePCs, config, beliefs, hardware
<1>6. exited' = "no" => AlignedInv'
  BY DEF Throttle, apply_mba, IInv, AlignedInv, Placing, AlignedRatios,
         config, beliefs, hardware
<1> QED BY <1>1, <1>2, <1>3, <1>4, <1>5, <1>6 DEF IInv

\* The inner loop is entered with the bandwidth throttled.
LEMMA ReadInnerIInv == ASSUME IInv, ReadInner PROVE IInv'
<1>1. TypeOK'
  BY LatestType DEF ReadInner, ReadMemcached, Read, IInv, TypeOK, PCs,
         MemcachedReads, XapianReads, Actuations, config, beliefs, hardware,
         collector, Lcas, Latest
<1>2. exited' = "no" =>
        ModeInv' /\ LevelInv' /\ SlackInv' /\ RatioInv' /\ AlignedInv'
  BY DEF ReadInner, ReadMemcached, IInv, ModeInv, LevelInv, SlackInv,
         RatioInv, AlignedInv, TestPCs, MigrationPCs, BandwidthCoherent,
         OuterLoopUnthrottled, MigrationThrottled, ReleasePCs, Placing,
         InnerPCs, config, beliefs, hardware
<1> QED BY <1>1, <1>2 DEF IInv

\* The inner loop is left with the bandwidth released.
LEMMA LeaveInnerIInv == ASSUME IInv, LeaveInner PROVE IInv'
<1>1. TypeOK'
  BY DEF LeaveInner, IInv, TypeOK, PCs, MemcachedReads, XapianReads,
         Actuations, config, beliefs, hardware, collector
<1>2. exited' = "no" => ModeInv'
  BY DEF LeaveInner, IInv, ModeInv, TestPCs, MigrationPCs, config, beliefs,
         hardware
<1>3. exited' = "no" => LevelInv'
  BY DEF LeaveInner, IInv, LevelInv, BandwidthCoherent, OuterLoopUnthrottled,
         MigrationThrottled, MigrationPCs, ReleasePCs, config, beliefs,
         hardware
<1>4. exited' = "no" => SlackInv'
  BY DEF LeaveInner, IInv, SlackInv, config, beliefs, hardware
<1>5. exited' = "no" => RatioInv'
  BY DEF LeaveInner, IInv, RatioInv, Placing, TestPCs, InnerPCs, MigrationPCs,
         ReleasePCs, config, beliefs, hardware
<1>6. exited' = "no" => AlignedInv'
  BY DEF LeaveInner, IInv, AlignedInv, Placing, AlignedRatios, config,
         beliefs, hardware
<1> QED BY <1>1, <1>2, <1>3, <1>4, <1>5, <1>6 DEF IInv

\* A release starts in the green zone only.
LEMMA ChooseZoneIInv == ASSUME IInv, ChooseZone PROVE IInv'
<1>1. TypeOK'
  BY LatestType DEF ChooseZone, ReadXapian, Read, IInv, TypeOK, PCs,
         MemcachedReads, XapianReads, Actuations, config, beliefs, hardware,
         collector
<1>2. exited' = "no" => ModeInv'
  BY DEF ChooseZone, ReadXapian, IInv, ModeInv, TestPCs, MigrationPCs, config,
         beliefs, hardware
<1>3. exited' = "no" => LevelInv'
  BY DEF ChooseZone, ReadXapian, IInv, LevelInv, BandwidthCoherent,
         OuterLoopUnthrottled, MigrationThrottled, MigrationPCs, ReleasePCs,
         config, beliefs, hardware
<1>4. exited' = "no" => SlackInv'
  BY DEF ChooseZone, ReadXapian, IInv, SlackInv, config, beliefs, hardware,
         TypeOK, ModeInv, LevelInv, RatioInv, Levels, AllModes
<1>5. exited' = "no" => RatioInv'
  BY DEF ChooseZone, ReadXapian, IInv, RatioInv, Placing, TestPCs, InnerPCs,
         MigrationPCs, ReleasePCs, config, beliefs, hardware
<1>6. exited' = "no" => AlignedInv'
  BY DEF ChooseZone, ReadXapian, IInv, AlignedInv, Placing, AlignedRatios,
         config, beliefs, hardware
<1> QED BY <1>1, <1>2, <1>3, <1>4, <1>5, <1>6 DEF IInv

\* After a complete release memcached is not in danger, so no migration starts.
LEMMA CheckDangerIInv == ASSUME IInv, CheckDanger PROVE IInv'
<1>1. TypeOK'
  BY DEF CheckDanger, IInv, TypeOK, PCs, MemcachedReads, XapianReads,
         Actuations, config, beliefs, hardware, collector
<1>2. exited' = "no" => ModeInv'
  BY DEF CheckDanger, IInv, ModeInv, TestPCs, MigrationPCs, config, beliefs,
         hardware
<1>3. exited' = "no" => LevelInv'
  BY GreenIsNotDanger DEF CheckDanger, IInv, TypeOK, LevelInv, SlackInv,
         BandwidthCoherent, OuterLoopUnthrottled, MigrationThrottled,
         MigrationPCs, ReleasePCs, hardware, config, beliefs
<1>4. exited' = "no" => SlackInv'
  <2>1. slack["memcached"] \in Int
    BY SlackAssumption DEF IInv, TypeOK, Lcas
  <2>2. slack["memcached"] < slack_up => slack["memcached"] <= slack_up
    BY <2>1, SlackAssumption
  <2> QED
    BY <2>2, MemcachedNoSlack
       DEF CheckDanger, IInv, SlackInv, hardware, config
<1>5. exited' = "no" => RatioInv'
  BY DEF CheckDanger, IInv, RatioInv, Placing, TestPCs, InnerPCs,
         MigrationPCs, ReleasePCs, config, beliefs, hardware
<1>6. exited' = "no" => AlignedInv'
  BY DEF CheckDanger, IInv, AlignedInv, Placing, AlignedRatios, config,
         beliefs, hardware
<1> QED BY <1>1, <1>2, <1>3, <1>4, <1>5, <1>6 DEF IInv

\* A release aims at the next level of the ladder.
LEMMA StartReleaseIInv == ASSUME IInv, StartRelease PROVE IInv'
<1>1. TypeOK'
  BY DEF StartRelease, NextLevel, IInv, TypeOK, PCs, MemcachedReads,
         XapianReads, Actuations, config, beliefs, hardware, collector
<1>2. exited' = "no" => ModeInv'
  BY DEF StartRelease, NextLevel, IInv, ModeInv, TestPCs, MigrationPCs,
         config, beliefs, hardware
<1>3. exited' = "no" => LevelInv'
  <2>1. ASSUME exited' = "no" PROVE mode = "abc_numa" /\ current_remote_ratio # 0
    BY <2>1
       DEF StartRelease, IInv, ModeInv, RatioInv, TypeOK, AllModes, TestPCs,
           MigrationPCs, InnerPCs, ReleasePCs
  <2> QED
    BY <2>1
       DEF StartRelease, IInv, LevelInv, BandwidthCoherent, OuterLoopUnthrottled,
           MigrationThrottled, MigrationPCs, ReleasePCs, hardware, config
<1>4. exited' = "no" => SlackInv'
  BY DEF StartRelease, NextLevel, IInv, SlackInv, config, beliefs, hardware
<1>5. exited' = "no" => RatioInv'
  BY DEF StartRelease, NextLevel, IInv, RatioInv, Placing, TestPCs, InnerPCs,
         MigrationPCs, ReleasePCs, config, beliefs, hardware
<1>6. exited' = "no" => AlignedInv'
  BY DEF StartRelease, NextLevel, IInv, AlignedInv, Placing, AlignedRatios,
         config, beliefs, hardware
<1> QED BY <1>1, <1>2, <1>3, <1>4, <1>5, <1>6 DEF IInv

\* A release step reaches that level.
LEMMA ReleaseStepIInv == ASSUME IInv, ReleaseStep PROVE IInv'
<1>1. TypeOK'
  BY SlackAssumption, BoundAssumption, RatioAssumption
     DEF IInv, TypeOK, ModeInv, LevelInv, SlackInv, RatioInv, AlignedInv,
         config, beliefs, hardware, collector, ReleaseStep, apply_mba,
         NextLevel, AllModes, Levels, Lcas, PCs, MemcachedReads, XapianReads,
         Actuations
<1>2. exited' = "no" => ModeInv'
  BY DEF ReleaseStep, apply_mba, NextLevel, IInv, ModeInv, TestPCs,
         MigrationPCs, config, beliefs, hardware
<1>3. exited' = "no" => LevelInv'
  BY DEF ReleaseStep, apply_mba, NextLevel, IInv, LevelInv, BandwidthCoherent,
         OuterLoopUnthrottled, MigrationThrottled, MigrationPCs, ReleasePCs,
         config, beliefs, hardware, TypeOK, ModeInv, RatioInv, Levels,
         AllModes
<1>4. exited' = "no" => SlackInv'
  BY DEF ReleaseStep, apply_mba, NextLevel, IInv, SlackInv, config, beliefs,
         hardware
<1>5. exited' = "no" => RatioInv'
  BY DEF ReleaseStep, apply_mba, NextLevel, IInv, RatioInv, Placing, TestPCs,
         InnerPCs, MigrationPCs, ReleasePCs, config, beliefs, hardware
<1>6. exited' = "no" => AlignedInv'
  BY DEF ReleaseStep, apply_mba, NextLevel, IInv, AlignedInv, Placing,
         AlignedRatios, config, beliefs, hardware
<1> QED BY <1>1, <1>2, <1>3, <1>4, <1>5, <1>6 DEF IInv

\* Reading memcached inside a release decides nothing.
LEMMA ReadReleaseIInv == ASSUME IInv, ReadRelease PROVE IInv'
<1>1. TypeOK'
  BY LatestType DEF ReadRelease, ReadMemcached, Read, IInv, TypeOK, PCs,
         MemcachedReads, XapianReads, Actuations, config, beliefs, hardware,
         collector
<1>2. exited' = "no" =>
        ModeInv' /\ LevelInv' /\ SlackInv' /\ RatioInv' /\ AlignedInv'
  BY DEF ReadRelease, ReadMemcached, IInv, ModeInv, LevelInv, SlackInv,
         RatioInv, AlignedInv, TestPCs, MigrationPCs, BandwidthCoherent,
         OuterLoopUnthrottled, MigrationThrottled, ReleasePCs, Placing,
         InnerPCs, config, beliefs, hardware
<1> QED BY <1>1, <1>2 DEF IInv

\* A release goes on in the green zone, ends at 100, or turns to the revert.
LEMMA JudgeReleaseIInv == ASSUME IInv, JudgeRelease PROVE IInv'
<1>1. TypeOK'
  BY LatestType DEF JudgeRelease, ReadXapian, Read, NextLevel, IInv, TypeOK,
         PCs, MemcachedReads, XapianReads, Actuations, config, beliefs,
         hardware, collector, Lcas, Latest
<1>2. exited' = "no" => ModeInv'
  BY DEF JudgeRelease, ReadXapian, NextLevel, IInv, ModeInv, TestPCs,
         MigrationPCs, config, beliefs, hardware
<1>3. exited' = "no" => LevelInv'
  <2> SUFFICES ASSUME exited' = "no" PROVE LevelInv'
    OBVIOUS
  <2> USE DEF JudgeRelease, ReadXapian, IInv
  <2>1. mode = "abc_numa" /\ current_remote_ratio # 0
    BY
       DEF ModeInv, RatioInv, TypeOK, AllModes, TestPCs, MigrationPCs, InnerPCs,
           ReleasePCs
  <2>2. i = mba /\ mba' = mba /\ mba \in Levels \ {10, 80}
    BY DEF LevelInv, TypeOK, hardware
  <2>3. CASE Green(slack') /\ i = 100
    BY <2>1, <2>2, <2>3
       DEF LevelInv, BandwidthCoherent, OuterLoopUnthrottled, MigrationThrottled,
           MigrationPCs, ReleasePCs, NextLevel, config
  <2>4. CASE Green(slack') /\ i # 100
    <3>1. NextLevel(i + 10) <= 100
      BY <2>2, <2>4 DEF NextLevel, Levels
    <3> QED BY <3>1, <2>1, <2>2, <2>4
           DEF LevelInv, BandwidthCoherent, OuterLoopUnthrottled,
               MigrationThrottled, MigrationPCs, ReleasePCs, Levels, config
  <2>5. CASE ~Green(slack')
    BY <2>1, <2>2, <2>5
       DEF LevelInv, BandwidthCoherent, OuterLoopUnthrottled, MigrationThrottled,
           MigrationPCs, ReleasePCs, config
  <2> QED BY <2>3, <2>4, <2>5
<1>4. exited' = "no" => SlackInv'
  <2> SUFFICES ASSUME exited' = "no" PROVE SlackInv'
    OBVIOUS
  <2> USE DEF JudgeRelease, ReadXapian, IInv
  <2>1. mode = "abc_numa" /\ current_remote_ratio # 0
    BY
       DEF ModeInv, RatioInv, TypeOK, AllModes, TestPCs, MigrationPCs, InnerPCs,
           ReleasePCs
  <2>2. pc' \in {"danger", "relStep", "revert"}
    BY <2>1
  <2>3. pc' \in {"danger", "relStep"} <=> Green(slack')
    BY <2>1
  <2> QED BY <2>2, <2>3 DEF SlackInv
<1>5. exited' = "no" => RatioInv'
  BY DEF JudgeRelease, ReadXapian, NextLevel, IInv, RatioInv, Placing,
         TestPCs, InnerPCs, MigrationPCs, ReleasePCs, config, beliefs,
         hardware
<1>6. exited' = "no" => AlignedInv'
  BY DEF JudgeRelease, ReadXapian, NextLevel, IInv, AlignedInv, Placing,
         AlignedRatios, config, beliefs, hardware
<1> QED BY <1>1, <1>2, <1>3, <1>4, <1>5, <1>6 DEF IInv

\* The revert sets the hardware and the belief to the same level.
LEMMA RevertIInv == ASSUME IInv, Revert PROVE IInv'
<1>1. TypeOK'
  BY SlackAssumption, BoundAssumption, RatioAssumption
     DEF IInv, TypeOK, ModeInv, LevelInv, SlackInv, RatioInv, AlignedInv,
         config, beliefs, hardware, collector, Revert, apply_mba, AllModes,
         Levels, Lcas, PCs, MemcachedReads, XapianReads, Actuations
<1>2. exited' = "no" => ModeInv'
  BY DEF Revert, apply_mba, IInv, ModeInv, TestPCs, MigrationPCs, config,
         beliefs, hardware
<1>3. exited' = "no" => LevelInv'
  BY DEF Revert, apply_mba, IInv, TypeOK, AllModes, ModeInv, LevelInv,
         BandwidthCoherent, OuterLoopUnthrottled, MigrationThrottled,
         MigrationPCs, ReleasePCs, TestPCs, config, beliefs, hardware
<1>4. exited' = "no" => SlackInv'
  BY DEF Revert, apply_mba, IInv, SlackInv, LevelInv, TypeOK, Levels
<1>5. exited' = "no" => RatioInv'
  BY DEF Revert, apply_mba, IInv, RatioInv, Placing, TestPCs, InnerPCs,
         MigrationPCs, ReleasePCs, config, beliefs, hardware
<1>6. exited' = "no" => AlignedInv'
  BY DEF Revert, apply_mba, IInv, AlignedInv, Placing, AlignedRatios, config,
         beliefs, hardware
<1> QED BY <1>1, <1>2, <1>3, <1>4, <1>5, <1>6 DEF IInv

\* A migration aims one step beyond the ratio of the pages.
LEMMA StartMigrationIInv == ASSUME IInv, StartMigration PROVE IInv'
<1>1. TypeOK'
  BY DEF StartMigration, MigrationCaller, ADAPTATION_STEP, IInv, TypeOK, PCs,
         MemcachedReads, XapianReads, Actuations, config, beliefs, hardware,
         collector
<1>2. exited' = "no" => ModeInv'
  BY DEF StartMigration, MigrationCaller, ADAPTATION_STEP, IInv, ModeInv,
         TestPCs, MigrationPCs, config, beliefs, hardware
<1>3. exited' = "no" => LevelInv'
  BY DEF StartMigration, MigrationCaller, ADAPTATION_STEP, IInv, LevelInv,
         BandwidthCoherent, OuterLoopUnthrottled, MigrationThrottled,
         MigrationPCs, ReleasePCs, config, beliefs, hardware
<1>4. exited' = "no" => SlackInv'
  BY DEF StartMigration, IInv, SlackInv, MigrationCaller, config, hardware
<1>5. exited' = "no" => RatioInv'
  BY DEF StartMigration, MigrationCaller, ADAPTATION_STEP, IInv, RatioInv,
         Placing, TestPCs, InnerPCs, MigrationPCs, ReleasePCs, config,
         beliefs, hardware, TypeOK, ModeInv, LevelInv, Levels, AllModes
<1>6. exited' = "no" => AlignedInv'
  <2> SUFFICES ASSUME exited' = "no", placed' \in AlignedRatios
               PROVE  /\ current_remote_ratio' \in AlignedRatios
                      /\ pc' \in Placing => i' \in AlignedRatios
    BY DEF AlignedInv
  <2>1. current_remote_ratio \in AlignedRatios
    BY DEF StartMigration, IInv, AlignedInv, ModeInv, TestPCs, hardware
  <2>2. CASE current_remote_ratio = 100
    BY <2>1, <2>2 DEF StartMigration, MigrationCaller, Placing
  <2>3. CASE current_remote_ratio # 100
    <3>1. /\ current_remote_ratio < 100
          /\ current_remote_ratio + 10 \in AlignedRatios
      BY <2>1, <2>3 DEF AlignedRatios
    <3> QED BY <3>1, <2>3 DEF StartMigration, ADAPTATION_STEP
  <2> QED BY <2>2, <2>3
<1> QED BY <1>1, <1>2, <1>3, <1>4, <1>5, <1>6 DEF IInv

\* A migration step places that ratio or ends the process.
LEMMA MigrationStepIInv == ASSUME IInv, MigrationStep PROVE IInv'
<1>1. TypeOK'
  BY SlackAssumption, BoundAssumption, RatioAssumption
     DEF IInv, TypeOK, ModeInv, LevelInv, SlackInv, RatioInv, AlignedInv,
         config, beliefs, hardware, collector, MigrationStep, place_all_pages,
         HandlerExit, ResetLevels, AllModes, Levels, Lcas, PCs,
         MemcachedReads, XapianReads, Actuations
<1>2. exited' = "no" => ModeInv'
  BY DEF MigrationStep, place_all_pages, IInv, ModeInv, TestPCs, MigrationPCs,
         config, beliefs, hardware
<1>3. exited' = "no" => LevelInv'
  BY SlackAssumption, BoundAssumption, RatioAssumption
     DEF IInv, TypeOK, ModeInv, LevelInv, SlackInv, RatioInv, AlignedInv,
         config, beliefs, hardware, collector, MigrationStep, place_all_pages,
         HandlerExit, ResetLevels, BandwidthCoherent, OuterLoopUnthrottled,
         MigrationThrottled, MigrationPCs, ReleasePCs, Levels, NextLevel
<1>4. exited' = "no" => SlackInv'
  BY DEF MigrationStep, place_all_pages, IInv, SlackInv, config, beliefs,
         hardware
<1>5. exited' = "no" => RatioInv'
  BY SlackAssumption, BoundAssumption, RatioAssumption
     DEF IInv, TypeOK, ModeInv, LevelInv, SlackInv, RatioInv, AlignedInv,
         config, beliefs, hardware, collector, MigrationStep, place_all_pages,
         HandlerExit, ResetLevels, Placing, TestPCs, InnerPCs, MigrationPCs,
         ReleasePCs
<1>6. exited' = "no" => AlignedInv'
  <2> SUFFICES ASSUME exited' = "no", placed' \in AlignedRatios
               PROVE  AlignedInv'
    BY DEF AlignedInv
  <2>1. /\ placed' = i /\ i = placed + 10 /\ i \in 1 .. 100
        /\ UNCHANGED <<i, current_remote_ratio, mode>> /\ pc' = "migRead"
    BY DEF MigrationStep, place_all_pages, HandlerExit, IInv, RatioInv, Placing,
           ADAPTATION_STEP, config, beliefs
  <2>2. placed \in AlignedRatios
    BY <2>1 DEF AlignedRatios, IInv, TypeOK
  <2>3. exited = "no" /\ pc = "migStep"
    BY DEF MigrationStep, place_all_pages
  <2> QED BY <2>1, <2>2, <2>3 DEF IInv, AlignedInv, Placing
<1> QED BY <1>1, <1>2, <1>3, <1>4, <1>5, <1>6 DEF IInv

\* Reading memcached inside a migration decides nothing.
LEMMA ReadMigrationIInv == ASSUME IInv, ReadMigration PROVE IInv'
<1>1. TypeOK'
  BY LatestType DEF ReadMigration, ReadMemcached, Read, IInv, TypeOK, PCs,
         MemcachedReads, XapianReads, Actuations, config, beliefs, hardware,
         collector
<1>2. exited' = "no" =>
        ModeInv' /\ LevelInv' /\ SlackInv' /\ RatioInv' /\ AlignedInv'
  BY DEF ReadMigration, ReadMemcached, IInv, ModeInv, LevelInv, SlackInv,
         RatioInv, AlignedInv, TestPCs, MigrationPCs, BandwidthCoherent,
         OuterLoopUnthrottled, MigrationThrottled, ReleasePCs, Placing,
         InnerPCs, config, beliefs, hardware
<1> QED BY <1>1, <1>2 DEF IInv

\* A migration records what it placed and goes on only without slack.
LEMMA JudgeMigrationIInv == ASSUME IInv, JudgeMigration PROVE IInv'
<1>1. TypeOK'
  BY LatestType DEF JudgeMigration, MigrationCaller, ReadXapian, Read,
         Achieved, ADAPTATION_STEP, IInv, TypeOK, PCs, MemcachedReads,
         XapianReads, Actuations, config, beliefs, hardware, collector, Lcas,
         Latest
<1>2. exited' = "no" => ModeInv'
  BY DEF JudgeMigration, MigrationCaller, ReadXapian, ADAPTATION_STEP, IInv,
         ModeInv, TestPCs, MigrationPCs, config, beliefs, hardware
<1>3. exited' = "no" => LevelInv'
  BY DEF JudgeMigration, MigrationCaller, ReadXapian, ADAPTATION_STEP, IInv,
         LevelInv, BandwidthCoherent, OuterLoopUnthrottled,
         MigrationThrottled, MigrationPCs, ReleasePCs, config, beliefs,
         hardware
<1>4. exited' = "no" => SlackInv'
  BY <1>1, NotAchieved, MemcachedNoSlack
     DEF JudgeMigration, TypeOK, SlackInv, ReadXapian, MigrationCaller
<1>5. exited' = "no" => RatioInv'
  BY DEF JudgeMigration, MigrationCaller, ReadXapian, ADAPTATION_STEP, IInv,
         RatioInv, Placing, TestPCs, InnerPCs, MigrationPCs, ReleasePCs,
         config, beliefs, hardware
<1>6. exited' = "no" => AlignedInv'
  BY DEF JudgeMigration, MigrationCaller, ReadXapian, ADAPTATION_STEP, IInv,
         AlignedInv, Placing, AlignedRatios, config, beliefs, hardware
<1> QED BY <1>1, <1>2, <1>3, <1>4, <1>5, <1>6 DEF IInv

\* The test starts from the ratio of the pages.
LEMMA StartTestIInv == ASSUME IInv, StartTest PROVE IInv'
<1>1. TypeOK'
  BY DEF StartTest, ADAPTATION_STEP, IInv, TypeOK, PCs, MemcachedReads,
         XapianReads, Actuations, config, beliefs, hardware, collector
<1>2. exited' = "no" => ModeInv'
  BY DEF StartTest, ADAPTATION_STEP, IInv, ModeInv, TestPCs, MigrationPCs,
         config, beliefs, hardware
<1>3. exited' = "no" => LevelInv'
  BY DEF StartTest, ADAPTATION_STEP, IInv, LevelInv, BandwidthCoherent,
         OuterLoopUnthrottled, MigrationThrottled, MigrationPCs, ReleasePCs,
         config, beliefs, hardware
<1>4. exited' = "no" => SlackInv'
  BY DEF StartTest, ADAPTATION_STEP, IInv, SlackInv, config, beliefs, hardware
<1>5. exited' = "no" => RatioInv'
  BY DEF StartTest, ADAPTATION_STEP, IInv, RatioInv, Placing, TestPCs,
         InnerPCs, MigrationPCs, ReleasePCs, config, beliefs, hardware,
         TypeOK, ModeInv, LevelInv, Levels, AllModes
<1>6. exited' = "no" => AlignedInv'
  BY DEF StartTest, ADAPTATION_STEP, IInv, AlignedInv, Placing, AlignedRatios,
         config, beliefs, hardware
<1> QED BY <1>1, <1>2, <1>3, <1>4, <1>5, <1>6 DEF IInv

\* A test step places a ratio or ends the process.
LEMMA TestStepIInv == ASSUME IInv, TestStep PROVE IInv'
<1>1. TypeOK'
  BY SlackAssumption, BoundAssumption, RatioAssumption
     DEF IInv, TypeOK, ModeInv, LevelInv, SlackInv, RatioInv, AlignedInv,
         config, beliefs, hardware, collector, TestStep, place_all_pages,
         HandlerExit, ResetLevels, AllModes, Levels, Lcas, PCs,
         MemcachedReads, XapianReads, Actuations
<1>2. exited' = "no" => ModeInv'
  BY DEF TestStep, place_all_pages, IInv, ModeInv, TestPCs, MigrationPCs,
         config, beliefs, hardware
<1>3. exited' = "no" => LevelInv'
  BY SlackAssumption, BoundAssumption, RatioAssumption
     DEF IInv, TypeOK, ModeInv, LevelInv, SlackInv, RatioInv, AlignedInv,
         config, beliefs, hardware, collector, TestStep, place_all_pages,
         HandlerExit, ResetLevels, BandwidthCoherent, OuterLoopUnthrottled,
         MigrationThrottled, MigrationPCs, ReleasePCs, Levels, NextLevel
<1>4. exited' = "no" => SlackInv'
  BY DEF TestStep, place_all_pages, IInv, SlackInv, config, beliefs, hardware
<1>5. exited' = "no" => RatioInv'
  BY DEF TestStep, place_all_pages, IInv, RatioInv, Placing, TestPCs,
         InnerPCs, MigrationPCs, ReleasePCs, config, beliefs, hardware,
         TypeOK, ModeInv, LevelInv, Levels, AllModes
<1>6. exited' = "no" => AlignedInv'
  BY DEF TestStep, place_all_pages, IInv, TypeOK, AllModes, ModeInv,
         MigrationPCs, TestPCs, AlignedInv, Placing, config, beliefs
<1> QED BY <1>1, <1>2, <1>3, <1>4, <1>5, <1>6 DEF IInv

\* The test goes on from the ratio it placed.
LEMMA TestNextIInv == ASSUME IInv, TestNext PROVE IInv'
<1>1. TypeOK'
  BY DEF TestNext, ADAPTATION_STEP, IInv, TypeOK, PCs, MemcachedReads,
         XapianReads, Actuations, config, beliefs, hardware, collector
<1>2. exited' = "no" => ModeInv'
  BY DEF TestNext, ADAPTATION_STEP, IInv, ModeInv, TestPCs, MigrationPCs,
         config, beliefs, hardware
<1>3. exited' = "no" => LevelInv'
  BY DEF TestNext, ADAPTATION_STEP, IInv, LevelInv, BandwidthCoherent,
         OuterLoopUnthrottled, MigrationThrottled, MigrationPCs, ReleasePCs,
         config, beliefs, hardware
<1>4. exited' = "no" => SlackInv'
  BY DEF TestNext, ADAPTATION_STEP, IInv, SlackInv, config, beliefs, hardware
<1>5. exited' = "no" => RatioInv'
  BY DEF TestNext, ADAPTATION_STEP, IInv, RatioInv, Placing, TestPCs,
         InnerPCs, MigrationPCs, ReleasePCs, config, beliefs, hardware
<1>6. exited' = "no" => AlignedInv'
  BY DEF TestNext, ADAPTATION_STEP, IInv, AlignedInv, Placing, AlignedRatios,
         config, beliefs, hardware
<1> QED BY <1>1, <1>2, <1>3, <1>4, <1>5, <1>6 DEF IInv

\* The return from main ends the process.
LEMMA TestReturnIInv == ASSUME IInv, TestReturn PROVE IInv'
<1>1. TypeOK'
  BY DEF TestReturn, IInv, TypeOK, PCs, MemcachedReads, XapianReads,
         Actuations, config, beliefs, hardware, collector
<1>2. exited' # "no"
  BY DEF TestReturn
<1> QED BY <1>1, <1>2 DEF IInv

\* A faulting read ends the process.
LEMMA RacyCrashIInv == ASSUME IInv, RacyCrash PROVE IInv'
<1>1. TypeOK'
  BY DEF RacyCrash, IInv, TypeOK, PCs, MemcachedReads, XapianReads,
         Actuations, config, beliefs, hardware, collector
<1>2. exited' # "no"
  BY DEF RacyCrash
<1> QED BY <1>1, <1>2 DEF IInv

\* Appending a sample leaves the main thread alone.
LEMMA PushIInv == ASSUME IInv, Push PROVE IInv'
<1>1. TypeOK'
  BY OtherLcaType, BoundAssumption DEF Push, TypeOK, IInv, config, beliefs,
         hardware
<1>2. exited' = "no" =>
        ModeInv' /\ LevelInv' /\ SlackInv' /\ RatioInv' /\ AlignedInv'
  BY DEF Push, IInv, ModeInv, LevelInv, SlackInv, RatioInv, AlignedInv,
         TestPCs, MigrationPCs, BandwidthCoherent, OuterLoopUnthrottled,
         MigrationThrottled, ReleasePCs, Placing, InnerPCs, config, beliefs,
         hardware
<1> QED BY <1>1, <1>2 DEF IInv

\* So does the start of a reallocation.
LEMMA BeginGrowIInv == ASSUME IInv, BeginGrow PROVE IInv'
<1>1. TypeOK'
  BY SlackAssumption, BoundAssumption, RatioAssumption
     DEF IInv, TypeOK, ModeInv, LevelInv, SlackInv, RatioInv, AlignedInv,
         config, beliefs, hardware, collector, BeginGrow, AllModes, Levels,
         Lcas, PCs, MemcachedReads, XapianReads, Actuations
<1>2. exited' = "no" =>
        ModeInv' /\ LevelInv' /\ SlackInv' /\ RatioInv' /\ AlignedInv'
  BY DEF BeginGrow, IInv, ModeInv, LevelInv, SlackInv, RatioInv, AlignedInv,
         TestPCs, MigrationPCs, BandwidthCoherent, OuterLoopUnthrottled,
         MigrationThrottled, ReleasePCs, Placing, InnerPCs, config, beliefs,
         hardware
<1> QED BY <1>1, <1>2 DEF IInv

\* So does its end.
LEMMA EndGrowIInv == ASSUME IInv, EndGrow PROVE IInv'
<1>1. TypeOK'
  BY OtherLcaType, BoundAssumption DEF EndGrow, TypeOK, IInv, config, beliefs,
         hardware
<1>2. exited' = "no" =>
        ModeInv' /\ LevelInv' /\ SlackInv' /\ RatioInv' /\ AlignedInv'
  BY DEF EndGrow, IInv, ModeInv, LevelInv, SlackInv, RatioInv, AlignedInv,
         TestPCs, MigrationPCs, BandwidthCoherent, OuterLoopUnthrottled,
         MigrationThrottled, ReleasePCs, Placing, InnerPCs, config, beliefs,
         hardware
<1> QED BY <1>1, <1>2 DEF IInv

\* SIGINT ends the process.
LEMMA InterruptIInv == ASSUME IInv, Interrupt PROVE IInv'
<1>1. TypeOK'
  BY SlackAssumption, BoundAssumption, RatioAssumption
     DEF IInv, TypeOK, ModeInv, LevelInv, SlackInv, RatioInv, AlignedInv,
         config, beliefs, hardware, collector, Interrupt, HandlerExit,
         ResetLevels, AllModes, Levels, Lcas, PCs, MemcachedReads,
         XapianReads, Actuations
<1>2. exited' # "no"
  BY DEF Interrupt, HandlerExit, ResetLevels
<1> QED BY <1>1, <1>2 DEF IInv
-----------------------------------------------------------------------------
(* The invariant of the specification.                                      *)

\* Every start of the program, in every mode, satisfies the invariant.
LEMMA InitIInv == Init => IInv
<1> SUFFICES ASSUME Init PROVE IInv
  OBVIOUS
<1> USE DEF Init
<1>1. mode \in AllModes /\ current_remote_ratio \in Nat /\ weight \in Int
  BY ModesAssumption, RatioAssumption
<1>2. pc \in {"head", "test"} /\ (pc = "test" <=> mode = "bw_manager_test")
  OBVIOUS
<1>3. TypeOK
  <2>1. slack \in [Lcas -> Slacks] /\ samples \in [Lcas -> Slacks]
    BY SlackAssumption
  <2>2. pc \in PCs /\ pushing \in Lcas
    BY <1>2 DEF PCs, MemcachedReads, Actuations, Lcas
  <2>3. grows \in 0 .. MaxGrows
    BY BoundAssumption
  <2> QED BY <1>1, <2>1, <2>2, <2>3 DEF TypeOK, Levels
<1>4. ModeInv /\ LevelInv /\ SlackInv
  BY <1>1, <1>2
  DEF AllModes, ModeInv, LevelInv, SlackInv, BandwidthCoherent,
      OuterLoopUnthrottled, MigrationThrottled, MigrationPCs, ReleasePCs,
      TestPCs
<1>5. RatioInv /\ AlignedInv
  BY <1>1, <1>2
  DEF RatioInv, AlignedInv, Placing, TestPCs, InnerPCs, MigrationPCs, ReleasePCs
<1> QED BY <1>3, <1>4, <1>5 DEF IInv

\* Every step preserves the invariant.
LEMMA NextIInv == IInv /\ [Next]_vars => IInv'
<1> SUFFICES ASSUME IInv, [Next]_vars PROVE IInv'
  OBVIOUS
<1>1. CASE MainStep
  BY <1>1, ReadHeadIInv, abc_numaIInv, page_migration_onlyIInv, mba_10IInv,
     linux_defaultIInv, ThrottleIInv, ReadInnerIInv, LeaveInnerIInv,
     ChooseZoneIInv, CheckDangerIInv, StartReleaseIInv, ReleaseStepIInv,
     ReadReleaseIInv, JudgeReleaseIInv, RevertIInv, StartMigrationIInv,
     MigrationStepIInv, ReadMigrationIInv, JudgeMigrationIInv, StartTestIInv,
     TestStepIInv, TestNextIInv, TestReturnIInv
  DEF MainStep
<1>2. CASE Push \/ BeginGrow \/ EndGrow
  BY <1>2, PushIInv, BeginGrowIInv, EndGrowIInv
<1>3. CASE RacyCrash \/ Interrupt
  BY <1>3, RacyCrashIInv, InterruptIInv
<1>4. CASE UNCHANGED vars
  BY <1>4
  DEF vars, config, beliefs, hardware, collector, IInv, TypeOK, ModeInv,
      LevelInv, SlackInv, RatioInv, AlignedInv, BandwidthCoherent,
      OuterLoopUnthrottled, MigrationThrottled
<1> QED BY <1>1, <1>2, <1>3, <1>4 DEF Next, Done

\* The inductive invariant holds in every reachable state.
THEOREM Invariance == Spec => []IInv
BY InitIInv, NextIInv, PTL DEF Spec

-----------------------------------------------------------------------------
(* The properties.                                                          *)

\* Every variable keeps its type.
THEOREM TypeCorrect == Spec => []TypeOK
<1>1. IInv => TypeOK
  BY DEF IInv
<1> QED BY <1>1, Invariance, PTL

\* What abc_numa, mba_10 and release_mba believe of the bandwidth is what the
\* hardware does, whenever they test it.
THEOREM Coherence == Spec => []BandwidthCoherent
<1>1. IInv => BandwidthCoherent
  BY DEF IInv, LevelInv, BandwidthCoherent
<1> QED BY <1>1, Invariance, PTL

\* abc_numa is back at its outer loop only with the bandwidth released.
THEOREM Unthrottled == Spec => []OuterLoopUnthrottled
<1>1. IInv => OuterLoopUnthrottled
  BY DEF IInv, LevelInv, OuterLoopUnthrottled
<1> QED BY <1>1, Invariance, PTL

\* abc_numa migrates pages only while the bandwidth is throttled.
THEOREM Throttled == Spec => []MigrationThrottled
<1>1. IInv => MigrationThrottled
  BY DEF IInv, LevelInv, MigrationThrottled
<1> QED BY <1>1, Invariance, PTL

\* The recorded ratio is the ratio of the pages, from aligned start ratios.
THEOREM Tracked == Spec => []PlacementTracked
<1>1. IInv => PlacementTracked
  <2> SUFFICES ASSUME IInv, placed \in AlignedRatios, exited = "no",
                      mode # "bw_manager_test", pc \notin Placing
               PROVE  placed = current_remote_ratio
    BY DEF PlacementTracked
  <2>1. current_remote_ratio <= 100
    BY DEF IInv, AlignedInv, AlignedRatios
  <2>2. pc \notin TestPCs
    BY DEF IInv, TypeOK, AllModes, ModeInv, MigrationPCs, TestPCs
  <2> QED BY <2>1, <2>2 DEF IInv, RatioInv
<1> QED BY <1>1, Invariance, PTL

\* Pages only move towards the remote node, one step of ten at a time.
THEOREM PagesByStep == Spec => PagesMoveByStep
<1> DEFINE Step == placed' \in {placed, placed + ADAPTATION_STEP}
<1>1. IInv /\ [Next]_vars => [Step]_vars
  <2> SUFFICES ASSUME IInv, [Next]_vars, vars' # vars PROVE Step
    OBVIOUS
  <2>1. CASE MigrationStep
    BY <2>1 DEF MigrationStep, place_all_pages, hardware, IInv, RatioInv
  <2>2. CASE TestStep
    BY <2>2 DEF TestStep, place_all_pages, hardware, IInv, RatioInv
  <2>3. CASE MainStep /\ ~MigrationStep /\ ~TestStep
    BY <2>3
    DEF MainStep, hardware, ReadHead, ReadMemcached, abc_numa, ReadXapian,
        page_migration_only, mba_10, linux_default, Throttle, apply_mba,
        ReadInner, LeaveInner, ChooseZone, CheckDanger, StartRelease,
        ReleaseStep, ReadRelease, JudgeRelease, Revert, StartMigration,
        ReadMigration, JudgeMigration, StartTest, TestNext, TestReturn
  <2>4. CASE ~MainStep
    BY <2>4
    DEF Next, hardware, RacyCrash, Push, BeginGrow, EndGrow, Interrupt, Done,
        vars
  <2> QED BY <2>1, <2>2, <2>3, <2>4
<1> QED BY <1>1, Invariance, PTL DEF Spec, PagesMoveByStep, Step

\* The bandwidth of a running program is raised only in the green zone, and
\* then to the next level of the ladder.
THEOREM ReleasesJustified == Spec => ReleaseJustified
<1> DEFINE Step == mba' > mba /\ exited' = "no"
                   => Green(slack) /\ mba' = NextLevel(mba + 10)
<1>1. IInv /\ [Next]_vars => [Step]_vars
  <2> SUFFICES ASSUME IInv, [Next]_vars, mba' > mba, exited' = "no"
               PROVE  Green(slack) /\ mba' = NextLevel(mba + 10)
    OBVIOUS
  <2>1. mba \in Levels
    BY DEF IInv, TypeOK
  <2>2. CASE ReleaseStep
    BY <2>2 DEF ReleaseStep, apply_mba, IInv, LevelInv, SlackInv
  <2>3. CASE Throttle
    BY <2>1, <2>3 DEF Throttle, apply_mba, Levels
  <2>4. CASE Revert
    BY <2>1, <2>4 DEF Revert, apply_mba, Levels, IInv, LevelInv
  <2>5. CASE MainStep /\ ~ReleaseStep /\ ~Throttle /\ ~Revert
    <3>1. mba' = mba
      BY <2>5
      DEF MainStep, hardware, ReadHead, ReadMemcached, abc_numa, ReadXapian,
          page_migration_only, mba_10, linux_default, ReadInner, LeaveInner,
          ChooseZone, CheckDanger, StartRelease, ReadRelease, JudgeRelease,
          StartMigration, MigrationStep, place_all_pages, HandlerExit,
          ReadMigration, JudgeMigration, StartTest, TestStep, TestNext,
          TestReturn
    <3> QED BY <3>1, <2>1 DEF Levels
  <2>6. CASE ~MainStep
    <3>1. mba' = mba
      BY <2>6
      DEF Next, hardware, RacyCrash, Push, BeginGrow, EndGrow, Interrupt,
          HandlerExit, Done, vars
    <3> QED BY <3>1, <2>1 DEF Levels
  <2> QED BY <2>2, <2>3, <2>4, <2>5, <2>6
<1> QED BY <1>1, Invariance, PTL DEF Spec, ReleaseJustified, Step

-----------------------------------------------------------------------------
(* The modes implement BandwidthPolicy.                                     *)

\* A read is an observation of the policy.
LEMMA ReadObserves ==
    ASSUME exited = "no", TypeOK',
           UNCHANGED <<mode, mba, placed, exited>>
    PROVE  Policy!Observe
BY DEF Policy!Observe, TypeOK

\* The death of the process is the end of the policy.
LEMMA DeathQuits ==
    ASSUME exited = "no", exited' # "no", TypeOK',
           mba' \in {mba, 100},
           placed' \in {placed, placed + 10},
           UNCHANGED <<mode, slack>>
    PROVE  Policy!Quit
BY DEF Policy!Quit

\* A migration step, of any mode, is a migration of the policy, or leaves the
\* pages where they are, or ends both.
LEMMA PlacingRefines ==
    ASSUME exited = "no", TypeOK', placed \in Nat, i <= 100,
           i = placed \/ i = placed + 10,
           i # placed => Policy!MayMigrate,
           place_all_pages(i, pc')
    PROVE  [Policy!Next]_Policy!vars
<1>1. UNCHANGED <<mode, slack>>
  BY DEF place_all_pages, config
<1>2. CASE exited' = "no"
  <2>1. placed' = i /\ UNCHANGED <<mba, exited>>
    BY <1>2 DEF place_all_pages, HandlerExit
  <2>2. CASE i = placed
    BY <1>1, <2>1, <2>2 DEF Policy!vars
  <2>3. CASE i # placed
    BY <1>1, <2>1, <2>3 DEF Policy!Migrate, Policy!Next
  <2> QED BY <2>2, <2>3
<1>3. CASE exited' # "no"
  <2>1. mba' \in {mba, 100} /\ placed' \in {placed, placed + 10}
    BY <1>3 DEF place_all_pages, HandlerExit, ResetLevels, hardware
  <2> QED BY <1>1, <1>3, <2>1, DeathQuits DEF Policy!Next
<1> QED BY <1>2, <1>3

\* The steps of a running program, mapped one by one.
LEMMA StepRefines ==
    ASSUME IInv, IInv', Next
    PROVE  [Policy!Next]_Policy!vars
<1> USE DEF IInv
<1>1. CASE \/ ReadHead \/ ReadInner \/ ReadMigration \/ ReadRelease
           \/ abc_numa \/ page_migration_only \/ mba_10 \/ linux_default
           \/ ChooseZone \/ JudgeRelease \/ JudgeMigration
  <2>1. exited = "no" /\ UNCHANGED <<mode, mba, placed, exited>>
    BY <1>1
    DEF ReadHead, ReadInner, ReadMigration, ReadRelease, ReadMemcached,
        abc_numa, page_migration_only, mba_10, linux_default, ChooseZone,
        JudgeRelease, JudgeMigration, ReadXapian, config, hardware
  <2> QED BY <2>1, ReadObserves DEF Policy!Next
<1>2. CASE \/ LeaveInner \/ CheckDanger \/ StartRelease \/ StartMigration
           \/ StartTest \/ TestNext \/ Push \/ BeginGrow \/ EndGrow \/ Done
  BY <1>2
  DEF LeaveInner, CheckDanger, StartRelease, StartMigration, StartTest,
      TestNext, Push, BeginGrow, EndGrow, Done, vars, config, hardware,
      Policy!vars
<1>3. CASE TestReturn
  <2>1. exited = "no" /\ exited' # "no" /\ UNCHANGED <<mode, mba, placed, slack>>
    BY <1>3 DEF TestReturn, config, hardware
  <2> QED BY <2>1, DeathQuits DEF Policy!Next
<1>4. CASE Throttle
  <2>1. /\ exited = "no" /\ mba = 100 /\ placed # 0 /\ Violated(slack)
        /\ mode \in {"abc_numa", "mba_10"} /\ mode' = mode
    <3>1. exited = "no" /\ pc = "throttle" /\ mode' = mode
      BY <1>4 DEF Throttle, apply_mba, config
    <3>2. mode \in {"abc_numa", "mba_10"}
      BY <3>1 DEF ModeInv, TypeOK, AllModes, MigrationPCs, TestPCs
    <3> QED BY <3>1, <3>2 DEF LevelInv, SlackInv, RatioInv
  <2>2. CASE exited' = "no"
    <3>1. mba' = 10 /\ UNCHANGED <<placed, slack, exited>>
      BY <1>4, <2>1, <2>2 DEF Throttle, apply_mba
    <3>2. Policy!InDanger
      BY <2>1 DEF Policy!InDanger, Violated
    <3> QED BY <2>1, <3>1, <3>2 DEF Policy!Engage, Policy!Next
  <2>3. CASE exited' # "no"
    <3>1. UNCHANGED <<mba, placed, slack>>
      BY <1>4, <2>1, <2>3 DEF Throttle, apply_mba
    <3> QED BY <2>1, <2>3, <3>1, DeathQuits DEF Policy!Next
  <2> QED BY <2>2, <2>3
<1>5. CASE ReleaseStep
  <2>1. /\ exited = "no" /\ mba \in Levels \ {100}
        /\ i = NextLevel(mba + 10) /\ Green(slack)
        /\ mode = "abc_numa" /\ mode' = mode
    BY <1>5
    DEF ReleaseStep, apply_mba, LevelInv, SlackInv, TypeOK, ModeInv, AllModes,
        MigrationPCs, TestPCs, config
  <2>2. CASE exited' = "no"
    <3>1. mba' = NextLevel(mba + 10) /\ UNCHANGED <<placed, slack, exited>>
      BY <1>5, <2>1, <2>2 DEF ReleaseStep, apply_mba
    <3>2. mba' = IF mba = 60 THEN 90 ELSE mba + 10
      BY <2>1, <3>1 DEF NextLevel, Levels
    <3>3. Policy!InGreen
      BY <2>1 DEF Policy!InGreen, Green
    <3> QED BY <2>1, <3>1, <3>2, <3>3 DEF Policy!Raise, Policy!Next
  <2>3. CASE exited' # "no"
    <3>1. UNCHANGED <<mba, placed, slack>>
      BY <1>5, <2>1, <2>3 DEF ReleaseStep, apply_mba
    <3> QED BY <2>1, <2>3, <3>1, DeathQuits DEF Policy!Next
  <2> QED BY <2>2, <2>3
<1>6. CASE Revert
  <2>1. /\ exited = "no" /\ mba \in Levels \ {10} /\ i = mba
        /\ ~Green(slack) /\ mode = "abc_numa" /\ mode' = mode
    BY <1>6
    DEF Revert, apply_mba, LevelInv, SlackInv, TypeOK, ModeInv, AllModes,
        MigrationPCs, TestPCs, config
  <2>2. CASE exited' = "no"
    <3>1. mba' = mba - 10 /\ UNCHANGED <<placed, slack, exited>>
      BY <1>6, <2>1, <2>2 DEF Revert, apply_mba
    <3>2. mba > 10
      BY <2>1 DEF Levels
    <3>3. ~Policy!InGreen
      BY <2>1 DEF Policy!InGreen, Green
    <3> QED BY <2>1, <3>1, <3>2, <3>3 DEF Policy!Lower, Policy!Next
  <2>3. CASE exited' # "no"
    <3>1. UNCHANGED <<mba, placed, slack>>
      BY <1>6, <2>1, <2>3 DEF Revert, apply_mba
    <3> QED BY <2>1, <2>3, <3>1, DeathQuits DEF Policy!Next
  <2> QED BY <2>2, <2>3
<1>7. CASE MigrationStep
  <2>1. /\ exited = "no" /\ pc = "migStep" /\ place_all_pages(i, "migRead")
        /\ i = placed + 10 /\ i <= 100 /\ placed \in Nat
    BY <1>7
    DEF MigrationStep, place_all_pages, RatioInv, Placing, TypeOK,
        ADAPTATION_STEP
  <2>2. place_all_pages(i, pc')
    BY <2>1 DEF place_all_pages
  <2>3. Policy!MayMigrate
    <3>1. mode \in {"abc_numa", "page_migration_only"}
      BY <2>1 DEF ModeInv, TypeOK, AllModes, TestPCs
    <3>2. mode = "abc_numa" => mba # 100 /\ slack["memcached"] <= slack_up
      BY <2>1 DEF LevelInv, MigrationThrottled, MigrationPCs, SlackInv
    <3>3. \E l \in Lcas : slack[l] <= slack_up
      BY <2>1 DEF SlackInv, NoSlack
    <3> QED BY <3>1, <3>2, <3>3 DEF Policy!MayMigrate
  <2> QED BY <2>1, <2>2, <2>3, PlacingRefines
<1>8. CASE TestStep
  <2>1. /\ exited = "no" /\ pc = "testStep" /\ place_all_pages(i, "testNext")
        /\ i \in {placed, placed + 10} /\ i <= 100 /\ placed \in Nat
    BY <1>8
    DEF TestStep, place_all_pages, RatioInv, TypeOK, ADAPTATION_STEP
  <2>2. place_all_pages(i, pc')
    BY <2>1 DEF place_all_pages
  <2>3. Policy!MayMigrate
    BY <2>1
    DEF Policy!MayMigrate, ModeInv, TypeOK, AllModes, MigrationPCs, TestPCs
  <2> QED BY <2>1, <2>2, <2>3, PlacingRefines
<1>9. CASE RacyCrash \/ Interrupt
  <2>1. /\ exited = "no" /\ exited' # "no"
        /\ mba' \in {mba, 100} /\ UNCHANGED <<mode, placed, slack>>
    BY <1>9
    DEF RacyCrash, Interrupt, HandlerExit, ResetLevels, config, hardware
  <2> QED BY <2>1, DeathQuits DEF Policy!Next
<1> QED
  BY <1>1, <1>2, <1>3, <1>4, <1>5, <1>6, <1>7, <1>8, <1>9 DEF Next, MainStep

\* The program keeps the contract of BandwidthPolicy in every mode: every cut,
\* raise and lowering of the bandwidth and every migration happens under the
\* conditions the contract states for that mode.
THEOREM PolicyRefinement == Spec => PolicySpec
<1>1. Init => Policy!Init
  BY SlackAssumption DEF Init, Policy!Init
<1>2. IInv /\ IInv' /\ [Next]_vars => [Policy!Next]_Policy!vars
  <2>1. UNCHANGED vars => UNCHANGED Policy!vars
    BY DEF vars, config, hardware, Policy!vars
  <2> QED BY <2>1, StepRefines
<1> QED BY <1>1, <1>2, Invariance, PTL DEF Spec, PolicySpec, Policy!Spec

-----------------------------------------------------------------------------
(* The measurement thread beside the loops.                                 *)

\* There is one other LCA.
LEMMA OtherLcaIs == \A l \in Lcas : Lcas \ {l} = {OtherLca(l)}
BY DEF OtherLca, Lcas

\* Only the measurement thread touches what it shares.
LEMMA CollectorApart ==
    ASSUME MainStep \/ RacyCrash \/ Interrupt
    PROVE  UNCHANGED collector
BY DEF MainStep, RacyCrash, Interrupt, ReadMemcached, ReadXapian, apply_mba,
   place_all_pages, ReadHead, abc_numa, page_migration_only, mba_10, linux_default,
   Throttle, ReadInner, LeaveInner, ChooseZone, CheckDanger, StartRelease, ReleaseStep,
   ReadRelease, JudgeRelease, Revert, StartMigration, MigrationStep, ReadMigration,
   JudgeMigration, StartTest, TestStep, TestNext, TestReturn

\* The loops run beside the measurement thread of Collector.
THEOREM CollectorRefinement == Spec => CollectorSpec
<1>1. Init => Environment!Init
  BY DEF Init, Environment!Init
<1>2. TypeOK /\ [Next]_vars => [Environment!Next]_Environment!vars
  <2> SUFFICES ASSUME TypeOK, [Next]_vars
               PROVE  [Environment!Next]_Environment!vars
    OBVIOUS
  <2>1. CASE UNCHANGED collector
    BY <2>1 DEF collector, Environment!vars
  <2>2. CASE Push
    BY <2>2, OtherLcaIs DEF Push, TypeOK, Environment!Next, Environment!Append,
       Environment!Appended
  <2>3. CASE BeginGrow
    BY <2>3 DEF BeginGrow, Environment!Next, Environment!Move
  <2>4. CASE EndGrow
    BY <2>4, OtherLcaIs DEF EndGrow, TypeOK, Environment!Next, Environment!Settle,
       Environment!Appended
  <2> QED
    BY <2>1, <2>2, <2>3, <2>4, CollectorApart DEF Next, vars, Done
<1> QED
  BY <1>1, <1>2, TypeCorrect, PTL DEF Spec, CollectorSpec, Environment!Spec

\* And beside all of it: while the program runs, every step of Collector is a
\* step of Controller that leaves the main thread where it is, until the bound on
\* the reallocations is met.  With the refinement this makes the environment of
\* the loops exactly Collector.
THEOREM CollectorUnrestricted ==
  ASSUME TypeOK, exited = "no", grows < MaxGrows,
         Environment!Next,
         UNCHANGED <<config, pc, beliefs, slack, hardware, exited>>,
         grows' = IF growing' /\ ~growing THEN grows + 1 ELSE grows
  PROVE  Push \/ BeginGrow \/ EndGrow
<1>1. CASE Environment!Append
  BY <1>1, OtherLcaIs DEF Push, TypeOK, Environment!Append, Environment!Appended
<1>2. CASE Environment!Move
  BY <1>2 DEF BeginGrow, TypeOK, Environment!Move
<1>3. CASE Environment!Settle
  BY <1>3, OtherLcaIs DEF EndGrow, TypeOK, Environment!Settle, Environment!Appended
<1> QED
  BY <1>1, <1>2, <1>3 DEF Environment!Next

-----------------------------------------------------------------------------
(* The length of a release, of a migration and of the test.                 *)

\* The first level or ratio of a loop leaves less than 400 steps.
LEMMA FirstIsLess == \A n \in Nat : n >= 1 => 4 * (100 - n) + 3 < 400
OBVIOUS

\* The next one leaves less than the reads of the one before.
LEMMA NextIsLess ==
    \A m, n \in Nat : m < n => 4 * (100 - n) + 3 < 4 * (100 - m) + 1
OBVIOUS

\* What is left of a call is a natural number.
LEMMA LeftType ==
    ASSUME IInv, exited = "no", pc \in UNION Calls
    PROVE  Left \in 0 .. 403
<1>1. pc \in {"release", "migrate", "test"} \cup ReleasePCs \cup Placing
             \cup {"testStep", "testNext"}
  BY DEF Calls, MigrationPCs, Placing
<1>2. CASE pc \in {"release", "migrate", "test"}
  BY <1>2 DEF Left
<1>3. CASE pc \in ReleasePCs
  <2>1. i \in {10, 20, 30, 40, 50, 60, 80, 90, 100}
    BY <1>3 DEF IInv, TypeOK, LevelInv, Levels, NextLevel, ReleasePCs
  <2> QED
    BY <1>3, <2>1 DEF Left, Ahead, ReleasePCs
<1>4. CASE pc \in Placing
  <2>1. i \in Nat /\ 1 <= i /\ i <= 100
    BY <1>4 DEF IInv, RatioInv
  <2> QED
    BY <1>4, <2>1 DEF Left, Ahead, Placing
<1>5. CASE pc = "testStep"
  <2>1. i \in Nat
    BY DEF IInv, TypeOK
  <2>2. CASE i > 100
    BY <1>5, <2>2 DEF Left
  <2>3. CASE ~(i > 100)
    <3>1. Left = 4 * (100 - i) + 3 /\ i <= 100
      BY <1>5, <2>1, <2>3 DEF Left, Ahead
    <3> QED
      BY <2>1, <3>1
  <2> QED
    BY <2>2, <2>3
<1>6. CASE pc = "testNext"
  <2>1. i \in Nat /\ i <= 100
    BY <1>6 DEF IInv, TypeOK, RatioInv
  <2> QED
    BY <1>6, <2>1 DEF Left, Ahead
<1> QED
  BY <1>1, <1>2, <1>3, <1>4, <1>5, <1>6

\* A release: the loop variable is a level, and the next one is higher.
LEMMA ReleaseShrinks ==
    ASSUME IInv, IInv', exited' = "no", NEW c, c = {"release"} \cup ReleasePCs,
           StartRelease \/ ReleaseStep \/ ReadRelease \/ JudgeRelease \/ Revert,
           pc' \in c \ {pc}
    PROVE  Left' < Left
<1>1. i \in Nat /\ i' \in Nat /\ optimal_mba \in Nat /\ current_remote_ratio \in Nat
  BY DEF IInv, TypeOK
<1>2. CASE StartRelease
  <2>1. pc = "release" /\ pc' = "relStep"
    BY <1>2 DEF StartRelease
  <2>2. i' >= 1
    BY <1>2, <2>1 DEF StartRelease, IInv, LevelInv, BandwidthCoherent, ReleasePCs, TypeOK,
       Levels, NextLevel
  <2>3. Left = 400 /\ Left' = 4 * (100 - i') + 3
    BY <2>1 DEF Left, Ahead
  <2> QED
    BY <1>1, <2>2, <2>3, FirstIsLess
<1>3. CASE ReleaseStep
  <2>1. pc = "relStep" /\ pc' = "relRead" /\ i' = i
    BY <1>3 DEF ReleaseStep, apply_mba, beliefs
  <2> QED
    BY <1>1, <2>1 DEF Left, Ahead
<1>4. CASE ReadRelease
  <2>1. pc = "relRead" /\ pc' = "relReadx" /\ i' = i
    BY <1>4 DEF ReadRelease, ReadMemcached, beliefs
  <2> QED
    BY <1>1, <2>1 DEF Left, Ahead
<1>5. CASE JudgeRelease
  <2>1. pc = "relReadx"
    BY <1>5 DEF JudgeRelease, ReadXapian
  <2>2. \/ pc' = "relStep" /\ i' \in {i + 10, 90} /\ i < i'
        \/ pc' = "revert" /\ i' = i
    <3>1. i \in Levels
      BY <2>1, <1>5 DEF JudgeRelease, ReadXapian, IInv, LevelInv, TypeOK
    <3> QED
      BY <1>5, <3>1 DEF JudgeRelease, NextLevel, Levels, ReleasePCs
  <2>3. CASE pc' = "relStep"
    <3>1. Left = 4 * (100 - i) + 1 /\ Left' = 4 * (100 - i') + 3
      BY <2>1, <2>3 DEF Left, Ahead
    <3> QED
      BY <1>1, <2>2, <2>3, <3>1, NextIsLess
  <2>4. CASE pc' = "revert"
    <3>1. Left = 4 * (100 - i) + 1 /\ Left' = 4 * (100 - i)
      BY <2>1, <2>2, <2>4 DEF Left, Ahead
    <3> QED
      BY <1>1, <3>1
  <2> QED
    BY <2>2, <2>3, <2>4
<1>6. CASE Revert
  BY <1>6 DEF Revert, apply_mba, ReleasePCs
<1> QED
  BY <1>2, <1>3, <1>4, <1>5, <1>6

\* A migration: the loop variable is a ratio, and the next one is higher.
LEMMA MigrationShrinks ==
    ASSUME IInv, IInv', exited' = "no",
           StartMigration \/ MigrationStep \/ ReadMigration \/ JudgeMigration,
           pc' \in MigrationPCs \ {pc}
    PROVE  Left' < Left
<1>1. i \in Nat /\ i' \in Nat
  BY DEF IInv, TypeOK
<1>2. CASE StartMigration
  <2>1. pc = "migrate" /\ pc' = "migStep"
    BY <1>2 DEF StartMigration, MigrationCaller, MigrationPCs
  <2>2. i' \in Nat /\ i' >= 1
    BY <2>1 DEF IInv, RatioInv, Placing
  <2>3. Left = 400 /\ Left' = 4 * (100 - i') + 3
    BY <2>1 DEF Left, Ahead
  <2> QED
    BY <2>2, <2>3, FirstIsLess
<1>3. CASE MigrationStep
  <2>1. pc = "migStep" /\ pc' = "migRead" /\ i' = i
    BY <1>3 DEF MigrationStep, place_all_pages, beliefs
  <2> QED
    BY <1>1, <2>1 DEF Left, Ahead
<1>4. CASE ReadMigration
  <2>1. pc = "migRead" /\ pc' = "migReadx" /\ i' = i
    BY <1>4 DEF ReadMigration, ReadMemcached, beliefs
  <2> QED
    BY <1>1, <2>1 DEF Left, Ahead
<1>5. CASE JudgeMigration
  <2>1. pc = "migReadx" /\ pc' = "migStep" /\ i' = i + 10
    BY <1>5 DEF JudgeMigration, ReadXapian, MigrationCaller, MigrationPCs,
       ADAPTATION_STEP
  <2> QED
    BY <1>1, <2>1 DEF Left, Ahead
<1> QED
  BY <1>2, <1>3, <1>4, <1>5

\* The test.
LEMMA TestShrinks ==
    ASSUME IInv, IInv', exited' = "no",
           StartTest \/ TestStep \/ TestNext \/ TestReturn,
           pc' \in TestPCs \ {pc}
    PROVE  Left' < Left
<1>1. i \in Nat /\ i' \in Nat /\ current_remote_ratio \in Nat
  BY DEF IInv, TypeOK
<1>2. CASE StartTest
  <2>1. pc = "test" /\ pc' = "testStep" /\ i' >= 10
    BY <1>1, <1>2 DEF StartTest, ADAPTATION_STEP
  <2>2. Left = 400 /\ Left' = IF i' > 100 THEN 0 ELSE 4 * (100 - i') + 3
    BY <2>1 DEF Left, Ahead
  <2>3. i' \in Nat /\ i' >= 1
    BY <1>1, <2>1
  <2>4. CASE i' > 100
    BY <2>2, <2>4
  <2>5. CASE ~(i' > 100)
    BY <2>2, <2>3, <2>5, FirstIsLess
  <2> QED
    BY <2>4, <2>5
<1>3. CASE TestStep
  <2>1. pc = "testStep" /\ i <= 100 /\ pc' = "testNext" /\ i' = i
    BY <1>3 DEF TestStep, place_all_pages, beliefs
  <2> QED
    BY <1>1, <2>1 DEF Left, Ahead
<1>4. CASE TestNext
  <2>1. pc = "testNext" /\ pc' = "testStep" /\ i' = i + 10
    BY <1>4 DEF TestNext, ADAPTATION_STEP
  <2>2. i <= 100
    BY <1>4, <2>1 DEF TestNext, IInv, RatioInv, TypeOK
  <2>3. /\ Left = 4 * (100 - i) + 2
        /\ Left' = IF i' > 100 THEN 0 ELSE 4 * (100 - i') + 3
    BY <2>1 DEF Left, Ahead
  <2> QED
    BY <1>1, <2>1, <2>2, <2>3
<1>5. CASE TestReturn
  BY <1>5 DEF TestReturn
<1> QED
  BY <1>2, <1>3, <1>4, <1>5

\* Only the main thread moves, and only while the program runs.
LEMMA MovesMain ==
    ASSUME Next, pc' # pc
    PROVE  MainStep /\ exited' = "no"
<1>1. MainStep
  BY DEF Next, RacyCrash, Push, BeginGrow, EndGrow, Interrupt, Done, vars
<1>2. exited' = "no"
  BY <1>1 DEF MainStep, ReadMemcached, ReadXapian, apply_mba, place_all_pages, ReadHead,
     abc_numa, page_migration_only, mba_10, linux_default, Throttle, ReadInner,
     LeaveInner, ChooseZone, CheckDanger, StartRelease, ReleaseStep, ReadRelease,
     JudgeRelease, Revert, StartMigration, MigrationStep, ReadMigration,
     JudgeMigration, StartTest, TestStep, TestNext, TestReturn
<1> QED
  BY <1>1, <1>2

\* Which action runs at which point of a call.
LEMMA MainPoints ==
    ASSUME MainStep
    PROVE  /\ pc \in {"release"} \cup ReleasePCs
                => StartRelease \/ ReleaseStep \/ ReadRelease \/ JudgeRelease \/ Revert
           /\ pc \in MigrationPCs
                => StartMigration \/ MigrationStep \/ ReadMigration \/ JudgeMigration
           /\ pc \in TestPCs => StartTest \/ TestStep \/ TestNext \/ TestReturn
<1>1. pc \in {"head", "headx", "throttle", "inner", "innerx", "danger"}
      \/ StartRelease \/ ReleaseStep \/ ReadRelease \/ JudgeRelease \/ Revert
      \/ StartMigration \/ MigrationStep \/ ReadMigration \/ JudgeMigration
      \/ StartTest \/ TestStep \/ TestNext \/ TestReturn
  BY DEF MainStep, ReadMemcached, ReadXapian, ReadHead, abc_numa, page_migration_only,
     mba_10, linux_default, Throttle, ReadInner, LeaveInner, ChooseZone, CheckDanger
<1>2. /\ StartRelease \/ ReleaseStep \/ ReadRelease \/ JudgeRelease \/ Revert
           => pc \in {"release"} \cup ReleasePCs
      /\ StartMigration \/ MigrationStep \/ ReadMigration \/ JudgeMigration
           => pc \in MigrationPCs
      /\ StartTest \/ TestStep \/ TestNext \/ TestReturn => pc \in TestPCs
  BY DEF ReadMemcached, ReadXapian, StartRelease, ReleaseStep, ReadRelease,
     JudgeRelease, Revert, StartMigration, MigrationStep, ReadMigration,
     JudgeMigration, StartTest, TestStep, TestNext, TestReturn, ReleasePCs,
     MigrationPCs, TestPCs
<1> QED
  BY <1>1, <1>2 DEF ReleasePCs, MigrationPCs, TestPCs

\* Every step of a release, of a migration and of the test brings what is left of
\* it down, so none of them outlasts its ladder, whatever is measured beside it.
THEOREM CallsBounded ==
    Spec => CallsShrink /\ [](exited = "no" /\ pc \in UNION Calls => Left \in 0 .. 403)
<1>1. ASSUME IInv, IInv', Next, NEW c \in Calls, pc \in c, pc' \in c \ {pc}
      PROVE  Left' < Left
  <2>1. MainStep /\ exited' = "no"
    BY <1>1, MovesMain
  <2>2. CASE c = {"release"} \cup ReleasePCs
    <3>1. StartRelease \/ ReleaseStep \/ ReadRelease \/ JudgeRelease \/ Revert
      BY <1>1, <2>1, <2>2, MainPoints DEF ReleasePCs
    <3> QED
      BY <1>1, <2>1, <2>2, <3>1, ReleaseShrinks
  <2>3. CASE c = MigrationPCs
    <3>1. StartMigration \/ MigrationStep \/ ReadMigration \/ JudgeMigration
      BY <1>1, <2>1, <2>3, MainPoints DEF MigrationPCs
    <3> QED
      BY <1>1, <2>1, <2>3, <3>1, MigrationShrinks
  <2>4. CASE c = TestPCs
    <3>1. StartTest \/ TestStep \/ TestNext \/ TestReturn
      BY <1>1, <2>1, <2>4, MainPoints DEF TestPCs
    <3> QED
      BY <1>1, <2>1, <2>4, <3>1, TestShrinks
  <2> QED
    BY <1>1, <2>2, <2>3, <2>4 DEF Calls, TestPCs
<1>2. IInv /\ IInv' /\ [Next]_vars =>
        [\A c \in Calls : pc \in c /\ pc' \in c \ {pc} => Left' < Left]_vars
  BY <1>1
<1>3. IInv => (exited = "no" /\ pc \in UNION Calls => Left \in 0 .. 403)
  BY LeftType
<1> QED
  BY <1>2, <1>3, Invariance, PTL DEF Spec, CallsShrink

-----------------------------------------------------------------------------
(* The pages behind the loops.                                              *)

\* A call of place_all_pages is one placement, or none, or the end.
LEMMA PlaceIsPlacement ==
    ASSUME placed \in Nat, i \in Nat, i <= 100,
           i = placed \/ i = placed + ADAPTATION_STEP,
           place_all_pages(i, pc')
    PROVE  [Pages!Next]_Pages!vars
<1>1. exited = "no" /\ (i # placed => placed + ADAPTATION_STEP <= 100)
  BY DEF place_all_pages, ADAPTATION_STEP
<1>2. CASE exited' = "no"
  <2>1. placed' = i
    BY <1>2 DEF place_all_pages, HandlerExit
  <2> QED
    BY <1>1, <1>2, <2>1 DEF Pages!Next, Pages!Place, Pages!Room, Pages!vars
<1>3. CASE exited' # "no"
  <2>1. placed' \in {placed, i}
    BY <1>3 DEF place_all_pages, hardware
  <2> QED
    BY <1>1, <1>3, <2>1 DEF Pages!Next, Pages!End, Pages!Room
<1> QED
  BY <1>2, <1>3

\* No other step of the main thread moves a page, and none revives the program.
LEMMA PagesApart ==
    ASSUME Next, ~MigrationStep, ~TestStep
    PROVE  placed' = placed /\ (exited # "no" => exited' = exited)
<1>1. CASE MainStep
  BY <1>1
  DEF MainStep, hardware, ReadHead, ReadMemcached, abc_numa, ReadXapian,
      page_migration_only, mba_10, linux_default, Throttle, apply_mba,
      ReadInner, LeaveInner, ChooseZone, CheckDanger, StartRelease,
      ReleaseStep, ReadRelease, JudgeRelease, Revert, StartMigration,
      ReadMigration, JudgeMigration, StartTest, TestNext, TestReturn
<1>2. CASE ~MainStep
  BY <1>2
  DEF Next, hardware, RacyCrash, Push, BeginGrow, EndGrow, Interrupt, Done, vars
<1> QED
  BY <1>1, <1>2

\* The loops ask of the pages what PagePlacement does: placements one step after
\* the other, none beyond 100 and none after the end.
THEOREM PlacementRefinement == Spec => PlacementSpec
<1>1. Init => Pages!Init
  BY DEF Init, Pages!Init
<1>2. IInv /\ [Next]_vars => [Pages!Next]_Pages!vars
  <2> SUFFICES ASSUME IInv, [Next]_vars PROVE [Pages!Next]_Pages!vars
    OBVIOUS
  <2>1. placed \in Nat /\ i \in Nat
    BY DEF IInv, TypeOK
  <2>2. CASE MigrationStep
    <3>1. i \in 1 .. 100 /\ i = placed + ADAPTATION_STEP
      BY <2>2 DEF MigrationStep, place_all_pages, IInv, RatioInv, Placing
    <3>2. place_all_pages(i, pc')
      BY <2>2 DEF MigrationStep, place_all_pages
    <3> QED
      BY <2>1, <3>1, <3>2, PlaceIsPlacement
  <2>3. CASE TestStep
    <3>1. i <= 100 /\ i \in {placed, placed + ADAPTATION_STEP}
      BY <2>3 DEF TestStep, place_all_pages, IInv, RatioInv
    <3>2. place_all_pages(i, pc')
      BY <2>3 DEF TestStep, place_all_pages
    <3> QED
      BY <2>1, <3>1, <3>2, PlaceIsPlacement
  <2>4. CASE Next /\ ~MigrationStep /\ ~TestStep
    <3>1. placed' = placed /\ (exited # "no" => exited' = exited)
      BY <2>4, PagesApart
    <3>2. CASE exited = "no" /\ exited' # "no"
      BY <3>1, <3>2 DEF Pages!Next, Pages!End
    <3>3. CASE exited # "no" \/ exited' = "no"
      BY <3>1, <3>3 DEF Pages!vars
    <3> QED
      BY <3>2, <3>3
  <2>5. CASE UNCHANGED vars
    BY <2>5 DEF vars, hardware, Pages!vars
  <2> QED
    BY <2>2, <2>3, <2>4, <2>5
<1> QED
  BY <1>1, <1>2, Invariance, PTL DEF Spec, PlacementSpec, Pages!Spec
=============================================================================
