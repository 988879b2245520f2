--------------------------- MODULE MbaSearchProofs ---------------------------
(****************************************************************************)
(* What search_optimal_mba guarantees for every set of loads, every start   *)
(* ratio and every pattern of failures.                                     *)
(****************************************************************************)
EXTENDS MbaSearch, TLAPS

\* The ladder below 40 has two levels, then 0.
LEMMA LadderDown ==
    /\ mba_binary_search(40, 1) = 20
    /\ mba_binary_search(20, 1) = 10
    /\ mba_binary_search(10, 1) = 0
BY DEF mba_binary_search

\* The start.
LEMMA InitIInv == Init => IInv
BY LoadsAssumption DEF Init, IInv, TypeOK, Latencies, PCs, Ladder, LoopInv,
   TrialInv, SearchCoherent, NoControlWithoutCounters

\* The load and the samples are none of the invariant's business.
LEMMA WorldIInv == IInv /\ (ChangeLoad \/ measurement_collector) => IInv'
BY DEF IInv, TypeOK, Latencies, LoopInv, TrialInv, SearchCoherent,
       NoControlWithoutCounters, ChangeLoad, measurement_collector, Reply,
       config, search

\* The outer loop only measures, reads, and enters a search with the level
\* recorded.
LEMMA OuterIInv == IInv /\ (Measure \/ mba_only) => IInv'
<1> SUFFICES ASSUME IInv, Measure \/ mba_only PROVE IInv'
  OBVIOUS
<1> USE DEF IInv, TypeOK, Latencies, PCs, Ladder, MainAt, config, search,
            SearchCoherent, NoControlWithoutCounters, LoopInv, TrialInv
<1>1. CASE Measure
  BY <1>1 DEF Measure, CountersFail
<1>2. CASE mba_only
  BY <1>2 DEF mba_only
<1> QED
  BY <1>1, <1>2

\* A level is given up on, tried, judged or taken back.
LEMMA SearchIInv == IInv /\ Search => IInv'
<1> SUFFICES ASSUME IInv, Search PROVE IInv'
  OBVIOUS
<1> USE DEF IInv, TypeOK, Latencies, PCs, Ladder, MainAt, config, search,
            SearchCoherent, NoControlWithoutCounters, LoopInv, TrialInv
<1>1. CASE GiveUp
  BY <1>1 DEF GiveUp
<1>2. CASE Probe
  BY <1>2 DEF Probe, apply_mba
<1>3. CASE JudgeZero
  BY <1>3 DEF JudgeZero, ReadLatency
<1>4. CASE JudgeMet
  BY <1>4 DEF JudgeMet, ReadLatency
<1>5. CASE JudgeMissed
  <2>1. i \in {40, 20, 10}
    BY <1>5 DEF JudgeMissed, ReadLatency
  <2>2. i' = IF i = 40 THEN 20 ELSE IF i = 20 THEN 10 ELSE 0
    BY <1>5, <2>1, LadderDown DEF JudgeMissed
  <2> QED
    BY <1>5, <2>1, <2>2 DEF JudgeMissed, ReadLatency
<1>6. CASE Revert
  BY <1>6 DEF Revert, apply_mba
<1>7. CASE ProbeFails
  BY <1>7 DEF ProbeFails, CountersFail
<1> QED
  BY <1>1, <1>2, <1>3, <1>4, <1>5, <1>6, <1>7 DEF Search

\* The invariant holds in every reachable state.
THEOREM Invariance == Spec => []IInv
<1>1. IInv /\ [Next]_vars => IInv'
  <2> SUFFICES ASSUME IInv, [Next]_vars PROVE IInv'
    OBVIOUS
  <2>1. CASE Interrupt
    BY <2>1 DEF Interrupt, IInv, TypeOK, config, search, SearchCoherent,
                NoControlWithoutCounters
  <2>2. CASE UNCHANGED vars
    BY <2>2 DEF vars, IInv, TypeOK, config, search, SearchCoherent,
                NoControlWithoutCounters, LoopInv, TrialInv
  <2> QED
    BY <2>1, <2>2, WorldIInv, OuterIInv, SearchIInv DEF Next, MainStep, Done
<1> QED
  BY <1>1, InitIInv, PTL DEF Spec

\* Every variable of the search keeps its type.
THEOREM TypeCorrect == Spec => []TypeOK
BY Invariance, PTL DEF IInv

\* However a search ends, the recorded level is applied.
THEOREM Coherent == Spec => []SearchCoherent
<1>1. IInv => SearchCoherent
  BY DEF IInv, SearchCoherent
<1> QED
  BY <1>1, Invariance, PTL

\* Without likwid the mode never throttles.
THEOREM NoControl == Spec => []NoControlWithoutCounters
BY Invariance, PTL DEF IInv

\* A search gives up on a missed target only at the lowest level.
THEOREM Bottom == Spec => GivesUpAtTheBottom
<1>1. ASSUME IInv, [Next]_vars, Returns, current_latency' = "missed"
      PROVE  mba' = 10
  <2>1. CASE GiveUp
    BY <1>1, <2>1 DEF GiveUp, MainAt, IInv, LoopInv, search
  <2>2. ~Probe /\ ~JudgeZero /\ ~JudgeMissed /\ ~JudgeMet /\ ~ProbeFails
    BY <1>1 DEF Returns, SearchPCs, Probe, apply_mba, JudgeZero, JudgeMissed,
                JudgeMet, ReadLatency, ProbeFails, CountersFail, MainAt
  <2>3. ~Revert
    BY <1>1 DEF Returns, Revert, MainAt, IInv, TrialInv
  <2>4. ~Measure /\ ~mba_only
    BY <1>1 DEF Returns, SearchPCs, Measure, mba_only, MainAt
  <2>5. UNCHANGED pc => ~Returns
    BY DEF Returns, SearchPCs
  <2> QED
    BY <1>1, <2>1, <2>2, <2>3, <2>4, <2>5 DEF Next, MainStep, Search, ChangeLoad,
       measurement_collector, Interrupt, Done, vars
<1> QED
  BY <1>1, Invariance, PTL DEF Spec, GivesUpAtTheBottom

\* Only the first probe of a search raises the level, or its taking back.
THEOREM Raises == Spec => RaisesAtTheStart
<1>1. ASSUME IInv, [Next]_vars, mba' > mba, exited' = "no"
      PROVE  mba' = 40 \/ mba = 40
  <2>1. CASE Probe
    BY <1>1, <2>1 DEF Probe, apply_mba, MainAt, IInv, TypeOK, LoopInv, Ladder
  <2>2. CASE Revert
    BY <1>1, <2>2 DEF Revert, apply_mba, MainAt, IInv, TypeOK, TrialInv, Ladder
  <2>3. mba' # mba
    BY <1>1 DEF IInv, TypeOK, Ladder
  <2> QED
    BY <1>1, <2>1, <2>2, <2>3 DEF Next, MainStep, Search, ChangeLoad,
       measurement_collector, Interrupt, Done, vars, Measure, CountersFail,
       mba_only, GiveUp, JudgeZero, JudgeMet, JudgeMissed, ReadLatency, ProbeFails
<1> QED
  BY <1>1, Invariance, PTL DEF Spec, RaisesAtTheStart

\* Every step of a search brings what is left of it down, and that is a natural
\* number: no sequence of latencies makes a search longer than its ladder.
THEOREM SearchBounded ==
    Spec => SearchShrinks /\ [](Left \in 0 .. 11)
<1>1. IInv => Left \in 0 .. 11
  BY DEF Left, LevelsAhead
<1>2. IInv /\ [Next]_vars =>
        [{pc, pc'} \subseteq SearchPCs /\ pc' # pc => Left' < Left]_vars
  <2> SUFFICES ASSUME IInv, Next, {pc, pc'} \subseteq SearchPCs, pc' # pc
               PROVE  Left' < Left
    OBVIOUS
  <2>1. i \in Ladder \cup {0}
    BY DEF IInv, TypeOK
  <2>2. Probe \/ JudgeZero \/ JudgeMissed
    BY DEF Next, MainStep, Search, Measure, mba_only, MainAt, SearchPCs, GiveUp, Revert,
       apply_mba, JudgeMet, ReadLatency, ProbeFails, CountersFail, measurement_collector,
       ChangeLoad, Interrupt, Done, vars
  <2>3. CASE Probe
    BY <2>1, <2>3 DEF Probe, MainAt, apply_mba, search, Left, LevelsAhead
  <2>4. CASE JudgeZero
    BY <2>1, <2>4 DEF JudgeZero, ReadLatency, MainAt, search, Left, LevelsAhead
  <2>5. CASE JudgeMissed
    <3>1. pc = "judge" /\ pc' = "loop" /\ i' = mba_binary_search(i, 1)
      BY <2>5 DEF JudgeMissed, ReadLatency, MainAt
    <3>2. i # 0
      BY <3>1, <2>5 DEF JudgeMissed, ReadLatency, MainAt, IInv, TrialInv, TypeOK, Ladder
    <3> QED
      BY <2>1, <3>1, <3>2, LadderDown DEF Ladder, Left, LevelsAhead
  <2> QED
    BY <2>2, <2>3, <2>4, <2>5
<1> QED
  BY <1>1, <1>2, Invariance, PTL DEF Spec, SearchShrinks
=============================================================================
