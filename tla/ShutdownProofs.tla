--------------------------- MODULE ShutdownProofs ---------------------------
(****************************************************************************)
(* What the clean-up of Shutdown guarantees for every number of OpenMP      *)
(* threads, every set of levels and every number of SIGINTs.                *)
(****************************************************************************)
EXTENDS Shutdown, TLAPS

\* The invariant holds of the start: nobody cleans up.
LEMMA InitIInv == Init => IInv
BY HelpersAssumption, LevelsAssumption, BoundsAssumption
   DEF Init, IInv, TypeOK, CauseInv, TeamInv, QuietInv, StepInv, LibraryInv,
       HandlersRestore, CleaningUp, Threads, Team, Frames, PastShm, PastParams,
       PastLevel, pqos, locks

\* A main thread that runs outside the parallel loop runs alone: no thread is
\* in a handler, and libpqos is up.
LEMMA MainAlone ==
    ASSUME IInv, Running("main"), at["main"] \notin {"place", "barrier"}
    PROVE  ~CleaningUp /\ library = "up"
BY DEF IInv, TypeOK, QuietInv, LibraryInv, Running

\* The sequential steps of the main thread.
LEMMA MainIInv ==
    ASSUME IInv, set_mba_parameters \/ EnterPqos \/ set_mba_allocation
    PROVE  IInv'
<1>1. "main" \in Threads
  BY DEF Threads, Team
<1>2. ~CleaningUp /\ library = "up"
  BY MainAlone DEF set_mba_parameters, EnterPqos,
                   set_mba_allocation, MainGoes
<1>3. /\ Running("main")
      /\ \E to \in {"control", "apply", "pqos"} :
            at' = [at EXCEPT !["main"] = to]
      /\ UNCHANGED <<frame, cause, shm, signals, faulty, library, ids, reentrant>>
  BY DEF set_mba_parameters, EnterPqos,
         set_mba_allocation, MainGoes, pqos, locks
<1>4. /\ requested' \in Levels \cup {100}
      /\ mba' \in Levels \cup {100}
      /\ ended' \in {"no", "exit"}
      /\ lock' \in Threads \cup {"free", "lost"}
  BY DEF set_mba_parameters, EnterPqos,
         set_mba_allocation, IInv, TypeOK, pqos, locks, Running, MainGoes, Threads, Team
<1>5. TypeOK'
  BY <1>1, <1>3, <1>4 DEF IInv, TypeOK
<1>6. ~CleaningUp'
  BY <1>2, <1>3 DEF CleaningUp
<1>7. CauseInv' /\ TeamInv'
  <2>1. at["main"] \notin {"place", "barrier"}
    BY DEF set_mba_parameters, EnterPqos,
           set_mba_allocation, MainGoes
  <2>2. \A h \in Helpers : at'[h] = at[h]
    BY <1>3, HelpersAssumption DEF IInv, TypeOK, Threads, Team
  <2> QED
    BY <1>3, <2>1, <2>2 DEF IInv, CauseInv, TeamInv
<1>8. StepInv'
  BY <1>6 DEF StepInv, CleaningUp, PastShm, PastParams, PastLevel
<1>9. QuietInv' /\ LibraryInv' /\ HandlersRestore'
  BY <1>2, <1>3, <1>4, <1>6 DEF QuietInv, LibraryInv, HandlersRestore
<1> QED
  BY <1>5, <1>7, <1>8, <1>9 DEF IInv

\* The parallel loop begins when nobody cleans up, and ends only when no
\* helper is left at its segment.
LEMMA TeamIInv ==
    ASSUME IInv, Fork \/ Join
    PROVE  IInv'
<1>1. ~CleaningUp /\ library = "up"
  <2>1. CASE Fork
    BY <2>1, MainAlone DEF Fork
  <2>2. CASE Join
    <3>1. \A h \in Helpers : at[h] = "barrier"
      BY <2>2 DEF Join, Team
    <3> QED
      BY <2>2, <3>1 DEF Join, IInv, TypeOK, QuietInv, LibraryInv, Running
  <2> QED
    BY <2>1, <2>2
<1>2. /\ at' \in [Threads -> {"idle", "collect", "control", "apply",
                              "pqos", "place", "barrier"}]
      /\ UNCHANGED <<frame, cause, shm, faulty, requested, mba, library, ids,
                      lock, reentrant, signals, ended>>
  BY HelpersAssumption DEF Fork, Join, IInv, TypeOK, pqos, locks, Threads, Team
<1>3. ~CleaningUp'
  BY <1>1, <1>2 DEF CleaningUp
<1>4. TeamInv'
  BY DEF Fork, Join, TeamInv, Threads, Team
<1> QED
  BY <1>1, <1>2, <1>3, <1>4
     DEF IInv, TypeOK, CauseInv, QuietInv, StepInv, LibraryInv, HandlersRestore,
         CleaningUp, PastShm, PastParams, PastLevel

\* A thread of the team places its segment, or fails and enters its handler.
LEMMA PlaceIInv ==
    ASSUME IInv, NEW t \in Team, Place(t)
    PROVE  IInv'
<1>1. /\ t \in Threads /\ "main" \in Threads /\ Helpers \subseteq Threads
      /\ t = "main" \/ t \in Helpers
  BY DEF Threads, Team
<1>2. /\ Running(t) /\ at[t] = "place"
      /\ UNCHANGED <<shm, faulty, requested, mba, library, ids, lock, reentrant,
                      signals, ended>>
  BY DEF Place, pqos, locks
<1>3. CASE /\ at' = [at EXCEPT ![t] = "barrier"]
           /\ UNCHANGED <<frame, cause>>
  <2>1. TypeOK' /\ CauseInv' /\ StepInv' /\ LibraryInv' /\ HandlersRestore'
    BY <1>1, <1>2, <1>3 DEF IInv, TypeOK, CauseInv, StepInv, LibraryInv,
                            HandlersRestore, CleaningUp
  <2>2. QuietInv' /\ TeamInv'
    BY <1>1, <1>2, <1>3, HelpersAssumption
       DEF IInv, TypeOK, TeamInv, QuietInv, CleaningUp, Running
  <2> QED
    BY <2>1, <2>2 DEF IInv
<1>4. CASE /\ frame' = [frame EXCEPT ![t] = "shm"]
           /\ cause' = [cause EXCEPT ![t] = "terminate"]
           /\ UNCHANGED at
  <2>1. TypeOK' /\ CauseInv'
    BY <1>1, <1>2, <1>4 DEF IInv, TypeOK, CauseInv, Frames
  <2>2. CleaningUp'
    BY <1>1, <1>4 DEF IInv, TypeOK, CleaningUp
  <2>3. StepInv' /\ LibraryInv' /\ HandlersRestore'
    BY <1>1, <1>2, <1>4, <2>2 DEF IInv, TypeOK, StepInv, LibraryInv, HandlersRestore,
                                  PastShm, PastParams, PastLevel
  <2>4. QuietInv'
    <3>1. CASE t = "main"
      BY <1>1, <1>4, <3>1 DEF IInv, TypeOK, QuietInv
    <3>2. CASE t \in Helpers
      <4>1. at["main"] \in {"place", "barrier"}
        BY <1>2, <3>2 DEF IInv, TeamInv
      <4> QED
        BY <1>1, <1>2, <1>4, <3>2, <4>1 DEF IInv, TypeOK, QuietInv
    <3> QED
      BY <1>1, <3>1, <3>2
  <2>5. TeamInv'
    BY <1>4 DEF IInv, TeamInv
  <2> QED
    BY <2>1, <2>3, <2>4, <2>5 DEF IInv
<1> QED
  BY <1>3, <1>4 DEF Place

\* A SIGINT hits the main thread, or finds it in its handler.
LEMMA SigintIInv ==
    ASSUME IInv, NEW t \in Threads, Sigint(t)
    PROVE  IInv'
<1>1. "main" \in Threads
  BY DEF Threads, Team
<1>2. /\ ended = "no" /\ signals < MaxSignals /\ Target(t)
      /\ frame' = [frame EXCEPT ![t] = "shm"]
      /\ cause' = [cause EXCEPT ![t] = "sigint"]
      /\ signals' = signals + 1
      /\ lock' \in {lock, "lost"}
      /\ reentrant' \in {reentrant, reentrant \cup {t}}
      /\ UNCHANGED <<at, shm, faulty, requested, mba, library, ids, ended>>
  BY DEF Sigint, pqos
<1>3. TypeOK' /\ CauseInv' /\ TeamInv'
  BY <1>2, BoundsAssumption DEF IInv, TypeOK, CauseInv, TeamInv, Frames
<1>4. CleaningUp'
  BY <1>2 DEF IInv, TypeOK, CleaningUp
<1>5. StepInv' /\ LibraryInv' /\ HandlersRestore'
  BY <1>2, <1>4 DEF IInv, TypeOK, StepInv, LibraryInv, HandlersRestore,
                    PastShm, PastParams, PastLevel
<1>6. frame'["main"] # "none"
  <2>1. CASE t = "main"
    BY <1>1, <1>2, <2>1 DEF IInv, TypeOK
  <2>2. CASE t # "main"
    BY <1>1, <1>2, <2>2 DEF IInv, TypeOK, Target, Takes, CauseInv
  <2> QED
    BY <2>1, <2>2
<1> QED
  BY <1>3, <1>5, <1>6 DEF IInv, QuietInv

\* The steps of a clean-up keep the thread in its handler: the promises it
\* made at earlier steps, and those of the other handlers, stay true.
LEMMA CleanUpIInv ==
    ASSUME IInv, NEW t \in Threads, CleanUpStep(t)
    PROVE  IInv'
<1>1. /\ ended = "no"
      /\ frame[t] # "none"
      /\ \E to \in Frames \ {"none"} : frame' = [frame EXCEPT ![t] = to]
      /\ UNCHANGED <<at, cause, signals, reentrant>>
      /\ lock' \in {lock, t, "free"}
  BY DEF CleanUpStep, destroy_shared_memory, ResetParameters, EnterReset, TakeLock,
         ResetAllocation, EnterFini, Fini, FreeIds, Report, Exit, CleanUp, Frames,
         locks
<1>2. CauseInv' /\ TeamInv'
  BY <1>1 DEF IInv, TypeOK, CauseInv, TeamInv
<1>3. CleaningUp /\ CleaningUp'
  BY <1>1 DEF IInv, TypeOK, CleaningUp
<1>4. QuietInv'
  BY <1>1, <1>3 DEF IInv, TypeOK, QuietInv
<1>5. CASE destroy_shared_memory(t)
  <2>1. TypeOK'
    <3>1. UNCHANGED <<faulty, requested, mba, library, ids, ended>> /\ shm' = FALSE
      BY <1>5 DEF destroy_shared_memory, pqos
    <3>2. /\ frame' \in [Threads -> Frames]
          /\ lock' \in Threads \cup {"free", "lost"}
      BY <1>1 DEF IInv, TypeOK, Frames
    <3>3. shm' \in BOOLEAN
      BY <3>1
    <3> QED
      BY <1>1, <3>1, <3>2, <3>3 DEF IInv, TypeOK
  <2>2. StepInv'
    BY <1>1, <1>5
       DEF destroy_shared_memory, CleanUp, pqos, IInv, TypeOK, StepInv, Frames,
           PastShm, PastParams, PastLevel
  <2>3. LibraryInv' /\ HandlersRestore'
    BY <1>1, <1>3, <1>5
       DEF destroy_shared_memory, CleanUp, pqos, IInv, TypeOK, StepInv,
           LibraryInv, HandlersRestore, Frames, PastShm, PastParams, PastLevel
  <2> QED
    BY <1>2, <1>4, <2>1, <2>2, <2>3 DEF IInv
<1>6. CASE ResetParameters(t)
  <2>1. TypeOK'
    BY <1>1, <1>6 DEF ResetParameters, CleanUp, IInv, TypeOK, Frames
  <2>2. StepInv'
    BY <1>1, <1>6
       DEF ResetParameters, CleanUp, IInv, TypeOK, StepInv, Frames, PastShm,
           PastParams, PastLevel
  <2>3. LibraryInv' /\ HandlersRestore'
    BY <1>1, <1>3, <1>6
       DEF ResetParameters, CleanUp, IInv, TypeOK, StepInv, LibraryInv,
           HandlersRestore, Frames, PastShm, PastParams, PastLevel
  <2> QED
    BY <1>2, <1>4, <2>1, <2>2, <2>3 DEF IInv
<1>7. CASE EnterReset(t) \/ EnterFini(t)
  <2>1. UNCHANGED <<shm, faulty, requested, mba, library, ids, ended>>
    BY <1>7 DEF EnterReset, EnterFini, TakeLock, pqos
  <2>2. TypeOK'
    BY <1>1, <2>1 DEF IInv, TypeOK, Frames
  <2>3. StepInv'
    <3>1. \/ frame[t] = "level" /\ frame' = [frame EXCEPT ![t] = "setting"]
          \/ frame[t] = "fini" /\ frame' = [frame EXCEPT ![t] = "closing"]
      BY <1>7 DEF EnterReset, EnterFini, CleanUp
    <3> QED
      BY <2>1, <3>1 DEF IInv, TypeOK, StepInv, Frames, PastShm, PastParams, PastLevel
  <2>4. LibraryInv' /\ HandlersRestore'
    BY <1>3, <2>1 DEF IInv, LibraryInv, HandlersRestore
  <2> QED
    BY <1>2, <1>4, <2>2, <2>3, <2>4 DEF IInv
<1>8. CASE ResetAllocation(t)
  <2>1. requested = 100
    BY <1>8
       DEF ResetAllocation, CleanUp, IInv, StepInv, Frames, PastShm, PastParams
  <2>2. mba' \in {mba, 100} /\ (faulty \/ mba' = 100)
    BY <1>8, <2>1 DEF ResetAllocation, IInv, TypeOK, LibraryInv
  <2>3. TypeOK'
    BY <1>1, <1>8, <2>1, <2>2 DEF ResetAllocation, CleanUp, IInv, TypeOK, Frames
  <2>4. StepInv'
    BY <1>1, <1>8, <2>1, <2>2
       DEF ResetAllocation, CleanUp, IInv, TypeOK, StepInv, Frames, PastShm,
           PastParams, PastLevel
  <2>5. LibraryInv' /\ HandlersRestore'
    BY <1>1, <1>3, <1>8, <2>1, <2>2
       DEF ResetAllocation, CleanUp, IInv, TypeOK, StepInv, LibraryInv,
           HandlersRestore, Frames, PastShm, PastParams, PastLevel
  <2> QED
    BY <1>2, <1>4, <2>3, <2>4, <2>5 DEF IInv
<1>9. CASE Fini(t)
  <2>1. TypeOK'
    BY <1>1, <1>9 DEF Fini, CleanUp, IInv, TypeOK, Frames
  <2>2. StepInv'
    BY <1>1, <1>9
       DEF Fini, CleanUp, IInv, TypeOK, StepInv, Frames, PastShm, PastParams,
           PastLevel
  <2>3. LibraryInv' /\ HandlersRestore'
    BY <1>1, <1>3, <1>9
       DEF Fini, CleanUp, IInv, TypeOK, StepInv, LibraryInv, HandlersRestore,
           Frames, PastShm, PastParams, PastLevel
  <2> QED
    BY <1>2, <1>4, <2>1, <2>2, <2>3 DEF IInv
<1>10. CASE FreeIds(t)
  <2>1. TypeOK'
    BY <1>1, <1>10 DEF FreeIds, AllocatorCall, CleanUp, IInv, TypeOK, Frames
  <2>2. StepInv'
    BY <1>1, <1>10
       DEF FreeIds, AllocatorCall, CleanUp, IInv, TypeOK, StepInv, Frames, PastShm, PastParams,
           PastLevel
  <2>3. LibraryInv' /\ HandlersRestore'
    BY <1>1, <1>3, <1>10
       DEF FreeIds, AllocatorCall, CleanUp, IInv, TypeOK, StepInv, LibraryInv, HandlersRestore,
           Frames, PastShm, PastParams, PastLevel
  <2> QED
    BY <1>2, <1>4, <2>1, <2>2, <2>3 DEF IInv
<1>11. CASE Report(t)
  <2>1. TypeOK'
    BY <1>1, <1>11 DEF Report, AllocatorCall, CleanUp, pqos, IInv, TypeOK, Frames
  <2>2. StepInv'
    BY <1>1, <1>11
       DEF Report, AllocatorCall, CleanUp, pqos, IInv, TypeOK, StepInv, Frames, PastShm,
           PastParams, PastLevel
  <2>3. LibraryInv' /\ HandlersRestore'
    BY <1>1, <1>3, <1>11
       DEF Report, AllocatorCall, CleanUp, pqos, IInv, TypeOK, StepInv, LibraryInv,
           HandlersRestore, Frames, PastShm, PastParams, PastLevel
  <2> QED
    BY <1>2, <1>4, <2>1, <2>2, <2>3 DEF IInv
<1>12. CASE Exit(t)
  <2>1. ended' \in {"sigint", "terminate", "abort"}
    BY <1>12 DEF Exit, CleanUp, IInv, TypeOK, CauseInv
  <2>2. TypeOK'
    BY <1>1, <1>12, <2>1 DEF Exit, CleanUp, pqos, IInv, TypeOK, Frames
  <2>3. StepInv'
    BY <1>1, <1>12, <2>1
       DEF Exit, CleanUp, pqos, IInv, TypeOK, StepInv, Frames, PastShm,
           PastParams, PastLevel
  <2>4. LibraryInv' /\ HandlersRestore'
    BY <1>1, <1>3, <1>12, <2>1
       DEF Exit, CleanUp, pqos, IInv, TypeOK, StepInv, LibraryInv,
           HandlersRestore, Frames, PastShm, PastParams, PastLevel
  <2> QED
    BY <1>2, <1>4, <2>2, <2>3, <2>4 DEF IInv
<1> QED
  BY <1>5, <1>6, <1>7, <1>8, <1>9, <1>10, <1>11, <1>12 DEF CleanUpStep

\* Every step keeps the invariant.
LEMMA NextIInv == IInv /\ [Next]_vars => IInv'
<1> SUFFICES ASSUME IInv, [Next]_vars PROVE IInv'
  OBVIOUS
<1>1. CASE MainStep
  BY <1>1, MainIInv, TeamIInv DEF MainStep
<1>2. CASE \E t \in Team : Place(t)
  BY <1>2, PlaceIInv
<1>3. CASE \E t \in Threads : Sigint(t) \/ CleanUpStep(t)
  BY <1>3, SigintIInv, CleanUpIInv
<1>4. CASE UNCHANGED vars
  BY <1>4 DEF vars, pqos, locks, IInv, TypeOK, CauseInv, TeamInv, QuietInv, StepInv,
              LibraryInv, HandlersRestore, CleaningUp
<1> QED
  BY <1>1, <1>2, <1>3, <1>4 DEF Next, Done

\* The invariant holds in every reachable state.
THEOREM Invariance == Spec => []IInv
<1>1. Init => IInv
  BY InitIInv
<1>2. IInv /\ [Next]_vars => IInv'
  BY NextIInv
<1> QED
  BY <1>1, <1>2, PTL DEF Spec

\* Every variable has its type.
THEOREM TypeCorrect == Spec => []TypeOK
<1>1. IInv => TypeOK
  BY DEF IInv
<1> QED
  BY <1>1, Invariance, PTL

\* However many handlers run, and wherever they interrupt each other, a process
\* that ends in one leaves no segment and, unless pqos_mba_set fails, a level
\* of 100.
THEOREM Restored == Spec => []HandlersRestore
<1>1. IInv => HandlersRestore
  BY DEF IInv
<1> QED
  BY <1>1, Invariance, PTL

\* libpqos is never shut down over a throttled memory.
THEOREM ResetFirst == Spec => []ResetBeforeFini
<1>1. IInv => ResetBeforeFini
  BY DEF IInv, LibraryInv, ResetBeforeFini
<1> QED
  BY <1>1, Invariance, PTL

\* The control loop applies no level beside a clean-up.
THEOREM LevelsEnd == Spec => NoLevelAfterCleanUp
<1>1. IInv /\ [Next]_vars => [CleaningUp => mba' \in {mba, 100}]_vars
  <2> SUFFICES ASSUME IInv, Next, CleaningUp PROVE mba' \in {mba, 100}
    BY DEF vars
  <2>1. CASE MainStep
    <3>1. ~set_mba_allocation
      BY MainAlone DEF set_mba_allocation, MainGoes
    <3> QED
      BY <2>1, <3>1 DEF MainStep, set_mba_parameters,
                        EnterPqos, Fork, Join, pqos
  <2>2. CASE \E t \in Team : Place(t)
    BY <2>2 DEF Place, pqos
  <2>3. CASE \E t \in Threads : Sigint(t)
    BY <2>3 DEF Sigint, pqos
  <2>4. CASE \E t \in Threads : CleanUpStep(t)
    <3>1. PICK t \in Threads : CleanUpStep(t)
      BY <2>4
    <3>2. CASE ResetAllocation(t)
      BY <3>2 DEF ResetAllocation, CleanUp, IInv, StepInv, Frames, PastShm, PastParams
    <3>3. CASE ~ResetAllocation(t)
      BY <3>1, <3>3 DEF CleanUpStep, destroy_shared_memory, ResetParameters,
         EnterReset, EnterFini, TakeLock, Fini, FreeIds, Report, Exit, pqos
    <3> QED
      BY <3>2, <3>3
  <2>5. CASE Done
    BY <2>5 DEF Done, vars, pqos
  <2> QED
    BY <2>1, <2>2, <2>3, <2>4, <2>5 DEF Next
<1> QED
  BY <1>1, Invariance, PTL DEF Spec, NoLevelAfterCleanUp

-----------------------------------------------------------------------------
(* The end of the process as a whole.                                       *)

\* The sequential steps of the main thread: work, or an end on the spot.
LEMMA MainOrderly ==
    ASSUME IInv, MainStep
    PROVE  [Process!Next]_Process!vars
<1>1. ended = "no" /\ UNCHANGED <<frame, shm, faulty>>
  BY DEF MainStep, set_mba_parameters, EnterPqos,
         set_mba_allocation, Fork, Join, MainGoes, Running, pqos
<1>2. CleaningUp' = CleaningUp
  BY <1>1 DEF CleaningUp
<1>3. CASE set_mba_allocation
  <2>1. ~CleaningUp /\ Stage = "running"
    BY <1>1, <1>3, MainAlone DEF set_mba_allocation, MainGoes, Stage
  <2>2. CASE mba' = requested /\ UNCHANGED ended
    <3>1. Stage' = "running"
      BY <1>1, <1>2, <2>1, <2>2 DEF Stage
    <3> QED
      BY <1>1, <2>1, <2>2, <3>1 DEF IInv, TypeOK, Process!Next, Process!Apply
  <2>3. CASE faulty /\ ended' = "exit" /\ UNCHANGED mba
    <3>1. Stage' = "broken"
      BY <2>3 DEF Stage
    <3> QED
      BY <1>1, <2>1, <2>3, <3>1 DEF Process!Next, Process!GiveUp
  <2> QED
    BY <1>3, <2>2, <2>3 DEF set_mba_allocation
<1>4. CASE ~set_mba_allocation
  <2>1. UNCHANGED <<mba, ended>>
    BY <1>4 DEF MainStep, set_mba_parameters, EnterPqos,
                Fork, Join, pqos
  <2> QED
    BY <1>1, <1>2, <2>1 DEF Process!vars, Stage
<1> QED
  BY <1>3, <1>4

\* A thread enters a handler: the first one begins the clean-up.
LEMMA EnterOrderly ==
    ASSUME IInv, NEW t \in Threads, ended = "no",
           frame' = [frame EXCEPT ![t] = "shm"],
           UNCHANGED <<shm, mba, faulty, ended>>
    PROVE  [Process!Next]_Process!vars
<1>1. Stage' = "cleaning"
  <2>1. CleaningUp'
    BY DEF CleaningUp, IInv, TypeOK
  <2> QED
    BY <2>1 DEF Stage
<1>2. Stage \in {"running", "cleaning"}
  BY DEF Stage
<1> QED
  BY <1>1, <1>2 DEF Process!vars, Process!Next, Process!Begin

\* The steps of a clean-up remove the segment, put the level back, and end the
\* process when both are done.
LEMMA CleanUpOrderly ==
    ASSUME IInv, NEW t \in Threads, CleanUpStep(t)
    PROVE  [Process!Next]_Process!vars
<1>1. /\ ended = "no"
      /\ frame[t] # "none"
      /\ \E to \in Frames \ {"none"} : frame' = [frame EXCEPT ![t] = to]
  BY DEF CleanUpStep, destroy_shared_memory, ResetParameters, EnterReset,
         ResetAllocation, EnterFini, Fini, FreeIds, Report, Exit, CleanUp, Frames
<1>2. CleaningUp /\ CleaningUp'
  BY <1>1 DEF IInv, TypeOK, CleaningUp
<1>3. Stage = "cleaning" /\ (ended' = "no" => Stage' = "cleaning")
  BY <1>1, <1>2 DEF Stage
<1>4. faulty' = faulty
  BY DEF CleanUpStep, destroy_shared_memory, ResetParameters, EnterReset, TakeLock,
         ResetAllocation, EnterFini, Fini, FreeIds, Report, Exit, pqos
<1>5. CASE destroy_shared_memory(t)
  <2>1. Process!RemoveSegment
    BY <1>1, <1>3, <1>5 DEF destroy_shared_memory, pqos, Process!RemoveSegment
  <2> QED
    BY <2>1 DEF Process!Next
<1>6. CASE ResetParameters(t) \/ EnterReset(t) \/ EnterFini(t) \/ Fini(t)
  BY <1>1, <1>3, <1>6 DEF ResetParameters, EnterReset, EnterFini, TakeLock, Fini,
                          pqos, Process!vars
<1>7. CASE ResetAllocation(t)
  <2>1. mba' \in {mba, 100}
    BY <1>7 DEF ResetAllocation, CleanUp, IInv, StepInv, Frames, PastShm, PastParams
  <2>2. UNCHANGED <<shm, ended>>
    BY <1>7 DEF ResetAllocation
  <2> QED
    BY <1>1, <1>3, <1>4, <2>1, <2>2 DEF Process!vars, Process!Next, Process!Restore
<1>8. CASE FreeIds(t) \/ Report(t) \/ Exit(t)
  <2>1. UNCHANGED <<shm, mba>>
    BY <1>8 DEF FreeIds, Report, Exit, pqos
  <2>2. ~shm /\ (faulty \/ mba = 100)
    BY <1>8 DEF FreeIds, Report, Exit, CleanUp, IInv, StepInv, Frames, PastShm, PastParams,
                PastLevel
  <2>3. CASE ended' = "no"
    BY <1>3, <1>4, <2>1, <2>3 DEF Process!vars
  <2>4. CASE ended' # "no"
    <3>1. ended' \in {"abort", "sigint", "terminate"}
      BY <1>1, <1>8, <2>4 DEF FreeIds, Report, AllocatorCall, Exit, CleanUp, IInv, TypeOK, CauseInv
    <3>2. Stage' = "clean"
      BY <3>1 DEF Stage
    <3> QED
      BY <1>3, <1>4, <2>1, <2>2, <3>2 DEF Process!Next, Process!Finish
  <2> QED
    BY <2>3, <2>4
<1> QED
  BY <1>5, <1>6, <1>7, <1>8 DEF CleanUpStep

\* All threads together keep the order of OrderlyEnd: however many handlers run
\* and wherever they interrupt each other, nothing works against a clean-up, and
\* the process is gone only once it is done.
THEOREM OrderlyRefinement == Spec => OrderlySpec
<1>1. Init => Process!Init
  BY DEF Init, Process!Init, Stage, CleaningUp, pqos
<1>2. IInv /\ [Next]_vars => [Process!Next]_Process!vars
  <2> SUFFICES ASSUME IInv, [Next]_vars PROVE [Process!Next]_Process!vars
    OBVIOUS
  <2>1. CASE MainStep
    BY <2>1, MainOrderly
  <2>2. ASSUME NEW t \in Team, Place(t) PROVE [Process!Next]_Process!vars
    <3>1. t \in Threads /\ ended = "no" /\ UNCHANGED <<shm, mba, faulty, ended>>
      BY <2>2 DEF Place, Running, Threads, pqos
    <3>2. CASE UNCHANGED frame
      BY <3>1, <3>2 DEF Process!vars, Stage, CleaningUp
    <3>3. CASE frame' = [frame EXCEPT ![t] = "shm"]
      BY <3>1, <3>3, EnterOrderly
    <3> QED
      BY <2>2, <3>2, <3>3 DEF Place
  <2>3. ASSUME NEW t \in Threads, Sigint(t) PROVE [Process!Next]_Process!vars
    <3>1. /\ ended = "no" /\ UNCHANGED <<shm, mba, faulty, ended>>
          /\ frame' = [frame EXCEPT ![t] = "shm"]
      BY <2>3 DEF Sigint, pqos
    <3> QED
      BY <3>1, EnterOrderly
  <2>4. ASSUME NEW t \in Threads, CleanUpStep(t) PROVE [Process!Next]_Process!vars
    BY <2>4, CleanUpOrderly
  <2>5. CASE UNCHANGED vars
    BY <2>5 DEF vars, pqos, Process!vars, Stage, CleaningUp
  <2> QED
    BY <2>1, <2>2, <2>3, <2>4, <2>5 DEF Next, Done
<1> QED
  BY <1>1, <1>2, Invariance, PTL DEF Spec, OrderlySpec, Process!Spec

\* What is left to a thread is a natural number that every step of its handlers,
\* and every signal it takes, brings down: a bound on the clean-up that does not
\* depend on how many signals come.
THEOREM CleanUpBounded == Spec => CleanUpShrinks /\ [](\A t \in Threads : Left(t) \in 0 .. 30)
<1>1. IInv => \A t \in Threads : Left(t) \in 0 .. 30
  BY DEF IInv, TypeOK, Left, StepsLeft, Frames
<1>2. IInv /\ [Next]_vars =>
        [\A t \in Threads : <<frame[t], cause[t]>>' # <<frame[t], cause[t]>>
                            => Left(t)' < Left(t)]_vars
  <2> SUFFICES ASSUME IInv, Next, NEW t \in Threads,
                      <<frame[t], cause[t]>>' # <<frame[t], cause[t]>>
               PROVE  Left(t)' < Left(t)
    OBVIOUS
  <2>1. frame[t] \in Frames /\ cause[t] \in {"none", "sigint", "terminate"}
    BY DEF IInv, TypeOK
  <2>2. ~MainStep
    BY DEF MainStep, set_mba_parameters, EnterPqos,
           set_mba_allocation, Fork, Join, MainGoes
  <2>3. CASE \E u \in Team : Place(u)
    <3>1. /\ frame[t] = "none" /\ cause[t] = "none"
          /\ frame'[t] = "shm" /\ cause'[t] = "terminate"
      BY <2>3 DEF Place, Running, IInv, TypeOK, CauseInv, Threads
    <3> QED
      BY <3>1 DEF Left, StepsLeft
  <2>4. CASE \E u \in Threads : Sigint(u)
    <3>1. /\ cause[t] # "sigint"
          /\ frame'[t] = "shm" /\ cause'[t] = "sigint"
      BY <2>4 DEF Sigint, Target, Takes, IInv, TypeOK
    <3>2. StepsLeft[frame[t]] \in 1 .. 10
      BY <2>1 DEF StepsLeft, Frames
    <3> QED
      BY <2>1, <3>1, <3>2 DEF Left, StepsLeft
  <2>5. CASE \E u \in Threads : CleanUpStep(u)
    <3>1. PICK u \in Threads : CleanUpStep(u)
      BY <2>5
    <3>2. cause' = cause /\ t = u
      BY <3>1 DEF CleanUpStep, destroy_shared_memory, ResetParameters, EnterReset,
         ResetAllocation, EnterFini, Fini, FreeIds, Report, Exit, CleanUp, IInv, TypeOK
    <3>3. <<frame[t], frame'[t]>> \in
            {<<"shm", "params">>, <<"params", "level">>, <<"level", "setting">>,
             <<"setting", "fini">>, <<"fini", "closing">>, <<"closing", "free">>,
             <<"free", "report">>, <<"report", "exit">>}
      BY <3>1, <3>2 DEF CleanUpStep, destroy_shared_memory, ResetParameters,
         EnterReset, ResetAllocation, EnterFini, Fini, FreeIds, Report, Exit, CleanUp,
         IInv, TypeOK
    <3>4. StepsLeft[frame'[t]] < StepsLeft[frame[t]] /\ StepsLeft[frame'[t]] \in Nat
          /\ StepsLeft[frame[t]] \in Nat
      BY <3>3 DEF StepsLeft
    <3> QED
      BY <3>2, <3>4 DEF Left
  <2>6. ~Done
    BY DEF Done, vars
  <2> QED
    BY <2>2, <2>3, <2>4, <2>5, <2>6 DEF Next
<1> QED
  BY <1>1, <1>2, Invariance, PTL DEF Spec, CleanUpShrinks
=============================================================================
