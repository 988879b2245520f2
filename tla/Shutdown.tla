------------------------------- MODULE Shutdown -------------------------------
(****************************************************************************)
(* How a running controller ends: SIGINT (signalHandler) and a failed       *)
(* move_pages (std::terminate, hence terminateHandler) run the same clean-up*)
(* on whatever thread they hit: the main thread in the middle of its work,  *)
(* an OpenMP helper of place_all_pages, or, when the main thread is already *)
(* in its handler, the measurement thread.                                  *)
(*                                                                          *)
(* A clean-up removes the shared memory, resets the MBA level, shuts libpqos*)
(* down, frees the MBA ids, writes the reports and calls exit.  None of     *)
(* these calls is made for a signal handler: libpqos has one lock, the C    *)
(* library's allocator its own, and a SIGINT may come while the very thread *)
(* it hits is inside either, at its work or in the terminate handler.       *)
(****************************************************************************)
EXTENDS Integers

CONSTANTS
    Helpers,     \* the OpenMP threads that work beside the main thread
    Levels,      \* the MBA levels the main thread applies
    MaxSignals,  \* bound on the SIGINTs sent
    MoveFaults   \* may move_pages fail?

Team    == {"main"} \cup Helpers
Threads == Team \cup {"collector"}

ASSUME HelpersAssumption == {"main", "collector", "free", "lost"} \cap Helpers = {}
ASSUME LevelsAssumption  == Levels \subseteq Nat
ASSUME BoundsAssumption  == MaxSignals \in Nat

VARIABLES
    faulty,     \* may pqos_mba_set fail on this machine?
    at,         \* what the interrupted code of a thread was doing
    frame,      \* the next step of the clean-up a thread is in, or "none"
    cause,      \* why the thread entered it
    shm,        \* does the segment MySharedMemory exist?
    requested,  \* mba[REQUESTED], shared by apply_mba and reset_mba
    mba,        \* the level of the hardware
    library,    \* is libpqos initialized?
    ids,        \* p_mba_ids: allocated or freed, never reset to NULL
    lock,       \* libpqos' lock: "free", its owner, or "lost" with the code
                \* that held it, which a handler interrupted for good
    reentrant,  \* threads whose handler interrupted their own allocator call
    signals,    \* SIGINTs delivered so far
    ended       \* how the process ended, or "no"

pqos == <<faulty, requested, mba, library, ids>>
locks == <<lock, reentrant>>
vars == <<at, frame, cause, shm, pqos, locks, signals, ended>>

\* Inside pqos_mba_set a thread is at "setting", inside pqos_fini at "closing".
Frames == {"none", "shm", "params", "level", "setting", "fini", "closing",
           "free", "report", "exit"}

Init == /\ faulty \in BOOLEAN
        /\ at = [t \in Threads |-> CASE t = "main"      -> "control"
                                   [] t = "collector" -> "collect"
                                   [] OTHER           -> "idle"]
        /\ frame = [t \in Threads |-> "none"]
        /\ cause = [t \in Threads |-> "none"]
        /\ shm = TRUE
        /\ requested = 100
        /\ mba = 100
        /\ library = "up"
        /\ ids = "allocated"
        /\ lock = "free"
        /\ reentrant = {}
        /\ signals = 0
        /\ ended = "no"

Running(t) == ended = "no" /\ frame[t] = "none"

-----------------------------------------------------------------------------
(* The main thread: apply_mba, and the parallel loop of place_all_pages.    *)

MainGoes(from, to) == /\ Running("main")
                      /\ at["main"] = from
                      /\ at' = [at EXCEPT !["main"] = to]
                      /\ UNCHANGED <<frame, cause, shm, signals>>

set_mba_parameters == /\ MainGoes("control", "apply")
                      /\ requested' \in Levels
                      /\ UNCHANGED <<faulty, mba, library, ids, locks, ended>>

\* pqos_mba_set takes the lock of the library for the whole call.
EnterPqos == /\ MainGoes("apply", "pqos")
             /\ lock = "free"
             /\ lock' = "main"
             /\ UNCHANGED <<pqos, reentrant, ended>>

set_mba_allocation ==
    /\ MainGoes("pqos", "control")
    /\ \/ mba' = requested /\ UNCHANGED ended
       \/ faulty /\ ended' = "exit" /\ UNCHANGED mba
    /\ lock' = "free"
    /\ UNCHANGED <<faulty, requested, library, ids, reentrant>>

Fork == /\ Running("main")
        /\ at["main"] = "control"
        /\ at' = [t \in Threads |-> IF t \in Team THEN "place" ELSE at[t]]
        /\ UNCHANGED <<frame, cause, shm, pqos, locks, signals, ended>>

\* move_pages_remote on the segment of one thread.
Place(t) == /\ Running(t)
            /\ at[t] = "place"
            /\ \/ /\ at' = [at EXCEPT ![t] = "barrier"]
                  /\ UNCHANGED <<frame, cause>>
               \/ /\ MoveFaults
                  /\ frame' = [frame EXCEPT ![t] = "shm"]
                  /\ cause' = [cause EXCEPT ![t] = "terminate"]
                  /\ UNCHANGED at
            /\ UNCHANGED <<shm, pqos, locks, signals, ended>>

\* (mutant: a loop without its barrier)
JoinEarly == /\ Running("main")
             /\ at["main"] = "barrier"
             /\ at' = [at EXCEPT !["main"] = "control"]
             /\ UNCHANGED <<frame, cause, shm, pqos, locks, signals, ended>>

Join == /\ Running("main")
        /\ \A t \in Team : at[t] = "barrier"
        /\ at' = [t \in Threads |-> CASE t = "main"    -> "control"
                                    [] t \in Helpers -> "idle"
                                    [] OTHER         -> at[t]]
        /\ UNCHANGED <<frame, cause, shm, pqos, locks, signals, ended>>

-----------------------------------------------------------------------------
(* SIGINT.  Linux prefers the main thread; a thread that is in the handler  *)
(* of SIGINT masks it.                                                      *)

Takes(t) == cause[t] # "sigint"

Target(t) == Takes(t) /\ (t # "main" => ~Takes("main"))

\* The code that may be inside the allocator at any moment: the control loop
\* (my_logger), move_pages_remote (its three arrays), the measurement thread
\* (push_back), and the clean-up where it frees, opens files, and exits.
MayAllocate(t) ==
    \/ frame[t] = "none" /\ at[t] \in {"control", "place", "collect"}
    \/ frame[t] \in {"closing", "free", "report", "exit"}

\* The interrupted code never runs again: a lock it holds is lost.
Sigint(t) == /\ ended = "no"
             /\ signals < MaxSignals
             /\ Target(t)
             /\ frame' = [frame EXCEPT ![t] = "shm"]
             /\ cause' = [cause EXCEPT ![t] = "sigint"]
             /\ signals' = signals + 1
             /\ lock' = IF lock = t THEN "lost" ELSE lock
             /\ \/ UNCHANGED reentrant
                \/ MayAllocate(t) /\ reentrant' = reentrant \cup {t}
             /\ UNCHANGED <<at, shm, pqos, ended>>

-----------------------------------------------------------------------------
(* The clean-up, the same in both handlers.                                 *)

CleanUp(t, from, to) == /\ ended = "no"
                        /\ frame[t] = from
                        /\ frame' = [frame EXCEPT ![t] = to]
                        /\ UNCHANGED <<at, cause, signals>>

destroy_shared_memory(t) == /\ CleanUp(t, "shm", "params")
                            /\ shm' = FALSE
                            /\ UNCHANGED <<pqos, locks, ended>>

\* (mutant: the level requested last is applied again)
KeepParameters(t) == /\ CleanUp(t, "params", "level")
                     /\ UNCHANGED <<shm, pqos, locks, ended>>
\* (mutant: the reset asks for the level 0)
ResetToZero(t) == /\ CleanUp(t, "params", "level")
                  /\ requested' = 0
                  /\ UNCHANGED <<shm, faulty, mba, library, ids, locks, ended>>
\* (mutant: the library is shut down before the level is reset)
FiniFirst(t) == /\ CleanUp(t, "params", "level")
                /\ requested' = 100
                /\ library' = "down"
                /\ UNCHANGED <<shm, faulty, mba, ids, locks, ended>>

ResetParameters(t) == /\ CleanUp(t, "params", "level")
                      /\ requested' = 100
                      /\ UNCHANGED <<shm, faulty, mba, library, ids, locks, ended>>

\* A call of libpqos waits for its lock, for ever when the lock is lost.
TakeLock(t) == /\ lock = "free"
               /\ lock' = t
               /\ UNCHANGED <<shm, pqos, reentrant, ended>>

EnterReset(t) == CleanUp(t, "level", "setting") /\ TakeLock(t)
EnterFini(t)  == CleanUp(t, "fini", "closing") /\ TakeLock(t)

\* The result of pqos_mba_set is not looked at.
ResetAllocation(t) ==
    /\ CleanUp(t, "setting", "fini")
    /\ \/ library = "up" /\ mba' = requested
       \/ library = "down" /\ UNCHANGED mba
       \/ faulty /\ UNCHANGED mba
    /\ lock' = "free"
    /\ UNCHANGED <<shm, faulty, requested, library, ids, reentrant, ended>>

Fini(t) == /\ CleanUp(t, "closing", "free")
           /\ library' = "down"
           /\ lock' = "free"
           /\ UNCHANGED <<shm, faulty, requested, mba, ids, reentrant, ended>>

\* An allocator entered again on the same thread is in a state nobody defined:
\* the call comes through, aborts, or (FairSpec) never returns.
AllocatorCall(t) == \/ UNCHANGED ended
                    \/ t \in reentrant /\ ended' = "abort"

\* A second free of the same block goes unnoticed, or the C library aborts.
FreeIds(t) == /\ CleanUp(t, "free", "report")
              /\ \/ AllocatorCall(t)
                 \/ ids = "freed" /\ ended' = "abort"
              /\ ids' = "freed"
              /\ UNCHANGED <<shm, faulty, requested, mba, library, locks>>

\* The reports open files, which allocates.
Report(t) == /\ CleanUp(t, "report", "exit")
             /\ AllocatorCall(t)
             /\ UNCHANGED <<shm, pqos, locks>>

\* (mutant: the handler sets run = 0 and returns, and no loop ends on run)
ReturnToLoop(t) == /\ CleanUp(t, "exit", "none")
                   /\ UNCHANGED <<shm, pqos, locks, ended>>

\* exit runs the destructors of the globals, which free.
Exit(t) == /\ CleanUp(t, "exit", "exit")
           /\ \/ ended' = cause[t]
              \/ t \in reentrant /\ ended' = "abort"
           /\ UNCHANGED <<shm, pqos, locks>>

-----------------------------------------------------------------------------
Done == ended # "no" /\ UNCHANGED vars

CleanUpStep(t) == \/ destroy_shared_memory(t) \/ ResetParameters(t)
                  \/ EnterReset(t) \/ ResetAllocation(t)
                  \/ EnterFini(t) \/ Fini(t)
                  \/ FreeIds(t) \/ Report(t) \/ Exit(t)

MainStep == \/ set_mba_parameters \/ EnterPqos \/ set_mba_allocation
            \/ Fork \/ Join

Next == \/ MainStep
        \/ \E t \in Team : Place(t)
        \/ \E t \in Threads : Sigint(t) \/ CleanUpStep(t)
        \/ Done

\* A call of the allocator that may wait for ever: some thread was interrupted
\* inside it, and what it held is never given back.
MayHang(t) == reentrant # {} /\ frame[t] \in {"free", "report", "exit"}

\* Threads are scheduled; signals need not come, and an allocator call that may
\* hang need not return.
Spec == Init /\ [][Next]_vars
FairSpec == Spec /\ \A t \in Threads : WF_vars(CleanUpStep(t) /\ ~MayHang(t))

-----------------------------------------------------------------------------
CleaningUp == \E t \in Threads : frame[t] # "none"

TypeOK == /\ faulty \in BOOLEAN
          /\ at \in [Threads -> {"idle", "collect", "control", "apply", "pqos",
                                 "place", "barrier"}]
          /\ frame \in [Threads -> Frames]
          /\ cause \in [Threads -> {"none", "sigint", "terminate"}]
          /\ shm \in BOOLEAN
          /\ requested \in Levels \cup {100}
          /\ mba \in Levels \cup {100}
          /\ library \in {"up", "down"}
          /\ ids \in {"allocated", "freed"}
          /\ lock \in Threads \cup {"free", "lost"}
          /\ reentrant \subseteq Threads
          /\ signals \in 0..MaxSignals
          /\ ended \in {"no", "exit", "sigint", "terminate", "abort"}

\* A process that ends in a handler leaves no segment and no throttle behind,
\* on whichever threads handlers ran, nested or side by side (a level is lost
\* only when pqos_mba_set fails, whose result reset_mba does not look at).
HandlersRestore == ended \in {"sigint", "terminate", "abort"}
                   => ~shm /\ (faulty \/ mba = 100)

\* Once libpqos is shut down no level can be set: it is 100 by then.
ResetBeforeFini == ~faulty /\ library = "down" => mba = 100

\* From the moment some thread cleans up, the control loop on the main thread
\* applies no level any more: it is interrupted, or waits for the very thread
\* that is cleaning up.
NoLevelAfterCleanUp == [][CleaningUp => mba' \in {mba, 100}]_vars

\* The process as a whole, whichever threads clean up.
Stage == IF ended = "exit" THEN "broken"
         ELSE IF ended # "no" THEN "clean"
         ELSE IF CleaningUp THEN "cleaning" ELSE "running"

Process == INSTANCE OrderlyEnd
               WITH stage <- Stage, level <- mba, segment <- shm

\* All threads together end in order: from the moment some thread cleans up the
\* control loop applies no level any more and cannot end the process on the
\* spot (it is interrupted, or waits for the very thread that is cleaning up);
\* a clean-up begun again, beside or inside another one, undoes none of it; and
\* the process is gone only once the segment is and the level is back
\* (Utilities.cpp, signalHandler, terminateHandler; MbaHandler.cpp, apply_mba,
\* reset_mba; PagePlacement.cpp, place_all_pages).
OrderlySpec == Process!Spec

\* How far a thread is: what is left of its handlers, of which it meets two at
\* most, that of std::terminate and then that of SIGINT.
StepsLeft == [none |-> 10, shm |-> 9, params |-> 8, level |-> 7, setting |-> 6,
              fini |-> 5, closing |-> 4, free |-> 3, report |-> 2, exit |-> 1]
Left(t) == StepsLeft[frame[t]]
           + (IF cause[t] = "none" THEN 20 ELSE IF cause[t] = "terminate" THEN 10 ELSE 0)

\* A thread never goes back to an earlier step of its clean-up but for the one
\* SIGINT that may interrupt a terminate handler, and never from a clean-up to
\* the code it interrupted: whatever signals come, a thread makes at most
\* eighteen steps into and through its clean-ups (Utilities.cpp, signalHandler,
\* terminateHandler).
CleanUpShrinks ==
    [][\A t \in Threads : <<frame[t], cause[t]>>' # <<frame[t], cause[t]>>
                            => Left(t)' < Left(t)]_vars

-----------------------------------------------------------------------------
(* The inductive invariant.                                                 *)

\* The steps of the clean-up after the removal, after the parameters, and
\* after the level.
PastShm    == Frames \ {"none", "shm"}
PastParams == PastShm \ {"params"}
PastLevel  == PastParams \ {"level", "setting"}

CauseInv == \A t \in Threads : cause[t] = "none" <=> frame[t] = "none"

\* Only inside the loop has a helper work.
TeamInv == \A h \in Helpers : at[h] = "place" => at["main"] \in {"place", "barrier"}

\* While a thread cleans up, the main thread is in a handler too, or in a
\* parallel loop that a helper stuck in its handler never lets it leave.
QuietInv == CleaningUp =>
    \/ frame["main"] # "none"
    \/ /\ at["main"] \in {"place", "barrier"}
       /\ \E h \in Helpers : frame[h] # "none" /\ at[h] = "place"

StepInv == \A t \in Threads :
    /\ frame[t] \in PastShm => ~shm
    /\ frame[t] \in PastParams => requested = 100
    /\ frame[t] \in PastLevel => faulty \/ mba = 100

LibraryInv == library = "down" => CleaningUp /\ (faulty \/ mba = 100)

IInv == /\ TypeOK
        /\ CauseInv
        /\ TeamInv
        /\ QuietInv
        /\ StepInv
        /\ LibraryInv
        /\ HandlersRestore
=============================================================================
