------------------------------- MODULE Startup -------------------------------
(****************************************************************************)
(* The life of a controller, over restarts: read_config, initialize_mba,    *)
(* the wait for a first latency, the handshake with the best-effort         *)
(* application through the shared-memory segment MySharedMemory, the        *)
(* control loop (only its effect on the MBA level), and every way to end.   *)
(*                                                                          *)
(* What outlives a controller is the level of the hardware and the segment. *)
(* The writer of the segment is not part of the repository: an application  *)
(* is taken to create the segment anew under the common name, to build      *)
(* MyVector in it, to append its memory segments one by one, and to end     *)
(* whenever it likes.                                                       *)
(****************************************************************************)
EXTENDS Integers

CONSTANTS
    MaxApps,    \* bound on the applications launched one after the other
    ListSize,   \* the memory segments of an application
    Settings,   \* the settings a controller may be started with
    Throttles   \* the levels below 100 the control loop may apply

Apps == 1 .. MaxApps
NoApp == 0

\* noCores: fewer than two; noFile: no weights file; test: mode 5; badMode: no
\* mode at all.
AllSettings == {"good", "test", "help", "noCores", "noFile", "badMode"}

ASSUME SettingsAssumption == Settings \subseteq AllSettings
ASSUME BoundsAssumption   == /\ MaxApps \in Nat
                             /\ ListSize \in Nat \ {0}
ASSUME LevelsAssumption   == Throttles \subseteq 1 .. 99

VARIABLES
    app,          \* the application launched last, or NoApp
    alive,        \* does it run?
    named,        \* the application whose segment has the common name
    vector,       \* MyVector of each application
    pushed,       \* how many elements each application has appended
    pc,           \* what the controller is doing, or "down"
    settings,     \* what it was started with
    pqos,         \* is libpqos initialized?
    from,         \* the application whose segment the controller has opened
    mem_segments, \* how many of its memory segments are copied
    mba,          \* the level of the hardware
    managed,      \* the applications a control loop has been run for
    faulty,       \* may pqos_mba_set fail on this machine?
    lastControl   \* the last end of a control loop or reset: "none" yet, a
                  \* "handler", or "vanished" past the handlers

be         == <<app, alive, pushed>>
segment    == <<named, vector>>
controller == <<settings, pqos, from, mem_segments>>
machine    == <<mba, managed, faulty, lastControl>>
vars == <<be, segment, pc, controller, machine>>

PCs == {"down", "config", "init", "window", "open", "find", "copy", "noList",
        "dispatch", "loop"}

Init == /\ app = NoApp
        /\ alive = FALSE
        /\ named = NoApp
        /\ vector = [a \in Apps |-> "absent"]
        /\ pushed = [a \in Apps |-> 0]
        /\ pc = "down"
        /\ settings \in Settings
        /\ pqos = FALSE
        /\ from = NoApp
        /\ mem_segments = 0
        /\ mba = 100
        /\ managed = {}
        /\ faulty \in BOOLEAN
        /\ lastControl = "none"

-----------------------------------------------------------------------------
(* The best-effort application (external).                                  *)

Launch == /\ ~alive
          /\ app < MaxApps
          /\ app' = app + 1
          /\ alive' = TRUE
          /\ UNCHANGED <<pushed, segment, pc, controller, machine>>

CreateSegment == /\ alive
                 /\ named # app
                 /\ vector[app] = "absent"
                 /\ named' = app
                 /\ UNCHANGED <<be, vector, pc, controller, machine>>

BuildVector == /\ alive
               /\ named = app
               /\ vector[app] = "absent"
               /\ vector' = [vector EXCEPT ![app] = "built"]
               /\ UNCHANGED <<be, named, pc, controller, machine>>

Append == /\ alive
          /\ vector[app] = "built"
          /\ pushed[app] < ListSize
          /\ pushed' = [pushed EXCEPT ![app] = @ + 1]
          /\ UNCHANGED <<app, alive, segment, pc, controller, machine>>

Die == /\ alive
       /\ alive' = FALSE
       /\ UNCHANGED <<app, pushed, segment, pc, controller, machine>>

-----------------------------------------------------------------------------
(* How a controller ends.                                                   *)

\* exit without a handler, or a kill.
Vanish == /\ pc' = "down"
          /\ pqos' = FALSE
          /\ lastControl' = IF pc = "loop" THEN "vanished" ELSE lastControl
          /\ UNCHANGED <<settings, from, mem_segments, mba, managed, faulty>>

\* (mutant: the handler leaves the level alone)
ResetNothing == {mba}

\* reset_mba: pqos_mba_set refuses to work before initialize_mba.
ResetLevels == IF ~pqos THEN {mba} ELSE IF faulty THEN {100, mba} ELSE {100}

destroy_shared_memory == named' = NoApp /\ UNCHANGED vector

\* signalHandler and terminateHandler.
Handler == /\ destroy_shared_memory
           /\ mba' \in ResetLevels
           /\ pc' = "down"
           /\ pqos' = FALSE
           /\ lastControl' = IF pqos THEN "handler" ELSE lastControl
           /\ UNCHANGED <<settings, from, mem_segments, managed, faulty, be>>

Kill == pc # "down" /\ Vanish /\ UNCHANGED <<be, segment>>

\* The handlers are registered first of all.
Sigint == pc # "down" /\ Handler

\* move_pages fails on an application that is gone.
MoveFails == /\ pc = "loop"
             /\ ~(alive /\ from = app)
             /\ Handler

\* A level that cannot be set, weights that do not add up.
ControlExits == pc = "loop" /\ Vanish /\ UNCHANGED <<be, segment>>

\* bw_manager_test returns to main, which removes the segment.
ControlReturns == /\ pc = "loop"
                  /\ settings = "test"
                  /\ Vanish
                  /\ destroy_shared_memory
                  /\ UNCHANGED be

-----------------------------------------------------------------------------
(* The controller, from main to its loop.                                   *)

Start == /\ pc = "down"
         /\ pc' = "config"
         /\ settings' \in Settings
         /\ from' = NoApp
         /\ mem_segments' = 0
         /\ UNCHANGED <<be, segment, pqos, machine>>

\* A malformed command line is reported and ignored.
read_config ==
    /\ pc = "config"
    /\ UNCHANGED <<be, segment>>
    /\ \/ /\ settings \in {"good", "test", "badMode"}
          /\ pc' = "init"
          /\ UNCHANGED <<controller, machine>>
       \/ settings \in {"help", "noCores", "noFile"} /\ Vanish

\* Neither reads the level of the hardware nor sets it.
initialize_mba ==
    /\ pc = "init"
    /\ UNCHANGED <<be, segment>>
    /\ \/ /\ pc' = "window"
          /\ pqos' = TRUE
          /\ UNCHANGED <<settings, from, mem_segments, machine>>
       \/ Vanish

\* The sliding window counts as set up when memcached reports more than 33
\* microseconds or xapian anything; a poll that fails reports 0.
WindowSet(cl, cl_xpn) == ~(cl <= 33 /\ cl_xpn <= 0)

start_bw_manager ==
    /\ pc = "window"
    /\ \E cl \in {0, 33, 34}, cl_xpn \in {0, 1} :
          pc' = IF WindowSet(cl, cl_xpn) THEN "open" ELSE "window"
    /\ UNCHANGED <<be, segment, controller, machine>>

\* get_shared_memory retries until the name exists.
OpenSegment == /\ pc = "open"
               /\ named # NoApp
               /\ from' = named
               /\ pc' = "find"
               /\ UNCHANGED <<be, segment, settings, pqos, mem_segments, machine>>

\* Any other error than a missing name ends the retries with nothing.
OpenFails == /\ pc = "open"
             /\ pc' = "noList"
             /\ UNCHANGED <<be, segment, controller, machine>>

FindVector == /\ pc = "find"
              /\ pc' = IF vector[from] = "built" THEN "copy" ELSE "noList"
              /\ UNCHANGED <<be, segment, controller, machine>>

\* (mutant: one element too many)
CopyBeyond == /\ pc = "copy"
              /\ mem_segments <= pushed[from]
              /\ mem_segments' = mem_segments + 1
              /\ UNCHANGED <<be, segment, pc, settings, pqos, from, machine>>

\* The size is read again for each element: what is appended during the copy
\* is copied too.
CopyElement == /\ pc = "copy"
               /\ mem_segments < pushed[from]
               /\ mem_segments' = mem_segments + 1
               /\ UNCHANGED <<be, segment, pc, settings, pqos, from, machine>>

\* (mutants: the vector stays; the last element is left out; an empty list will
\* do)
KeepVector == /\ pc = "copy"
              /\ mem_segments >= pushed[from]
              /\ pc' = IF mem_segments = 0 THEN "noList" ELSE "dispatch"
              /\ UNCHANGED <<be, segment, controller, machine>>

StopShort == /\ pc = "copy"
             /\ mem_segments + 1 >= pushed[from]
             /\ vector' = [vector EXCEPT ![from] = "destroyed"]
             /\ pc' = IF mem_segments = 0 THEN "noList" ELSE "dispatch"
             /\ UNCHANGED <<be, named, controller, machine>>

TakeEmpty == /\ pc = "copy"
             /\ mem_segments >= pushed[from]
             /\ vector' = [vector EXCEPT ![from] = "destroyed"]
             /\ pc' = "dispatch"
             /\ UNCHANGED <<be, named, controller, machine>>

DestroyVector == /\ pc = "copy"
                 /\ mem_segments >= pushed[from]
                 /\ vector' = [vector EXCEPT ![from] = "destroyed"]
                 /\ pc' = IF mem_segments = 0 THEN "noList" ELSE "dispatch"
                 /\ UNCHANGED <<be, named, controller, machine>>

\* get_memory_segments found nothing.  stop_all_counters fails, likwid not
\* being initialized, and calls exit itself.
NoSegments == pc = "noList" /\ Vanish /\ destroy_shared_memory /\ UNCHANGED be

\* The mode is looked at only here, after the handshake.
Dispatch == /\ pc = "dispatch"
            /\ UNCHANGED <<be, segment>>
            /\ \/ /\ settings # "badMode"
                  /\ pc' = "loop"
                  /\ managed' = managed \cup {from}
                  /\ UNCHANGED <<controller, mba, faulty, lastControl>>
               \/ settings = "badMode" /\ Vanish

\* The modes, as far as the level is concerned: bw_manager_test does not set it.
Control == /\ pc = "loop"
           /\ settings = "good"
           /\ mba' \in Throttles \cup {100}
           /\ UNCHANGED <<be, segment, pc, controller, managed, faulty,
                          lastControl>>

-----------------------------------------------------------------------------

App == Launch \/ CreateSegment \/ BuildVector \/ Append \/ Die

Handshake == OpenSegment \/ OpenFails \/ FindVector \/ CopyElement
             \/ DestroyVector \/ NoSegments \/ Dispatch

StartUp == read_config \/ initialize_mba \/ start_bw_manager \/ Handshake

End == Kill \/ Sigint \/ MoveFails \/ ControlExits \/ ControlReturns

Next == App \/ Start \/ StartUp \/ Control \/ End

Spec == Init /\ [][Next]_vars

\* The code of the handshake runs on; nobody has to start or to publish.
FairSpec == Spec /\ WF_vars(Handshake)

-----------------------------------------------------------------------------
(* What a start promises.                                                   *)

\* The type of every variable.
TypeOK == /\ app \in Apps \cup {NoApp}
          /\ alive \in BOOLEAN
          /\ named \in Apps \cup {NoApp}
          /\ vector \in [Apps -> {"absent", "built", "destroyed"}]
          /\ pushed \in [Apps -> 0 .. ListSize]
          /\ pc \in PCs
          /\ settings \in Settings
          /\ pqos \in BOOLEAN
          /\ from \in Apps \cup {NoApp}
          /\ mem_segments \in 0 .. ListSize
          /\ mba \in Throttles \cup {100}
          /\ managed \subseteq Apps
          /\ faulty \in BOOLEAN
          /\ lastControl \in {"none", "handler", "vanished"}

\* A controller starts on an unthrottled machine, whatever starts and signals
\* came before it, unless a control loop ended past the handlers and no handler
\* ran since: then the level survives, since initialize_mba does not look
\* (MbaHandler.cpp, initialize_mba, reset_mba; Utilities.cpp, signalHandler).
StartUnthrottled ==
    pc # "loop" /\ ~faulty /\ lastControl # "vanished" => mba = 100

\* The list of an application is handed to one controller only: a controller
\* that is killed and restarted while the application lives cannot have its
\* memory segments again (MySharedMemory.cpp, get_shared_memory).
HandedOverOnce ==
    [][pc # "loop" /\ pc' = "loop" => from \notin managed]_vars

\* A loop never runs for an application whose vector is still there for
\* another controller, nor without memory segments to move
\* (MySharedMemory.cpp, get_shared_memory; Utilities.cpp, get_memory_segments).
ConsumedBeforeControl ==
    pc = "loop" => vector[from] = "destroyed" /\ mem_segments # 0

\* A controller that opens a segment whose list is complete takes all of it,
\* or ends (MySharedMemory.cpp, get_shared_memory).
TakesWholeList ==
    \A a \in Apps :
        pc = "find" /\ from = a /\ vector[a] = "built" /\ pushed[a] = ListSize
        ~> \/ pc = "down"
           \/ pc = "loop" /\ from = a /\ mem_segments = ListSize

\* Where the list of an application is in its life.
InSegment(v) == IF v = "absent" THEN "unpublished"
                ELSE IF v = "built" THEN "published" ELSE "spent"
Life(a) == IF pc = "dispatch" /\ from = a THEN "claimed"
           ELSE IF pc = "loop" /\ from = a THEN "managed"
           ELSE InSegment(vector[a])

\* The machine over all its controllers.
Machine == INSTANCE Tenancy
               WITH life <- [a \in Apps |-> Life(a)],
                    level <- mba,
                    stranded <- (lastControl = "vanished")

\* Over every sequence of starts, launches, kills and signals a list has one
\* life: a controller that is killed and restarted while the application lives
\* cannot have its memory segments again, one controller manages one list, and
\* the level changes only under a loop that manages one or by a reset
\* (MySharedMemory.cpp, get_shared_memory; Utilities.cpp, signalHandler and the
\* modes; MbaHandler.cpp, reset_mba).
TenancySpec == Machine!Spec

-----------------------------------------------------------------------------
(* The inductive invariant behind the safety properties.                    *)

Opened == {"find", "copy", "dispatch", "loop"}

\* libpqos is initialized from the sliding window on.
LibraryInv == pc \in {"window", "open", "noList"} \cup Opened => pqos

HandoverInv ==
    /\ alive => app # NoApp
    /\ \A a \in managed : vector[a] = "destroyed"
    /\ pc \in Opened => from # NoApp
    /\ pc = "copy" => vector[from] = "built"
    /\ pc \in {"dispatch", "loop"} =>
          vector[from] = "destroyed" /\ mem_segments # 0
    /\ pc = "dispatch" => from \notin managed

IInv == TypeOK /\ StartUnthrottled /\ LibraryInv /\ HandoverInv
=============================================================================
