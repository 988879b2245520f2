------------------------------ MODULE OrderlyEnd ------------------------------
(****************************************************************************)
(* What the end of a running controller promises, with the threads, the     *)
(* handlers and the signals left out: it works on the level, then cleans    *)
(* up, then is gone, and while it cleans up nothing works against it.       *)
(****************************************************************************)
EXTENDS Integers

CONSTANT Levels   \* the levels the controller applies

VARIABLES
    stage,    \* "running", "cleaning", or gone: "clean" or "broken"
    level,    \* the level of the hardware
    segment,  \* does the shared segment exist?
    faulty    \* may a level not be set on this machine?

vars == <<stage, level, segment, faulty>>

Init == /\ stage = "running"
        /\ level = 100
        /\ segment = TRUE
        /\ faulty \in BOOLEAN

Apply == /\ stage = "running"
         /\ level' \in Levels \cup {100}
         /\ UNCHANGED <<stage, segment, faulty>>

\* A level that cannot be set ends the controller on the spot.
GiveUp == /\ stage = "running"
          /\ faulty
          /\ stage' = "broken"
          /\ UNCHANGED <<level, segment, faulty>>

Begin == /\ stage = "running"
         /\ stage' = "cleaning"
         /\ UNCHANGED <<level, segment, faulty>>

RemoveSegment == /\ stage = "cleaning"
                 /\ segment' = FALSE
                 /\ UNCHANGED <<stage, level, faulty>>

Restore == /\ stage = "cleaning"
           /\ level' = 100
           /\ UNCHANGED <<stage, segment, faulty>>

\* Only a machine that refuses a level is left throttled.
Finish == /\ stage = "cleaning"
          /\ ~segment
          /\ faulty \/ level = 100
          /\ stage' = "clean"
          /\ UNCHANGED <<level, segment, faulty>>

Next == Apply \/ GiveUp \/ Begin \/ RemoveSegment \/ Restore \/ Finish

Spec == Init /\ [][Next]_vars
=============================================================================
