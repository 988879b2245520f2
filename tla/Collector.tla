------------------------------ MODULE Collector ------------------------------
(****************************************************************************)
(* What the control loops may assume of the measurement thread: of each     *)
(* vector of samples only its last element, which changes for one LCA after *)
(* the other, in turn, and is out of reach while the vector moves.  The     *)
(* polls, the counters, the report and the number of samples are left out.  *)
(****************************************************************************)

CONSTANTS
    Lcas,     \* the latency-critical applications, two of them
    First,    \* the one whose vector is appended to first
    Slacks,   \* the slacks a sample can stand for
    NoReply   \* the slack an empty vector stands for

VARIABLES
    latest,  \* the last element of each vector
    turn,    \* the vector the next sample goes to
    moving   \* is that vector being reallocated?

vars == <<latest, turn, moving>>

Init == /\ latest = [l \in Lcas |-> NoReply]
        /\ turn = First
        /\ moving = FALSE

\* A sample becomes the last element of the vector whose turn it is.
Appended == /\ latest' \in {[latest EXCEPT ![turn] = s] : s \in Slacks}
            /\ turn' \in Lcas \ {turn}

Append == ~moving /\ Appended /\ UNCHANGED moving

\* A full vector moves first; it is back with the sample in place.
Move == ~moving /\ moving' = TRUE /\ UNCHANGED <<latest, turn>>

Settle == moving /\ moving' = FALSE /\ Appended

Next == Append \/ Move \/ Settle

Spec == Init /\ [][Next]_vars
=============================================================================
