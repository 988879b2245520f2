------------------------------ MODULE Placement ------------------------------
(****************************************************************************)
(* What the loops may assume of place_all_pages: the pages as a whole have  *)
(* one share on the remote node, which a placement moves on by one step, up *)
(* to 100, or fails to, and then the program is gone.  Segments, threads,   *)
(* weights and single pages are left out.                                   *)
(****************************************************************************)
EXTENDS Integers

CONSTANTS
    InitShares,  \* the shares the pages may have at the start
    Step         \* how far a placement moves it, per cent

VARIABLES
    share,   \* the share of the pages on the remote node, per cent
    alive    \* is the program running?

vars == <<share, alive>>

Init == share \in InitShares /\ alive = TRUE

Room == share + Step <= 100

Place == /\ alive
         /\ Room
         /\ share' = share + Step
         /\ UNCHANGED alive

\* The program may end at any time, in the middle of a placement too.
End == /\ alive
       /\ alive' = FALSE
       /\ share' \in {share} \cup (IF Room THEN {share + Step} ELSE {})

Next == Place \/ End

Spec == Init /\ [][Next]_vars
=============================================================================
