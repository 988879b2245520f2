---------------------------- MODULE PagePlacement ----------------------------
(****************************************************************************)
(* place_all_pages: the weights of a remote ratio, the weighted interleave  *)
(* of every shared segment over the two nodes, and move_pages, one OpenMP   *)
(* iteration per segment.  Node 0 is the worker, node 1 the remote one.     *)
(*                                                                          *)
(* The ratios are multiples of ADAPTATION_STEP, for which the code's        *)
(* truncation of double products is the integer division used here.         *)
(****************************************************************************)
EXTENDS Integers, FiniteSets

CONSTANTS
    Segments,     \* the shared segments of the best-effort application
    PageCounts,   \* their possible lengths, in pages
    PagesPerInt,  \* the page at which int i * pagesize overflows
    MoveFaults    \* may move_pages fail?

\* A segment is at most twice as long as an int can address (4 GiB).
ASSUME PageAssumption == /\ PagesPerInt \in Nat \ {0}
                         /\ PageCounts \subseteq 1..(2 * PagesPerInt)

ADAPTATION_STEP == 10
Nodes == {0, 1}
Steps == {ADAPTATION_STEP * n : n \in 0..10}

VARIABLES
    page_count,  \* the length of each segment
    wraps,       \* does the build evaluate i * pagesize in 32 bits?
    ratio,       \* the ratio placed last, or being placed
    phase,       \* of each segment: "idle", "move" or "done"
    located,     \* the node of every page
    failed       \* has std::terminate been called?

vars == <<page_count, wraps, ratio, phase, located, failed>>

Pages(s) == 0..(page_count[s] - 1)

Init == /\ page_count \in [Segments -> PageCounts]
        /\ wraps \in BOOLEAN
        /\ ratio = 0
        /\ phase = [s \in Segments |-> "idle"]
        /\ located = [s \in Segments |-> [i \in Pages(s) |-> 0]]
        /\ failed = FALSE

-----------------------------------------------------------------------------
(* The weights, in ascending order of (weight, node).                       *)

\* (mutant: the vector is not sorted)
Unsorted(r) == <<[weight |-> 100 - r, node |-> 0], [weight |-> r, node |-> 1]>>

get_new_weights_v2(r) ==
    LET local  == [weight |-> 100 - r, node |-> 0]
        remote == [weight |-> r, node |-> 1]
    IN  IF local.weight <= remote.weight THEN <<local, remote>> ELSE <<remote, local>>

\* The pages shared by both nodes, then those of the heavier one alone.
AtMost(n, m) == IF n > m THEN m ELSE n

Both(p, ws)  == AtMost((2 * ws[1].weight * p) \div 100, p)

\* (mutant: the weight is divided by 100 as an integer)
AloneTruncated(p, ws) == AtMost(((ws[2].weight - ws[1].weight) \div 100) * p,
                                p - Both(p, ws))

Alone(p, ws) == AtMost(((ws[2].weight - ws[1].weight) * p) \div 100, p - Both(p, ws))

Allotted(p, ws) == Both(p, ws) + Alone(p, ws)

\* (mutant: the lighter node keeps its place in node_ids)
KeepFirstNode(i, p, ws) ==
    IF i < Both(p, ws) THEN ws[(i % 2) + 1].node
    ELSE IF i < Allotted(p, ws) THEN ws[1].node ELSE 0

\* Pages that no phase allots stay at the initial 0.
NodeOf(i, p, ws) == IF i < Both(p, ws) THEN ws[(i % 2) + 1].node
                    ELSE IF i < Allotted(p, ws) THEN ws[2].node ELSE 0

\* The entries whose address lies in the segment.
Addressed(s) == {i \in Pages(s) : wraps => i < PagesPerInt}

-----------------------------------------------------------------------------
\* (mutant: one more step after 100)
PlaceOnceMore ==
    /\ ~failed
    /\ ratio <= 100
    /\ \A s \in Segments : phase[s] = "idle"
    /\ ratio' = ratio + ADAPTATION_STEP
    /\ phase' = [s \in Segments |-> "move"]
    /\ UNCHANGED <<page_count, wraps, located, failed>>

\* The next iteration of a migration loop.
place_all_pages ==
    /\ ~failed
    /\ ratio < 100
    /\ \A s \in Segments : phase[s] = "idle"
    /\ ratio' = ratio + ADAPTATION_STEP
    /\ phase' = [s \in Segments |-> "move"]
    /\ UNCHANGED <<page_count, wraps, located, failed>>

\* The per-page status is not looked at: a page outside the segment is skipped.
move_pages_remote(s) ==
    /\ ~failed
    /\ phase[s] = "move"
    /\ \/ /\ located' = [located EXCEPT ![s] =
                [i \in Pages(s) |->
                    IF i \in Addressed(s)
                    THEN NodeOf(i, page_count[s], get_new_weights_v2(ratio))
                    ELSE located[s][i]]]
          /\ phase' = [phase EXCEPT ![s] = "done"]
          /\ UNCHANGED failed
       \/ /\ MoveFaults
          /\ failed' = TRUE
          /\ UNCHANGED <<located, phase>>
    /\ UNCHANGED <<page_count, wraps, ratio>>

\* (mutant: the loop does not wait for its last iteration)
JoinEarly == /\ ~failed
             /\ \E s \in Segments : phase[s] = "done"
             /\ phase' = [s \in Segments |-> "idle"]
             /\ UNCHANGED <<page_count, wraps, ratio, located, failed>>

Join == /\ ~failed
        /\ \A s \in Segments : phase[s] = "done"
        /\ phase' = [s \in Segments |-> "idle"]
        /\ UNCHANGED <<page_count, wraps, ratio, located, failed>>

Done == /\ failed \/ (ratio = 100 /\ \A s \in Segments : phase[s] = "idle")
        /\ UNCHANGED vars

Next == \/ place_all_pages
        \/ \E s \in Segments : move_pages_remote(s)
        \/ Join
        \/ Done

Spec == Init /\ [][Next]_vars

-----------------------------------------------------------------------------
TypeOK == /\ page_count \in [Segments -> PageCounts]
          /\ wraps \in BOOLEAN
          /\ ratio \in Steps
          /\ phase \in [Segments -> {"idle", "move", "done"}]
          /\ located = [s \in Segments |-> located[s]]
          /\ \A s \in Segments : located[s] \in [Pages(s) -> Nodes]
          /\ failed \in BOOLEAN

Remote(s) == Cardinality({i \in Pages(s) : located[s][i] = 1})

Addressable(s) == ~wraps \/ page_count[s] <= PagesPerInt

\* The ratio a segment has been moved to.
Applied(s) == IF phase[s] = "move" THEN ratio - ADAPTATION_STEP ELSE ratio

\* move_pages_remote: whatever its length, and while the other segments are still
\* being moved, a segment has its remote share, with at most half a page too much
\* and one and a half too little (the truncation of both phases, and the page
\* left to node 0).
SharesFollowWeights ==
    \A s \in Segments :
        Addressable(s) => 100 * Remote(s) - Applied(s) * page_count[s] \in -150..50

\* The interleave leaves at most the last page to the initial value, as the
\* comment at line 365 hopes.
LastPageOnly == \A s \in Segments :
    page_count[s] - Allotted(page_count[s], get_new_weights_v2(ratio)) \in {0, 1}

\* At ratio 100 no page is left on the worker node.
FullMeansAll ==
    \A s \in Segments :
        ratio = 100 /\ phase[s] # "move" /\ Addressable(s)
        => \A i \in Pages(s) : located[s][i] = 1

\* A migration never takes remote bandwidth back from a segment of some size
\* (from 50 to 60 the truncation costs a segment of four pages one of them).
RemoteGrows == [][\A s \in Segments :
                    page_count[s] >= 10 => Remote(s)' >= Remote(s)]_vars

-----------------------------------------------------------------------------
(* The parallel loop as one placement, seen from the pages.                 *)

\* The segments whose share shows in their pages: long enough for a step to be
\* more than twice the error of the truncation.
Long == {s \in Segments : Addressable(s) /\ page_count[s] > 30}

\* The ratio the pages of a segment are nearest to.
Near(s, r)  == 100 * Remote(s) - r * page_count[s]
                   \in -(5 * page_count[s])..(5 * page_count[s])
Measured(s) == CHOOSE r \in Steps : Near(s, r)

\* The pages as a whole are where the last of their segments is.
Slowest(r) == /\ \E s \in Long : Measured(s) = r
              /\ \A s \in Long : Measured(s) >= r
Share == IF Long = {} THEN 0 ELSE CHOOSE r \in Steps : Slowest(r)

Whole == INSTANCE Placement
             WITH InitShares <- {0},
                  Step <- ADAPTATION_STEP,
                  share <- Share,
                  alive <- ~failed

\* In whatever order the OpenMP iterations move the segments, the pages that are
\* counted on the remote node go through one placement after the other, by one
\* step each, or the program ends: no segment misses a placement, what Controller
\* takes for granted (PagePlacement.cpp, place_all_pages, move_pages_remote).
PlacementSpec == Whole!Spec

\* The segments move together: their pages, counted, have the same share between
\* two placements, and during one they are at most that step apart.
Placing == \E s \in Segments : phase[s] = "move"
SegmentsShare == \A s \in Long :
    Measured(s) \in IF Placing THEN {Share, Share + ADAPTATION_STEP} ELSE {Share}
=============================================================================
