--------------------------- MODULE BandwidthPolicy ---------------------------
(****************************************************************************)
(* What each mode promises of the two resources the program controls, with  *)
(* the loops, the threads and the recorded values left out: when the        *)
(* bandwidth of the best-effort application may be cut, raised or lowered,  *)
(* and when its pages may be moved, in terms of the slack last observed.    *)
(****************************************************************************)
EXTENDS Integers

CONSTANTS Modes, Lcas, Primary, Slacks, slack_up, slack_down_mba, InitShares

VARIABLES
    mode,    \* what the controller may use: bandwidth, pages, both or none
    level,   \* bandwidth of the best-effort application, per cent
    share,   \* share of its pages on the remote node, per cent
    view,    \* the slack last observed for each LCA
    active   \* is the controller running?

vars == <<mode, level, share, view, active>>

Init == /\ mode \in Modes
        /\ level = 100
        /\ share \in InitShares
        /\ view \in [Lcas -> Slacks]
        /\ active = TRUE

InDanger == \E l \in Lcas : view[l] < slack_up
InGreen  == \A l \in Lcas : view[l] > slack_down_mba

\* A measurement changes what is known and nothing else.
Observe == /\ active
           /\ view' \in [Lcas -> Slacks]
           /\ UNCHANGED <<mode, level, share, active>>

\* Danger with the bandwidth released cuts it to a tenth, at once, if some
\* pages are remote.
Engage == /\ active
          /\ mode \in {"abc_numa", "mba_10"}
          /\ level = 100 /\ InDanger /\ share # 0
          /\ level' = 10
          /\ UNCHANGED <<mode, share, view, active>>

\* The green zone raises the bandwidth by one level: 70 and 80 are skipped.
\* mba_10 never gives back what it took.
Raise == /\ active
         /\ mode = "abc_numa"
         /\ level # 100 /\ InGreen
         /\ level' = IF level = 60 THEN 90 ELSE level + 10
         /\ UNCHANGED <<mode, share, view, active>>

\* Outside the green zone a raise may be taken back by ten.
Lower == /\ active
         /\ mode = "abc_numa"
         /\ level > 10 /\ ~InGreen
         /\ level' = level - 10
         /\ UNCHANGED <<mode, share, view, active>>

\* abc_numa moves pages only under throttling, while the primary LCA has no
\* slack; page_migration_only while some LCA has none; the test always.
MayMigrate ==
    \/ mode = "abc_numa" /\ level # 100 /\ view[Primary] <= slack_up
    \/ mode = "page_migration_only" /\ \E l \in Lcas : view[l] <= slack_up
    \/ mode = "bw_manager_test"

Migrate == /\ active
           /\ share < 100
           /\ MayMigrate
           /\ share' = share + 10
           /\ UNCHANGED <<mode, level, view, active>>

\* The end of the process may leave any of the levels it could be at, and a
\* migration it interrupts may be done.
Quit == /\ active
        /\ active' = FALSE
        /\ level' \in {level, 100}
        /\ share' \in {share, share + 10}
        /\ UNCHANGED <<mode, view>>

Next == Observe \/ Engage \/ Raise \/ Lower \/ Migrate \/ Quit

Spec == Init /\ [][Next]_vars
=============================================================================
