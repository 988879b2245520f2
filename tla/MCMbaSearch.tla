---------------------------- MODULE MCMbaSearch ----------------------------
(****************************************************************************)
(* What a comment of search_optimal_mba claims and the code does not do.    *)
(****************************************************************************)
EXTENDS MbaSearch

ValidLevels == {100, 90, 60, 50, 40, 30, 20, 10}

\* "Search the highest MBA that still meets the target SLO"
\* (Utilities.cpp:1093): a search that ends on a level that meets the target
\* leaves no higher valid level that meets it too.
FindsHighest ==
    [][Returns /\ current_latency' = "met" /\ mba <= load
       => \A level \in ValidLevels : level <= load => level <= mba]_vars
=============================================================================
