--------------------------- MODULE MCPagePlacement ---------------------------
(****************************************************************************)
(* Model checking of PagePlacement, and what its comments promise.          *)
(****************************************************************************)
EXTENDS PagePlacement

\* PagePlacement.cpp:334: "initial page placement with weighted interleave", for
\* a segment of any length.
WeightedInterleave ==
    \A s \in Segments : ratio = 100 /\ phase[s] = "done"
        => \A i \in Pages(s) : located[s][i] = 1
=============================================================================
