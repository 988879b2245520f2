--------------------------- MODULE MCLatencyPoll ---------------------------
(****************************************************************************)
(* The instance of LatencyPoll that TLC checks: a miss by half a unit, a    *)
(* latency exactly at slack_up, which has a fraction too, and latency 0.    *)
(****************************************************************************)
EXTENDS LatencyPoll

MCSlacks == {-1, 5, 100}
=============================================================================
