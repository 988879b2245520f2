---------------------------- MODULE MCController ----------------------------
(****************************************************************************)
(* Properties of Controller that only TLC checks.                           *)
(****************************************************************************)
EXTENDS Controller

SamplesGreen  == Green(samples)
InDanger(l)   == samples[l] < slack_up
Stopped       == exited # "no"

\* When both LCAs end up in the green zone for good, the bandwidth of the
\* best-effort application is eventually fully released and stays so, whatever
\* the loop was doing (Utilities.cpp, abc_numa, release_mba).
ThrottleReleased ==
    <>[]SamplesGreen => <>[](mba = 100 \/ Stopped)

\* An LCA that stays in danger eventually has the pages moved to the remote node
\* as far as whole steps go: all of them from a start ratio that is a multiple of
\* ten, up to the last step below 100 from another one (95 from -r 85, which
\* read_config accepts).  So it is from any start ratio in page_migration_only
\* and, for memcached, from one other than 0 in abc_numa (Utilities.cpp, both
\* loops and apply_pagemigration_lr_same_socket).
DangerMigrates ==
    \A l \in Lcas :
        <>[]InDanger(l) =>
            <>(\/ placed + ADAPTATION_STEP > 100
               \/ Stopped
               \/ mode = "abc_numa" /\ (l = "xapian" \/ current_remote_ratio = 0))

-----------------------------------------------------------------------------
(* What comments and log lines of the code say and the code does not do.    *)

\* "danger zone, apply page migration" (Utilities.cpp:250): also when it is
\* xapian that stays in danger.
XapianDangerMigrates ==
    <>[]InDanger("xapian") =>
        <>(placed = 100 \/ Stopped \/ current_remote_ratio = 0)
=============================================================================
