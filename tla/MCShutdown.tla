----------------------------- MODULE MCShutdown -----------------------------
(****************************************************************************)
(* Model checking of Shutdown: what the two handlers are said to do and     *)
(* cannot always do.                                                        *)
(****************************************************************************)
EXTENDS Shutdown

\* A clean-up, on whichever thread, ends the process, whatever other threads and
\* signals do meanwhile, unless a signal interrupted some thread inside libpqos or
\* the allocator, at its work or in a clean-up of its own: threads that wait for
\* each other's library calls, threads stuck at the barrier and handlers inside
\* handlers do not keep it from ending (Utilities.cpp, signalHandler,
\* terminateHandler; MbaHandler.cpp, reset_mba).
LibraryInterrupted == lock = "lost" \/ reentrant # {}
ShutdownCompletes == CleaningUp ~> ended # "no" \/ LibraryInterrupted

\* signalHandler, Utilities.cpp:84-85: "cleanup and close up stuff here",
\* "terminate program".  A SIGINT ends the process.
SigintTerminates == signals > 0 ~> ended # "no"
=============================================================================
