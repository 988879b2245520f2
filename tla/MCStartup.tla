----------------------------- MODULE MCStartup -----------------------------
(****************************************************************************)
(* The instance of Startup that TLC checks: all settings.                   *)
(****************************************************************************)
EXTENDS Startup

MCSettings == AllSettings
=============================================================================
