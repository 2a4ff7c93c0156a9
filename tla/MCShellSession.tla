---------------------------- MODULE MCShellSession ----------------------------
(***************************************************************************)
(* Windows of a few bytes, so that both are used up and replenished        *)
(* several times in a session.                                             *)
(***************************************************************************)
EXTENDS ShellSession

===============================================================================
