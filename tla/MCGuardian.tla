----------------------------- MODULE MCGuardian -----------------------------
(***************************************************************************)
(* Instances of Guardian for TLC.                                          *)
(***************************************************************************)
EXTENDS Guardian

MCClasses == {"V4Only", "V6Only", "V4AndV6", "Auto"}
=============================================================================
