---------------------------- MODULE MCCountdown -----------------------------
(***************************************************************************)
(* A small instance of Countdown: a minute of three units, a warning two   *)
(* units and a caution one minute before the end.                          *)
(***************************************************************************)
EXTENDS Countdown

=============================================================================
