---------------------------- MODULE MCSupervisor ----------------------------
(***************************************************************************)
(* Small instances of Supervisor.                                          *)
(***************************************************************************)
EXTENDS Supervisor

AnyExit == {"completed", "failed"}
Failures == {"failed"}

=============================================================================
