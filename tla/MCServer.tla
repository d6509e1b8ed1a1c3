------------------------------ MODULE MCServer ------------------------------
(***************************************************************************)
(* Small instances of Server.  A reward grants two minutes or takes one, so*)
(* that two changes can cancel and an old value can come back.             *)
(***************************************************************************)
EXTENDS Server

MCGrants == {-1, 2}

AnyKind == AllKinds
KindsCached == {"approve", "submit", "heartbeat"}

=============================================================================
