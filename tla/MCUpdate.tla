------------------------------ MODULE MCUpdate ------------------------------
(***************************************************************************)
(* A small instance of Update: releases below, at and above the server's   *)
(* versions, of another minor version, for other platforms only, and a     *)
(* draft.                                                                  *)
(***************************************************************************)
EXTENDS Update

Rel(version, listed, asset) ==
    [version |-> version, listed |-> listed, asset |-> asset]

MCFirst == <<0, 1, 0>>
MCServers == {<<0, 1, 1>>, <<0, 1, 2>>, <<0, 2, 0>>}
MCReleases == {Rel(<<0, 1, 1>>, TRUE, "own"), Rel(<<0, 1, 2>>, TRUE, "own"),
               Rel(<<0, 1, 2>>, TRUE, "foreign"), Rel(<<0, 1, 1>>, FALSE, "own"),
               Rel(<<0, 2, 0>>, TRUE, "own")}

=============================================================================
