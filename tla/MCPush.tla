------------------------------- MODULE MCPush -------------------------------
(***************************************************************************)
(* A small instance of Push.                                               *)
(***************************************************************************)
EXTENDS Push, TLC

(* In and above the range that is alerted, with a step inside it.          *)
MCValues == {4, 5, 6}

PushSymmetry ==
    Permutations(Children) \cup Permutations(Endpoints) \cup Permutations(Requests)

=============================================================================
