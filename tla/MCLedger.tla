------------------------------ MODULE MCLedger ------------------------------
(***************************************************************************)
(* Small instances of Ledger.  Two catalogues the administrator swaps at a *)
(* restart: one requires the dishes, the other requires reading and turns  *)
(* the dishes into an optional task with negative minutes.                 *)
(***************************************************************************)
EXTENDS Ledger, TLC

CONSTANTS dishes, reading

MCConfigs ==
    { dishes :> [minutes |-> 2, required |-> TRUE],
      dishes :> [minutes |-> -1, required |-> FALSE]
        @@ reading :> [minutes |-> 2, required |-> TRUE] }

MCAmounts == {-1, 1, 3}

DeviceSymmetry == Permutations(Devices)

=============================================================================
