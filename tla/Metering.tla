------------------------------ MODULE Metering ------------------------------
(***************************************************************************)
(* What metering promises for one device of one child: a minute of use is  *)
(* charged at most once, only minutes that were used are charged, and the  *)
(* remaining minutes are what was granted less what was charged.           *)
(***************************************************************************)
EXTENDS Integers, FiniteSets

CONSTANTS
    Minutes,    \* minutes that may be used
    Rewards     \* minutes that may be granted at once

VARIABLES
    used,       \* minutes in which the child used the device
    charged,    \* minutes taken from the balance
    granted,    \* minutes ever granted
    remaining   \* the balance

vars == <<used, charged, granted, remaining>>

Init ==
    /\ used = {}
    /\ charged = {}
    /\ granted \in Int
    /\ remaining = granted

Use(m) ==
    /\ used' = used \cup {m}
    /\ UNCHANGED <<charged, granted, remaining>>

Charge(S) ==
    /\ charged' = charged \cup S
    /\ remaining' = remaining - Cardinality(S)
    /\ UNCHANGED <<used, granted>>

Grant(g) ==
    /\ granted' = granted + g
    /\ remaining' = remaining + g
    /\ UNCHANGED <<used, charged>>

Next ==
    \/ \E m \in Minutes : Use(m)
    \/ \E S \in SUBSET (used \ charged) : Charge(S)
    \/ \E g \in Rewards : Grant(g)

Spec == Init /\ [][Next]_vars

=============================================================================
