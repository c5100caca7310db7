------------------------------- MODULE MCBilling -------------------------------
(* Instances of Billing for TLC: short units and months of unequal length. *)
EXTENDS Billing

MCUnitSeconds == [minute |-> 3, hour |-> 7]
MCMonthStarts == {0, 9, 17, 30}

=============================================================================
