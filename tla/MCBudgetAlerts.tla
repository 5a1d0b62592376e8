--------------------------- MODULE MCBudgetAlerts ---------------------------
(* Instances of BudgetAlerts for TLC. *)
EXTENDS BudgetAlerts, TLC

(* Slots are interchangeable; used with safety properties only. *)
SlotSymmetry == Permutations(Slots)

=============================================================================
