------------------------------ MODULE MCLedger ------------------------------
(* Instances of Ledger for TLC. *)
EXTENDS LedgerRefinement, TLC

CONSTANTS u1, u2, a1, a2, a3

(* One user with two accounts. *)
OneOwner == a1 :> u1 @@ a2 :> u1

(* Two accounts of one user and one of another. *)
TwoOwners == a1 :> u1 @@ a2 :> u1 @@ a3 :> u2

(* Slots are interchangeable; used with safety properties only. *)
SlotSymmetry == Permutations(Slots)

=============================================================================
