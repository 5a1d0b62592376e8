-------------------------- MODULE LedgerRefinement --------------------------
(* The ledger as it runs implements the ledger it promises: its committed  *)
(* tables are those of AtomicLedger, and everything else is hidden.        *)
EXTENDS Ledger

Atomic == INSTANCE AtomicLedger WITH Races <- TRUE
Intended == INSTANCE AtomicLedger WITH Races <- FALSE

(* Whatever requests overlap and wherever they fail, the committed tables  *)
(* change one whole request at a time (service.go: "all inside a single DB *)
(* transaction").                                                          *)
CommitsAreAtomic == Atomic!Spec

(* Where no request can act on an outdated read or check, the ledger is    *)
(* the one the services mean to be: each request acts on the tables it     *)
(* finds when it takes effect.                                             *)
ActsOnWhatItFinds == Intended!Spec

=============================================================================
