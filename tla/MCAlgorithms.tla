---------------------------- MODULE MCAlgorithms ----------------------------
(* What only computes or only reads, for TLC, side by side: the rules      *)
(* engine over every list of rules, the calendar over every day, the list  *)
(* of transactions page by page, the monthly summary, the trend beside the *)
(* export, the list of alerts, and the rounding of amounts.  Each          *)
(* behaviour runs one of them while the others are at rest.                *)
EXTENDS Categorizer, Calendar, FiniteSets, TLC

CONSTANTS
    Rows, MaxPlace, MaxLimit, MaxWrites,
    Amounts, Cats, NoCat, MaxMoved,
    Entries, LastMonth, ThisMonth, MaxWritten,
    Alerts,
    Bookings, SentAmounts, Openings, MaxSent

ASSUME ReadersAssumption ==
    /\ \A S \in {Rows, Cats, Entries, Alerts, Bookings} : IsFiniteSet(S)
    /\ Amounts \subseteq Nat \ {0}
    /\ SentAmounts \subseteq Nat \ {0} /\ Openings \subseteq Int
    /\ {MaxPlace, MaxLimit, MaxWrites, MaxMoved, LastMonth, ThisMonth,
        MaxWritten, MaxSent} \subseteq Nat
    /\ MaxLimit > 0

VARIABLES
    running,
    place, walk, stayed, seen, twice, writes, tied,
    table, summary, moved,
    rows, trend, export, written,
    alerts, list, created, deleted, marked,
    opening, balance, booked, sent, halves

Pag == INSTANCE Paging

Rep == INSTANCE Reports

Tre == INSTANCE Trends

Ale == INSTANCE AlertList

Rou == INSTANCE Rounding

pagVars == <<place, walk, stayed, seen, twice, writes, tied>>
repVars == <<table, summary, moved>>
treVars == <<rows, trend, export, written>>
aleVars == <<alerts, list, created, deleted, marked>>
rouVars == <<opening, balance, booked, sent, halves>>
allVars ==
    <<running, vars, calendar, pagVars, repVars, treVars, aleVars, rouVars>>

(* Priorities below, at and above the default. *)
SomePriorities == -1 .. 1

Symmetry == Permutations(Rows) \union Permutations(Cats)

MCInit ==
    /\ running \in {"categorizer", "calendar", "paging", "reports", "trends",
                    "alerts", "rounding"}
    /\ IF running = "categorizer" THEN Init
       ELSE rules = <<>> /\ i = 1 /\ best = None
    /\ CalendarInit
    /\ IF running = "paging" THEN Pag!Init
       ELSE Pag!Init /\ \A r \in Rows : place[r] = Pag!Absent
    /\ Rep!Init
    /\ Tre!Init
    /\ Ale!Init
    /\ IF running = "rounding" THEN Rou!Init ELSE Rou!Init /\ opening = 0

MCNext ==
    /\ \/ /\ running = "categorizer"
          /\ Iterate
          /\ UNCHANGED <<calendar, pagVars, repVars, treVars, aleVars,
                         rouVars>>
       \/ /\ running = "calendar"
          /\ NextDay
          /\ UNCHANGED <<vars, pagVars, repVars, treVars, aleVars,
                         rouVars>>
       \/ /\ running = "paging"
          /\ Pag!Next
          /\ UNCHANGED <<vars, calendar, repVars, treVars, aleVars,
                         rouVars>>
       \/ /\ running = "reports"
          /\ Rep!Next
          /\ UNCHANGED <<vars, calendar, pagVars, treVars, aleVars,
                         rouVars>>
       \/ /\ running = "trends"
          /\ Tre!Next
          /\ UNCHANGED <<vars, calendar, pagVars, repVars, aleVars,
                         rouVars>>
       \/ /\ running = "alerts"
          /\ Ale!Next
          /\ UNCHANGED <<vars, calendar, pagVars, repVars, treVars,
                         rouVars>>
       \/ /\ running = "rounding"
          /\ Rou!Next
          /\ UNCHANGED <<vars, calendar, pagVars, repVars, treVars, aleVars>>
    /\ UNCHANGED running

MCSpec == MCInit /\ [][MCNext]_allVars

(* The lists and the reports answer with what they should be made of.      *)
TypesOK == Pag!TypeOK /\ Rep!TypeOK /\ Tre!TypeOK /\ Ale!TypeOK
           /\ Rou!TypeOK

(* Leafing through the list, a client misses a row that stays, or sees it  *)
(* twice, only because of a write or a limit above the largest.            *)
PagesOffOnePerWrite == running = "paging" => Pag!PagesOffOnePerWrite

(* GetMonthlySummary disagrees with itself only by what was written since. *)
TornOnlyByWrites == running = "reports" => Rep!TornOnlyByWrites

(* The percentages of GetMonthlySummary come to about 100.                 *)
SharesAddUp == running = "reports" => Rep!SharesAddUp

(* GetTrend and GetExportRows disagree only by what was written between.   *)
TrendAgreesWithExport == running = "trends" => Tre!TrendAgreesWithExport

(* A balance drifts only by the rounding of half cents.                    *)
DriftOnlyFromHalfCents == running = "rounding" => Rou!DriftOnlyFromHalfCents

(* ListByUserID counts what it shows, except for what was written between. *)
CountsMatchRows == running = "alerts" => Ale!CountsMatchRows

=============================================================================
