---------------------------- MODULE UtcTimestamp ----------------------------
(***************************************************************************)
(* The civil date in a backup artifact's name (otel-sqlite-storage/src/    *)
(* backup.rs utc_timestamp), checked day by day against the calendar.      *)
(***************************************************************************)
EXTENDS Integers

CONSTANTS FirstYears,   \* years whose first of January a walk starts from
          Days          \* bound: days of a walk

UtcAssumption == FirstYears \subseteq Nat /\ Days \in Nat

VARIABLES start, day, date

vars == <<start, day, date>>

\* Slip: the century rule is left out.
CivilFromDaysJulian(days) ==
    LET z     == days + 719468
        era   == z \div 146097
        doe   == z - era * 146097
        yoe   == (doe - doe \div 1460 - doe \div 146096) \div 365
        doy   == doe - (365 * yoe + yoe \div 4)
        mp    == (5 * doy + 2) \div 153
        month == IF mp < 10 THEN mp + 3 ELSE mp - 9
    IN [year  |-> yoe + era * 400 + (IF month <= 2 THEN 1 ELSE 0),
        month |-> month,
        day   |-> doy - (153 * mp + 2) \div 5 + 1]

\* Days since 1970-01-01 to a date, as the code computes it: 400-year eras of
\* years that start in March.  The epoch is unsigned, so z is never negative.
CivilFromDays(days) ==
    LET z     == days + 719468
        era   == z \div 146097
        doe   == z - era * 146097
        yoe   == (doe - doe \div 1460 + doe \div 36524 - doe \div 146096) \div 365
        doy   == doe - (365 * yoe + yoe \div 4 - yoe \div 100)
        mp    == (5 * doy + 2) \div 153
        month == IF mp < 10 THEN mp + 3 ELSE mp - 9
    IN [year  |-> yoe + era * 400 + (IF month <= 2 THEN 1 ELSE 0),
        month |-> month,
        day   |-> doy - (153 * mp + 2) \div 5 + 1]

-----------------------------------------------------------------------------
(* The calendar *)

IsLeap(y) == y % 4 = 0 /\ (y % 100 /= 0 \/ y % 400 = 0)

MonthDays(y, m) ==
    CASE m = 2 -> (IF IsLeap(y) THEN 29 ELSE 28)
      [] m \in {4, 6, 9, 11} -> 30
      [] OTHER -> 31

Tomorrow(d) ==
    IF d.day < MonthDays(d.year, d.month) THEN [d EXCEPT !.day = @ + 1]
    ELSE IF d.month < 12 THEN [d EXCEPT !.month = @ + 1, !.day = 1]
    ELSE [year |-> d.year + 1, month |-> 1, day |-> 1]

LeapsBefore(y) == (y - 1) \div 4 - (y - 1) \div 100 + (y - 1) \div 400

\* Days from 1970-01-01 to the first of January of y.
NewYear(y) == 365 * (y - 1970) + LeapsBefore(y) - LeapsBefore(1970)

Init ==
    /\ start \in FirstYears
    /\ day = NewYear(start)
    /\ date = [year |-> start, month |-> 1, day |-> 1]

Next ==
    /\ day < NewYear(start) + Days
    /\ day' = day + 1
    /\ date' = Tomorrow(date)
    /\ UNCHANGED start

Spec == Init /\ [][Next]_vars

\* The date in an artifact's name is the calendar's date, over leap days and
\* the centuries that have none (utc_timestamp).
NameIsCivilDate == CivilFromDays(day) = date
=============================================================================
