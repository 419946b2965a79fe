---------------------------- MODULE CivilDates ----------------------------
(***************************************************************************)
(* The two calendar algorithms: civil_from_days, which dates the lock       *)
(* (crates/core/src/lockfile.rs), and days_from_civil, which turns a        *)
(* publication date into a package's age (crates/core/src/audit/            *)
(* reputation.rs).  A date is <<year, month, day>>; days are counted from   *)
(* 1970-01-01.                                                              *)
(***************************************************************************)
EXTENDS Integers

CONSTANTS
    Days,   \* the days a lock is written or a version published on
    Window  \* for how many days a version counts as recent

ASSUME CivilDatesAssumption == Days \subseteq Nat /\ Window \in Nat

(* Rust's division of integers drops the fraction: it rounds towards zero. *)
Quotient(a, b) == IF a >= 0 THEN a \div b ELSE -((-a) \div b)

(* Mutant: every fourth year is a leap year. *)
CivilOfCommonCenturies(n) ==
    LET z == n + 719468
        era == Quotient(IF z >= 0 THEN z ELSE z - 146096, 146097)
        doe == z - era * 146097
        yoe == (doe - doe \div 1460 + doe \div 146096) \div 365
        doy == doe - (365 * yoe + yoe \div 4 - yoe \div 100)
        mp == (5 * doy + 2) \div 153
        m == IF mp < 10 THEN mp + 3 ELSE mp - 9
    IN  <<yoe + era * 400 + (IF m <= 2 THEN 1 ELSE 0), m, doy - (153 * mp + 2) \div 5 + 1>>

(* civil_from_days: eras of 400 years that begin on the first of March. *)
CivilFromDays(n) ==
    LET z == n + 719468
        era == Quotient(IF z >= 0 THEN z ELSE z - 146096, 146097)
        doe == z - era * 146097
        yoe == (doe - doe \div 1460 + doe \div 36524 - doe \div 146096) \div 365
        doy == doe - (365 * yoe + yoe \div 4 - yoe \div 100)
        mp == (5 * doy + 2) \div 153
        m == IF mp < 10 THEN mp + 3 ELSE mp - 9
    IN  <<yoe + era * 400 + (IF m <= 2 THEN 1 ELSE 0), m, doy - (153 * mp + 2) \div 5 + 1>>

(* days_from_civil, its inverse. *)
DaysFromCivil(date) ==
    LET m == date[2]
        y == IF m <= 2 THEN date[1] - 1 ELSE date[1]
        era == Quotient(IF y >= 0 THEN y ELSE y - 399, 400)
        yoe == y - era * 400
        doy == (153 * (IF m > 2 THEN m - 3 ELSE m + 9) + 2) \div 5 + date[3] - 1
    IN  era * 146097 + yoe * 365 + yoe \div 4 - yoe \div 100 + doy - 719468

(* assess warns of a version that came out fewer than Window days ago. *)
Recent(published, now) == now - DaysFromCivil(published) \in 0 .. Window - 1

-----------------------------------------------------------------------------
(* The Gregorian calendar, from one day to the next. *)
Leap(y) == y % 4 = 0 /\ (y % 100 = 0 => y % 400 = 0)

DaysIn(y, m) ==
    IF m = 2 THEN IF Leap(y) THEN 29 ELSE 28 ELSE IF m \in {4, 6, 9, 11} THEN 30 ELSE 31

Tomorrow(date) ==
    LET y == date[1]
        m == date[2]
    IN  IF date[3] < DaysIn(y, m) THEN <<y, m, date[3] + 1>>
        ELSE IF m < 12 THEN <<y, m + 1, 1>> ELSE <<y + 1, 1, 1>>

(* The lock is dated with the day it is written on: right on the first day, and
   whatever day it is, the next one gets the date that follows. *)
DatedRight(n) ==
    /\ CivilFromDays(0) = <<1970, 1, 1>>
    /\ CivilFromDays(n + 1) = Tomorrow(CivilFromDays(n))

(* A version's age is the number of days since it came out: on whichever day
   that was, the warning is given on that day and for the days of the window. *)
AgedRight(n) ==
    \A past \in 0 .. Window + 1 : Recent(CivilFromDays(n), n + past) <=> past < Window
=============================================================================
