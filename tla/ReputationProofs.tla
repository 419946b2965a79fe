-------------------------- MODULE ReputationProofs --------------------------
(***************************************************************************)
(* What is said of a package's reputation is right, for any number of       *)
(* processes, on any day and whatever the names.                            *)
(*                                                                          *)
(* ChangesTold looks at the record alone.  What makes it inductive is that   *)
(* a process about to write has compared: whoever it is going to record is  *)
(* accounted for already, or in the warning it carries (Compared).  And     *)
(* no step takes a name out of the account (Grows).                         *)
(*                                                                          *)
(* The calendar: every day is one of a calendar of eras of 400 years that   *)
(* begin in March (EveryDay); civil_from_days takes a day apart as that     *)
(* calendar puts it together (YearFound), and the day after it is tomorrow  *)
(* (FollowsCalendar).                                                       *)
(*                                                                          *)
(* The look-alikes: the rows of levenshtein are those of an endless table   *)
(* (TableKept), so that the distance is known by the last letters of the    *)
(* two names (LastStep).  By induction on names, no edit brings a name      *)
(* nearer by more than one (EditsClose) and some edit brings it nearer by   *)
(* one (NearerThan): what is at a distance of n is what n edits reach       *)
(* (NearIs), and the scan has the first of the nearest (ScanBest).          *)
(***************************************************************************)
EXTENDS Reputation, Inductions

Account == told \cup untold \cup Underway

Compared ==
    \A k \in Procs : pc[k] \in {"write", "fill"} => seen[k] \subseteq Account \cup warning[k]

Inv ==
    /\ TypeOK
    /\ ChangesTold
    /\ Compared

-----------------------------------------------------------------------------
LEMMA Initially == Init => Inv
BY MaintainersAssumption DEF Init, Inv, TypeOK, ChangesTold, Compared

LEMMA TypeStep == TypeOK /\ [Next]_vars => TypeOK'
<1> SUFFICES ASSUME TypeOK, [Next]_vars PROVE TypeOK'
    OBVIOUS
<1> USE MaintainersAssumption DEF TypeOK
<1>1. CASE Change
    BY <1>1 DEF Change
<1>2. ASSUME NEW k \in Procs, Resolve(k) PROVE TypeOK'
    BY <1>2 DEF Resolve
<1>3. ASSUME NEW k \in Procs, Compare(k) PROVE TypeOK'
  <2>1. UNION {seen[k] \ names : names \in Known} \subseteq People
      BY DEF Known
  <2> QED BY <1>3, <2>1 DEF Compare
<1>4. ASSUME NEW k \in Procs, Truncate(k) \/ Fill(k) \/ WriteFails(k) PROVE TypeOK'
    BY <1>4 DEF Truncate, Fill, WriteFails
<1>5. ASSUME NEW k \in Procs, Succeed(k) \/ Stop(k) PROVE TypeOK'
    BY <1>5 DEF Succeed, Stop
<1>6. CASE UNCHANGED vars
    BY <1>6 DEF vars
<1> QED BY <1>1, <1>2, <1>3, <1>4, <1>5, <1>6 DEF Next

(* A warning leaves the account of those underway only for another one. *)
LEMMA Grows == TypeOK /\ [Next]_vars => Account \subseteq Account'
<1> SUFFICES ASSUME TypeOK, [Next]_vars PROVE Account \subseteq Account'
    OBVIOUS
<1> USE DEF TypeOK, Account, Underway
<1>1. CASE Change
    BY <1>1 DEF Change
<1>2. ASSUME NEW k \in Procs, Resolve(k) PROVE Account \subseteq Account'
    BY <1>2 DEF Resolve
<1>3. ASSUME NEW k \in Procs, Compare(k) PROVE Account \subseteq Account'
    BY <1>3 DEF Compare
<1>4. ASSUME NEW k \in Procs, Truncate(k) \/ Fill(k) \/ WriteFails(k)
      PROVE Account \subseteq Account'
    BY <1>4 DEF Truncate, Fill, WriteFails
<1>5. ASSUME NEW k \in Procs, Succeed(k) PROVE Account \subseteq Account'
    BY <1>5 DEF Succeed
<1>6. ASSUME NEW k \in Procs, Stop(k) PROVE Account \subseteq Account'
    BY <1>6 DEF Stop
<1>7. CASE UNCHANGED vars
    BY <1>7 DEF vars
<1> QED BY <1>1, <1>2, <1>3, <1>4, <1>5, <1>6, <1>7 DEF Next

(* Whoever is on record stays accounted for as long as the record stays. *)
LEMMA RecordKept ==
    ASSUME Inv, [Next]_vars, record' \subseteq record
    PROVE  ChangesTold'
BY Grows DEF Inv, ChangesTold, Account

(* So does what a process is about to write, as long as it does not move. *)
LEMMA ComparedKept ==
    ASSUME Inv, [Next]_vars, NEW j \in Procs,
           pc'[j] \in {"write", "fill"} => pc[j] \in {"write", "fill"},
           seen'[j] = seen[j], warning'[j] = warning[j],
           pc'[j] \in {"write", "fill"}
    PROVE  seen'[j] \subseteq Account' \cup warning'[j]
BY Grows DEF Inv, Compared

LEMMA CompareKeeps ==
    ASSUME Inv, NEW k \in Procs, Compare(k)
    PROVE  (ChangesTold /\ Compared)'
<1> USE DEF Inv, TypeOK
<1>1. [Next]_vars
    BY DEF Next
<1>2. ChangesTold'
    BY <1>1, RecordKept DEF Compare
<1>3. seen[k] \subseteq Account' \cup warning'[k]
  <2>1. CASE Known = {}
      BY <2>1 DEF Compare, Account
  <2>2. CASE Known # {}
    <3>1. PICK names \in record : names \in Known
        BY <2>2 DEF Known
    <3>2. names \subseteq Account'
        BY <1>1, Grows DEF ChangesTold, Account
    <3>3. seen[k] \ names \subseteq warning'[k]
        BY <3>1 DEF Compare
    <3> QED BY <3>2, <3>3
  <2> QED BY <2>1, <2>2
<1>4. Compared'
  <2> SUFFICES ASSUME NEW j \in Procs, pc'[j] \in {"write", "fill"}
               PROVE  seen'[j] \subseteq Account' \cup warning'[j]
      BY DEF Compared
  <2>1. CASE j = k
      BY <1>3, <2>1 DEF Compare
  <2>2. CASE j # k
      BY <1>1, <2>2, ComparedKept DEF Compare
  <2> QED BY <2>1, <2>2
<1> QED BY <1>2, <1>4

LEMMA FillKeeps ==
    ASSUME Inv, NEW k \in Procs, Fill(k)
    PROVE  (ChangesTold /\ Compared)'
<1> USE DEF Inv, TypeOK
<1>1. [Next]_vars
    BY DEF Next
<1>2. seen[k] \subseteq Account \cup warning[k]
    BY DEF Compared, Fill
<1>3. warning[k] \subseteq Underway'
    BY DEF Fill, Underway
<1>4. ChangesTold'
    BY <1>1, <1>2, <1>3, Grows DEF Fill, ChangesTold, Account
<1>5. Compared'
    BY <1>1, ComparedKept DEF Compared, Fill
<1> QED BY <1>4, <1>5

LEMMA Inductive == Inv /\ [Next]_vars => Inv'
<1> SUFFICES ASSUME Inv, [Next]_vars PROVE Inv'
    OBVIOUS
<1>1. TypeOK'
    BY TypeStep DEF Inv
<1>2. ASSUME NEW k \in Procs, Compare(k) PROVE (ChangesTold /\ Compared)'
    BY <1>2, CompareKeeps
<1>3. ASSUME NEW k \in Procs, Fill(k) PROVE (ChangesTold /\ Compared)'
    BY <1>3, FillKeeps
<1>4. CASE Change \/ UNCHANGED vars
  <2>1. UNCHANGED <<record, pc, seen, warning>>
      BY <1>4 DEF Change, vars
  <2>2. ChangesTold'
      BY <2>1, RecordKept
  <2>3. Compared'
      BY <2>1, ComparedKept DEF Compared
  <2> QED BY <1>1, <2>2, <2>3 DEF Inv
<1>5. ASSUME NEW k \in Procs, Resolve(k) PROVE (ChangesTold /\ Compared)'
  <2>1. ChangesTold'
      BY <1>5, RecordKept DEF Resolve
  <2>2. Compared'
      BY <1>5, ComparedKept DEF Resolve, Compared, Inv, TypeOK
  <2> QED BY <2>1, <2>2
<1>6. ASSUME NEW k \in Procs, Truncate(k) \/ WriteFails(k) PROVE (ChangesTold /\ Compared)'
  <2>1. ChangesTold'
      BY <1>6, RecordKept DEF Truncate, WriteFails
  <2>2. Compared'
      BY <1>6, ComparedKept DEF Truncate, WriteFails, Compared, Inv, TypeOK
  <2> QED BY <2>1, <2>2
<1>7. ASSUME NEW k \in Procs, Succeed(k) \/ Stop(k) PROVE (ChangesTold /\ Compared)'
  <2>1. ChangesTold'
      BY <1>7, RecordKept DEF Succeed, Stop
  <2>2. Compared'
      BY <1>7, ComparedKept DEF Succeed, Stop, Compared, Inv, TypeOK
  <2> QED BY <2>1, <2>2
<1> QED BY <1>1, <1>2, <1>3, <1>4, <1>5, <1>6, <1>7 DEF Next, Inv

-----------------------------------------------------------------------------
(* Whoever is in the maintainer record has been, or is about to be, in a
   warning, or is there because nothing could be compared or an install did not
   succeed (reputation.rs, check_maintainers), however many processes read,
   truncate and fill the record at once. *)
THEOREM ChangesToldSafe == Spec => []ChangesTold
<1>1. Inv => ChangesTold
    BY DEF Inv
<1> QED BY <1>1, Initially, Inductive, PTL DEF Spec

-----------------------------------------------------------------------------
(* The calendar. *)

(* A day of the calendar whose years begin in March: eras of 400 years, their
   centuries, the cycles of four years in those, the years and the days. *)
March(e, c, q, t, d) == 146097 * e + 36524 * c + 1461 * q + 365 * t + d - 719468

InMarch(e, c, q, t, d) ==
    /\ e \in Int /\ c \in 0 .. 3 /\ q \in 0 .. 24 /\ t \in 0 .. 3 /\ d \in 0 .. 365
    /\ d = 365 => t = 3 /\ (q = 24 => c = 3)

LEMMA QuotientIsFloor ==
    ASSUME NEW z \in Int
    PROVE  /\ Quotient(IF z >= 0 THEN z ELSE z - 146096, 146097) = z \div 146097
           /\ Quotient(IF z >= 0 THEN z ELSE z - 399, 400) = z \div 400
<1>1. Quotient(IF z >= 0 THEN z ELSE z - 146096, 146097) = z \div 146097
    BY SMTT(20) DEF Quotient
<1>2. Quotient(IF z >= 0 THEN z ELSE z - 399, 400) = z \div 400
    BY SMTT(20) DEF Quotient
<1> QED BY <1>1, <1>2, SMTT(20)

LEMMA EveryDay ==
    ASSUME NEW n \in Int
    PROVE  \E e, c, q, t, d : InMarch(e, c, q, t, d) /\ n = March(e, c, q, t, d)
<1>1. PICK e \in Int, x \in Nat : n + 719468 = 146097 * e + x /\ x < 146097
  <2> DEFINE z == n + 719468
  <2>1. z \div 146097 \in Int /\ z - 146097 * (z \div 146097) \in Nat
      BY SMTT(20)
  <2>2. z - 146097 * (z \div 146097) < 146097
      BY SMTT(20)
  <2>3. z = 146097 * (z \div 146097) + (z - 146097 * (z \div 146097))
      BY <2>1, SMTT(20)
  <2> HIDE DEF z
  <2>4. \E e \in Int, x \in Nat : z = 146097 * e + x /\ x < 146097
      BY <2>1, <2>2, <2>3, SMTT(20)
  <2> QED BY <2>4 DEF z
<1>2. PICK c \in 0 .. 3, y \in Nat : x = 36524 * c + y /\ y <= 36524 /\ (y = 36524 => c = 3)
  <2>1. PICK k \in Int, y \in Nat : x = 36524 * k + y /\ y < 36524
    <3>1. x \div 36524 \in Int /\ x - 36524 * (x \div 36524) \in Nat
        BY SMTT(20)
    <3>2. x - 36524 * (x \div 36524) < 36524
        BY SMTT(20)
    <3> QED BY <3>1, <3>2, SMTT(20)
  <2>2. CASE k = 4
    <3>1. x = 36524 * 3 + 36524
        BY <1>1, <2>1, <2>2, SMTT(20)
    <3> QED BY <3>1, SMTT(20)
  <2>3. CASE k # 4
    <3>1. k \in 0 .. 3
        BY <1>1, <2>1, <2>3, SMTT(20)
    <3> QED BY <2>1, <3>1, SMTT(20)
  <2> QED BY <2>2, <2>3, SMTT(20)
<1>3. PICK q \in 0 .. 24, s \in Nat :
         y = 1461 * q + s /\ s < 1461 /\ (s = 1460 /\ q = 24 => c = 3)
  <2>1. PICK q \in Int, s \in Nat : y = 1461 * q + s /\ s < 1461
    <3>1. y \div 1461 \in Int /\ y - 1461 * (y \div 1461) \in Nat
        BY SMTT(20)
    <3>2. y - 1461 * (y \div 1461) < 1461
        BY SMTT(20)
    <3> QED BY <3>1, <3>2, SMTT(20)
  <2>2. q \in 0 .. 24 /\ (s = 1460 /\ q = 24 => c = 3)
      BY <1>2, <2>1, SMTT(20)
  <2> QED BY <2>1, <2>2, SMTT(20)
<1>4. PICK t \in 0 .. 3, d \in 0 .. 365 : s = 365 * t + d /\ (d = 365 => t = 3 /\ s = 1460)
  <2>1. PICK t \in Int, d \in Nat : s = 365 * t + d /\ d < 365
    <3>1. s \div 365 \in Int /\ s - 365 * (s \div 365) \in Nat
        BY SMTT(20)
    <3>2. s - 365 * (s \div 365) < 365
        BY SMTT(20)
    <3> QED BY <3>1, <3>2, SMTT(20)
  <2>2. CASE s = 1460
    <3>1. s = 365 * 3 + 365
        BY <2>2, SMTT(20)
    <3> QED BY <3>1, <2>2, SMTT(20)
  <2>3. CASE s # 1460
    <3>1. t \in 0 .. 3 /\ d \in 0 .. 364
        BY <1>3, <2>1, <2>3, SMTT(20)
    <3> QED BY <2>1, <3>1, SMTT(20)
  <2> QED BY <2>2, <2>3, SMTT(20)
<1>5. n = March(e, c, q, t, d)
    BY <1>1, <1>2, <1>3, <1>4, SMTT(20) DEF March
<1>6. InMarch(e, c, q, t, d)
    BY <1>2, <1>3, <1>4, SMTT(20) DEF InMarch
<1> QED BY <1>5, <1>6, SMTT(20)

(* The months of a year that begins in March, and the days before each. *)
Before(mp) == (153 * mp + 2) \div 5

MonthOf(mp) == IF mp < 10 THEN mp + 3 ELSE mp - 9

(* The date of day d, from zero, of the year y that begins in March. *)
DateOf(y, d) ==
    LET mp == (5 * d + 2) \div 153
    IN  <<IF MonthOf(mp) <= 2 THEN y + 1 ELSE y, MonthOf(mp), d - Before(mp) + 1>>

(* civil_from_days takes a day apart as March puts it together. *)
LEMMA YearFound ==
    ASSUME NEW e, NEW c, NEW q, NEW t, NEW d, InMarch(e, c, q, t, d)
    PROVE  CivilFromDays(March(e, c, q, t, d)) = DateOf(400 * e + 100 * c + 4 * q + t, d)
<1> DEFINE n == March(e, c, q, t, d)
           z == n + 719468
           doe == z - e * 146097
           yoe == 100 * c + 4 * q + t
<1>a. e \in Int /\ c \in 0 .. 3 /\ q \in 0 .. 24 /\ t \in 0 .. 3 /\ d \in 0 .. 365
    BY DEF InMarch
<1>1. z \in Int /\ z = 146097 * e + (36524 * c + 1461 * q + 365 * t + d)
    BY <1>a, SMTT(20) DEF March
<1>2. doe = 36524 * c + 1461 * q + 365 * t + d /\ doe >= 0 /\ doe < 146097
    BY <1>a, <1>1, SMTT(20) DEF InMarch
<1> HIDE DEF n
<1>3. z \div 146097 = e
    BY <1>a, <1>1, <1>2, SMTT(20)
<1>4. Quotient(IF z >= 0 THEN z ELSE z - 146096, 146097) = e
    BY <1>1, <1>3, QuotientIsFloor
<1> HIDE DEF z
<1>5. (doe - doe \div 1460 + doe \div 36524 - doe \div 146096) \div 365 = yoe
  <2>1. doe \div 36524 - doe \div 146096 = c
      BY <1>a, <1>2, SMTT(20) DEF InMarch
  <2>2. PICK k \in {0, 1} : /\ doe \div 1460 = 25 * c + q + k
                            /\ k = 1 => 365 * t + d >= 1364
                            /\ k = 0 => 365 * t + d < 1460
      BY <1>a, <1>2, SMTT(20) DEF InMarch
  <2>3. doe - doe \div 1460 + doe \div 36524 - doe \div 146096 = 365 * yoe + (d - k)
      BY <1>a, <1>2, <2>1, <2>2, SMTT(20)
  <2>4. d - k \in 0 .. 364
      BY <1>a, <2>2, SMTT(20) DEF InMarch
  <2> HIDE DEF doe
  <2> QED BY <1>a, <2>3, <2>4, SMTT(20)
<1>6. yoe \div 4 = 25 * c + q /\ yoe \div 100 = c
    BY <1>a, SMTT(20)
<1>7. doe - (365 * yoe + yoe \div 4 - yoe \div 100) = d
    BY <1>a, <1>2, <1>6, SMTT(20)
<1>8. CivilFromDays(n) =
          LET mp == (5 * d + 2) \div 153
          IN  <<yoe + e * 400 + (IF MonthOf(mp) <= 2 THEN 1 ELSE 0), MonthOf(mp), d - Before(mp) + 1>>
  <2> HIDE DEF yoe
  <2> QED BY <1>4, <1>5, <1>7 DEF CivilFromDays, Before, MonthOf, z
<1>9. yoe + e * 400 = 400 * e + 100 * c + 4 * q + t /\ yoe + e * 400 \in Int
    BY <1>a, SMTT(20)
<1> HIDE DEF yoe
<1> QED BY <1>8, <1>9, SMTT(20) DEF n, DateOf

(* A year of that calendar ends in a leap day when the next civil year is one. *)
LEMMA LeapYears ==
    ASSUME NEW e, NEW c, NEW q, NEW t, NEW d, InMarch(e, c, q, t, d)
    PROVE  Leap(400 * e + 100 * c + 4 * q + t + 1) <=> t = 3 /\ (q = 24 => c = 3)
<1> DEFINE y == 400 * e + 100 * c + 4 * q + t + 1
<1>a. e \in Int /\ c \in 0 .. 3 /\ q \in 0 .. 24 /\ t \in 0 .. 3
    BY DEF InMarch
<1>1. y % 4 = 0 <=> t = 3
    BY <1>a, SMTT(20)
<1>2. t = 3 => (y % 100 = 0 <=> q = 24)
    BY <1>a, SMTT(20)
<1>3. t = 3 /\ q = 24 => (y % 400 = 0 <=> c = 3)
    BY <1>a, SMTT(20)
<1> HIDE DEF y
<1>4. Leap(y) <=> t = 3 /\ (q = 24 => c = 3)
    BY <1>1, <1>2, <1>3 DEF Leap
<1> QED BY <1>4 DEF y

(* The day after one of that calendar. *)
LEMMA NextInMarch ==
    ASSUME NEW e, NEW c, NEW q, NEW t, NEW d, InMarch(e, c, q, t, d)
    PROVE  \/ InMarch(e, c, q, t, d + 1) /\ March(e, c, q, t, d + 1) = March(e, c, q, t, d) + 1
           \/ /\ d >= 364 /\ (t = 3 /\ (q = 24 => c = 3) => d = 365)
              /\ \E f, g, h, i :
                    /\ InMarch(f, g, h, i, 0)
                    /\ March(f, g, h, i, 0) = March(e, c, q, t, d) + 1
                    /\ 400 * f + 100 * g + 4 * h + i = 400 * e + 100 * c + 4 * q + t + 1
<1>a. e \in Int /\ c \in 0 .. 3 /\ q \in 0 .. 24 /\ t \in 0 .. 3 /\ d \in 0 .. 365
    BY DEF InMarch
<1>1. CASE d < 364 \/ (d = 364 /\ t = 3 /\ (q = 24 => c = 3))
  <2>1. InMarch(e, c, q, t, d + 1)
      BY <1>a, <1>1, SMTT(20) DEF InMarch
  <2>2. March(e, c, q, t, d + 1) = March(e, c, q, t, d) + 1
      BY <1>a, SMTT(20) DEF March
  <2> QED BY <2>1, <2>2
<1>2. CASE d >= 364 /\ ~ (d = 364 /\ t = 3 /\ (q = 24 => c = 3))
  <2>1. CASE t < 3
    <3>1. InMarch(e, c, q, t + 1, 0) /\ d = 364
        BY <1>a, <1>2, <2>1, SMTT(20) DEF InMarch
    <3>2. March(e, c, q, t + 1, 0) = March(e, c, q, t, d) + 1
        BY <1>a, <3>1, SMTT(20) DEF March
    <3>3. 400 * e + 100 * c + 4 * q + (t + 1) = 400 * e + 100 * c + 4 * q + t + 1
        BY <1>a, SMTT(20)
    <3> QED BY <1>2, <2>1, <3>1, <3>2, <3>3
  <2>2. CASE t = 3 /\ q < 24
    <3>1. InMarch(e, c, q + 1, 0, 0) /\ d = 365
        BY <1>a, <1>2, <2>2, SMTT(20) DEF InMarch
    <3>2. March(e, c, q + 1, 0, 0) = March(e, c, q, t, d) + 1
        BY <1>a, <2>2, <3>1, SMTT(20) DEF March
    <3>3. 400 * e + 100 * c + 4 * (q + 1) + 0 = 400 * e + 100 * c + 4 * q + t + 1
        BY <1>a, <2>2, SMTT(20)
    <3> QED BY <1>2, <2>2, <3>1, <3>2, <3>3
  <2>3. CASE t = 3 /\ q = 24 /\ c < 3
    <3>1. InMarch(e, c + 1, 0, 0, 0) /\ d = 364
        BY <1>a, <1>2, <2>3, SMTT(20) DEF InMarch
    <3>2. March(e, c + 1, 0, 0, 0) = March(e, c, q, t, d) + 1
        BY <1>a, <2>3, <3>1, SMTT(20) DEF March
    <3>3. 400 * e + 100 * (c + 1) + 4 * 0 + 0 = 400 * e + 100 * c + 4 * q + t + 1
        BY <1>a, <2>3, SMTT(20)
    <3> QED BY <1>2, <2>3, <3>1, <3>2, <3>3
  <2>4. CASE t = 3 /\ q = 24 /\ c = 3
    <3>1. InMarch(e + 1, 0, 0, 0, 0) /\ d = 365
        BY <1>a, <1>2, <2>4, SMTT(20) DEF InMarch
    <3>2. March(e + 1, 0, 0, 0, 0) = March(e, c, q, t, d) + 1
        BY <1>a, <2>4, <3>1, SMTT(20) DEF March
    <3>3. 400 * (e + 1) + 100 * 0 + 4 * 0 + 0 = 400 * e + 100 * c + 4 * q + t + 1
        BY <1>a, <2>4, SMTT(20)
    <3> QED BY <1>2, <2>4, <3>1, <3>2, <3>3
  <2> QED BY <1>a, <2>1, <2>2, <2>3, <2>4, SMTT(20)
<1> QED BY <1>a, <1>1, <1>2, SMTT(20)

(* From a day to the next within a year that begins in March ... *)
LEMMA NextOfYear ==
    ASSUME NEW y \in Int, NEW d \in 0 .. 364,
           d = 364 => Leap(y + 1)
    PROVE  DateOf(y, d + 1) = Tomorrow(DateOf(y, d))
<1> DEFINE mp == (5 * d + 2) \div 153
           mq == (5 * (d + 1) + 2) \div 153
<1>1. mp \in 0 .. 11 /\ mq \in 0 .. 11
    BY SMTT(20)
<1>2. PICK m \in 0 .. 11 : mp = m
    BY <1>1
<1>3. mq = IF d + 1 = Before(m + 1) THEN m + 1 ELSE m
    BY <1>2, SMTT(20) DEF Before
<1>4. d - Before(m) + 1 < DaysIn(IF MonthOf(m) <= 2 THEN y + 1 ELSE y, MonthOf(m)) <=> d + 1 # Before(m + 1)
    BY <1>2, SMTT(20) DEF DaysIn, Before, MonthOf
<1> QED BY <1>1, <1>2, <1>3, <1>4, SMTT(20) DEF Tomorrow, Before, MonthOf, DateOf

(* ... and from its last day to the first of the next. *)
LEMMA NextYear ==
    ASSUME NEW y \in Int, NEW d \in 364 .. 365, Leap(y + 1) => d = 365,
           d = 365 => Leap(y + 1)
    PROVE  DateOf(y + 1, 0) = Tomorrow(DateOf(y, d))
BY SMTT(20) DEF Tomorrow, DaysIn, Before, MonthOf, DateOf

(* civil_from_days goes from one day to the next as the calendar does. *)
LEMMA FollowsCalendar ==
    ASSUME NEW n \in Int
    PROVE  CivilFromDays(n + 1) = Tomorrow(CivilFromDays(n))
<1>1. PICK e, c, q, t, d : InMarch(e, c, q, t, d) /\ n = March(e, c, q, t, d)
    BY EveryDay
<1> DEFINE y == 400 * e + 100 * c + 4 * q + t
<1>2. y \in Int /\ d \in 0 .. 365
    BY <1>1, SMTT(20) DEF InMarch
<1>3. CivilFromDays(n) = DateOf(y, d)
    BY <1>1, YearFound
<1>4. Leap(y + 1) <=> t = 3 /\ (q = 24 => c = 3)
    BY <1>1, LeapYears
<1>5. d = 365 => Leap(y + 1)
    BY <1>1, <1>4 DEF InMarch
<1>6. CASE InMarch(e, c, q, t, d + 1) /\ March(e, c, q, t, d + 1) = n + 1
  <2>1. CivilFromDays(n + 1) = DateOf(y, d + 1)
      BY <1>6, YearFound
  <2>2. d \in 0 .. 364 /\ (d = 364 => Leap(y + 1))
      BY <1>2, <1>4, <1>6, SMTT(20) DEF InMarch
  <2> HIDE DEF y
  <2>3. DateOf(y, d + 1) = Tomorrow(DateOf(y, d))
      BY <1>2, <2>2, NextOfYear
  <2> QED BY <1>3, <2>1, <2>3
<1>7. ASSUME d >= 364, Leap(y + 1) => d = 365,
             NEW f, NEW g, NEW h, NEW i, InMarch(f, g, h, i, 0), March(f, g, h, i, 0) = n + 1,
             400 * f + 100 * g + 4 * h + i = y + 1
      PROVE  CivilFromDays(n + 1) = Tomorrow(CivilFromDays(n))
  <2>1. CivilFromDays(n + 1) = DateOf(400 * f + 100 * g + 4 * h + i, 0)
      BY <1>7, YearFound
  <2>2. d \in 364 .. 365
      BY <1>2, <1>7
  <2> HIDE DEF y
  <2>3. DateOf(y + 1, 0) = Tomorrow(DateOf(y, d))
      BY <1>2, <1>5, <1>7, <2>2, NextYear
  <2> QED BY <1>3, <1>7, <2>1, <2>3
<1> QED BY <1>1, <1>4, <1>6, <1>7, NextInMarch

(* days_from_civil puts together what civil_from_days took apart. *)
LEMMA InverseOfEachOther ==
    ASSUME NEW n \in Int
    PROVE  DaysFromCivil(CivilFromDays(n)) = n
<1>1. PICK e, c, q, t, d : InMarch(e, c, q, t, d) /\ n = March(e, c, q, t, d)
    BY EveryDay
<1> DEFINE yoe == 100 * c + 4 * q + t
           y == 400 * e + yoe
           mp == (5 * d + 2) \div 153
           m == MonthOf(mp)
           date == CivilFromDays(n)
<1>a. e \in Int /\ c \in 0 .. 3 /\ q \in 0 .. 24 /\ t \in 0 .. 3 /\ d \in 0 .. 365
    BY <1>1 DEF InMarch
<1>2. mp \in 0 .. 11 /\ Before(mp) \in Int
    BY <1>a, SMTT(20) DEF Before
<1>3. date = <<IF m <= 2 THEN y + 1 ELSE y, m, d - Before(mp) + 1>>
  <2>1. y = 400 * e + 100 * c + 4 * q + t
      BY <1>a, SMTT(20)
  <2> HIDE DEF y
  <2> QED BY <1>1, <2>1, YearFound DEF DateOf
<1>4. yoe \in 0 .. 399 /\ yoe \div 4 = 25 * c + q /\ yoe \div 100 = c
    BY <1>a, SMTT(20)
<1>5. y \in Int /\ Quotient(IF y >= 0 THEN y ELSE y - 399, 400) = e /\ y - e * 400 = yoe
  <2>1. y \in Int /\ y \div 400 = e /\ y - e * 400 = yoe
      BY <1>a, <1>4, SMTT(20)
  <2> HIDE DEF y
  <2> QED BY <2>1, QuotientIsFloor
<1>6. yoe * 365 + yoe \div 4 - yoe \div 100 = 36524 * c + 1461 * q + 365 * t
    BY <1>a, <1>4, SMTT(20)
<1> HIDE DEF yoe, y
<1>7. (153 * (IF m > 2 THEN m - 3 ELSE m + 9) + 2) \div 5 = Before(mp)
    BY <1>2, SMTT(20) DEF Before, MonthOf
<1>8. (IF m <= 2 THEN date[1] - 1 ELSE date[1]) = y /\ date[2] = m /\ date[3] = d - Before(mp) + 1
  <2> HIDE DEF m, date
  <2> QED BY <1>3, <1>5
<1> HIDE DEF m, date, mp
<1>9. DaysFromCivil(date) =
          e * 146097 + yoe * 365 + yoe \div 4 - yoe \div 100 + (Before(mp) + (d - Before(mp) + 1) - 1) - 719468
    BY <1>5, <1>7, <1>8 DEF DaysFromCivil
<1>10. DaysFromCivil(date) = March(e, c, q, t, d)
    BY <1>a, <1>2, <1>4, <1>6, <1>9, SMTT(20) DEF March
<1> QED BY <1>1, <1>10 DEF date

LEMMA Epoch == CivilFromDays(0) = <<1970, 1, 1>>
<1>1. InMarch(4, 3, 17, 1, 306) /\ March(4, 3, 17, 1, 306) = 0
    BY SMTT(20) DEF InMarch, March
<1> QED BY <1>1, YearFound, SMTT(20) DEF DateOf, MonthOf, Before

(* civil_from_days (lockfile.rs) is the calendar, whatever the day, and
   days_from_civil (reputation.rs) gives a version its age in days. *)
LEMMA DatesRight ==
    \A n \in Days : DatedRight(n) /\ AgedRight(n)
<1> SUFFICES ASSUME NEW n \in Days
             PROVE  DatedRight(n) /\ AgedRight(n)
    OBVIOUS
<1>1. n \in Int /\ Window \in Nat
    BY CivilDatesAssumption
<1>2. DatedRight(n)
    BY <1>1, Epoch, FollowsCalendar DEF DatedRight
<1>3. AgedRight(n)
    BY <1>1, InverseOfEachOther, SMTT(20) DEF AgedRight, Recent
<1> QED BY <1>2, <1>3

-----------------------------------------------------------------------------
(* The look-alikes. *)

(* What replacing a letter of a by one of b costs. *)
Cost(a, b, i, j) == IF a[i] = b[j] THEN 0 ELSE 1

LEMMA MinOfThree ==
    ASSUME NEW x \in Nat, NEW y \in Nat, NEW z \in Nat
    PROVE  /\ Min({x, y, z}) \in {x, y, z}
           /\ Min({x, y, z}) <= x /\ Min({x, y, z}) <= y /\ Min({x, y, z}) <= z
           /\ Min({x, y, z}) \in Nat
<1>1. {x, y, z} \in SUBSET Nat /\ {x, y, z} # {}
    OBVIOUS
<1> QED BY <1>1, MinIs

(* The row of the table below another. *)
IsRow(a, b, i, prev, cur) ==
    /\ cur \in [Nat -> Nat]
    /\ cur[0] = i + 1
    /\ \A j \in Nat :
          cur[j + 1] = Min({prev[j + 1] + 1, cur[j] + 1, prev[j] + Cost(a, b, i + 1, j + 1)})

LEMMA RowExists ==
    ASSUME NEW a, NEW b, NEW i \in Nat, NEW prev \in [Nat -> Nat]
    PROVE  \E cur : IsRow(a, b, i, prev, cur)
<1> DEFINE cell(j, x) == Min({prev[j + 1] + 1, x + 1, prev[j] + Cost(a, b, i + 1, j + 1)})
           step == [j \in Nat |-> [x \in Nat |-> cell(j, x)]]
<1>1. ASSUME NEW j \in Nat, NEW x \in Nat PROVE cell(j, x) \in Nat
  <2>1. prev[j + 1] + 1 \in Nat /\ x + 1 \in Nat /\ prev[j] + Cost(a, b, i + 1, j + 1) \in Nat
      BY DEF Cost
  <2> QED BY <2>1, MinOfThree
<1> HIDE DEF cell
<1>2. step \in [Nat -> [Nat -> Nat]] /\ i + 1 \in Nat
    BY <1>1
<1>3. \A j \in Nat, x \in Nat : step[j][x] = cell(j, x)
    OBVIOUS
<1> HIDE DEF step
<1>4. PICK cur : Iterates(cur, Nat, i + 1, step)
    BY <1>2, Recursion
<1>5. \A j \in Nat : cur[j + 1] = cell(j, cur[j])
    BY <1>3, <1>4 DEF Iterates
<1>6. IsRow(a, b, i, prev, cur)
    BY <1>4, <1>5 DEF IsRow, Iterates, cell
<1> QED BY <1>6

(* The whole table, without end. *)
IsTable(a, b, t) ==
    /\ t \in [Nat -> [Nat -> Nat]]
    /\ t[0] = [j \in Nat |-> j]
    /\ \A i \in Nat : IsRow(a, b, i, t[i], t[i + 1])

LEMMA TableExists ==
    ASSUME NEW a, NEW b
    PROVE  \E t : IsTable(a, b, t)
<1> DEFINE S == [Nat -> Nat]
           next(i, prev) == CHOOSE cur : IsRow(a, b, i, prev, cur)
           step == [i \in Nat |-> [prev \in S |-> next(i, prev)]]
           base == [j \in Nat |-> j]
<1>1. ASSUME NEW i \in Nat, NEW prev \in S PROVE IsRow(a, b, i, prev, next(i, prev))
    BY RowExists
<1>2. ASSUME NEW i \in Nat, NEW prev \in S PROVE next(i, prev) \in S
    BY <1>1 DEF IsRow
<1> HIDE DEF next
<1>3. step \in [Nat -> [S -> S]]
    BY <1>2
<1>4. \A i \in Nat, prev \in S : step[i][prev] = next(i, prev)
    OBVIOUS
<1>5. base \in S
    OBVIOUS
<1> HIDE DEF step, base, S
<1>6. PICK t : Iterates(t, S, base, step)
    BY <1>3, <1>5, Recursion
<1>7. \A i \in Nat : IsRow(a, b, i, t[i], t[i + 1])
    BY <1>1, <1>4, <1>6 DEF Iterates
<1>8. IsTable(a, b, t)
    BY <1>6, <1>7 DEF IsTable, Iterates, S, base
<1> QED BY <1>8

(* What levenshtein keeps of it: rows as long as b. *)
Cell(a, b, i, j, prev, cur) ==
    IF i = 0 THEN j ELSE IF j = 0 THEN i
    ELSE Min({prev[j] + 1, cur[j - 1] + 1, prev[j - 1] + (IF a[i] = b[j] THEN 0 ELSE 1)})

LEMMA CellIs ==
    ASSUME NEW a, NEW b, NEW i, NEW j, NEW prev, NEW cur, i # 0, j # 0
    PROVE  Cell(a, b, i, j, prev, cur) =
               Min({prev[j] + 1, cur[j - 1] + 1, prev[j - 1] + Cost(a, b, i, j)})
BY Zenon DEF Cell, Cost

IsKept(a, b, n, i, prev, cur) == cur = [j \in 0 .. n |-> Cell(a, b, i, j, prev, cur)]

Kept(t, n, i) == [j \in 0 .. n |-> t[i][j]]

(* prev is the row of t above i, if there is one. *)
Above(t, n, i, prev) == i > 0 => \A j \in 0 .. n : prev[j] = t[i - 1][j]

LEMMA RowsAgree ==
    ASSUME NEW a, NEW b, NEW t, IsTable(a, b, t), NEW n \in Nat, NEW i \in Nat,
           NEW prev, Above(t, n, i, prev),
           NEW cur, IsKept(a, b, n, i, prev, cur)
    PROVE  cur = Kept(t, n, i)
<1>0. cur = [j \in 0 .. n |-> Cell(a, b, i, j, prev, cur)]
    BY DEF IsKept
<1> DEFINE T == {j \in Nat : j <= n => cur[j] = t[i][j]}
<1>1. 0 \in T
  <2>1. cur[0] = Cell(a, b, i, 0, prev, cur)
      BY <1>0
  <2>2. CASE i = 0
      BY <2>1, <2>2 DEF Cell, IsTable
  <2>3. CASE i > 0
    <3>1. IsRow(a, b, i - 1, t[i - 1], t[i - 1 + 1]) /\ i - 1 + 1 = i
        BY <2>3 DEF IsTable
    <3> QED BY <2>1, <2>3, <3>1 DEF Cell, IsRow
  <2> QED BY <2>2, <2>3
<1>2. ASSUME NEW j \in T PROVE j + 1 \in T
  <2> SUFFICES ASSUME j + 1 <= n PROVE cur[j + 1] = t[i][j + 1]
      OBVIOUS
  <2>1. cur[j + 1] = Cell(a, b, i, j + 1, prev, cur) /\ cur[j] = t[i][j]
    <3>1. j + 1 \in 0 .. n
        OBVIOUS
    <3> QED BY <1>0, <3>1
  <2>2. CASE i = 0
      BY <2>1, <2>2 DEF Cell, IsTable
  <2>3. CASE i > 0
    <3>1. IsRow(a, b, i - 1, t[i - 1], t[i - 1 + 1]) /\ i - 1 + 1 = i
        BY <2>3 DEF IsTable
    <3>2. t[i][j + 1] = Min({t[i - 1][j + 1] + 1, t[i][j] + 1, t[i - 1][j] + Cost(a, b, i, j + 1)})
        BY <3>1 DEF IsRow
    <3>3. prev[j + 1] = t[i - 1][j + 1] /\ prev[j] = t[i - 1][j] /\ j + 1 - 1 = j
        BY <2>3 DEF Above
    <3>4. Cell(a, b, i, j + 1, prev, cur)
            = Min({prev[j + 1] + 1, cur[j + 1 - 1] + 1, prev[j + 1 - 1] + Cost(a, b, i, j + 1)})
      <4>1. i # 0 /\ j + 1 # 0
          BY <2>3
      <4> QED BY <4>1, CellIs
    <3> QED BY <2>1, <3>2, <3>3, <3>4
  <2> QED BY <2>2, <2>3
<1> HIDE DEF T
<1>3. Nat \subseteq T
    BY <1>1, <1>2, Induct
<1>4. \A j \in 0 .. n : cur[j] = t[i][j]
    BY <1>3 DEF T
<1>5. cur = [j \in 0 .. n |-> cur[j]]
    BY <1>0
<1> QED BY <1>4, <1>5 DEF Kept

LEMMA RowKept ==
    ASSUME NEW a, NEW b, NEW t, IsTable(a, b, t), NEW n \in Nat, NEW i \in Nat,
           NEW prev, Above(t, n, i, prev)
    PROVE  IsKept(a, b, n, i, prev, Kept(t, n, i))
<1> DEFINE cur == [j \in 0 .. n |-> t[i][j]]
<1> SUFFICES ASSUME NEW j \in 0 .. n PROVE t[i][j] = Cell(a, b, i, j, prev, cur)
    BY DEF IsKept, Kept
<1>1. CASE i = 0
    BY <1>1 DEF Cell, IsTable
<1>2. CASE i > 0
  <2>1. IsRow(a, b, i - 1, t[i - 1], t[i - 1 + 1]) /\ i - 1 + 1 = i
      BY <1>2 DEF IsTable
  <2>2. CASE j = 0
      BY <1>2, <2>1, <2>2 DEF Cell, IsRow
  <2>3. CASE j > 0
    <3>1. PICK k \in Nat : j = k + 1 /\ k = j - 1 /\ k \in 0 .. n
      <4>1. j - 1 \in Nat /\ j = j - 1 + 1 /\ j - 1 \in 0 .. n
          BY <2>3
      <4> QED BY <4>1
    <3>2. t[i][k + 1] = Min({t[i - 1][k + 1] + 1, t[i][k] + 1, t[i - 1][k] + Cost(a, b, i, k + 1)})
        BY <2>1 DEF IsRow
    <3>3. prev[j] = t[i - 1][j] /\ prev[k] = t[i - 1][k] /\ cur[k] = t[i][k]
        BY <1>2, <3>1 DEF Above
    <3>4. Cell(a, b, i, j, prev, cur) = Min({prev[j] + 1, cur[j - 1] + 1, prev[j - 1] + Cost(a, b, i, j)})
      <4>1. i # 0 /\ j # 0
          BY <1>2, <2>3
      <4> QED BY <4>1, CellIs
    <3> HIDE DEF cur
    <3> QED BY <3>1, <3>2, <3>3, <3>4
  <2> QED BY <2>2, <2>3
<1> QED BY <1>1, <1>2

RowOf(a, b, i, prev) == CHOOSE cur : IsKept(a, b, Len(b), i, prev, cur)

RowsOf(a, b) == CHOOSE row : row = [i \in 0 .. Len(a) |-> RowOf(a, b, i, row[i - 1])]

LEMMA Unfold ==
    ASSUME NEW a, NEW b
    PROVE  Levenshtein(a, b) = RowsOf(a, b)[Len(a)][Len(b)]
BY Zenon DEF Levenshtein, RowsOf, RowOf, IsKept, Cell

TableOf(a, b) == CHOOSE t : IsTable(a, b, t)

(* levenshtein returns what the table has for the whole of a and b. *)
LEMMA TableKept ==
    ASSUME NEW a, NEW b, Len(a) \in Nat, Len(b) \in Nat
    PROVE  /\ IsTable(a, b, TableOf(a, b))
           /\ Levenshtein(a, b) = TableOf(a, b)[Len(a)][Len(b)]
<1> DEFINE t == TableOf(a, b)
           m == Len(a)
           n == Len(b)
           rows == RowsOf(a, b)
<1> HIDE DEF m, n, t
<1>0. m \in Nat /\ n \in Nat /\ IsTable(a, b, t)
    BY TableExists DEF m, n, t, TableOf
<1>1. ASSUME NEW i \in Nat, NEW prev, Above(t, n, i, prev)
      PROVE  RowOf(a, b, i, prev) = Kept(t, n, i)
  <2>1. IsKept(a, b, n, i, prev, Kept(t, n, i))
      BY <1>0, <1>1, RowKept
  <2>2. IsKept(a, b, n, i, prev, RowOf(a, b, i, prev))
      BY <2>1 DEF RowOf, n
  <2> DEFINE cur == RowOf(a, b, i, prev)
  <2> HIDE DEF cur
  <2>3. IsKept(a, b, n, i, prev, cur)
      BY <2>2 DEF cur
  <2>4. cur = Kept(t, n, i)
      BY <1>0, <1>1, <2>3, RowsAgree
  <2> QED BY <2>4 DEF cur
<1>2. rows = [i \in 0 .. m |-> RowOf(a, b, i, rows[i - 1])]
  <2> DEFINE r == [i \in 0 .. m |-> Kept(t, n, i)]
  <2>1. ASSUME NEW i \in 0 .. m PROVE Kept(t, n, i) = RowOf(a, b, i, r[i - 1])
    <3>1. Above(t, n, i, r[i - 1])
        BY <1>0 DEF Above, Kept
    <3> HIDE DEF r
    <3> QED BY <1>0, <1>1, <3>1
  <2>2. r = [i \in 0 .. m |-> RowOf(a, b, i, r[i - 1])]
      BY <2>1
  <2> HIDE DEF r
  <2> QED BY <2>2 DEF RowsOf, m
<1> HIDE DEF rows
<1> DEFINE T == {i \in Nat : i <= m => rows[i] = Kept(t, n, i)}
<1>3. 0 \in T
  <2>1. rows[0] = RowOf(a, b, 0, rows[0 - 1])
      BY <1>0, <1>2
  <2>2. Above(t, n, 0, rows[0 - 1])
      BY DEF Above
  <2> QED BY <1>1, <2>1, <2>2
<1>4. ASSUME NEW i \in T PROVE i + 1 \in T
  <2> SUFFICES ASSUME i + 1 <= m PROVE rows[i + 1] = Kept(t, n, i + 1)
      OBVIOUS
  <2>1. rows[i + 1] = RowOf(a, b, i + 1, rows[i + 1 - 1])
      BY <1>0, <1>2
  <2>2. rows[i + 1 - 1] = Kept(t, n, i)
      BY <1>0
  <2>3. Above(t, n, i + 1, rows[i + 1 - 1])
      BY <1>0, <2>2 DEF Above, Kept
  <2> QED BY <1>1, <2>1, <2>3
<1> HIDE DEF T
<1>5. Nat \subseteq T
    BY <1>3, <1>4, Induct
<1>6. rows[m] = Kept(t, n, m)
    BY <1>0, <1>5 DEF T
<1>7. rows[m][n] = t[m][n]
    BY <1>0, <1>6 DEF Kept
<1> QED BY <1>0, <1>7, Unfold DEF rows, m, n, t

(* Names that begin alike have tables that begin alike. *)
LEMMA PrefixTable ==
    ASSUME NEW a, NEW b, NEW c, NEW d, NEW s, NEW t, IsTable(a, b, s), IsTable(c, d, t),
           NEW m \in Nat, \A i \in 1 .. m : a[i] = c[i],
           NEW n \in Nat, \A j \in 1 .. n : b[j] = d[j]
    PROVE  s[m][n] = t[m][n]
<1> DEFINE T == {i \in Nat : i <= m => \A j \in 0 .. n : s[i][j] = t[i][j]}
<1>1. 0 \in T
    BY DEF IsTable
<1>2. ASSUME NEW i \in T PROVE i + 1 \in T
  <2> SUFFICES ASSUME i + 1 <= m PROVE \A j \in 0 .. n : s[i + 1][j] = t[i + 1][j]
      OBVIOUS
  <2>1. IsRow(a, b, i, s[i], s[i + 1]) /\ IsRow(c, d, i, t[i], t[i + 1])
      BY DEF IsTable
  <2>2. \A j \in 0 .. n : s[i][j] = t[i][j]
      OBVIOUS
  <2> HIDE DEF T
  <2>3. i \in Nat /\ a[i + 1] = c[i + 1]
    <3>1. i + 1 \in 1 .. m
        BY DEF T
    <3> QED BY <3>1 DEF T
  <2> DEFINE U == {j \in Nat : j <= n => s[i + 1][j] = t[i + 1][j]}
  <2>4. 0 \in U
      BY <2>1 DEF IsRow
  <2>5. ASSUME NEW j \in U PROVE j + 1 \in U
    <3> SUFFICES ASSUME j + 1 <= n PROVE s[i + 1][j + 1] = t[i + 1][j + 1]
        OBVIOUS
    <3>1. s[i + 1][j] = t[i + 1][j] /\ j \in 0 .. n /\ j + 1 \in 0 .. n /\ j + 1 \in 1 .. n /\ j \in Nat
        OBVIOUS
    <3> HIDE DEF U
    <3>2. Cost(a, b, i + 1, j + 1) = Cost(c, d, i + 1, j + 1)
        BY <2>3, <3>1 DEF Cost
    <3>3. s[i][j] = t[i][j] /\ s[i][j + 1] = t[i][j + 1]
        BY <2>2, <3>1
    <3>4. s[i + 1][j + 1] = Min({s[i][j + 1] + 1, s[i + 1][j] + 1, s[i][j] + Cost(a, b, i + 1, j + 1)})
        BY <2>1, <3>1 DEF IsRow
    <3>5. t[i + 1][j + 1] = Min({t[i][j + 1] + 1, t[i + 1][j] + 1, t[i][j] + Cost(c, d, i + 1, j + 1)})
        BY <2>1, <3>1 DEF IsRow
    <3> QED BY <3>1, <3>2, <3>3, <3>4, <3>5
  <2> HIDE DEF U
  <2>6. Nat \subseteq U
      BY <2>4, <2>5, Induct
  <2> QED BY <2>6 DEF U
<1> HIDE DEF T
<1>3. Nat \subseteq T
    BY <1>1, <1>2, Induct
<1> QED BY <1>3 DEF T

(* The distance is in the table of the two names. *)
LEMMA InTable ==
    ASSUME NEW a \in Seq(Letters), NEW b \in Seq(Letters)
    PROVE  /\ IsTable(a, b, TableOf(a, b))
           /\ Levenshtein(a, b) = TableOf(a, b)[Len(a)][Len(b)]
           /\ Levenshtein(a, b) \in Nat
<1> DEFINE t == TableOf(a, b)
<1>1. Len(a) \in Nat /\ Len(b) \in Nat
    OBVIOUS
<1>2. IsTable(a, b, t) /\ Levenshtein(a, b) = t[Len(a)][Len(b)]
    BY <1>1, TableKept
<1> HIDE DEF t
<1>3. Levenshtein(a, b) \in Nat
    BY <1>1, <1>2 DEF IsTable
<1> QED BY <1>2, <1>3 DEF t

(* A name without letters is as far away as the other is long. *)
LEMMA FromEmpty ==
    ASSUME NEW a \in Seq(Letters), NEW b \in Seq(Letters)
    PROVE  /\ Len(a) = 0 => Levenshtein(a, b) = Len(b)
           /\ Len(b) = 0 => Levenshtein(a, b) = Len(a)
<1> DEFINE t == TableOf(a, b)
<1>1. IsTable(a, b, t) /\ Levenshtein(a, b) = t[Len(a)][Len(b)]
    BY InTable
<1>2. Len(a) \in Nat /\ Len(b) \in Nat
    OBVIOUS
<1> HIDE DEF t
<1>3. Len(a) = 0 => Levenshtein(a, b) = Len(b)
    BY <1>1, <1>2 DEF IsTable
<1>4. Len(b) = 0 /\ Len(a) # 0 => Levenshtein(a, b) = Len(a)
  <2> SUFFICES ASSUME Len(b) = 0, Len(a) # 0 PROVE Levenshtein(a, b) = Len(a)
      OBVIOUS
  <2>1. IsRow(a, b, Len(a) - 1, t[Len(a) - 1], t[Len(a) - 1 + 1]) /\ Len(a) - 1 + 1 = Len(a)
      BY <1>1, <1>2 DEF IsTable
  <2> QED BY <1>1, <1>2, <2>1 DEF IsRow
<1> QED BY <1>3, <1>4

LEMMA RightEmpty ==
    ASSUME NEW a \in Seq(Letters), NEW b \in Seq(Letters), Len(b) = 0
    PROVE  Levenshtein(a, b) = Len(a)
BY FromEmpty

(* The distance by the last letters of the two names. *)
LEMMA LastLetters ==
    ASSUME NEW a \in Seq(Letters), NEW b \in Seq(Letters), NEW x \in Letters, NEW y \in Letters,
           NEW k, k = IF x = y THEN 0 ELSE 1
    PROVE  Levenshtein(Append(a, x), Append(b, y)) =
               Min({Levenshtein(a, Append(b, y)) + 1, Levenshtein(Append(a, x), b) + 1,
                    Levenshtein(a, b) + k})
<1> DEFINE c == Append(a, x)
           d == Append(b, y)
           m == Len(a)
           n == Len(b)
           t == TableOf(c, d)
<1>1. /\ c \in Seq(Letters) /\ Len(c) = m + 1 /\ c[m + 1] = x /\ \A i \in 1 .. m : a[i] = c[i]
      /\ d \in Seq(Letters) /\ Len(d) = n + 1 /\ d[n + 1] = y /\ \A j \in 1 .. n : b[j] = d[j]
      /\ m \in Nat /\ n \in Nat
    OBVIOUS
<1> HIDE DEF c, d, m, n
<1>2. IsTable(c, d, t) /\ Levenshtein(c, d) = t[m + 1][n + 1]
    BY <1>1, InTable
<1> HIDE DEF t
<1>3. Levenshtein(a, d) = t[m][n + 1]
  <2> DEFINE s == TableOf(a, d)
  <2>1. IsTable(a, d, s) /\ Levenshtein(a, d) = s[m][n + 1]
      BY <1>1, InTable DEF m
  <2> HIDE DEF s
  <2>2. (\A j \in 1 .. n + 1 : d[j] = d[j]) /\ (\A i \in 1 .. m : a[i] = c[i])
      BY <1>1
  <2>3. s[m][n + 1] = t[m][n + 1]
    <3>1. n + 1 \in Nat /\ m \in Nat
        BY <1>1
    <3> QED BY <1>2, <2>1, <2>2, <3>1, PrefixTable
  <2> QED BY <2>1, <2>3
<1>4. Levenshtein(c, b) = t[m + 1][n]
  <2> DEFINE s == TableOf(c, b)
  <2>1. IsTable(c, b, s) /\ Levenshtein(c, b) = s[m + 1][n]
      BY <1>1, InTable DEF n
  <2> HIDE DEF s
  <2>2. \A i \in 1 .. m + 1 : c[i] = c[i]
      OBVIOUS
  <2>3. s[m + 1][n] = t[m + 1][n]
    <3>1. m + 1 \in Nat
        BY <1>1
    <3> QED BY <1>1, <1>2, <2>1, <2>2, <3>1, PrefixTable
  <2> QED BY <2>1, <2>3
<1>5. Levenshtein(a, b) = t[m][n]
  <2> DEFINE s == TableOf(a, b)
  <2>1. IsTable(a, b, s) /\ Levenshtein(a, b) = s[m][n]
      BY InTable DEF m, n
  <2> HIDE DEF s
  <2>2. (\A i \in 1 .. m : a[i] = c[i]) /\ (\A j \in 1 .. n : b[j] = d[j]) /\ m \in Nat /\ n \in Nat
      BY <1>1
  <2>3. s[m][n] = t[m][n]
      BY <1>2, <2>1, <2>2, PrefixTable
  <2> QED BY <2>1, <2>3
<1>6. IsRow(c, d, m, t[m], t[m + 1])
    BY <1>1, <1>2 DEF IsTable
<1>7. Cost(c, d, m + 1, n + 1) = k
    BY <1>1 DEF Cost
<1>8. t[m + 1][n + 1] = Min({t[m][n + 1] + 1, t[m + 1][n] + 1, t[m][n] + k})
    BY <1>1, <1>6, <1>7 DEF IsRow
<1> QED BY <1>2, <1>3, <1>4, <1>5, <1>8 DEF c, d

(* The same as inequalities. *)
LEMMA LastStep ==
    ASSUME NEW a \in Seq(Letters), NEW b \in Seq(Letters), NEW x \in Letters, NEW y \in Letters,
           NEW k, k = IF x = y THEN 0 ELSE 1
    PROVE  LET d == Levenshtein(Append(a, x), Append(b, y))
           IN  /\ d <= Levenshtein(a, Append(b, y)) + 1
               /\ d <= Levenshtein(Append(a, x), b) + 1
               /\ d <= Levenshtein(a, b) + k
               /\ \/ d = Levenshtein(a, Append(b, y)) + 1
                  \/ d = Levenshtein(Append(a, x), b) + 1
                  \/ d = Levenshtein(a, b) + k
<1> DEFINE p == Levenshtein(a, Append(b, y))
           q == Levenshtein(Append(a, x), b)
           r == Levenshtein(a, b)
           d == Levenshtein(Append(a, x), Append(b, y))
<1>1. Append(a, x) \in Seq(Letters) /\ Append(b, y) \in Seq(Letters)
    OBVIOUS
<1>2. p \in Nat /\ q \in Nat /\ r \in Nat
    BY <1>1, InTable
<1>3. d = Min({p + 1, q + 1, r + k})
    BY LastLetters
<1> HIDE DEF p, q, r, d
<1>4. p + 1 \in Nat /\ q + 1 \in Nat /\ r + k \in Nat
    BY <1>2
<1>5. /\ d \in {p + 1, q + 1, r + k}
      /\ d <= p + 1 /\ d <= q + 1 /\ d <= r + k
    BY <1>3, <1>4, MinOfThree
<1> QED BY <1>5 DEF p, q, r, d

(* One more letter is one more edit at most ... *)
LEMMA OneMore ==
    ASSUME NEW a \in Seq(Letters), NEW b \in Seq(Letters), NEW x \in Letters
    PROVE  /\ Levenshtein(Append(a, x), b) <= Levenshtein(a, b) + 1
           /\ Levenshtein(a, Append(b, x)) <= Levenshtein(a, b) + 1
<1>0. /\ Append(a, x) \in Seq(Letters) /\ Len(Append(a, x)) = Len(a) + 1 /\ Len(a) \in Nat
      /\ Append(b, x) \in Seq(Letters) /\ Len(Append(b, x)) = Len(b) + 1 /\ Len(b) \in Nat
    OBVIOUS
<1>1. Levenshtein(Append(a, x), b) <= Levenshtein(a, b) + 1
  <2>1. CASE Len(b) = 0
    <3>1. Levenshtein(a, b) = Len(a)
        BY <2>1, RightEmpty
    <3>2. Levenshtein(Append(a, x), b) = Len(Append(a, x))
        BY <1>0, <2>1, RightEmpty
    <3> QED BY <1>0, <3>1, <3>2
  <2>2. CASE Len(b) # 0
    <3>1. PICK c \in Seq(Letters), y \in Letters : b = Append(c, y)
        BY <2>2, SplitLast
    <3> QED BY <3>1, LastStep
  <2> QED BY <2>1, <2>2
<1>2. Levenshtein(a, Append(b, x)) <= Levenshtein(a, b) + 1
  <2>1. CASE Len(a) = 0
    <3>1. Levenshtein(a, b) = Len(b)
        BY <2>1, FromEmpty
    <3>2. Levenshtein(a, Append(b, x)) = Len(Append(b, x))
        BY <1>0, <2>1, FromEmpty
    <3> QED BY <1>0, <3>1, <3>2
  <2>2. CASE Len(a) # 0
    <3>1. PICK c \in Seq(Letters), y \in Letters : a = Append(c, y)
        BY <2>2, SplitLast
    <3> QED BY <3>1, LastStep
  <2> QED BY <2>1, <2>2
<1> QED BY <1>1, <1>2

(* a is as near to any name as c is, give or take one edit. *)
Close(a, c) == \A b \in Seq(Letters) : Levenshtein(a, b) <= Levenshtein(c, b) + 1

LEMMA CloseToMore ==
    ASSUME NEW a \in Seq(Letters), NEW x \in Letters
    PROVE  Close(a, Append(a, x)) /\ Close(Append(a, x), a)
<1> DEFINE c == Append(a, x)
           T == {b \in Seq(Letters) : Levenshtein(a, b) <= Levenshtein(c, b) + 1}
<1>0. c \in Seq(Letters) /\ Len(c) = Len(a) + 1 /\ Len(a) \in Nat
    OBVIOUS
<1>1. ASSUME NEW b \in Seq(Letters), Len(b) = 0 PROVE b \in T
  <2> HIDE DEF c
  <2>1. Levenshtein(a, b) = Len(a) /\ Levenshtein(c, b) = Len(c)
      BY <1>0, <1>1, RightEmpty
  <2> QED BY <1>0, <2>1
<1>2. ASSUME NEW b \in Seq(Letters), NEW y \in Letters, b \in T
      PROVE  Append(b, y) \in T
  <2> DEFINE e == Append(b, y)
  <2>1. e \in Seq(Letters)
      OBVIOUS
  <2>2. Levenshtein(a, e) <= Levenshtein(a, b) + 1
      BY OneMore
  <2>3. PICK k \in {0, 1} : k = IF x = y THEN 0 ELSE 1
      OBVIOUS
  <2>4. \/ Levenshtein(c, e) = Levenshtein(a, e) + 1
        \/ Levenshtein(c, e) = Levenshtein(c, b) + 1
        \/ Levenshtein(c, e) = Levenshtein(a, b) + k
      BY <2>3, LastStep
  <2>5. /\ Levenshtein(a, b) \in Nat /\ Levenshtein(a, e) \in Nat
        /\ Levenshtein(c, b) \in Nat /\ Levenshtein(c, e) \in Nat
      BY <1>0, <2>1, InTable
  <2>6. Levenshtein(a, b) <= Levenshtein(c, b) + 1
      BY <1>2
  <2> HIDE DEF c, e
  <2>7. Levenshtein(a, e) <= Levenshtein(c, e) + 1
      BY <2>2, <2>4, <2>5, <2>6
  <2> QED BY <2>1, <2>7 DEF e
<1> HIDE DEF T
<1>3. Seq(Letters) \subseteq T
    BY <1>1, <1>2, SeqInduct
<1> QED BY <1>3, OneMore DEF Close, T

LEMMA CloseToOther ==
    ASSUME NEW a \in Seq(Letters), NEW x \in Letters, NEW y \in Letters
    PROVE  Close(Append(a, x), Append(a, y))
<1> DEFINE c == Append(a, x)
           d == Append(a, y)
           T == {b \in Seq(Letters) : Levenshtein(c, b) <= Levenshtein(d, b) + 1}
<1>0. c \in Seq(Letters) /\ d \in Seq(Letters) /\ Len(c) = Len(d) /\ Len(c) \in Nat
    OBVIOUS
<1>1. ASSUME NEW b \in Seq(Letters), Len(b) = 0 PROVE b \in T
  <2> HIDE DEF c, d
  <2>1. Levenshtein(c, b) = Len(c) /\ Levenshtein(d, b) = Len(d)
      BY <1>0, <1>1, RightEmpty
  <2> QED BY <1>0, <2>1
<1>2. ASSUME NEW b \in Seq(Letters), NEW z \in Letters, b \in T
      PROVE  Append(b, z) \in T
  <2> DEFINE e == Append(b, z)
  <2>1. e \in Seq(Letters)
      OBVIOUS
  <2>2. PICK k \in {0, 1} : k = IF x = z THEN 0 ELSE 1
      OBVIOUS
  <2>3. /\ Levenshtein(c, e) <= Levenshtein(a, e) + 1
        /\ Levenshtein(c, e) <= Levenshtein(c, b) + 1
        /\ Levenshtein(c, e) <= Levenshtein(a, b) + k
      BY <2>2, LastStep
  <2>4. PICK l \in {0, 1} : l = IF y = z THEN 0 ELSE 1
      OBVIOUS
  <2>5. \/ Levenshtein(d, e) = Levenshtein(a, e) + 1
        \/ Levenshtein(d, e) = Levenshtein(d, b) + 1
        \/ Levenshtein(d, e) = Levenshtein(a, b) + l
      BY <2>4, LastStep
  <2>6. /\ Levenshtein(a, b) \in Nat /\ Levenshtein(a, e) \in Nat
        /\ Levenshtein(c, b) \in Nat /\ Levenshtein(c, e) \in Nat
        /\ Levenshtein(d, b) \in Nat /\ Levenshtein(d, e) \in Nat
      BY <1>0, <2>1, InTable
  <2>7. Levenshtein(c, b) <= Levenshtein(d, b) + 1
      BY <1>2
  <2> HIDE DEF c, d, e
  <2>8. Levenshtein(c, e) <= Levenshtein(d, e) + 1
      BY <2>3, <2>5, <2>6, <2>7
  <2> QED BY <2>1, <2>8 DEF e
<1> HIDE DEF T
<1>3. Seq(Letters) \subseteq T
    BY <1>1, <1>2, SeqInduct
<1> QED BY <1>3 DEF Close, T

LEMMA CloseWithMore ==
    ASSUME NEW a \in Seq(Letters), NEW c \in Seq(Letters), Close(a, c), NEW x \in Letters
    PROVE  Close(Append(a, x), Append(c, x))
<1> DEFINE p == Append(a, x)
           q == Append(c, x)
           T == {b \in Seq(Letters) : Levenshtein(p, b) <= Levenshtein(q, b) + 1}
<1>0. /\ p \in Seq(Letters) /\ Len(p) = Len(a) + 1 /\ Len(a) \in Nat
      /\ q \in Seq(Letters) /\ Len(q) = Len(c) + 1 /\ Len(c) \in Nat
    OBVIOUS
<1>1. ASSUME NEW b \in Seq(Letters), Len(b) = 0 PROVE b \in T
  <2>1. Levenshtein(a, b) <= Levenshtein(c, b) + 1
      BY DEF Close
  <2>2. Levenshtein(a, b) = Len(a) /\ Levenshtein(c, b) = Len(c)
      BY <1>1, RightEmpty
  <2> HIDE DEF p, q
  <2>3. Levenshtein(p, b) = Len(p) /\ Levenshtein(q, b) = Len(q)
      BY <1>0, <1>1, RightEmpty
  <2> QED BY <1>0, <2>1, <2>2, <2>3
<1>2. ASSUME NEW b \in Seq(Letters), NEW z \in Letters, b \in T
      PROVE  Append(b, z) \in T
  <2> DEFINE e == Append(b, z)
  <2>1. e \in Seq(Letters)
      OBVIOUS
  <2>2. PICK k \in {0, 1} : k = IF x = z THEN 0 ELSE 1
      OBVIOUS
  <2>3. /\ Levenshtein(p, e) <= Levenshtein(a, e) + 1
        /\ Levenshtein(p, e) <= Levenshtein(p, b) + 1
        /\ Levenshtein(p, e) <= Levenshtein(a, b) + k
        /\ \/ Levenshtein(q, e) = Levenshtein(c, e) + 1
           \/ Levenshtein(q, e) = Levenshtein(q, b) + 1
           \/ Levenshtein(q, e) = Levenshtein(c, b) + k
      BY <2>2, LastStep
  <2>4. /\ Levenshtein(a, b) \in Nat /\ Levenshtein(a, e) \in Nat
        /\ Levenshtein(c, b) \in Nat /\ Levenshtein(c, e) \in Nat
        /\ Levenshtein(p, b) \in Nat /\ Levenshtein(p, e) \in Nat
        /\ Levenshtein(q, b) \in Nat /\ Levenshtein(q, e) \in Nat
      BY <1>0, <2>1, InTable
  <2>5. /\ Levenshtein(p, b) <= Levenshtein(q, b) + 1
        /\ Levenshtein(a, b) <= Levenshtein(c, b) + 1
        /\ Levenshtein(a, e) <= Levenshtein(c, e) + 1
      BY <1>2, <2>1 DEF Close
  <2> HIDE DEF p, q, e
  <2> SUFFICES Levenshtein(p, e) <= Levenshtein(q, e) + 1
      BY <2>1 DEF e
  <2>6. CASE Levenshtein(q, e) = Levenshtein(c, e) + 1
    <3>1. Levenshtein(p, e) <= Levenshtein(a, e) + 1
        BY <2>3
    <3>2. Levenshtein(a, e) <= Levenshtein(c, e) + 1
        BY <2>5
    <3> QED BY <2>4, <2>6, <3>1, <3>2
  <2>7. CASE Levenshtein(q, e) = Levenshtein(q, b) + 1
    <3>1. Levenshtein(p, e) <= Levenshtein(p, b) + 1
        BY <2>3
    <3>2. Levenshtein(p, b) <= Levenshtein(q, b) + 1
        BY <2>5
    <3> QED BY <2>4, <2>7, <3>1, <3>2
  <2>8. CASE Levenshtein(q, e) = Levenshtein(c, b) + k
    <3>1. Levenshtein(p, e) <= Levenshtein(a, b) + k
        BY <2>3
    <3>2. Levenshtein(a, b) <= Levenshtein(c, b) + 1
        BY <2>5
    <3> QED BY <2>4, <2>8, <3>1, <3>2
  <2> QED BY <2>3, <2>6, <2>7, <2>8
<1> HIDE DEF T
<1>3. Seq(Letters) \subseteq T
    BY <1>1, <1>2, SeqInduct
<1> QED BY <1>3 DEF Close, T

LEMMA NoEdit ==
    ASSUME NEW a \in Seq(Letters)
    PROVE  Levenshtein(a, a) = 0
<1> DEFINE T == {b \in Seq(Letters) : Levenshtein(b, b) = 0}
<1>1. ASSUME NEW b \in Seq(Letters), Len(b) = 0 PROVE b \in T
    BY <1>1, FromEmpty
<1>2. ASSUME NEW b \in Seq(Letters), NEW x \in Letters, b \in T PROVE Append(b, x) \in T
  <2>1. Append(b, x) \in Seq(Letters)
      OBVIOUS
  <2>2. Levenshtein(Append(b, x), Append(b, x)) <= 0 + 0
      BY <1>2, LastStep
  <2>3. Levenshtein(Append(b, x), Append(b, x)) \in Nat
      BY <2>1, InTable
  <2> QED BY <2>1, <2>2, <2>3
<1> HIDE DEF T
<1>3. Seq(Letters) \subseteq T
    BY <1>1, <1>2, SeqInduct
<1> QED BY <1>3 DEF T

(* The letters of a name c that was edited. *)
Without(c, a, i) ==
    /\ c \in Seq(Letters) /\ Len(c) = Len(a) - 1
    /\ \A j \in 1 .. Len(a) - 1 : c[j] = IF j < i THEN a[j] ELSE a[j + 1]

With(c, a, i, y) ==
    /\ c \in Seq(Letters) /\ Len(c) = Len(a) + 1
    /\ \A j \in 1 .. Len(a) + 1 : c[j] = IF j < i THEN a[j] ELSE IF j = i THEN y ELSE a[j - 1]

Instead(c, a, i, y) ==
    /\ c \in Seq(Letters) /\ Len(c) = Len(a)
    /\ \A j \in 1 .. Len(a) : c[j] = IF j = i THEN y ELSE a[j]

Longer(c, a, x) ==
    /\ c \in Seq(Letters) /\ Len(c) = Len(a) + 1 /\ Len(a) \in Nat
    /\ \A j \in 1 .. Len(a) + 1 : c[j] = IF j = Len(a) + 1 THEN x ELSE a[j]

LEMMA Removed ==
    ASSUME NEW a \in Seq(Letters), NEW i \in 1 .. Len(a)
    PROVE  Without(RemoveAt(a, i), a, i)
<1> DEFINE c == RemoveAt(a, i)
           p == SubSeq(a, 1, i - 1)
           q == SubSeq(a, i + 1, Len(a))
<1>0. Len(a) \in Nat /\ i \in Int
    OBVIOUS
<1>1. p \in Seq(Letters) /\ Len(p) = i - 1
    OBVIOUS
<1>11. \A j \in 1 .. i - 1 : p[j] = a[j]
    OBVIOUS
<1>2. q \in Seq(Letters) /\ Len(q) = Len(a) - i
    OBVIOUS
<1>3. \A j \in 1 .. Len(a) - i : q[j] = a[i + j]
    OBVIOUS
<1>4. c = p \o q
    BY DEF RemoveAt
<1> HIDE DEF p, q, c
<1>51. c \in Seq(Letters) /\ Len(c) = Len(p) + Len(q)
    BY <1>1, <1>2, <1>4
<1>5. Len(c) = Len(a) - 1
    BY <1>0, <1>1, <1>2, <1>51
<1>6. ASSUME NEW j \in 1 .. Len(a) - 1, j < i PROVE c[j] = a[j]
    BY <1>1, <1>11, <1>2, <1>4, <1>6
<1>7. ASSUME NEW j \in 1 .. Len(a) - 1, ~ j < i PROVE c[j] = a[j + 1]
  <2>1. c[j] = q[j - (i - 1)] /\ j - (i - 1) \in 1 .. Len(a) - i /\ i + (j - (i - 1)) = j + 1
      BY <1>1, <1>2, <1>4, <1>7
  <2> QED BY <1>3, <2>1
<1>8. Without(c, a, i)
    BY <1>5, <1>51, <1>6, <1>7 DEF Without
<1> QED BY <1>8 DEF c

LEMMA Inserted ==
    ASSUME NEW a \in Seq(Letters), NEW i \in 1 .. Len(a) + 1, NEW y \in Letters
    PROVE  With(InsertAt(a, i, y), a, i, y)
<1> DEFINE c == InsertAt(a, i, y)
           p == SubSeq(a, 1, i - 1)
           r == p \o <<y>>
           q == SubSeq(a, i, Len(a))
<1>0. Len(a) \in Nat /\ i \in Int
    OBVIOUS
<1>1. p \in Seq(Letters) /\ Len(p) = i - 1
    OBVIOUS
<1>11. \A j \in 1 .. i - 1 : p[j] = a[j]
    OBVIOUS
<1>2. q \in Seq(Letters) /\ Len(q) = Len(a) - i + 1
    OBVIOUS
<1>3. \A j \in 1 .. Len(a) - i + 1 : q[j] = a[i + j - 1]
    OBVIOUS
<1>4. c = r \o q
    BY DEF InsertAt
<1> HIDE DEF p, q, c
<1>5. r \in Seq(Letters) /\ Len(r) = i /\ r[i] = y /\ \A j \in 1 .. i - 1 : r[j] = p[j]
    BY <1>1
<1> HIDE DEF r
<1>61. c \in Seq(Letters) /\ Len(c) = Len(r) + Len(q)
    BY <1>2, <1>4, <1>5
<1>6. Len(c) = Len(a) + 1
    BY <1>0, <1>2, <1>5, <1>61
<1>7. ASSUME NEW j \in 1 .. Len(a) + 1, j <= i PROVE c[j] = r[j]
    BY <1>2, <1>4, <1>5, <1>7
<1>8. ASSUME NEW j \in 1 .. Len(a) + 1, j < i PROVE c[j] = a[j]
    BY <1>11, <1>5, <1>7, <1>8
<1>9. ASSUME NEW j \in 1 .. Len(a) + 1, j > i PROVE c[j] = a[j - 1]
  <2>1. c[j] = q[j - i] /\ j - i \in 1 .. Len(a) - i + 1 /\ i + (j - i) - 1 = j - 1
      BY <1>2, <1>4, <1>5, <1>9
  <2> QED BY <1>3, <2>1
<1>10. c[i] = y
    BY <1>5, <1>7
<1>12. With(c, a, i, y)
    BY <1>6, <1>61, <1>8, <1>9, <1>10 DEF With
<1> QED BY <1>12 DEF c

LEMMA Replaced ==
    ASSUME NEW a \in Seq(Letters), NEW i \in 1 .. Len(a), NEW y \in Letters
    PROVE  Instead(ReplaceAt(a, i, y), a, i, y)
BY DEF ReplaceAt, Instead

LEMMA Appended ==
    ASSUME NEW a \in Seq(Letters), NEW x \in Letters
    PROVE  Longer(Append(a, x), a, x)
BY DEF Longer

(* Editing a name with one more letter is dropping the letter, replacing it, adding
   one after it, or editing what is before it. *)
LEMMA RemoveLast ==
    ASSUME NEW a \in Seq(Letters), NEW x \in Letters, NEW i \in 1 .. Len(a) + 1
    PROVE  /\ i = Len(a) + 1 => RemoveAt(Append(a, x), i) = a
           /\ i # Len(a) + 1 => RemoveAt(Append(a, x), i) = Append(RemoveAt(a, i), x)
<1> DEFINE b == Append(a, x)
<1>1. Longer(b, a, x)
    BY Appended
<1> HIDE DEF b
<1> DEFINE c == RemoveAt(b, i)
<1>2. Without(c, b, i)
  <2>1. b \in Seq(Letters) /\ i \in 1 .. Len(b)
      BY <1>1 DEF Longer
  <2> QED BY <2>1, Removed
<1> HIDE DEF c
<1>3. i = Len(a) + 1 => c = a
  <2> SUFFICES ASSUME i = Len(a) + 1 PROVE c = a
      OBVIOUS
  <2>1. c \in Seq(Letters) /\ Len(c) = Len(a) /\ \A j \in 1 .. Len(c) : c[j] = a[j]
      BY <1>1, <1>2 DEF Longer, Without
  <2> QED BY <2>1, SameSeq
<1>4. i # Len(a) + 1 => c = Append(RemoveAt(a, i), x)
  <2> DEFINE d == RemoveAt(a, i)
             e == Append(d, x)
  <2> SUFFICES ASSUME i # Len(a) + 1 PROVE c = e
      OBVIOUS
  <2>1. i \in 1 .. Len(a) /\ Len(a) \in Nat
      OBVIOUS
  <2>2. Without(d, a, i)
      BY <2>1, Removed
  <2> HIDE DEF d
  <2>3. Longer(e, d, x)
      BY <2>2, Appended DEF Without
  <2> HIDE DEF e
  <2>4. Len(c) = Len(a) /\ Len(e) = Len(a) /\ c \in Seq(Letters) /\ e \in Seq(Letters)
      BY <1>1, <1>2, <2>1, <2>2, <2>3 DEF Longer, Without
  <2>5. ASSUME NEW j \in 1 .. Len(a) PROVE c[j] = e[j]
    <3>1. CASE j = Len(a)
      <4>1. ~ j < i /\ j + 1 = Len(a) + 1 /\ j + 1 \in 1 .. Len(a) + 1
          BY <2>1, <3>1
      <4>2. c[j] = b[j + 1]
          BY <1>1, <1>2, <4>1 DEF Longer, Without
      <4>3. b[j + 1] = x
          BY <1>1, <4>1 DEF Longer
      <4>4. e[j] = x
          BY <2>2, <2>3, <3>1 DEF Longer, Without
      <4> QED BY <4>2, <4>3, <4>4
    <3>2. CASE j # Len(a)
      <4>1. j \in 1 .. Len(a) - 1 /\ j + 1 \in 1 .. Len(a) /\ j + 1 # Len(a) + 1
          BY <2>1, <3>2
      <4>2. e[j] = d[j] /\ d[j] = IF j < i THEN a[j] ELSE a[j + 1]
          BY <2>2, <2>3, <4>1 DEF Longer, Without
      <4>3. c[j] = IF j < i THEN b[j] ELSE b[j + 1]
          BY <1>1, <1>2, <4>1 DEF Longer, Without
      <4>4. b[j] = a[j] /\ b[j + 1] = a[j + 1]
          BY <1>1, <4>1 DEF Longer
      <4> QED BY <4>2, <4>3, <4>4
    <3> QED BY <3>1, <3>2
  <2> QED BY <2>4, <2>5, SameSeq
<1> QED BY <1>3, <1>4 DEF b, c

LEMMA InsertLast ==
    ASSUME NEW a \in Seq(Letters), NEW x \in Letters, NEW y \in Letters, NEW i \in 1 .. Len(a) + 2
    PROVE  /\ i = Len(a) + 2 => InsertAt(Append(a, x), i, y) = Append(Append(a, x), y)
           /\ i # Len(a) + 2 => InsertAt(Append(a, x), i, y) = Append(InsertAt(a, i, y), x)
<1> DEFINE b == Append(a, x)
<1>1. Longer(b, a, x)
    BY Appended
<1> HIDE DEF b
<1> DEFINE c == InsertAt(b, i, y)
<1>2. With(c, b, i, y)
  <2>1. b \in Seq(Letters) /\ i \in 1 .. Len(b) + 1
      BY <1>1 DEF Longer
  <2> QED BY <2>1, Inserted
<1> HIDE DEF c
<1>3. i = Len(a) + 2 => c = Append(b, y)
  <2> DEFINE e == Append(b, y)
  <2> SUFFICES ASSUME i = Len(a) + 2 PROVE c = e
      OBVIOUS
  <2>1. Longer(e, b, y)
      BY <1>1, Appended DEF Longer
  <2> HIDE DEF e
  <2>2. /\ c \in Seq(Letters) /\ e \in Seq(Letters) /\ Len(c) = Len(e)
        /\ \A j \in 1 .. Len(c) : c[j] = e[j]
      BY <1>1, <1>2, <2>1 DEF Longer, With
  <2> QED BY <2>2, SameSeq
<1>4. i # Len(a) + 2 => c = Append(InsertAt(a, i, y), x)
  <2> DEFINE d == InsertAt(a, i, y)
             e == Append(d, x)
  <2> SUFFICES ASSUME i # Len(a) + 2 PROVE c = e
      OBVIOUS
  <2>1. i \in 1 .. Len(a) + 1 /\ Len(a) \in Nat
      OBVIOUS
  <2>2. With(d, a, i, y)
      BY <2>1, Inserted
  <2> HIDE DEF d
  <2>3. Longer(e, d, x)
      BY <2>2, Appended DEF With
  <2> HIDE DEF e
  <2>4. Len(c) = Len(a) + 2 /\ Len(e) = Len(a) + 2 /\ c \in Seq(Letters) /\ e \in Seq(Letters)
      BY <1>1, <1>2, <2>1, <2>2, <2>3 DEF Longer, With
  <2>5. ASSUME NEW j \in 1 .. Len(a) + 2 PROVE c[j] = e[j]
    <3>1. CASE j = Len(a) + 2
      <4>1. ~ j < i /\ j # i /\ j - 1 = Len(a) + 1 /\ j - 1 \in 1 .. Len(a) + 1 /\ j = Len(a) + 1 + 1
          BY <2>1, <3>1
      <4>2. c[j] = b[j - 1]
          BY <1>1, <1>2, <4>1 DEF Longer, With
      <4>3. b[j - 1] = x
          BY <1>1, <4>1 DEF Longer
      <4>4. e[j] = x
          BY <2>2, <2>3, <4>1 DEF Longer, With
      <4> QED BY <4>2, <4>3, <4>4
    <3>2. CASE j # Len(a) + 2
      <4>1. j \in 1 .. Len(a) + 1 /\ (j < i => j # Len(a) + 1) /\ (i < j => j - 1 \in 1 .. Len(a) + 1 /\ j - 1 # Len(a) + 1)
          BY <2>1, <3>2
      <4>2. e[j] = d[j] /\ d[j] = IF j < i THEN a[j] ELSE IF j = i THEN y ELSE a[j - 1]
          BY <2>2, <2>3, <4>1 DEF Longer, With
      <4>3. c[j] = IF j < i THEN b[j] ELSE IF j = i THEN y ELSE b[j - 1]
          BY <1>1, <1>2, <4>1 DEF Longer, With
      <4>4. (j < i => b[j] = a[j]) /\ (i < j => b[j - 1] = a[j - 1])
          BY <1>1, <4>1 DEF Longer
      <4>5. j < i \/ j = i \/ i < j
          BY <2>1
      <4> QED BY <4>2, <4>3, <4>4, <4>5
    <3> QED BY <3>1, <3>2
  <2> QED BY <2>4, <2>5, SameSeq
<1> QED BY <1>3, <1>4 DEF b, c

LEMMA ReplaceLast ==
    ASSUME NEW a \in Seq(Letters), NEW x \in Letters, NEW y \in Letters, NEW i \in 1 .. Len(a) + 1
    PROVE  /\ i = Len(a) + 1 => ReplaceAt(Append(a, x), i, y) = Append(a, y)
           /\ i # Len(a) + 1 => ReplaceAt(Append(a, x), i, y) = Append(ReplaceAt(a, i, y), x)
<1> DEFINE b == Append(a, x)
<1>1. Longer(b, a, x)
    BY Appended
<1> HIDE DEF b
<1> DEFINE c == ReplaceAt(b, i, y)
<1>2. Instead(c, b, i, y)
  <2>1. b \in Seq(Letters) /\ i \in 1 .. Len(b)
      BY <1>1 DEF Longer
  <2> QED BY <2>1, Replaced
<1> HIDE DEF c
<1>3. i = Len(a) + 1 => c = Append(a, y)
  <2> DEFINE e == Append(a, y)
  <2> SUFFICES ASSUME i = Len(a) + 1 PROVE c = e
      OBVIOUS
  <2>1. Longer(e, a, y)
      BY Appended
  <2> HIDE DEF e
  <2>2. /\ c \in Seq(Letters) /\ e \in Seq(Letters) /\ Len(c) = Len(e)
        /\ \A j \in 1 .. Len(c) : c[j] = e[j]
      BY <1>1, <1>2, <2>1 DEF Longer, Instead
  <2> QED BY <2>2, SameSeq
<1>4. i # Len(a) + 1 => c = Append(ReplaceAt(a, i, y), x)
  <2> DEFINE d == ReplaceAt(a, i, y)
             e == Append(d, x)
  <2> SUFFICES ASSUME i # Len(a) + 1 PROVE c = e
      OBVIOUS
  <2>1. i \in 1 .. Len(a)
      OBVIOUS
  <2>2. Instead(d, a, i, y)
      BY <2>1, Replaced
  <2> HIDE DEF d
  <2>3. Longer(e, d, x)
      BY <2>2, Appended DEF Instead
  <2> HIDE DEF e
  <2>4. /\ c \in Seq(Letters) /\ e \in Seq(Letters) /\ Len(c) = Len(e)
        /\ \A j \in 1 .. Len(c) : c[j] = e[j]
      BY <1>1, <1>2, <2>1, <2>2, <2>3 DEF Longer, Instead
  <2> QED BY <2>4, SameSeq
<1> QED BY <1>3, <1>4 DEF b, c

(* What an edit is, case by case. *)
IsEdit(c, a) ==
    \/ \E i \in 1 .. Len(a) : c = RemoveAt(a, i)
    \/ \E i \in 1 .. Len(a) + 1, y \in Letters : c = InsertAt(a, i, y)
    \/ \E i \in 1 .. Len(a), y \in Letters : c = ReplaceAt(a, i, y)

LEMMA EditIs ==
    ASSUME NEW a \in Seq(Letters), NEW c
    PROVE  c \in Edits(a) <=> IsEdit(c, a)
<1>1. DOMAIN a = 1 .. Len(a)
    OBVIOUS
<1> QED BY <1>1 DEF Edits, IsEdit

LEMMA EditsType ==
    ASSUME NEW a \in Seq(Letters), NEW c \in Edits(a)
    PROVE  c \in Seq(Letters)
<1>1. ASSUME NEW i \in 1 .. Len(a), c = RemoveAt(a, i) PROVE c \in Seq(Letters)
    BY <1>1, Removed DEF Without
<1>2. ASSUME NEW i \in 1 .. Len(a) + 1, NEW y \in Letters, c = InsertAt(a, i, y) PROVE c \in Seq(Letters)
    BY <1>2, Inserted DEF With
<1>3. ASSUME NEW i \in 1 .. Len(a), NEW y \in Letters, c = ReplaceAt(a, i, y) PROVE c \in Seq(Letters)
    BY <1>3, Replaced DEF Instead
<1> QED BY <1>1, <1>2, <1>3, EditIs DEF IsEdit

LEMMA EditsOfNone ==
    ASSUME NEW a \in Seq(Letters), Len(a) = 0, NEW c
    PROVE  c \in Edits(a) <=> \E y \in Letters : c = Append(a, y)
<1>1. ASSUME NEW y \in Letters PROVE InsertAt(a, 1, y) = Append(a, y)
  <2> DEFINE d == InsertAt(a, 1, y)
             e == Append(a, y)
  <2>1. With(d, a, 1, y)
    <3>1. 1 \in 1 .. Len(a) + 1
        OBVIOUS
    <3> QED BY <3>1, Inserted
  <2>2. Longer(e, a, y)
      BY Appended
  <2> HIDE DEF d, e
  <2>3. /\ d \in Seq(Letters) /\ e \in Seq(Letters) /\ Len(d) = Len(e)
        /\ \A j \in 1 .. Len(d) : d[j] = e[j]
      BY <2>1, <2>2 DEF With, Longer
  <2>4. d = e
      BY <2>3, SameSeq
  <2> QED BY <2>4 DEF d, e
<1>2. 1 .. Len(a) = {} /\ 1 .. Len(a) + 1 = {1}
    OBVIOUS
<1>3. c \in Edits(a) <=> IsEdit(c, a)
    BY EditIs
<1>4. IsEdit(c, a) <=> \E y \in Letters : c = InsertAt(a, 1, y)
    BY <1>2 DEF IsEdit
<1> QED BY <1>1, <1>3, <1>4

(* Editing a name with one more letter is dropping the letter, replacing it, adding
   one after it, or editing what is before it. *)
LEMMA EditsOfMore ==
    ASSUME NEW a \in Seq(Letters), NEW x \in Letters, NEW c
    PROVE  c \in Edits(Append(a, x)) <=>
               \/ c = a
               \/ \E y \in Letters : c = Append(a, y) \/ c = Append(Append(a, x), y)
               \/ \E d \in Edits(a) : c = Append(d, x)
<1> DEFINE b == Append(a, x)
<1>0. /\ b \in Seq(Letters) /\ Len(a) \in Nat /\ Len(b) = Len(a) + 1 /\ Len(b) + 1 = Len(a) + 2
      /\ Len(a) + 1 \in 1 .. Len(a) + 1 /\ Len(a) + 2 \in 1 .. Len(a) + 2
      /\ \A i \in 1 .. Len(a) : i \in 1 .. Len(a) + 1 /\ i # Len(a) + 1
      /\ \A i \in 1 .. Len(a) + 1 : i \in 1 .. Len(a) + 2 /\ i # Len(a) + 2
      /\ \A i \in 1 .. Len(a) + 1 : i # Len(a) + 1 => i \in 1 .. Len(a)
      /\ \A i \in 1 .. Len(a) + 2 : i # Len(a) + 2 => i \in 1 .. Len(a) + 1
    OBVIOUS
<1>1. ASSUME NEW i \in 1 .. Len(a) + 1
      PROVE  /\ i = Len(a) + 1 => RemoveAt(b, i) = a
             /\ i # Len(a) + 1 => RemoveAt(b, i) = Append(RemoveAt(a, i), x)
    BY RemoveLast
<1>2. ASSUME NEW i \in 1 .. Len(a) + 2, NEW y \in Letters
      PROVE  /\ i = Len(a) + 2 => InsertAt(b, i, y) = Append(b, y)
             /\ i # Len(a) + 2 => InsertAt(b, i, y) = Append(InsertAt(a, i, y), x)
    BY InsertLast
<1>3. ASSUME NEW i \in 1 .. Len(a) + 1, NEW y \in Letters
      PROVE  /\ i = Len(a) + 1 => ReplaceAt(b, i, y) = Append(a, y)
             /\ i # Len(a) + 1 => ReplaceAt(b, i, y) = Append(ReplaceAt(a, i, y), x)
    BY ReplaceLast
<1>4. c \in Edits(b) <=>
               \/ \E i \in 1 .. Len(a) + 1 : c = RemoveAt(b, i)
               \/ \E i \in 1 .. Len(a) + 2, y \in Letters : c = InsertAt(b, i, y)
               \/ \E i \in 1 .. Len(a) + 1, y \in Letters : c = ReplaceAt(b, i, y)
  <2>1. c \in Edits(b) <=> IsEdit(c, b)
      BY <1>0, EditIs
  <2> QED BY <1>0, <2>1 DEF IsEdit
<1>5. \A d : d \in Edits(a) <=> IsEdit(d, a)
    BY EditIs
<1> HIDE DEF b
<1> DEFINE R == \/ c = a
                \/ \E y \in Letters : c = Append(a, y) \/ c = Append(b, y)
                \/ \E d \in Edits(a) : c = Append(d, x)
<1>6. ASSUME c \in Edits(b) PROVE R
  <2>1. ASSUME NEW i \in 1 .. Len(a) + 1, c = RemoveAt(b, i) PROVE R
    <3>1. CASE i = Len(a) + 1
      <4>1. c = a
          BY <1>1, <2>1, <3>1
      <4> QED BY <4>1
    <3>2. CASE i # Len(a) + 1
      <4>1. RemoveAt(a, i) \in Edits(a)
          BY <1>0, <1>5, <3>2 DEF IsEdit
      <4>2. c = Append(RemoveAt(a, i), x)
          BY <1>1, <2>1, <3>2
      <4> QED BY <4>1, <4>2
    <3> QED BY <3>1, <3>2
  <2>2. ASSUME NEW i \in 1 .. Len(a) + 2, NEW y \in Letters, c = InsertAt(b, i, y) PROVE R
    <3>1. CASE i = Len(a) + 2
      <4>1. c = Append(b, y)
          BY <1>2, <2>2, <3>1
      <4> QED BY <4>1
    <3>2. CASE i # Len(a) + 2
      <4>1. InsertAt(a, i, y) \in Edits(a)
          BY <1>0, <1>5, <3>2 DEF IsEdit
      <4>2. c = Append(InsertAt(a, i, y), x)
          BY <1>2, <2>2, <3>2
      <4> QED BY <4>1, <4>2
    <3> QED BY <3>1, <3>2
  <2>3. ASSUME NEW i \in 1 .. Len(a) + 1, NEW y \in Letters, c = ReplaceAt(b, i, y) PROVE R
    <3>1. CASE i = Len(a) + 1
      <4>1. c = Append(a, y)
          BY <1>3, <2>3, <3>1
      <4> QED BY <4>1
    <3>2. CASE i # Len(a) + 1
      <4>1. ReplaceAt(a, i, y) \in Edits(a)
          BY <1>0, <1>5, <3>2 DEF IsEdit
      <4>2. c = Append(ReplaceAt(a, i, y), x)
          BY <1>3, <2>3, <3>2
      <4> QED BY <4>1, <4>2
    <3> QED BY <3>1, <3>2
  <2> HIDE DEF R
  <2> QED BY <1>4, <1>6, <2>1, <2>2, <2>3
<1>7. ASSUME R PROVE c \in Edits(b)
  <2>1. CASE c = a
      BY <1>0, <1>1, <1>4, <2>1 DEF IsEdit
  <2>2. ASSUME NEW y \in Letters, c = Append(a, y) PROVE c \in Edits(b)
      BY <1>0, <1>3, <1>4, <2>2 DEF IsEdit
  <2>3. ASSUME NEW y \in Letters, c = Append(b, y) PROVE c \in Edits(b)
      BY <1>0, <1>2, <1>4, <2>3
  <2>4. ASSUME NEW d \in Edits(a), c = Append(d, x) PROVE c \in Edits(b)
    <3>1. ASSUME NEW i \in 1 .. Len(a), d = RemoveAt(a, i) PROVE c \in Edits(b)
        BY <1>0, <1>1, <1>4, <2>4, <3>1
    <3>2. ASSUME NEW i \in 1 .. Len(a) + 1, NEW y \in Letters, d = InsertAt(a, i, y) PROVE c \in Edits(b)
        BY <1>0, <1>2, <1>4, <2>4, <3>2
    <3>3. ASSUME NEW i \in 1 .. Len(a), NEW y \in Letters, d = ReplaceAt(a, i, y) PROVE c \in Edits(b)
        BY <1>0, <1>3, <1>4, <2>4, <3>3
    <3> QED BY <1>5, <3>1, <3>2, <3>3 DEF IsEdit
  <2> QED BY <1>7, <2>1, <2>2, <2>3, <2>4
<1> HIDE DEF R
<1>8. c \in Edits(b) <=> R
    BY <1>6, <1>7
<1> QED BY <1>8 DEF R, b

(* No name is farther from a name than from any edit of it, but for one edit. *)
LEMMA EditsClose ==
    ASSUME NEW a \in Seq(Letters), NEW c \in Edits(a)
    PROVE  Close(a, c)
<1> DEFINE T == {b \in Seq(Letters) : \A d \in Edits(b) : Close(b, d)}
<1>1. ASSUME NEW b \in Seq(Letters), Len(b) = 0 PROVE b \in T
  <2> SUFFICES ASSUME NEW d \in Edits(b) PROVE Close(b, d)
      OBVIOUS
  <2>1. PICK y \in Letters : d = Append(b, y)
      BY <1>1, EditsOfNone
  <2> QED BY <2>1, CloseToMore
<1>2. ASSUME NEW b \in Seq(Letters), NEW x \in Letters, b \in T PROVE Append(b, x) \in T
  <2> DEFINE e == Append(b, x)
  <2>0. e \in Seq(Letters)
      OBVIOUS
  <2> SUFFICES ASSUME NEW d \in Edits(e) PROVE Close(e, d)
      BY <2>0
  <2>1. CASE d = b
      BY <2>1, CloseToMore
  <2>2. ASSUME NEW y \in Letters, d = Append(b, y) PROVE Close(e, d)
      BY <2>2, CloseToOther
  <2>3. ASSUME NEW y \in Letters, d = Append(e, y) PROVE Close(e, d)
    <3> HIDE DEF e
    <3> QED BY <2>0, <2>3, CloseToMore
  <2>4. ASSUME NEW f \in Edits(b), d = Append(f, x) PROVE Close(e, d)
    <3>1. Close(b, f) /\ f \in Seq(Letters)
        BY <1>2, EditsType
    <3> QED BY <2>4, <3>1, CloseWithMore
  <2>5. \/ d = b
        \/ \E y \in Letters : d = Append(b, y) \/ d = Append(e, y)
        \/ \E f \in Edits(b) : d = Append(f, x)
      BY EditsOfMore
  <2> QED BY <2>1, <2>2, <2>3, <2>4, <2>5
<1> HIDE DEF T
<1>3. Seq(Letters) \subseteq T
    BY <1>1, <1>2, SeqInduct
<1> QED BY <1>3 DEF T

(* One more than a natural is not zero, and one less than that is the natural. *)
LEMMA Pred ==
    ASSUME NEW n \in Nat, NEW m, m = n + 1
    PROVE  m # 0 /\ n = m - 1 /\ m \in Nat
OBVIOUS

LEMMA LevType ==
    ASSUME NEW a \in Seq(Letters), NEW b \in Seq(Letters)
    PROVE  Levenshtein(a, b) \in Nat
BY InTable

(* Appending the same letter leaves the distance, or makes it less. *)
LEMMA SameLetter ==
    ASSUME NEW a \in Seq(Letters), NEW b \in Seq(Letters), NEW x \in Letters
    PROVE  Levenshtein(Append(a, x), Append(b, x)) <= Levenshtein(a, b)
<1>1. Levenshtein(Append(a, x), Append(b, x)) <= Levenshtein(a, b) + 0
    BY LastStep
<1>2. Levenshtein(a, b) \in Nat
    BY LevType
<1> QED BY <1>1, <1>2

(* One of the edits of a is nearer to b. *)
Nearer(a, b) ==
    /\ Levenshtein(a, b) = 0 => a = b
    /\ Levenshtein(a, b) # 0 => \E c \in Edits(a) : Levenshtein(c, b) <= Levenshtein(a, b) - 1

LEMMA NearerThan ==
    ASSUME NEW a \in Seq(Letters), NEW b \in Seq(Letters)
    PROVE  Nearer(a, b)
<1> DEFINE T == {r \in Seq(Letters) : \A s \in Seq(Letters) : Nearer(r, s)}
<1>1. ASSUME NEW r \in Seq(Letters), Len(r) = 0 PROVE r \in T
  <2> SUFFICES ASSUME NEW s \in Seq(Letters) PROVE Nearer(r, s)
      OBVIOUS
  <2>1. Levenshtein(r, s) = Len(s)
      BY <1>1, FromEmpty
  <2>2. CASE Len(s) = 0
    <3>1. r = s
        BY <1>1, <2>2
    <3> QED BY <2>1, <2>2, <3>1 DEF Nearer
  <2>3. CASE Len(s) # 0
    <3>1. PICK q \in Seq(Letters), y \in Letters : s = Append(q, y) /\ Len(s) = Len(q) + 1
        BY <2>3, SplitLast
    <3>2. Append(r, y) \in Edits(r)
        BY <1>1, EditsOfNone
    <3>3. Levenshtein(Append(r, y), s) <= Levenshtein(r, q)
        BY <3>1, SameLetter
    <3>4. Levenshtein(r, q) = Len(q) /\ Len(q) \in Nat
      <4>1. Levenshtein(r, q) = Len(q)
          BY <1>1, FromEmpty
      <4> QED BY <4>1
    <3>5. Levenshtein(r, q) = Levenshtein(r, s) - 1
        BY <2>1, <3>1, <3>4
    <3> QED BY <2>1, <2>3, <3>2, <3>3, <3>5 DEF Nearer
  <2> QED BY <2>2, <2>3
<1>2. ASSUME NEW r \in Seq(Letters), NEW x \in Letters, r \in T PROVE Append(r, x) \in T
  <2> DEFINE e == Append(r, x)
  <2>0. e \in Seq(Letters) /\ Len(e) = Len(r) + 1 /\ Len(r) \in Nat
      OBVIOUS
  <2>00. \A c : c \in Edits(e) <=>
               \/ c = r
               \/ \E y \in Letters : c = Append(r, y) \/ c = Append(e, y)
               \/ \E d \in Edits(r) : c = Append(d, x)
      BY EditsOfMore
  <2> SUFFICES ASSUME NEW s \in Seq(Letters) PROVE Nearer(e, s)
      BY <2>0
  <2>1. CASE Len(s) = 0
    <3>1. Levenshtein(r, s) = Len(r)
        BY <2>1, RightEmpty
    <3> HIDE DEF e
    <3>2. Levenshtein(e, s) = Len(e)
        BY <2>0, <2>1, RightEmpty
    <3>3. r \in Edits(e)
        BY <2>00
    <3>4. Levenshtein(e, s) # 0 /\ Levenshtein(r, s) <= Levenshtein(e, s) - 1
        BY <2>0, <3>1, <3>2
    <3> QED BY <3>3, <3>4 DEF Nearer
  <2>2. CASE Len(s) # 0
    <3>1. PICK q \in Seq(Letters), y \in Letters : s = Append(q, y) /\ Len(s) = Len(q) + 1
        BY <2>2, SplitLast
    <3>2. PICK k \in {0, 1} : k = IF x = y THEN 0 ELSE 1
        OBVIOUS
    <3>3. \/ Levenshtein(e, s) = Levenshtein(r, s) + 1
          \/ Levenshtein(e, s) = Levenshtein(e, q) + 1
          \/ Levenshtein(e, s) = Levenshtein(r, q) + k
        BY <3>1, <3>2, LastStep
    <3>4. Levenshtein(r, s) \in Nat /\ Levenshtein(e, q) \in Nat /\ Levenshtein(r, q) \in Nat
      <4> HIDE DEF e
      <4> QED BY <2>0, LevType
    <3>5. Nearer(r, q)
        BY <1>2
    <3>6. CASE Levenshtein(e, s) = Levenshtein(r, s) + 1
      <4> HIDE DEF e
      <4>1. r \in Edits(e)
          BY <2>00
      <4>2. Levenshtein(e, s) # 0 /\ Levenshtein(r, s) <= Levenshtein(e, s) - 1
          BY <3>4, <3>6
      <4> QED BY <4>1, <4>2 DEF Nearer
    <3>7. CASE Levenshtein(e, s) = Levenshtein(e, q) + 1
      <4> HIDE DEF e
      <4>1. Append(e, y) \in Edits(e)
          BY <2>00
      <4>2. Levenshtein(Append(e, y), s) <= Levenshtein(e, q)
          BY <2>0, <3>1, SameLetter
      <4>3. Levenshtein(e, s) # 0 /\ Levenshtein(e, q) = Levenshtein(e, s) - 1
          BY <3>4, <3>7, Pred
      <4> QED BY <4>1, <4>2, <4>3 DEF Nearer
    <3>8. CASE Levenshtein(e, s) = Levenshtein(r, q) + k /\ x # y
      <4>1. Levenshtein(Append(r, y), s) <= Levenshtein(r, q)
          BY <3>1, SameLetter
      <4> HIDE DEF e
      <4>2. Append(r, y) \in Edits(e)
          BY <2>00
      <4>3. Levenshtein(e, s) # 0 /\ Levenshtein(r, q) = Levenshtein(e, s) - 1
        <5>1. Levenshtein(e, s) = Levenshtein(r, q) + 1
            BY <3>2, <3>8
        <5> QED BY <3>4, <5>1, Pred
      <4> QED BY <4>1, <4>2, <4>3 DEF Nearer
    <3>9. CASE Levenshtein(e, s) = Levenshtein(r, q) + k /\ x = y
      <4>1. Levenshtein(e, s) = Levenshtein(r, q)
          BY <3>2, <3>4, <3>9
      <4>2. CASE Levenshtein(r, q) = 0
        <5>1. e = s
            BY <3>1, <3>5, <3>9, <4>2 DEF Nearer
        <5> HIDE DEF e
        <5> QED BY <4>1, <4>2, <5>1 DEF Nearer
      <4>3. CASE Levenshtein(r, q) # 0
        <5>1. PICK d \in Edits(r) : Levenshtein(d, q) <= Levenshtein(r, q) - 1
            BY <3>5, <4>3 DEF Nearer
        <5>2. d \in Seq(Letters)
            BY EditsType
        <5>3. Levenshtein(Append(d, x), s) <= Levenshtein(d, q)
            BY <3>1, <3>9, <5>2, SameLetter
        <5> DEFINE c == Append(d, x)
        <5>4. c \in Edits(e)
          <6> HIDE DEF e
          <6> QED BY <2>00
        <5>5. Levenshtein(d, q) \in Nat /\ Levenshtein(c, s) \in Nat
          <6>1. c \in Seq(Letters)
              BY <5>2
          <6> HIDE DEF c
          <6> QED BY <5>2, <6>1, LevType
        <5> HIDE DEF e, c
        <5>6. Levenshtein(c, s) <= Levenshtein(d, q)
            BY <5>3 DEF c
        <5>7. Levenshtein(c, s) <= Levenshtein(e, s) - 1
            BY <3>4, <4>1, <5>1, <5>5, <5>6
        <5> QED BY <4>1, <4>3, <5>4, <5>7 DEF Nearer
      <4> QED BY <4>2, <4>3
    <3> QED BY <3>3, <3>6, <3>7, <3>8, <3>9
  <2> QED BY <2>1, <2>2
<1> HIDE DEF T
<1>3. Seq(Letters) \subseteq T
    BY <1>1, <1>2, SeqInduct
<1> QED BY <1>3 DEF T

(* The names within n edits are those at a distance of n or less. *)
LEMMA NearIs ==
    ASSUME NEW a \in Seq(Letters), NEW p \in Seq(Letters), NEW n \in 0 .. MaxDistance
    PROVE  p \in Near(a, n) <=> Levenshtein(a, p) <= n
<1>0. Levenshtein(a, p) \in Nat /\ Levenshtein(p, p) = 0 /\ n \in {0, 1, 2}
    BY LevType, NoEdit DEF MaxDistance
<1>1. ASSUME NEW c \in Seq(Letters)
      PROVE  c \in Wider({a}) <=> c = a \/ c \in Edits(a)
    BY DEF Wider
<1>2. ASSUME NEW c \in Seq(Letters)
      PROVE  c \in Wider({a}) <=> Levenshtein(a, c) <= 1
  <2>1. ASSUME c \in Edits(a) PROVE Levenshtein(a, c) <= 1
    <3>1. Close(a, c) /\ Levenshtein(c, c) = 0
        BY <2>1, EditsClose, NoEdit
    <3> QED BY <3>1 DEF Close
  <2>2. ASSUME c = a PROVE Levenshtein(a, c) <= 1
      BY <2>2, NoEdit
  <2>3. ASSUME Levenshtein(a, c) <= 1 PROVE c = a \/ c \in Edits(a)
    <3>1. Levenshtein(a, c) \in Nat /\ Nearer(a, c)
        BY LevType, NearerThan
    <3>2. CASE Levenshtein(a, c) = 0
        BY <3>1, <3>2 DEF Nearer
    <3>3. CASE Levenshtein(a, c) # 0
      <4>1. PICK d \in Edits(a) : Levenshtein(d, c) <= Levenshtein(a, c) - 1
          BY <3>1, <3>3 DEF Nearer
      <4>2. d \in Seq(Letters)
          BY EditsType
      <4>3. Levenshtein(d, c) \in Nat /\ Nearer(d, c)
          BY <4>2, LevType, NearerThan
      <4>4. Levenshtein(d, c) = 0
          BY <2>3, <3>1, <4>1, <4>3
      <4> QED BY <4>3, <4>4 DEF Nearer
    <3> QED BY <3>2, <3>3
  <2> QED BY <1>1, <2>1, <2>2, <2>3
<1>3. CASE n = 0
  <2>1. p \in Near(a, n) <=> p = a
      BY <1>3 DEF Near
  <2>2. Nearer(a, p)
      BY NearerThan
  <2> QED BY <1>0, <1>3, <2>1, <2>2 DEF Nearer
<1>4. CASE n = 1
  <2>1. Near(a, n) = Wider({a})
      BY <1>4 DEF Near
  <2> QED BY <1>2, <1>4, <2>1
<1>5. CASE n = 2
  <2>1. Near(a, n) = Wider(Wider({a}))
      BY <1>5 DEF Near
  <2>2. p \in Wider(Wider({a})) <=> \E c \in Wider({a}) : p = c \/ p \in Edits(c)
      BY DEF Wider
  <2>3. ASSUME NEW c \in Wider({a}) PROVE c \in Seq(Letters)
      BY EditsType DEF Wider
  <2>4. ASSUME NEW c \in Wider({a}), p = c \/ p \in Edits(c) PROVE Levenshtein(a, p) <= 2
    <3>1. CASE p = c
      <4>1. Levenshtein(a, p) <= 1
          BY <1>2, <3>1
      <4> QED BY <1>0, <4>1
    <3>2. CASE p \in Edits(c)
      <4>1. CASE c = a
        <5>1. Close(a, p)
            BY <3>2, <4>1, EditsClose
        <5> QED BY <1>0, <5>1 DEF Close
      <4>2. CASE c # a
        <5>1. c \in Seq(Letters) /\ c \in Edits(a)
            BY <1>1, <2>3, <4>2
        <5>2. Close(a, c) /\ Close(c, p)
            BY <3>2, <5>1, EditsClose
        <5>3. Levenshtein(a, p) <= Levenshtein(c, p) + 1 /\ Levenshtein(c, p) <= Levenshtein(p, p) + 1
            BY <5>2 DEF Close
        <5>4. Levenshtein(c, p) \in Nat
            BY <5>1, LevType
        <5> QED BY <1>0, <5>3, <5>4
      <4> QED BY <4>1, <4>2
    <3> QED BY <2>4, <3>1, <3>2
  <2>5. ASSUME Levenshtein(a, p) <= 2 PROVE \E c \in Wider({a}) : p = c \/ p \in Edits(c)
    <3>1. CASE Levenshtein(a, p) <= 1
        BY <1>2, <3>1
    <3>2. CASE ~ Levenshtein(a, p) <= 1
      <4>1. Nearer(a, p) /\ Levenshtein(a, p) = 2
          BY <1>0, <2>5, <3>2, NearerThan
      <4>2. PICK d \in Edits(a) : Levenshtein(d, p) <= 1
        <5>1. PICK d \in Edits(a) : Levenshtein(d, p) <= 2 - 1
            BY <4>1 DEF Nearer
        <5> QED BY <5>1
      <4>3. d \in Seq(Letters)
          BY EditsType
      <4>4. d \in Wider({a})
          BY <1>1, <4>3
      <4>5. Nearer(d, p) /\ Levenshtein(d, p) \in Nat
          BY <4>3, NearerThan, LevType
      <4>6. CASE Levenshtein(d, p) = 0
          BY <4>4, <4>5, <4>6 DEF Nearer
      <4>7. CASE Levenshtein(d, p) = 1
        <5>1. PICK e \in Edits(d) : Levenshtein(e, p) <= 1 - 1
            BY <4>5, <4>7 DEF Nearer
        <5>2. e \in Seq(Letters)
            BY <4>3, EditsType
        <5>3. Nearer(e, p) /\ Levenshtein(e, p) = 0
          <6>1. Levenshtein(e, p) \in Nat
              BY <5>2, LevType
          <6> QED BY <5>1, <5>2, <6>1, NearerThan
        <5> QED BY <4>4, <5>3 DEF Nearer
      <4>8. Levenshtein(d, p) = 0 \/ Levenshtein(d, p) = 1
          BY <4>2, <4>5
      <4> QED BY <4>6, <4>7, <4>8
    <3> QED BY <3>1, <3>2
  <2> HIDE DEF Near
  <2> QED BY <1>5, <2>1, <2>2, <2>4, <2>5
<1> QED BY <1>0, <1>3, <1>4, <1>5

(* One step of the scan. *)
Better(name, best, p) ==
    IF Alike(name, p)
    THEN IF \E q \in best : Levenshtein(name, q) <= Levenshtein(name, p) THEN best ELSE {p}
    ELSE best

IsScan(name, f) ==
    f = [i \in 0 .. Len(Popular) |-> IF i = 0 THEN {} ELSE Better(name, f[i - 1], Popular[i])]

ScanOf(name) == CHOOSE f : IsScan(name, f)

LEMMA NearestUnfold ==
    ASSUME NEW name
    PROVE  NearestPopular(name) = IF Contains(Popular, name) THEN {} ELSE ScanOf(name)[Len(Popular)]
BY Zenon DEF NearestPopular, ScanOf, IsScan, Better

LEMMA ScanExists ==
    ASSUME NEW name
    PROVE  IsScan(name, ScanOf(name))
<1> DEFINE X == {Popular[j] : j \in Nat}
           S == SUBSET X
           step == [i \in Nat |-> [best \in S |-> Better(name, best, Popular[i + 1])]]
           n == Len(Popular)
<1>0. n \in Nat
    BY TyposquatAssumption
<1>1. ASSUME NEW i \in Nat, NEW best \in S PROVE Better(name, best, Popular[i + 1]) \in S
  <2>1. Popular[i + 1] \in X
    <3>1. i + 1 \in Nat
        OBVIOUS
    <3> QED BY <3>1
  <2> HIDE DEF X
  <2> QED BY <2>1 DEF Better
<1>2. step \in [Nat -> [S -> S]] /\ {} \in S
    BY <1>1
<1>3. \A i \in Nat, best \in S : step[i][best] = Better(name, best, Popular[i + 1])
    OBVIOUS
<1> HIDE DEF step, S, n
<1>4. PICK f : Steps(S, {}, step, n, f)
    BY <1>0, <1>2, StepsExist
<1>5. ASSUME NEW i \in 0 .. n, i # 0 PROVE f[i] = Better(name, f[i - 1], Popular[i])
  <2>1. i - 1 \in 0 .. n - 1 /\ i - 1 \in Nat /\ i - 1 + 1 = i /\ i - 1 \in 0 .. n
      BY <1>0, <1>5
  <2>2. f[i] = step[i - 1][f[i - 1]] /\ f[i - 1] \in S
      BY <1>4, <2>1 DEF Steps
  <2> QED BY <1>3, <2>1, <2>2
<1>6. f = [i \in 0 .. n |-> f[i]] /\ f[0] = {}
    BY <1>4 DEF Steps
<1>7. IsScan(name, f)
    BY <1>5, <1>6 DEF IsScan, n
<1> QED BY <1>7 DEF ScanOf

(* What the scan has after i names: the first of the nearest. *)
Likes(name, i) == {j \in 1 .. i : Alike(name, Popular[j])}

First(name, i, k) ==
    \A j \in Likes(name, i) :
        \/ Levenshtein(name, Popular[k]) < Levenshtein(name, Popular[j])
        \/ Levenshtein(name, Popular[k]) = Levenshtein(name, Popular[j]) /\ k <= j

Best(name, i, best) ==
    \/ Likes(name, i) = {} /\ best = {}
    \/ \E k \in Likes(name, i) : best = {Popular[k]} /\ First(name, i, k)

LEMMA ScanBest ==
    ASSUME NEW name \in Seq(Letters)
    PROVE  Best(name, Len(Popular), ScanOf(name)[Len(Popular)])
<1> DEFINE n == Len(Popular)
           f == ScanOf(name)
           dist(j) == Levenshtein(name, Popular[j])
           T == {i \in Nat : i <= n => Best(name, i, f[i])}
<1>0. n \in Nat /\ \A j \in 1 .. n : Popular[j] \in Seq(Letters)
    BY TyposquatAssumption
<1>1. IsScan(name, f)
    BY ScanExists
<1> HIDE DEF f, n
<1>2. /\ f[0] = {}
      /\ \A i \in 0 .. n : i # 0 => f[i] = Better(name, f[i - 1], Popular[i])
  <2>1. f = [i \in 0 .. n |-> IF i = 0 THEN {} ELSE Better(name, f[i - 1], Popular[i])]
      BY <1>1 DEF IsScan, n
  <2>2. 0 \in 0 .. n
      BY <1>0
  <2> QED BY <2>1, <2>2
<1>3. \A j \in 1 .. n : dist(j) \in Nat
    BY <1>0, LevType
<1>4. 0 \in T
    BY <1>2 DEF Best, Likes
<1>5. ASSUME NEW i \in T PROVE i + 1 \in T
  <2> SUFFICES ASSUME i + 1 <= n PROVE Best(name, i + 1, f[i + 1])
      OBVIOUS
  <2>1. i \in Nat /\ i + 1 \in 0 .. n /\ i + 1 # 0 /\ i + 1 - 1 = i /\ i + 1 \in 1 .. n /\ i + 1 \in 1 .. i + 1
      BY <1>0
  <2>2. f[i + 1] = Better(name, f[i], Popular[i + 1])
      BY <1>2, <2>1
  <2>3. Best(name, i, f[i])
    <3>1. i <= n
        BY <1>0
    <3> QED BY <3>1
  <2> HIDE DEF T
  <2>4. \A j : j \in Likes(name, i) => j \in 1 .. n /\ j <= i /\ j \in Nat
      BY <1>0, <2>1 DEF Likes
  <2>5. CASE ~ Alike(name, Popular[i + 1])
    <3>1. Likes(name, i + 1) = Likes(name, i)
        BY <2>1, <2>5 DEF Likes
    <3>2. f[i + 1] = f[i]
        BY <2>2, <2>5 DEF Better
    <3> QED BY <2>3, <3>1, <3>2 DEF Best, First
  <2>6. CASE Alike(name, Popular[i + 1])
    <3>1. Likes(name, i + 1) = Likes(name, i) \cup {i + 1}
        BY <2>1, <2>6 DEF Likes
    <3>2. CASE Likes(name, i) = {} /\ f[i] = {}
      <4>1. f[i + 1] = {Popular[i + 1]}
          BY <2>2, <2>6, <3>2 DEF Better
      <4>2. Likes(name, i + 1) = {i + 1}
          BY <3>1, <3>2
      <4>3. First(name, i + 1, i + 1)
          BY <2>1, <4>2 DEF First
      <4> QED BY <4>1, <4>2, <4>3 DEF Best
    <3>3. ASSUME NEW k \in Likes(name, i), f[i] = {Popular[k]}, First(name, i, k)
          PROVE  Best(name, i + 1, f[i + 1])
      <4>0. k \in 1 .. n /\ k <= i /\ dist(k) \in Nat /\ dist(i + 1) \in Nat
          BY <1>3, <2>1, <2>4
      <4>1. CASE dist(k) <= dist(i + 1)
        <5>1. f[i + 1] = {Popular[k]}
            BY <2>2, <2>6, <3>3, <4>1 DEF Better
        <5>2. dist(k) < dist(i + 1) \/ (dist(k) = dist(i + 1) /\ k <= i + 1)
            BY <2>1, <4>0, <4>1
        <5>3. First(name, i + 1, k)
            BY <3>1, <3>3, <5>2 DEF First
        <5> QED BY <3>1, <5>1, <5>3 DEF Best
      <4>2. CASE ~ dist(k) <= dist(i + 1)
        <5>1. f[i + 1] = {Popular[i + 1]}
            BY <2>2, <2>6, <3>3, <4>2 DEF Better
        <5>2. ASSUME NEW j \in Likes(name, i) PROVE dist(i + 1) < dist(j)
          <6>1. dist(j) \in Nat
              BY <1>3, <2>4
          <6>2. dist(k) < dist(j) \/ dist(k) = dist(j)
              BY <3>3 DEF First
          <6> QED BY <4>0, <4>2, <6>1, <6>2
        <5>3. First(name, i + 1, i + 1)
            BY <2>1, <3>1, <5>2 DEF First
        <5> QED BY <3>1, <5>1, <5>3 DEF Best
      <4> QED BY <4>1, <4>2
    <3> QED BY <2>3, <3>2, <3>3 DEF Best
  <2> QED BY <2>5, <2>6
<1> HIDE DEF T
<1>6. Nat \subseteq T
    BY <1>4, <1>5, Induct
<1>7. Best(name, n, f[n])
    BY <1>0, <1>6 DEF T
<1> QED BY <1>7 DEF n, f

(* The popular names that are within n edits, and long enough. *)
Long(name, n) == {i \in DOMAIN Popular : Popular[i] \in Near(name, n) /\ Len(Popular[i]) >= MinLength}

Reach(name) == {n \in 0 .. MaxDistance : Long(name, n) # {}}

LEMMA SquatsSeenFor ==
    ASSUME NEW name \in Seq(Letters)
    PROVE  SquatSeen(name)
<1> DEFINE n == Len(Popular)
           best == ScanOf(name)[n]
           dist(j) == Levenshtein(name, Popular[j])
<1>0. n \in Nat /\ DOMAIN Popular = 1 .. n /\ \A j \in 1 .. n : Popular[j] \in Seq(Letters)
    BY TyposquatAssumption
<1>1. Best(name, n, best)
    BY ScanBest
<1>2. NearestPopular(name) = IF Contains(Popular, name) THEN {} ELSE best
    BY NearestUnfold
<1>3. SquatSeen(name) <=>
          NearestPopular(name) =
            IF Contains(Popular, name) \/ Reach(name) = {} THEN {}
            ELSE {Popular[Min(Long(name, Min(Reach(name))))]}
    BY DEF SquatSeen, Long, Reach
<1> HIDE DEF n, best
<1>4. CASE Contains(Popular, name)
    BY <1>2, <1>3, <1>4
<1>5. CASE ~ Contains(Popular, name)
  <2>1. ASSUME NEW j \in 1 .. n PROVE dist(j) \in Nat /\ dist(j) # 0
    <3>1. Nearer(name, Popular[j]) /\ dist(j) \in Nat
        BY <1>0, NearerThan, LevType
    <3>2. name # Popular[j]
        BY <1>0, <1>5 DEF Contains, n
    <3> QED BY <3>1, <3>2 DEF Nearer
  <2>2. ASSUME NEW j \in 1 .. n, NEW d \in 0 .. MaxDistance
        PROVE  j \in Long(name, d) <=> dist(j) <= d /\ Len(Popular[j]) >= MinLength
      BY <1>0, NearIs DEF Long
  <2>3. ASSUME NEW j \in 1 .. n
        PROVE  j \in Likes(name, n) <=> dist(j) <= MaxDistance /\ Len(Popular[j]) >= MinLength
    <3>1. dist(j) \in Nat /\ dist(j) # 0
        BY <2>1
    <3>2. dist(j) \in 1 .. MaxDistance <=> dist(j) <= MaxDistance
        BY <3>1 DEF MaxDistance
    <3> QED BY <3>2 DEF Likes, Alike
  <2>4. (\A d : Long(name, d) \subseteq 1 .. n) /\ Likes(name, n) \subseteq 1 .. n
      BY <1>0 DEF Long, Likes
  <2>5. CASE Likes(name, n) = {} /\ best = {}
    <3>1. ASSUME NEW d \in 0 .. MaxDistance, NEW j \in Long(name, d) PROVE FALSE
      <4>1. j \in 1 .. n
          BY <2>4
      <4>2. dist(j) <= d /\ Len(Popular[j]) >= MinLength /\ dist(j) \in Nat
          BY <2>1, <2>2, <4>1
      <4>3. dist(j) <= MaxDistance
          BY <4>2 DEF MaxDistance
      <4> QED BY <2>3, <2>5, <4>1, <4>2, <4>3
    <3>2. Reach(name) = {}
        BY <3>1 DEF Reach
    <3> QED BY <1>2, <1>3, <1>5, <2>5, <3>2
  <2>6. ASSUME NEW k \in Likes(name, n), best = {Popular[k]}, First(name, n, k)
        PROVE  SquatSeen(name)
    <3> DEFINE d == dist(k)
    <3>1. k \in 1 .. n /\ d \in Nat /\ d <= MaxDistance /\ Len(Popular[k]) >= MinLength
        BY <2>1, <2>3, <2>4
    <3>2. d \in 0 .. MaxDistance
        BY <3>1 DEF MaxDistance
    <3>3. k \in Long(name, d)
        BY <2>2, <3>1, <3>2
    <3>4. d \in Reach(name)
        BY <3>2, <3>3 DEF Reach
    <3>5. ASSUME NEW e \in 0 .. MaxDistance, NEW j \in Long(name, e)
          PROVE  d <= e /\ (e = d => k <= j)
      <4>1. j \in 1 .. n
          BY <2>4
      <4>2. dist(j) <= e /\ Len(Popular[j]) >= MinLength /\ dist(j) \in Nat
          BY <2>1, <2>2, <4>1
      <4>3. dist(j) <= MaxDistance
          BY <4>2 DEF MaxDistance
      <4>4. j \in Likes(name, n)
          BY <2>3, <4>1, <4>2, <4>3
      <4>5. d < dist(j) \/ (d = dist(j) /\ k <= j)
          BY <2>6, <4>4 DEF First
      <4>6. e \in Nat
          BY DEF MaxDistance
      <4> HIDE DEF dist
      <4> QED BY <3>1, <4>2, <4>5, <4>6
    <3> HIDE DEF d
    <3>6. Min(Reach(name)) = d
      <4>1. Reach(name) \in SUBSET Nat /\ Reach(name) # {}
          BY <3>4 DEF Reach, MaxDistance
      <4>2. Min(Reach(name)) \in Reach(name) /\ Min(Reach(name)) <= d
          BY <3>4, <4>1, MinIs
      <4>3. d <= Min(Reach(name))
          BY <3>5, <4>2 DEF Reach
      <4>4. Min(Reach(name)) \in Nat
          BY <4>1, <4>2
      <4> QED BY <3>1, <4>2, <4>3, <4>4
    <3>7. Min(Long(name, d)) = k
      <4>1. Long(name, d) \in SUBSET Nat /\ Long(name, d) # {}
          BY <1>0, <2>4, <3>3
      <4>2. Min(Long(name, d)) \in Long(name, d) /\ Min(Long(name, d)) <= k
          BY <3>3, <4>1, MinIs
      <4>3. k <= Min(Long(name, d))
          BY <3>2, <3>5, <4>2
      <4>4. Min(Long(name, d)) \in Nat
          BY <4>1, <4>2
      <4> QED BY <3>1, <4>2, <4>3, <4>4
    <3> QED BY <1>2, <1>3, <1>5, <2>6, <3>4, <3>6, <3>7
  <2> QED BY <1>1, <2>5, <2>6 DEF Best
<1> QED BY <1>4, <1>5

-----------------------------------------------------------------------------
(* The lock is dated with the day it is written and a version has the age that it
   has by the Gregorian calendar, on every day (lockfile.rs, civil_from_days, and
   reputation.rs, days_from_civil). *)
THEOREM DatesAgreeSafe == Spec => []DatesAgree
<1>1. DatesAgree
    BY DatesRight DEF DatesAgree
<1> QED BY <1>1, PTL

(* A direct dependency is taken for the popular name that is nearest in edits, or
   for none, whatever the names and the list (typosquat.rs, nearest_popular). *)
THEOREM SquatsSeenSafe == Spec => []SquatsSeen
<1>1. ASSUME NEW name \in Names PROVE SquatSeen(name)
    BY TyposquatAssumption, SquatsSeenFor
<1>2. SquatsSeen
    BY <1>1 DEF SquatsSeen
<1> QED BY <1>2, PTL
=============================================================================
