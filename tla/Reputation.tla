----------------------------- MODULE Reputation -----------------------------
(***************************************************************************)
(* What is said of a package's reputation (crates/core/src/audit/           *)
(* reputation.rs, typosquat.rs): the record of its maintainers, over which  *)
(* processes interleave, its age, and the popular name it may be taken for. *)
(***************************************************************************)
EXTENDS Maintainers, CivilDates, Typosquat

(* An algorithm does not depend on the state: it is examined once. *)
AtStart == runs = 0 /\ maintainers = {}

(* The lock is dated with the day it is written, by the calendar, and a package
   has the age in days that it has by the calendar. *)
DatesAgree == AtStart => \A n \in Days : DatedRight(n) /\ AgedRight(n)

(* Whatever a direct dependency is called, it is taken for the popular name that
   is nearest in edits, or for none. *)
SquatsSeen == AtStart => \A name \in Names : SquatSeen(name)
=============================================================================
