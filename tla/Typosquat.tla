----------------------------- MODULE Typosquat -----------------------------
(***************************************************************************)
(* The look-alike check on package names (crates/core/src/audit/            *)
(* typosquat.rs).  Names are sequences of letters, in lower case already.   *)
(***************************************************************************)
EXTENDS Integers, SequencesExt

CONSTANTS
    Letters, \* what names are made of
    Popular, \* the list of popular names
    Names    \* the names that direct dependencies have

ASSUME TyposquatAssumption ==
    Names \subseteq Seq(Letters) /\ Popular \in Seq(Seq(Letters))

MaxDistance == 2

MinLength == 4

(* levenshtein: the rows of the table, one letter of a at a time. *)
Levenshtein(a, b) ==
    LET row[i \in 0 .. Len(a)] ==
            LET cur[j \in 0 .. Len(b)] ==
                    IF i = 0 THEN j ELSE IF j = 0 THEN i
                    ELSE Min({row[i - 1][j] + 1, cur[j - 1] + 1,
                              row[i - 1][j - 1] + (IF a[i] = b[j] THEN 0 ELSE 1)})
            IN  cur
    IN  row[Len(a)][Len(b)]

Alike(name, popular) ==
    Levenshtein(name, popular) \in 1 .. MaxDistance /\ Len(popular) >= MinLength

(* Mutant: the first name within reach is taken. *)
FirstPopular(name) ==
    LET alike == SelectSeq(Popular, LAMBDA p : Alike(name, p))
    IN  IF Contains(Popular, name) \/ alike = <<>> THEN {} ELSE {Head(alike)}

(* nearest_popular: a scan that keeps the best so far, the earlier of two that
   are equally near; {} when there is none or the name itself is popular. *)
NearestPopular(name) ==
    LET nearer(best, p) ==
            IF \E q \in best : Levenshtein(name, q) <= Levenshtein(name, p) THEN best ELSE {p}
        scan[i \in 0 .. Len(Popular)] ==
            IF i = 0 THEN {}
            ELSE IF Alike(name, Popular[i]) THEN nearer(scan[i - 1], Popular[i])
            ELSE scan[i - 1]
    IN  IF Contains(Popular, name) THEN {} ELSE scan[Len(Popular)]

-----------------------------------------------------------------------------
(* The names one edit away: a letter dropped, put in or replaced. *)
Edits(name) ==
    {RemoveAt(name, i) : i \in DOMAIN name}
    \cup {InsertAt(name, i, c) : i \in 1 .. Len(name) + 1, c \in Letters}
    \cup {ReplaceAt(name, i, c) : i \in DOMAIN name, c \in Letters}

(* The names up to one edit away from these ... *)
Wider(S) == S \cup UNION {Edits(s) : s \in S}

(* ... and those within reach of up to MaxDistance edits. *)
Near(name, n) ==
    CASE n = 0 -> {name}
      [] n = 1 -> Wider({name})
      [] n = 2 -> Wider(Wider({name}))

(* The popular name that a name is taken for is as near as any, and the first
   of those; a name is taken for none only if it is popular itself, or none of
   a sufficient length is within MaxDistance edits. *)
SquatSeen(name) ==
    LET long(n) == {i \in DOMAIN Popular : Popular[i] \in Near(name, n) /\ Len(Popular[i]) >= MinLength}
        reach == {n \in 0 .. MaxDistance : long(n) # {}}
    IN  NearestPopular(name) =
            IF Contains(Popular, name) \/ reach = {} THEN {}
            ELSE {Popular[Min(long(Min(reach)))]}
=============================================================================
