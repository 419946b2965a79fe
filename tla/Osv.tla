-------------------------------- MODULE Osv --------------------------------
(***************************************************************************)
(* What the OSV client makes of answers (crates/core/src/audit/osv.rs): the *)
(* batches of query_batch, and the fix that is recommended for an advisory  *)
(* and in the gate's message (audit/mod.rs).                                *)
(*                                                                          *)
(* Versions are numbers, 0 standing for 0.0.0.  A range is OSV's list of    *)
(* events; the ranges of an advisory are a set, whatever `affected` entry   *)
(* they come from, as the code looks at no other part of it.                *)
(***************************************************************************)
EXTENDS Integers, SequencesExt

CONSTANTS
    Versions,    \* the versions of a package
    Ids,         \* the ids of advisories
    Batches,     \* batches of packages and what OSV replies
    Advisories,  \* advisories, each the set of its ranges
    Blocking     \* sets of advisories that an audit blocks for

(* A range's events: versions introduced and fixed by turns, in ascending order,
   the last line perhaps left open.  The code walks them in the order they come. *)
Sorted(range) ==
    /\ range \in Seq([kind : {"introduced", "fixed"}, at : Versions])
    /\ \A i \in DOMAIN range : range[i].kind = "introduced" <=> i % 2 = 1
    /\ \A i, j \in DOMAIN range : i < j => range[i].at < range[j].at

(* A reply, long or short, has for its packages what is true of them. *)
Honest(batch) ==
    /\ batch.truth \in Seq(SUBSET Ids)
    /\ batch.size \in Nat \ {0}
    /\ batch.replies \in Seq(Seq(SUBSET Ids))
    /\ Len(batch.replies) = (Len(batch.truth) + batch.size - 1) \div batch.size
    /\ \A c \in DOMAIN batch.replies : \A i \in DOMAIN batch.replies[c] :
          LET n == (c - 1) * batch.size + i
          IN  i <= batch.size /\ n <= Len(batch.truth) => batch.replies[c][i] = batch.truth[n]

ASSUME OsvAssumption ==
    /\ Versions \subseteq Nat /\ IsFiniteSet(Versions)
    /\ \A batch \in Batches : Honest(batch)
    /\ \A ranges \in Advisories : \A range \in ranges : Sorted(range)
    /\ Blocking \subseteq SUBSET Advisories

(* Mutant: a chunk whose request fails has no answers. *)
ChunkAnswersOrNone(size, reply) ==
    IF reply = <<>> THEN <<>>
    ELSE [i \in 1 .. size |-> IF i <= Len(reply) THEN reply[i] ELSE {}]

(* query_batch_chunk: the ids for each package of a chunk; none for those a
   reply that is short leaves out, nor for any when the request fails. *)
ChunkAnswers(size, reply) ==
    [i \in 1 .. size |-> IF i <= Len(reply) THEN reply[i] ELSE {}]

(* query_batch: n packages in chunks of a size, and the reply to each chunk. *)
QueryBatch(n, size, replies) ==
    FlattenSeq([c \in 1 .. Len(replies) |->
        ChunkAnswers(IF c * size <= n THEN size ELSE n - (c - 1) * size, replies[c])])

Introduced(v) == [kind |-> "introduced", at |-> v]

Fixed(v) == [kind |-> "fixed", at |-> v]

(* The line of release that the event at j belongs to begins here. *)
LineOf(range, j) ==
    LET begun == {i \in 1 .. j : range[i].kind = "introduced"}
    IN  IF begun = {} THEN 0 ELSE range[Max(begun)].at

(* Mutant: any later fix will do. *)
AnyFix(ranges, current) ==
    LET fixes == UNION {{range[j].at : j \in {i \in DOMAIN range :
                            range[i].kind = "fixed" /\ current < range[i].at}} : range \in ranges}
    IN  IF fixes = {} THEN {} ELSE {Min(fixes)}

(* recommended_fix: the lowest fix of a line that began by the current version. *)
RecommendedFix(ranges, current) ==
    LET fixes(range) ==
            {range[j].at : j \in {i \in DOMAIN range :
                /\ range[i].kind = "fixed" /\ current < range[i].at
                /\ LineOf(range, i) <= current}}
        all == UNION {fixes(range) : range \in ranges}
    IN  IF all = {} THEN {} ELSE {Min(all)}

(* Mutant: the lowest of the fixes. *)
FixHintLowest(advisories, current) ==
    LET all == UNION {RecommendedFix(ranges, current) : ranges \in advisories}
    IN  IF all = {} THEN {} ELSE {Min(all)}

(* audit_package's hint: the highest of the fixes of the advisories it blocks for. *)
FixHint(advisories, current) ==
    LET all == UNION {RecommendedFix(ranges, current) : ranges \in advisories}
    IN  IF all = {} THEN {} ELSE {Max(all)}

-----------------------------------------------------------------------------
(* What a range means in OSV's schema, in whatever order its events come. *)
Affects(range, v) ==
    \E i \in DOMAIN range :
        /\ range[i].kind = "introduced" /\ range[i].at <= v
        /\ \A j \in DOMAIN range :
              range[j].kind = "fixed" => ~ (range[i].at < range[j].at /\ range[j].at <= v)

AffectedBy(ranges, v) == \E range \in ranges : Affects(range, v)

(* No line of an advisory ends inside another of its lines. *)
Separate(ranges) ==
    \A range \in ranges : \A j \in DOMAIN range :
        range[j].kind = "fixed" => ~ AffectedBy(ranges, range[j].at)

(* "The minimal upgrade that resolves the advisory" (osv.rs): for an advisory with
   separate lines, the fix recommended for a version it affects is the next
   version that it does not affect. *)
FixIsNearest(ranges, current) ==
    LET free == {v \in Versions : v > current /\ ~ AffectedBy(ranges, v)}
    IN  Separate(ranges) =>
            RecommendedFix(ranges, current) =
                IF ~ AffectedBy(ranges, current) \/ free = {} THEN {} ELSE {Min(free)}

(* An advisory of one line, that has an end. *)
OneLine(ranges) == \A range \in ranges : ranges = {range} /\ Len(range) = 2

(* "The lowest upgrade that clears the critical/high advisories" (mod.rs): the
   upgrade clears those of one line, and a lower one does not clear them all. *)
HintIsLowest(advisories, current) ==
    \A hint \in FixHint(advisories, current) :
        /\ \A ranges \in advisories :
              OneLine(ranges) /\ AffectedBy(ranges, current) => ~ AffectedBy(ranges, hint)
        /\ (\A ranges \in advisories : Separate(ranges)) =>
              \A v \in Versions : current < v /\ v < hint =>
                  \E ranges \in advisories : AffectedBy(ranges, current) /\ AffectedBy(ranges, v)

(* Each package gets what OSV says of it or, for want of an answer, nothing:
   never what it says of another. *)
AnswersAligned(batch) ==
    LET answers == QueryBatch(Len(batch.truth), batch.size, batch.replies) IN
    /\ Len(answers) = Len(batch.truth)
    /\ \A i \in DOMAIN batch.truth :
          LET reply == batch.replies[(i - 1) \div batch.size + 1]
              place == ((i - 1) % batch.size) + 1
          IN  answers[i] = IF place <= Len(reply) THEN batch.truth[i] ELSE {}
=============================================================================
