---------------------------- MODULE AuditSystem ----------------------------
(***************************************************************************)
(* The audit of an install: the processes over one cache of verdicts (module *)
(* Audit), what the OSV client makes of answers (Osv), and what the lock     *)
(* keeps for the next audit (Lockfile).                                      *)
(***************************************************************************)
EXTENDS Audit, Osv, Lockfile

(* An algorithm does not depend on the state: it is examined once. *)
AtStart == runs = 0 /\ severity = [p \in Pkgs |-> "clean"]

(* The fix recommended for any version, whatever the advisory (osv.rs,
   recommended_fix). *)
FixHeals ==
    AtStart => \A ranges \in Advisories, current \in Versions : FixIsNearest(ranges, current)

(* The upgrade that the gate's message names (mod.rs, audit_package). *)
HintClears ==
    AtStart => \A advisories \in Blocking, current \in Versions :
        HintIsLowest(advisories, current)

(* Replies that are missing, short or longer than was asked for never move what
   OSV says of one package to another (osv.rs, query_batch). *)
BatchAligned == AtStart => \A batch \in Batches : AnswersAligned(batch)

(* An install from vault.lock audits and verifies as the one that wrote it did. *)
LockKeeps == AtStart => \A meta \in Metas : LockKeepsVerdict(meta)
=============================================================================
