---------------------------- MODULE Maintainers ----------------------------
(***************************************************************************)
(* The maintainer record of one package: check_maintainers                  *)
(* (crates/core/src/audit/reputation.rs), which reputation_all and install  *)
(* (lib.rs) run for each direct dependency, read_meta and write_meta of     *)
(* store.rs.  Processes install at once over one store.                     *)
(*                                                                          *)
(* A record that is absent and one that does not parse read alike, as None: *)
(* record is a set of at most one set of names.                             *)
(***************************************************************************)
EXTENDS Integers

CONSTANTS
    Procs,   \* vault processes that install
    People,  \* maintainers
    MaxRuns  \* bound: how many installs are started in all

ASSUME MaintainersAssumption == MaxRuns \in Nat

VARIABLES
    maintainers, \* those the registry lists
    record,      \* those of the install before
    pc,          \* where each process is
    seen,        \* the packument's maintainers, as each process fetched them
    warning,     \* the names it will warn of
    told,        \* history: names a user has been warned of
    untold,      \* history: names recorded without, for want of anything to
                 \* compare with or because the install did not succeed
    runs         \* how many installs were started

vars == <<maintainers, record, pc, seen, warning, told, untold, runs>>

TypeOK ==
    /\ maintainers \subseteq People
    /\ record \subseteq SUBSET People
    /\ pc \in [Procs -> {"idle", "compare", "write", "fill", "warned"}]
    /\ seen \in [Procs -> SUBSET People]
    /\ warning \in [Procs -> SUBSET People]
    /\ told \subseteq People
    /\ untold \subseteq People
    /\ runs \in 0 .. MaxRuns

Init ==
    /\ maintainers \in SUBSET People
    /\ record = {}
    /\ pc = [k \in Procs |-> "idle"]
    /\ seen = [k \in Procs |-> {}]
    /\ warning = [k \in Procs |-> {}]
    /\ told = {}
    /\ untold = {}
    /\ runs = 0

-----------------------------------------------------------------------------
(* The package changes hands. *)
Change ==
    /\ maintainers' \in SUBSET People
    /\ UNCHANGED <<record, pc, seen, warning, told, untold, runs>>

(* An install resolves: it holds on to the packument it gets. *)
Resolve(k) ==
    /\ pc[k] = "idle"
    /\ runs < MaxRuns
    /\ runs' = runs + 1
    /\ seen' = [seen EXCEPT ![k] = maintainers]
    /\ pc' = [pc EXCEPT ![k] = "compare"]
    /\ UNCHANGED <<maintainers, record, warning, told, untold>>

(* What there is to compare with: not a record without names. *)
Known == record \ {{}}

(* Mutant: only a set that lost nobody is compared. *)
CompareGrown(k) ==
    /\ pc[k] = "compare"
    /\ warning' = [warning EXCEPT ![k] =
           UNION {IF names \subseteq seen[k] THEN seen[k] \ names ELSE {} : names \in Known}]
    /\ untold' = IF Known = {} THEN untold \cup seen[k] ELSE untold
    /\ pc' = [pc EXCEPT ![k] = "write"]
    /\ UNCHANGED <<maintainers, record, seen, told, runs>>

(* The record is read and the names that are new to it are noted. *)
Compare(k) ==
    /\ pc[k] = "compare"
    /\ warning' = [warning EXCEPT ![k] = UNION {seen[k] \ names : names \in Known}]
    /\ untold' = IF Known = {} THEN untold \cup seen[k] ELSE untold
    /\ pc' = [pc EXCEPT ![k] = "write"]
    /\ UNCHANGED <<maintainers, record, seen, told, runs>>

(* fs::write empties the file ... *)
Truncate(k) ==
    /\ pc[k] = "write"
    /\ record' = {}
    /\ pc' = [pc EXCEPT ![k] = "fill"]
    /\ UNCHANGED <<maintainers, seen, warning, told, untold, runs>>

(* ... and fills it. *)
Fill(k) ==
    /\ pc[k] = "fill"
    /\ record' = {seen[k]}
    /\ pc' = [pc EXCEPT ![k] = "warned"]
    /\ UNCHANGED <<maintainers, seen, warning, told, untold, runs>>

(* A write that fails is ignored. *)
WriteFails(k) ==
    /\ pc[k] \in {"write", "fill"}
    /\ pc' = [pc EXCEPT ![k] = "warned"]
    /\ UNCHANGED <<maintainers, record, seen, warning, told, untold, runs>>

(* install returns its summary, and the warnings in it are printed. *)
Succeed(k) ==
    /\ pc[k] = "warned"
    /\ told' = told \cup warning[k]
    /\ pc' = [pc EXCEPT ![k] = "idle"]
    /\ UNCHANGED <<maintainers, record, seen, warning, untold, runs>>

(* The install is blocked, or fails, or is killed, and the summary is lost. *)
Stop(k) ==
    /\ pc[k] # "idle"
    /\ untold' = IF pc[k] = "warned" THEN untold \cup warning[k] ELSE untold
    /\ pc' = [pc EXCEPT ![k] = "idle"]
    /\ UNCHANGED <<maintainers, record, seen, warning, told, runs>>

Next ==
    \/ Change
    \/ \E k \in Procs :
          \/ Resolve(k) \/ Compare(k) \/ Truncate(k) \/ Fill(k) \/ WriteFails(k)
          \/ Succeed(k) \/ Stop(k)

Spec == Init /\ [][Next]_vars

-----------------------------------------------------------------------------
(* The names of warnings that are still on their way to a user. *)
Underway == UNION {warning[k] : k \in {j \in Procs : pc[j] = "warned"}}

(* "Warn if new maintainers appeared" (reputation.rs): whoever is in the record,
   by whatever interleaving, has been in a warning or will be, or got there
   when nothing could be compared or with an install that did not succeed. *)
ChangesTold == \A names \in record : names \subseteq told \cup untold \cup Underway
=============================================================================
