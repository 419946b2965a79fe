---------------------------- MODULE ContentStore ----------------------------
(***************************************************************************)
(* The content-addressable store on disk (crates/core/src/store.rs), shared *)
(* by every vault process of the machine: the objects under v1/files, the   *)
(* per-package indexes under v1/index, and the temporary files of           *)
(* put_object, which sit beside the objects.  Nothing locks it.             *)
(*                                                                          *)
(* An index is a plain file written with fs::write: it is "absent", "torn"  *)
(* from the moment the file is created (or truncated) until its last byte   *)
(* is written, and "whole" afterwards.  Nothing ever deletes an index.      *)
(***************************************************************************)
EXTENDS Integers, FiniteSets

CONSTANTS
    Procs,      \* vault processes that install
    Pkgs,       \* resolved packages, name@version
    Hashes,     \* SHA-256 names of file contents
    MaxClock    \* bound: the last tick of the machine's clock

ASSUME ClockAssumption == MaxClock \in Nat

VARIABLES
    clock,      \* the machine's clock
    objects,    \* v1/files: the objects present
    mtime,      \* modification time of each object (0 when absent)
    index,      \* v1/index: what a reader of the package's index finds
    entries,    \* the hashes a whole index lists ({} otherwise)
    tmp         \* mtime of the temp file each process has for each package

diskVars == <<clock, objects, mtime, index, entries, tmp>>

NoTemp == -1

Times == 0 .. MaxClock

DiskTypeOK ==
    /\ clock \in Times
    /\ objects \subseteq Hashes
    /\ mtime \in [Hashes -> Times]
    /\ index \in [Pkgs -> {"absent", "torn", "whole"}]
    /\ entries \in [Pkgs -> SUBSET Hashes]
    /\ tmp \in [Procs -> [Pkgs -> Times \cup {NoTemp}]]

DiskInit ==
    /\ clock = 0
    /\ objects = {}
    /\ mtime = [h \in Hashes |-> 0]
    /\ index = [p \in Pkgs |-> "absent"]
    /\ entries = [p \in Pkgs |-> {}]
    /\ tmp = [k \in Procs |-> [p \in Pkgs |-> NoTemp]]

(* has_package only asks whether the index file exists. *)
HasPackage(p) == index[p] # "absent"

(* read_index succeeds only on a whole file: an absent one is an I/O error, a
   torn one a JSON error. *)
CanRead(p) == index[p] = "whole"

(* A package that link_all can materialize: every object its index lists is
   there to be hard-linked or copied. *)
Intact(p) == CanRead(p) /\ entries[p] \subseteq objects

(* fs::write on the index, first half: the file is created or truncated. *)
TruncateIndex(p) ==
    /\ index' = [index EXCEPT ![p] = "torn"]
    /\ entries' = [entries EXCEPT ![p] = {}]

(* fs::write on the index, second half: the last byte is on disk. *)
FillIndex(p, hs) ==
    /\ index' = [index EXCEPT ![p] = "whole"]
    /\ entries' = [entries EXCEPT ![p] = hs]

(* Mutant: the temp file's time is rounded up. *)
WriteTempLater(k, p) == tmp' = [tmp EXCEPT ![k][p] = clock + 1]

(* fs::write of put_object's uniquely named temp file. *)
WriteTemp(k, p) == tmp' = [tmp EXCEPT ![k][p] = clock]

(* fs::rename of the temp file onto the object, which keeps the time the temp
   file was written.  When the temp file is gone the rename fails, and the
   code takes that for another writer's success: nothing changes. *)
RenameTemp(k, p, h) ==
    /\ tmp' = [tmp EXCEPT ![k][p] = NoTemp]
    /\ IF tmp[k][p] = NoTemp
       THEN UNCHANGED <<objects, mtime>>
       ELSE /\ objects' = objects \cup {h}
            /\ mtime' = [mtime EXCEPT ![h] = tmp[k][p]]

(* remove_file on an object. *)
RemoveObject(h) ==
    /\ objects' = objects \ {h}
    /\ mtime' = [mtime EXCEPT ![h] = 0]

Tick ==
    /\ clock < MaxClock
    /\ clock' = clock + 1
    /\ UNCHANGED <<objects, mtime, index, entries, tmp>>
=============================================================================
