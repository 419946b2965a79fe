------------------------------ MODULE Fetcher ------------------------------
(***************************************************************************)
(* How an install fills the store and reads it back: fetch_all (lib.rs),    *)
(* ensure_in_store with its download, verification, extraction and index    *)
(* (fetcher.rs, store.rs), and the part of link_all that reads the store    *)
(* (linker.rs).  Several processes install at once over one store; inside a *)
(* process fetch_all keeps up to Concurrency packages in flight.            *)
(***************************************************************************)
EXTENDS ContentStore, Integrity

CONSTANTS
    Content,     \* the file hashes of each tarball, {} for an empty one
    Meta,        \* the registry's integrity metadata of each package
    Wants,       \* the packages of each process's resolution
    Concurrency, \* CONCURRENCY of lib.rs
    MaxRuns,     \* bound: how many installs are started in all
    None         \* no tarball, no file

ASSUME FetchAssumption ==
    /\ Content \in [Tarballs -> SUBSET Hashes]
    /\ Meta \in [Pkgs -> Metadata]
    /\ Wants \in [Procs -> (SUBSET Pkgs) \ {{}}]
    /\ Concurrency \in Nat \ {0}
    /\ MaxRuns \in Nat
    /\ None \notin Tarballs \cup Hashes

VARIABLES
    phase,  \* what each process is doing
    pc,     \* where each process is with each of its packages
    got,    \* the verified tarball being extracted
    left,   \* its files not handed to put_object yet
    file,   \* the file whose temp is being renamed
    runs    \* how many installs were started

fetchVars == <<phase, pc, got, left, file, runs>>

Phases == {"idle", "fetching", "linking", "installed", "failed"}

InFlight == {"stream", "extract", "rename", "closing"}

Fetched == {"stored", "skipped"}

(* "unreadable" and "dangling" are the two ways the linker fails on a package:
   its index does not parse, or lists an object that is gone. *)
Places == {"none", "check", "failed", "linked", "unreadable", "dangling"}
          \cup InFlight \cup Fetched

FetchTypeOK ==
    /\ phase \in [Procs -> Phases]
    /\ pc \in [Procs -> [Pkgs -> Places]]
    /\ got \in [Procs -> [Pkgs -> Tarballs \cup {None}]]
    /\ left \in [Procs -> [Pkgs -> SUBSET Hashes]]
    /\ file \in [Procs -> [Pkgs -> Hashes \cup {None}]]
    /\ runs \in 0 .. MaxRuns

FetchInit ==
    /\ phase = [k \in Procs |-> "idle"]
    /\ pc = [k \in Procs |-> [p \in Pkgs |-> "none"]]
    /\ got = [k \in Procs |-> [p \in Pkgs |-> None]]
    /\ left = [k \in Procs |-> [p \in Pkgs |-> {}]]
    /\ file = [k \in Procs |-> [p \in Pkgs |-> None]]
    /\ runs = 0

Busy(k) == phase[k] \in {"fetching", "linking"}

Move(k, p, place) == pc' = [pc EXCEPT ![k][p] = place]

(* The task of package p is over: its locals are dropped. *)
Finish(k, p, place) ==
    /\ Move(k, p, place)
    /\ got' = [got EXCEPT ![k][p] = None]
    /\ left' = [left EXCEPT ![k][p] = {}]
    /\ file' = [file EXCEPT ![k][p] = None]

-----------------------------------------------------------------------------
(* install() reaches fetch_all; a resolution with no package returns before. *)
StartInstall(k) ==
    /\ ~ Busy(k)
    /\ runs < MaxRuns
    /\ runs' = runs + 1
    /\ phase' = [phase EXCEPT ![k] = "fetching"]
    /\ pc' = [pc EXCEPT ![k] =
                 [p \in Pkgs |-> IF p \in Wants[k] THEN "check" ELSE "none"]]
    /\ UNCHANGED <<diskVars, got, left, file>>

(* ensure_in_store starts once fewer than Concurrency packages are in flight,
   and is over at once when the package's index file exists. *)
Check(k, p) ==
    /\ pc[k][p] = "check"
    /\ Cardinality({q \in Pkgs : pc[k][q] \in InFlight}) < Concurrency
    /\ Move(k, p, IF HasPackage(p) THEN "skipped" ELSE "stream")
    /\ UNCHANGED <<diskVars, phase, got, left, file, runs>>

(* The tarball has been streamed to a temp file, hashed on the way, and is
   verified before anything is extracted. *)
Receive(k, p, t) ==
    /\ pc[k][p] = "stream"
    /\ IF VerifyPrecomputed(Meta[p], t)
       THEN /\ Move(k, p, "extract")
            /\ got' = [got EXCEPT ![k][p] = t]
            /\ left' = [left EXCEPT ![k][p] = Content[t]]
            /\ UNCHANGED file
       ELSE Finish(k, p, "failed")
    /\ UNCHANGED <<diskVars, phase, runs>>

(* put_object up to its rename: a file whose object exists is done, otherwise
   a temp file is written.  The order of the files is the archive's; any order
   is allowed here. *)
PutObject(k, p, h) ==
    /\ pc[k][p] = "extract"
    /\ h \in left[k][p]
    /\ left' = [left EXCEPT ![k][p] = @ \ {h}]
    /\ IF h \in objects
       THEN UNCHANGED <<tmp, pc, file>>
       ELSE /\ WriteTemp(k, p)
            /\ file' = [file EXCEPT ![k][p] = h]
            /\ Move(k, p, "rename")
    /\ UNCHANGED <<clock, objects, mtime, index, entries, phase, got, runs>>

(* The rest of put_object. *)
Rename(k, p) ==
    /\ pc[k][p] = "rename"
    /\ RenameTemp(k, p, file[k][p])
    /\ file' = [file EXCEPT ![k][p] = None]
    /\ Move(k, p, "extract")
    /\ UNCHANGED <<clock, index, entries, phase, got, left, runs>>

(* Mutant: the index is written before the last file is. *)
BeginIndexEarly(k, p) ==
    /\ pc[k][p] = "extract"
    /\ Content[got[k][p]] # {}
    /\ TruncateIndex(p)
    /\ Move(k, p, "closing")
    /\ UNCHANGED <<clock, objects, mtime, tmp, phase, got, left, file, runs>>

(* Every file is stored: write_index opens the index file. *)
BeginIndex(k, p) ==
    /\ pc[k][p] = "extract"
    /\ left[k][p] = {}
    /\ Content[got[k][p]] # {}
    /\ TruncateIndex(p)
    /\ Move(k, p, "closing")
    /\ UNCHANGED <<clock, objects, mtime, tmp, phase, got, left, file, runs>>

(* "tarball contained no files". *)
EmptyTarball(k, p) ==
    /\ pc[k][p] = "extract"
    /\ left[k][p] = {}
    /\ Content[got[k][p]] = {}
    /\ Finish(k, p, "failed")
    /\ UNCHANGED <<diskVars, phase, runs>>

(* write_index returns. *)
CompleteIndex(k, p) ==
    /\ pc[k][p] = "closing"
    /\ FillIndex(p, Content[got[k][p]])
    /\ Finish(k, p, "stored")
    /\ UNCHANGED <<clock, objects, mtime, tmp, phase, runs>>

(* The download, a read of the archive or a write to the store fails.  An index
   file already opened stays as it is. *)
FetchFails(k, p) ==
    /\ pc[k][p] \in {"stream", "extract", "closing"}
    /\ Finish(k, p, "failed")
    /\ UNCHANGED <<diskVars, phase, runs>>

(* Mutant: a package that failed keeps the others waiting. *)
EndFetchWaits(k) ==
    /\ phase[k] = "fetching"
    /\ \A p \in Wants[k] : pc[k][p] \in Fetched
    /\ phase' = [phase EXCEPT ![k] = "linking"]
    /\ UNCHANGED <<diskVars, pc, got, left, file, runs>>

(* fetch_all collects every result before it looks at any. *)
EndFetch(k) ==
    /\ phase[k] = "fetching"
    /\ \A p \in Wants[k] : pc[k][p] \in Fetched \cup {"failed"}
    /\ phase' = [phase EXCEPT ![k] =
                    IF \E p \in Wants[k] : pc[k][p] = "failed"
                    THEN "failed" ELSE "linking"]
    /\ UNCHANGED <<diskVars, pc, got, left, file, runs>>

(* Mutant: a package that cannot be materialized is passed over. *)
LinkPackageAnyway(k, p) ==
    /\ phase[k] = "linking"
    /\ pc[k][p] \in Fetched
    /\ Move(k, p, "linked")
    /\ UNCHANGED <<diskVars, phase, got, left, file, runs>>

(* link_all reads the package's index and materializes it; the first failure
   ends the install.  Objects hard-linked before a concurrent prune removes
   them stay linked, so one step per package suffices. *)
LinkPackage(k, p) ==
    /\ phase[k] = "linking"
    /\ pc[k][p] \in Fetched
    /\ Move(k, p, IF ~ CanRead(p) THEN "unreadable"
                  ELSE IF ~ Intact(p) THEN "dangling" ELSE "linked")
    /\ phase' = IF Intact(p) THEN phase ELSE [phase EXCEPT ![k] = "failed"]
    /\ UNCHANGED <<diskVars, got, left, file, runs>>

EndInstall(k) ==
    /\ phase[k] = "linking"
    /\ \A p \in Wants[k] : pc[k][p] = "linked"
    /\ phase' = [phase EXCEPT ![k] = "installed"]
    /\ UNCHANGED <<diskVars, pc, got, left, file, runs>>

(* The process is killed.  Its temp files stay behind under names nobody else
   uses, so they are forgotten here. *)
Crash(k) ==
    /\ Busy(k)
    /\ phase' = [phase EXCEPT ![k] = "failed"]
    /\ pc' = [pc EXCEPT ![k] = [p \in Pkgs |-> "none"]]
    /\ got' = [got EXCEPT ![k] = [p \in Pkgs |-> None]]
    /\ left' = [left EXCEPT ![k] = [p \in Pkgs |-> {}]]
    /\ file' = [file EXCEPT ![k] = [p \in Pkgs |-> None]]
    /\ tmp' = [tmp EXCEPT ![k] = [p \in Pkgs |-> NoTemp]]
    /\ UNCHANGED <<clock, objects, mtime, index, entries, runs>>

-----------------------------------------------------------------------------
(* What process k does of its own accord for package p, given that the network
   answers. *)
TaskStep(k, p) ==
    \/ Check(k, p)
    \/ \E t \in Tarballs : Receive(k, p, t)
    \/ \E h \in Hashes : PutObject(k, p, h)
    \/ Rename(k, p)
    \/ BeginIndex(k, p)
    \/ EmptyTarball(k, p)
    \/ CompleteIndex(k, p)
    \/ LinkPackage(k, p)

ProcStep(k) ==
    \/ \E p \in Pkgs : TaskStep(k, p)
    \/ EndFetch(k)
    \/ EndInstall(k)

FetchNext ==
    \E k \in Procs :
        \/ StartInstall(k)
        \/ ProcStep(k)
        \/ \E p \in Pkgs : FetchFails(k, p)
        \/ Crash(k)
=============================================================================
