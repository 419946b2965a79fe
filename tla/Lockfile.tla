------------------------------ MODULE Lockfile ------------------------------
(***************************************************************************)
(* What vault.lock keeps of a package's metadata (crates/core/src/          *)
(* lockfile.rs), and the static scan that is run on it (audit/              *)
(* static_scan.rs).                                                         *)
(*                                                                          *)
(* A script is what the scan's rules find in it, once it is stripped of     *)
(* white space and lowered: the needles, and the number of escapes.  The    *)
(* metadata of a package has these scripts by name and the integrity        *)
(* metadata of module Integrity, in which an SRI string may be empty.       *)
(***************************************************************************)
EXTENDS Integers, Integrity

CONSTANTS
    ScriptNames,   \* the names of scripts in package.json
    BlockNeedles,  \* the needles of the rules that block
    WarnNeedles,   \* and of those that warn
    Metas          \* the metadata of packages

HexEscapeThreshold == 8

Bodies == [needles : SUBSET (BlockNeedles \cup WarnNeedles), escapes : Nat]

EmptySRI == [algo |-> "", digest |-> Malformed]

(* What the registry may have to say of a tarball. *)
Dists ==
    [integrity : {{}, {EmptySRI}} \cup {{s} : s \in SRI},
     shasum    : {{}} \cup {{t} : t \in Tarballs}]

ASSUME LockfileAssumption ==
    /\ {"preinstall", "install", "postinstall"} \subseteq ScriptNames
    /\ BlockNeedles \cap WarnNeedles = {}
    /\ "escapes" \notin BlockNeedles \cup WarnNeedles
    /\ \A meta \in Metas :
          /\ meta.dist \in Dists
          /\ DOMAIN meta.scripts \subseteq ScriptNames
          /\ \A h \in DOMAIN meta.scripts : meta.scripts[h] \in Bodies

(* The hooks that the scan looks at. *)
ScannedScripts == {"preinstall", "install", "postinstall"}

(* Mutant: a hook is missing from one of the two lists. *)
LockedInstallScripts == {"install", "postinstall"}

(* The hooks that the lock keeps: a list of its own in the code. *)
LockedScripts == {"preinstall", "install", "postinstall"}

(* scan: a finding for each rule and hook, and one for a hook full of escapes. *)
Scan(scripts) ==
    LET hooks == ScannedScripts \cap DOMAIN scripts
        found(h) == scripts[h].needles
                    \cup (IF scripts[h].escapes >= HexEscapeThreshold THEN {"escapes"} ELSE {})
    IN  UNION {{[script |-> h, pattern |-> n,
                 severity |-> IF n \in WarnNeedles THEN "warn" ELSE "block"] : n \in found(h)}
               : h \in hooks}

HasBlock(findings) == \E f \in findings : f.severity = "block"

(* The hooks audit_package reports as present. *)
LifecycleHooks(scripts) == {"preinstall", "install", "postinstall"} \cap DOMAIN scripts

Only(f, S) == [x \in DOMAIN f \cap S |-> f[x]]

(* from_resolution: no SRI is filed as an empty one. *)
Locked(meta) ==
    [integrity |-> IF meta.dist.integrity = {} THEN EmptySRI
                   ELSE CHOOSE sri \in meta.dist.integrity : TRUE,
     shasum |-> meta.dist.shasum,
     scripts |-> Only(meta.scripts, LockedScripts)]

(* to_resolution: an empty SRI is none. *)
Unlocked(locked) ==
    [dist |-> [integrity |-> IF locked.integrity = EmptySRI THEN {} ELSE {locked.integrity},
               shasum |-> locked.shasum],
     scripts |-> locked.scripts]

(* "Kept so the static scan can run from the lockfile without re-fetching
   metadata" (lockfile.rs): the scan finds in the lock what it finds in the
   registry's metadata, and the same tarballs are accepted; but for an SRI
   string that is empty, and accepts nothing, until the lock turns it into
   none and the SHA-1 counts. *)
LockKeepsVerdict(meta) ==
    LET again == Unlocked(Locked(meta)) IN
    /\ Scan(again.scripts) = Scan(meta.scripts)
    /\ LifecycleHooks(again.scripts) = LifecycleHooks(meta.scripts)
    /\ \A t \in Tarballs :
          \/ VerifyPrecomputed(again.dist, t) <=> VerifyPrecomputed(meta.dist, t)
          \/ meta.dist.integrity = {EmptySRI} /\ t \in meta.dist.shasum
=============================================================================
