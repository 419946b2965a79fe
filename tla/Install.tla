------------------------------ MODULE Install ------------------------------
(***************************************************************************)
(* The commands on a project (crates/core/src/lib.rs: install, add, remove) *)
(* and what they read and write in its directory: package.json              *)
(* (package_json.rs), vault.lock (lockfile.rs) and node_modules (linker.rs).*)
(* One command runs at a time.  It may fail or be killed at any step, and   *)
(* between commands the user edits package.json and version control brings  *)
(* another vault.lock.                                                      *)
(*                                                                          *)
(* Specs, ranges and versions are those of module Resolver.  Resolution,    *)
(* the audit and the fetching, which have modules of their own, are one     *)
(* step each, with any outcome those modules allow; a package's             *)
(* dependencies always resolve to the same packages.                        *)
(***************************************************************************)
EXTENDS Integers

CONSTANTS
    Names,        \* package names
    Aliases,      \* the names a project imports packages by
    Versions,     \* versions, in semver's order
    Satisfying,   \* range -> versions, for the ranges that parse
    Deps,         \* package -> the packages its dependencies resolve to
    Specs,        \* what a package.json may ask for
    Handwritten,  \* the package.json files that the user may write
    Additions,    \* the <<alias, spec>> given to vault add
    Caret,        \* version -> the caret range on it
    Flags,        \* the options of the command line
    Suspects,     \* packages that the audit may say something about
    Published,    \* the packages that the registry has at first
    Upcoming      \* and those that may be published later

Ids == Names \X Versions

(* InstallOptions::new *)
Defaults ==
    [production |-> FALSE, frozen |-> FALSE, force |-> FALSE, strict |-> FALSE]

(* A function on some of the aliases; package.json; a lock or node_modules. *)
IsPartial(f, S) == DOMAIN f \subseteq Aliases /\ f \in [DOMAIN f -> S]
IsPackageJson(m) ==
    /\ m.state \in {"whole", "torn"}
    /\ \A section \in {m.deps, m.optional, m.dev} : IsPartial(section, Specs)
IsGraph(r, states) ==
    r.state \in states /\ IsPartial(r.roots, Ids) /\ r.packages \subseteq Ids

ASSUME InstallAssumption ==
    /\ \A m \in Handwritten : IsPackageJson(m) /\ m.state = "whole"
    /\ Deps \in [Ids -> SUBSET Ids]
    /\ Published \cup Upcoming \subseteq Ids
    /\ Defaults \in Flags

VARIABLES
    manifest,    \* package.json: its three sections, or torn by a crash
    lock,        \* vault.lock: absent, torn, or a resolution
    tree,        \* node_modules: absent, partial, or a resolution
    published,   \* the packages that the registry has
    pc,          \* what the command does next
    flags,       \* the options of the command
    edited,      \* the package.json that add or remove is to save
    roots,       \* the requirements that install has read: alias -> spec
    resolution,  \* what they resolve to
    usedLock,    \* whether the resolution was read from vault.lock
    verdicts     \* what the audit said of each package

files == <<manifest, lock, tree>>
command == <<flags, edited, roots, resolution, usedLock, verdicts>>
vars == <<files, published, pc, command>>

-----------------------------------------------------------------------------
Empty == [a \in {} |-> {}]

(* g where it is defined, and f elsewhere. *)
Over(g, f) ==
    [a \in DOMAIN f \cup DOMAIN g |-> IF a \in DOMAIN g THEN g[a] ELSE f[a]]

Without(f, a) == [b \in DOMAIN f \ {a} |-> f[b]]

TornManifest ==
    [state |-> "torn", deps |-> Empty, optional |-> Empty, dev |-> Empty]

(* all_dependencies: a later section overrides an earlier one. *)
AllDependencies(m, production) ==
    Over(IF production THEN Empty ELSE m.dev, Over(m.optional, m.deps))

(* set_dependency writes to one section, remove_dependency to all three. *)
SetDependency(m, a, spec) ==
    [state |-> "whole", deps |-> Over([b \in {a} |-> spec], m.deps),
     optional |-> m.optional, dev |-> m.dev]

RemoveDependency(m, a) ==
    [state |-> "whole", deps |-> Without(m.deps, a),
     optional |-> Without(m.optional, a), dev |-> Without(m.dev, a)]

Nothing(state) == [state |-> state, roots |-> Empty, packages |-> {}]

(* The smallest set of packages that has S and its members' dependencies. *)
Closed(S) == \A id \in S : Deps[id] \subseteq S
Closure(S) ==
    {id \in Ids : \A C \in SUBSET Ids : S \subseteq C /\ Closed(C) => id \in C}

Plain(range) == [npm |-> "", range |-> range]

(* An npm: spec names its package; any other leaves that to the alias, and is
   a range, a dist-tag or a URL.  Range::parse takes only ranges. *)
Wanted(a, spec) == IF spec.npm = "" THEN a ELSE spec.npm
Parses(spec) == spec.npm = "" /\ spec.range \in DOMAIN Satisfying
Satisfies(id, spec) == id[2] \in Satisfying[spec.range]

(* The resolver takes the highest version in range; for "*" the one tagged
   latest, as for any tag, and that may be any. *)
Picks(a, spec, id) ==
    /\ id \in published /\ id[1] = Wanted(a, spec)
    /\ spec.range \in DOMAIN Satisfying \ {"*"} =>
          /\ Satisfies(id, spec)
          /\ \A other \in published :
                other[1] = id[1] /\ Satisfies(other, spec) => other[2] <= id[2]

(* Mutant: the versions of the roots are not compared with the ranges. *)
MatchesManifestByName(l, reqs) ==
    /\ l.state = "whole" /\ DOMAIN l.roots = DOMAIN reqs
    /\ \A a \in DOMAIN reqs : Parses(reqs[a])
    /\ \A a \in DOMAIN l.roots : l.roots[a] \in l.packages
    /\ Closed(l.packages)

(* Mutant: the packages of the roots are taken to be there. *)
MatchesManifestUnclosed(l, reqs) ==
    /\ l.state = "whole" /\ DOMAIN l.roots = DOMAIN reqs
    /\ \A a \in DOMAIN reqs : Parses(reqs[a]) /\ Satisfies(l.roots[a], reqs[a])

(* Lockfile::matches_manifest, for a lock that parses. *)
MatchesManifest(l, reqs) ==
    /\ l.state = "whole" /\ DOMAIN l.roots = DOMAIN reqs
    /\ \A a \in DOMAIN reqs : Parses(reqs[a]) /\ Satisfies(l.roots[a], reqs[a])
    /\ \A a \in DOMAIN l.roots : l.roots[a] \in l.packages
    /\ Closed(l.packages)

Init ==
    /\ manifest \in Handwritten
    /\ lock = Nothing("absent")
    /\ tree = Nothing("absent")
    /\ published = Published
    /\ pc = "idle"
    /\ flags = Defaults
    /\ edited = TornManifest
    /\ roots = Empty
    /\ resolution = Nothing("whole")
    /\ usedLock = FALSE
    /\ verdicts = Empty

-----------------------------------------------------------------------------
(* vault install. *)
StartInstall(f) ==
    /\ pc = "idle"
    /\ pc' = "load"
    /\ flags' = f
    /\ UNCHANGED <<files, published, edited, roots, resolution, usedLock, verdicts>>

(* vault add computes the package.json to save from the spec given; or from a
   caret range on the latest version, or "*" for a package without that tag. *)
Add(f, a, spec) ==
    /\ pc = "idle" /\ manifest.state = "whole"
    /\ \/ <<a, spec>> \in Additions
       \/ \E id \in published : id[1] = a /\ spec \in {Plain(Caret[id[2]]), Plain("*")}
    /\ edited' = SetDependency(manifest, a, spec)
    /\ pc' = "edit"
    /\ flags' = f
    /\ UNCHANGED <<files, published, roots, resolution, usedLock, verdicts>>

(* vault remove takes no options. *)
Remove(f, a) ==
    /\ pc = "idle" /\ manifest.state = "whole"
    /\ f = Defaults
    /\ edited' = RemoveDependency(manifest, a)
    /\ pc' = "edit"
    /\ flags' = f
    /\ UNCHANGED <<files, published, roots, resolution, usedLock, verdicts>>

(* PackageJson::save; add and remove go on as install does. *)
SaveManifest ==
    /\ pc = "edit"
    /\ manifest' = edited
    /\ edited' = TornManifest
    /\ pc' = "load"
    /\ UNCHANGED <<lock, tree, published, flags, roots, resolution, usedLock, verdicts>>

(* install reads package.json and has nothing to do. *)
LoadNothing ==
    /\ pc = "load" /\ manifest.state = "whole"
    /\ AllDependencies(manifest, flags.production) = Empty
    /\ pc' = "ok"
    /\ UNCHANGED <<files, published, command>>

LoadRoots ==
    /\ pc = "load" /\ manifest.state = "whole"
    /\ roots' = AllDependencies(manifest, flags.production)
    /\ roots' # Empty
    /\ UNCHANGED <<files, published, flags, edited, verdicts>>

(* It has requirements, which vault.lock satisfies. *)
LoadLocked ==
    /\ LoadRoots
    /\ MatchesManifest(lock, roots')
    /\ resolution' = lock
    /\ usedLock' = TRUE
    /\ pc' = "audit"

(* Mutant: --frozen-lockfile is not looked at. *)
LoadUnfrozen ==
    /\ LoadRoots
    /\ ~ MatchesManifest(lock, roots')
    /\ pc' = "resolve"
    /\ UNCHANGED <<resolution, usedLock>>

(* It does not, and the graph is resolved anew, unless that is ruled out. *)
LoadUnlocked ==
    /\ LoadRoots
    /\ ~ MatchesManifest(lock, roots')
    /\ pc' = IF flags.frozen THEN "failed" ELSE "resolve"
    /\ UNCHANGED <<resolution, usedLock>>

(* Mutant: the packages of the roots only. *)
ResolveRoots(pick) ==
    /\ pc = "resolve"
    /\ \A a \in DOMAIN roots : Picks(a, roots[a], pick[a])
    /\ resolution' = [state |-> "whole", roots |-> pick,
                      packages |-> {pick[a] : a \in DOMAIN roots}]
    /\ pc' = "audit"
    /\ UNCHANGED <<files, published, flags, edited, roots, usedLock, verdicts>>

(* resolver::resolve *)
Resolve(pick) ==
    /\ pc = "resolve"
    /\ \A a \in DOMAIN roots : Picks(a, roots[a], pick[a])
    /\ resolution' = [state |-> "whole", roots |-> pick,
                      packages |-> Closure({pick[a] : a \in DOMAIN roots})]
    /\ resolution'.packages \subseteq published
    /\ pc' = "audit"
    /\ UNCHANGED <<files, published, flags, edited, roots, usedLock, verdicts>>

(* The audit of every package of the resolution: clean, with advisories, or
   blocked, in which case its advisories are not counted. *)
Audit(v) ==
    /\ pc = "audit"
    /\ verdicts' = [id \in resolution.packages |-> IF id \in Suspects THEN v[id] ELSE "clean"]
    /\ pc' = "gate"
    /\ UNCHANGED <<files, published, flags, edited, roots, resolution, usedLock>>

(* Mutant: --strict is forgotten. *)
BlockedLeniently ==
    \E id \in DOMAIN verdicts : verdicts[id] = "blocked"

Blocked ==
    \E id \in DOMAIN verdicts :
        \/ verdicts[id] = "blocked"
        \/ flags.strict /\ verdicts[id] = "advisories"

(* The gate: fail-closed, before any download. *)
Gate ==
    /\ pc = "gate"
    /\ pc' = IF Blocked /\ ~ flags.force THEN "failed" ELSE "fetch"
    /\ UNCHANGED <<files, published, command>>

Fetch ==
    /\ pc = "fetch"
    /\ pc' = "unlink"
    /\ UNCHANGED <<files, published, command>>

(* link_all removes node_modules... *)
Unlink ==
    /\ pc = "unlink"
    /\ tree' = Nothing("partial")
    /\ pc' = "link"
    /\ UNCHANGED <<manifest, lock, published, command>>

(* Mutant: a lock that parses is left as it is. *)
LinkKeepingLock ==
    /\ pc = "link"
    /\ tree' = resolution
    /\ pc' = IF lock.state = "whole" THEN "ok" ELSE "save"
    /\ UNCHANGED <<manifest, lock, published, command>>

(* ... and builds it again. *)
Link ==
    /\ pc = "link"
    /\ tree' = resolution
    /\ pc' = IF usedLock THEN "ok" ELSE "save"
    /\ UNCHANGED <<manifest, lock, published, command>>

(* Lockfile::save *)
SaveLock ==
    /\ pc = "save"
    /\ lock' = resolution
    /\ pc' = "ok"
    /\ UNCHANGED <<manifest, tree, published, command>>

(* The command ends with an error or is killed.  A file that it was writing is
   left torn, and node_modules partly removed or partly built. *)
Stop ==
    /\ pc \notin {"idle", "ok", "failed"}
    /\ manifest' \in {manifest} \cup (IF pc = "edit" THEN {TornManifest} ELSE {})
    /\ lock' \in {lock} \cup (IF pc = "save" THEN {Nothing("torn")} ELSE {})
    /\ tree' \in {tree} \cup (IF pc = "unlink" THEN {Nothing("partial")} ELSE {})
    /\ pc' = "failed"
    /\ UNCHANGED <<published, command>>

(* The next command finds only the files. *)
End ==
    /\ pc \in {"ok", "failed"}
    /\ pc' = "idle"
    /\ flags' = Defaults
    /\ edited' = TornManifest
    /\ roots' = Empty
    /\ resolution' = Nothing("whole")
    /\ usedLock' = FALSE
    /\ verdicts' = Empty
    /\ UNCHANGED <<files, published>>

Run ==
    \/ SaveManifest \/ LoadNothing \/ LoadLocked \/ LoadUnlocked
    \/ \E pick \in [DOMAIN roots -> Ids] : Resolve(pick)
    \/ \E v \in [Suspects -> {"clean", "advisories", "blocked"}] : Audit(v)
    \/ Gate \/ Fetch \/ Unlink \/ Link \/ SaveLock \/ End

-----------------------------------------------------------------------------
(* Between commands the user edits package.json... *)
Edit(m) ==
    /\ pc = "idle"
    /\ manifest' = m
    /\ UNCHANGED <<lock, tree, published, pc, command>>

(* ... and vault.lock is removed, or loses an entry in a merge. *)
Checkout ==
    /\ pc = "idle"
    /\ \/ lock' = Nothing("absent")
       \/ \E id \in lock.packages :
             lock' = [state |-> lock.state, roots |-> lock.roots,
                      packages |-> lock.packages \ {id}]
    /\ UNCHANGED <<manifest, tree, published, pc, command>>

Publish(id) ==
    /\ id \in Upcoming \ published
    /\ published' = published \cup {id}
    /\ UNCHANGED <<files, pc, command>>

Next ==
    \/ \E f \in Flags : StartInstall(f)
    \/ \E f \in Flags, a \in Aliases :
          \/ \E spec \in Specs : Add(f, a, spec)
          \/ Remove(f, a)
    \/ Run
    \/ Stop
    \/ \E m \in Handwritten : Edit(m)
    \/ Checkout
    \/ \E id \in Ids : Publish(id)

Spec == Init /\ [][Next]_vars

-----------------------------------------------------------------------------
(* What the command works with and what is linked have their roots among their
   packages, and every package's dependencies; a lock may have lost some. *)
TypeOK ==
    /\ IsPackageJson(manifest) /\ IsPackageJson(edited)
    /\ IsGraph(lock, {"absent", "torn", "whole"})
    /\ IsGraph(tree, {"absent", "partial", "whole"})
    /\ IsGraph(resolution, {"whole"})
    /\ \A r \in {tree, resolution} :
          /\ \A a \in DOMAIN r.roots : r.roots[a] \in r.packages
          /\ Closed(r.packages)
    /\ published \subseteq Ids
    /\ pc \in {"idle", "edit", "load", "resolve", "audit", "gate", "fetch",
               "unlink", "link", "save", "ok", "failed"}
    /\ flags \in Flags
    /\ IsPartial(roots, Specs)
    /\ usedLock \in BOOLEAN
    /\ DOMAIN verdicts \subseteq resolution.packages

(* The command has succeeded and had something to install. *)
Installed == pc = "ok" /\ roots # Empty

(* After a successful install node_modules holds what vault.lock says, whether
   the lock was read or written, and whatever was torn before. *)
TreeMatchesLock == Installed => tree.state = "whole" /\ tree = lock

(* The direct dependencies that are linked are those package.json asks for, and
   where it asks for a range, in that range. *)
InstalledFits ==
    Installed =>
        /\ DOMAIN tree.roots = DOMAIN AllDependencies(manifest, flags.production)
        /\ \A a \in DOMAIN tree.roots :
              LET spec == AllDependencies(manifest, flags.production)[a]
              IN  Parses(spec) /\ spec.range # "*" => Satisfies(tree.roots[a], spec)

(* A project whose direct dependencies are ranges gets a lock that the next
   install, frozen or not, will accept. *)
LockSettles ==
    Installed /\ (\A a \in DOMAIN roots : Parses(roots[a]) /\ roots[a].range # "*")
        => MatchesManifest(lock, roots)

(* A command changes vault.lock only if it did not satisfy package.json, and
   never under --frozen-lockfile. *)
LockChangesForCause ==
    [][pc # "idle" /\ lock' # lock => ~ flags.frozen /\ ~ MatchesManifest(lock, roots)]_vars

(* node_modules is touched only after every package of the resolution has been
   audited, and, without --force, only if none was blocked, nor, under --strict,
   had an advisory. *)
GateHolds ==
    [][tree' # tree =>
          /\ tree'.packages \subseteq DOMAIN verdicts
          /\ ~ flags.force =>
                \A id \in DOMAIN verdicts :
                    verdicts[id] \in IF flags.strict THEN {"clean"} ELSE {"clean", "advisories"}]_vars

(* lockfile.rs:105: a lock that is accepted "still satisfies the project's
   declared direct dependencies": each is a version of the declared package. *)
DeclaredIsInstalled ==
    Installed => \A a \in DOMAIN roots : tree.roots[a][1] = Wanted(a, roots[a])
=============================================================================
