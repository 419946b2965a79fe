--------------------------- MODULE InstallProofs ---------------------------
(***************************************************************************)
(* What the commands on a project keep, for every registry, every manifest, *)
(* every verdict of the audit and every point at which they may stop.       *)
(*                                                                          *)
(* The inductive invariant follows one command: what it has read (Reading,  *)
(* Asked), where its resolution comes from (FromLock, Anew, Fits), what the *)
(* audit and the gate said (Unaudited, Audited, Passed), and what it has     *)
(* written (Wrote, Done).                                                   *)
(***************************************************************************)
EXTENDS Install, TLAPS

Reading ==
    /\ pc \in {"idle", "edit", "load"} => roots = Empty
    /\ pc \in {"idle", "edit", "load", "resolve", "save"} => ~ usedLock

Asked == roots # Empty => roots = AllDependencies(manifest, flags.production)

FromLock == usedLock => lock = resolution /\ MatchesManifest(lock, roots)

Anew ==
    pc \in {"resolve", "audit", "gate", "fetch", "unlink", "link", "save"} /\ ~ usedLock
        => ~ flags.frozen /\ ~ MatchesManifest(lock, roots)

RootFits(a) ==
    Parses(roots[a]) /\ roots[a].range # "*" => Satisfies(resolution.roots[a], roots[a])

Fits ==
    pc \in {"audit", "gate", "fetch", "unlink", "link", "save", "ok"} /\ roots # Empty =>
        DOMAIN resolution.roots = DOMAIN roots /\ \A a \in DOMAIN roots : RootFits(a)

Unaudited == pc \in {"idle", "edit", "load", "resolve"} => DOMAIN verdicts = {}

Audited ==
    pc \in {"gate", "fetch", "unlink", "link"} =>
        /\ DOMAIN verdicts = resolution.packages
        /\ \A id \in DOMAIN verdicts : verdicts[id] \in {"clean", "advisories", "blocked"}

Admissible == IF flags.strict THEN {"clean"} ELSE {"clean", "advisories"}

Passed ==
    pc \in {"fetch", "unlink", "link"} /\ ~ flags.force =>
        \A id \in DOMAIN verdicts : verdicts[id] \in Admissible

Wrote == pc = "save" => tree = resolution

Done == Installed => tree = lock /\ lock = resolution

Inv ==
    /\ TypeOK
    /\ Reading /\ Asked
    /\ FromLock /\ Anew /\ Fits
    /\ Unaudited /\ Audited /\ Passed
    /\ Wrote /\ Done

-----------------------------------------------------------------------------
(* The operators on partial functions keep their aliases and values. *)
LEMMA EmptyPartial == \A S : IsPartial(Empty, S)
BY DEF IsPartial, Empty

LEMMA OverPartial ==
    ASSUME NEW S, NEW f, NEW g, IsPartial(f, S), IsPartial(g, S)
    PROVE  IsPartial(Over(g, f), S)
BY DEF IsPartial, Over

LEMMA WithoutPartial ==
    ASSUME NEW S, NEW f, NEW a, IsPartial(f, S)
    PROVE  IsPartial(Without(f, a), S)
BY DEF IsPartial, Without

(* The requirements read from a package.json are specs for aliases. *)
LEMMA DependenciesPartial ==
    ASSUME NEW m, IsPackageJson(m), NEW p
    PROVE  IsPartial(AllDependencies(m, p), Specs)
<1>1. IsPartial(m.deps, Specs) /\ IsPartial(m.optional, Specs) /\ IsPartial(m.dev, Specs)
    BY DEF IsPackageJson
<1>2. IsPartial(IF p THEN Empty ELSE m.dev, Specs)
    BY <1>1, EmptyPartial
<1>3. IsPartial(Over(m.optional, m.deps), Specs)
    BY <1>1, OverPartial
<1> QED BY <1>2, <1>3, OverPartial DEF AllDependencies

(* What add and remove save is a package.json. *)
LEMMA SetPackageJson ==
    ASSUME NEW m, IsPackageJson(m), NEW a \in Aliases, NEW spec \in Specs
    PROVE  IsPackageJson(SetDependency(m, a, spec))
<1>1. IsPartial(m.deps, Specs) /\ IsPartial(m.optional, Specs) /\ IsPartial(m.dev, Specs)
    BY DEF IsPackageJson
<1>2. IsPartial([b \in {a} |-> spec], Specs)
    BY DEF IsPartial
<1>3. IsPartial(Over([b \in {a} |-> spec], m.deps), Specs)
    BY <1>1, <1>2, OverPartial
<1> QED BY <1>1, <1>3 DEF IsPackageJson, SetDependency

LEMMA RemovePackageJson ==
    ASSUME NEW m, IsPackageJson(m), NEW a
    PROVE  IsPackageJson(RemoveDependency(m, a))
<1>1. IsPartial(m.deps, Specs) /\ IsPartial(m.optional, Specs) /\ IsPartial(m.dev, Specs)
    BY DEF IsPackageJson
<1>2. /\ IsPartial(Without(m.deps, a), Specs)
      /\ IsPartial(Without(m.optional, a), Specs)
      /\ IsPartial(Without(m.dev, a), Specs)
    BY <1>1, WithoutPartial
<1> QED BY <1>2 DEF IsPackageJson, RemoveDependency

LEMMA TornPackageJson == IsPackageJson(TornManifest)
BY EmptyPartial DEF IsPackageJson, TornManifest

(* The closure of a set of packages has that set and is closed. *)
LEMMA ClosureClosed ==
    ASSUME NEW S \in SUBSET Ids
    PROVE  S \subseteq Closure(S) /\ Closed(Closure(S)) /\ Closure(S) \subseteq Ids
<1>1. S \subseteq Closure(S) /\ Closure(S) \subseteq Ids
    BY DEF Closure
<1>2. ASSUME NEW id \in Closure(S), NEW d \in Deps[id]
      PROVE  d \in Closure(S)
  <2>1. id \in Ids /\ d \in Ids
      BY <1>1, <1>2, InstallAssumption
  <2>2. ASSUME NEW C \in SUBSET Ids, S \subseteq C, Closed(C) PROVE d \in C
      BY <1>2, <2>2 DEF Closure, Closed
  <2> QED BY <2>1, <2>2 DEF Closure
<1> QED BY <1>1, <1>2 DEF Closed

-----------------------------------------------------------------------------
THEOREM InitInv == Init => Inv
<1> SUFFICES ASSUME Init PROVE Inv
    OBVIOUS
<1>1. IsPackageJson(manifest) /\ IsPackageJson(edited)
    BY InstallAssumption, TornPackageJson DEF Init
<1>2. /\ IsGraph(lock, {"absent", "torn", "whole"})
      /\ IsGraph(tree, {"absent", "partial", "whole"})
      /\ IsGraph(resolution, {"whole"})
    BY EmptyPartial DEF Init, IsGraph, Nothing
<1>3. \A r \in {tree, resolution} :
         (\A a \in DOMAIN r.roots : r.roots[a] \in r.packages) /\ Closed(r.packages)
    BY DEF Init, Nothing, Empty, Closed
<1>4. TypeOK
    BY <1>1, <1>2, <1>3, EmptyPartial, InstallAssumption DEF Init, TypeOK, Empty
<1>5. DOMAIN verdicts = {}
    BY DEF Init, Empty
<1> QED BY <1>4, <1>5 DEF Init, Inv, Reading, Asked, FromLock, Anew, Fits,
               Unaudited, Audited, Passed, Wrote, Done, Installed

-----------------------------------------------------------------------------
(* The steps, one by one: a command begins... *)
LEMMA StartStep ==
    ASSUME Inv, NEW f \in Flags, StartInstall(f)
    PROVE  Inv'
<1> USE DEF StartInstall, files, command
<1>1. TypeOK'
    BY DEF Inv, TypeOK
<1> QED BY <1>1 DEF Inv, Reading, Asked, FromLock, Anew, Fits,
               Unaudited, Audited, Passed, Wrote, Done, Installed

LEMMA AddStep ==
    ASSUME Inv, NEW f \in Flags, NEW a \in Aliases, NEW spec \in Specs, Add(f, a, spec)
    PROVE  Inv'
<1> USE DEF Add, files, command
<1>1. IsPackageJson(edited)'
    BY SetPackageJson DEF Inv, TypeOK
<1>2. TypeOK'
    BY <1>1 DEF Inv, TypeOK
<1> QED BY <1>2 DEF Inv, Reading, Asked, FromLock, Anew, Fits,
               Unaudited, Audited, Passed, Wrote, Done, Installed

LEMMA RemoveStep ==
    ASSUME Inv, NEW f \in Flags, NEW a \in Aliases, Remove(f, a)
    PROVE  Inv'
<1> USE DEF Remove, files, command
<1>1. IsPackageJson(edited)'
    BY RemovePackageJson DEF Inv, TypeOK
<1>2. TypeOK'
    BY <1>1 DEF Inv, TypeOK
<1> QED BY <1>2 DEF Inv, Reading, Asked, FromLock, Anew, Fits,
               Unaudited, Audited, Passed, Wrote, Done, Installed

LEMMA SaveManifestStep ==
    ASSUME Inv, SaveManifest
    PROVE  Inv'
<1> USE DEF SaveManifest, files, command
<1>1. IsPackageJson(manifest)' /\ IsPackageJson(edited)'
    BY TornPackageJson DEF Inv, TypeOK
<1>2. TypeOK'
    BY <1>1 DEF Inv, TypeOK
<1> QED BY <1>2 DEF Inv, Reading, Asked, FromLock, Anew, Fits,
               Unaudited, Audited, Passed, Wrote, Done, Installed

(* ... reads what there is ... *)
LEMMA LoadNothingStep ==
    ASSUME Inv, LoadNothing
    PROVE  Inv'
<1> USE DEF LoadNothing, files, command
<1>1. TypeOK'
    BY DEF Inv, TypeOK
<1> QED BY <1>1 DEF Inv, Reading, Asked, FromLock, Anew, Fits,
               Unaudited, Audited, Passed, Wrote, Done, Installed

LEMMA LoadLockedStep ==
    ASSUME Inv, LoadLocked
    PROVE  Inv'
<1> USE DEF LoadLocked, LoadRoots, files, command
<1>1. IsPartial(roots, Specs)'
    BY DependenciesPartial DEF Inv, TypeOK
<1>2. /\ resolution' = lock /\ lock' = lock /\ lock.state = "whole"
      /\ \A a \in DOMAIN lock.roots : lock.roots[a] \in lock.packages
      /\ Closed(lock.packages)
    BY DEF MatchesManifest
<1>3. IsGraph(resolution, {"whole"})'
    BY <1>2 DEF Inv, TypeOK, IsGraph
<1>4. DOMAIN verdicts = {}
    BY DEF Inv, Unaudited
<1>5. TypeOK'
    BY <1>1, <1>2, <1>3, <1>4 DEF Inv, TypeOK
<1>6. Fits'
    BY <1>2 DEF MatchesManifest, Fits, RootFits
<1> QED BY <1>2, <1>4, <1>5, <1>6 DEF Inv, Reading, Asked, FromLock, Anew,
               Unaudited, Audited, Passed, Wrote, Done, Installed

LEMMA LoadUnlockedStep ==
    ASSUME Inv, LoadUnlocked
    PROVE  Inv'
<1> USE DEF LoadUnlocked, LoadRoots, files, command
<1>1. IsPartial(roots, Specs)'
    BY DependenciesPartial DEF Inv, TypeOK
<1>2. TypeOK'
    BY <1>1 DEF Inv, TypeOK
<1>3. ~ usedLock'
    BY DEF Inv, Reading
<1> QED BY <1>2, <1>3 DEF Inv, Reading, Asked, FromLock, Anew, Fits,
               Unaudited, Audited, Passed, Wrote, Done, Installed

LEMMA ResolveStep ==
    ASSUME Inv, NEW pick \in [DOMAIN roots -> Ids], Resolve(pick)
    PROVE  Inv'
<1> USE DEF Resolve, files, command
<1> DEFINE S == {pick[a] : a \in DOMAIN roots}
<1>1. S \subseteq Ids
    OBVIOUS
<1>2. S \subseteq Closure(S) /\ Closed(Closure(S)) /\ Closure(S) \subseteq Ids
    BY <1>1, ClosureClosed
<1>3. /\ resolution'.state = "whole" /\ resolution'.roots = pick
      /\ resolution'.packages = Closure(S)
    OBVIOUS
<1>4. DOMAIN pick = DOMAIN roots /\ IsPartial(pick, Ids)
    BY DEF Inv, TypeOK, IsPartial
<1>5. IsGraph(resolution, {"whole"})'
    BY <1>2, <1>3, <1>4 DEF IsGraph
<1>6. \A a \in DOMAIN pick : pick[a] \in Closure(S)
    BY <1>2, <1>4
<1>7. DOMAIN verdicts = {}
    BY DEF Inv, Unaudited
<1>8. TypeOK'
    BY <1>2, <1>3, <1>5, <1>6, <1>7 DEF Inv, TypeOK
<1>9. Fits'
    BY <1>3, <1>4 DEF Fits, RootFits, Picks, Parses
<1>10. ~ usedLock'
    BY DEF Inv, Reading
<1> QED BY <1>7, <1>8, <1>9, <1>10 DEF Inv, Reading, Asked, FromLock, Anew,
               Unaudited, Audited, Passed, Wrote, Done, Installed

(* ... has it audited ... *)
LEMMA AuditStep ==
    ASSUME Inv, NEW v \in [Suspects -> {"clean", "advisories", "blocked"}], Audit(v)
    PROVE  Inv'
<1> USE DEF Audit, files, command
<1>1. /\ DOMAIN verdicts' = resolution.packages
      /\ \A id \in DOMAIN verdicts' : verdicts'[id] \in {"clean", "advisories", "blocked"}
    OBVIOUS
<1>2. TypeOK'
    BY <1>1 DEF Inv, TypeOK
<1>3. Audited'
    BY <1>1 DEF Audited
<1> QED BY <1>2, <1>3 DEF Inv, Reading, Asked, FromLock, Anew, Fits, RootFits,
               Unaudited, Passed, Wrote, Done, Installed

LEMMA GateStep ==
    ASSUME Inv, Gate
    PROVE  Inv'
<1> USE DEF Gate, files, command
<1>1. TypeOK'
    BY DEF Inv, TypeOK
<1>2. Passed'
    BY DEF Inv, Audited, Passed, Blocked, Admissible
<1>3. Audited'
    BY DEF Inv, Audited
<1> QED BY <1>1, <1>2, <1>3 DEF Inv, Reading, Asked, FromLock, Anew, Fits, RootFits,
               Unaudited, Wrote, Done, Installed

LEMMA FetchStep ==
    ASSUME Inv, Fetch
    PROVE  Inv'
<1> USE DEF Fetch, files, command
<1>1. TypeOK'
    BY DEF Inv, TypeOK
<1>2. Passed' /\ Audited'
    BY DEF Inv, Passed, Audited, Admissible
<1> QED BY <1>1, <1>2 DEF Inv, Reading, Asked, FromLock, Anew, Fits, RootFits,
               Unaudited, Wrote, Done, Installed

(* ... and writes. *)
LEMMA UnlinkStep ==
    ASSUME Inv, Unlink
    PROVE  Inv'
<1> USE DEF Unlink, files, command
<1>1. IsGraph(tree, {"absent", "partial", "whole"})'
    BY EmptyPartial DEF IsGraph, Nothing
<1>2. (\A a \in DOMAIN tree.roots : tree.roots[a] \in tree.packages)' /\ Closed(tree.packages)'
    BY DEF Nothing, Empty, Closed
<1>3. TypeOK'
    BY <1>1, <1>2 DEF Inv, TypeOK
<1>4. Passed' /\ Audited'
    BY DEF Inv, Passed, Audited, Admissible
<1> QED BY <1>3, <1>4 DEF Inv, Reading, Asked, FromLock, Anew, Fits, RootFits,
               Unaudited, Wrote, Done, Installed

LEMMA LinkStep ==
    ASSUME Inv, Link
    PROVE  Inv'
<1> USE DEF Link, files, command
<1>1. TypeOK'
    BY DEF Inv, TypeOK, IsGraph
<1> QED BY <1>1 DEF Inv, Reading, Asked, FromLock, Anew, Fits, RootFits,
               Unaudited, Audited, Passed, Wrote, Done, Installed

LEMMA SaveLockStep ==
    ASSUME Inv, SaveLock
    PROVE  Inv'
<1> USE DEF SaveLock, files, command
<1>1. TypeOK'
    BY DEF Inv, TypeOK, IsGraph
<1>2. ~ usedLock'
    BY DEF Inv, Reading
<1> QED BY <1>1, <1>2 DEF Inv, Reading, Asked, FromLock, Anew, Fits, RootFits,
               Unaudited, Audited, Passed, Wrote, Done, Installed

(* It may stop anywhere. *)
LEMMA StopStep ==
    ASSUME Inv, Stop
    PROVE  Inv'
<1> USE DEF Stop, files, command
<1>1. IsPackageJson(manifest)'
    BY TornPackageJson DEF Inv, TypeOK
<1>2. IsGraph(lock, {"absent", "torn", "whole"})' /\ IsGraph(tree, {"absent", "partial", "whole"})'
    BY EmptyPartial DEF Inv, TypeOK, IsGraph, Nothing
<1>3. (\A a \in DOMAIN tree.roots : tree.roots[a] \in tree.packages)' /\ Closed(tree.packages)'
    BY DEF Inv, TypeOK, Nothing, Empty, Closed
<1>4. TypeOK'
    BY <1>1, <1>2, <1>3 DEF Inv, TypeOK
<1>5. Asked'
    BY DEF Inv, Asked, Reading
<1>6. FromLock'
    BY DEF Inv, FromLock, Reading
<1> QED BY <1>4, <1>5, <1>6 DEF Inv, Reading, Anew, Fits,
               Unaudited, Audited, Passed, Wrote, Done, Installed

LEMMA EndStep ==
    ASSUME Inv, End
    PROVE  Inv'
<1> USE DEF End, files, command
<1>1. IsGraph(resolution, {"whole"})' /\ IsPartial(roots, Specs)'
    BY EmptyPartial DEF IsGraph, Nothing
<1>2. /\ (\A a \in DOMAIN resolution.roots : resolution.roots[a] \in resolution.packages)'
      /\ Closed(resolution.packages)'
    BY DEF Nothing, Empty, Closed
<1>3. DOMAIN verdicts' = {}
    BY DEF Empty
<1>4. TypeOK'
    BY <1>1, <1>2, <1>3, TornPackageJson, InstallAssumption DEF Inv, TypeOK
<1> QED BY <1>3, <1>4 DEF Inv, Reading, Asked, FromLock, Anew, Fits,
               Unaudited, Audited, Passed, Wrote, Done, Installed

(* Between commands. *)
LEMMA EditStep ==
    ASSUME Inv, NEW m \in Handwritten, Edit(m)
    PROVE  Inv'
<1> USE DEF Edit, files, command
<1>1. TypeOK'
    BY InstallAssumption DEF Inv, TypeOK
<1> QED BY <1>1 DEF Inv, Reading, Asked, FromLock, Anew, Fits,
               Unaudited, Audited, Passed, Wrote, Done, Installed

LEMMA CheckoutStep ==
    ASSUME Inv, Checkout
    PROVE  Inv'
<1> USE DEF Checkout, files, command
<1>1. IsGraph(lock, {"absent", "torn", "whole"})'
    BY EmptyPartial DEF Inv, TypeOK, IsGraph, Nothing
<1>2. TypeOK'
    BY <1>1 DEF Inv, TypeOK
<1> QED BY <1>2 DEF Inv, Reading, Asked, FromLock, Anew, Fits,
               Unaudited, Audited, Passed, Wrote, Done, Installed

LEMMA PublishStep ==
    ASSUME Inv, NEW id \in Ids, Publish(id)
    PROVE  Inv'
<1> USE DEF Publish, files, command
<1>1. TypeOK'
    BY DEF Inv, TypeOK
<1>2. Passed' /\ Audited' /\ Fits'
    BY DEF Inv, Passed, Audited, Admissible, Fits, RootFits
<1> QED BY <1>1, <1>2 DEF Inv, Reading, Asked, FromLock, Anew,
               Unaudited, Wrote, Done, Installed

LEMMA StutterStep ==
    ASSUME Inv, UNCHANGED vars
    PROVE  Inv'
<1> USE DEF vars, files, command
<1>1. TypeOK'
    BY DEF Inv, TypeOK
<1>2. Passed' /\ Audited' /\ Fits'
    BY DEF Inv, Passed, Audited, Admissible, Fits, RootFits
<1> QED BY <1>1, <1>2 DEF Inv, Reading, Asked, FromLock, Anew,
               Unaudited, Wrote, Done, Installed

(* The invariant is inductive. *)
LEMMA NextInv ==
    ASSUME Inv, [Next]_vars
    PROVE  Inv'
<1>1. CASE \E f \in Flags : StartInstall(f)
    BY <1>1, StartStep
<1>2. CASE \E f \in Flags, a \in Aliases : \E spec \in Specs : Add(f, a, spec)
    BY <1>2, AddStep
<1>3. CASE \E f \in Flags, a \in Aliases : Remove(f, a)
    BY <1>3, RemoveStep
<1>4. CASE Run
    BY <1>4, SaveManifestStep, LoadNothingStep, LoadLockedStep, LoadUnlockedStep, ResolveStep,
       AuditStep, GateStep, FetchStep, UnlinkStep, LinkStep, SaveLockStep, EndStep DEF Run
<1>5. CASE Stop
    BY <1>5, StopStep
<1>6. CASE \E m \in Handwritten : Edit(m)
    BY <1>6, EditStep
<1>7. CASE Checkout
    BY <1>7, CheckoutStep
<1>8. CASE \E id \in Ids : Publish(id)
    BY <1>8, PublishStep
<1>9. CASE UNCHANGED vars
    BY <1>9, StutterStep
<1> QED BY <1>1, <1>2, <1>3, <1>4, <1>5, <1>6, <1>7, <1>8, <1>9 DEF Next

LEMMA Invariance == Spec => []Inv
<1>1. Init => Inv
    BY InitInv
<1>2. Inv /\ [Next]_vars => Inv'
    BY NextInv
<1> QED BY <1>1, <1>2, PTL DEF Spec

-----------------------------------------------------------------------------
(* The state of a project, and of a command on it, is always well-formed: what
   is linked has its roots and its dependencies, whatever a merge did to
   vault.lock (matches_manifest). *)
THEOREM TypeCorrect == Spec => []TypeOK
<1>1. Inv => TypeOK
    BY DEF Inv
<1> QED BY <1>1, Invariance, PTL

(* A successful install leaves node_modules as vault.lock says (lib.rs,
   install), after whatever crashes and damaged locks. *)
THEOREM TreeSafe == Spec => []TreeMatchesLock
<1>1. Inv => TreeMatchesLock
    BY DEF Inv, Done, TreeMatchesLock, TypeOK, IsGraph
<1> QED BY <1>1, Invariance, PTL

(* ... and its direct dependencies within the ranges of package.json. *)
THEOREM FitsSafe == Spec => []InstalledFits
<1>1. Inv => InstalledFits
    BY DEF Inv, Done, Fits, RootFits, Asked, Installed, InstalledFits
<1> QED BY <1>1, Invariance, PTL

(* A lock that install has just saved is one that it will accept
   (Lockfile::from_resolution and matches_manifest). *)
THEOREM SettlesSafe == Spec => []LockSettles
<1>1. ASSUME Inv, Installed, \A a \in DOMAIN roots : Parses(roots[a]) /\ roots[a].range # "*"
      PROVE  MatchesManifest(lock, roots)
  <2>1. tree = lock /\ lock = resolution
      BY <1>1 DEF Inv, Done
  <2>2. DOMAIN lock.roots = DOMAIN roots
      BY <1>1, <2>1 DEF Inv, Fits, Installed
  <2>3. \A a \in DOMAIN roots : Satisfies(lock.roots[a], roots[a])
      BY <1>1, <2>1 DEF Inv, Fits, RootFits, Installed
  <2>4. /\ lock.state = "whole"
        /\ \A a \in DOMAIN lock.roots : lock.roots[a] \in lock.packages
        /\ Closed(lock.packages)
      BY <1>1, <2>1 DEF Inv, TypeOK, IsGraph
  <2> QED BY <1>1, <2>2, <2>3, <2>4 DEF MatchesManifest
<1>2. Inv => LockSettles
    BY <1>1 DEF LockSettles
<1> QED BY <1>2, Invariance, PTL

(* A command writes vault.lock only for cause, and never when it is frozen
   (lib.rs, install: used_lockfile and opts.frozen). *)
THEOREM LockSafe == Spec => LockChangesForCause
<1>1. ASSUME Inv, [Next]_vars, pc # "idle", lock' # lock
      PROVE  ~ flags.frozen /\ ~ MatchesManifest(lock, roots)
  <2>1. SaveLock \/ Stop
    <3>1. Run \/ Stop
        BY <1>1 DEF Next, vars, files, StartInstall, Add, Remove, Edit, Checkout, Publish
    <3>2. CASE Run
        BY <1>1, <3>2 DEF Run, vars, files, SaveManifest, LoadNothing, LoadRoots, LoadLocked,
           LoadUnlocked, Resolve, Audit, Gate, Fetch, Unlink, Link, End
    <3> QED BY <3>1, <3>2
  <2>2. pc = "save" /\ ~ usedLock
      BY <1>1, <2>1 DEF SaveLock, Stop, Inv, Reading
  <2> QED BY <1>1, <2>2 DEF Inv, Anew
<1>2. Inv /\ [Next]_vars =>
        [pc # "idle" /\ lock' # lock => ~ flags.frozen /\ ~ MatchesManifest(lock, roots)]_vars
    BY <1>1
<1> QED BY <1>2, Invariance, PTL DEF Spec, LockChangesForCause

(* node_modules changes only behind the gate (lib.rs, install: the blocks are
   enforced before anything is fetched). *)
THEOREM GateSafe == Spec => GateHolds
<1> DEFINE Lawful ==
        /\ tree'.packages \subseteq DOMAIN verdicts
        /\ ~ flags.force => \A id \in DOMAIN verdicts : verdicts[id] \in Admissible
<1>1. ASSUME Inv, [Next]_vars, tree' # tree
      PROVE  Lawful
  <2>1. Unlink \/ Link \/ Stop
    <3>1. Run \/ Stop
        BY <1>1 DEF Next, vars, files, StartInstall, Add, Remove, Edit, Checkout, Publish
    <3>2. CASE Run
        BY <1>1, <3>2 DEF Run, vars, files, SaveManifest, LoadNothing, LoadRoots, LoadLocked,
           LoadUnlocked, Resolve, Audit, Gate, Fetch, SaveLock, End
    <3> QED BY <3>1, <3>2
  <2>2. \/ pc = "unlink" /\ tree' = Nothing("partial")
        \/ pc = "link" /\ tree' = resolution
      BY <1>1, <2>1 DEF Unlink, Link, Stop
  <2>3. tree'.packages \subseteq DOMAIN verdicts
      BY <1>1, <2>2 DEF Inv, Audited, Nothing
  <2>4. ~ flags.force => \A id \in DOMAIN verdicts : verdicts[id] \in Admissible
      BY <1>1, <2>2 DEF Inv, Passed
  <2> QED BY <2>3, <2>4
<1>2. Inv /\ [Next]_vars => [tree' # tree => Lawful]_vars
    BY <1>1
<1> QED BY <1>2, Invariance, PTL DEF Spec, GateHolds, Admissible
=============================================================================
