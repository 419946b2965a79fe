# vaultpm in TLA+

Vault is a package manager for npm packages: it resolves a project's dependencies against the npm
registry, audits them, downloads and verifies their tarballs into a content-addressable store shared by
all projects of a user, and links them into `node_modules`. This directory holds its specification:
modules translated from the Rust sources, configurations that model-check them with TLC, and theorems
checked by TLAPS.

Each `X.tla` models a component; `XProofs.tla` proves theorems about it; `MCX.tla` and the `.cfg` files
instantiate it for TLC. `PROJECT.json` maps every definition to the lines it stands for, and lists the runs, the
mutations that break each property, the hazards and the theorems. Paths below are relative to
`crates/core/src/` unless they start elsewhere.

## 1. Inventory

| Component | State | Operations | Interaction | What makes it hard |
|---|---|---|---|---|
| Store (`store.rs`) | index file per package, one file per content hash, their mtimes | `has_package`, `read_index`, `write_index`, `put_object`, `materialize` | shared by all processes of the user, no lock | files written in place, crashes, concurrent writers of one object |
| Prune (`store.rs` 171-226) | mark set, sampled clock | mark, sweep | runs beside installs | grace period against races, orphans |
| Fetcher (`fetcher.rs`, `lib.rs` 373-396) | one task per package, 24 at a time | `ensure_in_store`, `fetch_all` | registry -> store | failing tasks, wrong or empty tarballs |
| Integrity (`audit/integrity.rs`) | none | `verify_sri`, `verify_precomputed` | called by the fetcher | SRI, SHA-1 only, malformed metadata |
| Registry client (`registry.rs`) | a OnceCell per name; body and ETag files | `packument`, conditional request, retries, `write_cache` | tasks wait for one another; processes share the files | two files, no lock; the holder of the cell fails |
| Audit (`audit/mod.rs`, `cache.rs`, `osv.rs`) | cached verdicts with a date | `prime_osv_cache`, `audit_package`, the gate | cache shared by processes; OSV changes | TTL, failed requests, stale batch answers |
| Resolver (`resolver.rs`) | frontier, packages, edges | `resolve`, `insert_node`, `pick_version` | asks the registry client | order of answers, cycles, optional dependencies, tags |
| Commands (`lib.rs`, `crates/cli`) | `package.json`, `vault.lock`, `node_modules` | `install`, `add`, `remove` | call all of the above | failure and crash between two files |
| Lockfile (`lockfile.rs`), `package_json.rs` | the two files | load, match, convert, save; sections | used by the commands | a lock accepted or rejected wrongly |
| Linker (`linker.rs`) | `node_modules` with its virtual store | `link_all` | reads the store, takes the resolver's graph | aliases, cycles, what earlier tools left, a kill half-way |
| Reputation (`audit/reputation.rs`) | a record of maintainers per package | `check_maintainers`, `assess` | called by install | read, compared and rewritten by several processes; the record outlives an install that is blocked |
| OSV client (`audit/osv.rs`) | none | `query_batch`, `recommended_fix` | called by audit | chunks that fail or come back short; several lines of release |
| Static scan, typosquatting, calendar | none | `scan`, `nearest_popular`, `civil_from_days` | called by audit, install, the lock | two lists of hooks that must agree; ties; leap years |
| Sandbox, script runner, config, CLI | none that lasts | policy, child process | - | system calls |

What would make each correct:

- **Store**: an index that parses lists the files of a verified tarball and all of them are there; the
  linker never meets a gap; a package that is in stays in.
- **Prune**: removes only garbage, also while installs run; removes all of it; spares what was just written.
- **Fetcher**: only verified content is indexed; every install ends; success means that the linker can read
  every package.
- **Registry client**: what it serves is at least as new as the registry was when asked; a waiting task is
  always answered.
- **Audit**: no package passes the gate, and none is blocked, over what OSV said longer ago than a bound.
- **Resolver**: the graph is complete, holds nothing that is not asked for, and does not depend on timing.
- **Linker**: whatever a package requires and got, Node finds, and nothing it did not declare; commands lead to files
  that are there; linking fails only for cause, and ends.
- **Reputation**: no maintainer gets into the record unnoticed.
- **OSV client and lock**: answers go to the package they are about; a recommended fix heals; an install from the lock
  scans and verifies what the install that wrote it did.
- **Commands**: after success, `node_modules`, `vault.lock` and `package.json` agree; a lock changes only for
  cause; a block leaves the tree alone.

The hazards, each at its line and with the properties that cover it, are in `PROJECT.json`.

## 2. The modules and how they correspond to the code

```
Integrity ────┬─ Fetcher ─┬─ StoreSystem ─── StoreProofs      Resolver ──┬── ResolverProofs
ContentStore ─┼───────────┘      │  ··implements··            Linker ────┴── LinkerProofs
              └─ Prune ──────────┘  PackageLibrary            (MCResolver)
           (MCStore)
Integrity ─── Lockfile ──┐                                    Maintainers ─┐
Osv ─────────────────────┼─ AuditSystem ── AuditProofs        CivilDates ──┼─ Reputation ── ReputationProofs
Audit ───────────────────┘   (MCAudit)                        Typosquat ───┘  (MCReputation)

PackumentCache ── PackumentProofs  (MCPackuments)             Install ─── InstallProofs  (MCInstall)

Inductions: facts about numbers and sequences, for AuditProofs and ReputationProofs
```

**`Integrity`** - `VerifyPrecomputed` is the check the fetcher runs on digests computed while streaming;
`VerifySri` what an SRI string means. A digest is identified with the tarball that has it, except that SHA-1 may
collide.

**`ContentStore`** - the disk. `index[p]` is absent, torn or whole; `fs::write` is two steps (`TruncateIndex`,
`FillIndex`), since another process, or a crash, can come between them. `put_object` is the write of a uniquely
named temporary (`WriteTemp`) and its rename (`RenameTemp`), which fails quietly when the temporary is gone. An
object's modification time is kept because prune compares it with its clock.

**`Prune`** - `PruneRead` marks one index at a time, `PruneSample` takes the clock, `PruneObject` and
`PruneTemp` look at one entry each, in any order. The age of an entry newer than the sample is taken for the
whole grace period, as `unwrap_or(GRACE)` does.

**`Fetcher`** - one task per process and package: `Check`, `Receive` (download and verify), `PutObject`/`Rename`
for each file, `BeginIndex`/`CompleteIndex`, with `EmptyTarball` and `FetchFails` as the errors. At most
`Concurrency` tasks are in flight. `EndFetch` is `fetch_all` collecting all results before it returns the first
error; `LinkPackage` is the linker reading the index and every object.

**`StoreSystem`** - composes the three. `Spec` interleaves everything with everything. `QuietSpec` keeps prune
apart from installs: the code does not enforce it, so it is an assumption on the user, and the two kinds of
results are kept apart. **`PackageLibrary`** is the abstract specification: a library that only grows and serves a
client only when it holds all that was asked for. `Library` maps the store to it: a package is in the library when all
its objects are there, and a process has asked from the start of its install to its end.

**`PackumentCache`** - one name, several processes, several tasks in each. The cell is filled by one holder; the
others wait, and one of them takes over if it fails (`FailedCallers`, `Fill`). The body and the ETag are truncated
and filled apart (`OpenBody` ... `CloseEtag`), because two processes do so at once.

**`Audit`** - `Batch` asks OSV for all packages that the cache misses, and `PrimeClean` files a clean verdict for each that
came back without ids. A single query, of `prime_osv_cache` or of `audit_package`, is three steps: it is sent (`Ask`),
OSV answers or the request fails (`Reply`), and the answer is filed (`PrimeQuery`, `AuditQuery`), whatever OSV says and
whoever has filed another one by then. `AuditCached` is `audit_package` with a verdict in the cache, `Gate` is `install`'s
decision. At any time OSV may publish an advisory, change its severity or withdraw it (`Revise`); `since` is how long ago
it began, or ceased, to call the package critical. Any request may fail: to its caller a failed batch looks like an
empty list, and a failed query like one that found nothing (`osv::query` returns an empty list for it), and
either is filed as a clean verdict. Ages count up to a cap beyond which they no longer matter.

**`Resolver`** - answers come in a set and are applied in any order. `PickVersion` is `pick_version` with its
order of tests (tag, any, range). A level is expanded when all its answers have been applied.

**`Linker`** - extends `Resolver`: when the resolution is done, `Clear` removes the tree (any of `Leftovers` may be in
it), `Materialize` puts a package's files in its own place in the virtual store, `Wire` makes the symlink for an edge -
those of packages first, then the project's, as the code does (`Turn`) - and `LinkBins` the commands of an import.
`MaterializeFails` is a package the store lost, `WireFails` a directory in the symlink's way. `Restart` is a kill, or the next
install with the same resolution. A place (a `node_modules` directory) and an alias make an edge in the graph and a slot in
the tree; `Loaded` is Node's search, beside the package and then in the project.

**`Install`** - one project directory. `StartInstall`, `Add` and `Remove` begin a command, `SaveManifest` saves
`package.json`; the pipeline follows through `Load*`, `Resolve`, `Audit`, `Gate`, `Fetch`, `Unlink`, `Link`,
`SaveLock`. `Stop` is every `?` on the way and every kill, and tears the file that was being written. Between
commands the user edits `package.json` (`Edit`), version control removes or damages `vault.lock` (`Checkout`), and
at any time the registry publishes (`Publish`). `MatchesManifest` is `matches_manifest`, with all that it does not
compare. A command that fails before it has changed anything is not a step.

**`Maintainers`** - one package's record and several installs over it. `Compare` reads it and notes who is new,
`Truncate` and `Fill` are `fs::write`, `Succeed` prints the warnings, `Stop` is the install that is blocked, fails or is
killed. Whoever was recorded without a warning is remembered in `untold`.

**`Osv`**, **`Lockfile`**, **`CivilDates`**, **`Typosquat`** - pure algorithms, each with the definition it is compared
to: which versions an advisory affects, what the scan finds and a tarball's verification says before and after a lock's
round trip, the calendar from one day to the next, and names by single edits. They have no state. Their inputs are
constants (`Advisories`, `Batches`, `Metas`, `Days`, `Names`...), of which the assumptions say what the code takes for
granted: that OSV lists a range's events by turns in ascending order (`recommended_fix` walks them with the last
`introduced` in hand, and does not sort), and that a reply is about the packages that were asked for.

**`AuditSystem`**, **`Reputation`** - the state machine of a component together with the algorithms it uses. Each has its
algorithms' properties, for all inputs, in the states `AtStart`: an algorithm does not depend on the state, so TLC looks
at it once.

## 3. The runs

| Run | Specification | Instance | What it asks |
|---|---|---|---|
| `store_quiet` | `LiveSpec` (prune apart) | 2 processes that want different packages, 4 packages of the same files, one of them published empty, one download at a time | closure of indexes, no dangling link, prune collects everything, installs and prunes end, refinement of `PackageLibrary` |
| `store_races` | `Spec` | 2 processes that share a package, 2 packages that share a file, 2 downloads at a time | what remains true when prune and installs overlap |
| `prune_grace` | `Spec` | violation | the grace period does not protect an object written after the sample |
| `torn_index` | `Spec` | violation | a torn index counts as a package that is present |
| `packuments` | `LiveSpec` | 2 processes with 2 tasks each | freshness and tag order without overlap; every call ends |
| `stale_packument` | `Spec` | violation | two writers leave an old body under a new ETag |
| `audit` | `LiveSpec` | 2 processes, 1 package; the OSV client and the lock over small inputs | bound on the staleness of a verdict that lets an install pass, and of one that blocks it; audits end; `FixHeals`, `HintClears`, `BatchAligned`, `LockKeeps` |
| `audit_cold` | `Spec` | violation | a failed request is filed as a clean verdict |
| `reputation` | `Spec` | 2 processes, 3 people; dates and names over small inputs | nobody gets on record unnoticed; `DatesAgree`, `SquatsSeen` |
| `resolver` | `LinkLiveSpec` | 5 packages, a cycle, an alias, tags, optional dependencies, a package that imports itself, leftovers, one restart of linking | completeness, minimality, independence from order; Node finds what was asked for and no more; commands; linking fails for cause; both end |
| `install` | `Spec` | 2 packages in 2 versions, 5 sets of options | agreement of tree, lock and manifest over sequences of commands |
| `lock_declares` | `Spec` | violation | a lock with another package under the same alias is accepted |

A run that passes shows its properties on the instance; for each of its properties `PROJECT.json` names a mutation of
a modelled operation, one a programmer could make, under which TLC finds the property violated.

### Findings

1. **Prune removes what was just written** (`store.rs` 213). `now` is sampled before the sweep; the age of an object
   written after that is an error, taken for the whole grace period, so the object is removed although the comment at
   `store.rs` 187-189 promises the opposite. An age that cannot be computed should count as zero.
2. **A torn index counts as present** (`store.rs` 121, 165). `write_index` is not atomic and `has_package` asks only
   for existence: after a crash the package can neither be linked nor is it fetched again.
3. **A stale packument is confirmed** (`registry.rs` 289). Two processes interleave their two writes.
4. **A failed OSV request becomes a clean verdict** (`audit/mod.rs` 75), kept for the TTL, against the comment at
   `audit/mod.rs` 51-52.
5. **A lock is accepted for another package** (`lockfile.rs` 117). `matches_manifest` drops the name in a root's id:
   after `"x": "npm:y@^1"` was installed, `"x": "^1"` installs `y` as `x`.

Met on the way, and without a run of their own:

- **Prune removes what an index lists** (`store.rs` 178). Indexes are read first and objects swept later: an index that was
  being written meanwhile, or is written later over objects that lay there as orphans, does not protect them. They
  must be older than the grace window when the clock is sampled, or younger than the sample (finding 1).
- **An object is lost on its way into the store** (`store.rs` 153). Prune takes a temporary file for garbage; the rename then
  fails, which `put_object` takes for another writer's success. An index that lists the missing object is written next.
- **The recommended upgrade may be blocked too** (`audit/mod.rs` 129-134). "The lowest upgrade that clears the
  critical/high advisories" is the highest fix there is: with an advisory that has no fix beside one that is fixed in 4, it is
  "upgrade to >= 4", where the first still blocks. What is true of it is `HintClears`: it clears the advisories of one
  line of release that ends.
- **A new maintainer may go on record unseen** (`audit/reputation.rs` 111). The record is written before the gate
  (`lib.rs` 177). When the install is then blocked, or fails, its warning is never printed and the next install has nothing
  to warn of. `ChangesTold` has this exception, `untold`.
- **`install --production` does not use the lock** (`lockfile.rs` 110) when there are development dependencies: the number of
  roots differs. It resolves anew and saves a lock without them, and under `--frozen-lockfile` it fails, although the lock
  satisfies `package.json`. `LockChangesForCause` is about the requirements under the options and does not object.
- **Removing the last dependency leaves it linked** (`lib.rs` 83 against 236), and in the lock.
- **`vault add` of a development dependency is overridden** by the old entry (`package_json.rs` 61). `InstalledFits` merges
  the sections as the code does.
- "Each package can only require the dependencies it actually declared" (`linker.rs` 14-16) is true of a package's own
  place; the virtual store lies inside the project's `node_modules`, which Node searches next, so what the project declares
  can be loaded by all. `NoHoisting` and `RequireFinds` say what is left of it.
- A package that depends on its own name cannot be linked: its files are in the way of the symlink (`linker.rs` 59).
- A package that has one alias in both `dependencies` and `optionalDependencies`, with different specs, gets the edge of
  whichever answer comes last (`resolver.rs` 178). `EdgesResolved` accepts either.
- An SRI string that is empty makes a fetch fail, until the lock turns it into none and the SHA-1 counts
  (`lockfile.rs`, `to_resolution`); `LockKeepsVerdict` has the exception.
- An advisory that lists several packages has all their ranges mixed (`audit/osv.rs` 233), and a fix can then lie inside
  another range; `FixIsNearest` asks only of ranges that are apart (`Separate`).

### Bounds, and why they are enough

- **Store**: `store_races` has two processes and two packages that share an object, the smallest instance in which every
  pair of actors meets (install with install on one package, on one shared object, install with prune). `store_quiet`
  has two packages for each process, so that one is left when the other fails, and one download at a time, so that they
  queue. Clock values 0 to 1 or
  2 with `Grace = 1` give an object younger than, as old as and older than the window; `MaxRuns` lets a process start
  again after a crash, `MaxPrunes = 1` because the state that prunes share is the store itself.
- **Packuments**: versions 1 and 2 tell old from new; two attempts give a first try and a retry; two processes with two
  tasks give a holder, a waiter and a competitor. `packuments` starts each process without a restart budget of its own
  beyond `MaxRuns = 1`; `stale_packument` allows 3.
- **Audit**: packages share nothing but the order in which they are asked for, so one package, with two
  processes and three runs, shows the staleness; `TTL = 1` and `MaxLag = 1` give ages before, at and after
  the TTL. `MaxLag` bounds how long an audit takes: without it no bound on staleness exists.
- **Resolver**: the registry has a cycle, a package in two versions, a name that is only an alias, a tag whose version is
  gone, a pre-release, a range nothing satisfies and one that does not parse; `MCResolver` says where.
- **Linker**: the leftovers are a directory in a symlink's place and a link of an earlier virtual store; two imports of one
  importer bring the same command; one restart lets linking begin over each of its half-done trees.
- **Reputation**: three people, so that somebody leaves while another joins; three runs, so that each of two processes
  has a record to compare with. Days: the three years from 1970, 1999, 2099 and 2399 on, so that there are centuries
  with and without a leap day, and 2024. Names: all of up to seven of two letters, against a list with a tie, a name within
  another and one that is too short.
- **Algorithms of the audit**: every advisory of up to two ranges over six versions, which have up to three lines of release
  each, and every two advisories of a range of up to two lines that block together; five packages in chunks of one to four,
  with every reply missing, cut short at every length, or filled up beyond the packages; scripts that block, warn or hide
  behind escapes.
- **Install**: two packages, two versions and one that comes out later are what it takes for a lock to be out of date, for an
  alias to hide a package and for a dependency to be reached only through another. The number of commands is not bounded.

Deadlock is not checked where the model stops by itself: when the bounds on runs are used up or
the one resolution is done. `install` has steps from every state.

### Fairness

Liveness is checked under weak fairness of each process's own steps (`ProcStep`, `PruneStep`, `Proceed`, the
resolver's `Next` and `LinkStep`): the operating system and tokio schedule a process that can go on. It includes that each
request is answered or fails. The code sets no timeout on its HTTP client (`registry.rs` 102), so that part is an assumption about the
network, listed as a hazard. `Maintainers` has no liveness. Nothing is assumed of crashes, publications, OSV's revisions or of a user starting commands.

`store_quiet` and the theorems for `QuietSpec` assume that nobody prunes while anybody installs. What goes wrong otherwise
is finding 1 and the first two of the list after the findings, and what still holds then is `store_races`. `ImplementsLibrary` also assumes that no two processes want the
same package at once: otherwise one may read an index that the other is writing (finding 2).

## 4. What is proved

TLAPS checks these for every value of the constants, under the modules' `ASSUME`s: types of the constants; for the store,
that a SHA-1 vouches for at most one tarball of a package's metadata; for OSV, that a range's events come by turns in
ascending order and that a reply is about the packages it answers for, neither of which the code verifies. TLC evaluates the
assumptions in the runs. Every invariant and every action property of the runs that pass, and the refinement, is a theorem;
only the four liveness properties are not.

| Module | Theorems | Argument |
|---|---|---|
| `StoreProofs` | `TypeCorrect`, `VerifiedSafe`, `SettledSafe` for `Spec`; `ClosedSafe`, `NoDanglingSafe`, `CollectsSafe` for `QuietSpec`; `LibraryImplemented`: `QuietSpec` implements `PackageLibrary` when no two processes want the same package, and `InstalledStays`, what follows from the library's promise | `InHand`: a task past verification holds a trusted tarball. `SettledSeen`: once prune has passed a settled index, its objects are marked. For closure, `ExtractedSoFar` ties a task's progress to the store and `IndexedSeen` extends the marking to every index, which needs prune apart from installs. `Swept`: what the walk has passed is marked or young, and marks come from readable indexes, which nobody rewrites meanwhile. For the refinement, `Alone`: whoever extracts a package is alone with its index, so an index that is whole is never reopened, and `Closed` makes it a package of the library; each step is then one of the library's or leaves it alone |
| `PackumentProofs` | `TypeCorrect`, `FreshSafe`, `TagSafe` | without overlap one process writes at a time, and what is on disk is ordered by where that process is between its two files |
| `AuditProofs`: the cache | `TypeCorrect`, `GateSafe`, `BlockedSafe` | follows one change of what OSV says, either way: how long ago it can have been while a list, an answer on its way, a cached verdict or an audit still has what was true before (`Off`). A list or an answer is as old as its audit at most; the cache adds the TTL and the lag of the audit that filed it, since a verdict is dated when it is written; the audit that uses it adds its own lag: the horizon, `TTL + 2 * MaxLag`. Dates that are renewed when a verdict is used would break it |
| `AuditProofs`: OSV | `FixSafe`, `HintSafe`, `BatchSafe` | `OnLine`: a range affects a version if one of its lines holds it, and the fixes the code chooses among are where those lines end (`FixesAre`); no version before the lowest of them is free, and that one is, when no line ends inside another. `Chunks`, `Placed`: the chunks tile the packages, so what `FlattenSeq` joins is, chunk by chunk, the first packages' answers (`BatchJoined`) |
| `AuditProofs`: the lock | `LockSafe` | the two lists of hooks are equal (`HooksKept`); only an empty SRI string is changed by the round trip |
| `ResolverProofs` | `TypeCorrect`, `EdgesSafe`, `LeastSafe`, `CompleteSafe`, `FailsForCauseSafe`, `SamePackagesSafe`, `OrderIrrelevant` | `Answers`: an answer is what `pick_version` says or a refusal. `Accounted`: no requirement of an expanded package is lost on its way. `Brought`: what was applied is in the graph, also when another requirement has taken over its edge. The packages are then both in every closed set and a closed set themselves, so that they are the one set `Needed`, in which the order has no part: what `Install` takes for granted as `Closure` |
| `LinkerProofs` | `RequireFindsSafe`, `NoHoistingSafe`, `BinsRunSafe`, `LinkFailsForCauseSafe` for `LinkSpec` | the graph is fixed once linking begins, and the resolver's invariant goes with it; `Built` and `Offered` say that what `todo` no longer has is in place and nothing else is |
| `ReputationProofs`: the record | `ChangesToldSafe` | `Compared`: whom a process is about to record is accounted for, or in the warning it carries; no step takes a name out of the account |
| `ReputationProofs`: dates | `DatesAgreeSafe` | a day belongs to one era, year and day of a calendar whose years begin in March (`EveryDay`); `civil_from_days` takes it apart the way that calendar puts it together (`YearFound`), the day after it is tomorrow's date (`FollowsCalendar`), and `days_from_civil` puts the parts together again (`InverseOfEachOther`) |
| `ReputationProofs`: names | `SquatsSeenSafe` | `levenshtein`'s rows are those of an endless table (`TableKept`), which makes the distance a function of the last letters of two names (`LastStep`); no edit brings a name nearer by more than one (`EditsClose`) and some edit does by one (`NearerThan`), so what is at most n away is what n edits reach (`NearIs`); the scan keeps the first of the nearest (`ScanBest`) |
| `Inductions` | lemmas only | see below |
| `InstallProofs` | `TypeCorrect`, `TreeSafe`, `FitsSafe`, `SettlesSafe`, `LockSafe`, `GateSafe` | follows one command: what it has read, where its resolution comes from, what the gate said and what it has written; `FromLock` says that a resolution read from a lock is still that lock, `Anew` that one made anew had cause |

The properties alone are not inductive: `Closed`, for instance, says nothing of a task that is about to write an index,
nor of a prune that has passed the index but not yet swept. Each proof module starts with its invariant and says what the
added parts are for; they were checked with TLC first.

Most algorithms here compute by recursion or over a sequence of any length. The library's induction theorems take
a predicate as a parameter, which no installed prover can fill in, so `Inductions` has induction for sets: a set with 0, and
with n also n + 1, holds every number (`Induct`, from the theorem that a set of numbers has a minimal element), and likewise
for sequences (`SeqInduct`). A proof by induction defines the set of the numbers for which its claim is true. `Recursion` is
the existence of a function that a recursive definition describes, without which nothing can be said of the definition.

Only model-checked: the liveness properties (`WorkEnds`, `CallsEnd`, `AuditEnds`, `LinkingEnds`: fairness and `ENABLED` are
beyond the prover), and every violation. `ChangesTold` is proved with the type invariant of `Maintainers`, which no run checks by
itself.

## 5. Not modelled

- The contents of files, messages and progress output; tar and path handling in the extraction; hash functions
  (collisions other than SHA-1's are excluded). Scripts are what the scan's rules find in them; the tables of needles,
  of severities and of popular names are data.
- `check_peers`: it warns of ranges that the finished graph does not satisfy, and changes nothing. An install
  from the lock gives no such warnings, since `to_resolution` leaves peer dependencies out.
- `cveStatus` and `auditedAt` in the lock, which nothing reads; the content of `node_modules/.package-lock.json`.
- The threshold on weekly downloads (`reputation.rs`): one comparison.
- Input and output errors of the local disk beyond those named in section 2: an index that is whole and cannot be read (prune
  skips it and sweeps what it lists), an object that cannot be removed, a `node_modules` that cannot be removed or written to
  (`linker.rs` 28-34, 76-82). `LinkFailsForCause` and `PruneCollects` are about disks that work.
- Dependencies that resolve to something else when packages are published: in `Install` a package's dependencies always lead to
  the same packages, and only the project's own requirements move on. `Resolver` has the choice in full, for one resolution.
- Two commands at once on one project directory: `Install` follows one, `Linker` its restarts.
- Sandbox: a fixed sequence of system calls between fork and exec, whose meaning is the kernel's. Script runner: one
  child process. Configuration: constants of the modules. Printing, completions, npm launchers, installers: no state.
- Versions are numbers; semver ranges are sets of them, given by the instance.

## 6. Plan

Done: the store with prune and fetcher and the abstract library it implements, the registry client, the audit with the OSV
client, the resolver and the linker over its graph, the commands, the lock, the maintainer records and the pure
checks, each with its runs, and proofs of all that is safety.

Next, in this order:

1. `Linker` under `Install`: `Link` there as an abstraction of `LinkNext`, so that `TreeMatchesLock` speaks of the tree that
   Node sees.
2. `Install` with two commands at once on one project, with dependencies that move on with publications, and with properties
   for what section 3 reports of `--production`, `vault remove` and `vault add`.
3. `check_peers` against a definition by the finished graph.
