------------------------------ MODULE Resolver ------------------------------
(***************************************************************************)
(* Dependency resolution (crates/core/src/resolver.rs): one level of the    *)
(* graph at a time, every requirement of a level asked for at once and the  *)
(* answers applied in the order in which they came in.                      *)
(*                                                                          *)
(* A version is a number, in semver's order; a range stands for the set of  *)
(* versions that satisfy it.  The registry's packuments do not change:      *)
(* Registry keeps each one, once fetched, for the whole run.  Answers are   *)
(* kept in a set and applied in any order, which is what any completion     *)
(* order amounts to.                                                        *)
(***************************************************************************)
EXTENDS Integers

CONSTANTS
    Names,                \* package names
    Published,            \* the versions of each package
    Tags,                 \* its dist-tags: tag -> version
    Prerelease,           \* the versions with a pre-release part
    Satisfying,           \* range -> versions, for the ranges that parse
    NamesPrerelease,      \* the ranges that contain a '-'
    Manifest,             \* the project's requirements: alias -> spec
    Dependencies,         \* those of each published version
    OptionalDependencies  \* and its optional ones

Ids == UNION {{<<n, v>> : v \in Published[n]} : n \in Names}

Root == <<"root">>  \* stands for the project where a package is expected

ASSUME ResolverAssumption ==
    /\ Published \in [Names -> SUBSET Nat]
    /\ \A n \in Names : \A t \in DOMAIN Tags[n] : Tags[n][t] \in Nat
    /\ \A r \in DOMAIN Satisfying : Satisfying[r] \subseteq Nat

VARIABLES
    stage,     \* "running", "done" or "failed"
    waiting,   \* the requirements of this level still being asked for
    resolved,  \* the answers of this level still to be applied
    frontier,  \* the packages the answers applied so far brought in
    packages,  \* the resolved packages
    edges,     \* <<package or Root, alias>> -> the package it imports
    skipped,   \* the optional requirements left out
    known,     \* names whose packument the registry client holds
    refused    \* history: names a request for which has failed

vars == <<stage, waiting, resolved, frontier, packages, edges, skipped, known, refused>>

-----------------------------------------------------------------------------
Unresolved == -1

(* pick_version: a dist-tag of that name; "latest" for a range that asks for
   anything; else the highest version in range, pre-releases only on demand. *)
PickVersion(name, range) ==
    LET tags == Tags[name]
        fits == {v \in Published[name] :
                    /\ v \in Prerelease => range \in NamesPrerelease
                    /\ v \in Satisfying[range]}
    IN  IF range \in DOMAIN tags THEN tags[range]
        ELSE IF range \in {"", "*"} /\ "latest" \in DOMAIN tags THEN tags["latest"]
        ELSE IF range \notin DOMAIN Satisfying \/ fits = {} THEN Unresolved
        ELSE CHOOSE v \in fits : \A w \in fits : w <= v

(* parse_dep_spec and the DepReq it yields: an npm: spec names the package and
   may leave out the range; any other spec is a range for its own alias. *)
Requirement(parent, alias, spec, optional) ==
    [parent |-> parent, alias |-> alias, optional |-> optional,
     name |-> IF spec.npm = "" THEN alias ELSE spec.npm,
     range |-> IF spec.npm # "" /\ spec.range = "" THEN "*" ELSE spec.range]

RootRequirements ==
    {Requirement(Root, a, Manifest[a], FALSE) : a \in DOMAIN Manifest}

RequirementsOf(id) ==
    {Requirement(id, a, Dependencies[id][a], FALSE) : a \in DOMAIN Dependencies[id]}
    \cup {Requirement(id, a, OptionalDependencies[id][a], TRUE) :
             a \in DOMAIN OptionalDependencies[id]}

(* The package a requirement leads to. *)
Target(r) == <<r.name, PickVersion(r.name, r.range)>>

Resolvable(r) == Target(r) \in Ids

Init ==
    /\ stage = "running"
    /\ waiting = RootRequirements
    /\ resolved = {}
    /\ frontier = {}
    /\ packages = {}
    /\ edges = [e \in {} |-> <<>>]
    /\ skipped = {}
    /\ known = {}
    /\ refused = {}

-----------------------------------------------------------------------------
(* resolve_range: the packument is at hand or arrives, and a version is picked. *)
Answer(r) ==
    /\ stage = "running" /\ r \in waiting
    /\ waiting' = waiting \ {r}
    /\ resolved' = resolved \cup {[req |-> r, version |-> PickVersion(r.name, r.range)]}
    /\ known' = known \cup {r.name}
    /\ UNCHANGED <<stage, frontier, packages, edges, skipped, refused>>

(* The request for the packument fails; the next one asks again. *)
Refuse(r) ==
    /\ stage = "running" /\ r \in waiting
    /\ r.name \notin known
    /\ waiting' = waiting \ {r}
    /\ resolved' = resolved \cup {[req |-> r, version |-> Unresolved]}
    /\ refused' = refused \cup {r.name}
    /\ UNCHANGED <<stage, frontier, packages, edges, skipped, known>>

(* The whole level has been answered, and the answer a is applied next. *)
Applies(a) == stage = "running" /\ waiting = {} /\ a \in resolved

(* Mutant: the alias is taken for the package's name. *)
IdOfAlias(a) == <<a.req.alias, a.version>>

(* The package an answer names. *)
IdOf(a) == <<a.req.name, a.version>>

Import(r, id) ==
    edges' = [e \in DOMAIN edges \cup {<<r.parent, r.alias>>} |->
                 IF e = <<r.parent, r.alias>> THEN id ELSE edges[e]]

(* Mutant: a package met again is expanded again. *)
ImportKnownAgain(a) ==
    /\ Applies(a)
    /\ IdOf(a) \in packages
    /\ Import(a.req, IdOf(a))
    /\ frontier' = frontier \cup {IdOf(a)}
    /\ resolved' = resolved \ {a}
    /\ UNCHANGED <<stage, waiting, packages, skipped, known, refused>>

(* The package is in the graph already. *)
ImportKnown(a) ==
    /\ Applies(a)
    /\ IdOf(a) \in packages
    /\ Import(a.req, IdOf(a))
    /\ resolved' = resolved \ {a}
    /\ UNCHANGED <<stage, waiting, frontier, packages, skipped, known, refused>>

(* Mutant: a tag is trusted to name a published version. *)
ImportUnchecked(a) ==
    /\ Applies(a)
    /\ a.version # Unresolved /\ IdOf(a) \notin packages
    /\ packages' = packages \cup {IdOf(a)}
    /\ Import(a.req, IdOf(a))
    /\ frontier' = IF IdOf(a) \in Ids THEN frontier \cup {IdOf(a)} ELSE frontier
    /\ resolved' = resolved \ {a}
    /\ UNCHANGED <<stage, waiting, skipped, known, refused>>

(* Mutant: a new package is not expanded. *)
ImportLeaf(a) ==
    /\ Applies(a)
    /\ IdOf(a) \in Ids \ packages
    /\ packages' = packages \cup {IdOf(a)}
    /\ Import(a.req, IdOf(a))
    /\ resolved' = resolved \ {a}
    /\ UNCHANGED <<stage, waiting, frontier, skipped, known, refused>>

(* insert_node finds the version in the packument. *)
ImportNew(a) ==
    /\ Applies(a)
    /\ IdOf(a) \in Ids \ packages
    /\ packages' = packages \cup {IdOf(a)}
    /\ Import(a.req, IdOf(a))
    /\ frontier' = frontier \cup {IdOf(a)}
    /\ resolved' = resolved \ {a}
    /\ UNCHANGED <<stage, waiting, skipped, known, refused>>

(* No version, or (by way of a dist-tag) one that is not published. *)
Missing(a) == IdOf(a) \notin Ids \cup packages

(* Mutant: the edge of a skipped dependency is recorded all the same. *)
SkipButImport(a) ==
    /\ Applies(a) /\ Missing(a)
    /\ a.req.optional
    /\ skipped' = skipped \cup {a.req}
    /\ Import(a.req, IdOf(a))
    /\ resolved' = resolved \ {a}
    /\ UNCHANGED <<stage, waiting, frontier, packages, known, refused>>

(* An optional dependency that cannot be had is left out with a warning... *)
Skip(a) ==
    /\ Applies(a) /\ Missing(a)
    /\ a.req.optional
    /\ skipped' = skipped \cup {a.req}
    /\ resolved' = resolved \ {a}
    /\ UNCHANGED <<stage, waiting, frontier, packages, edges, known, refused>>

(* Mutant: any requirement that cannot be had ends the resolution. *)
AbortOnAny(a) ==
    /\ Applies(a) /\ Missing(a)
    /\ stage' = "failed"
    /\ UNCHANGED <<waiting, resolved, frontier, packages, edges, skipped, known, refused>>

(* ... and any other one ends the resolution. *)
Abort(a) ==
    /\ Applies(a) /\ Missing(a)
    /\ ~ a.req.optional
    /\ stage' = "failed"
    /\ UNCHANGED <<waiting, resolved, frontier, packages, edges, skipped, known, refused>>

LevelApplied == stage = "running" /\ waiting = {} /\ resolved = {}

(* The next level: the requirements of the packages this one brought in. *)
Expand ==
    /\ LevelApplied
    /\ frontier # {}
    /\ waiting' = UNION {RequirementsOf(id) : id \in frontier}
    /\ frontier' = {}
    /\ UNCHANGED <<stage, resolved, packages, edges, skipped, known, refused>>

Return ==
    /\ LevelApplied
    /\ frontier = {}
    /\ stage' = "done"
    /\ UNCHANGED <<waiting, resolved, frontier, packages, edges, skipped, known, refused>>

Apply(a) == ImportKnown(a) \/ ImportNew(a) \/ Skip(a) \/ Abort(a)

Next ==
    \/ \E r \in waiting : Answer(r) \/ Refuse(r)
    \/ \E a \in resolved : Apply(a)
    \/ Expand
    \/ Return

Spec == Init /\ [][Next]_vars

-----------------------------------------------------------------------------
(* The requirements the graph has so far. *)
Requirements ==
    RootRequirements \cup UNION {RequirementsOf(id) : id \in packages}

TypeOK ==
    /\ stage \in {"running", "done", "failed"}
    /\ packages \subseteq Ids
    /\ frontier \subseteq packages
    /\ waiting \cup skipped \subseteq Requirements
    /\ \A a \in resolved : a.req \in Requirements
    /\ \A e \in DOMAIN edges : e[1] \in packages \cup {Root}

(* A set of packages that holds whatever the manifest and its own members ask
   for and can have. *)
ClosedUnder(S) ==
    /\ \A r \in RootRequirements : Resolvable(r) => Target(r) \in S
    /\ \A id \in S : \A r \in RequirementsOf(id) : Resolvable(r) => Target(r) \in S

(* Nothing is resolved that is not asked for: the packages are in every closed
   set, whatever the order in which answers come in, and cycles or not. *)
Least == \A S \in SUBSET Ids : ClosedUnder(S) => packages \subseteq S

(* Every edge leads to a package of the graph, the one that a requirement of its
   source under that alias picks: what link_all follows. *)
EdgesResolved ==
    \A e \in DOMAIN edges :
        /\ edges[e] \in packages
        /\ \E r \in Requirements :
              r.parent = e[1] /\ r.alias = e[2] /\ edges[e] = Target(r)

(* A resolution that is returned is complete: every requirement of every package
   in it has its edge, or is an optional one that was skipped; and unless a
   request failed, only those that cannot be had are skipped. *)
Complete ==
    stage = "done" =>
        \A r \in Requirements :
            \/ <<r.parent, r.alias>> \in DOMAIN edges
            \/ r \in skipped /\ (Resolvable(r) => r.name \in refused)

(* Without failed requests two runs resolve to the same packages: the least
   closed set. *)
SamePackages == stage = "done" /\ refused = {} => ClosedUnder(packages)

(* A resolution fails only over a requirement that is not optional and cannot
   be had, or whose packument could not be fetched. *)
FailsForCause ==
    stage = "failed" =>
        \E r \in Requirements :
            ~ r.optional /\ (Resolvable(r) => r.name \in refused)
=============================================================================
