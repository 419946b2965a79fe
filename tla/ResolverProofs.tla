--------------------------- MODULE ResolverProofs ---------------------------
(***************************************************************************)
(* What Resolver's resolution returns, for every registry and manifest.     *)
(*                                                                          *)
(* The inductive invariant adds to the properties what the level in         *)
(* progress knows: an answer is what pick_version says or a refusal         *)
(* (Answers), and no requirement of an expanded package gets lost between   *)
(* being asked for and being applied (Accounted).                           *)
(***************************************************************************)
EXTENDS Resolver, TLAPS

(* An answer is the version its requirement picks, or stands for a refusal. *)
Answers ==
    \A a \in resolved :
        \/ a.version = PickVersion(a.req.name, a.req.range)
        \/ a.version = Unresolved /\ a.req.name \in refused

(* A requirement that is on its way, has its edge, or was skipped for cause. *)
Handled(r) ==
    \/ r \in waiting
    \/ \E a \in resolved : a.req = r
    \/ <<r.parent, r.alias>> \in DOMAIN edges
    \/ r \in skipped /\ (Resolvable(r) => r.name \in refused)

Expanded == RootRequirements \cup UNION {RequirementsOf(id) : id \in packages \ frontier}

Accounted == \A r \in Expanded : Handled(r)

Drained == stage = "done" => waiting = {} /\ resolved = {} /\ frontier = {}

Inv ==
    /\ TypeOK
    /\ Answers
    /\ Accounted
    /\ Drained
    /\ EdgesResolved
    /\ Least
    /\ FailsForCause

-----------------------------------------------------------------------------
(* A requirement carries the package it belongs to. *)
LEMMA Owner ==
    /\ \A r \in RootRequirements : r.parent = Root
    /\ \A id : \A r \in RequirementsOf(id) : r.parent = id
<1>1. ASSUME NEW r \in RootRequirements PROVE r.parent = Root
  <2>1. PICK a \in DOMAIN Manifest : r = Requirement(Root, a, Manifest[a], FALSE)
      BY DEF RootRequirements
  <2> QED BY <2>1 DEF Requirement
<1>2. ASSUME NEW id, NEW r \in RequirementsOf(id) PROVE r.parent = id
  <2>1. CASE \E a \in DOMAIN Dependencies[id] :
                r = Requirement(id, a, Dependencies[id][a], FALSE)
    <3>1. PICK a : r = Requirement(id, a, Dependencies[id][a], FALSE)
        BY <2>1
    <3> QED BY <3>1 DEF Requirement
  <2>2. CASE \E a \in DOMAIN OptionalDependencies[id] :
                r = Requirement(id, a, OptionalDependencies[id][a], TRUE)
    <3>1. PICK a : r = Requirement(id, a, OptionalDependencies[id][a], TRUE)
        BY <2>2
    <3> QED BY <3>1 DEF Requirement
  <2> QED BY <1>2, <2>1, <2>2 DEF RequirementsOf
<1> QED BY <1>1, <1>2

(* Whoever is in the graph has its parent there. *)
LEMMA OwnerIn == \A r \in Requirements : r.parent \in packages \cup {Root}
BY Owner DEF Requirements

(* No package has the version that stands for none. *)
LEMMA IdIsPublished == \A n, v : <<n, v>> \in Ids => v # Unresolved
<1> SUFFICES ASSUME NEW n, NEW v, <<n, v>> \in Ids PROVE v # Unresolved
    OBVIOUS
<1>1. PICK m \in Names : <<n, v>> \in {<<m, w>> : w \in Published[m]}
    BY DEF Ids
<1>2. v \in Published[m]
    BY <1>1
<1>3. v \in Nat
    BY <1>2, ResolverAssumption
<1> QED BY <1>3 DEF Unresolved

(* An answer that names a package leads where its requirement does. *)
LEMMA Leads ==
    ASSUME TypeOK, Answers, NEW a \in resolved, IdOf(a) \in Ids
    PROVE  /\ a.req \in Requirements
           /\ IdOf(a) = Target(a.req)
           /\ Resolvable(a.req)
<1>1. a.version # Unresolved
    BY IdIsPublished DEF IdOf
<1>2. a.version = PickVersion(a.req.name, a.req.range)
    BY <1>1 DEF Answers
<1> QED BY <1>2 DEF TypeOK, IdOf, Target, Resolvable

(* Requirements of the graph are never lost. *)
LEMMA Grow ==
    ASSUME packages \subseteq packages'
    PROVE  Requirements \subseteq Requirements'
BY DEF Requirements

-----------------------------------------------------------------------------
LEMMA Initially == Init => Inv
<1> SUFFICES ASSUME Init PROVE Inv
    OBVIOUS
<1> USE DEF Init
<1>1. TypeOK
    BY DEF TypeOK, Requirements
<1>2. Answers /\ Drained /\ EdgesResolved /\ Least /\ FailsForCause
    BY DEF Answers, Drained, EdgesResolved, Least, FailsForCause
<1>3. Accounted
    BY DEF Accounted, Expanded, Handled
<1> QED BY <1>1, <1>2, <1>3 DEF Inv

(* Asking: the graph stays as it is, and the requirement moves on. *)
LEMMA AnswerKeeps == ASSUME Inv, NEW r \in waiting, Answer(r) PROVE Inv'
<1> USE DEF Inv
<1>1. Requirements' = Requirements /\ Expanded' = Expanded
    BY DEF Answer, Requirements, Expanded
<1>2. TypeOK'
    BY <1>1 DEF TypeOK, Answer
<1>3. Answers'
    BY DEF Answers, Answer
<1>4. Accounted'
  <2> SUFFICES ASSUME NEW s \in Expanded PROVE Handled(s)'
      BY <1>1 DEF Accounted
  <2>1. Handled(s)
      BY DEF Accounted
  <2>2. CASE s = r
    <3> DEFINE a == [req |-> r, version |-> PickVersion(r.name, r.range)]
    <3>1. a \in resolved' /\ a.req = s
        BY <2>2 DEF Answer
    <3> QED BY <3>1 DEF Handled
  <2>3. CASE s # r
      BY <2>1, <2>3 DEF Handled, Answer, Resolvable, Target
  <2> QED BY <2>2, <2>3
<1>5. (Drained /\ EdgesResolved /\ Least /\ FailsForCause)'
    BY <1>1 DEF Answer, Drained, EdgesResolved, Least, FailsForCause
<1> QED BY <1>2, <1>3, <1>4, <1>5

LEMMA RefuseKeeps == ASSUME Inv, NEW r \in waiting, Refuse(r) PROVE Inv'
<1> USE DEF Inv
<1>1. Requirements' = Requirements /\ Expanded' = Expanded
    BY DEF Refuse, Requirements, Expanded
<1>2. TypeOK'
    BY <1>1 DEF TypeOK, Refuse
<1>3. Answers'
    BY DEF Answers, Refuse
<1>4. Accounted'
  <2> SUFFICES ASSUME NEW s \in Expanded PROVE Handled(s)'
      BY <1>1 DEF Accounted
  <2>1. Handled(s)
      BY DEF Accounted
  <2>2. CASE s = r
    <3> DEFINE a == [req |-> r, version |-> Unresolved]
    <3>1. a \in resolved' /\ a.req = s
        BY <2>2 DEF Refuse
    <3> QED BY <3>1 DEF Handled
  <2>3. CASE s # r
      BY <2>1, <2>3 DEF Handled, Refuse, Resolvable, Target
  <2> QED BY <2>2, <2>3
<1>5. (Drained /\ EdgesResolved /\ Least /\ FailsForCause)'
    BY <1>1 DEF Refuse, Drained, EdgesResolved, Least, FailsForCause
<1> QED BY <1>2, <1>3, <1>4, <1>5

(* Either way of importing leaves every edge, the new one included, right. *)
LEMMA ImportRight ==
    ASSUME Inv, NEW a \in resolved, IdOf(a) \in Ids,
           packages \subseteq packages', IdOf(a) \in packages',
           Import(a.req, IdOf(a))
    PROVE  EdgesResolved'
<1> DEFINE e0 == <<a.req.parent, a.req.alias>>
<1>1. a.req \in Requirements /\ IdOf(a) = Target(a.req)
    BY Leads DEF Inv
<1>2. Requirements \subseteq Requirements'
    BY Grow
<1> SUFFICES ASSUME NEW e \in DOMAIN edges'
             PROVE  /\ edges'[e] \in packages'
                    /\ \E r \in Requirements' :
                          r.parent = e[1] /\ r.alias = e[2] /\ edges'[e] = Target(r)
    BY DEF EdgesResolved, Target
<1>3. CASE e = e0
  <2>1. edges'[e] = IdOf(a)
      BY <1>3 DEF Import
  <2>2. a.req.parent = e[1] /\ a.req.alias = e[2]
      BY <1>3
  <2> QED BY <1>1, <1>2, <2>1, <2>2
<1>4. CASE e # e0
  <2>1. e \in DOMAIN edges /\ edges'[e] = edges[e]
      BY <1>4 DEF Import
  <2> QED BY <1>2, <2>1 DEF Inv, EdgesResolved
<1> QED BY <1>3, <1>4

(* An answer taken off leaves its requirement's edge behind. *)
LEMMA ImportHandles ==
    ASSUME Inv, NEW a \in resolved, Import(a.req, IdOf(a)),
           resolved' = resolved \ {a}, UNCHANGED <<waiting, skipped, refused>>,
           NEW r, Handled(r)
    PROVE  Handled(r)'
<1>1. DOMAIN edges' = DOMAIN edges \cup {<<a.req.parent, a.req.alias>>}
    BY DEF Import
<1>2. CASE r = a.req
    BY <1>1, <1>2 DEF Handled
<1>3. CASE r # a.req
    BY <1>1, <1>3 DEF Handled, Resolvable, Target
<1> QED BY <1>2, <1>3

LEMMA ImportKnownKeeps == ASSUME Inv, NEW a \in resolved, ImportKnown(a) PROVE Inv'
<1> USE DEF Inv
<1>1. Requirements' = Requirements /\ Expanded' = Expanded
    BY DEF ImportKnown, Requirements, Expanded
<1>2. IdOf(a) \in Ids
    BY DEF ImportKnown, TypeOK
<1>3. EdgesResolved'
    BY <1>2, ImportRight DEF ImportKnown
<1>4. TypeOK'
  <2>1. \A e \in DOMAIN edges' : e[1] \in packages' \cup {Root}
      BY <1>1, <1>3, OwnerIn DEF EdgesResolved, ImportKnown
  <2> QED BY <1>1, <2>1 DEF TypeOK, ImportKnown
<1>5. Answers'
    BY DEF Answers, ImportKnown
<1>6. Accounted'
    BY <1>1, ImportHandles DEF Accounted, ImportKnown
<1>7. (Drained /\ Least /\ FailsForCause)'
    BY <1>1 DEF ImportKnown, Applies, Drained, Least, FailsForCause
<1> QED BY <1>3, <1>4, <1>5, <1>6, <1>7

LEMMA ImportNewKeeps == ASSUME Inv, NEW a \in resolved, ImportNew(a) PROVE Inv'
<1> USE DEF Inv
<1>1. /\ IdOf(a) \in Ids \ packages
      /\ packages' = packages \cup {IdOf(a)}
      /\ Requirements \subseteq Requirements'
    BY Grow DEF ImportNew
<1>2. Expanded' = Expanded
    BY <1>1 DEF ImportNew, Expanded, TypeOK
<1>3. EdgesResolved'
    BY <1>1, ImportRight DEF ImportNew
<1>4. TypeOK'
  <2>1. \A e \in DOMAIN edges' : e[1] \in packages' \cup {Root}
    <3>1. \A r \in Requirements' : r.parent \in packages' \cup {Root}
        BY OwnerIn, Owner DEF Requirements
    <3> QED BY <3>1, <1>3 DEF EdgesResolved
  <2>2. waiting' \cup skipped' \subseteq Requirements'
      BY <1>1 DEF TypeOK, ImportNew
  <2>3. \A b \in resolved' : b.req \in Requirements'
      BY <1>1 DEF TypeOK, ImportNew
  <2> QED BY <1>1, <2>1, <2>2, <2>3 DEF TypeOK, ImportNew
<1>5. Answers'
    BY DEF Answers, ImportNew
<1>6. Accounted'
    BY <1>2, ImportHandles DEF Accounted, ImportNew
<1>7. Least'
  <2> SUFFICES ASSUME NEW S \in SUBSET Ids, ClosedUnder(S)
               PROVE  packages' \subseteq S
      BY DEF Least, ClosedUnder, Resolvable, Target
  <2>1. packages \subseteq S
      BY DEF Least
  <2>2. a.req \in Requirements /\ Resolvable(a.req) /\ IdOf(a) = Target(a.req)
      BY <1>1, Leads
  <2>3. CASE a.req \in RootRequirements
      BY <1>1, <2>1, <2>2, <2>3 DEF ClosedUnder
  <2>4. CASE \E id \in packages : a.req \in RequirementsOf(id)
      BY <1>1, <2>1, <2>2, <2>4 DEF ClosedUnder
  <2> QED BY <2>2, <2>3, <2>4 DEF Requirements
<1>8. (Drained /\ FailsForCause)'
    BY DEF ImportNew, Applies, Drained, FailsForCause
<1> QED BY <1>3, <1>4, <1>5, <1>6, <1>7, <1>8

(* What a missing package comes from. *)
LEMMA MissingForCause ==
    ASSUME Inv, NEW a \in resolved, Missing(a)
    PROVE  Resolvable(a.req) => a.req.name \in refused
BY DEF Inv, Answers, Missing, Resolvable, Target, IdOf

LEMMA SkipKeeps == ASSUME Inv, NEW a \in resolved, Skip(a) PROVE Inv'
<1> USE DEF Inv
<1>1. Requirements' = Requirements /\ Expanded' = Expanded
    BY DEF Skip, Requirements, Expanded
<1>2. TypeOK'
    BY <1>1 DEF TypeOK, Skip
<1>3. Answers'
    BY DEF Answers, Skip
<1>4. Accounted'
  <2> SUFFICES ASSUME NEW s \in Expanded PROVE Handled(s)'
      BY <1>1 DEF Accounted
  <2>1. Handled(s)
      BY DEF Accounted
  <2>2. CASE s = a.req
      BY <2>2, MissingForCause DEF Handled, Skip, Resolvable, Target
  <2>3. CASE s # a.req
      BY <2>1, <2>3 DEF Handled, Skip, Resolvable, Target
  <2> QED BY <2>2, <2>3
<1>5. (Drained /\ EdgesResolved /\ Least /\ FailsForCause)'
    BY <1>1 DEF Skip, Applies, Drained, EdgesResolved, Least, FailsForCause
<1> QED BY <1>2, <1>3, <1>4, <1>5

LEMMA AbortKeeps == ASSUME Inv, NEW a \in resolved, Abort(a) PROVE Inv'
<1> USE DEF Inv
<1>1. Requirements' = Requirements /\ Expanded' = Expanded
    BY DEF Abort, Requirements, Expanded
<1>2. (TypeOK /\ Answers /\ Drained /\ EdgesResolved /\ Least)'
    BY <1>1 DEF Abort, TypeOK, Answers, Drained, EdgesResolved, Least
<1>3. Accounted'
    BY <1>1 DEF Abort, Accounted, Handled, Resolvable, Target
<1>4. FailsForCause'
  <2>1. a.req \in Requirements /\ (Resolvable(a.req) => a.req.name \in refused)
      BY MissingForCause DEF Abort, TypeOK
  <2> QED BY <1>1, <2>1 DEF Abort, FailsForCause, Resolvable, Target
<1> QED BY <1>2, <1>3, <1>4

LEMMA ExpandKeeps == ASSUME Inv, Expand PROVE Inv'
<1> USE DEF Inv
<1>1. Requirements' = Requirements
    BY DEF Expand, Requirements
<1>2. waiting' \subseteq Requirements
    BY DEF Expand, Requirements, TypeOK
<1>3. TypeOK'
    BY <1>1, <1>2 DEF Expand, TypeOK
<1>4. Accounted'
  <2> SUFFICES ASSUME NEW s \in Expanded' PROVE Handled(s)'
      BY DEF Accounted
  <2>1. CASE s \in Expanded
      BY <2>1 DEF Accounted, Handled, Expand, LevelApplied, Resolvable, Target
  <2>2. CASE s \notin Expanded
    <3>1. s \in waiting'
        BY <2>2 DEF Expand, Expanded
    <3> QED BY <3>1 DEF Handled
  <2> QED BY <2>1, <2>2
<1>5. (Answers /\ Drained /\ EdgesResolved /\ Least /\ FailsForCause)'
    BY <1>1 DEF Expand, LevelApplied, Answers, Drained, EdgesResolved, Least, FailsForCause
<1> QED BY <1>3, <1>4, <1>5

LEMMA ReturnKeeps == ASSUME Inv, Return PROVE Inv'
<1> USE DEF Inv
<1>1. Requirements' = Requirements /\ Expanded' = Expanded
    BY DEF Return, Requirements, Expanded
<1>2. (TypeOK /\ Answers /\ Drained /\ EdgesResolved /\ Least /\ FailsForCause)'
    BY <1>1 DEF Return, LevelApplied, TypeOK, Answers, Drained, EdgesResolved, Least,
               FailsForCause
<1>3. Accounted'
    BY <1>1 DEF Return, Accounted, Handled, Resolvable, Target
<1> QED BY <1>2, <1>3

LEMMA Inductive == Inv /\ [Next]_vars => Inv'
<1> SUFFICES ASSUME Inv, [Next]_vars PROVE Inv'
    OBVIOUS
<1>1. CASE \E r \in waiting : Answer(r) \/ Refuse(r)
    BY <1>1, AnswerKeeps, RefuseKeeps
<1>2. CASE \E a \in resolved : Apply(a)
    BY <1>2, ImportKnownKeeps, ImportNewKeeps, SkipKeeps, AbortKeeps DEF Apply
<1>3. CASE Expand
    BY <1>3, ExpandKeeps
<1>4. CASE Return
    BY <1>4, ReturnKeeps
<1>5. CASE UNCHANGED vars
  <2> USE <1>5 DEF vars, Inv
  <2>1. Requirements' = Requirements /\ Expanded' = Expanded
      BY DEF Requirements, Expanded
  <2>2. (TypeOK /\ Answers /\ Drained /\ EdgesResolved /\ Least /\ FailsForCause)'
      BY <2>1 DEF TypeOK, Answers, Drained, EdgesResolved, Least, FailsForCause
  <2>3. Accounted'
      BY <2>1 DEF Accounted, Handled, Resolvable, Target
  <2> QED BY <2>2, <2>3
<1> QED BY <1>1, <1>2, <1>3, <1>4, <1>5 DEF Next

LEMMA Always == Spec => []Inv
<1> QED BY Initially, Inductive, PTL DEF Spec

(* At the end nothing is on its way, so what Accounted says is Complete. *)
LEMMA CompleteAtEnd == Inv => Complete
<1> SUFFICES ASSUME Inv, stage = "done", NEW r \in Requirements
             PROVE  \/ <<r.parent, r.alias>> \in DOMAIN edges
                    \/ r \in skipped /\ (Resolvable(r) => r.name \in refused)
    BY DEF Complete
<1>1. waiting = {} /\ resolved = {} /\ frontier = {}
    BY DEF Inv, Drained
<1>2. r \in Expanded
    BY <1>1 DEF Requirements, Expanded
<1> QED BY <1>1, <1>2 DEF Inv, Accounted, Handled

-----------------------------------------------------------------------------
(* What a requirement leads to is in the graph once it has been applied, also
   when another one of the same parent and alias has taken over its edge. *)
Brought ==
    \A r \in Expanded :
        Resolvable(r) =>
            \/ r \in waiting
            \/ \E a \in resolved : a.req = r
            \/ Target(r) \in packages
            \/ r.name \in refused

LEMMA AskingBrings ==
    ASSUME Inv, Brought, NEW r \in waiting, Answer(r) \/ Refuse(r)
    PROVE  Brought'
<1>1. Expanded' = Expanded
    BY DEF Answer, Refuse, Expanded
<1> SUFFICES ASSUME NEW s \in Expanded, Resolvable(s)
             PROVE  \/ s \in waiting'
                    \/ \E a \in resolved' : a.req = s
                    \/ Target(s) \in packages'
                    \/ s.name \in refused'
    BY <1>1 DEF Brought, Resolvable, Target
<1>2. CASE s = r
  <2> DEFINE a(v) == [req |-> r, version |-> v]
  <2>1. \E v : a(v) \in resolved'
      BY DEF Answer, Refuse
  <2>2. \A v : a(v).req = s
      BY <1>2
  <2> QED BY <2>1, <2>2
<1>3. CASE s # r
    BY <1>3 DEF Brought, Answer, Refuse
<1> QED BY <1>2, <1>3

LEMMA ApplyingBrings ==
    ASSUME Inv, Brought, NEW a \in resolved, Apply(a)
    PROVE  Brought'
<1> USE DEF Inv
<1>1. Expanded' = Expanded
    BY DEF Apply, ImportKnown, ImportNew, Skip, Abort, Expanded, TypeOK
<1>2. packages \subseteq packages' /\ waiting' = waiting /\ refused' = refused
    BY DEF Apply, ImportKnown, ImportNew, Skip, Abort
<1> SUFFICES ASSUME NEW s \in Expanded, Resolvable(s)
             PROVE  \/ s \in waiting'
                    \/ \E b \in resolved' : b.req = s
                    \/ Target(s) \in packages'
                    \/ s.name \in refused'
    BY <1>1 DEF Brought, Resolvable, Target
<1>3. CASE s # a.req
    BY <1>2, <1>3 DEF Brought, Apply, ImportKnown, ImportNew, Skip, Abort
<1>4. CASE s = a.req /\ (ImportKnown(a) \/ ImportNew(a))
  <2>1. IdOf(a) \in Ids /\ IdOf(a) \in packages'
      BY <1>4 DEF ImportKnown, ImportNew, TypeOK
  <2> QED BY <1>4, <2>1, Leads
<1>5. CASE s = a.req /\ (Skip(a) \/ Abort(a))
    BY <1>2, <1>5, MissingForCause DEF Skip, Abort
<1> QED BY <1>3, <1>4, <1>5 DEF Apply

LEMMA Brings == Inv /\ Brought /\ [Next]_vars => Brought'
<1> SUFFICES ASSUME Inv, Brought, [Next]_vars PROVE Brought'
    OBVIOUS
<1>1. CASE Expand
  <2> SUFFICES ASSUME NEW s \in Expanded', Resolvable(s)
               PROVE  \/ s \in waiting'
                      \/ \E b \in resolved' : b.req = s
                      \/ Target(s) \in packages'
                      \/ s.name \in refused'
      BY DEF Brought, Resolvable, Target
  <2>1. CASE s \in Expanded
      BY <1>1, <2>1 DEF Brought, Expand, LevelApplied
  <2>2. CASE s \notin Expanded
      BY <1>1, <2>2 DEF Expand, Expanded
  <2> QED BY <2>1, <2>2
<1>2. CASE Return \/ UNCHANGED vars
    BY <1>2 DEF Return, vars, Brought, Expanded, Resolvable, Target
<1> QED BY <1>1, <1>2, AskingBrings, ApplyingBrings DEF Next

-----------------------------------------------------------------------------
(* The resolution in progress is well formed: above all, whatever is asked for is
   a requirement of the project or of a package resolved by then. *)
THEOREM TypeCorrect == Spec => []TypeOK
<1>1. Inv => TypeOK
    BY DEF Inv
<1> QED BY <1>1, Always, PTL

(* Every edge of the graph leads to a resolved package that a requirement of its
   source picks (resolver.rs, the loop that applies a level). *)
THEOREM EdgesSafe == Spec => []EdgesResolved
<1>1. Inv => EdgesResolved
    BY DEF Inv
<1> QED BY <1>1, Always, PTL

(* The resolution holds nothing that is not asked for. *)
THEOREM LeastSafe == Spec => []Least
<1>1. Inv => Least
    BY DEF Inv
<1> QED BY <1>1, Always, PTL

(* A resolution that is returned leaves no requirement out but optional ones that
   cannot be had. *)
THEOREM CompleteSafe == Spec => []Complete
BY CompleteAtEnd, Always, PTL

(* A resolution fails only over a requirement that is not optional. *)
THEOREM FailsForCauseSafe == Spec => []FailsForCause
<1>1. Inv => FailsForCause
    BY DEF Inv
<1> QED BY <1>1, Always, PTL

(* Without failed requests the resolution is the least set of packages closed under
   the requirements, whatever the order in which the answers came in: with
   LeastSafe, two runs resolve to the same packages. *)
THEOREM SamePackagesSafe == Spec => []SamePackages
<1>1. Init => Brought
    BY DEF Init, Brought, Expanded
<1>2. Inv /\ Brought => SamePackages
  <2> SUFFICES ASSUME Inv, Brought, stage = "done", refused = {}
               PROVE  ClosedUnder(packages)
      BY DEF SamePackages
  <2>1. waiting = {} /\ resolved = {} /\ frontier = {}
      BY DEF Inv, Drained
  <2> QED BY <2>1 DEF Brought, Expanded, ClosedUnder
<1> QED BY <1>1, <1>2, Initially, Inductive, Brings, PTL DEF Spec

(* What the registry and the manifest alone determine: the packages that no closed
   set can do without. *)
Needed == {id \in Ids : \A S \in SUBSET Ids : ClosedUnder(S) => id \in S}

(* The order in which the answers come in, and are applied, has no part in which
   packages are resolved: when no request failed, they are those that the manifest
   and the registry determine (resolver.rs, resolve). *)
THEOREM OrderIrrelevant == Spec => [](stage = "done" /\ refused = {} => packages = Needed)
<1>1. TypeOK /\ Least /\ SamePackages => (stage = "done" /\ refused = {} => packages = Needed)
  <2> SUFFICES ASSUME TypeOK, Least, SamePackages, stage = "done", refused = {}
               PROVE  packages = Needed
      OBVIOUS
  <2>1. packages \in SUBSET Ids /\ ClosedUnder(packages)
      BY DEF TypeOK, SamePackages
  <2>2. packages \subseteq Needed
      BY <2>1 DEF Least, Needed
  <2>3. Needed \subseteq packages
      BY <2>1 DEF Needed
  <2> QED BY <2>2, <2>3
<1> QED BY <1>1, TypeCorrect, LeastSafe, SamePackagesSafe, PTL
=============================================================================
