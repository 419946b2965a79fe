---------------------------- MODULE LinkerProofs ----------------------------
(***************************************************************************)
(* What link_all leaves in node_modules, for every resolution.              *)
(*                                                                          *)
(* The graph is fixed once linking begins (Settled), and what ResolverProofs *)
(* shows of it then holds for good.  The inductive invariant says how far   *)
(* each step of link_all has got: what todo no longer has is in place, and  *)
(* nothing else is (Built, Offered).  That Clear emptied the tree is where  *)
(* this starts from.                                                        *)
(***************************************************************************)
EXTENDS Linker, ResolverProofs

Homes == {Home(id) : id \in packages}

Settled ==
    /\ step \in {"clear", "files", "links", "bins", "linked", "failed"}
    /\ step # "clear" => stage = "done"

Todo ==
    /\ step = "files" => todo \subseteq packages
    /\ step \in {"links", "bins"} => todo \subseteq DOMAIN edges
    /\ step = "linked" => todo = {}

(* These packages' files and these edges' symlinks are there, and nothing else. *)
Holds(ids, es) ==
    /\ DOMAIN tree = {Home(id) : id \in ids} \cup es
    /\ \A id \in ids : tree[Home(id)] = Files(id)
    /\ \A e \in es : tree[e] = Link(edges[e])

Built ==
    /\ step = "files" => Holds(packages \ todo, {})
    /\ step = "links" => Holds(packages, DOMAIN edges \ todo)
    /\ step \in {"bins", "linked"} => Holds(packages, DOMAIN edges)

(* The commands of these edges' packages are there, and no others. *)
Commanded(es) ==
    /\ \A e \in es : \A c \in Commands[edges[e]] : <<e[1], c>> \in DOMAIN bins
    /\ \A b \in DOMAIN bins :
          /\ \E e \in DOMAIN edges : e[1] = b[1] /\ edges[e] = bins[b]
          /\ b[2] \in Commands[bins[b]]

Offered ==
    /\ step \in {"files", "links"} => DOMAIN bins = {}
    /\ step \in {"bins", "linked"} => Commanded(DOMAIN edges \ todo)

LinkInv ==
    /\ Inv
    /\ Settled
    /\ Todo
    /\ Built
    /\ Offered
    /\ LinkFailsForCause

-----------------------------------------------------------------------------
(* A package's own place tells which package it is. *)
LEMMA HomeIsOwn == \A id, other : Home(id) = Home(other) => id = other
BY DEF Home

(* The resolver has nothing to do once it has returned. *)
LEMMA Resolved == stage = "done" => ~ Next
<1> SUFFICES ASSUME stage = "done", Next PROVE FALSE
    OBVIOUS
<1>1. ~ (Expand \/ Return)
    BY DEF Expand, Return, LevelApplied
<1>2. ~ \E r \in waiting : Answer(r) \/ Refuse(r)
    BY DEF Answer, Refuse
<1>3. ~ \E a \in resolved : Apply(a)
    BY DEF Apply, ImportKnown, ImportNew, Skip, Abort, Applies
<1> QED BY <1>1, <1>2, <1>3 DEF Next

LEMMA LinkInitially == LinkInit => LinkInv
<1> SUFFICES ASSUME LinkInit PROVE LinkInv
    OBVIOUS
<1>1. Inv
    BY Initially DEF LinkInit
<1> QED BY <1>1 DEF LinkInit, LinkInv, Settled, Todo, Built, Offered, LinkFailsForCause

(* A step of the linker leaves the graph and what is known of it alone. *)
LEMMA GraphStays ==
    ASSUME LinkInv, UNCHANGED vars
    PROVE  Inv' /\ packages' = packages /\ edges' = edges /\ stage' = stage
<1>1. [Next]_vars
    OBVIOUS
<1>2. Inv'
    BY <1>1, Inductive DEF LinkInv
<1> QED BY <1>2 DEF vars

LEMMA ClearKeeps == ASSUME LinkInv, Clear, UNCHANGED vars PROVE LinkInv'
<1> USE DEF LinkInv
<1>1. Inv' /\ packages' = packages /\ edges' = edges /\ stage' = stage
    BY GraphStays
<1>2. DOMAIN Nothing = {}
    BY DEF Nothing
<1>3. Built'
    BY <1>1, <1>2 DEF Clear, Built, Holds
<1>4. Offered'
    BY <1>2 DEF Clear, Offered
<1>5. (Settled /\ Todo /\ LinkFailsForCause)'
    BY <1>1 DEF Clear, Settled, Todo, LinkFailsForCause
<1> QED BY <1>1, <1>3, <1>4, <1>5

LEMMA MaterializeKeeps ==
    ASSUME LinkInv, NEW id \in todo, Materialize(id), UNCHANGED vars
    PROVE  LinkInv'
<1> USE DEF LinkInv
<1>1. Inv' /\ packages' = packages /\ edges' = edges /\ stage' = stage
    BY GraphStays
<1>2. id \in packages /\ Holds(packages \ todo, {})
    BY DEF Materialize, Todo, Built
<1>3. /\ DOMAIN tree' = DOMAIN tree \cup {Home(id)}
      /\ tree'[Home(id)] = Files(id)
      /\ \A z \in DOMAIN tree : z # Home(id) => tree'[z] = tree[z]
    BY DEF Materialize, With
<1>4. packages \ todo' = (packages \ todo) \cup {id}
    BY <1>2 DEF Materialize
<1>5. Holds(packages \ todo, {})'
  <2>1. DOMAIN tree' = {Home(other) : other \in packages \ todo'} \cup {}
      BY <1>2, <1>3, <1>4 DEF Holds
  <2>2. \A other \in packages \ todo' : tree'[Home(other)] = Files(other)
      BY <1>2, <1>3, <1>4, HomeIsOwn DEF Holds
  <2> QED BY <1>1, <2>1, <2>2 DEF Holds
<1>6. Built'
    BY <1>5 DEF Materialize, Built
<1>7. (Settled /\ Todo /\ Offered /\ LinkFailsForCause)'
    BY <1>1 DEF Materialize, Settled, Todo, Offered, LinkFailsForCause
<1> QED BY <1>1, <1>6, <1>7

LEMMA WireKeeps ==
    ASSUME LinkInv, NEW e \in todo, Wire(e), UNCHANGED vars
    PROVE  LinkInv'
<1> USE DEF LinkInv
<1>1. Inv' /\ packages' = packages /\ edges' = edges /\ stage' = stage
    BY GraphStays
<1>2. e \in DOMAIN edges /\ Holds(packages, DOMAIN edges \ todo)
    BY DEF Wire, Todo, Built
<1>3. /\ DOMAIN tree' = DOMAIN tree \cup {e}
      /\ tree'[e] = Link(edges[e])
      /\ \A z \in DOMAIN tree : z # e => tree'[z] = tree[z]
    BY DEF Wire, With
<1>4. e \notin Homes
  <2> SUFFICES ASSUME NEW id \in packages, e = Home(id) PROVE FALSE
      BY DEF Homes
  <2>1. e \in DOMAIN tree /\ tree[e] = Files(id)
      BY <1>2 DEF Holds
  <2>2. Files(id).kind = "files"
      BY DEF Files
  <2> QED BY <2>1, <2>2 DEF Wire, InTheWay
<1>5. DOMAIN edges \ todo' = (DOMAIN edges \ todo) \cup {e}
    BY <1>2 DEF Wire
<1>6. Holds(packages, DOMAIN edges \ todo)'
  <2>1. DOMAIN tree' = {Home(id) : id \in packages} \cup (DOMAIN edges \ todo')
      BY <1>2, <1>3, <1>5 DEF Holds
  <2>2. \A id \in packages : tree'[Home(id)] = Files(id)
      BY <1>2, <1>3, <1>4 DEF Holds, Homes
  <2>3. \A f \in DOMAIN edges \ todo' : tree'[f] = Link(edges[f])
      BY <1>2, <1>3, <1>5 DEF Holds
  <2> QED BY <1>1, <2>1, <2>2, <2>3 DEF Holds
<1>7. Built'
    BY <1>6 DEF Wire, Built
<1>8. (Settled /\ Todo /\ Offered /\ LinkFailsForCause)'
    BY <1>1 DEF Wire, Settled, Todo, Offered, LinkFailsForCause
<1> QED BY <1>1, <1>7, <1>8

(* Only the files of a package can be in a symlink's way, and in the package's
   own place: it imports its own name. *)
LEMMA WireFailsKeeps ==
    ASSUME LinkInv, NEW e \in todo, WireFails(e), UNCHANGED vars
    PROVE  LinkInv'
<1> USE DEF LinkInv
<1>1. Inv' /\ packages' = packages /\ edges' = edges /\ stage' = stage
    BY GraphStays
<1>2. e \in DOMAIN edges /\ Holds(packages, DOMAIN edges \ todo)
    BY DEF WireFails, Todo, Built
<1>3. e \in {Home(id) : id \in packages}
    BY <1>2 DEF WireFails, InTheWay, Holds
<1>4. LinkFailsForCause'
    BY <1>1, <1>2, <1>3 DEF LinkFailsForCause
<1>5. (Settled /\ Todo /\ Built /\ Offered)'
    BY <1>1 DEF WireFails, Settled, Todo, Built, Offered
<1> QED BY <1>1, <1>4, <1>5

LEMMA LinkBinsKeeps ==
    ASSUME LinkInv, NEW e \in todo, LinkBins(e), UNCHANGED vars
    PROVE  LinkInv'
<1> USE DEF LinkInv
<1> DEFINE mine == {e[1]} \X Commands[edges[e]]
<1>1. Inv' /\ packages' = packages /\ edges' = edges /\ stage' = stage
    BY GraphStays
<1>2. e \in DOMAIN edges /\ Commanded(DOMAIN edges \ todo)
    BY DEF LinkBins, Todo, Offered
<1>3. bins' = [b \in DOMAIN bins \cup mine |-> IF b \in mine THEN edges[e] ELSE bins[b]]
    BY DEF LinkBins
<1>4. DOMAIN edges \ todo' = (DOMAIN edges \ todo) \cup {e}
    BY <1>2 DEF LinkBins
<1>5. Commanded(DOMAIN edges \ todo)'
  <2>1. ASSUME NEW f \in DOMAIN edges \ todo', NEW c \in Commands[edges[f]]
        PROVE  <<f[1], c>> \in DOMAIN bins'
    <3>1. CASE f = e
        BY <1>3, <2>1, <3>1
    <3>2. CASE f # e
        BY <1>2, <1>3, <1>4, <2>1, <3>2 DEF Commanded
    <3> QED BY <3>1, <3>2
  <2>2. ASSUME NEW b \in DOMAIN bins'
        PROVE  /\ \E f \in DOMAIN edges : f[1] = b[1] /\ edges[f] = bins'[b]
               /\ b[2] \in Commands[bins'[b]]
    <3>1. CASE b \in mine
        BY <1>2, <1>3, <3>1
    <3>2. CASE b \notin mine
        BY <1>2, <1>3, <2>2, <3>2 DEF Commanded
    <3> QED BY <3>1, <3>2
  <2> QED BY <1>1, <2>1, <2>2 DEF Commanded
<1>6. Offered'
    BY <1>5 DEF LinkBins, Offered
<1>7. Built'
    BY <1>1 DEF LinkBins, Built, Holds
<1>8. (Settled /\ Todo /\ LinkFailsForCause)'
    BY <1>1 DEF LinkBins, Settled, Todo, LinkFailsForCause
<1> QED BY <1>1, <1>6, <1>7, <1>8

LEMMA AdvanceKeeps ==
    ASSUME LinkInv, UNCHANGED vars,
           Advance("files", "links") \/ Advance("links", "bins") \/ Finish
    PROVE  LinkInv'
<1> USE DEF LinkInv
<1>1. Inv' /\ packages' = packages /\ edges' = edges /\ stage' = stage
    BY GraphStays
<1>2. CASE Advance("files", "links")
  <2>1. Holds(packages, {})
      BY <1>2 DEF Advance, Built
  <2>2. Built'
      BY <1>1, <1>2, <2>1 DEF Advance, Built, Holds
  <2> QED BY <1>1, <1>2, <2>2 DEF Advance, Settled, Todo, Offered, LinkFailsForCause
<1>3. CASE Advance("links", "bins")
  <2>1. Holds(packages, DOMAIN edges)
      BY <1>3 DEF Advance, Built
  <2>2. Built'
      BY <1>1, <1>3, <2>1 DEF Advance, Built, Holds
  <2>3. Offered'
      BY <1>1, <1>3 DEF Advance, Offered, Commanded
  <2> QED BY <1>1, <1>3, <2>2, <2>3 DEF Advance, Settled, Todo, LinkFailsForCause
<1>4. CASE Finish
  <2>1. Built' /\ Offered'
      BY <1>1, <1>4 DEF Finish, Built, Holds, Offered, Commanded
  <2> QED BY <1>1, <1>4, <2>1 DEF Finish, Settled, Todo, LinkFailsForCause
<1> QED BY <1>2, <1>3, <1>4

LEMMA LinkInductive == LinkInv /\ [LinkNext]_<<vars, linkVars>> => LinkInv'
<1> SUFFICES ASSUME LinkInv, [LinkNext]_<<vars, linkVars>> PROVE LinkInv'
    OBVIOUS
<1>1. CASE Next /\ UNCHANGED linkVars
  <2>1. Inv'
      BY <1>1, Inductive DEF LinkInv
  <2>2. step = "clear" /\ step' = "clear"
      BY <1>1, Resolved DEF LinkInv, Settled, linkVars
  <2> QED BY <2>1, <2>2 DEF LinkInv, Settled, Todo, Built, Offered, LinkFailsForCause
<1>2. ASSUME UNCHANGED vars, NEW x \in todo, MaterializeFails(x) PROVE LinkInv'
  <2>1. Inv' /\ packages' = packages /\ edges' = edges /\ stage' = stage
      BY <1>2, GraphStays
  <2> QED BY <1>2, <2>1 DEF MaterializeFails, LinkInv, Settled, Todo, Built, Offered,
                          LinkFailsForCause
<1>3. CASE Restart /\ UNCHANGED vars
  <2>1. Inv' /\ packages' = packages /\ edges' = edges /\ stage' = stage
      BY <1>3, GraphStays
  <2> QED BY <1>3, <2>1 DEF Restart, LinkInv, Settled, Todo, Built, Offered, LinkFailsForCause
<1>4. CASE LinkStep /\ UNCHANGED vars
    BY <1>2, <1>4, ClearKeeps, AdvanceKeeps, MaterializeKeeps, WireKeeps, WireFailsKeeps,
       LinkBinsKeeps DEF LinkStep
<1>5. CASE UNCHANGED <<vars, linkVars>>
  <2>1. Inv' /\ packages' = packages /\ edges' = edges /\ stage' = stage
      BY <1>5, GraphStays
  <2>2. UNCHANGED <<step, todo, tree, bins, lost>>
      BY <1>5 DEF linkVars
  <2> QED BY <2>1, <2>2 DEF LinkInv, Settled, Todo, Built, Holds, Offered, Commanded,
                          LinkFailsForCause
<1> QED BY <1>1, <1>3, <1>4, <1>5 DEF LinkNext

LEMMA LinkAlways == LinkSpec => []LinkInv
BY LinkInitially, LinkInductive, PTL DEF LinkSpec

(* What is known once everything is linked. *)
LEMMA AtEnd ==
    ASSUME LinkInv, Linked
    PROVE  /\ Complete /\ stage = "done" /\ TypeOK /\ EdgesResolved
           /\ Holds(packages, DOMAIN edges)
           /\ Commanded(DOMAIN edges)
BY CompleteAtEnd DEF LinkInv, Linked, Inv, Settled, Todo, Built, Offered

-----------------------------------------------------------------------------
(* Linking fails only over a package that the store lost, or over one that asks
   for a package of its own name, whatever was in node_modules (linker.rs). *)
THEOREM LinkFailsForCauseSafe == LinkSpec => []LinkFailsForCause
<1>1. LinkInv => LinkFailsForCause
    BY DEF LinkInv
<1> QED BY <1>1, LinkAlways, PTL

(* "Each package can only require the dependencies it actually declared": a linked
   tree has the packages' files, a link for what each place asks for, and
   nothing else. *)
THEOREM NoHoistingSafe == LinkSpec => []NoHoisting
<1>1. LinkInv => NoHoisting
  <2> SUFFICES ASSUME LinkInv, Linked, NEW slot \in DOMAIN tree
               PROVE  \/ slot \in {Home(id) : id \in packages}
                      \/ slot[1] \in packages \cup {Root} /\ slot[2] \in Declared(slot[1])
      BY DEF NoHoisting
  <2>1. CASE slot \in DOMAIN edges
    <3>1. slot[1] \in packages \cup {Root}
        BY <2>1, AtEnd DEF TypeOK
    <3>2. PICK r \in Requirements : r.parent = slot[1] /\ r.alias = slot[2]
        BY <2>1, AtEnd DEF EdgesResolved
    <3> QED BY <3>1, <3>2 DEF Declared
  <2> QED BY <2>1, AtEnd DEF Holds
<1> QED BY <1>1, LinkAlways, PTL

(* What a package of the graph requires and got, Node finds from there: a version
   that the requirement picks, with its files in place. *)
THEOREM RequireFindsSafe == LinkSpec => []RequireFinds
<1>1. LinkInv => RequireFinds
  <2> SUFFICES ASSUME LinkInv, Linked, NEW r \in Requirements, r \notin skipped
               PROVE  /\ Loads(r.parent, r.alias) # {}
                      /\ LET id == Loaded(r.parent, r.alias) IN
                         /\ \E q \in Requirements :
                               q.parent = r.parent /\ q.alias = r.alias /\ id = Target(q)
                         /\ Home(id) \in DOMAIN tree /\ tree[Home(id)] = Files(id)
      BY DEF RequireFinds
  <2> DEFINE e == <<r.parent, r.alias>>
  <2>1. e \in DOMAIN edges
      BY AtEnd DEF Complete
  <2>2. e \in DOMAIN tree /\ tree[e] = Link(edges[e])
      BY <2>1, AtEnd DEF Holds
  <2>3. Loads(r.parent, r.alias) # {} /\ Loaded(r.parent, r.alias) = edges[e]
      BY <2>2 DEF Loads, Loaded, Link
  <2>4. /\ edges[e] \in packages
        /\ \E q \in Requirements :
              q.parent = r.parent /\ q.alias = r.alias /\ edges[e] = Target(q)
      BY <2>1, AtEnd DEF EdgesResolved
  <2>5. Home(edges[e]) \in DOMAIN tree /\ tree[Home(edges[e])] = Files(edges[e])
      BY <2>4, AtEnd DEF Holds
  <2> QED BY <2>3, <2>4, <2>5
<1> QED BY <1>1, LinkAlways, PTL

(* Each importer's .bin has the commands of its imports, and each leads into the
   files of an import that has it. *)
THEOREM BinsRunSafe == LinkSpec => []BinsRun
<1>1. LinkInv => BinsRun
  <2> SUFFICES ASSUME LinkInv, Linked PROVE BinsRun
      BY DEF BinsRun
  <2>1. Commanded(DOMAIN edges) /\ Holds(packages, DOMAIN edges) /\ EdgesResolved
      BY AtEnd
  <2>2. \A e \in DOMAIN edges, c \in UNION {Commands[id] : id \in packages} :
            c \in Commands[edges[e]] => <<e[1], c>> \in DOMAIN bins
      BY <2>1 DEF Commanded
  <2>3. ASSUME NEW b \in DOMAIN bins PROVE tree[Home(bins[b])] = Files(bins[b])
    <3>1. bins[b] \in packages
        BY <2>1 DEF Commanded, EdgesResolved
    <3> QED BY <2>1, <3>1 DEF Holds
  <2> QED BY <2>1, <2>2, <2>3 DEF BinsRun, Commanded
<1> QED BY <1>1, LinkAlways, PTL
=============================================================================
