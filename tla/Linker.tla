------------------------------- MODULE Linker -------------------------------
(***************************************************************************)
(* link_all (crates/core/src/linker.rs): the resolution that Resolver comes *)
(* to becomes node_modules.                                                 *)
(*                                                                          *)
(* A place is a node_modules directory: the project's (Root), or the one    *)
(* that each package has in the virtual store, node_modules/.vault/<id>.    *)
(* A package's files lie in its own place under its own name; every edge of *)
(* the graph becomes a symlink, and so edges and slots are the same pairs.  *)
(* The code walks sorted maps; here the order within a stage is free.       *)
(* The marker .package-lock.json, written last, is not read by anyone here. *)
(***************************************************************************)
EXTENDS Resolver

CONSTANTS
    Commands,    \* package -> the commands of its bin field whose file is there
    Leftovers,   \* what earlier tools may have left in node_modules
    MaxRestarts  \* bound: how often linking is begun again

VARIABLES
    step,     \* where link_all is
    todo,     \* the packages or edges this step still has to deal with
    tree,     \* <<place, name>> -> what is there: a package's files, or a link
    bins,     \* <<place, command>> -> the package that its .bin symlink leads to
    lost,     \* history: packages that could not be read from the store
    restarts

linkVars == <<step, todo, tree, bins, lost, restarts>>

(* Where the files of a package are; every symlink to it leads there. *)
Home(id) == <<id, id[1]>>

Files(id) == [kind |-> "files", of |-> id]

Link(id) == [kind |-> "link", of |-> id]

Nothing == [slot \in {} |-> Root]

With(f, x, y) == [z \in DOMAIN f \cup {x} |-> IF z = x THEN y ELSE f[z]]

(* An earlier install, a killed removal or another tool left something. *)
LinkInit ==
    /\ Init
    /\ step = "clear"
    /\ todo = {}
    /\ \E left \in SUBSET DOMAIN Leftovers : tree = [slot \in left |-> Leftovers[slot]]
    /\ bins = Nothing
    /\ lost = {}
    /\ restarts = 0

-----------------------------------------------------------------------------
(* Mutant: node_modules is built upon. *)
ClearNothing ==
    /\ stage = "done" /\ step = "clear"
    /\ step' = "files"
    /\ todo' = packages
    /\ UNCHANGED <<tree, bins, lost, restarts>>

(* remove_dir_all, then an empty virtual store. *)
Clear ==
    /\ stage = "done" /\ step = "clear"
    /\ step' = "files"
    /\ todo' = packages
    /\ tree' = Nothing
    /\ bins' = Nothing
    /\ UNCHANGED <<lost, restarts>>

(* 1. The files of every package are hard-linked from the store... *)
Materialize(id) ==
    /\ step = "files" /\ id \in todo
    /\ tree' = With(tree, Home(id), Files(id))
    /\ todo' = todo \ {id}
    /\ UNCHANGED <<step, bins, lost, restarts>>

(* ... unless prune, or a torn index, took one away since it was fetched. *)
MaterializeFails(id) ==
    /\ step = "files" /\ id \in todo
    /\ lost' = lost \cup {id}
    /\ step' = "failed"
    /\ UNCHANGED <<todo, tree, bins, restarts>>

(* Once a step has dealt with everything the next one takes up every edge. *)
Advance(from, to) ==
    /\ step = from /\ todo = {}
    /\ step' = to
    /\ todo' = DOMAIN edges
    /\ UNCHANGED <<tree, bins, lost, restarts>>

(* Edges are dealt with package by package, the project's own last. *)
Turn(e) == e \in todo /\ (e[1] = Root => \A f \in todo : f[1] = Root)

(* symlink() removes a file or a link in its way, but not a directory. *)
InTheWay(e) == e \in DOMAIN tree /\ tree[e].kind = "files"

(* Mutant: a package's imports are wired in the project's node_modules. *)
WireHoisted(e) ==
    /\ step = "links" /\ Turn(e)
    /\ ~ InTheWay(e)
    /\ tree' = With(tree, <<Root, e[2]>>, Link(edges[e]))
    /\ todo' = todo \ {e}
    /\ UNCHANGED <<step, bins, lost, restarts>>

(* Mutant: the symlink is named after the package, not after its alias. *)
WireByName(e) ==
    /\ step = "links" /\ Turn(e)
    /\ ~ InTheWay(e)
    /\ tree' = With(tree, <<e[1], edges[e][1]>>, Link(edges[e]))
    /\ todo' = todo \ {e}
    /\ UNCHANGED <<step, bins, lost, restarts>>

(* 2. and 3. A symlink for each import of each package and of the project. *)
Wire(e) ==
    /\ step = "links" /\ Turn(e)
    /\ ~ InTheWay(e)
    /\ tree' = With(tree, e, Link(edges[e]))
    /\ todo' = todo \ {e}
    /\ UNCHANGED <<step, bins, lost, restarts>>

(* A package that imports one of its own name has itself in the way. *)
WireFails(e) ==
    /\ step = "links" /\ Turn(e)
    /\ InTheWay(e)
    /\ step' = "failed"
    /\ UNCHANGED <<todo, tree, bins, lost, restarts>>

(* Mutant: all commands go into the project's .bin. *)
LinkBinsAtTop(e) ==
    /\ step = "bins" /\ Turn(e)
    /\ bins' = [b \in DOMAIN bins \cup ({Root} \X Commands[edges[e]]) |->
                   IF b \in {Root} \X Commands[edges[e]] THEN edges[e] ELSE bins[b]]
    /\ todo' = todo \ {e}
    /\ UNCHANGED <<step, tree, lost, restarts>>

(* 4. The commands of an import go into the .bin of whoever imports it; a
   command that two imports have is replaced by the later one. *)
LinkBins(e) ==
    LET mine == {e[1]} \X Commands[edges[e]] IN
    /\ step = "bins" /\ Turn(e)
    /\ bins' = [b \in DOMAIN bins \cup mine |-> IF b \in mine THEN edges[e] ELSE bins[b]]
    /\ todo' = todo \ {e}
    /\ UNCHANGED <<step, tree, lost, restarts>>

(* 5. The marker is written, and link_all returns. *)
Finish ==
    /\ step = "bins" /\ todo = {}
    /\ step' = "linked"
    /\ UNCHANGED <<todo, tree, bins, lost, restarts>>

(* The process was killed, or is done; the next install has the same
   resolution and links it again. *)
Restart ==
    /\ step # "clear"
    /\ restarts < MaxRestarts
    /\ restarts' = restarts + 1
    /\ step' = "clear"
    /\ todo' = {}
    /\ UNCHANGED <<tree, bins, lost>>

LinkStep ==
    \/ Clear
    \/ Advance("files", "links")
    \/ Advance("links", "bins")
    \/ Finish
    \/ \E x \in todo :
          Materialize(x) \/ MaterializeFails(x) \/ Wire(x) \/ WireFails(x) \/ LinkBins(x)

LinkNext ==
    \/ Next /\ UNCHANGED linkVars
    \/ (LinkStep \/ Restart) /\ UNCHANGED vars

LinkSpec == LinkInit /\ [][LinkNext]_<<vars, linkVars>>

(* The process goes on, and requests are answered or fail. *)
LinkLiveSpec ==
    /\ LinkSpec
    /\ WF_<<vars, linkVars>>(Next /\ UNCHANGED linkVars)
    /\ WF_<<vars, linkVars>>(LinkStep /\ UNCHANGED vars)

-----------------------------------------------------------------------------
Linked == step = "linked"

(* Node looks for a module beside the files of the package that asks, then in
   the project's node_modules, which encloses the virtual store. *)
Loads(place, name) == {<<place, name>>, <<Root, name>>} \cap DOMAIN tree

Loaded(place, name) ==
    tree[IF <<place, name>> \in DOMAIN tree THEN <<place, name>> ELSE <<Root, name>>].of

(* The aliases a place asks for. *)
Declared(place) == {r.alias : r \in {q \in Requirements : q.parent = place}}

(* End to end: what a package of the graph requires under an alias, and got, is
   what Node finds from there: a version that the requirement picks, with its
   files in place. *)
RequireFinds ==
    Linked => \A r \in Requirements : r \notin skipped =>
        /\ Loads(r.parent, r.alias) # {}
        /\ LET id == Loaded(r.parent, r.alias) IN
           /\ \E q \in Requirements :
                 q.parent = r.parent /\ q.alias = r.alias /\ id = Target(q)
           /\ Home(id) \in DOMAIN tree /\ tree[Home(id)] = Files(id)

(* "Each package can only require the dependencies it actually declared"
   (linker.rs): a place holds nothing else, and nothing of an earlier tree.
   Node finds what is in the project's own place as well. *)
NoHoisting ==
    Linked => \A slot \in DOMAIN tree :
        \/ slot \in {Home(id) : id \in packages}
        \/ slot[1] \in packages \cup {Root} /\ slot[2] \in Declared(slot[1])

(* The .bin of a place has each command of its imports and no other, and each
   leads into the files of an import that has it. *)
BinsRun ==
    Linked =>
        /\ \A e \in DOMAIN edges, c \in UNION {Commands[id] : id \in packages} :
              c \in Commands[edges[e]] => <<e[1], c>> \in DOMAIN bins
        /\ \A b \in DOMAIN bins :
              /\ \E e \in DOMAIN edges : e[1] = b[1] /\ edges[e] = bins[b]
              /\ b[2] \in Commands[bins[b]]
              /\ tree[Home(bins[b])] = Files(bins[b])

(* Linking fails only over a package that the store lost, or one that asks for a
   package of its own name: never over what was in node_modules before. *)
LinkFailsForCause ==
    step = "failed" =>
        \/ lost # {}
        \/ \E id \in packages : Home(id) \in DOMAIN edges

(* Resolution comes to an end, also when packages depend on each other, and a
   resolution that is returned gets linked or the linking fails. *)
LinkingEnds ==
    <>[](stage = "failed" \/ step \in {"linked", "failed"})
=============================================================================
