---------------------------- MODULE StoreSystem ----------------------------
(***************************************************************************)
(* Installing processes and `vault store prune` over one store.             *)
(*                                                                          *)
(* Spec lets every step interleave with every other, as the code does.      *)
(* QuietSpec keeps prune and installs apart, which the code leaves to its   *)
(* user: it is the discipline a shared/exclusive store lock would enforce.  *)
(***************************************************************************)
EXTENDS Fetcher, Prune

VARIABLE settled    \* history: the packages that were intact when the current
                    \* prune started and whose index nobody has reopened since

vars == <<diskVars, fetchVars, pruneVars, settled>>

TypeOK ==
    /\ DiskTypeOK
    /\ FetchTypeOK
    /\ PruneTypeOK
    /\ settled \subseteq Pkgs

Init == DiskInit /\ FetchInit /\ PruneInit /\ settled = {}

(* The history variable observes a step; it constrains nothing. *)
Observe == settled' = {p \in settled : index'[p] = "whole"}

Fetch == FetchNext /\ UNCHANGED pruneVars /\ Observe

Collect == PruneNext /\ UNCHANGED fetchVars
           /\ settled' = IF pruner = "idle" THEN {p \in Pkgs : Intact(p)} ELSE settled

Pass == Tick /\ UNCHANGED <<fetchVars, pruneVars, settled>>

Next == Fetch \/ Collect \/ Pass

Spec == Init /\ [][Next]_vars

(* Nobody installs while a prune runs, nor prunes while an install does. *)
Apart == pruner = "idle" \/ \A k \in Procs : ~ Busy(k)

QuietNext == Next /\ Apart'

QuietSpec == Init /\ [][QuietNext]_vars

(* The steps an install takes by itself: the runtime schedules its tasks, and
   the network answers (the clients set no timeout, so a request that is never
   answered hangs the install). *)
Fairness ==
    /\ \A k \in Procs : WF_vars(ProcStep(k) /\ UNCHANGED pruneVars /\ Observe)
    /\ WF_vars(PruneStep /\ UNCHANGED <<fetchVars, settled>>)

LiveSpec == QuietSpec /\ Fairness

-----------------------------------------------------------------------------
(* The tarballs package p's metadata vouches for. *)
Trusted(p) ==
    {t \in Tarballs :
        \/ [algo |-> "sha512", digest |-> t] \in Meta[p].integrity
        \/ Meta[p].integrity = {} /\ t \in Meta[p].shasum}

(* A whole index lists exactly the files of one tarball that its metadata
   vouches for, and at least one: no half-extracted, unverified or empty
   package is ever indexed, whatever crashes and races with it. *)
VerifiedEntries ==
    \A p \in Pkgs : index[p] = "whole" =>
        /\ entries[p] # {}
        /\ \E t \in Trusted(p) : entries[p] = Content[t]

(* Every object a whole index lists is in the store. *)
Closed == \A p \in Pkgs : index[p] = "whole" => Intact(p)

(* The linker never finds an object gone that an index lists. *)
NoDanglingLink == \A k \in Procs, p \in Pkgs : pc[k][p] # "dangling"

(* A package that was intact when prune started stays intact for as long as
   nobody reopens its index, whatever is installed at the same time. *)
PruneSparesSettled == \A p \in settled : Intact(p)

(* prune is a complete collection: when its walk ends with nothing else going
   on, every object left is listed by a readable index or within the grace
   window. *)
PruneCollects ==
    [][PruneEnd => \A h \in objects :
            \/ \E p \in Pkgs : CanRead(p) /\ h \in entries[p]
            \/ sampled - mtime[h] < Grace]_vars

(* "Objects modified within a short grace window are skipped, so we don't
   delete a file a concurrent install just wrote but hasn't linked yet"
   (store.rs): no step removes an object younger than the window. *)
JustWrittenSurvives ==
    [][\A h \in objects \ objects' : clock - mtime[h] >= Grace]_vars

(* "Ensure a resolved package is present in the store" (fetcher.rs): once
   fetch_all has succeeded, the linker can read every package. *)
PresentOnceEnsured ==
    \A k \in Procs : phase[k] = "linking" =>
        \A p \in Wants[k] : pc[k][p] # "linked" => CanRead(p)

(* Every install that is started comes to an end, and every prune. *)
WorkEnds ==
    /\ \A k \in Procs : Busy(k) ~> ~ Busy(k)
    /\ pruner # "idle" ~> pruner = "idle"

-----------------------------------------------------------------------------
(* What the store means to its clients: the library of packages that are intact,
   and what each process reports of its last install. *)
Report(doing) ==
    IF doing = "idle" THEN "none" ELSE IF doing = "installed" THEN "served"
    ELSE IF doing = "failed" THEN "refused" ELSE "asked"

Library == INSTANCE PackageLibrary WITH
    Clients <- Procs, Packages <- Pkgs, Wanted <- Wants,
    library <- {p \in Pkgs : Intact(p)},
    request <- [k \in Procs |-> Report(phase[k])]

(* Processes that want different packages, with prune kept apart, use the store
   as a library that loses nothing and serves only what it has. *)
ImplementsLibrary == Library!LibrarySpec

-----------------------------------------------------------------------------
(* The inductive strengthenings StoreProofs rests on. *)

Extracting == {"extract", "rename", "closing"}

(* A task past verification holds a tarball its metadata vouches for, and the
   pieces of it that its next step needs. *)
InHand ==
    \A k \in Procs, p \in Pkgs :
        /\ pc[k][p] \in Extracting =>
               got[k][p] \in Trusted(p) /\ left[k][p] \subseteq Content[got[k][p]]
        /\ pc[k][p] = "rename" => file[k][p] \in Hashes
        /\ pc[k][p] = "closing" => Content[got[k][p]] # {}

(* From the moment prune has passed a settled package's index, its objects are
   among those prune spares. *)
SettledSeen ==
    \A p \in settled :
        \/ pruner = "idle"
        \/ pruner = "reading" /\ p \in unread
        \/ entries[p] \subseteq referenced

(* The same of every readable index, once prune runs by itself. *)
IndexedSeen ==
    \A p \in Pkgs : CanRead(p) =>
        \/ pruner = "idle"
        \/ pruner = "reading" /\ p \in unread
        \/ entries[p] \subseteq referenced

(* Tasks are in flight only while their process fetches what it wants. *)
FlightsFetch ==
    \A k \in Procs, p \in Pkgs :
        /\ pc[k][p] # "none" => p \in Wants[k]
        /\ pc[k][p] \in InFlight \cup {"check"} => phase[k] = "fetching"

(* What a task has extracted so far is in the store, or is the temp file it is
   about to rename. *)
ExtractedSoFar ==
    \A k \in Procs, p \in Pkgs :
        /\ pc[k][p] = "extract" =>
               Content[got[k][p]] \subseteq objects \cup left[k][p]
        /\ pc[k][p] = "rename" =>
               /\ Content[got[k][p]] \subseteq objects \cup left[k][p] \cup {file[k][p]}
               /\ tmp[k][p] # NoTemp
        /\ pc[k][p] = "closing" => Content[got[k][p]] \subseteq objects
=============================================================================
