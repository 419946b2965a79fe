------------------------------- MODULE Prune -------------------------------
(***************************************************************************)
(* `vault store prune` (Store::prune, crates/core/src/store.rs): read every *)
(* index, sample the clock, then walk v1/files and remove what no index     *)
(* that was read refers to, except what is younger than the grace window.   *)
(* It takes no lock, so every step below may fall between any two steps of  *)
(* an install.                                                              *)
(***************************************************************************)
EXTENDS ContentStore

CONSTANTS
    Grace,      \* the grace window, in ticks (60 seconds in the code)
    MaxPrunes   \* bound: how often prune is started

ASSUME GraceAssumption == Grace \in Nat \ {0} /\ MaxPrunes \in Nat

VARIABLES
    pruner,     \* "idle", "reading" the indexes or "walking" the objects
    unread,     \* packages whose index this prune has not looked at yet
    referenced, \* hashes of the indexes read so far
    sampled,    \* `now`, sampled once between the two loops
    unvisited,  \* hashes the walk has not reached yet
    prunes      \* how often prune was started

pruneVars == <<pruner, unread, referenced, sampled, unvisited, prunes>>

PruneTypeOK ==
    /\ pruner \in {"idle", "reading", "walking"}
    /\ unread \subseteq Pkgs
    /\ referenced \subseteq Hashes
    /\ sampled \in Times
    /\ unvisited \subseteq Hashes
    /\ prunes \in 0 .. MaxPrunes

PruneInit ==
    /\ pruner = "idle"
    /\ unread = {}
    /\ referenced = {}
    /\ sampled = 0
    /\ unvisited = {}
    /\ prunes = 0

(* Mutant: the comparison is inverted. *)
RemovableYoung(m) == m <= sampled /\ sampled - m < Grace

(* now.duration_since(m).unwrap_or(GRACE) < GRACE keeps the object.  The
   subtraction fails, and yields GRACE, when m is later than now: an object
   written after the clock was sampled is removable. *)
Removable(m) == ~ (m <= sampled /\ sampled - m < Grace)

PruneStart ==
    /\ pruner = "idle"
    /\ prunes < MaxPrunes
    /\ pruner' = "reading"
    /\ prunes' = prunes + 1
    /\ unread' = Pkgs
    /\ UNCHANGED <<diskVars, referenced, sampled, unvisited>>

(* Mutant: each index replaces the set instead of adding to it. *)
PruneReadReplaces(p) ==
    /\ pruner = "reading"
    /\ p \in unread
    /\ unread' = unread \ {p}
    /\ referenced' = IF CanRead(p) THEN entries[p] ELSE referenced
    /\ UNCHANGED <<diskVars, pruner, sampled, unvisited, prunes>>

(* One index file is read.  An index the directory listing misses, an absent
   one and a torn one contribute nothing. *)
PruneRead(p) ==
    /\ pruner = "reading"
    /\ p \in unread
    /\ unread' = unread \ {p}
    /\ referenced' = referenced \cup (IF CanRead(p) THEN entries[p] ELSE {})
    /\ UNCHANGED <<diskVars, pruner, sampled, unvisited, prunes>>

(* Mutant: the walk starts before the last index is read. *)
PruneSampleEarly ==
    /\ pruner = "reading"
    /\ pruner' = "walking"
    /\ sampled' = clock
    /\ unvisited' = Hashes
    /\ UNCHANGED <<diskVars, unread, referenced, prunes>>

PruneSample ==
    /\ pruner = "reading"
    /\ unread = {}
    /\ pruner' = "walking"
    /\ sampled' = clock
    /\ unvisited' = Hashes
    /\ UNCHANGED <<diskVars, unread, referenced, prunes>>

PruneObject(h) ==
    /\ pruner = "walking"
    /\ h \in unvisited
    /\ unvisited' = unvisited \ {h}
    /\ IF h \in objects \ referenced /\ Removable(mtime[h])
       THEN RemoveObject(h)
       ELSE UNCHANGED <<objects, mtime>>
    /\ UNCHANGED <<clock, index, entries, tmp, pruner, unread, referenced,
                   sampled, prunes>>

(* The walk lists put_object's temp files too, under names no index holds. *)
PruneTemp(k, p) ==
    /\ pruner = "walking"
    /\ tmp[k][p] # NoTemp
    /\ Removable(tmp[k][p])
    /\ tmp' = [tmp EXCEPT ![k][p] = NoTemp]
    /\ UNCHANGED <<clock, objects, mtime, index, entries, pruneVars>>

PruneReset ==
    /\ pruner' = "idle"
    /\ unread' = {}
    /\ referenced' = {}
    /\ sampled' = 0
    /\ unvisited' = {}
    /\ UNCHANGED <<diskVars, prunes>>

PruneEnd ==
    /\ pruner = "walking"
    /\ unvisited = {}
    /\ PruneReset

(* The process is killed before it is through. *)
PruneKilled ==
    /\ pruner # "idle"
    /\ unread \cup unvisited # {}
    /\ PruneReset

PruneStep ==
    \/ \E p \in Pkgs : PruneRead(p)
    \/ PruneSample
    \/ \E h \in Hashes : PruneObject(h)
    \/ PruneEnd

PruneNext ==
    \/ PruneStart
    \/ PruneStep
    \/ \E k \in Procs, p \in Pkgs : PruneTemp(k, p)
    \/ PruneKilled
=============================================================================
