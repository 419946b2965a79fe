---------------------------- MODULE StoreProofs ----------------------------
(***************************************************************************)
(* Proofs about StoreSystem, for any number of processes, packages, files   *)
(* and tarballs.  TypeOK, VerifiedEntries and PruneSparesSettled hold with  *)
(* every interleaving; Closed and NoDanglingLink need prune kept apart from *)
(* installs.                                                                *)
(***************************************************************************)
EXTENDS StoreSystem, TLAPS

USE DEF NoTemp, Times

(* A tarball that passes verification is one the metadata vouches for... *)
LEMMA VerifiedIsTrusted ==
    ASSUME NEW p \in Pkgs, NEW t \in Tarballs, VerifyPrecomputed(Meta[p], t)
    PROVE  t \in Trusted(p)
<1> USE FetchAssumption, IntegrityAssumption
<1>1. Meta[p].integrity \subseteq SRI
    BY DEF Metadata
<1>2. CASE Meta[p].integrity = {}
    BY <1>2 DEF VerifyPrecomputed, Trusted
<1>3. CASE Meta[p].integrity # {}
    <2>1. PICK sri \in Meta[p].integrity : VerifySri(sri, t)
        BY <1>3 DEF VerifyPrecomputed
    <2>2. sri = [algo |-> "sha512", digest |-> t]
        BY <2>1, <1>1 DEF VerifySri, SRI
    <2> QED
        BY <2>1, <2>2 DEF Trusted
<1> QED
    BY <1>2, <1>3

(* ... and it vouches for at most one. *)
LEMMA TrustedIsUnique ==
    ASSUME NEW p \in Pkgs, NEW t \in Trusted(p), NEW u \in Trusted(p)
    PROVE  t = u
<1> USE FetchAssumption DEF Trusted
<1>1. CASE Meta[p].integrity = {}
    <2>1. t \in Meta[p].shasum /\ u \in Meta[p].shasum
        BY <1>1
    <2>2. \/ Meta[p].shasum = {}
          \/ \E v \in Tarballs : Meta[p].shasum = {v}
        <3>1. Meta[p].shasum \in {{}} \cup {{v} : v \in Tarballs}
            BY DEF Metadata
        <3> QED
            BY <3>1
    <2> QED
        BY <2>1, <2>2
<1>2. CASE Meta[p].integrity # {}
    <2>1. PICK sri \in SRI : Meta[p].integrity = {sri}
        BY <1>2 DEF Metadata
    <2>2. sri = [algo |-> "sha512", digest |-> t] /\ sri = [algo |-> "sha512", digest |-> u]
        BY <1>2, <2>1
    <2>3. sri.digest = t /\ sri.digest = u
        BY <2>2
    <2> QED
        BY <2>3
<1> QED
    BY <1>1, <1>2

(* The type invariant is preserved by every step of an install. *)
LEMMA FetchType == TypeOK /\ InHand /\ Fetch => TypeOK'
<1> SUFFICES ASSUME TypeOK, InHand, Fetch PROVE TypeOK'
    OBVIOUS
<1> USE FetchAssumption, ClockAssumption
    DEF TypeOK, DiskTypeOK, FetchTypeOK, PruneTypeOK, diskVars, pruneVars
<1>1. UNCHANGED pruneVars /\ settled' \subseteq Pkgs
    BY DEF Fetch, Observe
<1>2. PICK k \in Procs :
          StartInstall(k) \/ ProcStep(k)
          \/ (\E p \in Pkgs : FetchFails(k, p)) \/ Crash(k)
    BY DEF Fetch, FetchNext
<1>3. CASE StartInstall(k)
    BY <1>1, <1>3 DEF StartInstall, Phases, Places
<1>4. ASSUME NEW p \in Pkgs, TaskStep(k, p) PROVE TypeOK'
    <2>1. CASE Check(k, p)
        BY <1>1, <2>1 DEF Check, Move, Places, InFlight, Fetched
    <2>2. ASSUME NEW t \in Tarballs, Receive(k, p, t) PROVE TypeOK'
        <3>1. Content[t] \subseteq Hashes
            OBVIOUS
        <3>2. CASE VerifyPrecomputed(Meta[p], t)
            <4>1. /\ Move(k, p, "extract")
                  /\ got' = [got EXCEPT ![k][p] = t]
                  /\ left' = [left EXCEPT ![k][p] = Content[t]]
                  /\ UNCHANGED <<diskVars, phase, file, runs>>
                BY <2>2, <3>2 DEF Receive
            <4> QED
                BY <1>1, <3>1, <4>1 DEF Move, Places, InFlight
        <3>3. CASE ~ VerifyPrecomputed(Meta[p], t)
            <4>1. Finish(k, p, "failed") /\ UNCHANGED <<diskVars, phase, runs>>
                BY <2>2, <3>3 DEF Receive
            <4> QED
                BY <1>1, <4>1 DEF Finish, Move, Places
        <3> QED
            BY <3>2, <3>3
    <2>3. ASSUME NEW h \in Hashes, PutObject(k, p, h) PROVE TypeOK'
        <3>1. /\ left' = [left EXCEPT ![k][p] = @ \ {h}]
              /\ UNCHANGED <<clock, objects, mtime, index, entries, phase, got, runs>>
            BY <2>3 DEF PutObject
        <3>2. CASE h \in objects
            BY <1>1, <2>3, <3>1, <3>2 DEF PutObject
        <3>3. CASE h \notin objects
            <4>1. /\ tmp' = [tmp EXCEPT ![k][p] = clock]
                  /\ file' = [file EXCEPT ![k][p] = h]
                  /\ pc' = [pc EXCEPT ![k][p] = "rename"]
                BY <2>3, <3>3 DEF PutObject, WriteTemp, Move
            <4> QED
                BY <1>1, <3>1, <4>1 DEF Places, InFlight
        <3> QED
            BY <3>2, <3>3
    <2>4. CASE Rename(k, p)
        <3>1. tmp' \in [Procs -> [Pkgs -> Times \cup {NoTemp}]]
            BY <2>4 DEF Rename, RenameTemp
        <3>2. objects' \subseteq Hashes /\ mtime' \in [Hashes -> Times]
            <4>1. CASE tmp[k][p] = NoTemp
                BY <2>4, <4>1 DEF Rename, RenameTemp
            <4>2. CASE tmp[k][p] # NoTemp
                <5>1. file[k][p] \in Hashes
                    BY <2>4 DEF Rename, InHand
                <5>2. /\ objects' = objects \cup {file[k][p]}
                      /\ mtime' = [mtime EXCEPT ![file[k][p]] = tmp[k][p]]
                    BY <2>4, <4>2 DEF Rename, RenameTemp
                <5>3. tmp[k][p] \in Times
                    BY <4>2
                <5> QED
                    BY <5>1, <5>2, <5>3
            <4> QED
                BY <4>1, <4>2
        <3>3. /\ pc' \in [Procs -> [Pkgs -> Places]]
              /\ file' \in [Procs -> [Pkgs -> Hashes \cup {None}]]
            BY <2>4 DEF Rename, Move, Places, InFlight
        <3> QED
            BY <1>1, <2>4, <3>1, <3>2, <3>3 DEF Rename
    <2>5. CASE BeginIndex(k, p)
        BY <1>1, <2>5 DEF BeginIndex, TruncateIndex, Move, Places, InFlight
    <2>6. CASE EmptyTarball(k, p)
        BY <1>1, <2>6 DEF EmptyTarball, Finish, Move, Places
    <2>7. CASE CompleteIndex(k, p)
        <3>1. Content[got[k][p]] \subseteq Hashes
            BY <2>7 DEF CompleteIndex, InHand, Extracting, Trusted
        <3>2. /\ index' \in [Pkgs -> {"absent", "torn", "whole"}]
              /\ entries' \in [Pkgs -> SUBSET Hashes]
            BY <2>7, <3>1 DEF CompleteIndex, FillIndex
        <3>3. /\ pc' \in [Procs -> [Pkgs -> Places]]
              /\ got' \in [Procs -> [Pkgs -> Tarballs \cup {None}]]
              /\ left' \in [Procs -> [Pkgs -> SUBSET Hashes]]
              /\ file' \in [Procs -> [Pkgs -> Hashes \cup {None}]]
            BY <2>7 DEF CompleteIndex, Finish, Move, Places, Fetched
        <3> QED
            BY <1>1, <2>7, <3>2, <3>3 DEF CompleteIndex
    <2>8. CASE LinkPackage(k, p)
        BY <1>1, <2>8 DEF LinkPackage, Move, Places, Phases
    <2> QED
        BY <1>4, <2>1, <2>2, <2>3, <2>4, <2>5, <2>6, <2>7, <2>8 DEF TaskStep
<1>5. CASE EndFetch(k)
    BY <1>1, <1>5 DEF EndFetch, Phases
<1>6. CASE EndInstall(k)
    BY <1>1, <1>6 DEF EndInstall, Phases
<1>7. ASSUME NEW p \in Pkgs, FetchFails(k, p) PROVE TypeOK'
    BY <1>1, <1>7 DEF FetchFails, Finish, Move, Places
<1>8. CASE Crash(k)
    BY <1>1, <1>8 DEF Crash, Phases, Places
<1> QED
    BY <1>2, <1>3, <1>4, <1>5, <1>6, <1>7, <1>8 DEF ProcStep

(* The type invariant is preserved by every step of a prune. *)
LEMMA CollectType == TypeOK /\ Collect => TypeOK'
<1> SUFFICES ASSUME TypeOK, Collect PROVE TypeOK'
    OBVIOUS
<1> USE GraceAssumption, ClockAssumption
    DEF TypeOK, DiskTypeOK, FetchTypeOK, PruneTypeOK, diskVars, fetchVars, pruneVars
<1>1. UNCHANGED fetchVars /\ settled' \subseteq Pkgs
    BY DEF Collect
<1>2. CASE PruneStart
    BY <1>1, <1>2 DEF PruneStart
<1>3. ASSUME NEW p \in Pkgs, PruneRead(p) PROVE TypeOK'
    BY <1>1, <1>3 DEF PruneRead
<1>4. CASE PruneSample
    BY <1>1, <1>4 DEF PruneSample
<1>5. ASSUME NEW h \in Hashes, PruneObject(h) PROVE TypeOK'
    BY <1>1, <1>5, SMTT(30) DEF PruneObject, RemoveObject
<1>6. CASE PruneEnd \/ PruneKilled
    BY <1>1, <1>6 DEF PruneEnd, PruneKilled, PruneReset
<1>7. ASSUME NEW k \in Procs, NEW p \in Pkgs, PruneTemp(k, p) PROVE TypeOK'
    BY <1>1, <1>7 DEF PruneTemp
<1> QED
    BY <1>2, <1>3, <1>4, <1>5, <1>6, <1>7 DEF Collect, PruneNext, PruneStep

LEMMA NextType == TypeOK /\ InHand /\ [Next]_vars => TypeOK'
<1> SUFFICES ASSUME TypeOK, InHand, [Next]_vars PROVE TypeOK'
    OBVIOUS
<1>1. CASE Pass
    BY <1>1, ClockAssumption
       DEF Pass, Tick, TypeOK, DiskTypeOK, FetchTypeOK, PruneTypeOK, fetchVars, pruneVars
<1>2. CASE UNCHANGED vars
    BY <1>2 DEF vars, TypeOK, DiskTypeOK, FetchTypeOK, PruneTypeOK, diskVars,
                fetchVars, pruneVars
<1> QED
    BY <1>1, <1>2, FetchType, CollectType DEF Next

(* Only an install moves a task, and it keeps InHand. *)
LEMMA NextInHand == TypeOK /\ InHand /\ [Next]_vars => InHand'
<1> SUFFICES ASSUME TypeOK, InHand, [Next]_vars PROVE InHand'
    OBVIOUS
<1> USE DEF InHand, Trusted, Extracting, TypeOK, FetchTypeOK
<1>1. CASE UNCHANGED fetchVars
    BY <1>1 DEF fetchVars
<1>2. CASE Fetch
    <2>1. PICK k \in Procs :
              StartInstall(k) \/ ProcStep(k)
              \/ (\E p \in Pkgs : FetchFails(k, p)) \/ Crash(k)
        BY <1>2 DEF Fetch, FetchNext
    <2>2. CASE StartInstall(k)
        BY <2>2 DEF StartInstall
    <2>3. ASSUME NEW p \in Pkgs, TaskStep(k, p) PROVE InHand'
        <3>1. CASE Check(k, p)
            BY <3>1, ZenonT(60) DEF Check, Move
        <3>2. ASSUME NEW t \in Tarballs, Receive(k, p, t) PROVE InHand'
            <4>1. CASE VerifyPrecomputed(Meta[p], t)
                <5>1. t \in Trusted(p)
                    BY <4>1, VerifiedIsTrusted
                <5>2. /\ pc' = [pc EXCEPT ![k][p] = "extract"]
                      /\ got' = [got EXCEPT ![k][p] = t]
                      /\ left' = [left EXCEPT ![k][p] = Content[t]]
                      /\ UNCHANGED file
                    BY <3>2, <4>1 DEF Receive, Move
                <5> QED
                    BY <5>1, <5>2, ZenonT(60)
            <4>2. CASE ~ VerifyPrecomputed(Meta[p], t)
                <5>1. Finish(k, p, "failed")
                    BY <3>2, <4>2 DEF Receive
                <5> QED
                    BY <5>1, ZenonT(60) DEF Finish, Move
            <4> QED
                BY <4>1, <4>2
        <3>3. ASSUME NEW h \in Hashes, PutObject(k, p, h) PROVE InHand'
            <4>1. /\ pc[k][p] = "extract"
                  /\ left' = [left EXCEPT ![k][p] = @ \ {h}]
                  /\ UNCHANGED got
                BY <3>3 DEF PutObject
            <4>2. CASE h \in objects
                <5>1. UNCHANGED <<pc, file>>
                    BY <3>3, <4>2 DEF PutObject
                <5> QED
                    BY <4>1, <5>1, ZenonT(60)
            <4>3. CASE h \notin objects
                <5>1. /\ file' = [file EXCEPT ![k][p] = h]
                      /\ pc' = [pc EXCEPT ![k][p] = "rename"]
                    BY <3>3, <4>3 DEF PutObject, Move
                <5> QED
                    BY <4>1, <5>1, ZenonT(60)
            <4> QED
                BY <4>2, <4>3
        <3>4. CASE Rename(k, p)
            BY <3>4, ZenonT(60) DEF Rename, Move
        <3>5. CASE BeginIndex(k, p)
            BY <3>5, ZenonT(60) DEF BeginIndex, Move
        <3>6. CASE EmptyTarball(k, p)
            BY <3>6, ZenonT(60) DEF EmptyTarball, Finish, Move
        <3>7. CASE CompleteIndex(k, p)
            BY <3>7, ZenonT(60) DEF CompleteIndex, Finish, Move, Fetched
        <3>8. CASE LinkPackage(k, p)
            BY <3>8 DEF LinkPackage, Move
        <3> QED
            BY <2>3, <3>1, <3>2, <3>3, <3>4, <3>5, <3>6, <3>7, <3>8 DEF TaskStep
    <2>4. CASE EndFetch(k) \/ EndInstall(k)
        BY <2>4 DEF EndFetch, EndInstall
    <2>5. ASSUME NEW p \in Pkgs, FetchFails(k, p) PROVE InHand'
        BY <2>5, ZenonT(60) DEF FetchFails, Finish, Move
    <2>6. CASE Crash(k)
        BY <2>6 DEF Crash
    <2> QED
        BY <2>1, <2>2, <2>3, <2>4, <2>5, <2>6 DEF ProcStep
<1> QED
    BY <1>1, <1>2 DEF Next, Collect, Pass, vars, fetchVars

LEMMA InitTypeInHand == Init => TypeOK /\ InHand
BY ClockAssumption, GraceAssumption, FetchAssumption
   DEF Init, DiskInit, FetchInit, PruneInit, TypeOK, DiskTypeOK, FetchTypeOK,
       PruneTypeOK, Phases, Places, InHand, Extracting

LEMMA TypeInHand == Spec => [](TypeOK /\ InHand)
BY InitTypeInHand, NextType, NextInHand, PTL DEF Spec

(* Every variable keeps its type, whatever interleaves with what; a rename and
   an index write need what InHand says their task holds. *)
THEOREM TypeCorrect == Spec => []TypeOK
BY TypeInHand, PTL

-----------------------------------------------------------------------------
(* The steps that write an index, and what they write. *)
LEMMA IndexWrites ==
    ASSUME TypeOK, InHand, [Next]_vars
    PROVE  \/ UNCHANGED <<index, entries>>
           \/ \E p \in Pkgs : TruncateIndex(p) /\ UNCHANGED <<objects, pruneVars>> /\ Observe
           \/ \E p \in Pkgs : \E t \in Trusted(p) :
                  /\ Content[t] # {}
                  /\ FillIndex(p, Content[t])
                  /\ UNCHANGED <<objects, pruneVars>> /\ Observe
<1>1. CASE Fetch
    <2>1. PICK k \in Procs :
              StartInstall(k) \/ ProcStep(k)
              \/ (\E p \in Pkgs : FetchFails(k, p)) \/ Crash(k)
        BY <1>1 DEF Fetch, FetchNext
    <2>2. ASSUME NEW p \in Pkgs, BeginIndex(k, p)
          PROVE  TruncateIndex(p) /\ UNCHANGED <<objects, pruneVars>> /\ Observe
        BY <1>1, <2>2 DEF Fetch, BeginIndex
    <2>3. ASSUME NEW p \in Pkgs, CompleteIndex(k, p)
          PROVE  \E t \in Trusted(p) :
                     /\ Content[t] # {}
                     /\ FillIndex(p, Content[t])
                     /\ UNCHANGED <<objects, pruneVars>> /\ Observe
        BY <1>1, <2>3 DEF Fetch, CompleteIndex, InHand, Extracting
    <2>4. ASSUME NEW p \in Pkgs, TaskStep(k, p), ~ BeginIndex(k, p), ~ CompleteIndex(k, p)
          PROVE  UNCHANGED <<index, entries>>
        BY <2>4 DEF TaskStep, Check, Receive, PutObject, Rename, EmptyTarball,
                    LinkPackage, diskVars
    <2>5. StartInstall(k) \/ EndFetch(k) \/ EndInstall(k) \/ Crash(k)
              \/ (\E p \in Pkgs : FetchFails(k, p))
          => UNCHANGED <<index, entries>>
        BY DEF StartInstall, EndFetch, EndInstall, Crash, FetchFails, diskVars
    <2> QED
        BY <2>1, <2>2, <2>3, <2>4, <2>5 DEF ProcStep
<1>2. CASE Collect
    BY <1>2 DEF Collect, PruneNext, PruneStep, PruneStart, PruneRead, PruneSample,
                PruneObject, PruneTemp, PruneEnd, PruneKilled, PruneReset, diskVars
<1>3. CASE Pass \/ UNCHANGED vars
    BY <1>3 DEF Pass, Tick, vars, diskVars
<1> QED
    BY <1>1, <1>2, <1>3 DEF Next

LEMMA NextVerified ==
    TypeOK /\ InHand /\ VerifiedEntries /\ [Next]_vars => VerifiedEntries'
<1> SUFFICES ASSUME TypeOK, InHand, VerifiedEntries, [Next]_vars PROVE VerifiedEntries'
    OBVIOUS
<1> USE DEF VerifiedEntries, Trusted, TypeOK, DiskTypeOK
<1>1. CASE UNCHANGED <<index, entries>>
    BY <1>1
<1>2. ASSUME NEW p \in Pkgs, TruncateIndex(p) PROVE VerifiedEntries'
    BY <1>2 DEF TruncateIndex
<1>3. ASSUME NEW p \in Pkgs, NEW t \in Trusted(p), Content[t] # {}, FillIndex(p, Content[t])
      PROVE  VerifiedEntries'
    BY <1>3 DEF FillIndex
<1> QED
    BY <1>1, <1>2, <1>3, IndexWrites

(* No index ever lists anything but the files of a tarball its package's
   metadata vouches for, whatever crashes, races and prunes. *)
THEOREM VerifiedSafe == Spec => []VerifiedEntries
<1>1. Init => VerifiedEntries
    BY DEF Init, DiskInit, VerifiedEntries
<1> QED
    BY <1>1, TypeInHand, NextVerified, PTL DEF Spec

-----------------------------------------------------------------------------
(* An install only ever adds objects. *)
LEMMA FetchAdds == Fetch => objects \subseteq objects' /\ UNCHANGED pruneVars /\ Observe
<1> SUFFICES ASSUME Fetch PROVE objects \subseteq objects'
    BY DEF Fetch
<1>1. PICK k \in Procs :
          StartInstall(k) \/ ProcStep(k)
          \/ (\E p \in Pkgs : FetchFails(k, p)) \/ Crash(k)
    BY DEF Fetch, FetchNext
<1>2. ASSUME NEW p \in Pkgs, TaskStep(k, p) PROVE objects \subseteq objects'
    BY <1>2 DEF TaskStep, Check, Receive, PutObject, Rename, RenameTemp, BeginIndex,
                EmptyTarball, CompleteIndex, LinkPackage, diskVars
<1> QED
    BY <1>1, <1>2 DEF ProcStep, StartInstall, EndFetch, EndInstall, Crash,
                      FetchFails, diskVars

LEMMA NextSettled ==
    /\ TypeOK /\ InHand /\ VerifiedEntries /\ PruneSparesSettled /\ SettledSeen
    /\ [Next]_vars
    => PruneSparesSettled' /\ SettledSeen'
<1> SUFFICES ASSUME TypeOK, InHand, VerifiedEntries, PruneSparesSettled, SettledSeen,
                    [Next]_vars
             PROVE  PruneSparesSettled' /\ SettledSeen'
    OBVIOUS
<1> USE DEF PruneSparesSettled, SettledSeen, Intact, CanRead
<1>1. CASE Fetch
    <2>1. objects \subseteq objects' /\ UNCHANGED pruneVars
              /\ settled' = {p \in settled : index'[p] = "whole"}
        BY <1>1, FetchAdds DEF Observe
    <2>2. ASSUME NEW p \in settled' PROVE entries'[p] = entries[p]
        <3> USE DEF TypeOK, DiskTypeOK
        <3>1. p \in Pkgs /\ p \in settled /\ index[p] = "whole" /\ index'[p] = "whole"
            BY <2>1, <2>2
        <3>2. ASSUME NEW q \in Pkgs, TruncateIndex(q) PROVE entries'[p] = entries[p]
            BY <3>1, <3>2 DEF TruncateIndex
        <3>3. ASSUME NEW q \in Pkgs, NEW t \in Trusted(q), FillIndex(q, Content[t])
              PROVE  entries'[p] = entries[p]
            <4>1. CASE p = q
                <5>1. PICK u \in Trusted(p) : entries[p] = Content[u]
                    BY <3>1 DEF VerifiedEntries
                <5>2. u = t
                    BY <4>1, <5>1, TrustedIsUnique
                <5> QED
                    BY <3>1, <3>3, <4>1, <5>1, <5>2 DEF FillIndex
            <4>2. CASE p # q
                BY <3>1, <3>3, <4>2 DEF FillIndex
            <4> QED
                BY <4>1, <4>2
        <3> QED
            BY <3>2, <3>3, IndexWrites
    <2> QED
        BY <2>1, <2>2 DEF pruneVars
<1>2. CASE Collect
    <2> USE DEF TypeOK, DiskTypeOK, PruneTypeOK
    <2>1. CASE PruneStart
        BY <1>2, <2>1 DEF Collect, PruneStart, diskVars
    <2>2. ASSUME NEW q \in Pkgs, PruneRead(q)
          PROVE  PruneSparesSettled' /\ SettledSeen'
        <3>1. settled' = settled /\ UNCHANGED <<index, entries, objects, pruner>>
            BY <1>2, <2>2 DEF Collect, PruneRead, diskVars
        <3>2. ASSUME NEW p \in settled, p = q PROVE entries[p] \subseteq referenced'
            BY <2>2, <3>2 DEF PruneRead
        <3>3. referenced \subseteq referenced' /\ unread' = unread \ {q}
            BY <2>2 DEF PruneRead
        <3> QED
            BY <3>1, <3>2, <3>3
    <2>3. CASE PruneSample
        BY <1>2, <2>3 DEF Collect, PruneSample, diskVars
    <2>4. ASSUME NEW h \in Hashes, PruneObject(h)
          PROVE  PruneSparesSettled' /\ SettledSeen'
        <3>1. /\ settled' = settled
              /\ UNCHANGED <<index, entries, pruner, unread, referenced>>
              /\ pruner = "walking"
            BY <1>2, <2>4 DEF Collect, PruneObject
        <3>2. objects' = objects \/ (h \notin referenced /\ objects' = objects \ {h})
            BY <2>4 DEF PruneObject, RemoveObject
        <3> QED
            BY <3>1, <3>2
    <2>5. CASE PruneEnd \/ PruneKilled
        BY <1>2, <2>5 DEF Collect, PruneEnd, PruneKilled, PruneReset, diskVars
    <2>6. ASSUME NEW k \in Procs, NEW p \in Pkgs, PruneTemp(k, p)
          PROVE  PruneSparesSettled' /\ SettledSeen'
        BY <1>2, <2>6 DEF Collect, PruneTemp, pruneVars
    <2> QED
        BY <1>2, <2>1, <2>2, <2>3, <2>4, <2>5, <2>6 DEF Collect, PruneNext, PruneStep
<1>3. CASE Pass \/ UNCHANGED vars
    BY <1>3 DEF Pass, Tick, vars, diskVars, pruneVars
<1> QED
    BY <1>1, <1>2, <1>3 DEF Next

(* prune never breaks a package that was intact when it started, even with
   installs running: only what is added or rewritten meanwhile is at risk. *)
THEOREM SettledSafe == Spec => []PruneSparesSettled
<1>1. Init => PruneSparesSettled /\ SettledSeen
    BY DEF Init, PruneSparesSettled, SettledSeen
<1> QED
    BY <1>1, TypeInHand, VerifiedSafe, NextSettled, PTL DEF Spec

-----------------------------------------------------------------------------
(* From here on prune and installs are kept apart. *)

QuietInv == FlightsFetch /\ ExtractedSoFar /\ Closed /\ IndexedSeen /\ Apart

LEMMA NextFlights ==
    TypeOK /\ FlightsFetch /\ [Next]_vars => FlightsFetch'
<1> SUFFICES ASSUME TypeOK, FlightsFetch, [Next]_vars PROVE FlightsFetch'
    OBVIOUS
<1> USE DEF FlightsFetch, InFlight, TypeOK, FetchTypeOK
<1>1. CASE UNCHANGED fetchVars
    BY <1>1 DEF fetchVars
<1>2. CASE Fetch
    <2>1. PICK k \in Procs :
              StartInstall(k) \/ ProcStep(k)
              \/ (\E p \in Pkgs : FetchFails(k, p)) \/ Crash(k)
        BY <1>2 DEF Fetch, FetchNext
    <2>2. CASE StartInstall(k)
        BY <2>2 DEF StartInstall
    <2>3. ASSUME NEW p \in Pkgs, TaskStep(k, p), ~ LinkPackage(k, p)
          PROVE  FlightsFetch'
        <3>1. /\ pc[k][p] \in InFlight \cup {"check"}
              /\ \E place \in Places : pc' = [pc EXCEPT ![k][p] = place] \/ UNCHANGED pc
              /\ UNCHANGED phase
            BY <2>3 DEF TaskStep, Check, Receive, PutObject, Rename, BeginIndex,
                        EmptyTarball, CompleteIndex, Finish, Move, Places, Fetched
        <3>2. p \in Wants[k] /\ phase[k] = "fetching"
            BY <3>1
        <3>3. pc \in [Procs -> [Pkgs -> Places]]
            OBVIOUS
        <3> HIDE DEF TypeOK, FetchTypeOK, InFlight
        <3>4. \A j \in Procs, q \in Pkgs : pc'[j][q] = pc[j][q] \/ (j = k /\ q = p)
          <4>1. CASE UNCHANGED pc
              BY <4>1
          <4>2. ASSUME NEW place \in Places, pc' = [pc EXCEPT ![k][p] = place],
                       NEW j \in Procs, NEW q \in Pkgs
                PROVE  pc'[j][q] = pc[j][q] \/ (j = k /\ q = p)
              BY <4>2, <3>3
          <4> QED BY <3>1, <4>1, <4>2
        <3>5. ASSUME NEW j \in Procs, NEW q \in Pkgs
              PROVE  /\ pc'[j][q] # "none" => q \in Wants[j]
                     /\ pc'[j][q] \in InFlight \cup {"check"} => phase[j] = "fetching"
          <4>1. CASE pc'[j][q] = pc[j][q]
              BY <4>1
          <4>2. CASE j = k /\ q = p
              BY <3>2, <4>2
          <4> QED BY <3>4, <4>1, <4>2
        <3> QED
            BY <3>1, <3>5
    <2>4. ASSUME NEW p \in Pkgs, LinkPackage(k, p) PROVE FlightsFetch'
        BY <2>4 DEF LinkPackage, Move, Fetched
    <2>5. CASE EndFetch(k)
        BY <2>5 DEF EndFetch, Fetched
    <2>6. CASE EndInstall(k)
        BY <2>6 DEF EndInstall
    <2>7. ASSUME NEW p \in Pkgs, FetchFails(k, p) PROVE FlightsFetch'
        BY <2>7 DEF FetchFails, Finish, Move
    <2>8. CASE Crash(k)
        BY <2>8 DEF Crash
    <2> QED
        BY <2>1, <2>2, <2>3, <2>4, <2>5, <2>6, <2>7, <2>8 DEF ProcStep
<1> QED
    BY <1>1, <1>2 DEF Next, Collect, Pass, vars, fetchVars

LEMMA NextExtracted ==
    TypeOK /\ InHand /\ QuietInv /\ [Next]_vars => ExtractedSoFar'
<1> SUFFICES ASSUME TypeOK, InHand, QuietInv, [Next]_vars PROVE ExtractedSoFar'
    OBVIOUS
<1> USE DEF ExtractedSoFar, QuietInv, TypeOK, FetchTypeOK
<1>1. CASE Fetch
    <2>1. PICK k \in Procs :
              StartInstall(k) \/ ProcStep(k)
              \/ (\E p \in Pkgs : FetchFails(k, p)) \/ Crash(k)
        BY <1>1 DEF Fetch, FetchNext
    <2> USE DEF DiskTypeOK
    <2>2. objects \subseteq objects'
        BY <1>1, FetchAdds
    <2>3. CASE StartInstall(k)
        BY <2>3 DEF StartInstall, diskVars
    <2>4. ASSUME NEW p \in Pkgs, TaskStep(k, p) PROVE ExtractedSoFar'
        <3>1. CASE Check(k, p)
            BY <3>1 DEF Check, Move, diskVars
        <3>2. ASSUME NEW t \in Tarballs, Receive(k, p, t) PROVE ExtractedSoFar'
            <4>1. CASE VerifyPrecomputed(Meta[p], t)
                <5>1. /\ pc' = [pc EXCEPT ![k][p] = "extract"]
                      /\ got' = [got EXCEPT ![k][p] = t]
                      /\ left' = [left EXCEPT ![k][p] = Content[t]]
                      /\ UNCHANGED <<file, tmp, objects>>
                    BY <3>2, <4>1 DEF Receive, Move, diskVars
                <5> QED
                    BY <5>1
            <4>2. CASE ~ VerifyPrecomputed(Meta[p], t)
                <5>1. Finish(k, p, "failed") /\ UNCHANGED <<tmp, objects>>
                    BY <3>2, <4>2 DEF Receive, diskVars
                <5> QED
                    BY <5>1 DEF Finish, Move
            <4> QED
                BY <4>1, <4>2
        <3>3. ASSUME NEW h \in Hashes, PutObject(k, p, h) PROVE ExtractedSoFar'
            <4>1. /\ pc[k][p] = "extract"
                  /\ left' = [left EXCEPT ![k][p] = @ \ {h}]
                  /\ UNCHANGED <<got, objects>>
                BY <3>3 DEF PutObject
            <4>2. CASE h \in objects
                <5>1. UNCHANGED <<pc, file, tmp>>
                    BY <3>3, <4>2 DEF PutObject
                <5> QED
                    BY <4>1, <4>2, <5>1
            <4>3. CASE h \notin objects
                <5>1. /\ file' = [file EXCEPT ![k][p] = h]
                      /\ pc' = [pc EXCEPT ![k][p] = "rename"]
                      /\ tmp' = [tmp EXCEPT ![k][p] = clock]
                      /\ clock # NoTemp
                    BY <3>3, <4>3, ClockAssumption DEF PutObject, Move, WriteTemp
                <5> QED
                    BY <4>1, <5>1
            <4> QED
                BY <4>2, <4>3
        <3>4. CASE Rename(k, p)
            <4>1. tmp[k][p] # NoTemp /\ pc[k][p] = "rename"
                BY <3>4 DEF Rename
            <4>2. /\ pc' = [pc EXCEPT ![k][p] = "extract"]
                  /\ tmp' = [tmp EXCEPT ![k][p] = NoTemp]
                  /\ file' = [file EXCEPT ![k][p] = None]
                  /\ objects' = objects \cup {file[k][p]}
                  /\ UNCHANGED <<got, left>>
                BY <3>4, <4>1 DEF Rename, RenameTemp, Move
            <4> QED
                BY <4>1, <4>2
        <3>5. CASE BeginIndex(k, p)
            BY <3>5 DEF BeginIndex, Move
        <3>6. CASE EmptyTarball(k, p)
            BY <3>6 DEF EmptyTarball, Finish, Move, diskVars
        <3>7. CASE CompleteIndex(k, p)
            BY <3>7 DEF CompleteIndex, Finish, Move
        <3>8. CASE LinkPackage(k, p)
            BY <3>8 DEF LinkPackage, Move, diskVars
        <3> QED
            BY <2>4, <3>1, <3>2, <3>3, <3>4, <3>5, <3>6, <3>7, <3>8 DEF TaskStep
    <2>5. CASE EndFetch(k) \/ EndInstall(k)
        BY <2>5 DEF EndFetch, EndInstall, diskVars
    <2>6. ASSUME NEW p \in Pkgs, FetchFails(k, p) PROVE ExtractedSoFar'
        BY <2>6 DEF FetchFails, Finish, Move, diskVars
    <2>7. CASE Crash(k)
        BY <2>7 DEF Crash
    <2> QED
        BY <2>1, <2>3, <2>4, <2>5, <2>6, <2>7 DEF ProcStep
<1>2. CASE Collect
    <2>1. CASE pruner = "idle"
        <3>1. UNCHANGED <<fetchVars, objects, tmp>>
            BY <1>2, <2>1 DEF Collect, PruneNext, PruneStep, PruneStart, PruneRead,
                              PruneSample, PruneObject, PruneTemp, PruneEnd,
                              PruneKilled, diskVars
        <3> QED
            BY <3>1 DEF fetchVars
    <2>2. CASE pruner # "idle"
        <3>1. \A k \in Procs, p \in Pkgs : pc[k][p] \notin InFlight
            BY <2>2 DEF Apart, FlightsFetch, Busy
        <3> QED
            BY <1>2, <3>1 DEF Collect, fetchVars, InFlight
    <2> QED
        BY <2>1, <2>2
<1>3. CASE Pass \/ UNCHANGED vars
    BY <1>3 DEF Pass, Tick, vars, diskVars, fetchVars
<1> QED
    BY <1>1, <1>2, <1>3 DEF Next

(* Fresh indexes list stored objects, and prune has seen every index. *)
LEMMA NextClosed ==
    TypeOK /\ InHand /\ QuietInv /\ [QuietNext]_vars => Closed' /\ IndexedSeen'
<1> SUFFICES ASSUME TypeOK, InHand, QuietInv, [QuietNext]_vars
             PROVE  Closed' /\ IndexedSeen'
    OBVIOUS
<1> USE DEF QuietInv, Closed, IndexedSeen, Intact, CanRead, TypeOK, DiskTypeOK
<1>1. CASE Fetch
    <2>1. objects \subseteq objects' /\ UNCHANGED pruneVars
        BY <1>1, FetchAdds
    <2>2. CASE UNCHANGED <<index, entries>>
        BY <2>1, <2>2 DEF pruneVars
    <2>3. CASE \E p \in Pkgs : TruncateIndex(p)
        BY <2>1, <2>3 DEF TruncateIndex, pruneVars
    <2>4. ASSUME NEW k \in Procs, NEW p \in Pkgs, CompleteIndex(k, p)
          PROVE  Closed' /\ IndexedSeen'
        <3>1. FillIndex(p, Content[got[k][p]]) /\ Content[got[k][p]] \subseteq objects
            BY <2>4 DEF CompleteIndex, ExtractedSoFar
        <3>2. pruner = "idle"
            BY <2>4 DEF CompleteIndex, FlightsFetch, InFlight, Apart, Busy
        <3> QED
            BY <2>1, <3>1, <3>2 DEF FillIndex, pruneVars
    <2>5. \/ UNCHANGED <<index, entries>>
          \/ \E p \in Pkgs : TruncateIndex(p)
          \/ \E k \in Procs, p \in Pkgs : CompleteIndex(k, p)
        <3>1. PICK k \in Procs :
                  StartInstall(k) \/ ProcStep(k)
                  \/ (\E p \in Pkgs : FetchFails(k, p)) \/ Crash(k)
            BY <1>1 DEF Fetch, FetchNext
        <3>2. ASSUME NEW p \in Pkgs, TaskStep(k, p)
              PROVE  UNCHANGED <<index, entries>> \/ TruncateIndex(p) \/ CompleteIndex(k, p)
            BY <3>2 DEF TaskStep, Check, Receive, PutObject, Rename, BeginIndex,
                        EmptyTarball, LinkPackage, diskVars
        <3>3. StartInstall(k) \/ EndFetch(k) \/ EndInstall(k) \/ Crash(k)
                  \/ (\E p \in Pkgs : FetchFails(k, p))
              => UNCHANGED <<index, entries>>
            BY DEF StartInstall, EndFetch, EndInstall, Crash, FetchFails, diskVars
        <3> QED
            BY <3>1, <3>2, <3>3 DEF ProcStep
    <2> QED
        BY <2>2, <2>3, <2>4, <2>5
<1>2. CASE Collect
    <2>1. UNCHANGED <<index, entries>>
        BY <1>2 DEF Collect, PruneNext, PruneStep, PruneStart, PruneRead, PruneSample,
                    PruneObject, PruneTemp, PruneEnd, PruneKilled, PruneReset, diskVars
    <2> USE DEF PruneTypeOK
    <2>2. CASE PruneStart
        BY <2>1, <2>2 DEF PruneStart, diskVars
    <2>3. ASSUME NEW q \in Pkgs, PruneRead(q) PROVE Closed' /\ IndexedSeen'
        <3>1. UNCHANGED <<objects, pruner>> /\ pruner = "reading"
            BY <2>3 DEF PruneRead, diskVars
        <3>2. CanRead(q) => entries[q] \subseteq referenced'
            BY <2>3 DEF PruneRead
        <3>3. referenced \subseteq referenced' /\ unread' = unread \ {q}
            BY <2>3 DEF PruneRead
        <3> QED
            BY <2>1, <3>1, <3>2, <3>3
    <2>4. CASE PruneSample
        BY <2>1, <2>4 DEF PruneSample, diskVars
    <2>5. ASSUME NEW h \in Hashes, PruneObject(h) PROVE Closed' /\ IndexedSeen'
        <3>1. UNCHANGED <<pruner, unread, referenced>> /\ pruner = "walking"
            BY <2>5 DEF PruneObject
        <3>2. objects' = objects \/ (h \notin referenced /\ objects' = objects \ {h})
            BY <2>5 DEF PruneObject, RemoveObject
        <3> QED
            BY <2>1, <3>1, <3>2
    <2>6. CASE PruneEnd \/ PruneKilled
        BY <2>1, <2>6 DEF PruneEnd, PruneKilled, PruneReset, diskVars
    <2>7. ASSUME NEW k \in Procs, NEW p \in Pkgs, PruneTemp(k, p)
          PROVE  Closed' /\ IndexedSeen'
        BY <2>1, <2>7 DEF PruneTemp, pruneVars
    <2> QED
        BY <1>2, <2>2, <2>3, <2>4, <2>5, <2>6, <2>7 DEF Collect, PruneNext, PruneStep
<1>3. CASE Pass \/ UNCHANGED vars
    BY <1>3 DEF Pass, Tick, vars, diskVars, pruneVars
<1> QED
    BY <1>1, <1>2, <1>3 DEF Next, QuietNext

LEMMA InitQuiet == Init => QuietInv
BY DEF Init, DiskInit, FetchInit, PruneInit, QuietInv, FlightsFetch, ExtractedSoFar,
       Closed, IndexedSeen, Apart, CanRead, InFlight, Busy

LEMMA QuietInvariant == QuietSpec => [](TypeOK /\ InHand /\ QuietInv)
<1>1. TypeOK /\ InHand /\ QuietInv /\ [QuietNext]_vars => (TypeOK /\ InHand /\ QuietInv)'
    <2> SUFFICES ASSUME TypeOK, InHand, QuietInv, [QuietNext]_vars
                 PROVE  (TypeOK /\ InHand /\ QuietInv)'
        OBVIOUS
    <2>1. [Next]_vars
        BY DEF QuietNext
    <2>2. Apart'
        BY DEF QuietNext, QuietInv, Apart, Busy, vars, fetchVars, pruneVars
    <2> QED
        BY <2>1, <2>2, NextType, NextInHand, NextFlights, NextExtracted, NextClosed
           DEF QuietInv
<1> QED
    BY <1>1, InitTypeInHand, InitQuiet, PTL DEF QuietSpec

(* With prune and installs kept apart, an index that can be read lists only
   objects that are there: a package is in the store as a whole or not at all,
   across crashes and across processes that install side by side. *)
THEOREM ClosedSafe == QuietSpec => []Closed
BY QuietInvariant, PTL DEF QuietInv

LEMMA NextNoDangling ==
    TypeOK /\ QuietInv /\ NoDanglingLink /\ [QuietNext]_vars => NoDanglingLink'
<1> SUFFICES ASSUME TypeOK, QuietInv, NoDanglingLink, [QuietNext]_vars
             PROVE  NoDanglingLink'
    OBVIOUS
<1> USE DEF NoDanglingLink, TypeOK, FetchTypeOK
<1>1. CASE UNCHANGED fetchVars
    BY <1>1 DEF fetchVars
<1>2. CASE Fetch
    <2>1. PICK k \in Procs :
              StartInstall(k) \/ ProcStep(k)
              \/ (\E p \in Pkgs : FetchFails(k, p)) \/ Crash(k)
        BY <1>2 DEF Fetch, FetchNext
    <2>2. ASSUME NEW p \in Pkgs, LinkPackage(k, p) PROVE NoDanglingLink'
        <3>1. CanRead(p) => Intact(p)
            BY DEF QuietInv, Closed, CanRead
        <3>2. \/ pc' = [pc EXCEPT ![k][p] = "unreadable"]
              \/ pc' = [pc EXCEPT ![k][p] = "linked"]
            BY <2>2, <3>1 DEF LinkPackage, Move
        <3> QED
            <4>1. CASE pc' = [pc EXCEPT ![k][p] = "unreadable"]
                BY <4>1
            <4>2. CASE pc' = [pc EXCEPT ![k][p] = "linked"]
                BY <4>2
            <4> QED
                BY <3>2, <4>1, <4>2
    <2>3. ASSUME NEW p \in Pkgs, TaskStep(k, p) \/ FetchFails(k, p), ~ LinkPackage(k, p)
          PROVE  NoDanglingLink'
        <3>1. \/ UNCHANGED pc
              \/ \E place \in Places \ {"dangling"} : pc' = [pc EXCEPT ![k][p] = place]
            BY <2>3 DEF TaskStep, Check, Receive, PutObject, Rename, BeginIndex,
                        EmptyTarball, CompleteIndex, FetchFails, Finish, Move, Places,
                        InFlight, Fetched
        <3> QED
            BY <3>1
    <2>4. CASE StartInstall(k) \/ EndFetch(k) \/ EndInstall(k) \/ Crash(k)
        <3>1. CASE StartInstall(k)
            BY <3>1 DEF StartInstall
        <3>2. CASE Crash(k)
            BY <3>2 DEF Crash
        <3>3. CASE EndFetch(k) \/ EndInstall(k)
            BY <3>3 DEF EndFetch, EndInstall
        <3> QED
            BY <2>4, <3>1, <3>2, <3>3
    <2> QED
        BY <2>1, <2>2, <2>3, <2>4 DEF ProcStep
<1> QED
    BY <1>1, <1>2 DEF QuietNext, Next, Collect, Pass, vars, fetchVars

(* With prune and installs kept apart, the linker fails on an index only when
   it is torn, never because an object it lists is gone. *)
THEOREM NoDanglingSafe == QuietSpec => []NoDanglingLink
<1>1. Init => NoDanglingLink
    BY DEF Init, FetchInit, NoDanglingLink
<1> QED
    BY <1>1, QuietInvariant, NextNoDangling, PTL DEF QuietSpec
-----------------------------------------------------------------------------
(* The store as a library, for processes that want different packages. *)

WantsApart == \A j, k \in Procs : j # k => Wants[j] \cap Wants[k] = {}

(* Whoever extracts a package is alone with its index, which does not exist or is
   torn, and what has been linked can be read. *)
Alone ==
    \A k \in Procs, p \in Pkgs :
        /\ pc[k][p] \in {"stream", "extract", "rename"} => index[p] = "absent"
        /\ pc[k][p] = "closing" => index[p] = "torn"
        /\ pc[k][p] = "linked" => index[p] = "whole"

(* A task moves its own package only. *)
LEMMA MovesOne ==
    ASSUME TypeOK, NEW k \in Procs, NEW p \in Pkgs, NEW place,
           pc' = [pc EXCEPT ![k][p] = place]
    PROVE  /\ pc'[k][p] = place
           /\ \A j \in Procs, q \in Pkgs : j # k \/ q # p => pc'[j][q] = pc[j][q]
<1>1. pc \in [Procs -> [Pkgs -> Places]]
    BY DEF TypeOK, FetchTypeOK
<1> QED BY <1>1

(* Nobody else has the package that a task has in flight. *)
LEMMA OneTask ==
    ASSUME WantsApart, FlightsFetch, NEW k \in Procs, NEW p \in Pkgs, pc[k][p] # "none",
           NEW j \in Procs, j # k
    PROVE  pc[j][p] = "none"
BY DEF WantsApart, FlightsFetch

(* What one step of a task does to its place, its package's index and the phase of
   its process. *)
LEMMA TaskMoves ==
    ASSUME TypeOK, Alone, NEW k \in Procs, NEW p \in Pkgs,
           TaskStep(k, p) \/ FetchFails(k, p),
           ~ CompleteIndex(k, p), ~ LinkPackage(k, p)
    PROVE  /\ UNCHANGED phase
           /\ pc[k][p] # "none"
           /\ \/ /\ UNCHANGED index
                 /\ \E place \in {"skipped", "stream", "extract", "rename", "failed"} :
                       /\ pc' = [pc EXCEPT ![k][p] = place] \/ pc' = pc
                       /\ place \in {"stream", "extract", "rename"} => index[p] = "absent"
              \/ index[p] = "absent" /\ TruncateIndex(p) /\ Move(k, p, "closing")
<1> USE DEF Alone, TypeOK, FetchTypeOK, DiskTypeOK, diskVars
<1>1. CASE Check(k, p)
    BY <1>1 DEF Check, Move, HasPackage
<1>2. ASSUME NEW t \in Tarballs, Receive(k, p, t)
      PROVE  /\ UNCHANGED <<phase, index>> /\ pc[k][p] = "stream"
             /\ Move(k, p, "extract") \/ Move(k, p, "failed")
    BY <1>2 DEF Receive, Finish
<1>3. ASSUME NEW h \in Hashes, PutObject(k, p, h)
      PROVE  /\ UNCHANGED <<phase, index>> /\ pc[k][p] = "extract"
             /\ Move(k, p, "rename") \/ pc' = pc
    BY <1>3 DEF PutObject
<1>4. CASE Rename(k, p)
    BY <1>4 DEF Rename, Move
<1>5. CASE BeginIndex(k, p)
    BY <1>5 DEF BeginIndex
<1>6. CASE EmptyTarball(k, p) \/ FetchFails(k, p)
    BY <1>6 DEF EmptyTarball, FetchFails, Finish, Move
<1> QED BY <1>1, <1>2, <1>3, <1>4, <1>5, <1>6 DEF TaskStep, Move

LEMMA FetchAlone ==
    ASSUME WantsApart, TypeOK, QuietInv, Alone, Fetch
    PROVE  Alone' /\ \A p \in Pkgs : index[p] = "whole" => index'[p] = "whole"
<1> USE DEF QuietInv, TypeOK, DiskTypeOK, FetchTypeOK
<1>1. PICK k \in Procs :
          StartInstall(k) \/ ProcStep(k)
          \/ (\E p \in Pkgs : FetchFails(k, p)) \/ Crash(k)
    BY DEF Fetch, FetchNext
<1>2. CASE StartInstall(k)
    BY <1>2 DEF StartInstall, diskVars, Alone
<1>3. CASE EndFetch(k) \/ EndInstall(k)
    BY <1>3 DEF EndFetch, EndInstall, diskVars, Alone
<1>4. CASE Crash(k)
    BY <1>4 DEF Crash, Alone
<1>5. ASSUME NEW p \in Pkgs, LinkPackage(k, p)
      PROVE  Alone' /\ \A q \in Pkgs : index[q] = "whole" => index'[q] = "whole"
  <2>1. UNCHANGED index
      BY <1>5 DEF LinkPackage, diskVars
  <2>2. PICK place \in {"unreadable", "dangling", "linked"} :
            /\ pc' = [pc EXCEPT ![k][p] = place]
            /\ place = "linked" => index[p] = "whole"
      BY <1>5 DEF LinkPackage, Move, Intact, CanRead
  <2> QED BY <2>1, <2>2, MovesOne DEF Alone
<1>6. ASSUME NEW p \in Pkgs, CompleteIndex(k, p)
      PROVE  Alone' /\ \A q \in Pkgs : index[q] = "whole" => index'[q] = "whole"
  <2>1. pc' = [pc EXCEPT ![k][p] = "stored"]
      BY <1>6 DEF CompleteIndex, Finish, Move
  <2>2. index' = [index EXCEPT ![p] = "whole"]
      BY <1>6 DEF CompleteIndex, FillIndex
  <2>3. \A j \in Procs : j # k => pc[j][p] = "none"
      BY <1>6, OneTask DEF CompleteIndex
  <2>4. \A j \in Procs, q \in Pkgs : j # k \/ q # p => pc'[j][q] = pc[j][q]
      BY <2>1, MovesOne
  <2>5. pc'[k][p] = "stored"
      BY <2>1, MovesOne
  <2>6. index'[p] = "whole" /\ \A q \in Pkgs : q # p => index'[q] = index[q]
      BY <2>2
  <2>7. ASSUME NEW j \in Procs, NEW q \in Pkgs
        PROVE  /\ pc'[j][q] \in {"stream", "extract", "rename"} => index'[q] = "absent"
               /\ pc'[j][q] = "closing" => index'[q] = "torn"
               /\ pc'[j][q] = "linked" => index'[q] = "whole"
    <3>1. CASE q = p
        BY <2>3, <2>4, <2>5, <3>1
    <3>2. CASE q # p
        BY <2>4, <2>6, <3>2 DEF Alone
    <3> QED BY <3>1, <3>2
  <2> QED BY <2>6, <2>7 DEF Alone
<1>7. ASSUME NEW p \in Pkgs, TaskStep(k, p) \/ FetchFails(k, p),
             ~ CompleteIndex(k, p), ~ LinkPackage(k, p)
      PROVE  Alone' /\ \A q \in Pkgs : index[q] = "whole" => index'[q] = "whole"
  <2>1. ASSUME UNCHANGED index,
               NEW place \in {"skipped", "stream", "extract", "rename", "failed"},
               pc' = [pc EXCEPT ![k][p] = place] \/ pc' = pc,
               place \in {"stream", "extract", "rename"} => index[p] = "absent"
        PROVE  Alone'
    <3>1. CASE pc' = pc
        BY <2>1, <3>1 DEF Alone
    <3>2. CASE pc' = [pc EXCEPT ![k][p] = place]
      <4>1. pc'[k][p] = place
            /\ \A j \in Procs, q \in Pkgs : j # k \/ q # p => pc'[j][q] = pc[j][q]
          BY <3>2, MovesOne
      <4>2. ASSUME NEW j \in Procs, NEW q \in Pkgs
            PROVE  /\ pc'[j][q] \in {"stream", "extract", "rename"} => index'[q] = "absent"
                   /\ pc'[j][q] = "closing" => index'[q] = "torn"
                   /\ pc'[j][q] = "linked" => index'[q] = "whole"
        <5>1. CASE j = k /\ q = p
            BY <2>1, <4>1, <5>1
        <5>2. CASE ~ (j = k /\ q = p)
            BY <2>1, <4>1, <5>2 DEF Alone
        <5> QED BY <5>1, <5>2
      <4> QED BY <4>2 DEF Alone
    <3> QED BY <2>1, <3>1, <3>2
  <2>2. ASSUME index[p] = "absent", TruncateIndex(p), Move(k, p, "closing")
        PROVE  Alone' /\ \A q \in Pkgs : index[q] = "whole" => index'[q] = "whole"
    <3>1. index' = [index EXCEPT ![p] = "torn"]
        BY <2>2 DEF TruncateIndex
    <3>2. \A j \in Procs : j # k => pc[j][p] = "none"
        BY <1>7, OneTask, TaskMoves
    <3>3. pc'[k][p] = "closing"
          /\ \A j \in Procs, q \in Pkgs : j # k \/ q # p => pc'[j][q] = pc[j][q]
        BY <2>2, MovesOne DEF Move
    <3>4. index'[p] = "torn" /\ \A q \in Pkgs : q # p => index'[q] = index[q]
        BY <3>1
    <3>5. ASSUME NEW j \in Procs, NEW q \in Pkgs
          PROVE  /\ pc'[j][q] \in {"stream", "extract", "rename"} => index'[q] = "absent"
                 /\ pc'[j][q] = "closing" => index'[q] = "torn"
                 /\ pc'[j][q] = "linked" => index'[q] = "whole"
      <4>1. CASE q = p
          BY <3>2, <3>3, <3>4, <4>1
      <4>2. CASE q # p
          BY <3>3, <3>4, <4>2 DEF Alone
      <4> QED BY <4>1, <4>2
    <3> QED BY <2>2, <3>4, <3>5 DEF Alone
  <2> QED BY <1>7, <2>1, <2>2, TaskMoves
<1> QED BY <1>1, <1>2, <1>3, <1>4, <1>5, <1>6, <1>7 DEF ProcStep

(* Everything else leaves indexes and tasks alone. *)
LEMMA OthersIdle ==
    ASSUME [QuietNext]_vars, ~ Fetch
    PROVE  UNCHANGED <<index, entries, pc, phase>>
<1>1. CASE Collect
    BY <1>1 DEF Collect, PruneNext, PruneStep, PruneStart, PruneRead, PruneSample,
                PruneObject, PruneTemp, PruneEnd, PruneKilled, PruneReset, diskVars, fetchVars
<1>2. CASE Pass \/ UNCHANGED vars
    BY <1>2 DEF Pass, Tick, vars, diskVars, fetchVars
<1> QED BY <1>1, <1>2 DEF QuietNext, Next

LEMMA NextAlone ==
    ASSUME WantsApart, TypeOK, QuietInv, Alone, [QuietNext]_vars
    PROVE  Alone' /\ \A p \in Pkgs : index[p] = "whole" => index'[p] = "whole"
BY FetchAlone, OthersIdle DEF Alone

(* With Closed a package is in the library when its index can be read. *)
LEMMA LibraryIs ==
    ASSUME Closed
    PROVE  \A p \in Pkgs : Intact(p) <=> index[p] = "whole"
BY DEF Closed, Intact, CanRead

LEMMA LibraryStep ==
    ASSUME WantsApart, TypeOK, QuietInv, Alone, [QuietNext]_vars, QuietInv'
    PROVE  [Library!LibraryNext]_(Library!libraryVars)
<1> DEFINE lib == {p \in Pkgs : Intact(p)}
           req == [k \in Procs |-> Report(phase[k])]
<1>1. lib = {p \in Pkgs : index[p] = "whole"}
    BY LibraryIs DEF QuietInv
<1>2. lib' = {p \in Pkgs : index'[p] = "whole"}
    BY DEF QuietInv, Closed, Intact, CanRead
<1>3. ASSUME UNCHANGED index, UNCHANGED phase
      PROVE  UNCHANGED Library!libraryVars
    BY <1>1, <1>2, <1>3 DEF Library!libraryVars
<1> HIDE DEF lib, req
<1>4. CASE ~ Fetch
    BY <1>3, <1>4, OthersIdle
<1>5. CASE Fetch
  <2>1. PICK k \in Procs :
            StartInstall(k) \/ ProcStep(k)
            \/ (\E p \in Pkgs : FetchFails(k, p)) \/ Crash(k)
      BY <1>5 DEF Fetch, FetchNext
  <2> USE DEF TypeOK, FetchTypeOK
  <2>2. ASSUME NEW to \in Phases, phase' = [phase EXCEPT ![k] = to], UNCHANGED index
        PROVE  /\ UNCHANGED lib
               /\ req' = [req EXCEPT ![k] = Report(to)]
               /\ req[k] = Report(phase[k])
      BY <1>1, <1>2, <2>2 DEF req
  <2>3. CASE StartInstall(k)
    <3>1. phase' = [phase EXCEPT ![k] = "fetching"] /\ UNCHANGED index
        BY <2>3 DEF StartInstall, diskVars
    <3>2. phase[k] \in {"idle", "installed", "failed"}
        BY <2>3 DEF StartInstall, Busy, Phases
    <3>3. Library!Ask(k)
        BY <2>2, <3>1, <3>2 DEF Library!Ask, Phases, Report, lib, req
    <3> QED BY <3>3 DEF Library!LibraryNext
  <2>4. CASE Crash(k)
    <3>1. phase' = [phase EXCEPT ![k] = "failed"] /\ UNCHANGED index
          /\ phase[k] \in {"fetching", "linking"}
        BY <2>4 DEF Crash, Busy
    <3>2. Library!Refuse(k)
        BY <2>2, <3>1 DEF Library!Refuse, Phases, Report, lib, req
    <3> QED BY <3>2 DEF Library!LibraryNext
  <2>5. CASE EndFetch(k)
    <3>1. UNCHANGED index /\ phase[k] = "fetching"
        BY <2>5 DEF EndFetch, diskVars
    <3>2. CASE phase' = [phase EXCEPT ![k] = "failed"]
      <4>1. Library!Refuse(k)
          BY <2>2, <3>1, <3>2 DEF Library!Refuse, Phases, Report, lib, req
      <4> QED BY <4>1 DEF Library!LibraryNext
    <3>3. CASE phase' = [phase EXCEPT ![k] = "linking"]
      <4>1. UNCHANGED lib /\ UNCHANGED req
          BY <2>2, <3>1, <3>3 DEF Phases, Report, req
      <4> QED BY <4>1 DEF Library!libraryVars, lib, req
    <3> QED BY <2>5, <3>2, <3>3 DEF EndFetch
  <2>6. CASE EndInstall(k)
    <3>1. phase' = [phase EXCEPT ![k] = "installed"] /\ UNCHANGED index
          /\ phase[k] = "linking"
        BY <2>6 DEF EndInstall, diskVars
    <3>2. Wants[k] \subseteq lib
        BY <1>1, <2>6, FetchAssumption DEF EndInstall, Alone
    <3>3. Library!Serve(k)
        BY <2>2, <3>1, <3>2 DEF Library!Serve, Phases, Report, lib, req
    <3> QED BY <3>3 DEF Library!LibraryNext
  <2>7. ASSUME NEW p \in Pkgs, LinkPackage(k, p)
        PROVE  [Library!LibraryNext]_(Library!libraryVars)
    <3>1. UNCHANGED index /\ phase[k] = "linking"
        BY <2>7 DEF LinkPackage, diskVars
    <3>2. CASE phase' = [phase EXCEPT ![k] = "failed"]
      <4>1. Library!Refuse(k)
          BY <2>2, <3>1, <3>2 DEF Library!Refuse, Phases, Report, lib, req
      <4> QED BY <4>1 DEF Library!LibraryNext
    <3>3. CASE phase' = phase
        BY <1>3, <3>1, <3>3
    <3> QED BY <2>7, <3>2, <3>3 DEF LinkPackage
  <2>8. ASSUME NEW p \in Pkgs, CompleteIndex(k, p)
        PROVE  [Library!LibraryNext]_(Library!libraryVars)
    <3>1. UNCHANGED phase /\ index' = [index EXCEPT ![p] = "whole"] /\ index[p] = "torn"
        BY <2>8 DEF CompleteIndex, FillIndex, Alone
    <3>2. phase[k] = "fetching" /\ p \in Wants[k]
        BY <2>8 DEF CompleteIndex, QuietInv, FlightsFetch, InFlight
    <3>3. lib' = lib \cup {p} /\ p \notin lib
        BY <1>1, <1>2, <3>1 DEF DiskTypeOK
    <3>4. UNCHANGED req /\ req[k] = "asked"
        BY <3>1, <3>2 DEF req, Report
    <3>5. Library!Acquire(p)
        BY <3>2, <3>3, <3>4 DEF Library!Acquire, lib, req
    <3> QED BY <3>5 DEF Library!LibraryNext
  <2>9. ASSUME NEW p \in Pkgs, TaskStep(k, p) \/ FetchFails(k, p),
               ~ CompleteIndex(k, p), ~ LinkPackage(k, p)
        PROVE  UNCHANGED Library!libraryVars
    <3>1. UNCHANGED phase
        BY <2>9, TaskMoves
    <3>2. \A q \in Pkgs : index'[q] = "whole" <=> index[q] = "whole"
        BY <2>9, TaskMoves DEF TruncateIndex, DiskTypeOK
    <3>3. UNCHANGED lib /\ UNCHANGED req
        BY <1>1, <1>2, <3>1, <3>2 DEF req
    <3> QED BY <3>3 DEF Library!libraryVars, lib, req
  <2> QED BY <2>1, <2>3, <2>4, <2>5, <2>6, <2>7, <2>8, <2>9 DEF ProcStep
<1> QED BY <1>4, <1>5

(* Installs that want different packages, with prune kept apart, implement the
   library: a package that came in is never lost, through crashes and prunes, and
   an install that succeeds has linked packages that are all there. *)
THEOREM LibraryImplemented ==
    ASSUME WantsApart
    PROVE  QuietSpec => ImplementsLibrary
<1>1. Init => Library!LibraryInit
  <2> SUFFICES ASSUME Init PROVE Library!LibraryInit
      OBVIOUS
  <2>1. {p \in Pkgs : Intact(p)} = {}
      BY DEF Init, DiskInit, Intact, CanRead
  <2>2. [k \in Procs |-> Report(phase[k])] = [k \in Procs |-> "none"]
      BY DEF Init, FetchInit, Report
  <2> QED BY <2>1, <2>2 DEF Library!LibraryInit
<1>2. Init => Alone
    BY DEF Init, FetchInit, Alone
<1>3. TypeOK /\ QuietInv /\ Alone /\ [QuietNext]_vars => Alone'
    BY NextAlone
<1>4. TypeOK /\ QuietInv /\ Alone /\ [QuietNext]_vars /\ QuietInv'
      => [Library!LibraryNext]_(Library!libraryVars)
    BY LibraryStep
<1> QED BY <1>1, <1>2, <1>3, <1>4, QuietInvariant, PTL
        DEF QuietSpec, ImplementsLibrary, Library!LibrarySpec

(* What the library promises its clients, the store keeps: once an install has
   succeeded, the packages it wanted stay whole, until it starts anew, whatever
   crashes, fails, is installed or pruned (lib.rs, fetch_all; store.rs, prune). *)
THEOREM InstalledStays ==
    ASSUME WantsApart
    PROVE  QuietSpec => []Library!Honoured
<1>1. Library!LibraryInit => Library!Honoured
    BY DEF Library!LibraryInit, Library!Honoured
<1>2. Library!Honoured /\ [Library!LibraryNext]_(Library!libraryVars) => Library!Honoured'
  <2> DEFINE lib == {p \in Pkgs : Intact(p)}
             req == [k \in Procs |-> Report(phase[k])]
  <2> SUFFICES ASSUME Library!Honoured, [Library!LibraryNext]_(Library!libraryVars)
               PROVE  Library!Honoured'
      OBVIOUS
  <2>1. \A k \in Procs : req[k] = "served" => Wants[k] \subseteq lib
      BY DEF Library!Honoured
  <2>2. req \in [Procs -> {"none", "asked", "served", "refused"}]
      BY DEF Report
  <2>3. \A k \in Procs : req'[k] = "served" => Wants[k] \subseteq lib'
    <3> HIDE DEF lib, req
    <3>1. CASE UNCHANGED <<lib, req>>
        BY <2>1, <3>1
    <3>2. ASSUME NEW c \in Procs, Library!Ask(c) \/ Library!Serve(c) \/ Library!Refuse(c)
          PROVE  \A k \in Procs : req'[k] = "served" => Wants[k] \subseteq lib'
        BY <2>1, <2>2, <3>2 DEF Library!Ask, Library!Serve, Library!Refuse, lib, req
    <3>3. ASSUME NEW p \in Pkgs, Library!Acquire(p)
          PROVE  \A k \in Procs : req'[k] = "served" => Wants[k] \subseteq lib'
        BY <2>1, <3>3 DEF Library!Acquire, lib, req
    <3> QED BY <3>1, <3>2, <3>3 DEF Library!LibraryNext, Library!libraryVars, lib, req
  <2> QED BY <2>3 DEF Library!Honoured
<1> QED BY <1>1, <1>2, LibraryImplemented, PTL DEF ImplementsLibrary, Library!LibrarySpec

-----------------------------------------------------------------------------
(* prune as a complete collection. *)

(* Prune's marks are those of indexes that can be read, and whatever its walk has
   passed is marked or young. *)
Swept ==
    /\ pruner = "idle" => referenced = {}
    /\ \A h \in referenced : \E p \in Pkgs : CanRead(p) /\ h \in entries[p]
    /\ pruner = "walking" =>
          \A h \in objects \ unvisited : h \in referenced \/ ~ Removable(mtime[h])

(* While a prune runs nobody installs. *)
LEMMA NoFetchBeside ==
    ASSUME TypeOK, QuietInv, [QuietNext]_vars, QuietInv', pruner # "idle"
    PROVE  ~ Fetch
<1> SUFFICES ASSUME Fetch PROVE FALSE
    OBVIOUS
<1>1. PICK k \in Procs :
          StartInstall(k) \/ ProcStep(k)
          \/ (\E p \in Pkgs : FetchFails(k, p)) \/ Crash(k)
    BY DEF Fetch, FetchNext
<1>2. ~ Busy(k)
    BY DEF QuietInv, Apart
<1>3. \A p \in Pkgs : pc[k][p] \notin InFlight \cup {"check"}
    BY <1>2 DEF QuietInv, FlightsFetch, Busy
<1>4. ~ StartInstall(k)
  <2> SUFFICES ASSUME StartInstall(k) PROVE FALSE
      OBVIOUS
  <2>1. pruner' = pruner /\ phase'[k] = "fetching"
      BY DEF Fetch, pruneVars, StartInstall, TypeOK, FetchTypeOK
  <2> QED BY <2>1 DEF QuietInv, Apart, Busy
<1>5. \A p \in Pkgs : ~ TaskStep(k, p) /\ ~ FetchFails(k, p)
    BY <1>2, <1>3 DEF TaskStep, Check, Receive, PutObject, Rename, BeginIndex, EmptyTarball,
                      CompleteIndex, LinkPackage, FetchFails, InFlight, Busy
<1> QED BY <1>1, <1>2, <1>4, <1>5 DEF ProcStep, EndFetch, EndInstall, Crash, Busy

LEMMA NextSwept ==
    ASSUME TypeOK, QuietInv, Swept, [QuietNext]_vars, QuietInv'
    PROVE  Swept'
<1> USE DEF Swept, TypeOK, DiskTypeOK, PruneTypeOK, CanRead
<1>1. CASE Fetch
  <2>1. pruner = "idle" /\ UNCHANGED pruneVars
      BY <1>1, NoFetchBeside, FetchAdds
  <2> QED BY <2>1 DEF pruneVars
<1>2. CASE Collect
  <2>1. UNCHANGED <<index, entries>>
      BY <1>2 DEF Collect, PruneNext, PruneStep, PruneStart, PruneRead, PruneSample,
                  PruneObject, PruneTemp, PruneEnd, PruneKilled, PruneReset, diskVars
  <2>2. CASE PruneStart
      BY <2>1, <2>2 DEF PruneStart, diskVars
  <2>3. ASSUME NEW p \in Pkgs, PruneRead(p) PROVE Swept'
      BY <2>1, <2>3 DEF PruneRead, diskVars
  <2>4. CASE PruneSample
      BY <2>1, <2>4 DEF PruneSample, diskVars
  <2>5. ASSUME NEW h \in Hashes, PruneObject(h) PROVE Swept'
    <3>1. /\ UNCHANGED <<pruner, referenced, sampled>>
          /\ pruner = "walking" /\ unvisited' = unvisited \ {h}
        BY <2>5 DEF PruneObject
    <3>2. \A m : Removable(m)' <=> Removable(m)
        BY <3>1 DEF Removable
    <3>3. CASE h \in objects \ referenced /\ Removable(mtime[h])
      <4>1. objects' = objects \ {h} /\ mtime' = [mtime EXCEPT ![h] = 0]
          BY <2>5, <3>3 DEF PruneObject, RemoveObject
      <4>2. \A g \in objects' : mtime'[g] = mtime[g]
          BY <4>1
      <4> QED BY <2>1, <3>1, <4>1, <4>2 DEF Removable
    <3>4. CASE ~ (h \in objects \ referenced /\ Removable(mtime[h]))
      <4>1. UNCHANGED <<objects, mtime>>
          BY <2>5, <3>4 DEF PruneObject
      <4> QED BY <2>1, <3>1, <3>4, <4>1 DEF Removable
    <3> QED BY <3>3, <3>4
  <2>6. CASE PruneEnd \/ PruneKilled
      BY <2>1, <2>6 DEF PruneEnd, PruneKilled, PruneReset
  <2>7. ASSUME NEW k \in Procs, NEW p \in Pkgs, PruneTemp(k, p) PROVE Swept'
      BY <2>1, <2>7 DEF PruneTemp, pruneVars, Removable
  <2> QED BY <1>2, <2>2, <2>3, <2>4, <2>5, <2>6, <2>7 DEF Collect, PruneNext, PruneStep
<1>3. CASE Pass \/ UNCHANGED vars
    BY <1>3 DEF Pass, Tick, vars, diskVars, pruneVars, Removable
<1> QED BY <1>1, <1>2, <1>3 DEF QuietNext, Next

(* With prune kept apart from installs, a prune that comes to its end leaves only
   objects that an index lists, or that are younger than the grace window. *)
THEOREM CollectsSafe == QuietSpec => PruneCollects
<1>1. Init => Swept
    BY DEF Init, PruneInit, Swept
<1>2. TypeOK /\ QuietInv /\ Swept /\ [QuietNext]_vars /\ QuietInv' => Swept'
    BY NextSwept
<1>3. Swept => (PruneEnd => \A h \in objects :
                    \/ \E p \in Pkgs : CanRead(p) /\ h \in entries[p]
                    \/ sampled - mtime[h] < Grace)
    BY DEF Swept, PruneEnd, Removable
<1> QED BY <1>1, <1>2, <1>3, QuietInvariant, PTL DEF QuietSpec, PruneCollects
=============================================================================
