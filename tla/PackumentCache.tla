--------------------------- MODULE PackumentCache ---------------------------
(***************************************************************************)
(* One package's metadata, the packument, on its way from the registry to   *)
(* the tasks that ask for it (crates/core/src/registry.rs).                 *)
(*                                                                          *)
(* Inside a process a OnceCell lets one task fetch while the others wait;   *)
(* between processes two plain files, the body and its ETag, are shared and *)
(* rewritten without a lock.  Packages do not interact, so one is enough.   *)
(* The registry's versions of the packument are numbered; it answers with   *)
(* its latest one and an ETag that names it.                                *)
(***************************************************************************)
EXTENDS Integers

CONSTANTS
    Procs,       \* vault processes
    Callers,     \* tasks of a process that ask for the packument
    MaxVersion,  \* bound: the last version the registry publishes
    MaxAttempts, \* MAX_ATTEMPTS of send_with_retry
    MaxRuns      \* bound: how many processes are started in all

ASSUME CacheAssumption ==
    /\ MaxVersion \in Nat \ {0}
    /\ MaxAttempts \in Nat \ {0}
    /\ MaxRuns \in Nat

VARIABLES
    version,  \* the registry's current version
    body,     \* <safe>.json: Absent, Torn or a version
    etag,     \* <safe>.etag: Absent, Torn or a version
    pc,       \* where each process's fetch is
    holder,   \* {the caller that is fetching}, or {}
    cond,     \* If-None-Match of the request: Absent for none
    attempt,  \* attempts made at the request
    value,    \* the version received, to be cached and served
    cell,     \* the OnceCell: Absent or the version it holds
    caller,   \* the state of each process's callers
    floor,    \* history: the registry's version when the fetch began
    runs,     \* how many processes were started
    overlap   \* history: whether two processes ever fetched at once

vars == <<version, body, etag, pc, holder, cond, attempt, value, cell, caller,
          floor, runs, overlap>>

disk == <<body, etag>>

Absent == 0
Torn == -1

Versions == 1 .. MaxVersion
OnDisk == {Absent, Torn} \cup Versions

FetchStates == {"off", "asking", "validated", "received", "bodyOpen", "bodyDone",
                "etagOpen", "ready"}

TypeOK ==
    /\ version \in Versions
    /\ body \in OnDisk /\ etag \in OnDisk
    /\ pc \in [Procs -> FetchStates]
    /\ holder \in [Procs -> {{}} \cup {{c} : c \in Callers}]
    /\ cond \in [Procs -> OnDisk]
    /\ attempt \in [Procs -> 0 .. MaxAttempts]
    /\ value \in [Procs -> {Absent} \cup Versions]
    /\ cell \in [Procs -> {Absent} \cup Versions]
    /\ caller \in [Procs -> [Callers -> {"idle", "waiting", "served", "failed"}]]
    /\ floor \in [Procs -> {Absent} \cup Versions]
    /\ runs \in 0 .. MaxRuns
    /\ overlap \in BOOLEAN

Init ==
    /\ version = 1
    /\ body = Absent /\ etag = Absent
    /\ pc = [k \in Procs |-> "off"]
    /\ holder = [k \in Procs |-> {}]
    /\ cond = [k \in Procs |-> Absent]
    /\ attempt = [k \in Procs |-> 0]
    /\ value = [k \in Procs |-> Absent]
    /\ cell = [k \in Procs |-> Absent]
    /\ caller = [k \in Procs |-> [c \in Callers |-> "idle"]]
    /\ floor = [k \in Procs |-> Absent]
    /\ runs = 0
    /\ overlap = FALSE

Goto(k, place) == pc' = [pc EXCEPT ![k] = place]

Publish ==
    /\ version < MaxVersion
    /\ version' = version + 1
    /\ UNCHANGED <<disk, pc, holder, cond, attempt, value, cell, caller, floor,
                   runs, overlap>>

-----------------------------------------------------------------------------
(* packument(): served from the cell, or queued behind whoever fetches. *)
Ask(k, c) ==
    /\ caller[k][c] = "idle"
    /\ caller' = [caller EXCEPT ![k][c] = IF cell[k] = Absent THEN "waiting" ELSE "served"]
    /\ UNCHANGED <<version, disk, pc, holder, cond, attempt, value, cell, floor,
                   runs, overlap>>

(* The conditional header: the ETag file's content, provided the body file
   exists; whether that body parses is not asked. *)
CondOnDisk == IF body = Absent THEN Absent ELSE etag

(* get_or_try_init runs fetch_packument for one waiting caller, which picks the
   condition and sends the request. *)
Fetch(k, c) ==
    /\ pc[k] = "off"
    /\ cell[k] = Absent
    /\ caller[k][c] = "waiting"
    /\ Goto(k, "asking")
    /\ holder' = [holder EXCEPT ![k] = {c}]
    /\ cond' = [cond EXCEPT ![k] = CondOnDisk]
    /\ attempt' = [attempt EXCEPT ![k] = 1]
    /\ floor' = [floor EXCEPT ![k] = version]
    /\ overlap' = (overlap \/ \E j \in Procs \ {k} : pc[j] # "off")
    /\ UNCHANGED <<version, disk, value, cell, caller, runs>>

(* The request is over; what it was sent with is dropped. *)
Answered(k) ==
    /\ cond' = [cond EXCEPT ![k] = Absent]
    /\ attempt' = [attempt EXCEPT ![k] = 0]

(* 304: the registry's version is the one the ETag names. *)
NotModified(k) ==
    /\ pc[k] = "asking"
    /\ cond[k] = version
    /\ Goto(k, "validated")
    /\ Answered(k)
    /\ UNCHANGED <<version, disk, holder, value, cell, caller, floor, runs, overlap>>

(* 200: the current version, in full. *)
Received(k) ==
    /\ pc[k] = "asking"
    /\ cond[k] # version
    /\ value' = [value EXCEPT ![k] = version]
    /\ Goto(k, "received")
    /\ Answered(k)
    /\ UNCHANGED <<version, disk, holder, cell, caller, floor, runs, overlap>>

(* Mutant: attempts are not counted against the limit. *)
RetryForever(k) ==
    /\ pc[k] = "asking"
    /\ attempt' = [attempt EXCEPT ![k] = @ + 1]
    /\ UNCHANGED <<version, disk, pc, holder, cond, value, cell, caller, floor, runs,
                   overlap>>

(* Connection errors, 429 and 5xx are retried with a growing delay. *)
Retry(k) ==
    /\ pc[k] = "asking"
    /\ attempt[k] < MaxAttempts
    /\ attempt' = [attempt EXCEPT ![k] = @ + 1]
    /\ UNCHANGED <<version, disk, pc, holder, cond, value, cell, caller, floor, runs,
                   overlap>>

(* The cell's fetch is over and its locals are dropped. *)
Settle(k) ==
    /\ Goto(k, "off")
    /\ holder' = [holder EXCEPT ![k] = {}]
    /\ cond' = [cond EXCEPT ![k] = Absent]
    /\ attempt' = [attempt EXCEPT ![k] = 0]
    /\ value' = [value EXCEPT ![k] = Absent]

(* A failed fetch is the error of the caller that ran it and of no other: the
   cell stays empty and the next waiting caller fetches. *)
FailedCallers(k) ==
    [c \in Callers |-> IF c \in holder[k] THEN "failed" ELSE caller[k][c]]

(* The attempts are used up, the registry answers 4xx, or the answer does not
   parse. *)
Fail(k) ==
    /\ pc[k] = "asking"
    /\ Settle(k)
    /\ caller' = [caller EXCEPT ![k] = FailedCallers(k)]
    /\ floor' = [floor EXCEPT ![k] = Absent]
    /\ UNCHANGED <<version, disk, cell, runs, overlap>>

(* After a 304 the body is read back; one that is gone or does not parse is
   fetched again, unconditionally. *)
ReadBody(k) ==
    /\ pc[k] = "validated"
    /\ IF body \in Versions
       THEN /\ value' = [value EXCEPT ![k] = body]
            /\ Goto(k, "ready")
            /\ UNCHANGED attempt
       ELSE /\ attempt' = [attempt EXCEPT ![k] = 1]
            /\ Goto(k, "asking")
            /\ UNCHANGED value
    /\ UNCHANGED <<version, disk, holder, cond, cell, caller, floor, runs, overlap>>

(* write_cache: fs::write of the body, then of the ETag.  Between its two steps
   each file is torn; when the first write fails the second is not tried. *)
OpenBody(k) ==
    /\ pc[k] = "received"
    /\ body' = Torn
    /\ Goto(k, "bodyOpen")
    /\ UNCHANGED <<version, etag, holder, cond, attempt, value, cell, caller, floor,
                   runs, overlap>>

CloseBody(k) ==
    /\ pc[k] = "bodyOpen"
    /\ body' = value[k]
    /\ Goto(k, "bodyDone")
    /\ UNCHANGED <<version, etag, holder, cond, attempt, value, cell, caller, floor,
                   runs, overlap>>

OpenEtag(k) ==
    /\ pc[k] = "bodyDone"
    /\ etag' = Torn
    /\ Goto(k, "etagOpen")
    /\ UNCHANGED <<version, body, holder, cond, attempt, value, cell, caller, floor,
                   runs, overlap>>

CloseEtag(k) ==
    /\ pc[k] = "etagOpen"
    /\ etag' = value[k]
    /\ Goto(k, "ready")
    /\ UNCHANGED <<version, body, holder, cond, attempt, value, cell, caller, floor,
                   runs, overlap>>

(* Mutant: the ETag is written even though the body was not. *)
SkipWriteOfBody(k) ==
    /\ pc[k] \in {"received", "bodyOpen", "bodyDone", "etagOpen"}
    /\ Goto(k, IF pc[k] = "received" THEN "bodyDone" ELSE "ready")
    /\ UNCHANGED <<version, disk, holder, cond, attempt, value, cell, caller, floor,
                   runs, overlap>>

(* A write fails, or the answer carried no ETag: the packument is served all
   the same, and the files stay as they are. *)
SkipWrite(k) ==
    /\ pc[k] \in {"received", "bodyOpen", "bodyDone", "etagOpen"}
    /\ Goto(k, "ready")
    /\ UNCHANGED <<version, disk, holder, cond, attempt, value, cell, caller, floor,
                   runs, overlap>>

(* Mutant: only the caller that fetched is woken. *)
FillForHolder(k) ==
    /\ pc[k] = "ready"
    /\ cell' = [cell EXCEPT ![k] = value[k]]
    /\ caller' = [caller EXCEPT ![k] =
                     [c \in Callers |-> IF c \in holder[k] THEN "served" ELSE @[c]]]
    /\ Settle(k)
    /\ UNCHANGED <<version, disk, floor, runs, overlap>>

(* The cell is filled; everybody who waits gets what it holds. *)
Fill(k) ==
    /\ pc[k] = "ready"
    /\ cell' = [cell EXCEPT ![k] = value[k]]
    /\ caller' = [caller EXCEPT ![k] =
                     [c \in Callers |-> IF @[c] = "waiting" THEN "served" ELSE @[c]]]
    /\ Settle(k)
    /\ UNCHANGED <<version, disk, floor, runs, overlap>>

(* The process ends, or is killed, and another one starts in its place with an
   empty memory over the same files. *)
Restart(k) ==
    /\ runs < MaxRuns
    /\ runs' = runs + 1
    /\ Settle(k)
    /\ cell' = [cell EXCEPT ![k] = Absent]
    /\ caller' = [caller EXCEPT ![k] = [c \in Callers |-> "idle"]]
    /\ floor' = [floor EXCEPT ![k] = Absent]
    /\ UNCHANGED <<version, disk, overlap>>

-----------------------------------------------------------------------------
(* What a process does by itself once the registry has answered. *)
Proceed(k) ==
    \/ \E c \in Callers : Fetch(k, c)
    \/ NotModified(k) \/ Received(k) \/ Fail(k)
    \/ ReadBody(k)
    \/ OpenBody(k) \/ CloseBody(k) \/ OpenEtag(k) \/ CloseEtag(k) \/ SkipWrite(k)
    \/ Fill(k)

ProcNext(k) ==
    \/ \E c \in Callers : Ask(k, c)
    \/ Proceed(k)
    \/ Retry(k)
    \/ Restart(k)

Next == Publish \/ \E k \in Procs : ProcNext(k)

Spec == Init /\ [][Next]_vars

(* A request ends in one of its ways, and the runtime schedules the task. *)
Fairness == \A k \in Procs : WF_vars(Proceed(k))

LiveSpec == Spec /\ Fairness

-----------------------------------------------------------------------------
(* "ask the registry to confirm it is still current via ETag" (registry.rs):
   a packument that is served is at least as new as the registry's was when
   the fetch for it began. *)
Fresh == \A k \in Procs : cell[k] # Absent => cell[k] >= floor[k]

(* The same for as long as no two processes ever fetched at the same time:
   crashes and failed writes alone never make the cache confirm an old body. *)
FreshAlone == ~ overlap => Fresh

(* A body that parses is never older than the ETag filed beside it. *)
TagNotAhead == ~ overlap /\ body \in Versions => etag <= body

(* Whoever asks gets an answer, also when the caller that was fetching for
   everybody fails, unless the process ends before. *)
CallsEnd ==
    \A k \in Procs, c \in Callers : caller[k][c] = "waiting" ~> caller[k][c] # "waiting"

-----------------------------------------------------------------------------
(* The inductive strengthening PackumentProofs rests on: what holds while no
   two processes have fetched at once. *)

Alone ==
    \A j, k \in Procs : pc[j] # "off" /\ pc[k] # "off" => j = k

(* Nothing on disk or in memory is ahead of the registry. *)
NotAhead ==
    /\ body <= version /\ etag <= version
    /\ \A k \in Procs : floor[k] <= version /\ value[k] <= version

(* What the fetch of process k knows at each of its steps. *)
Knows(k) ==
    /\ pc[k] = "asking" => cond[k] = Absent \/ cond[k] = CondOnDisk
    /\ pc[k] # "asking" => cond[k] = Absent
    /\ pc[k] = "validated" => (body \in Versions => body >= floor[k])
    /\ pc[k] \in {"received", "bodyOpen", "bodyDone", "etagOpen", "ready"} =>
           value[k] \in Versions /\ value[k] >= floor[k]
    /\ pc[k] \in {"received", "bodyOpen"} => etag <= value[k]
    /\ pc[k] \in {"bodyDone", "etagOpen"} => body = value[k]

AloneInv ==
    ~ overlap => Alone /\ TagNotAhead /\ Fresh /\ \A k \in Procs : Knows(k)
=============================================================================
