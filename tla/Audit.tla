------------------------------- MODULE Audit -------------------------------
(***************************************************************************)
(* The advisory audit of an install and its cache: prime_osv_cache and      *)
(* audit_package (crates/core/src/audit/mod.rs), the cache of verdicts in   *)
(* the store (audit/cache.rs), the OSV client (audit/osv.rs) and the gate   *)
(* of install() (lib.rs).  Processes audit at once over one cache; OSV      *)
(* publishes, changes and withdraws advisories while they do, and requests  *)
(* to it may fail.                                                          *)
(*                                                                          *)
(* A verdict is the worst severity among a package's advisories: "critical" *)
(* stands for the two severities Advisory::is_critical accepts.  Time is    *)
(* kept as the age of each cached verdict, in ticks, so that it need not    *)
(* be bounded.                                                              *)
(***************************************************************************)
EXTENDS Integers

CONSTANTS
    Procs,           \* vault processes that install
    Pkgs,            \* packages, name@version
    Wants,           \* the packages of each process's resolution
    Malicious,       \* packages whose lifecycle scripts the scan blocks
    AbortOnCritical, \* security.abort_on_critical_cve
    TTL,             \* audit.cache_ttl_hours, in ticks
    MaxLag,          \* bound: how many ticks an audit may take
    MaxRuns          \* bound: how many audits are started in all

ASSUME AuditAssumption ==
    /\ Wants \in [Procs -> SUBSET Pkgs]
    /\ Malicious \subseteq Pkgs
    /\ AbortOnCritical \in BOOLEAN
    /\ TTL \in Nat /\ MaxLag \in Nat /\ MaxRuns \in Nat

VARIABLES
    severity,   \* what OSV says of each package
    since,      \* ticks since it last began, or ceased, to call it critical
    cached,     \* the verdict in the cache, "none" when it cannot be read
    age,        \* ticks since that verdict was filed
    answered,   \* history: whether OSV's answer, not an error, is behind it
    phase,      \* what each process is doing
    uncached,   \* the packages prime_osv_cache still has to file
    ids,        \* those among them the batch returned advisory ids for
    answer,     \* what OSV was asked, and has answered, about one package
    blind,      \* history: packages of which a failed request, of its own or
                \* behind the cached verdict, is all the process has to go by
    seen,       \* the verdict audit_package worked with
    lag,        \* ticks since the audit started
    runs        \* how many audits were started

world == <<severity, since>>
cache == <<cached, age, answered>>
vars == <<world, cache, phase, uncached, ids, answer, blind, seen, lag, runs>>

Verdicts == {"clean", "advisories", "critical"}

Running == {"batching", "priming", "auditing"}

(* A verdict filed MaxLag ticks after OSV gave it, kept for TTL ticks and acted
   on MaxLag ticks later is this old. *)
Horizon == TTL + 2 * MaxLag

TypeOK ==
    /\ severity \in [Pkgs -> Verdicts]
    /\ since \in [Pkgs -> 0 .. Horizon + 1]
    /\ cached \in [Pkgs -> Verdicts \cup {"none"}]
    /\ age \in [Pkgs -> 0 .. TTL + 1]
    /\ answered \in [Pkgs -> BOOLEAN]
    /\ phase \in [Procs -> {"idle", "passed", "blocked"} \cup Running]
    /\ uncached \in [Procs -> SUBSET Pkgs]
    /\ ids \in [Procs -> SUBSET Pkgs]
    /\ answer \in [Procs -> [Pkgs -> Verdicts \cup {"none", "asked"}]]
    /\ blind \in [Procs -> SUBSET Pkgs]
    /\ seen \in [Procs -> [Pkgs -> Verdicts \cup {"none"}]]
    /\ lag \in [Procs -> 0 .. MaxLag]
    /\ runs \in 0 .. MaxRuns
    /\ \A k \in Procs : uncached[k] # {} => phase[k] \in {"batching", "priming"}
    /\ \A k \in Procs, p \in Pkgs :
          /\ seen[k][p] # "none" => phase[k] = "auditing"
          /\ answer[k][p] # "none" => phase[k] \in {"priming", "auditing"} /\ seen[k][p] = "none"

Unheard == [p \in Pkgs |-> "none"]

Init ==
    /\ severity = [p \in Pkgs |-> "clean"]
    /\ since = [p \in Pkgs |-> Horizon + 1]
    /\ cached = [p \in Pkgs |-> "none"]
    /\ age = [p \in Pkgs |-> 0]
    /\ answered = [p \in Pkgs |-> TRUE]
    /\ phase = [k \in Procs |-> "idle"]
    /\ uncached = [k \in Procs |-> {}]
    /\ ids = [k \in Procs |-> {}]
    /\ answer = [k \in Procs |-> Unheard]
    /\ blind = [k \in Procs |-> {}]
    /\ seen = [k \in Procs |-> Unheard]
    /\ lag = [k \in Procs |-> 0]
    /\ runs = 0

-----------------------------------------------------------------------------
(* OSV publishes an advisory, changes its severity or withdraws it. *)
Revise(p, v) ==
    /\ v # severity[p]
    /\ severity' = [severity EXCEPT ![p] = v]
    /\ since' = [since EXCEPT ![p] = IF "critical" \in {v, severity[p]} THEN 0 ELSE @]
    /\ UNCHANGED <<cache, phase, uncached, ids, answer, blind, seen, lag, runs>>

(* A tick passes.  No timeout in the code bounds how long an audit takes:
   MaxLag does. *)
Tick ==
    /\ \A k \in Procs : phase[k] \in Running => lag[k] < MaxLag
    /\ lag' = [k \in Procs |-> IF phase[k] \in Running THEN lag[k] + 1 ELSE lag[k]]
    /\ age' = [p \in Pkgs |-> IF cached[p] # "none" /\ age[p] <= TTL
                              THEN age[p] + 1 ELSE age[p]]
    /\ since' = [p \in Pkgs |-> IF since[p] <= Horizon THEN since[p] + 1 ELSE since[p]]
    /\ UNCHANGED <<severity, cached, answered, phase, uncached, ids, answer, blind,
                   seen, runs>>

-----------------------------------------------------------------------------
(* Mutant: a cached verdict never expires. *)
HitForever(p) == cached[p] # "none"

(* cache::get: a verdict exactly TTL old still counts. *)
Hit(p) == cached[p] # "none" /\ age[p] <= TTL

(* cache::put.  The entry's time is that of the write, not of OSV's answer; a
   write that fails leaves at worst a file that does not parse. *)
Put(p, v, fromOSV) ==
    \/ /\ cached' = [cached EXCEPT ![p] = v]
       /\ age' = [age EXCEPT ![p] = 0]
       /\ answered' = [answered EXCEPT ![p] = fromOSV]
    \/ /\ cached' = [cached EXCEPT ![p] = "none"]
       /\ age' = [age EXCEPT ![p] = 0]
       /\ answered' = [answered EXCEPT ![p] = TRUE]

(* install() enters prime_osv_cache: which verdicts are missing? *)
Start(k) ==
    /\ phase[k] \notin Running
    /\ runs < MaxRuns
    /\ runs' = runs + 1
    /\ uncached' = [uncached EXCEPT ![k] = {p \in Wants[k] : ~ Hit(p)}]
    /\ phase' = [phase EXCEPT ![k] =
                    IF uncached'[k] = {} THEN "auditing" ELSE "batching"]
    /\ UNCHANGED <<world, cache, ids, answer, blind, seen, lag>>

(* query_batch: one request for each chunk of packages.  Those of a chunk whose
   request fails, or whose answer is short, come back without ids. *)
Batch(k, told) ==
    /\ phase[k] = "batching"
    /\ ids' = [ids EXCEPT ![k] = {p \in told : severity[p] # "clean"}]
    /\ blind' = [blind EXCEPT ![k] = uncached[k] \ told]
    /\ phase' = [phase EXCEPT ![k] = "priming"]
    /\ UNCHANGED <<world, cache, uncached, answer, seen, lag, runs>>

(* The loop over the answers waits for each query before it goes on. *)
InLoop(k) == phase[k] = "priming" /\ answer[k] = Unheard

(* No ids: a clean verdict is filed. *)
PrimeClean(k, p) ==
    /\ InLoop(k)
    /\ p \in uncached[k] \ ids[k]
    /\ Put(p, "clean", p \notin blind[k])
    /\ uncached' = [uncached EXCEPT ![k] = @ \ {p}]
    /\ UNCHANGED <<world, phase, ids, answer, blind, seen, lag, runs>>

Pending(k, p) == phase[k] = "auditing" /\ p \in Wants[k] /\ seen[k][p] = "none"

(* OSV is asked about a package the batch listed, by prime_osv_cache, or that
   is not in the cache, by audit_package. *)
Ask(k, p) ==
    /\ \/ InLoop(k) /\ p \in uncached[k] \cap ids[k]
       \/ Pending(k, p) /\ answer[k][p] = "none" /\ ~ Hit(p)
    /\ answer' = [answer EXCEPT ![k][p] = "asked"]
    /\ UNCHANGED <<world, cache, phase, uncached, ids, blind, seen, lag, runs>>

Learn(k, p, fromOSV) ==
    blind' = [blind EXCEPT ![k] = IF fromOSV THEN @ \ {p} ELSE @ \cup {p}]

(* osv::query: a request that fails is answered with an empty list. *)
Reply(k, p, told) ==
    /\ answer[k][p] = "asked"
    /\ answer' = [answer EXCEPT ![k][p] = IF told THEN severity[p] ELSE "clean"]
    /\ Learn(k, p, told)
    /\ UNCHANGED <<world, cache, phase, uncached, ids, seen, lag, runs>>

(* What was answered is filed, whatever has happened meanwhile. *)
File(k, p) ==
    /\ answer[k][p] \in Verdicts
    /\ Put(p, answer[k][p], p \notin blind[k])
    /\ answer' = [answer EXCEPT ![k][p] = "none"]

PrimeQuery(k, p) ==
    /\ phase[k] = "priming"
    /\ File(k, p)
    /\ uncached' = [uncached EXCEPT ![k] = @ \ {p}]
    /\ UNCHANGED <<world, phase, ids, blind, seen, lag, runs>>

(* Mutant: the audit goes on before every verdict is filed. *)
EndPrimeEarly(k) ==
    /\ phase[k] = "priming"
    /\ phase' = [phase EXCEPT ![k] = "auditing"]
    /\ UNCHANGED <<world, cache, uncached, ids, answer, blind, seen, lag, runs>>

(* Every verdict is filed, and the audit proper begins. *)
EndPrime(k) ==
    /\ phase[k] = "priming"
    /\ uncached[k] = {}
    /\ phase' = [phase EXCEPT ![k] = "auditing"]
    /\ ids' = [ids EXCEPT ![k] = {}]
    /\ UNCHANGED <<world, cache, uncached, answer, blind, seen, lag, runs>>

(* Mutant: using a verdict renews its date. *)
AuditCachedRenews(k, p) ==
    /\ Pending(k, p) /\ answer[k][p] = "none"
    /\ Hit(p)
    /\ seen' = [seen EXCEPT ![k][p] = cached[p]]
    /\ age' = [age EXCEPT ![p] = 0]
    /\ Learn(k, p, answered[p])
    /\ UNCHANGED <<world, cached, answered, phase, uncached, ids, answer, lag, runs>>

(* audit_package with a verdict in the cache ... *)
AuditCached(k, p) ==
    /\ Pending(k, p) /\ answer[k][p] = "none"
    /\ Hit(p)
    /\ seen' = [seen EXCEPT ![k][p] = cached[p]]
    /\ Learn(k, p, answered[p])
    /\ UNCHANGED <<world, cache, phase, uncached, ids, answer, lag, runs>>

(* ... and without one: the answer is filed and used. *)
AuditQuery(k, p) ==
    /\ phase[k] = "auditing"
    /\ File(k, p)
    /\ seen' = [seen EXCEPT ![k][p] = answer[k][p]]
    /\ UNCHANGED <<world, phase, uncached, ids, blind, lag, runs>>

(* audit_package's policy: a critical advisory, or a script the scan blocks. *)
Blocks(k, p) ==
    \/ AbortOnCritical /\ seen[k][p] = "critical"
    \/ p \in Malicious

(* The audit is over: what the process has learnt matters no more. *)
Forget(k) ==
    /\ ids' = [ids EXCEPT ![k] = {}]
    /\ answer' = [answer EXCEPT ![k] = Unheard]
    /\ blind' = [blind EXCEPT ![k] = {}]
    /\ seen' = [seen EXCEPT ![k] = Unheard]
    /\ lag' = [lag EXCEPT ![k] = 0]

(* Mutant: a package that is blocked is waited for. *)
GateWaits(k) ==
    /\ phase[k] = "auditing"
    /\ \A p \in Wants[k] : seen[k][p] # "none" /\ ~ Blocks(k, p)
    /\ phase' = [phase EXCEPT ![k] = "passed"]
    /\ Forget(k)
    /\ UNCHANGED <<world, cache, uncached, runs>>

(* audit_all is through, and install() stops if anything is blocked.  (--force
   and --strict are options of the install, not of the audit.) *)
Gate(k) ==
    /\ phase[k] = "auditing"
    /\ \A p \in Wants[k] : seen[k][p] # "none"
    /\ phase' = [phase EXCEPT ![k] =
                    IF \E p \in Wants[k] : Blocks(k, p) THEN "blocked" ELSE "passed"]
    /\ Forget(k)
    /\ UNCHANGED <<world, cache, uncached, runs>>

(* The process is killed between two writes. *)
Crash(k) ==
    /\ phase[k] \in Running
    /\ phase' = [phase EXCEPT ![k] = "idle"]
    /\ uncached' = [uncached EXCEPT ![k] = {}]
    /\ Forget(k)
    /\ UNCHANGED <<world, cache, runs>>

-----------------------------------------------------------------------------
(* What an audit does by itself once its requests have been answered or have
   failed. *)
Proceed(k) ==
    \/ \E told \in SUBSET uncached[k] : Batch(k, told)
    \/ \E p \in Pkgs : PrimeClean(k, p) \/ Ask(k, p) \/ PrimeQuery(k, p)
    \/ \E p \in Pkgs, told \in BOOLEAN : Reply(k, p, told)
    \/ \E p \in Pkgs : AuditCached(k, p) \/ AuditQuery(k, p)
    \/ EndPrime(k)
    \/ Gate(k)

Next ==
    \/ \E p \in Pkgs, v \in Verdicts : Revise(p, v)
    \/ Tick
    \/ \E k \in Procs : Start(k) \/ Proceed(k) \/ Crash(k)

Spec == Init /\ [][Next]_vars

(* A request is answered or fails, and the runtime schedules the task. *)
Fairness == \A k \in Procs : WF_vars(Proceed(k))

LiveSpec == Spec /\ Fairness

-----------------------------------------------------------------------------
(* Within the horizon OSV has called the package critical; or has not. *)
LatelyCritical(p) == severity[p] = "critical" \/ since[p] <= Horizon
LatelyNot(p) == severity[p] # "critical" \/ since[p] <= Horizon

(* An install passes the gate with a package OSV calls critical only if OSV
   began to say so within the cache's horizon, or if a request for that
   package's verdict failed. *)
GateFresh ==
    [][\A k \in Procs : phase[k] = "auditing" /\ phase'[k] = "passed" =>
          \A p \in Wants[k] : AbortOnCritical => LatelyNot(p) \/ p \in blind[k]]_vars

(* An install is blocked only over a package that OSV calls critical, or has
   called critical within the cache's horizon, or whose scripts are blocked: an
   advisory that is withdrawn or downgraded stops blocking, whoever has filed
   it, or files it again, under whatever date. *)
BlockedForCause ==
    [][\A k \in Procs : phase[k] = "auditing" /\ phase'[k] = "blocked" =>
          \E p \in Wants[k] :
             \/ p \in Malicious
             \/ AbortOnCritical /\ LatelyCritical(p)]_vars

(* "on any error the cache simply stays cold" (audit/mod.rs): a verdict is in
   the cache only because OSV gave it. *)
ErrorsStayCold == \A p \in Pkgs : cached[p] # "none" => answered[p]

(* Every audit that is started comes to an end. *)
AuditEnds == \A k \in Procs : phase[k] \in Running ~> phase[k] \notin Running
=============================================================================
