---------------------------- MODULE AuditProofs ----------------------------
(***************************************************************************)
(* What an install that passes the audit's gate, or is stopped by it, can   *)
(* rely on, for any number of processes and packages and any times.         *)
(*                                                                          *)
(* The inductive invariant follows one change of what OSV says: how long    *)
(* ago it can have been while a list, an answer, a cached verdict or an     *)
(* audit still has what OSV said before.                                    *)
(*                                                                          *)
(* The recommended fixes: the code chooses among the ends of the lines that *)
(* a version is on (FixesAre), and no version before the lowest of them is  *)
(* free (NearestFix).  The batches: chunks tile the packages (Placed), so   *)
(* that, joined, they are the answers in order (BatchJoined).  The lock:    *)
(* it keeps each hook that the scan reads (HooksKept).                      *)
(***************************************************************************)
EXTENDS AuditSystem, Inductions

Passing == {"clean", "advisories"}

(* Whoever goes by verdict v, errors being no news, errs about p. *)
Off(p, v, blank) ==
    \/ v = "critical" /\ severity[p] # "critical"
    \/ v \in Passing /\ ~ blank /\ severity[p] = "critical"

(* A batch that did not list a package was right at some time during its audit. *)
ListFresh ==
    \A k \in Procs : phase[k] = "priming" =>
        \A p \in uncached[k] \ ids[k] :
            Off(p, "clean", p \in blind[k]) => since[p] <= lag[k]

(* While answers to a batch are filed, only packages that it listed are asked about. *)
Listed ==
    \A k \in Procs : phase[k] = "priming" =>
        \A p \in Pkgs : answer[k][p] # "none" => p \in ids[k]

(* An answer that is still to be filed was right no earlier; *)
AnswerFresh ==
    \A k \in Procs, p \in Pkgs :
        Off(p, answer[k][p], p \in blind[k]) => since[p] <= lag[k]

(* a verdict in the cache was right MaxLag before its date at the earliest, *)
CacheFresh ==
    \A p \in Pkgs :
        age[p] <= TTL /\ Off(p, cached[p], ~ answered[p]) => since[p] <= age[p] + MaxLag

(* and one that an audit goes by has aged with it. *)
AuditFresh ==
    \A k \in Procs, p \in Pkgs :
        Off(p, seen[k][p], p \in blind[k]) => since[p] <= TTL + MaxLag + lag[k]

Inv ==
    /\ TypeOK
    /\ Listed
    /\ ListFresh
    /\ AnswerFresh
    /\ CacheFresh
    /\ AuditFresh

-----------------------------------------------------------------------------
LEMMA Initially == Init => Inv
<1> SUFFICES ASSUME Init PROVE Inv
    OBVIOUS
<1> USE AuditAssumption DEF Init, Unheard
<1>1. TypeOK
  <2>1. since \in [Pkgs -> 0 .. Horizon + 1]
      BY DEF Horizon
  <2> QED BY <2>1 DEF TypeOK, Verdicts, Running
<1>2. Listed /\ ListFresh /\ AnswerFresh /\ CacheFresh /\ AuditFresh
    BY DEF Listed, ListFresh, AnswerFresh, CacheFresh, AuditFresh, Passing, Off
<1> QED BY <1>1, <1>2 DEF Inv

(* The clock starts anew whenever a verdict can become wrong. *)
LEMMA ReviseKeeps ==
    ASSUME Inv, NEW p \in Pkgs, NEW v \in Verdicts, Revise(p, v) PROVE Inv'
<1> USE AuditAssumption DEF Inv, Revise, cache
<1>1. TypeOK'
  <2>1. severity' \in [Pkgs -> Verdicts]
      BY DEF TypeOK
  <2>2. since' \in [Pkgs -> 0 .. Horizon + 1]
      BY DEF TypeOK, Horizon
  <2> QED BY <2>1, <2>2 DEF TypeOK
<1>2. \A q \in Pkgs : \/ since'[q] = since[q]
                          /\ (severity'[q] = "critical") = (severity[q] = "critical")
                      \/ since'[q] = 0
    BY DEF TypeOK, Verdicts
<1>3. \A q \in Pkgs : \/ since'[q] = 0
                      \/ since'[q] = since[q] /\ \A w, b : Off(q, w, b)' <=> Off(q, w, b)
    BY <1>2 DEF Off
<1>4. \A k \in Procs : lag[k] \in Nat /\ uncached[k] \subseteq Pkgs
    BY DEF TypeOK
<1> HIDE DEF Revise
<1>5. UNCHANGED <<cache, phase, uncached, ids, answer, blind, seen, lag>>
    BY DEF Revise
<1>6. ListFresh'
  <2> SUFFICES ASSUME NEW k \in Procs, phase[k] = "priming",
                      NEW q \in uncached[k] \ ids[k], Off(q, "clean", q \in blind[k])'
               PROVE  since'[q] <= lag[k]
      BY <1>5 DEF ListFresh
  <2>1. q \in Pkgs /\ blind' = blind
      BY <1>4, <1>5
  <2> QED BY <1>3, <1>4, <2>1 DEF ListFresh
<1>7. AnswerFresh'
  <2> SUFFICES ASSUME NEW k \in Procs, NEW q \in Pkgs,
                      Off(q, answer[k][q], q \in blind[k])'
               PROVE  since'[q] <= lag[k]
      BY <1>5 DEF AnswerFresh
  <2> QED BY <1>3, <1>4, <1>5 DEF AnswerFresh
<1>8. CacheFresh'
  <2> SUFFICES ASSUME NEW q \in Pkgs, age[q] <= TTL, Off(q, cached[q], ~ answered[q])'
               PROVE  since'[q] <= age[q] + MaxLag
      BY <1>5 DEF CacheFresh
  <2>1. age[q] \in Nat
      BY DEF TypeOK
  <2> QED BY <1>3, <1>5, <2>1 DEF CacheFresh
<1>9. AuditFresh'
  <2> SUFFICES ASSUME NEW k \in Procs, NEW q \in Pkgs,
                      Off(q, seen[k][q], q \in blind[k])'
               PROVE  since'[q] <= TTL + MaxLag + lag[k]
      BY <1>5 DEF AuditFresh
  <2> QED BY <1>3, <1>4, <1>5 DEF AuditFresh
<1>10. Listed'
    BY <1>5 DEF Listed
<1> QED BY <1>1, <1>6, <1>7, <1>8, <1>9, <1>10

LEMMA TickKeeps == ASSUME Inv, Tick PROVE Inv'
<1> USE AuditAssumption DEF Inv, Tick
<1>1. TypeOK'
  <2>1. lag' \in [Procs -> 0 .. MaxLag]
      BY DEF TypeOK
  <2>2. age' \in [Pkgs -> 0 .. TTL + 1]
      BY DEF TypeOK
  <2>3. since' \in [Pkgs -> 0 .. Horizon + 1]
      BY DEF TypeOK, Horizon
  <2> QED BY <2>1, <2>2, <2>3 DEF TypeOK
<1>2. \A p \in Pkgs : since[p] \in Int /\ since'[p] \in Int /\ since'[p] <= since[p] + 1
    BY DEF TypeOK, Horizon
<1>3. \A k \in Procs : phase[k] \in Running =>
          lag[k] \in Int /\ lag'[k] \in Int /\ lag'[k] = lag[k] + 1
    BY DEF TypeOK
<1>4. \A p, v, b : Off(p, v, b)' = Off(p, v, b)
    BY DEF Off
<1>5. \A v : v = "none" \/ v = "asked" => \A p, b : ~ Off(p, v, b)
    BY DEF Off, Passing
<1>6. ListFresh'
  <2> SUFFICES ASSUME NEW k \in Procs, phase[k] = "priming",
                      NEW p \in uncached[k] \ ids[k], Off(p, "clean", p \in blind[k])
               PROVE  since'[p] <= lag'[k]
      BY <1>4 DEF ListFresh
  <2>1. p \in Pkgs /\ since[p] <= lag[k] /\ phase[k] \in Running
      BY DEF ListFresh, TypeOK, Running
  <2> QED BY <1>2, <1>3, <2>1
<1>7. AnswerFresh'
  <2> SUFFICES ASSUME NEW k \in Procs, NEW p \in Pkgs,
                      Off(p, answer[k][p], p \in blind[k])
               PROVE  since'[p] <= lag'[k]
      BY <1>4 DEF AnswerFresh
  <2>1. since[p] <= lag[k] /\ phase[k] \in Running
      BY <1>5 DEF AnswerFresh, TypeOK, Running
  <2> QED BY <1>2, <1>3, <2>1
<1>8. CacheFresh'
  <2> SUFFICES ASSUME NEW p \in Pkgs, Off(p, cached[p], ~ answered[p]), age'[p] <= TTL
               PROVE  since'[p] <= age'[p] + MaxLag
      BY <1>4 DEF CacheFresh
  <2>1. age[p] \in Int /\ age[p] <= TTL /\ age'[p] = age[p] + 1
      BY <1>5 DEF TypeOK
  <2>2. since[p] <= age[p] + MaxLag
      BY <2>1 DEF CacheFresh
  <2> QED BY <1>2, <2>1, <2>2
<1>9. AuditFresh'
  <2> SUFFICES ASSUME NEW k \in Procs, NEW p \in Pkgs,
                      Off(p, seen[k][p], p \in blind[k])
               PROVE  since'[p] <= TTL + MaxLag + lag'[k]
      BY <1>4 DEF AuditFresh
  <2>1. since[p] <= TTL + MaxLag + lag[k] /\ phase[k] \in Running
      BY <1>5 DEF AuditFresh, TypeOK, Running
  <2> QED BY <1>2, <1>3, <2>1
<1>10. Listed'
    BY DEF Listed
<1> QED BY <1>1, <1>6, <1>7, <1>8, <1>9, <1>10

-----------------------------------------------------------------------------
(* An entry keeps the cache right if its verdict was, MaxLag ago. *)
LEMMA EntryKeeps ==
    ASSUME Inv, NEW p \in Pkgs, NEW v \in Verdicts \cup {"none"}, NEW b \in BOOLEAN,
           cached' = [cached EXCEPT ![p] = v],
           age' = [age EXCEPT ![p] = 0],
           answered' = [answered EXCEPT ![p] = b],
           UNCHANGED world,
           Off(p, v, ~ b) => since[p] <= MaxLag
    PROVE  /\ cached' \in [Pkgs -> Verdicts \cup {"none"}]
           /\ age' \in [Pkgs -> 0 .. TTL + 1]
           /\ answered' \in [Pkgs -> BOOLEAN]
           /\ CacheFresh'
<1> USE AuditAssumption DEF Inv, world
<1>1. 0 \in 0 .. TTL + 1
    OBVIOUS
<1>2. /\ cached' \in [Pkgs -> Verdicts \cup {"none"}]
      /\ age' \in [Pkgs -> 0 .. TTL + 1]
      /\ answered' \in [Pkgs -> BOOLEAN]
    BY <1>1 DEF TypeOK
<1>3. /\ \A q \in Pkgs \ {p} :
            cached'[q] = cached[q] /\ answered'[q] = answered[q] /\ age'[q] = age[q]
      /\ cached'[p] = v /\ answered'[p] = b /\ age'[p] = 0
    BY DEF TypeOK
<1>4. CacheFresh'
  <2> SUFFICES ASSUME NEW q \in Pkgs, age'[q] <= TTL, Off(q, cached'[q], ~ answered'[q])
               PROVE  since[q] <= age'[q] + MaxLag
      BY DEF CacheFresh, Off
  <2>1. CASE q = p
      BY <1>3, <2>1
  <2>2. CASE q # p
      BY <1>3, <2>2 DEF CacheFresh
  <2> QED BY <2>1, <2>2
<1> QED BY <1>2, <1>4

(* So does filing a verdict ... *)
LEMMA PutKeeps ==
    ASSUME Inv, NEW p \in Pkgs, NEW v \in Verdicts, NEW b \in BOOLEAN,
           Put(p, v, b), UNCHANGED world,
           Off(p, v, ~ b) => since[p] <= MaxLag
    PROVE  /\ cached' \in [Pkgs -> Verdicts \cup {"none"}]
           /\ age' \in [Pkgs -> 0 .. TTL + 1]
           /\ answered' \in [Pkgs -> BOOLEAN]
           /\ CacheFresh'
<1>1. CASE /\ cached' = [cached EXCEPT ![p] = v]
           /\ age' = [age EXCEPT ![p] = 0]
           /\ answered' = [answered EXCEPT ![p] = b]
    BY <1>1, EntryKeeps
<1>2. CASE /\ cached' = [cached EXCEPT ![p] = "none"]
           /\ age' = [age EXCEPT ![p] = 0]
           /\ answered' = [answered EXCEPT ![p] = TRUE]
  <2>1. "none" \in Verdicts \cup {"none"} /\ TRUE \in BOOLEAN /\ ~ Off(p, "none", ~ TRUE)
      BY DEF Off, Passing
  <2> QED BY <1>2, <2>1, EntryKeeps
<1> QED BY <1>1, <1>2 DEF Put

(* ... and an answer. *)
LEMMA FileKeeps ==
    ASSUME Inv, NEW k \in Procs, NEW p \in Pkgs, File(k, p), UNCHANGED <<world, blind, lag>>
    PROVE  /\ cached' \in [Pkgs -> Verdicts \cup {"none"}]
           /\ age' \in [Pkgs -> 0 .. TTL + 1]
           /\ answered' \in [Pkgs -> BOOLEAN]
           /\ CacheFresh'
           /\ answer' \in [Procs -> [Pkgs -> Verdicts \cup {"none", "asked"}]]
           /\ \A j \in Procs, q \in Pkgs :
                 answer'[j][q] = "none" \/ answer'[j][q] = answer[j][q]
           /\ answer'[k][p] = "none"
           /\ AnswerFresh'
<1> USE AuditAssumption DEF Inv, File
<1>1. Off(p, answer[k][p], p \in blind[k]) => since[p] <= MaxLag
  <2>1. lag[k] \in 0 .. MaxLag /\ since[p] \in Int
      BY DEF TypeOK
  <2> QED BY <2>1 DEF AnswerFresh
<1>2. /\ answer[k][p] \in Verdicts /\ (p \notin blind[k]) \in BOOLEAN
      /\ (~ (p \notin blind[k])) = (p \in blind[k])
    OBVIOUS
<1>3. /\ cached' \in [Pkgs -> Verdicts \cup {"none"}]
      /\ age' \in [Pkgs -> 0 .. TTL + 1]
      /\ answered' \in [Pkgs -> BOOLEAN]
      /\ CacheFresh'
    BY <1>1, <1>2, PutKeeps
<1>4. /\ answer' \in [Procs -> [Pkgs -> Verdicts \cup {"none", "asked"}]]
      /\ \A j \in Procs, q \in Pkgs : answer'[j][q] = "none" \/ answer'[j][q] = answer[j][q]
      /\ answer'[k][p] = "none"
    BY DEF TypeOK
<1>5. AnswerFresh'
    BY <1>4 DEF AnswerFresh, Off, Passing, world
<1> QED BY <1>3, <1>4, <1>5

LEMMA StartKeeps == ASSUME Inv, NEW k \in Procs, Start(k) PROVE Inv'
<1> USE AuditAssumption DEF Inv, Start, world, cache
<1>1. TypeOK'
  <2>1. uncached' \in [Procs -> SUBSET Pkgs]
    <3> HIDE DEF Start
    <3>1. {p \in Wants[k] : ~ Hit(p)} \in SUBSET Pkgs /\ uncached \in [Procs -> SUBSET Pkgs]
        BY DEF TypeOK
    <3>2. uncached' = [uncached EXCEPT ![k] = {p \in Wants[k] : ~ Hit(p)}]
        BY DEF Start
    <3> QED BY ONLY <3>1, <3>2
  <2>2. phase' \in [Procs -> {"idle", "passed", "blocked"} \cup Running]
      BY DEF TypeOK, Running
  <2>3. runs' \in 0 .. MaxRuns
      BY DEF TypeOK
  <2>4. \A j \in Procs : uncached'[j] # {} => phase'[j] \in {"batching", "priming"}
      BY DEF TypeOK
  <2>5. \A j \in Procs, p \in Pkgs :
            seen[j][p] # "none" \/ answer[j][p] # "none" => phase'[j] = phase[j]
      BY DEF TypeOK, Running
  <2> QED BY <2>1, <2>2, <2>3, <2>4, <2>5 DEF TypeOK
<1>2. /\ phase'[k] # "priming"
      /\ \A j \in Procs \ {k} : phase'[j] = phase[j] /\ uncached'[j] = uncached[j]
    BY DEF TypeOK
<1>3. (Listed /\ ListFresh)'
    BY <1>2 DEF Listed, ListFresh, Off
<1>4. (AnswerFresh /\ CacheFresh /\ AuditFresh)'
    BY DEF AnswerFresh, CacheFresh, AuditFresh, Off
<1> QED BY <1>1, <1>3, <1>4

LEMMA BatchKeeps ==
    ASSUME Inv, NEW k \in Procs, NEW told \in SUBSET uncached[k], Batch(k, told) PROVE Inv'
<1> USE AuditAssumption DEF Inv, Batch, world, cache
<1>1. TypeOK'
  <2>1. told \subseteq Pkgs /\ uncached[k] \subseteq Pkgs
      BY DEF TypeOK
  <2>2. ids' \in [Procs -> SUBSET Pkgs] /\ blind' \in [Procs -> SUBSET Pkgs]
      BY <2>1 DEF TypeOK
  <2>3. phase' \in [Procs -> {"idle", "passed", "blocked"} \cup Running]
      BY DEF TypeOK, Running
  <2>4. \A j \in Procs : uncached'[j] # {} => phase'[j] \in {"batching", "priming"}
      BY DEF TypeOK
  <2>5. \A j \in Procs, p \in Pkgs :
            seen[j][p] # "none" \/ answer[j][p] # "none" => phase'[j] = phase[j]
      BY DEF TypeOK
  <2> QED BY <2>2, <2>3, <2>4, <2>5 DEF TypeOK
<1>2. \A j \in Procs \ {k} : /\ phase'[j] = phase[j] /\ ids'[j] = ids[j]
                             /\ blind'[j] = blind[j]
    BY DEF TypeOK
<1>3. \A p \in Pkgs : seen[k][p] = "none" /\ answer[k][p] = "none"
    BY DEF TypeOK
<1>4. ListFresh'
  <2> SUFFICES ASSUME NEW j \in Procs, phase'[j] = "priming",
                      NEW p \in uncached[j] \ ids'[j], Off(p, "clean", p \in blind'[j])
               PROVE  since[p] <= lag[j]
      BY DEF ListFresh, Off
  <2>1. CASE j = k
    <3>1. p \in told \/ p \in blind'[k]
        BY <2>1 DEF TypeOK
    <3>2. p \in told => severity[p] = "clean"
        BY <2>1 DEF TypeOK
    <3> QED BY <2>1, <3>1, <3>2 DEF Off
  <2>2. CASE j # k
      BY <1>2, <2>2 DEF ListFresh
  <2> QED BY <2>1, <2>2
<1>5. CacheFresh'
    BY DEF CacheFresh, Off
<1>6. (Listed /\ AnswerFresh /\ AuditFresh)'
    BY <1>2, <1>3 DEF Listed, AnswerFresh, AuditFresh, Off, Passing
<1> QED BY <1>1, <1>4, <1>5, <1>6

LEMMA PrimeCleanKeeps ==
    ASSUME Inv, NEW k \in Procs, NEW p \in Pkgs, PrimeClean(k, p) PROVE Inv'
<1> USE AuditAssumption DEF Inv, PrimeClean, world
<1>1. Off(p, "clean", p \in blind[k]) => since[p] <= MaxLag
    BY DEF ListFresh, InLoop, TypeOK
<1>2. "clean" \in Verdicts /\ (~ (p \notin blind[k])) = (p \in blind[k])
    BY DEF Verdicts
<1>3. /\ cached' \in [Pkgs -> Verdicts \cup {"none"}]
      /\ age' \in [Pkgs -> 0 .. TTL + 1]
      /\ answered' \in [Pkgs -> BOOLEAN]
      /\ CacheFresh'
    BY <1>1, <1>2, PutKeeps
<1>4. /\ uncached' \in [Procs -> SUBSET Pkgs]
      /\ \A j \in Procs : uncached'[j] \subseteq uncached[j]
  <2>1. uncached' = [uncached EXCEPT ![k] = @ \ {p}] /\ uncached \in [Procs -> SUBSET Pkgs]
      BY DEF TypeOK
  <2> HIDE DEF PrimeClean, Inv
  <2> QED BY <2>1
<1>5. TypeOK'
  <2>1. uncached' \in [Procs -> SUBSET Pkgs]
      BY <1>4
  <2> QED BY <1>3, <1>4, <2>1 DEF TypeOK
<1>6. ListFresh'
    BY <1>4 DEF ListFresh, Off
<1>7. (Listed /\ AnswerFresh /\ AuditFresh)'
    BY DEF Listed, AnswerFresh, AuditFresh, Off
<1> QED BY <1>3, <1>5, <1>6, <1>7

LEMMA AskKeeps == ASSUME Inv, NEW k \in Procs, NEW p \in Pkgs, Ask(k, p) PROVE Inv'
<1> USE AuditAssumption DEF Inv, Ask, world, cache
<1>1. /\ answer' \in [Procs -> [Pkgs -> Verdicts \cup {"none", "asked"}]]
      /\ \A j \in Procs, q \in Pkgs :
            answer'[j][q] = answer[j][q] \/ (j = k /\ q = p /\ answer'[j][q] = "asked")
  <2>1. /\ answer' = [answer EXCEPT ![k] = [@ EXCEPT ![p] = "asked"]]
        /\ answer \in [Procs -> [Pkgs -> Verdicts \cup {"none", "asked"}]]
      BY DEF TypeOK
  <2> HIDE DEF Ask, Inv
  <2>2. [answer[k] EXCEPT ![p] = "asked"] \in [Pkgs -> Verdicts \cup {"none", "asked"}]
      BY <2>1
  <2>3. answer' \in [Procs -> [Pkgs -> Verdicts \cup {"none", "asked"}]]
      BY <2>1, <2>2
  <2>4. \A j \in Procs : j # k => answer'[j] = answer[j]
      BY <2>1
  <2>5. answer'[k] = [answer[k] EXCEPT ![p] = "asked"] /\ answer[k] \in [Pkgs -> Verdicts \cup {"none", "asked"}]
      BY <2>1
  <2>6. answer'[k][p] = "asked" /\ \A q \in Pkgs : q # p => answer'[k][q] = answer[k][q]
      BY <2>5
  <2>7. ASSUME NEW j \in Procs, NEW q \in Pkgs
        PROVE  answer'[j][q] = answer[j][q] \/ (j = k /\ q = p /\ answer'[j][q] = "asked")
    <3>1. CASE j # k
        BY <2>4, <3>1
    <3>2. CASE j = k
        BY <2>6, <3>2
    <3> QED BY <3>1, <3>2
  <2> QED BY <2>3, <2>7
<1>2. phase[k] \in {"priming", "auditing"} /\ seen[k][p] = "none"
    BY DEF InLoop, Pending, TypeOK
<1>3. TypeOK'
    BY <1>1, <1>2 DEF TypeOK
<1>4. AnswerFresh'
    BY <1>1 DEF AnswerFresh, Off, Passing
<1>5. (ListFresh /\ CacheFresh /\ AuditFresh)'
    BY DEF ListFresh, CacheFresh, AuditFresh, Off
<1>6. Listed'
    BY <1>1 DEF Listed, InLoop, Pending
<1> QED BY <1>3, <1>4, <1>5, <1>6

(* A process that hears of a package has nothing else to go by for it. *)
LEMMA ReplyKeeps ==
    ASSUME Inv, NEW k \in Procs, NEW p \in Pkgs, NEW told \in BOOLEAN, Reply(k, p, told)
    PROVE  Inv'
<1> USE AuditAssumption DEF Inv, Reply, Learn, world, cache
<1>1. /\ answer' \in [Procs -> [Pkgs -> Verdicts \cup {"none", "asked"}]]
      /\ answer'[k][p] = IF told THEN severity[p] ELSE "clean"
      /\ \A j \in Procs, q \in Pkgs : j # k \/ q # p => answer'[j][q] = answer[j][q]
    BY DEF TypeOK, Verdicts
<1>2. /\ blind' \in [Procs -> SUBSET Pkgs]
      /\ (p \in blind'[k]) = ~ told
      /\ \A j \in Procs, q \in Pkgs : j # k \/ q # p => (q \in blind'[j]) = (q \in blind[j])
    BY DEF TypeOK
<1>3. phase[k] \in {"priming", "auditing"} /\ seen[k][p] = "none"
    BY DEF TypeOK
<1>4. TypeOK'
    BY <1>1, <1>2, <1>3 DEF TypeOK
<1>5. AnswerFresh'
  <2> SUFFICES ASSUME NEW j \in Procs, NEW q \in Pkgs,
                      Off(q, answer'[j][q], q \in blind'[j])
               PROVE  since[q] <= lag[j]
      BY DEF AnswerFresh, Off
  <2>1. CASE j = k /\ q = p
      BY <1>1, <1>2, <2>1 DEF Off, Passing
  <2>2. CASE j # k \/ q # p
      BY <1>1, <1>2, <2>2 DEF AnswerFresh
  <2> QED BY <2>1, <2>2
<1>6. AuditFresh'
  <2> SUFFICES ASSUME NEW j \in Procs, NEW q \in Pkgs,
                      Off(q, seen[j][q], q \in blind'[j])
               PROVE  since[q] <= TTL + MaxLag + lag[j]
      BY DEF AuditFresh, Off
  <2>1. j # k \/ q # p
      BY <1>3 DEF Off, Passing
  <2> QED BY <1>2, <2>1 DEF AuditFresh
<1>7. ListFresh'
  <2> SUFFICES ASSUME NEW j \in Procs, phase[j] = "priming",
                      NEW q \in uncached[j] \ ids[j], Off(q, "clean", q \in blind'[j])
               PROVE  since[q] <= lag[j]
      BY DEF ListFresh, Off
  <2>1. q \in Pkgs
      BY DEF TypeOK
  <2>2. CASE j # k \/ q # p
      BY <1>2, <2>1, <2>2 DEF ListFresh
  <2>3. CASE j = k /\ q = p
      BY <2>3 DEF Listed
  <2> QED BY <2>2, <2>3
<1>8. CacheFresh'
    BY DEF CacheFresh, Off
<1>9. Listed'
    BY <1>1 DEF Listed
<1> QED BY <1>4, <1>5, <1>6, <1>7, <1>8, <1>9

LEMMA PrimeQueryKeeps ==
    ASSUME Inv, NEW k \in Procs, NEW p \in Pkgs, PrimeQuery(k, p) PROVE Inv'
<1> USE AuditAssumption DEF Inv, PrimeQuery, world
<1>1. /\ cached' \in [Pkgs -> Verdicts \cup {"none"}]
      /\ age' \in [Pkgs -> 0 .. TTL + 1]
      /\ answered' \in [Pkgs -> BOOLEAN]
      /\ CacheFresh'
      /\ answer' \in [Procs -> [Pkgs -> Verdicts \cup {"none", "asked"}]]
      /\ \A j \in Procs, q \in Pkgs : answer'[j][q] = "none" \/ answer'[j][q] = answer[j][q]
      /\ AnswerFresh'
    BY FileKeeps
<1>2. \A j \in Procs : uncached'[j] \subseteq uncached[j]
    BY DEF TypeOK
<1>3. TypeOK'
  <2>1. uncached' \in [Procs -> SUBSET Pkgs]
      BY DEF TypeOK
  <2> QED BY <1>1, <1>2, <2>1 DEF TypeOK
<1>4. (Listed /\ ListFresh)'
    BY <1>1, <1>2 DEF Listed, ListFresh, Off
<1>5. AuditFresh'
    BY DEF AuditFresh, Off
<1> QED BY <1>1, <1>3, <1>4, <1>5

LEMMA EndPrimeKeeps == ASSUME Inv, NEW k \in Procs, EndPrime(k) PROVE Inv'
<1> USE AuditAssumption DEF Inv, EndPrime, world, cache
<1>1. TypeOK'
  <2>1. phase' \in [Procs -> {"idle", "passed", "blocked"} \cup Running]
      BY DEF TypeOK, Running
  <2>2. \A j \in Procs : uncached'[j] # {} => phase'[j] \in {"batching", "priming"}
      BY DEF TypeOK
  <2>3. \A j \in Procs : phase'[j] = phase[j] \/ phase'[j] = "auditing"
      BY DEF TypeOK
  <2>4. ids' \in [Procs -> SUBSET Pkgs]
      BY DEF TypeOK
  <2> QED BY <2>1, <2>2, <2>3, <2>4 DEF TypeOK
<1>2. (Listed /\ ListFresh)'
    BY DEF Listed, ListFresh, TypeOK, Off
<1>3. (AnswerFresh /\ CacheFresh /\ AuditFresh)'
    BY DEF AnswerFresh, CacheFresh, AuditFresh, Off
<1> QED BY <1>1, <1>2, <1>3

LEMMA AuditCachedKeeps ==
    ASSUME Inv, NEW k \in Procs, NEW p \in Pkgs, AuditCached(k, p) PROVE Inv'
<1> USE AuditAssumption DEF Inv, AuditCached, Pending, Learn, world, cache
<1>1. /\ seen' \in [Procs -> [Pkgs -> Verdicts \cup {"none"}]]
      /\ seen'[k][p] = cached[p]
      /\ \A j \in Procs, q \in Pkgs : j # k \/ q # p => seen'[j][q] = seen[j][q]
    BY DEF TypeOK
<1>2. /\ blind' \in [Procs -> SUBSET Pkgs]
      /\ (p \in blind'[k]) = ~ answered[p]
      /\ \A j \in Procs, q \in Pkgs : j # k \/ q # p => (q \in blind'[j]) = (q \in blind[j])
    BY DEF TypeOK
<1>3. TypeOK'
    BY <1>1, <1>2 DEF TypeOK
<1>4. AuditFresh'
  <2> SUFFICES ASSUME NEW j \in Procs, NEW q \in Pkgs,
                      Off(q, seen'[j][q], q \in blind'[j])
               PROVE  since[q] <= TTL + MaxLag + lag[j]
      BY DEF AuditFresh, Off
  <2>1. CASE j = k /\ q = p
    <3>1. age[p] <= TTL /\ Off(p, cached[p], ~ answered[p])
        BY <1>1, <1>2, <2>1 DEF Hit
    <3>2. since[p] <= age[p] + MaxLag
        BY <3>1 DEF CacheFresh
    <3> QED BY <2>1, <3>1, <3>2 DEF TypeOK
  <2>2. CASE j # k \/ q # p
      BY <1>1, <1>2, <2>2 DEF AuditFresh
  <2> QED BY <2>1, <2>2
<1>5. AnswerFresh'
  <2> SUFFICES ASSUME NEW j \in Procs, NEW q \in Pkgs,
                      Off(q, answer[j][q], q \in blind'[j])
               PROVE  since[q] <= lag[j]
      BY DEF AnswerFresh, Off
  <2>1. j # k \/ q # p
      BY DEF Off, Passing
  <2> QED BY <1>2, <2>1 DEF AnswerFresh
<1>6. ListFresh'
  <2>1. \A j \in Procs : phase[j] = "priming" => blind'[j] = blind[j]
      BY DEF TypeOK
  <2> QED BY <2>1 DEF ListFresh, Off
<1>7. (Listed /\ CacheFresh)'
    BY DEF Listed, CacheFresh, Off
<1> QED BY <1>3, <1>4, <1>5, <1>6, <1>7

LEMMA AuditQueryKeeps ==
    ASSUME Inv, NEW k \in Procs, NEW p \in Pkgs, AuditQuery(k, p) PROVE Inv'
<1> USE AuditAssumption DEF Inv, AuditQuery, world
<1>1. /\ cached' \in [Pkgs -> Verdicts \cup {"none"}]
      /\ age' \in [Pkgs -> 0 .. TTL + 1]
      /\ answered' \in [Pkgs -> BOOLEAN]
      /\ CacheFresh'
      /\ answer' \in [Procs -> [Pkgs -> Verdicts \cup {"none", "asked"}]]
      /\ \A j \in Procs, q \in Pkgs : answer'[j][q] = "none" \/ answer'[j][q] = answer[j][q]
      /\ answer'[k][p] = "none"
      /\ AnswerFresh'
    BY FileKeeps
<1>2. answer[k][p] \in Verdicts
    BY DEF File
<1>3. /\ seen' \in [Procs -> [Pkgs -> Verdicts \cup {"none"}]]
      /\ seen'[k][p] = answer[k][p]
      /\ \A j \in Procs, q \in Pkgs : j # k \/ q # p => seen'[j][q] = seen[j][q]
    BY <1>2 DEF TypeOK
<1>4. TypeOK'
    BY <1>1, <1>3 DEF TypeOK
<1>5. AuditFresh'
  <2> SUFFICES ASSUME NEW j \in Procs, NEW q \in Pkgs,
                      Off(q, seen'[j][q], q \in blind[j])
               PROVE  since[q] <= TTL + MaxLag + lag[j]
      BY DEF AuditFresh, Off
  <2>1. CASE j = k /\ q = p
    <3>1. since[p] <= lag[k]
        BY <1>3, <2>1 DEF AnswerFresh
    <3> QED BY <2>1, <3>1 DEF TypeOK
  <2>2. CASE j # k \/ q # p
      BY <1>3, <2>2 DEF AuditFresh
  <2> QED BY <2>1, <2>2
<1>6. (Listed /\ ListFresh)'
    BY <1>1 DEF Listed, ListFresh, Off
<1> QED BY <1>1, <1>4, <1>5, <1>6

(* An audit that ends, by the gate or by a crash, takes with it what it knew. *)
LEMMA OverKeeps ==
    ASSUME Inv, NEW k \in Procs, Forget(k), NEW end \in {"idle", "passed", "blocked"},
           phase' = [phase EXCEPT ![k] = end],
           uncached' = [uncached EXCEPT ![k] = {}],
           UNCHANGED <<world, cache, runs>>
    PROVE  Inv'
<1> USE AuditAssumption DEF Inv, Forget, Unheard, world, cache
<1>1. /\ phase' \in [Procs -> {"idle", "passed", "blocked"} \cup Running]
      /\ phase'[k] = end
    BY DEF TypeOK
<1>2. /\ uncached' \in [Procs -> SUBSET Pkgs] /\ ids' \in [Procs -> SUBSET Pkgs]
      /\ answer' \in [Procs -> [Pkgs -> Verdicts \cup {"none", "asked"}]]
      /\ blind' \in [Procs -> SUBSET Pkgs]
      /\ seen' \in [Procs -> [Pkgs -> Verdicts \cup {"none"}]]
      /\ lag' \in [Procs -> 0 .. MaxLag]
    BY DEF TypeOK
<1>3. /\ uncached'[k] = {} /\ \A p \in Pkgs : answer'[k][p] = "none" /\ seen'[k][p] = "none"
      /\ \A j \in Procs \ {k} :
            /\ phase'[j] = phase[j] /\ uncached'[j] = uncached[j] /\ ids'[j] = ids[j]
            /\ answer'[j] = answer[j] /\ blind'[j] = blind[j] /\ seen'[j] = seen[j]
            /\ lag'[j] = lag[j]
    BY DEF TypeOK
<1>4. TypeOK'
    BY <1>1, <1>2, <1>3 DEF TypeOK
<1>5. (Listed /\ ListFresh)'
    BY <1>1, <1>3 DEF Listed, ListFresh, Off
<1>6. (AnswerFresh /\ AuditFresh)'
    BY <1>3 DEF AnswerFresh, AuditFresh, Off, Passing
<1>7. CacheFresh'
    BY DEF CacheFresh, Off
<1> QED BY <1>4, <1>5, <1>6, <1>7

LEMMA GateKeeps == ASSUME Inv, NEW k \in Procs, Gate(k) PROVE Inv'
<1>1. uncached[k] = {} /\ uncached \in [Procs -> SUBSET Pkgs]
    BY DEF Inv, TypeOK, Gate
<1>2. uncached' = [uncached EXCEPT ![k] = {}]
    BY <1>1 DEF Gate
<1>3. \/ phase' = [phase EXCEPT ![k] = "blocked"]
      \/ phase' = [phase EXCEPT ![k] = "passed"]
    BY DEF Gate
<1> QED BY <1>2, <1>3, OverKeeps DEF Gate

LEMMA CrashKeeps == ASSUME Inv, NEW k \in Procs, Crash(k) PROVE Inv'
    BY OverKeeps DEF Crash

LEMMA Inductive == Inv /\ [Next]_vars => Inv'
<1> SUFFICES ASSUME Inv, [Next]_vars PROVE Inv'
    OBVIOUS
<1>1. CASE \E p \in Pkgs, v \in Verdicts : Revise(p, v)
    BY <1>1, ReviseKeeps
<1>2. CASE Tick
    BY <1>2, TickKeeps
<1>3. CASE \E k \in Procs : Start(k) \/ Crash(k)
    BY <1>3, StartKeeps, CrashKeeps
<1>4. ASSUME NEW k \in Procs, Proceed(k) PROVE Inv'
  <2>1. CASE \E told \in SUBSET uncached[k] : Batch(k, told)
      BY <2>1, BatchKeeps
  <2>2. CASE \E p \in Pkgs : PrimeClean(k, p) \/ Ask(k, p) \/ PrimeQuery(k, p)
      BY <2>2, PrimeCleanKeeps, AskKeeps, PrimeQueryKeeps
  <2>3. CASE \E p \in Pkgs, told \in BOOLEAN : Reply(k, p, told)
      BY <2>3, ReplyKeeps
  <2>4. CASE \E p \in Pkgs : AuditCached(k, p) \/ AuditQuery(k, p)
      BY <2>4, AuditCachedKeeps, AuditQueryKeeps
  <2>5. CASE EndPrime(k) \/ Gate(k)
      BY <2>5, EndPrimeKeeps, GateKeeps
  <2> QED BY <1>4, <2>1, <2>2, <2>3, <2>4, <2>5 DEF Proceed
<1>5. CASE UNCHANGED vars
    BY <1>5 DEF vars, world, cache, Inv, TypeOK, Listed, ListFresh, AnswerFresh, CacheFresh,
                AuditFresh, Off
<1> QED BY <1>1, <1>2, <1>3, <1>4, <1>5 DEF Next

LEMMA Always == Spec => []Inv
<1> QED BY Initially, Inductive, PTL DEF Spec

(* Only the gate lets an install pass, or blocks it. *)
LEMMA GateOnly ==
    ASSUME Inv, [Next]_vars, NEW k \in Procs, phase[k] = "auditing",
           phase'[k] \in {"passed", "blocked"}
    PROVE  Gate(k)
<1> USE DEF Inv
<1>1. \A j \in Procs : Start(j) \/ Crash(j) => phase'[k] \notin {"passed", "blocked"}
  <2>1. \A j \in Procs : Start(j) => phase'[k] \in {"auditing", "batching"}
      BY DEF Start, TypeOK
  <2>2. \A j \in Procs : Crash(j) => phase'[k] \in {"auditing", "idle"}
      BY DEF Crash, TypeOK
  <2> QED BY <2>1, <2>2
<1>2. \A j \in Procs, told \in SUBSET Pkgs :
          Batch(j, told) => phase'[k] \notin {"passed", "blocked"}
    BY DEF Batch, TypeOK
<1>3. \A j \in Procs : EndPrime(j) => phase'[k] \notin {"passed", "blocked"}
    BY DEF EndPrime, TypeOK
<1>4. \A j \in Procs : Gate(j) => j = k
    BY DEF Gate, TypeOK
<1>5. \A q \in Pkgs, v \in Verdicts : ~ Revise(q, v)
    BY DEF Revise
<1>6. ~ Tick /\ ~ UNCHANGED vars
    BY DEF Tick, vars
<1>7. \A j \in Procs, q \in Pkgs :
          /\ ~ PrimeClean(j, q) /\ ~ Ask(j, q) /\ ~ PrimeQuery(j, q)
          /\ ~ AuditCached(j, q) /\ ~ AuditQuery(j, q)
    BY DEF PrimeClean, Ask, PrimeQuery, AuditCached, AuditQuery
<1>8. \A j \in Procs, q \in Pkgs, told \in BOOLEAN : ~ Reply(j, q, told)
    BY DEF Reply
<1>9. \A j \in Procs : uncached[j] \subseteq Pkgs
    BY DEF TypeOK
<1> QED BY <1>1, <1>2, <1>3, <1>4, <1>5, <1>6, <1>7, <1>8, <1>9 DEF Next, Proceed

(* A verdict that an audit goes by, and no error is behind, was right within the
   horizon. *)
LEMMA SeenLately ==
    ASSUME Inv, NEW k \in Procs, NEW p \in Pkgs
    PROVE  /\ seen[k][p] = "critical" => LatelyCritical(p)
           /\ seen[k][p] \in Passing => LatelyNot(p) \/ p \in blind[k]
<1> USE AuditAssumption DEF Inv
<1>1. Off(p, seen[k][p], p \in blind[k]) => since[p] <= Horizon
    BY DEF AuditFresh, TypeOK, Horizon
<1> QED BY <1>1 DEF Off, LatelyCritical, LatelyNot

(* An install that passes the gate goes by verdicts of its own audit, none of which
   is critical. *)
LEMMA PassStep ==
    Inv /\ [Next]_vars =>
        \A k \in Procs : phase[k] = "auditing" /\ phase'[k] = "passed" =>
            \A p \in Wants[k] : AbortOnCritical => LatelyNot(p) \/ p \in blind[k]
<1> SUFFICES ASSUME Inv, [Next]_vars, NEW k \in Procs,
                    phase[k] = "auditing", phase'[k] = "passed",
                    NEW p \in Wants[k], AbortOnCritical
             PROVE  LatelyNot(p) \/ p \in blind[k]
    OBVIOUS
<1>1. p \in Pkgs
    BY AuditAssumption
<1>2. Gate(k)
    BY GateOnly
<1>3. seen[k][p] # "none" /\ ~ Blocks(k, p)
    BY <1>2 DEF Gate, Inv, TypeOK
<1>4. seen[k][p] \in Passing
    BY <1>1, <1>3 DEF Inv, Blocks, TypeOK, Verdicts, Passing
<1> QED BY <1>1, <1>4, SeenLately

(* One that is blocked has a verdict that is, or a script that the scan blocks. *)
LEMMA BlockStep ==
    Inv /\ [Next]_vars =>
        \A k \in Procs : phase[k] = "auditing" /\ phase'[k] = "blocked" =>
            \E p \in Wants[k] :
               \/ p \in Malicious
               \/ AbortOnCritical /\ LatelyCritical(p)
<1> SUFFICES ASSUME Inv, [Next]_vars, NEW k \in Procs,
                    phase[k] = "auditing", phase'[k] = "blocked"
             PROVE  \E p \in Wants[k] : \/ p \in Malicious
                                        \/ AbortOnCritical /\ LatelyCritical(p)
    OBVIOUS
<1>1. Gate(k)
    BY GateOnly
<1>2. PICK p \in Wants[k] : Blocks(k, p)
    BY <1>1 DEF Gate, Inv, TypeOK
<1>3. p \in Pkgs
    BY AuditAssumption
<1> QED BY <1>2, <1>3, SeenLately DEF Blocks

-----------------------------------------------------------------------------
(* The line of a range that v is on begins at i. *)
OnLine(range, i, v) ==
    /\ i \in DOMAIN range /\ range[i].kind = "introduced" /\ range[i].at <= v
    /\ i + 1 \in DOMAIN range => v < range[i + 1].at

(* Events come by turns. *)
LEMMA Turns ==
    ASSUME NEW range, Sorted(range)
    PROVE  /\ Len(range) \in Nat /\ DOMAIN range = 1 .. Len(range)
           /\ \A i \in DOMAIN range : range[i].at \in Versions /\ range[i].at \in Nat /\ i \in Nat
           /\ \A i \in DOMAIN range : range[i].kind = "introduced" \/ range[i].kind = "fixed"
           /\ \A i \in DOMAIN range : range[i].kind = "introduced" <=> i % 2 = 1
<1> DEFINE X == [kind : {"introduced", "fixed"}, at : Versions]
<1>1. range \in Seq(X)
    BY DEF Sorted
<1>2. ASSUME NEW x \in X
      PROVE  x.at \in Versions /\ (x.kind = "introduced" \/ x.kind = "fixed")
    OBVIOUS
<1> HIDE DEF X
<1>3. Len(range) \in Nat /\ DOMAIN range = 1 .. Len(range)
    BY <1>1
<1>4. \A i \in DOMAIN range : range[i] \in X /\ i \in Nat
    BY <1>1, <1>3
<1>5. Versions \subseteq Nat
    BY OsvAssumption
<1>6. \A i \in DOMAIN range : range[i].kind = "introduced" <=> i % 2 = 1
    BY DEF Sorted
<1>7. \A i \in DOMAIN range : range[i].at \in Versions /\ range[i].at \in Nat /\ i \in Nat
    BY <1>2, <1>4, <1>5
<1>8. \A i \in DOMAIN range : range[i].kind = "introduced" \/ range[i].kind = "fixed"
    BY <1>2, <1>4
<1> QED BY <1>3, <1>6, <1>7, <1>8

(* A line begins before each fix, and a fix ends each line but the last. *)
LEMMA Ends ==
    ASSUME NEW range, Sorted(range), NEW j \in DOMAIN range
    PROVE  /\ range[j].kind = "fixed" =>
                 /\ j - 1 \in DOMAIN range /\ range[j - 1].kind = "introduced"
                 /\ range[j - 1].at < range[j].at
           /\ range[j].kind = "introduced" /\ j + 1 \in DOMAIN range =>
                 /\ range[j + 1].kind = "fixed" /\ range[j].at < range[j + 1].at
<1>1. /\ Len(range) \in Nat /\ DOMAIN range = 1 .. Len(range) /\ j \in Nat
      /\ \A i \in DOMAIN range : range[i].kind = "introduced" \/ range[i].kind = "fixed"
      /\ \A i \in DOMAIN range : range[i].kind = "introduced" <=> i % 2 = 1
    BY Turns
<1>2. \A i, k \in DOMAIN range : i < k => range[i].at < range[k].at
    BY DEF Sorted
<1>3. ASSUME range[j].kind = "fixed"
      PROVE  /\ j - 1 \in DOMAIN range /\ range[j - 1].kind = "introduced"
             /\ range[j - 1].at < range[j].at
  <2>1. j % 2 # 1
      BY <1>1, <1>3
  <2>2. j # 1 /\ (j - 1) % 2 = 1
      BY <1>1, <2>1
  <2>3. j - 1 \in DOMAIN range /\ j - 1 < j
      BY <1>1, <2>2
  <2> QED BY <1>1, <1>2, <2>2, <2>3
<1>4. ASSUME range[j].kind = "introduced", j + 1 \in DOMAIN range
      PROVE  range[j + 1].kind = "fixed" /\ range[j].at < range[j + 1].at
  <2>1. j % 2 = 1
      BY <1>1, <1>4
  <2>2. (j + 1) % 2 # 1 /\ j < j + 1
      BY <1>1, <2>1
  <2> QED BY <1>1, <1>2, <1>4, <2>2
<1> QED BY <1>3, <1>4

(* The code finds where the line that a fix ends began. *)
LEMMA LineFound ==
    ASSUME NEW range, Sorted(range), NEW j \in DOMAIN range, range[j].kind = "fixed"
    PROVE  LineOf(range, j) = range[j - 1].at
<1> DEFINE begun == {i \in 1 .. j : range[i].kind = "introduced"}
<1>1. j - 1 \in DOMAIN range /\ range[j - 1].kind = "introduced"
    BY Ends
<1>2. j \in Nat /\ DOMAIN range = 1 .. Len(range) /\ Len(range) \in Nat
    BY Turns
<1>3. begun \in SUBSET Nat /\ j - 1 \in begun /\ \A i \in begun : i <= j - 1
  <2>1. j - 1 \in 1 .. j
      BY <1>1, <1>2
  <2>2. ASSUME NEW i \in begun PROVE i <= j - 1
    <3>1. i # j
        OBVIOUS
    <3> QED BY <1>2, <3>1
  <2> QED BY <1>1, <2>1, <2>2
<1>4. LineOf(range, j) = IF begun = {} THEN 0 ELSE range[Max(begun)].at
    BY DEF LineOf
<1> HIDE DEF begun
<1>5. Max(begun) \in begun /\ Max(begun) >= j - 1
  <2>1. j - 1 \in Nat /\ begun # {}
      BY <1>1, <1>2, <1>3
  <2> QED BY <1>3, <2>1, MaxIs
<1>6. Max(begun) = j - 1
  <2>1. Max(begun) \in Nat /\ Max(begun) <= j - 1
      BY <1>3, <1>5
  <2> QED BY <1>2, <1>5, <2>1
<1> QED BY <1>3, <1>4, <1>6

(* A range affects the versions on its lines. *)
LEMMA AffectsIs ==
    ASSUME NEW range, Sorted(range), NEW v \in Nat
    PROVE  Affects(range, v) <=> \E i : OnLine(range, i, v)
<1>1. \A i, k \in DOMAIN range : i < k => range[i].at < range[k].at
    BY DEF Sorted
<1>2. /\ \A i \in DOMAIN range : range[i].at \in Nat /\ i \in Nat
      /\ DOMAIN range = 1 .. Len(range) /\ Len(range) \in Nat
    BY Turns
<1>3. ASSUME Affects(range, v) PROVE \E i : OnLine(range, i, v)
  <2>1. PICK i \in DOMAIN range :
          /\ range[i].kind = "introduced" /\ range[i].at <= v
          /\ \A j \in DOMAIN range :
                range[j].kind = "fixed" => ~ (range[i].at < range[j].at /\ range[j].at <= v)
      BY <1>3 DEF Affects
  <2>2. ASSUME i + 1 \in DOMAIN range PROVE v < range[i + 1].at
    <3>1. range[i + 1].kind = "fixed" /\ range[i].at < range[i + 1].at
        BY <2>1, <2>2, Ends
    <3>2. ~ range[i + 1].at <= v /\ range[i + 1].at \in Nat
        BY <1>2, <2>1, <2>2, <3>1
    <3> QED BY <3>2
  <2> QED BY <2>1, <2>2 DEF OnLine
<1>4. ASSUME NEW i, OnLine(range, i, v) PROVE Affects(range, v)
  <2>1. i \in DOMAIN range /\ range[i].kind = "introduced" /\ range[i].at <= v
      BY <1>4 DEF OnLine
  <2>2. ASSUME NEW j \in DOMAIN range, range[j].kind = "fixed"
        PROVE  ~ (range[i].at < range[j].at /\ range[j].at <= v)
    <3>1. i # j /\ i \in Nat /\ j \in Nat /\ range[i].at \in Nat /\ range[j].at \in Nat
        BY <1>2, <2>1, <2>2
    <3>2. CASE j < i
      <4>1. range[j].at < range[i].at
          BY <1>1, <2>1, <3>2
      <4> QED BY <3>1, <4>1
    <3>3. CASE i < j
      <4>1. i + 1 \in DOMAIN range
          BY <1>2, <2>1, <3>1, <3>3
      <4>2. v < range[i + 1].at /\ range[i + 1].at \in Nat
          BY <1>2, <1>4, <4>1 DEF OnLine
      <4>3. i + 1 = j \/ i + 1 < j
          BY <3>1, <3>3
      <4>4. range[i + 1].at <= range[j].at
        <5>1. CASE i + 1 = j
            BY <3>1, <5>1
        <5>2. CASE i + 1 < j
          <6>1. range[i + 1].at < range[j].at
              BY <1>1, <4>1, <5>2
          <6> QED BY <3>1, <4>2, <6>1
        <5> QED BY <4>3, <5>1, <5>2
      <4> QED BY <3>1, <4>2, <4>4
    <3> QED BY <3>1, <3>2, <3>3
  <2> QED BY <2>1, <2>2 DEF Affects
<1> QED BY <1>3, <1>4

(* The fixes among which the code chooses are where the lines of a version end. *)
EndsOf(range, v) == {range[i + 1].at : i \in {k \in DOMAIN range : OnLine(range, k, v) /\ k + 1 \in DOMAIN range}}

AllEnds(ranges, v) == UNION {EndsOf(range, v) : range \in ranges}

LEMMA FixesAre ==
    ASSUME NEW range, Sorted(range), NEW v \in Nat
    PROVE  {range[j].at : j \in {i \in DOMAIN range :
                /\ range[i].kind = "fixed" /\ v < range[i].at
                /\ LineOf(range, i) <= v}} = EndsOf(range, v)
<1> DEFINE J == {i \in DOMAIN range : range[i].kind = "fixed" /\ v < range[i].at /\ LineOf(range, i) <= v}
           K == {k \in DOMAIN range : OnLine(range, k, v) /\ k + 1 \in DOMAIN range}
<1>1. ASSUME NEW j \in J PROVE j - 1 \in K /\ j - 1 + 1 = j
  <2>1. LineOf(range, j) = range[j - 1].at
      BY LineFound
  <2>2. j - 1 \in DOMAIN range /\ range[j - 1].kind = "introduced"
      BY Ends
  <2>3. j \in Nat
      BY Turns
  <2>4. j - 1 + 1 = j
      BY <2>3
  <2> QED BY <2>1, <2>2, <2>4 DEF OnLine
<1>2. ASSUME NEW k \in K PROVE k + 1 \in J
  <2>0. k \in DOMAIN range /\ k + 1 \in DOMAIN range /\ OnLine(range, k, v)
      OBVIOUS
  <2> HIDE DEF J, K
  <2>1. range[k + 1].kind = "fixed" /\ v < range[k + 1].at
      BY <2>0, Ends DEF OnLine
  <2>2. PICK j \in DOMAIN range : j = k + 1
      BY <2>0
  <2>3. j - 1 = k
    <3>1. k \in Nat
        BY <2>0, Turns
    <3> QED BY <2>2, <3>1
  <2>4. LineOf(range, k + 1) = range[k].at
    <3>1. range[j].kind = "fixed"
        BY <2>1, <2>2, Zenon
    <3>2. LineOf(range, j) = range[j - 1].at
        BY <3>1, LineFound
    <3> QED BY <2>2, <2>3, <3>2, Zenon
  <2>5. LineOf(range, k + 1) <= v
      BY <2>0, <2>4, Zenon DEF OnLine
  <2> QED BY <2>0, <2>1, <2>5 DEF J
<1> HIDE DEF J, K
<1>3. {range[j].at : j \in J} = {range[k + 1].at : k \in K}
  <2>1. ASSUME NEW j \in J PROVE range[j].at \in {range[k + 1].at : k \in K}
    <3>1. range[j].at = range[j - 1 + 1].at
        BY <1>1
    <3> QED BY <1>1, <3>1
  <2> QED BY <1>2, <2>1
<1> QED BY <1>3 DEF EndsOf, J, K

LEMMA FixIs ==
    ASSUME NEW ranges, \A range \in ranges : Sorted(range), NEW v \in Nat
    PROVE  RecommendedFix(ranges, v) =
               IF AllEnds(ranges, v) = {} THEN {} ELSE {Min(AllEnds(ranges, v))}
<1> DEFINE fixes(range) ==
            {range[j].at : j \in {i \in DOMAIN range :
                /\ range[i].kind = "fixed" /\ v < range[i].at
                /\ LineOf(range, i) <= v}}
           all == UNION {fixes(range) : range \in ranges}
<1>1. \A range \in ranges : fixes(range) = EndsOf(range, v)
    BY FixesAre
<1>2. RecommendedFix(ranges, v) = IF all = {} THEN {} ELSE {Min(all)}
    BY DEF RecommendedFix
<1> HIDE DEF fixes
<1>3. all = AllEnds(ranges, v)
    BY <1>1 DEF AllEnds
<1> QED BY <1>2, <1>3

(* What it is for a version to be before the end of one of its lines. *)
LEMMA EndIs ==
    ASSUME NEW ranges, \A range \in ranges : Sorted(range), NEW v \in Nat, NEW e
    PROVE  e \in AllEnds(ranges, v) <=>
               \E range \in ranges : \E i \in DOMAIN range :
                   OnLine(range, i, v) /\ i + 1 \in DOMAIN range /\ e = range[i + 1].at
BY DEF AllEnds, EndsOf

LEMMA EndType ==
    ASSUME NEW ranges, \A range \in ranges : Sorted(range), NEW v \in Nat, NEW e \in AllEnds(ranges, v)
    PROVE  e \in Versions /\ e \in Nat /\ v < e
<1>1. PICK range \in ranges : \E i \in DOMAIN range :
                   OnLine(range, i, v) /\ i + 1 \in DOMAIN range /\ e = range[i + 1].at
    BY EndIs
<1>2. PICK i \in DOMAIN range : OnLine(range, i, v) /\ i + 1 \in DOMAIN range /\ e = range[i + 1].at
    BY <1>1
<1> QED BY <1>2, Turns DEF OnLine

LEMMA AffectedIs ==
    ASSUME NEW ranges, \A range \in ranges : Sorted(range), NEW v \in Nat
    PROVE  AffectedBy(ranges, v) <=> \E range \in ranges : \E i : OnLine(range, i, v)
<1>1. \A range \in ranges : Affects(range, v) <=> \E i : OnLine(range, i, v)
    BY AffectsIs
<1> QED BY <1>1 DEF AffectedBy

(* For an advisory with separate lines, whatever its ranges and the version, the
   fix that is recommended is the next version that is not affected. *)
LEMMA NearestFix ==
    ASSUME NEW ranges, \A range \in ranges : Sorted(range), NEW current \in Versions
    PROVE  FixIsNearest(ranges, current)
<1> DEFINE free == {v \in Versions : v > current /\ ~ AffectedBy(ranges, v)}
           all == AllEnds(ranges, current)
<1> SUFFICES ASSUME Separate(ranges)
             PROVE  RecommendedFix(ranges, current) =
                        IF ~ AffectedBy(ranges, current) \/ free = {} THEN {} ELSE {Min(free)}
    BY DEF FixIsNearest
<1>0. Versions \subseteq Nat /\ current \in Nat
    BY OsvAssumption
<1>1. ASSUME NEW e \in all PROVE e \in free /\ AffectedBy(ranges, current)
  <2>1. PICK range \in ranges : \E i \in DOMAIN range :
            OnLine(range, i, current) /\ i + 1 \in DOMAIN range /\ e = range[i + 1].at
      BY <1>0, EndIs
  <2>2. PICK i \in DOMAIN range :
            OnLine(range, i, current) /\ i + 1 \in DOMAIN range /\ e = range[i + 1].at
      BY <2>1
  <2>3. range[i + 1].kind = "fixed"
      BY <2>2, Ends DEF OnLine
  <2>4. ~ AffectedBy(ranges, e)
      BY <2>2, <2>3 DEF Separate
  <2>5. e \in Versions /\ e \in Nat /\ current < e
      BY <1>0, EndType
  <2>6. e > current
      BY <1>0, <2>5
  <2>7. AffectedBy(ranges, current)
      BY <1>0, <2>2, AffectedIs
  <2> QED BY <2>4, <2>5, <2>6, <2>7
<1>2. ASSUME NEW v \in free, AffectedBy(ranges, current) PROVE \E e \in all : e <= v
  <2>1. PICK range \in ranges : \E i : OnLine(range, i, current)
      BY <1>0, <1>2, AffectedIs
  <2>2. PICK i : OnLine(range, i, current)
      BY <2>1
  <2>3. v \in Nat /\ current < v /\ ~ AffectedBy(ranges, v)
      BY <1>0
  <2>4. ~ OnLine(range, i, v)
      BY <2>3, AffectedIs
  <2>5. i \in DOMAIN range /\ range[i].at \in Nat /\ range[i].at <= current
      BY <2>2, Turns DEF OnLine
  <2>6. range[i].at <= v
      BY <1>0, <2>3, <2>5
  <2>7. i + 1 \in DOMAIN range /\ ~ v < range[i + 1].at
      BY <2>2, <2>4, <2>6 DEF OnLine
  <2>8. range[i + 1].at \in Nat
      BY <2>7, Turns
  <2>9. range[i + 1].at \in all
      BY <1>0, <2>2, <2>5, <2>7, EndIs
  <2>10. range[i + 1].at <= v
      BY <2>3, <2>7, <2>8
  <2> QED BY <2>9, <2>10
<1>3. free \in SUBSET Nat /\ all \in SUBSET Nat
    BY <1>0, <1>1
<1>4. RecommendedFix(ranges, current) = IF all = {} THEN {} ELSE {Min(all)}
    BY <1>0, FixIs
<1> HIDE DEF free, all
<1>5. CASE all = {}
  <2>1. ~ AffectedBy(ranges, current) \/ free = {}
      BY <1>2, <1>5
  <2> QED BY <1>4, <1>5, <2>1
<1>6. CASE all # {}
  <2>1. AffectedBy(ranges, current) /\ free # {}
      BY <1>1, <1>6
  <2>2. Min(all) \in all /\ \A x \in all : Min(all) <= x
      BY <1>3, <1>6, MinIs
  <2>3. Min(free) \in free /\ \A x \in free : Min(free) <= x
      BY <1>3, <2>1, MinIs
  <2>4. Min(free) <= Min(all)
      BY <1>1, <2>2, <2>3
  <2>5. PICK e \in all : e <= Min(free)
      BY <1>2, <2>1, <2>3
  <2>6. Min(all) <= e
      BY <2>2
  <2>7. Min(all) = Min(free)
    <3>1. Min(all) \in Nat /\ Min(free) \in Nat /\ e \in Nat
        BY <1>3, <2>2, <2>3
    <3> QED BY <2>4, <2>5, <2>6, <3>1
  <2> QED BY <1>4, <1>6, <2>1, <2>7
<1> QED BY <1>5, <1>6

LEMMA HintIs ==
    ASSUME NEW advisories, \A ranges \in advisories : \A range \in ranges : Sorted(range),
           NEW current \in Versions, NEW hint \in FixHint(advisories, current)
    PROVE  /\ \E ranges \in advisories : hint \in RecommendedFix(ranges, current)
           /\ \A ranges \in advisories : \A fix \in RecommendedFix(ranges, current) : hint >= fix
           /\ hint \in Versions
<1> DEFINE all == UNION {RecommendedFix(ranges, current) : ranges \in advisories}
<1>0. Versions \subseteq Nat /\ current \in Nat /\ IsFiniteSet(Versions)
    BY OsvAssumption
<1>1. ASSUME NEW ranges \in advisories, NEW fix \in RecommendedFix(ranges, current)
      PROVE  fix \in Versions
  <2>0. \A range \in ranges : Sorted(range)
      OBVIOUS
  <2>1. /\ RecommendedFix(ranges, current) =
            IF AllEnds(ranges, current) = {} THEN {} ELSE {Min(AllEnds(ranges, current))}
      BY <1>0, <2>0, FixIs
  <2>2. AllEnds(ranges, current) \in SUBSET Nat
      BY <1>0, <2>0, EndType
  <2>3. fix \in AllEnds(ranges, current)
      BY <2>1, <2>2, MinIs
  <2> QED BY <1>0, <2>0, <2>3, EndType
<1>2. all \subseteq Versions
    BY <1>1
<1>3. PICK bound \in Nat : \A v \in Versions : v <= bound
    BY <1>0, Bounded
<1>4. FixHint(advisories, current) = IF all = {} THEN {} ELSE {Max(all)}
    BY DEF FixHint
<1>5. \A ranges \in advisories : RecommendedFix(ranges, current) \subseteq all
    OBVIOUS
<1>6. \A fix \in all : \E ranges \in advisories : fix \in RecommendedFix(ranges, current)
    OBVIOUS
<1> HIDE DEF all
<1>7. all # {} /\ hint = Max(all)
    BY <1>4
<1>8. hint \in all /\ \A fix \in all : hint >= fix
    BY <1>0, <1>2, <1>3, <1>7, MaxIs
<1> QED BY <1>2, <1>5, <1>6, <1>8

(* The hint clears the advisories of one line, and no lower version clears all the
   advisories, whatever they are. *)
LEMMA LowestHint ==
    ASSUME NEW advisories, \A ranges \in advisories : \A range \in ranges : Sorted(range),
           NEW current \in Versions
    PROVE  HintIsLowest(advisories, current)
<1>0. Versions \subseteq Nat /\ current \in Nat
    BY OsvAssumption
<1> SUFFICES ASSUME NEW hint \in FixHint(advisories, current)
             PROVE  /\ \A ranges \in advisories :
                          OneLine(ranges) /\ AffectedBy(ranges, current) => ~ AffectedBy(ranges, hint)
                    /\ (\A ranges \in advisories : Separate(ranges)) =>
                          \A v \in Versions : current < v /\ v < hint =>
                              \E ranges \in advisories :
                                  AffectedBy(ranges, current) /\ AffectedBy(ranges, v)
    BY DEF HintIsLowest
<1>1. /\ \E ranges \in advisories : hint \in RecommendedFix(ranges, current)
      /\ \A ranges \in advisories : \A fix \in RecommendedFix(ranges, current) : hint >= fix
      /\ hint \in Versions /\ hint \in Nat
    BY <1>0, HintIs
<1>2. ASSUME NEW ranges \in advisories, OneLine(ranges), AffectedBy(ranges, current)
      PROVE  ~ AffectedBy(ranges, hint)
  <2>0. \A range \in ranges : Sorted(range)
      OBVIOUS
  <2>1. PICK range \in ranges : \E i : OnLine(range, i, current)
      BY <1>0, <1>2, <2>0, AffectedIs
  <2>2. PICK i : OnLine(range, i, current)
      BY <2>1
  <2>3. ranges = {range} /\ DOMAIN range = 1 .. 2 /\ Sorted(range)
    <3>1. ranges = {range} /\ Len(range) = 2
        BY <1>2 DEF OneLine
    <3>2. DOMAIN range = 1 .. Len(range) /\ Sorted(range)
        BY <2>0, Turns
    <3> QED BY <3>1, <3>2
  <2>4. \A k, v : OnLine(range, k, v) => k = 1
    <3> SUFFICES ASSUME NEW k, NEW v, OnLine(range, k, v) PROVE k = 1
        OBVIOUS
    <3>1. k \in DOMAIN range /\ range[k].kind = "introduced"
        BY DEF OnLine
    <3>2. k % 2 = 1
        BY <2>3, <3>1, Turns
    <3>3. k = 1 \/ k = 2
        BY <2>3, <3>1
    <3> QED BY <3>2, <3>3
  <2>5. OnLine(range, 1, current)
      BY <2>2, <2>4
  <2>6. 1 \in DOMAIN range /\ 1 + 1 \in DOMAIN range /\ 2 \in DOMAIN range /\ 1 + 1 = 2
      BY <2>3
  <2>7. AllEnds(ranges, current) = {range[2].at}
    <3>1. ASSUME NEW e \in AllEnds(ranges, current) PROVE e = range[2].at
      <4>1. PICK r \in ranges : \E k \in DOMAIN r :
                OnLine(r, k, current) /\ k + 1 \in DOMAIN r /\ e = r[k + 1].at
          BY <1>0, <2>0, EndIs
      <4>2. r = range
          BY <2>3
      <4>3. PICK k : OnLine(range, k, current) /\ e = range[k + 1].at
          BY <4>1, <4>2
      <4>4. k = 1
          BY <2>4, <4>3
      <4> QED BY <2>6, <4>3, <4>4
    <3>2. range[1 + 1].at \in AllEnds(ranges, current)
        BY <1>0, <2>0, <2>5, <2>6, EndIs
    <3> QED BY <2>6, <3>1, <3>2
  <2>8. range[2].at \in Nat
      BY <2>3, <2>6, Turns
  <2>9. hint >= range[2].at
    <3>1. RecommendedFix(ranges, current) = {Min({range[2].at})}
        BY <1>0, <2>0, <2>7, FixIs
    <3>2. Min({range[2].at}) = range[2].at
        BY <2>8, MinIs
    <3> QED BY <1>1, <3>1, <3>2
  <2>10. ASSUME NEW r \in ranges, NEW k PROVE ~ OnLine(r, k, hint)
    <3> SUFFICES ASSUME OnLine(r, k, hint) PROVE FALSE
        OBVIOUS
    <3>1. OnLine(range, 1, hint)
        BY <2>3, <2>4
    <3>2. hint < range[2].at
        BY <2>6, <3>1 DEF OnLine
    <3> QED BY <1>1, <2>8, <2>9, <3>2
  <2> QED BY <1>1, <2>0, <2>10, AffectedIs
<1>3. ASSUME \A ranges \in advisories : Separate(ranges), NEW v \in Versions, current < v, v < hint
      PROVE  \E ranges \in advisories : AffectedBy(ranges, current) /\ AffectedBy(ranges, v)
  <2>1. PICK ranges \in advisories : hint \in RecommendedFix(ranges, current)
      BY <1>1
  <2> DEFINE free == {w \in Versions : w > current /\ ~ AffectedBy(ranges, w)}
  <2>2. RecommendedFix(ranges, current) =
            IF ~ AffectedBy(ranges, current) \/ free = {} THEN {} ELSE {Min(free)}
      BY <1>3, NearestFix DEF FixIsNearest
  <2>3. free \in SUBSET Nat
      BY <1>0
  <2>4. v > current /\ ~ hint <= v
      BY <1>0, <1>1, <1>3
  <2>5. v \notin free => AffectedBy(ranges, v)
      BY <2>4
  <2> HIDE DEF free
  <2>6. AffectedBy(ranges, current) /\ free # {} /\ hint = Min(free)
      BY <2>1, <2>2
  <2>7. v \notin free
      BY <2>3, <2>4, <2>6, MinIs
  <2> QED BY <2>5, <2>6, <2>7
<1> QED BY <1>2, <1>3

-----------------------------------------------------------------------------
(* How many of n packages the first c chunks of a size have. *)
Whole(c, size, n) == IF c * size <= n THEN c * size ELSE n

(* The chunks that n packages make: all but the last are whole. *)
LEMMA Chunks ==
    ASSUME NEW n \in Nat, NEW size \in Nat \ {0}, NEW C, C = (n + size - 1) \div size
    PROVE  /\ C \in Nat /\ C * size \in Nat /\ n <= C * size
           /\ \A c \in Nat : c * size \in Nat
           /\ \A c \in 1 .. C : (c - 1) * size \in Nat /\ (c - 1) * size < n
                                /\ c * size = (c - 1) * size + size
           /\ n = 0 => C = 0
<1> DEFINE x == n + size - 1
<1>0. x \in Nat
    OBVIOUS
<1>1. /\ C \in Nat /\ x % size \in Nat /\ x % size < size
      /\ x = C * size + (x % size)
    BY <1>0, Division
<1>2. \A c \in Nat : c * size \in Nat
    BY Product
<1>3. PICK r \in Nat : r < size /\ n + size - 1 = C * size + r
    BY <1>1
<1>4. PICK p \in Nat : p = C * size
    BY <1>1, <1>2
<1>5. n + size - 1 = p + r
    BY <1>3, <1>4
<1> HIDE DEF x
<1>6. n <= C * size
  <2>1. n <= p
      BY <1>3, <1>4, <1>5
  <2> QED BY <1>4, <2>1
<1>7. ASSUME NEW c \in 1 .. C
      PROVE (c - 1) * size \in Nat /\ (c - 1) * size < n /\ c * size = (c - 1) * size + size
  <2>1. c \in Nat /\ c - 1 \in Nat /\ c <= C /\ c \in Int /\ c - 1 + 1 = c
      BY <1>1
  <2>2. PICK y \in Nat : y = c * size
      BY <1>2, <2>1
  <2>3. y <= p
    <3>1. c * size <= C * size
        BY <1>1, <2>1, ProductUp
    <3> QED BY <1>4, <2>2, <3>1
  <2>4. PICK z \in Nat : z = (c - 1) * size
      BY <1>2, <2>1
  <2>5. z = y - size
    <3>1. (c - 1) * size = c * size - size
        BY <2>1, ProductNext
    <3> QED BY <2>2, <2>4, <3>1
  <2>6. z < n /\ y = z + size
      BY <1>3, <1>5, <2>3, <2>5
  <2> QED BY <2>2, <2>4, <2>6
<1>8. ASSUME n = 0 PROVE C = 0
  <2>1. C # 0 => C >= 1
      BY <1>1
  <2>2. C # 0 => C * size >= size
    <3>1. CASE C # 0
      <4>1. 1 <= C /\ 1 \in Nat /\ size \in Nat
          BY <1>1, <3>1
      <4>2. 1 * size <= C * size
          BY <1>1, <4>1, ProductUp
      <4>3. 1 * size = size
          BY <4>1
      <4>4. size <= p
          BY <1>4, <4>2, <4>3
      <4>5. C * size >= size
          BY <1>4, <4>1, <4>4
      <4> QED BY <4>5
    <3> QED BY <3>1
  <2>3. C # 0 => p >= size
      BY <1>4, <2>2
  <2>4. p < size
      BY <1>3, <1>5, <1>8
  <2> QED BY <2>3, <2>4
<1> QED BY <1>1, <1>2, <1>4, <1>6, <1>7, <1>8

(* What the i-th package gets from the replies. *)
Answer(size, replies, i) ==
    LET reply == replies[(i - 1) \div size + 1]
        place == ((i - 1) % size) + 1
    IN  IF place <= Len(reply) THEN reply[place] ELSE {}

(* Its chunk, and its place in it. *)
LEMMA Placed ==
    ASSUME NEW n \in Nat, NEW size \in Nat \ {0}, NEW i \in 1 .. n
    PROVE  LET c == (i - 1) \div size + 1
               place == ((i - 1) % size) + 1
           IN  /\ c \in 1 .. (n + size - 1) \div size
               /\ place \in 1 .. size
               /\ i = (c - 1) * size + place
<1> DEFINE q == (i - 1) \div size
           r == (i - 1) % size
           C == (n + size - 1) \div size
<1>1. i - 1 \in Nat /\ i \in Nat /\ i <= n
    OBVIOUS
<1>2. q \in Nat /\ r \in Nat /\ r < size /\ i - 1 = q * size + r
    BY <1>1, Division
<1>3. C \in Nat /\ n <= C * size
    BY Chunks
<1> HIDE DEF q, r, C
<1>4. q + 1 - 1 = q /\ r + 1 \in 1 .. size /\ q + 1 \in Nat
    BY <1>2
<1>5. q * size \in Nat /\ C * size \in Nat
    BY <1>2, <1>3, Product
<1>6. q + 1 \in 1 .. C
  <2> SUFFICES ASSUME C <= q PROVE FALSE
      BY <1>2, <1>3
  <2>1. C * size <= q * size
      BY <1>2, <1>3, ProductUp
  <2>2. PICK a \in Nat : a = q * size
      BY <1>5
  <2>3. PICK b \in Nat : b = C * size
      BY <1>5
  <2>4. b <= a /\ n <= b /\ i - 1 = a + r
      BY <1>2, <1>3, <2>1, <2>2, <2>3
  <2> QED BY <1>1, <1>2, <2>4
<1>7. i = (q + 1 - 1) * size + (r + 1)
  <2>1. PICK a \in Nat : a = q * size
      BY <1>5
  <2>2. i - 1 = a + r
      BY <1>2, <2>1
  <2>3. i = a + (r + 1)
      BY <1>1, <1>2, <2>2
  <2> QED BY <1>4, <2>1, <2>3
<1> QED BY <1>4, <1>6, <1>7 DEF q, r, C

(* The place of the r-th package of a chunk. *)
LEMMA AnswerIs ==
    ASSUME NEW size \in Nat \ {0}, NEW replies, NEW c \in Nat \ {0}, NEW r \in 1 .. size
    PROVE  Answer(size, replies, (c - 1) * size + r) =
               IF r <= Len(replies[c]) THEN replies[c][r] ELSE {}
<1> DEFINE i == (c - 1) * size + r
<1>1. c - 1 \in Nat /\ r - 1 \in Nat /\ r - 1 < size
    OBVIOUS
<1>2. (c - 1) * size \in Nat
    BY <1>1, Product
<1>3. i - 1 = (c - 1) * size + (r - 1)
    BY <1>2
<1>4. (i - 1) \div size = c - 1 /\ (i - 1) % size = r - 1
    BY <1>1, <1>3, DivisionIs
<1>5. c - 1 + 1 = c /\ r - 1 + 1 = r
    OBVIOUS
<1> HIDE DEF i
<1>6. Answer(size, replies, i) = IF r <= Len(replies[c]) THEN replies[c][r] ELSE {}
    BY <1>4, <1>5 DEF Answer
<1> QED BY <1>6 DEF i

(* How many packages the c-th chunk has. *)
Part(c, size, n) == IF c * size <= n THEN size ELSE n - (c - 1) * size

LEMMA ChunkType ==
    ASSUME NEW X, {} \in X, NEW part \in Nat, NEW reply \in Seq(X)
    PROVE  /\ ChunkAnswers(part, reply) \in Seq(X) /\ Len(ChunkAnswers(part, reply)) = part
           /\ \A r \in 1 .. part :
                 ChunkAnswers(part, reply)[r] = IF r <= Len(reply) THEN reply[r] ELSE {}
<1> DEFINE g == [i \in Nat |-> IF i \in 1 .. Len(reply) THEN reply[i] ELSE {}]
<1>1. g \in [Nat -> X]
    OBVIOUS
<1>2. \A r \in 1 .. part : g[r] = IF r <= Len(reply) THEN reply[r] ELSE {}
    OBVIOUS
<1> HIDE DEF g
<1>3. ChunkAnswers(part, reply) = Firsts(g, part)
    BY <1>2 DEF ChunkAnswers, Firsts
<1> QED BY <1>1, <1>2, <1>3, FirstsType

(* What an honest batch has. *)
LEMMA HonestHas ==
    ASSUME NEW batch, Honest(batch)
    PROVE  /\ Len(batch.truth) \in Nat /\ DOMAIN batch.truth = 1 .. Len(batch.truth)
           /\ batch.size \in Nat \ {0}
           /\ \A i \in 1 .. Len(batch.truth) : batch.truth[i] \in SUBSET Ids
           /\ DOMAIN batch.replies = 1 .. Len(batch.replies)
           /\ \A c \in 1 .. Len(batch.replies) : batch.replies[c] \in Seq(SUBSET Ids)
<1> DEFINE X == SUBSET Ids
           Y == Seq(X)
<1>1. batch.truth \in Seq(X) /\ batch.replies \in Seq(Y) /\ batch.size \in Nat \ {0}
    BY DEF Honest
<1> HIDE DEF X, Y
<1>2. /\ Len(batch.truth) \in Nat /\ DOMAIN batch.truth = 1 .. Len(batch.truth)
      /\ \A i \in 1 .. Len(batch.truth) : batch.truth[i] \in X
    BY <1>1
<1>3. /\ DOMAIN batch.replies = 1 .. Len(batch.replies)
      /\ \A c \in 1 .. Len(batch.replies) : batch.replies[c] \in Y
    BY <1>1
<1> QED BY <1>1, <1>2, <1>3 DEF X, Y

(* Each package is told what OSV says of it, or nothing. *)
LEMMA AnswerTrue ==
    ASSUME NEW batch, Honest(batch), NEW i \in 1 .. Len(batch.truth)
    PROVE  LET reply == batch.replies[(i - 1) \div batch.size + 1]
               place == ((i - 1) % batch.size) + 1
           IN  Answer(batch.size, batch.replies, i) =
                   IF place <= Len(reply) THEN batch.truth[i] ELSE {}
<1> DEFINE c == (i - 1) \div batch.size + 1
           place == ((i - 1) % batch.size) + 1
           reply == batch.replies[c]
<1>1. Len(batch.truth) \in Nat /\ batch.size \in Nat \ {0}
    BY HonestHas
<1>2. /\ c \in 1 .. (Len(batch.truth) + batch.size - 1) \div batch.size
      /\ place \in 1 .. batch.size
      /\ i = (c - 1) * batch.size + place
    BY <1>1, Placed
<1>3. Answer(batch.size, batch.replies, i) = IF place <= Len(reply) THEN reply[place] ELSE {}
    BY DEF Answer
<1>4. Len(batch.replies) = (Len(batch.truth) + batch.size - 1) \div batch.size
    BY DEF Honest
<1> HIDE DEF c, place
<1>5. c \in DOMAIN batch.replies
    BY <1>2, <1>4, HonestHas
<1>6. \A k \in DOMAIN reply :
          (c - 1) * batch.size + k <= Len(batch.truth) /\ k <= batch.size
              => reply[k] = batch.truth[(c - 1) * batch.size + k]
    BY <1>5 DEF Honest
<1>7. reply \in Seq(SUBSET Ids)
    BY <1>5, HonestHas
<1> HIDE DEF reply
<1>8. ASSUME place <= Len(reply) PROVE reply[place] = batch.truth[i]
  <2>1. place \in DOMAIN reply /\ place <= batch.size
      BY <1>1, <1>2, <1>7, <1>8
  <2>2. (c - 1) * batch.size + place <= Len(batch.truth)
    <3>1. i <= Len(batch.truth)
        BY <1>1
    <3> QED BY <1>2, <3>1
  <2> QED BY <1>2, <1>6, <2>1, <2>2
<1> QED BY <1>3, <1>8 DEF reply, c, place

(* What the first packages get. *)
Given(size, replies, n) ==
    [i \in Nat |-> IF i \in 1 .. n THEN Answer(size, replies, i) ELSE {}]

LEMMA GivenType ==
    ASSUME NEW batch, Honest(batch)
    PROVE  Given(batch.size, batch.replies, Len(batch.truth)) \in [Nat -> SUBSET Ids]
<1>1. ASSUME NEW i \in 1 .. Len(batch.truth)
      PROVE  Answer(batch.size, batch.replies, i) \in SUBSET Ids
  <2>1. batch.truth[i] \in SUBSET Ids
      BY HonestHas
  <2>2. Answer(batch.size, batch.replies, i) \in {batch.truth[i], {}}
      BY AnswerTrue
  <2> QED BY <2>1, <2>2
<1> QED BY <1>1 DEF Given

ChunksOf(size, replies, n) ==
    [c \in 1 .. Len(replies) |-> ChunkAnswers(Part(c, size, n), replies[c])]

Joined(size, replies, n) ==
    [c \in 1 .. Len(replies) |-> Firsts(Given(size, replies, n), Whole(c, size, n))]

(* A chunk's answers go where its packages are. *)
LEMMA ChunkPlaced ==
    ASSUME NEW batch, Honest(batch), NEW c \in 1 .. Len(batch.replies)
    PROVE  LET size == batch.size
               n == Len(batch.truth)
               chunk == ChunkAnswers(Part(c, size, n), batch.replies[c])
           IN  /\ Part(c, size, n) \in Nat /\ (c - 1) * size \in Nat
               /\ chunk \in Seq(SUBSET Ids) /\ Len(chunk) = Part(c, size, n)
               /\ Whole(c, size, n) = (c - 1) * size + Part(c, size, n)
               /\ Whole(c - 1, size, n) = (c - 1) * size
               /\ \A r \in 1 .. Part(c, size, n) :
                     chunk[r] = Given(size, batch.replies, n)[(c - 1) * size + r]
<1> DEFINE size == batch.size
           n == Len(batch.truth)
           C == Len(batch.replies)
           chunk == ChunkAnswers(Part(c, size, n), batch.replies[c])
<1>1. n \in Nat /\ size \in Nat \ {0} /\ batch.replies[c] \in Seq(SUBSET Ids)
    BY HonestHas
<1>2. C = (n + size - 1) \div size
    BY DEF Honest
<1> HIDE DEF size, n, C
<1>3. C \in Nat /\ (c - 1) * size \in Nat /\ (c - 1) * size < n /\ c * size = (c - 1) * size + size
    BY <1>1, <1>2, Chunks DEF C
<1>4. PICK z \in Nat : z = (c - 1) * size
    BY <1>3
<1>5. PICK y \in Nat : y = c * size /\ y = z + size
    BY <1>1, <1>3, <1>4
<1>6. Part(c, size, n) = IF y <= n THEN size ELSE n - z
    BY <1>4, <1>5 DEF Part
<1>7. Part(c, size, n) \in Nat /\ Part(c, size, n) <= size
    BY <1>1, <1>3, <1>4, <1>5, <1>6
<1>8. Whole(c, size, n) = z + Part(c, size, n)
  <2>1. Whole(c, size, n) = IF y <= n THEN y ELSE n
      BY <1>5 DEF Whole
  <2> QED BY <1>1, <1>5, <1>6, <2>1
<1>9. Whole(c - 1, size, n) = z
  <2>1. z <= n
      BY <1>1, <1>3, <1>4
  <2> QED BY <1>4, <2>1 DEF Whole
<1>10. /\ chunk \in Seq(SUBSET Ids) /\ Len(chunk) = Part(c, size, n)
       /\ \A r \in 1 .. Part(c, size, n) :
             chunk[r] = IF r <= Len(batch.replies[c]) THEN batch.replies[c][r] ELSE {}
    BY <1>1, <1>7, ChunkType
<1> HIDE DEF chunk
<1>11. ASSUME NEW r \in 1 .. Part(c, size, n)
       PROVE  chunk[r] = Given(size, batch.replies, n)[(c - 1) * size + r]
  <2>1. r \in 1 .. size /\ c \in Nat \ {0}
      BY <1>1, <1>7, <1>3 DEF C
  <2>2. Answer(size, batch.replies, (c - 1) * size + r) = chunk[r]
      BY <1>1, <1>10, <2>1, AnswerIs
  <2>3. z + r \in 1 .. n /\ z + r \in Nat
      BY <1>1, <1>3, <1>4, <1>5, <1>6, <2>1
  <2>4. Given(size, batch.replies, n)[z + r] = Answer(size, batch.replies, z + r)
      BY <2>3 DEF Given
  <2> QED BY <1>4, <2>2, <2>4
<1>12. /\ Whole(c, size, n) = (c - 1) * size + Part(c, size, n)
       /\ Whole(c - 1, size, n) = (c - 1) * size
    BY <1>4, <1>8, <1>9
<1> QED BY <1>3, <1>7, <1>10, <1>11, <1>12 DEF size, n, chunk

LEMMA BatchJoined ==
    ASSUME NEW batch, Honest(batch)
    PROVE  Joins(ChunksOf(batch.size, batch.replies, Len(batch.truth)),
                 Joined(batch.size, batch.replies, Len(batch.truth)))
<1> DEFINE size == batch.size
           n == Len(batch.truth)
           C == Len(batch.replies)
           g == Given(size, batch.replies, n)
           seqs == ChunksOf(size, batch.replies, n)
           h == Joined(size, batch.replies, n)
<1>1. n \in Nat /\ size \in Nat \ {0} /\ C \in Nat
  <2>1. C = (n + size - 1) \div size
      BY DEF Honest
  <2> QED BY <2>1, HonestHas, Chunks
<1>2. Len(seqs) = C
    BY <1>1 DEF ChunksOf
<1>3. g \in [Nat -> SUBSET Ids]
    BY GivenType
<1>4. ASSUME NEW c \in 1 .. C
      PROVE  h[c] = IF c = 1 THEN seqs[c] ELSE h[c - 1] \o seqs[c]
  <2>1. seqs[c] = ChunkAnswers(Part(c, size, n), batch.replies[c])
      BY DEF ChunksOf
  <2>2. h[c] = Firsts(g, Whole(c, size, n))
      BY DEF Joined
  <2>3. /\ Part(c, size, n) \in Nat /\ (c - 1) * size \in Nat
        /\ seqs[c] \in Seq(SUBSET Ids) /\ Len(seqs[c]) = Part(c, size, n)
        /\ Whole(c, size, n) = (c - 1) * size + Part(c, size, n)
        /\ Whole(c - 1, size, n) = (c - 1) * size
        /\ \A r \in 1 .. Part(c, size, n) : seqs[c][r] = g[(c - 1) * size + r]
      BY <2>1, ChunkPlaced
  <2> DEFINE a == (c - 1) * size
             part == Part(c, size, n)
             t == seqs[c]
  <2> HIDE DEF a, part, t, g, seqs, h, size, n
  <2>4. a \in Nat /\ part \in Nat /\ t \in Seq(SUBSET Ids) /\ Len(t) = part
        /\ \A r \in 1 .. part : t[r] = g[a + r]
      BY <2>3 DEF a, part, t
  <2>5. Firsts(g, a) \o t = Firsts(g, a + part)
      BY <1>3, <2>4, FirstsMore
  <2>6. h[c] = Firsts(g, a + part)
      BY <2>2, <2>3 DEF a, part
  <2>7. CASE c = 1
    <3>1. a = 0
        BY <1>1, <2>7 DEF a
    <3>2. a + part = part
        BY <2>4, <3>1
    <3>3. h[c] \in Seq(SUBSET Ids) /\ Len(h[c]) = part /\ \A r \in 1 .. part : h[c][r] = g[r]
      <4>1. h[c] = Firsts(g, part)
          BY <2>6, <3>2
      <4>2. /\ Firsts(g, part) \in Seq(SUBSET Ids) /\ Len(Firsts(g, part)) = part
            /\ \A r \in 1 .. part : Firsts(g, part)[r] = g[r]
          BY <1>3, <2>4, FirstsType
      <4> QED BY <4>1, <4>2
    <3>4. \A r \in 1 .. part : h[c][r] = t[r]
        BY <2>4, <3>1, <3>3
    <3>5. h[c] = t
        BY <2>4, <3>3, <3>4, SameSeq
    <3> QED BY <2>7, <3>5 DEF t
  <2>8. CASE c # 1
    <3>1. c - 1 \in 1 .. C
        BY <1>1, <2>8
    <3>2. h[c - 1] = Firsts(g, Whole(c - 1, size, n))
        BY <3>1 DEF h, Joined, g, size, n
    <3>3. h[c - 1] = Firsts(g, a)
        BY <2>3, <3>2 DEF a
    <3> QED BY <2>5, <2>6, <2>8, <3>3 DEF t
  <2> QED BY <2>7, <2>8
<1>5. h = [c \in 1 .. C |-> h[c]]
    BY DEF Joined
<1> HIDE DEF h, seqs, g
<1>6. [c \in 1 .. C |-> h[c]] = [c \in 1 .. C |-> IF c = 1 THEN seqs[c] ELSE h[c - 1] \o seqs[c]]
    BY <1>4
<1>7. h = [c \in 1 .. Len(seqs) |-> IF c = 1 THEN seqs[c] ELSE h[c - 1] \o seqs[c]]
    BY <1>2, <1>5, <1>6
<1> QED BY <1>7 DEF Joins, h, seqs

(* Whatever the replies, no package is told what OSV says of another. *)
LEMMA BatchTrue ==
    ASSUME NEW batch, Honest(batch)
    PROVE  AnswersAligned(batch)
<1> DEFINE size == batch.size
           n == Len(batch.truth)
           C == Len(batch.replies)
           g == Given(size, batch.replies, n)
           seqs == ChunksOf(size, batch.replies, n)
           answers == QueryBatch(n, size, batch.replies)
<1>1. n \in Nat /\ size \in Nat \ {0} /\ DOMAIN batch.truth = 1 .. n
    BY HonestHas
<1>2. C = (n + size - 1) \div size
    BY DEF Honest
<1>3. C \in Nat /\ n <= C * size /\ C * size \in Nat /\ (n = 0 => C = 0)
    BY <1>1, <1>2, Chunks
<1>4. answers = FlattenSeq(seqs)
    BY DEF QueryBatch, ChunksOf, Part
<1>5. Len(seqs) = C
    BY <1>3 DEF ChunksOf
<1>6. Joins(seqs, Joined(size, batch.replies, n))
    BY BatchJoined
<1>7. /\ Len(answers) = n
      /\ \A i \in 1 .. n : answers[i] = Answer(size, batch.replies, i)
  <2>1. CASE C = 0
    <3>1. n = 0
        BY <1>1, <1>3, <2>1
    <3>2. answers = seqs
        BY <1>4, <1>5, <2>1 DEF FlattenSeq
    <3> QED BY <1>5, <2>1, <3>1, <3>2
  <2>2. CASE C # 0
    <3>1. answers = Joined(size, batch.replies, n)[C]
        BY <1>3, <1>4, <1>5, <1>6, <2>2, FlattenIs
    <3>2. C \in 1 .. C
        BY <1>3, <2>2
    <3>3. answers = Firsts(g, Whole(C, size, n))
        BY <3>1, <3>2 DEF Joined
    <3>4. Whole(C, size, n) = n
      <4>1. PICK p \in Nat : p = C * size
          BY <1>3
      <4>2. Whole(C, size, n) = IF p <= n THEN p ELSE n
          BY <4>1 DEF Whole
      <4>3. n <= p /\ n \in Nat
          BY <1>1, <1>3, <4>1
      <4> HIDE DEF C, size, n
      <4> QED BY <4>2, <4>3
    <3>5. g \in [Nat -> SUBSET Ids]
        BY GivenType
    <3>6. Len(answers) = n /\ \A i \in 1 .. n : answers[i] = g[i]
      <4> HIDE DEF answers, g, n, size, C
      <4>1. answers = Firsts(g, n) /\ n \in Nat
          BY <1>1, <3>3, <3>4
      <4>2. Len(Firsts(g, n)) = n /\ \A i \in 1 .. n : Firsts(g, n)[i] = g[i]
          BY <3>5, <4>1, FirstsType
      <4> QED BY <4>1, <4>2
    <3>7. \A i \in 1 .. n : g[i] = Answer(size, batch.replies, i)
        BY <1>1 DEF Given
    <3> QED BY <3>6, <3>7
  <2> QED BY <2>1, <2>2
<1> HIDE DEF answers
<1>8. \A i \in 1 .. n : LET reply == batch.replies[(i - 1) \div size + 1]
                            place == ((i - 1) % size) + 1
                        IN  answers[i] = IF place <= Len(reply) THEN batch.truth[i] ELSE {}
    BY <1>7, AnswerTrue
<1> QED BY <1>1, <1>7, <1>8 DEF AnswersAligned, answers

-----------------------------------------------------------------------------
(* No SRI string that names an algorithm is the empty one. *)
LEMMA EmptyIsNoSRI == EmptySRI \notin SRI
BY DEF EmptySRI, SRI, Algorithms

(* The empty string vouches for nothing. *)
LEMMA EmptyRefuses == \A t : ~ VerifySri(EmptySRI, t)
BY DEF VerifySri, EmptySRI

(* The hooks that the lock keeps are those that the scan reads. *)
LEMMA HooksKept ==
    ASSUME NEW scripts, NEW h \in {"preinstall", "install", "postinstall"}
    PROVE  /\ h \in DOMAIN Only(scripts, LockedScripts) <=> h \in DOMAIN scripts
           /\ h \in DOMAIN scripts => Only(scripts, LockedScripts)[h] = scripts[h]
BY DEF Only, LockedScripts

LEMMA ScanKept ==
    ASSUME NEW scripts
    PROVE  /\ Scan(Only(scripts, LockedScripts)) = Scan(scripts)
           /\ LifecycleHooks(Only(scripts, LockedScripts)) = LifecycleHooks(scripts)
<1> DEFINE kept == Only(scripts, LockedScripts)
           found(s, h) ==
               s[h].needles \cup (IF s[h].escapes >= HexEscapeThreshold THEN {"escapes"} ELSE {})
           findings(s, h) ==
               {[script |-> h, pattern |-> n,
                 severity |-> IF n \in WarnNeedles THEN "warn" ELSE "block"] : n \in found(s, h)}
<1>1. LifecycleHooks(kept) = LifecycleHooks(scripts)
    BY HooksKept DEF LifecycleHooks
<1>2. ScannedScripts \cap DOMAIN kept = ScannedScripts \cap DOMAIN scripts
    BY HooksKept DEF ScannedScripts
<1>3. \A h \in ScannedScripts \cap DOMAIN scripts : findings(kept, h) = findings(scripts, h)
    BY HooksKept DEF ScannedScripts
<1> HIDE DEF kept
<1>4. Scan(kept) = UNION {findings(kept, h) : h \in ScannedScripts \cap DOMAIN kept}
    BY DEF Scan
<1>5. Scan(scripts) = UNION {findings(scripts, h) : h \in ScannedScripts \cap DOMAIN scripts}
    BY DEF Scan
<1> HIDE DEF findings
<1>6. Scan(kept) = Scan(scripts)
    BY <1>2, <1>3, <1>4, <1>5
<1> QED BY <1>1, <1>6 DEF kept

(* An install from vault.lock finds in a package's scripts what the install that
   wrote the lock found, and accepts the same tarballs for it (lockfile.rs,
   from_resolution and to_resolution), but for an SRI string that is empty. *)
LEMMA LockKeepsEvery ==
    ASSUME NEW meta, meta.dist \in Dists
    PROVE  LockKeepsVerdict(meta)
<1> DEFINE dist == meta.dist
           scripts == meta.scripts
           again == Unlocked(Locked(meta))
<1>1. again.scripts = Only(scripts, LockedScripts)
    BY DEF Unlocked, Locked
<1>2. again.dist.shasum = dist.shasum
    BY DEF Unlocked, Locked
<1>3. again.dist.integrity = IF dist.integrity = {EmptySRI} THEN {} ELSE dist.integrity
  <2>1. CASE dist.integrity = {}
      BY <2>1 DEF Unlocked, Locked
  <2>2. CASE dist.integrity = {EmptySRI}
    <3>1. (CHOOSE sri \in {EmptySRI} : TRUE) = EmptySRI
        OBVIOUS
    <3> QED BY <2>2, <3>1 DEF Unlocked, Locked
  <2>3. ASSUME NEW s \in SRI, dist.integrity = {s}
        PROVE  again.dist.integrity = dist.integrity /\ dist.integrity # {EmptySRI}
    <3>1. (CHOOSE sri \in {s} : TRUE) = s
        OBVIOUS
    <3>2. s # EmptySRI
        BY EmptyIsNoSRI
    <3>3. Locked(meta).integrity = s
        BY <2>3, <3>1 DEF Locked
    <3> QED BY <2>3, <3>2, <3>3 DEF Unlocked
  <2> QED BY <2>1, <2>2, <2>3 DEF Dists
<1>4. ASSUME NEW t \in Tarballs
      PROVE  \/ VerifyPrecomputed(again.dist, t) <=> VerifyPrecomputed(dist, t)
             \/ dist.integrity = {EmptySRI} /\ t \in dist.shasum
  <2> HIDE DEF again
  <2>1. CASE dist.integrity = {EmptySRI}
      BY <1>2, <1>3, <2>1, EmptyRefuses DEF VerifyPrecomputed
  <2>2. CASE dist.integrity # {EmptySRI}
      BY <1>2, <1>3, <2>2 DEF VerifyPrecomputed
  <2> QED BY <2>1, <2>2
<1> HIDE DEF again
<1>5. /\ Scan(again.scripts) = Scan(meta.scripts)
      /\ LifecycleHooks(again.scripts) = LifecycleHooks(meta.scripts)
    BY <1>1, ScanKept
<1> QED BY <1>4, <1>5 DEF LockKeepsVerdict, again

-----------------------------------------------------------------------------
(* The audit's state is well formed; what is still to be filed belongs to an audit
   that is filing. *)
THEOREM TypeCorrect == Spec => []TypeOK
<1>1. Inv => TypeOK
    BY DEF Inv
<1> QED BY <1>1, Always, PTL

(* No install passes the gate of lib.rs with a package that has been critical for
   longer than the cache's horizon, unless a request for its verdict failed. *)
THEOREM GateSafe == Spec => GateFresh
<1>1. Inv /\ [Next]_vars =>
         [\A k \in Procs : phase[k] = "auditing" /\ phase'[k] = "passed" =>
             \A p \in Wants[k] : AbortOnCritical => LatelyNot(p) \/ p \in blind[k]]_vars
    BY PassStep
<1> QED BY <1>1, Always, PTL DEF GateFresh, Spec

(* No install is blocked but over a script the scan blocks or a package that has been
   critical within the cache's horizon. *)
THEOREM BlockedSafe == Spec => BlockedForCause
<1>1. Inv /\ [Next]_vars =>
         [\A k \in Procs : phase[k] = "auditing" /\ phase'[k] = "blocked" =>
             \E p \in Wants[k] :
                \/ p \in Malicious
                \/ AbortOnCritical /\ LatelyCritical(p)]_vars
    BY BlockStep
<1> QED BY <1>1, Always, PTL DEF BlockedForCause, Spec

(* Whatever the advisory, if none of its lines ends inside another, the fix that
   recommended_fix (osv.rs) finds for a version is the next version that the advisory
   does not affect. *)
THEOREM FixSafe == Spec => []FixHeals
<1>1. FixHeals
  <2>1. \A ranges \in Advisories, current \in Versions : FixIsNearest(ranges, current)
      BY OsvAssumption, NearestFix
  <2> QED BY <2>1 DEF FixHeals
<1> QED BY <1>1, PTL

(* Whatever the advisories that block a package, the upgrade that the gate's message
   names (mod.rs) clears those of one line, and no lower one clears them all. *)
THEOREM HintSafe == Spec => []HintClears
<1>1. HintClears
  <2>1. ASSUME NEW advisories \in Blocking, NEW current \in Versions
        PROVE  HintIsLowest(advisories, current)
    <3>1. \A ranges \in advisories : \A range \in ranges : Sorted(range)
        BY OsvAssumption
    <3> QED BY <3>1, LowestHint
  <2> QED BY <2>1 DEF HintClears
<1> QED BY <1>1, PTL

(* Whatever the number of packages, the size of chunks and the length of replies,
   query_batch (osv.rs) gives each package what OSV says of it, or nothing. *)
THEOREM BatchSafe == Spec => []BatchAligned
<1>1. BatchAligned
  <2>1. \A batch \in Batches : AnswersAligned(batch)
      BY OsvAssumption, BatchTrue
  <2> QED BY <2>1 DEF BatchAligned
<1> QED BY <1>1, PTL

(* Whatever a package's metadata, an install from vault.lock finds in its scripts and
   accepts for its tarball what the install that wrote the lock did, but for an SRI
   string that is empty (lockfile.rs). *)
THEOREM LockSafe == Spec => []LockKeeps
<1>1. LockKeeps
  <2>1. \A meta \in Metas : LockKeepsVerdict(meta)
      BY LockfileAssumption, LockKeepsEvery
  <2> QED BY <2>1 DEF LockKeeps
<1> QED BY <1>1, PTL
=============================================================================
