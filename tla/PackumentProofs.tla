-------------------------- MODULE PackumentProofs --------------------------
(***************************************************************************)
(* Proofs about PackumentCache for any number of processes, callers,        *)
(* versions, attempts and restarts.                                         *)
(***************************************************************************)
EXTENDS PackumentCache, TLAPS

USE CacheAssumption DEF Absent, Torn, Versions, OnDisk

LEMMA InitType == Init => TypeOK
<1> SUFFICES ASSUME Init PROVE TypeOK
    OBVIOUS
<1>1. version \in Versions /\ body \in OnDisk /\ etag \in OnDisk
    BY DEF Init
<1>2. /\ pc \in [Procs -> FetchStates]
      /\ holder \in [Procs -> {{}} \cup {{c} : c \in Callers}]
      /\ cond \in [Procs -> OnDisk]
      /\ attempt \in [Procs -> 0 .. MaxAttempts]
    BY DEF Init, FetchStates
<1>3. /\ value \in [Procs -> {Absent} \cup Versions]
      /\ cell \in [Procs -> {Absent} \cup Versions]
      /\ caller \in [Procs -> [Callers -> {"idle", "waiting", "served", "failed"}]]
      /\ floor \in [Procs -> {Absent} \cup Versions]
    BY DEF Init
<1>4. runs \in 0 .. MaxRuns
    BY DEF Init
<1>5. overlap \in BOOLEAN
    BY DEF Init
<1> QED
    BY <1>1, <1>2, <1>3, <1>4, <1>5 DEF TypeOK

LEMMA NextType == TypeOK /\ [Next]_vars => TypeOK'
<1> SUFFICES ASSUME TypeOK, [Next]_vars PROVE TypeOK'
    OBVIOUS
<1> USE DEF TypeOK, FetchStates, Goto, disk
<1>1. CASE Publish
    BY <1>1 DEF Publish
<1>2. CASE UNCHANGED vars
    BY <1>2 DEF vars
<1>3. ASSUME NEW k \in Procs, ProcNext(k) PROVE TypeOK'
    <2>1. ASSUME NEW c \in Callers, Ask(k, c) PROVE TypeOK'
        BY <2>1 DEF Ask
    <2>2. ASSUME NEW c \in Callers, Fetch(k, c) PROVE TypeOK'
        <3>1. CondOnDisk \in OnDisk
            BY DEF CondOnDisk
        <3> QED
            BY <2>2, <3>1 DEF Fetch
    <2>3. CASE NotModified(k)
        BY <2>3 DEF NotModified, Answered
    <2>4. CASE Received(k)
        BY <2>4 DEF Received, Answered
    <2>5. CASE Retry(k)
        BY <2>5 DEF Retry
    <2>6. CASE Fail(k)
        BY <2>6 DEF Fail, Settle, FailedCallers
    <2>7. CASE ReadBody(k)
        <3>3. /\ pc[k] = "validated"
              /\ UNCHANGED <<version, body, etag, holder, cond, cell, caller, floor, runs,
                             overlap>>
            BY <2>7 DEF ReadBody
        <3>1. CASE body \in Versions
            <4>1. /\ value' = [value EXCEPT ![k] = body]
                  /\ pc' = [pc EXCEPT ![k] = "ready"]
                  /\ UNCHANGED attempt
                BY <2>7, <3>1 DEF ReadBody
            <4> QED
                BY <3>1, <3>3, <4>1
        <3>2. CASE body \notin Versions
            <4>1. /\ attempt' = [attempt EXCEPT ![k] = 1]
                  /\ pc' = [pc EXCEPT ![k] = "asking"]
                  /\ UNCHANGED value
                BY <2>7, <3>2 DEF ReadBody
            <4> QED
                BY <3>3, <4>1
        <3> QED
            BY <3>1, <3>2
    <2>8. CASE OpenBody(k) \/ OpenEtag(k) \/ SkipWrite(k)
        BY <2>8 DEF OpenBody, OpenEtag, SkipWrite
    <2>9. CASE CloseBody(k) \/ CloseEtag(k)
        <3>1. value[k] \in OnDisk
            OBVIOUS
        <3> QED
            BY <2>9, <3>1 DEF CloseBody, CloseEtag
    <2>10. CASE Fill(k)
        BY <2>10 DEF Fill, Settle
    <2>11. CASE Restart(k)
        BY <2>11 DEF Restart, Settle
    <2> QED
        BY <1>3, <2>1, <2>2, <2>3, <2>4, <2>5, <2>6, <2>7, <2>8, <2>9, <2>10, <2>11
           DEF ProcNext, Proceed
<1> QED
    BY <1>1, <1>2, <1>3 DEF Next

LEMMA NextNotAhead == TypeOK /\ NotAhead /\ [Next]_vars => NotAhead'
<1> SUFFICES ASSUME TypeOK, NotAhead, [Next]_vars PROVE NotAhead'
    OBVIOUS
<1> USE DEF TypeOK, NotAhead, disk
<1>1. CASE Publish \/ UNCHANGED vars
    BY <1>1 DEF Publish, vars
<1>2. ASSUME NEW k \in Procs, ProcNext(k) PROVE NotAhead'
    <2>1. ASSUME NEW c \in Callers, Ask(k, c) \/ Fetch(k, c) PROVE NotAhead'
        BY <2>1 DEF Ask, Fetch
    <2>2. CASE NotModified(k) \/ Received(k) \/ Retry(k)
        BY <2>2 DEF NotModified, Received, Retry
    <2>5. CASE ReadBody(k)
        <3>1. CASE body \in Versions
            BY <2>5, <3>1 DEF ReadBody
        <3>2. CASE body \notin Versions
            BY <2>5, <3>2 DEF ReadBody
        <3> QED
            BY <3>1, <3>2
    <2>3. CASE OpenBody(k) \/ OpenEtag(k) \/ SkipWrite(k) \/ CloseBody(k) \/ CloseEtag(k)
        BY <2>3 DEF OpenBody, OpenEtag, SkipWrite, CloseBody, CloseEtag
    <2>4. CASE Fail(k) \/ Fill(k) \/ Restart(k)
        BY <2>4 DEF Fail, Fill, Restart, Settle
    <2> QED
        BY <1>2, <2>1, <2>2, <2>3, <2>4, <2>5 DEF ProcNext, Proceed
<1> QED
    BY <1>1, <1>2 DEF Next

(* A process that is by itself keeps what it knows true at each of its steps,
   and the disk in order for the next one. *)
LEMMA NextAlone == TypeOK /\ NotAhead /\ AloneInv /\ [Next]_vars => AloneInv'
<1> SUFFICES ASSUME TypeOK, NotAhead, AloneInv, [Next]_vars, ~ overlap'
             PROVE  (Alone /\ TagNotAhead /\ Fresh /\ \A k \in Procs : Knows(k))'
    BY DEF AloneInv
<1> USE DEF TypeOK, NotAhead, FetchStates, Alone, Fresh, TagNotAhead, Knows, Goto, disk,
            CondOnDisk
<1>1. ~ overlap
    BY DEF Next, ProcNext, Proceed, Publish, Ask, Fetch, NotModified, Received, Retry,
           Fail, ReadBody, OpenBody, CloseBody, OpenEtag, CloseEtag, SkipWrite, Fill,
           Restart, vars
<1>2. Alone /\ TagNotAhead /\ Fresh /\ \A k \in Procs : Knows(k)
    BY <1>1 DEF AloneInv
<1>3. CASE Publish \/ UNCHANGED vars
    BY <1>2, <1>3 DEF Publish, vars
<1>4. ASSUME NEW k \in Procs, ProcNext(k)
      PROVE  (Alone /\ TagNotAhead /\ Fresh /\ \A j \in Procs : Knows(j))'
    <2>1. ASSUME NEW c \in Callers, Ask(k, c)
          PROVE  (Alone /\ TagNotAhead /\ Fresh /\ \A j \in Procs : Knows(j))'
        BY <1>2, <2>1 DEF Ask
    <2>2. ASSUME NEW c \in Callers, Fetch(k, c)
          PROVE  (Alone /\ TagNotAhead /\ Fresh /\ \A j \in Procs : Knows(j))'
        BY <1>2, <2>2, ZenonT(60) DEF Fetch
    <2>3. CASE NotModified(k)
        BY <1>2, <2>3 DEF NotModified, Answered
    <2>4. CASE Received(k)
        BY <1>2, <2>4 DEF Received, Answered
    <2>5. CASE Retry(k)
        BY <1>2, <2>5 DEF Retry
    <2>6. CASE Fail(k)
        BY <1>2, <2>6 DEF Fail, Settle
    <2>7. CASE ReadBody(k)
        <3>3. /\ pc[k] = "validated"
              /\ UNCHANGED <<version, body, etag, holder, cond, cell, caller, floor, runs,
                             overlap>>
            BY <2>7 DEF ReadBody
        <3>1. CASE body \in Versions
            <4>1. /\ value' = [value EXCEPT ![k] = body]
                  /\ pc' = [pc EXCEPT ![k] = "ready"]
                  /\ UNCHANGED attempt
                BY <2>7, <3>1 DEF ReadBody
            <4> QED
                BY <1>2, <3>1, <3>3, <4>1
        <3>2. CASE body \notin Versions
            <4>1. /\ attempt' = [attempt EXCEPT ![k] = 1]
                  /\ pc' = [pc EXCEPT ![k] = "asking"]
                  /\ UNCHANGED value
                BY <2>7, <3>2 DEF ReadBody
            <4> QED
                BY <1>2, <3>3, <4>1
        <3> QED
            BY <3>1, <3>2
    <2>8. CASE OpenBody(k)
        BY <1>2, <2>8 DEF OpenBody
    <2>9. CASE CloseBody(k)
        BY <1>2, <2>9 DEF CloseBody
    <2>10. CASE OpenEtag(k)
        BY <1>2, <2>10 DEF OpenEtag
    <2>11. CASE CloseEtag(k)
        BY <1>2, <2>11 DEF CloseEtag
    <2>12. CASE SkipWrite(k)
        BY <1>2, <2>12 DEF SkipWrite
    <2>13. CASE Fill(k)
        BY <1>2, <2>13 DEF Fill, Settle
    <2>14. CASE Restart(k)
        BY <1>2, <2>14 DEF Restart, Settle
    <2> QED
        BY <1>4, <2>1, <2>2, <2>3, <2>4, <2>5, <2>6, <2>7, <2>8, <2>9, <2>10, <2>11,
           <2>12, <2>13, <2>14 DEF ProcNext, Proceed
<1> QED
    BY <1>3, <1>4 DEF Next

LEMMA CacheInvariant == Spec => [](TypeOK /\ NotAhead /\ AloneInv)
<1>1. Init => NotAhead /\ AloneInv
    BY DEF Init, NotAhead, AloneInv, Alone, TagNotAhead, Fresh, Knows
<1> QED
    BY <1>1, InitType, NextType, NextNotAhead, NextAlone, PTL DEF Spec

(* What a process is doing and holds in memory, and what is on disk, keeps its
   type through crashes, retries and writes that tear: above all, no fetch is
   attempted more often than MAX_ATTEMPTS. *)
THEOREM TypeCorrect == Spec => []TypeOK
BY CacheInvariant, PTL

(* Processes that never fetch at the same time are never served a packument
   older than the registry's was when they asked for it, whatever crashes and
   failed writes the cache files have been through. *)
THEOREM FreshSafe == Spec => []FreshAlone
<1>1. AloneInv => FreshAlone
    BY DEF AloneInv, FreshAlone
<1> QED
    BY <1>1, CacheInvariant, PTL

(* Under the same condition the ETag on disk never names a newer version than
   the body beside it. *)
THEOREM TagSafe == Spec => []TagNotAhead
<1>1. AloneInv => TagNotAhead
    BY DEF AloneInv, TagNotAhead
<1> QED
    BY <1>1, CacheInvariant, PTL
=============================================================================
