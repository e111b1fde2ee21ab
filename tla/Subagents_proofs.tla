--------------------------- MODULE Subagents_proofs ---------------------------
(***************************************************************************)
(* What holds of the subagents of a parent for any number of them: types,  *)
(* that a cancel that comes before the claim is final, and that a record   *)
(* that is not final has someone who will finish it.                       *)
(***************************************************************************)
EXTENDS Subagents, TLAPS

Polls == [at : {"idle", "loaded", "read"}, seen : Rows, got : Records]
Bounds == [crashes : 0 .. MaxCrashes, expiries : 0 .. MaxExpiries]

LEMMA PollMoves ==
  /\ NoPoll \in Polls
  /\ \A s \in Rows : [NoPoll EXCEPT !.at = "loaded", !.seen = s] \in Polls
  /\ \A p \in Polls, r \in Records : [p EXCEPT !.at = "read", !.got = r] \in Polls
BY DEF NoPoll, Polls, Rows, Records

LEMMA SpentMoves ==
  ASSUME spent \in Bounds
  PROVE  /\ spent.crashes < MaxCrashes => [spent EXCEPT !.crashes = @ + 1] \in Bounds
         /\ spent.expiries < MaxExpiries => [spent EXCEPT !.expiries = @ + 1] \in Bounds
BY SubagentAssumption DEF SubagentAssumption, Bounds

LEMMA StatusType == \A r \in Records : StatusOf(r) \in Rows
BY DEF Records, StatusOf, Rows

\* A commit writes the status to the row of the one subagent, or nothing.
LEMMA RowType ==
  ASSUME TypeOK, NEW t \in Subs, NEW s \in Rows, NEW seen, CommitRow(t, s, seen)
  PROVE  row' \in [Subs -> Rows \cup {"none"}]
BY DEF TypeOK, CommitRow

\* A worker that fails lets the execution go or saves its failure.
LEMMA WorkerFailsMoves ==
  ASSUME NEW t \in Subs, WorkerFails(t)
  PROVE  \E e \in {"dead", "done", "failed"}, r \in Records :
           /\ exec' = [exec EXCEPT ![t] = e]
           /\ record' = record \/ record' = [record EXCEPT ![t] = r]
<1>1. CASE exec' = [exec EXCEPT ![t] = "dead"] /\ UNCHANGED record
  BY <1>1 DEF Records
<1>2. CASE exec' = [exec EXCEPT ![t] = "dead"] /\ record' = [record EXCEPT ![t] = "running"]
  BY <1>2 DEF Records
<1>3. CASE /\ exec' = [exec EXCEPT ![t] = IF record[t] = "absent" THEN "done" ELSE "failed"]
           /\ UNCHANGED record
  <2> DEFINE e == IF record[t] = "absent" THEN "done" ELSE "failed"
  <2>1. e \in {"dead", "done", "failed"} /\ exec' = [exec EXCEPT ![t] = e]
    BY <1>3
  <2>2. "running" \in Records
    BY DEF Records
  <2> HIDE DEF e
  <2> QED
    BY <1>3, <2>1, <2>2
<1>4. CASE exec' = [exec EXCEPT ![t] = "failed"] /\ record' = [record EXCEPT ![t] = "completed"]
  BY <1>4 DEF Records
<1> QED
  BY <1>1, <1>2, <1>3, <1>4 DEF WorkerFails

\* Every step keeps the types: one step of the proof per group of actions of one process.
LEMMA TypeStep == TypeOK /\ [Next]_vars => TypeOK'
<1> SUFFICES ASSUME TypeOK, [Next]_vars PROVE TypeOK'
  OBVIOUS
<1>0. poll \in [Subs -> Polls] /\ spent \in Bounds
  BY DEF TypeOK, Polls, Bounds
<1>1. ASSUME NEW t \in Subs, CountRows(t) \/ Enqueue(t) \/ InsertRow(t) PROVE TypeOK'
  <2>1. CASE CountRows(t)
    <3>1. spawn' = [spawn EXCEPT ![t] = "refused"] \/ spawn' = [spawn EXCEPT ![t] = "counted"]
      BY <2>1 DEF CountRows
    <3> QED
      BY <2>1, <3>1 DEF CountRows, TypeOK, redis
  <2>2. CASE Enqueue(t)
    BY <2>2 DEF Enqueue, TypeOK, Records
  <2>3. CASE InsertRow(t)
    <3>1. spawn' = [spawn EXCEPT ![t] = "waiting"] \/ spawn' = [spawn EXCEPT ![t] = "done"]
      BY <2>3 DEF InsertRow
    <3>2. row' = [row EXCEPT ![t] = "running"] \/ row' = [row EXCEPT ![t] = "spawned"]
      BY <2>3 DEF InsertRow
    <3> QED
      BY <2>3, <3>1, <3>2 DEF InsertRow, TypeOK, Rows, redis
  <2> QED
    BY <1>1, <2>1, <2>2, <2>3
<1>2. ASSUME NEW t \in Subs, Answer(t) PROVE TypeOK'
  <2>1. row' \in [Subs -> Rows \cup {"none"}]
    <3>1. CASE record[t] = "absent"
      BY <1>2, <3>1 DEF Answer, TypeOK
    <3>2. CASE record[t] # "absent"
      <4>1. StatusOf(record[t]) \in Rows
        BY <3>2, StatusType DEF TypeOK
      <4> QED
        BY <1>2, <3>2, <4>1, RowType DEF Answer
    <3> QED
      BY <3>1, <3>2
  <2> QED
    BY <1>2, <2>1 DEF Answer, TypeOK, redis
<1>3. ASSUME NEW t \in Subs, CrashApi(t) PROVE TypeOK'
  <2>1. spent' \in Bounds
    BY <1>0, <1>3, SpentMoves DEF CrashApi
  <2> QED
    BY <1>3, <2>1 DEF CrashApi, TypeOK, redis, Bounds
<1>4. ASSUME NEW t \in Subs, PollNext(t) PROVE TypeOK'
  <2>1. CASE LoadRow(t)
    <3>1. row[t] \in Rows
      BY <2>1 DEF LoadRow, TypeOK
    <3>2. poll' \in [Subs -> Polls]
      <4>1. \E p \in Polls : poll' = [poll EXCEPT ![t] = p]
        BY <2>1, <3>1, PollMoves DEF LoadRow
      <4> QED
        BY <1>0, <4>1
    <3> QED
      BY <2>1, <3>2 DEF LoadRow, TypeOK, redis, Polls
  <2>2. CASE ReadRecord(t)
    <3>1. poll' \in [Subs -> Polls]
      <4>1. poll[t] \in Polls /\ (record[t] # "absent" => record[t] \in Records)
        BY <1>0 DEF TypeOK
      <4>2. \E p \in Polls : poll' = [poll EXCEPT ![t] = p]
        BY <2>2, <4>1, PollMoves DEF ReadRecord
      <4> QED
        BY <1>0, <4>2
    <3> QED
      BY <2>2, <3>1 DEF ReadRecord, TypeOK, redis, Polls
  <2>3. CASE SyncRow(t)
    <3>1. poll' \in [Subs -> Polls]
      BY <1>0, <2>3, PollMoves DEF SyncRow
    <3>2. StatusOf(poll[t].got) \in Rows
      BY <1>0, StatusType DEF Polls
    <3>3. row' \in [Subs -> Rows \cup {"none"}]
      BY <2>3, <3>2, RowType DEF SyncRow
    <3> QED
      BY <2>3, <3>1, <3>3 DEF SyncRow, TypeOK, redis, Polls
  <2> QED
    BY <1>4, <2>1, <2>2, <2>3 DEF PollNext
<1>5. ASSUME NEW t \in Subs, CancelLoad(t) \/ CancelNext(t) PROVE TypeOK'
  <2>1. CASE CancelLoad(t)
    BY <2>1 DEF CancelLoad, TypeOK, redis
  <2>5. CASE CancelRead(t)
    <3>1. cancel' = [cancel EXCEPT ![t] = "read"] \/ cancel' = [cancel EXCEPT ![t] = "written"]
      BY <2>5 DEF CancelRead
    <3> QED
      BY <2>5, <3>1 DEF CancelRead, TypeOK, redis
  <2>4. CASE CancelCommit(t)
    BY <2>4 DEF CancelCommit, TypeOK, Rows, redis
  <2>2. CASE CancelRemove(t)
    <3>1. won \in [Subs -> BOOLEAN]
      BY DEF TypeOK
    <3>2. won' = [won EXCEPT ![t] = t \in pending]
      BY <2>2 DEF CancelRemove
    <3> HIDE DEF TypeOK
    <3>3. won' \in [Subs -> BOOLEAN]
      BY <3>1, <3>2, SMT
    <3> QED
      BY <2>2, <3>3 DEF CancelRemove, TypeOK
  <2>6. CASE CancelUnlist(t)
    BY <2>6 DEF CancelUnlist, TypeOK
  <2>3. CASE CancelRecord(t)
    BY <2>3 DEF CancelRecord, TypeOK, Records
  <2> QED
    BY <1>5, <2>1, <2>2, <2>3, <2>4, <2>5, <2>6 DEF CancelNext
<1>6. ASSUME NEW t \in Subs, WorkerNext(t) PROVE TypeOK'
  <2>1. CASE Peek(t)
    BY <2>1 DEF Peek, TypeOK, redis
  <2>4. CASE Claim(t)
    <3>1. exec' = [exec EXCEPT ![t] = "claimed"] \/ exec' = [exec EXCEPT ![t] = "none"]
      BY <2>4 DEF Claim
    <3> QED
      BY <2>4, <3>1 DEF Claim, TypeOK
  <2>5. CASE ListActive(t)
    BY <2>5 DEF ListActive, TypeOK
  <2>2. CASE Start(t)
    <3>1. CASE record[t] = "absent"
      BY <2>2, <3>1 DEF Start, TypeOK
    <3>2. CASE record[t] # "absent"
      <4>1. /\ exec' = [exec EXCEPT ![t] = "running"]
            /\ record' = [record EXCEPT ![t] = "running"]
            /\ UNCHANGED <<blocking, spawn, row, pending, active, cancel, won, poll, spent>>
        BY <2>2, <3>2 DEF Start
      <4>2. record' \in [Subs -> Records \cup {"absent"}]
        BY <4>1 DEF TypeOK, Records
      <4> QED
        BY <4>1, <4>2 DEF TypeOK
    <3> QED
      BY <3>1, <3>2
  <2>6. CASE Finish(t)
    <3>1. PICK out \in {"completed", "failed"} :
            exec' = [exec EXCEPT ![t] = IF record[t] = "absent" THEN "done" ELSE out]
      BY <2>6 DEF Finish
    <3> DEFINE end == IF record[t] = "absent" THEN "done" ELSE out
    <3>2. end \in {"done", "completed", "failed"}
      OBVIOUS
    <3>3. exec' = [exec EXCEPT ![t] = end]
      BY <3>1
    <3> HIDE DEF end
    <3> QED
      BY <2>6, <3>2, <3>3 DEF Finish, TypeOK, redis
  <2>3. CASE Unlist(t)
    <3>1. \/ exec' = [exec EXCEPT ![t] = "unlisted completed"]
          \/ exec' = [exec EXCEPT ![t] = "unlisted failed"]
      BY <2>3 DEF Unlist
    <3> QED
      BY <2>3, <3>1 DEF Unlist, TypeOK
  <2>7. CASE Settle(t)
    <3>1. \/ record' = [record EXCEPT ![t] = "completed"]
          \/ record' = [record EXCEPT ![t] = "failed"]
      BY <2>7 DEF Settle
    <3> QED
      BY <2>7, <3>1 DEF Settle, TypeOK, Records
  <2> QED
    BY <1>6, <2>1, <2>2, <2>3, <2>4, <2>5, <2>6, <2>7 DEF WorkerNext
<1>7. ASSUME NEW t \in Subs, Expire(t) PROVE TypeOK'
  <2>1. spent' \in Bounds
    BY <1>0, <1>7, SpentMoves DEF Expire
  <2> QED
    BY <1>7, <2>1 DEF Expire, TypeOK, Bounds
<1>8. ASSUME CrashWorker PROVE TypeOK'
  <2>1. spent' \in Bounds
    BY <1>0, <1>8, SpentMoves DEF CrashWorker
  <2> QED
    BY <1>8, <2>1 DEF CrashWorker, TypeOK, redis, Bounds
<1>9. ASSUME UNCHANGED vars PROVE TypeOK'
  BY <1>9 DEF vars, TypeOK
<1>10. ASSUME NEW t \in Subs, CrashCancel(t) PROVE TypeOK'
  <2>1. spent' \in Bounds
    BY <1>0, <1>10, SpentMoves DEF CrashCancel
  <2> QED
    BY <1>10, <2>1 DEF CrashCancel, TypeOK, redis, Bounds
<1>11. ASSUME NEW t \in Subs, WorkerFails(t) PROVE TypeOK'
  <2>1. spent' \in Bounds
    BY <1>0, <1>11, SpentMoves DEF WorkerFails
  <2>2. \E e \in {"dead", "done", "failed"}, r \in Records :
           /\ exec' = [exec EXCEPT ![t] = e]
           /\ record' = record \/ record' = [record EXCEPT ![t] = r]
    BY <1>11, WorkerFailsMoves
  <2>3. exec' \in [Subs -> {"none", "peeked", "claimed", "listed", "running", "completed",
                        "failed", "unlisted completed", "unlisted failed", "done", "dead"}]
    BY <2>2 DEF TypeOK
  <2>4. record' \in [Subs -> Records \cup {"absent"}]
    BY <2>2 DEF TypeOK
  <2> QED
    BY <1>11, <2>1, <2>3, <2>4 DEF WorkerFails, TypeOK, Bounds
<1> QED
  BY <1>1, <1>2, <1>3, <1>4, <1>5, <1>6, <1>7, <1>8, <1>9, <1>10, <1>11 DEF Next, SpawnNext

LEMMA InitType == Init => TypeOK
<1> SUFFICES ASSUME Init PROVE TypeOK
  OBVIOUS
<1>1. poll \in [Subs -> Polls]
  BY PollMoves DEF Init
<1>2. spent \in Bounds
  BY SubagentAssumption DEF SubagentAssumption, Init, Bounds
<1> QED
  BY <1>1, <1>2 DEF Init, TypeOK, Polls, Bounds

\* Rows, records, the queue and the handlers keep their types.
THEOREM TypeCorrect == Spec => []TypeOK
  BY InitType, TypeStep, PTL DEF Spec

-----------------------------------------------------------------------------
(* A cancel that wins the race.                                            *)

Untouched == {"none", "peeked"}

\* A task that no enqueue has added yet is with nobody; a task in the queue has not been
\* claimed; one that the cancel took off the queue is not there and never comes back.
CancelInv ==
  /\ TypeOK
  /\ \A t \in Subs :
       /\ spawn[t] \in {"new", "counted"} => t \notin pending /\ exec[t] = "none" /\ ~won[t]
       /\ t \in pending => exec[t] \in Untouched
       /\ won[t] => t \notin pending /\ exec[t] \in Untouched

\* What the worker does with one task after the claim leaves the executions of the others alone.
LEMMA OthersUntouched ==
  ASSUME TypeOK, NEW t \in Subs,
         ListActive(t) \/ Start(t) \/ Finish(t) \/ Unlist(t) \/ Settle(t)
  PROVE  \A v \in Subs : v # t => exec'[v] = exec[v]
<1> DEFINE Other == \A v \in Subs : v # t => exec'[v] = exec[v]
<1>0. exec \in [Subs -> {exec[v] : v \in Subs}]
  BY DEF TypeOK
<1>1. ListActive(t) => Other
  BY <1>0 DEF ListActive
<1>2. Start(t) => Other
  BY <1>0 DEF Start
<1>3. Finish(t) => Other
  BY <1>0 DEF Finish
<1>4. Unlist(t) => Other
  BY <1>0 DEF Unlist
<1>5. Settle(t) => Other
  BY <1>0 DEF Settle
<1> QED
  BY <1>1, <1>2, <1>3, <1>4, <1>5

LEMMA CancelStep == CancelInv /\ [Next]_vars => CancelInv'
<1> DEFINE Fine(t) ==
      /\ spawn[t] \in {"new", "counted"} => t \notin pending /\ exec[t] = "none" /\ ~won[t]
      /\ t \in pending => exec[t] \in Untouched
      /\ won[t] => t \notin pending /\ exec[t] \in Untouched
<1> SUFFICES ASSUME CancelInv, [Next]_vars, NEW u \in Subs PROVE Fine(u)'
  BY TypeStep DEF CancelInv
<1>0. TypeOK /\ Fine(u)
  BY DEF CancelInv
<1> USE <1>0 DEF TypeOK, Untouched
<1>1. ASSUME NEW t \in Subs, SpawnNext(t) \/ CrashApi(t) PROVE Fine(u)'
  <2>1. CASE CountRows(t)
    <3>1. spawn[t] = "new" /\ UNCHANGED <<pending, exec, won>>
      BY <2>1 DEF CountRows, redis
    <3>2. \A v \in Subs : spawn'[v] # spawn[v] => v = t
      BY <2>1 DEF CountRows
    <3> QED
      BY <3>1, <3>2
  <2>2. CASE Enqueue(t)
    BY <2>2 DEF Enqueue
  <2>3. CASE InsertRow(t)
    <3>1. UNCHANGED <<pending, exec, won>>
      BY <2>3 DEF InsertRow, redis
    <3>2. spawn'[t] \in {"waiting", "done"}
      BY <2>3 DEF InsertRow
    <3>3. \A v \in Subs : v # t => spawn'[v] = spawn[v]
      BY <2>3 DEF InsertRow
    <3> QED
      BY <3>1, <3>2, <3>3
  <2>5. CASE Answer(t)
    <3>1. UNCHANGED <<pending, exec, won>> /\ spawn' = [spawn EXCEPT ![t] = "done"]
      BY <2>5 DEF Answer, redis
    <3> QED
      BY <3>1
  <2>4. CASE CrashApi(t)
    BY <2>4 DEF CrashApi, redis
  <2> QED
    BY <1>1, <2>1, <2>2, <2>3, <2>4, <2>5 DEF SpawnNext
<1>2. ASSUME NEW t \in Subs, CancelNext(t) PROVE Fine(u)'
  <2>1. CASE CancelRemove(t)
    BY <2>1 DEF CancelRemove
  <2>2. CASE CancelRead(t) \/ CancelUnlist(t) \/ CancelRecord(t) \/ CancelCommit(t)
    <3>1. UNCHANGED <<spawn, pending, exec, won>>
      BY <2>2 DEF CancelRead, CancelUnlist, CancelRecord, CancelCommit, redis
    <3> QED
      BY <3>1
  <2> QED
    BY <1>2, <2>1, <2>2 DEF CancelNext
<1>3. ASSUME NEW t \in Subs, Peek(t) PROVE Fine(u)'
  BY <1>3 DEF Peek, redis
<1>4. ASSUME NEW t \in Subs, Claim(t) PROVE Fine(u)'
  BY <1>4 DEF Claim
<1>5. ASSUME NEW t \in Subs, ListActive(t) \/ Start(t) \/ Finish(t) \/ Unlist(t) \/ Settle(t)
      PROVE  Fine(u)'
  <2>1. exec[t] \notin Untouched
    BY <1>5 DEF ListActive, Start, Finish, Unlist, Settle
  <2>2. \A v \in Subs : v # t => exec'[v] = exec[v]
    BY <1>5, OthersUntouched
  <2>3. UNCHANGED <<spawn, pending, won>>
    BY <1>5 DEF ListActive, Start, Finish, Unlist, Settle, redis
  <2> QED
    BY <2>1, <2>2, <2>3
<1>6. ASSUME CrashWorker PROVE Fine(u)'
  BY <1>6 DEF CrashWorker, redis
<1>7. ASSUME UNCHANGED <<spawn, pending, exec, won>> PROVE Fine(u)'
  BY <1>7
<1>8. \/ UNCHANGED <<spawn, pending, exec, won>> \/ CrashWorker
      \/ \E t \in Subs : SpawnNext(t) \/ CrashApi(t) \/ CancelNext(t) \/ WorkerNext(t)
                        \/ WorkerFails(t)
  BY DEF Next, vars, PollNext, LoadRow, ReadRecord, SyncRow, CancelLoad, CrashCancel, Expire, redis
<1>9. ASSUME NEW t \in Subs, WorkerFails(t) PROVE Fine(u)'
  <2>1. exec[t] \notin Untouched /\ UNCHANGED <<spawn, pending, won>>
    BY <1>9 DEF WorkerFails, Held
  <2>2. \A v \in Subs : v # t => exec'[v] = exec[v]
    <3>1. PICK e \in {"dead", "done", "failed"} : exec' = [exec EXCEPT ![t] = e]
      BY <1>9, WorkerFailsMoves
    <3> QED
      BY <3>1
  <2> QED
    BY <2>1, <2>2
<1> HIDE DEF Fine
<1> QED
  BY <1>1, <1>2, <1>3, <1>4, <1>5, <1>6, <1>7, <1>8, <1>9 DEF WorkerNext

\* A cancel whose zrem came before the worker's keeps the task from executing for ever, and what
\* it wrote to the record is never overwritten, however many crashes, polls and cancels there are.
THEOREM CancelledStaysCancelled == Spec => CancelBeforeClaimIsFinal
<1> DEFINE Kept(t) ==
      won[t] => /\ exec'[t] \in {"none", "peeked"}
                /\ record[t] = "cancelled" => record'[t] \in {"cancelled", "absent"}
<1>1. Init => CancelInv
  BY InitType DEF Init, CancelInv
<1>2. CancelInv /\ [Next]_vars => \A t \in Subs : Kept(t)
  <2> SUFFICES ASSUME CancelInv, [Next]_vars, NEW t \in Subs, won[t], won[t] = TRUE
               PROVE  /\ exec'[t] \in {"none", "peeked"}
                      /\ record[t] = "cancelled" => record'[t] \in {"cancelled", "absent"}
    BY DEF CancelInv, TypeOK
  <2>1. /\ t \notin pending /\ exec[t] \in Untouched /\ spawn[t] \notin {"new", "counted"}
        /\ TypeOK
    BY DEF CancelInv
  <2>2. exec'[t] \in {"none", "peeked"}
    <3>1. ASSUME NEW u \in Subs, WorkerNext(u) PROVE exec'[t] \in Untouched
      <4>1. CASE Peek(u)
        BY <2>1, <4>1 DEF Peek, TypeOK, Untouched
      <4>2. CASE Claim(u)
        BY <2>1, <4>2 DEF Claim, TypeOK, Untouched
      <4>3. CASE ListActive(u) \/ Start(u) \/ Finish(u) \/ Unlist(u) \/ Settle(u)
        <5>1. u # t
          BY <2>1, <4>3 DEF ListActive, Start, Finish, Unlist, Settle, Untouched
        <5>2. exec'[t] = exec[t]
          BY <2>1, <4>3, <5>1, OthersUntouched
        <5> QED
          BY <2>1, <5>2
      <4> QED
        BY <3>1, <4>1, <4>2, <4>3 DEF WorkerNext
    <3>2. ASSUME CrashWorker PROVE exec'[t] \in Untouched
      BY <2>1, <3>2 DEF CrashWorker, Untouched
    <3>4. ASSUME NEW u \in Subs, WorkerFails(u) PROVE exec'[t] \in Untouched
      <4>1. u # t
        BY <2>1, <3>4 DEF WorkerFails, Held, Untouched
      <4>2. PICK e \in {"dead", "done", "failed"} : exec' = [exec EXCEPT ![u] = e]
        BY <3>4, WorkerFailsMoves
      <4> QED
        BY <2>1, <4>1, <4>2 DEF TypeOK
    <3>3. exec' = exec \/ CrashWorker \/ \E u \in Subs : WorkerNext(u) \/ WorkerFails(u)
      BY DEF Next, vars, SpawnNext, CountRows, Enqueue, InsertRow, Answer, CrashApi, PollNext,
             LoadRow, ReadRecord, SyncRow, CancelLoad, CancelNext, CancelRead, CancelRemove,
             CancelUnlist, CancelRecord, CancelCommit, CrashCancel, Expire
    <3> QED
      BY <2>1, <3>1, <3>2, <3>3, <3>4 DEF Untouched
  <2>3. record[t] = "cancelled" => record'[t] \in {"cancelled", "absent"}
    <3>1. ASSUME NEW u \in Subs, Enqueue(u) \/ Start(u) \/ Settle(u) PROVE record'[t] = record[t]
      <4>1. u # t
        BY <2>1, <3>1 DEF Enqueue, Start, Settle, Untouched
      <4>2. CASE Enqueue(u)
        BY <2>1, <4>1, <4>2 DEF Enqueue, TypeOK
      <4>3. CASE Start(u)
        BY <2>1, <4>1, <4>3 DEF Start, TypeOK
      <4>4. CASE Settle(u)
        BY <2>1, <4>1, <4>4 DEF Settle, TypeOK
      <4> QED
        BY <3>1, <4>2, <4>3, <4>4
    <3>2. ASSUME NEW u \in Subs, CancelRecord(u) \/ Expire(u)
          PROVE  record'[t] \in {record[t], "cancelled", "absent"}
      <4>1. CASE CancelRecord(u)
        BY <2>1, <4>1 DEF CancelRecord, TypeOK
      <4>2. CASE Expire(u)
        BY <2>1, <4>2 DEF Expire, TypeOK
      <4> QED
        BY <3>2, <4>1, <4>2
    <3>4. ASSUME NEW u \in Subs, WorkerFails(u) PROVE record'[t] = record[t]
      <4>1. u # t
        BY <2>1, <3>4 DEF WorkerFails, Held, Untouched
      <4>2. record' = record \/ \E x : record' = [record EXCEPT ![u] = x]
        BY <3>4, WorkerFailsMoves
      <4> QED
        BY <2>1, <4>1, <4>2 DEF TypeOK
    <3>3. record' = record \/ \E u \in Subs : Enqueue(u) \/ Start(u) \/ Settle(u)
                                                \/ CancelRecord(u) \/ Expire(u) \/ WorkerFails(u)
      BY DEF Next, vars, redis, SpawnNext, CountRows, InsertRow, Answer, CrashApi, PollNext,
             LoadRow, ReadRecord, SyncRow, CancelLoad, CancelNext, CancelRead, CancelRemove,
             CancelUnlist, CancelCommit, WorkerNext, Peek, Claim, ListActive, Finish, Unlist,
             CrashWorker, CrashCancel
    <3> QED
      BY <3>1, <3>2, <3>3, <3>4
  <2> QED
    BY <2>2, <2>3
<1> QED
  BY <1>1, <1>2, CancelStep, PTL DEF Spec, CancelBeforeClaimIsFinal

-----------------------------------------------------------------------------
(* Who will finish a record.                                               *)

Owned(t) ==
  record[t] \in {"pending", "running"} =>
    \/ t \in pending \/ exec[t] \in Held
    \/ won[t] /\ cancel[t] \in {"removed", "unlisted"}
    \/ exec[t] = "dead" \/ cancel[t] = "lost"

\* Nothing of subagent t that its ownership depends on changed.
LEMMA OwnedKept ==
  ASSUME NEW t \in Subs, Owned(t),
         record'[t] = record[t], t \in pending => t \in pending', exec'[t] = exec[t],
         won'[t] = won[t], cancel'[t] = cancel[t]
  PROVE  Owned(t)'
BY DEF Owned

LEMMA OwnedStep == CancelInv /\ LiveRecordHasOwner /\ [Next]_vars => LiveRecordHasOwner'
<1> SUFFICES ASSUME CancelInv, LiveRecordHasOwner, [Next]_vars, NEW u \in Subs PROVE Owned(u)'
  BY DEF LiveRecordHasOwner, Owned
<1>0. TypeOK /\ Owned(u)
  BY DEF CancelInv, LiveRecordHasOwner, Owned
<1> USE <1>0 DEF TypeOK
<1>1. ASSUME NEW t \in Subs, CountRows(t) \/ InsertRow(t) \/ Answer(t) \/ CrashApi(t)
                             \/ PollNext(t)
      PROVE  Owned(u)'
  <2>1. UNCHANGED <<record, pending, exec, won, cancel>>
    BY <1>1 DEF CountRows, InsertRow, Answer, CrashApi, PollNext, LoadRow, ReadRecord, SyncRow, redis
  <2> QED
    BY <2>1, OwnedKept
<1>2. ASSUME NEW t \in Subs, Enqueue(t) PROVE Owned(u)'
  <2>1. CASE u = t
    BY <1>2, <2>1 DEF Enqueue, Owned
  <2>2. CASE u # t
    BY <1>2, <2>2, OwnedKept DEF Enqueue
  <2> QED
    BY <2>1, <2>2
<1>3. ASSUME NEW t \in Subs, CancelLoad(t) \/ CancelRead(t) \/ CancelCommit(t) \/ CrashCancel(t)
      PROVE  Owned(u)'
  <2>1. /\ UNCHANGED <<record, pending, exec, won>>
        /\ \A v \in Subs : v # t => cancel'[v] = cancel[v]
        /\ cancel[t] \in {"removed", "unlisted"} => cancel'[t] = "lost"
        /\ cancel[t] # "lost"
    BY <1>3 DEF CancelLoad, CancelRead, CancelCommit, CrashCancel, redis
  <2> QED
    BY <2>1 DEF Owned
<1>4. ASSUME NEW t \in Subs, CancelRemove(t) PROVE Owned(u)'
  <2>1. CASE u = t
    <3>1. /\ cancel'[t] = "removed" /\ UNCHANGED <<record, exec>> /\ cancel[t] = "read"
          /\ won' = [won EXCEPT ![t] = t \in pending]
      BY <1>4 DEF CancelRemove
    <3>2. t \in pending => won'[t]
      BY <3>1
    <3> QED
      BY <2>1, <3>1, <3>2 DEF Owned
  <2>2. CASE u # t
    BY <1>4, <2>2, OwnedKept DEF CancelRemove
  <2> QED
    BY <2>1, <2>2
<1>5. ASSUME NEW t \in Subs, CancelUnlist(t) PROVE Owned(u)'
  <2>1. /\ UNCHANGED <<record, pending, exec, won>> /\ cancel'[t] = "unlisted"
        /\ cancel[t] = "removed" /\ \A v \in Subs : v # t => cancel'[v] = cancel[v]
    BY <1>5 DEF CancelUnlist
  <2> QED
    BY <2>1 DEF Owned
<1>6. ASSUME NEW t \in Subs, CancelRecord(t) PROVE Owned(u)'
  <2>1. CASE u = t
    BY <1>6, <2>1 DEF CancelRecord, Owned
  <2>2. CASE u # t
    BY <1>6, <2>2, OwnedKept DEF CancelRecord
  <2> QED
    BY <2>1, <2>2
<1>7. ASSUME NEW t \in Subs, Peek(t) PROVE Owned(u)'
  <2>1. /\ UNCHANGED <<record, pending, won, cancel>> /\ t \in pending
        /\ \A v \in Subs : v # t => exec'[v] = exec[v]
    BY <1>7 DEF Peek, redis
  <2> QED
    BY <2>1 DEF Owned
<1>8. ASSUME NEW t \in Subs, Claim(t) PROVE Owned(u)'
  <2>1. /\ UNCHANGED <<record, won, cancel>> /\ pending' = pending \ {t} /\ exec[t] = "peeked"
        /\ \A v \in Subs : v # t => exec'[v] = exec[v]
        /\ t \in pending => exec'[t] = "claimed"
    BY <1>8 DEF Claim
  <2> QED
    BY <2>1 DEF Owned, Held
<1>9. ASSUME NEW t \in Subs, ListActive(t) \/ Unlist(t) PROVE Owned(u)'
  <2>1. UNCHANGED <<record, pending, won, cancel>> /\ exec'[t] \in Held
    BY <1>9 DEF ListActive, Unlist, Held
  <2>2. \A v \in Subs : v # t => exec'[v] = exec[v]
    BY <1>9, OthersUntouched
  <2> QED
    BY <2>1, <2>2 DEF Owned
<1>10. ASSUME NEW t \in Subs, Start(t) \/ Finish(t) \/ Settle(t) PROVE Owned(u)'
  <2>1. UNCHANGED <<pending, won, cancel>> /\ \A v \in Subs : v # t => exec'[v] = exec[v]
    BY <1>10, OthersUntouched DEF Start, Finish, Settle, redis
  <2>2. \A v \in Subs : v # t => record'[v] = record[v]
    BY <1>10 DEF Start, Finish, Settle, redis
  <2>3. exec'[t] \in Held \/ record'[t] \in {"absent", "completed", "failed"}
    <3>1. CASE Start(t)
      BY <3>1 DEF Start, Held
    <3>2. CASE Finish(t)
      BY <3>2 DEF Finish, Held, redis
    <3>3. CASE Settle(t)
      BY <3>3 DEF Settle
    <3> QED
      BY <1>10, <3>1, <3>2, <3>3
  <2> QED
    BY <2>1, <2>2, <2>3 DEF Owned
<1>11. ASSUME NEW t \in Subs, Expire(t) PROVE Owned(u)'
  <2>1. /\ UNCHANGED <<pending, exec, won, cancel>> /\ record'[t] = "absent"
        /\ \A v \in Subs : v # t => record'[v] = record[v]
    BY <1>11 DEF Expire
  <2> QED
    BY <2>1 DEF Owned
<1>12. ASSUME NEW t \in Subs, WorkerFails(t) PROVE Owned(u)'
  <2>1. PICK e \in {"dead", "done", "failed"}, x \in Records :
           /\ exec' = [exec EXCEPT ![t] = e]
           /\ record' = record \/ record' = [record EXCEPT ![t] = x]
    BY <1>12, WorkerFailsMoves
  <2>2. UNCHANGED <<pending, won, cancel>>
    BY <1>12 DEF WorkerFails
  <2>3. exec'[t] \in {"dead", "failed"} \/ record'[t] = "absent"
    BY <1>12 DEF WorkerFails
  <2>4. \A v \in Subs : v # t => exec'[v] = exec[v] /\ record'[v] = record[v]
    BY <2>1
  <2> QED
    BY <2>2, <2>3, <2>4 DEF Owned, Held
<1>13. ASSUME CrashWorker PROVE Owned(u)'
  <2>1. UNCHANGED <<record, pending, won, cancel>>
    BY <1>13 DEF CrashWorker, redis
  <2>2. exec[u] \in Held => exec'[u] = "dead"
    BY <1>13 DEF CrashWorker, Held
  <2>3. exec[u] = "dead" => exec'[u] = "dead"
    BY <1>13 DEF CrashWorker
  <2> QED
    BY <2>1, <2>2, <2>3 DEF Owned
<1>14. ASSUME UNCHANGED vars PROVE Owned(u)'
  BY <1>14, OwnedKept DEF vars
<1> QED
  BY <1>1, <1>2, <1>3, <1>4, <1>5, <1>6, <1>7, <1>8, <1>9, <1>10, <1>11, <1>12, <1>13, <1>14
     DEF Next, SpawnNext, CancelNext, WorkerNext

\* A record that says pending or running is in the queue, with the worker that claimed it or
\* with the cancel that took it, or one of these failed on its way.
THEOREM LiveRecordsAreOwned == Spec => []LiveRecordHasOwner
<1>1. Init => CancelInv /\ LiveRecordHasOwner
  BY InitType DEF Init, CancelInv, LiveRecordHasOwner
<1> QED
  BY <1>1, OwnedStep, CancelStep, PTL DEF Spec
=============================================================================
