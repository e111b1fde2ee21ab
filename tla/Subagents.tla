------------------------------ MODULE Subagents ------------------------------
(***************************************************************************)
(* The subagents of one parent agent.  The API route that spawns one       *)
(* enqueues a task in Redis and inserts a row in the database; a worker of *)
(* the agent service executes the task; the routes that are asked for the  *)
(* subagent copy the status of the task's record to the row; a cancel      *)
(* writes both.  Nobody tells the API that a task ended.                   *)
(*                                                                         *)
(* One action per round trip to Redis or the database, except that the     *)
(* record and its place in the queue are written in one step: nobody knows *)
(* the task before.                                                        *)
(***************************************************************************)
EXTENDS Naturals, FiniteSets

CONSTANTS
  Subs,         \* calls of the spawn route
  MaxActive,    \* MAX_CONCURRENT_SUBAGENTS
  MaxCrashes,   \* bound: stops of an API request or of the worker, and calls of
                \* Redis that raise in the worker
  MaxExpiries   \* bound: records dropped by their TTL

ASSUME SubagentAssumption ==
  /\ IsFiniteSet(Subs)
  /\ MaxActive \in Nat \ {0} /\ MaxCrashes \in Nat /\ MaxExpiries \in Nat

VARIABLES
  blocking,  \* row.blocking: the route waits for the result
  spawn,     \* where the spawn route stands
  row,       \* row.status, "none" before the insert
  record,    \* the "status" of the task's record, "absent" when there is none
  pending,   \* the sorted set PENDING_KEY of the session
  active,    \* the set ACTIVE_KEY of the session
  exec,      \* what the worker has of the task
  cancel,    \* where the cancel route stands
  won,       \* the cancel's zrem removed the member (its answer is dropped)
  poll,      \* a request for the subagent or its progress
  spent      \* how much of each bound is used

vars == <<blocking, spawn, row, record, pending, active, exec, cancel, won, poll, spent>>
redis == <<record, pending, active>>

Rows == {"spawned", "running", "completed", "failed"}
Live == {"spawned", "running"}
Records == {"pending", "running", "completed", "failed", "cancelled"}

TypeOK ==
  /\ blocking \in [Subs -> BOOLEAN]
  /\ spawn \in [Subs -> {"new", "counted", "queued", "waiting", "done", "refused", "lost"}]
  /\ row \in [Subs -> Rows \cup {"none"}]
  /\ record \in [Subs -> Records \cup {"absent"}]
  /\ pending \subseteq Subs /\ active \subseteq Subs
  /\ exec \in [Subs -> {"none", "peeked", "claimed", "listed", "running", "completed",
                        "failed", "unlisted completed", "unlisted failed", "done", "dead"}]
  /\ cancel \in [Subs -> {"new", "loaded", "read", "removed", "unlisted", "written", "done", "lost"}]
  /\ won \in [Subs -> BOOLEAN]
  /\ poll \in [Subs -> [at : {"idle", "loaded", "read"}, seen : Rows, got : Records]]
  /\ spent \in [crashes : 0 .. MaxCrashes, expiries : 0 .. MaxExpiries]

\* The worker has claimed the task and has yet to write its final status.
Held == {"claimed", "listed", "running", "completed", "failed", "unlisted completed",
         "unlisted failed"}

NoPoll == [at |-> "idle", seen |-> "spawned", got |-> "pending"]

Init ==
  /\ blocking \in [Subs -> BOOLEAN]
  /\ spawn = [t \in Subs |-> "new"]
  /\ row = [t \in Subs |-> "none"]
  /\ record = [t \in Subs |-> "absent"]
  /\ pending = {} /\ active = {}
  /\ exec = [t \in Subs |-> "none"]
  /\ cancel = [t \in Subs |-> "new"]
  /\ won = [t \in Subs |-> FALSE]
  /\ poll = [t \in Subs |-> NoPoll]
  /\ spent = [crashes |-> 0, expiries |-> 0]

\* Variant: the row takes the name of the record's status.
StatusOfSame(r) == r

\* The status of the row for a status of the record; the row has no "cancelled".
StatusOf(r) ==
  CASE r = "pending" -> "spawned"
    [] r = "running" -> "running"
    [] r = "completed" -> "completed"
    [] r \in {"failed", "cancelled"} -> "failed"

\* Variant: a row that has ended is not written again.
CommitRowLive(t, s, seen) ==
  row' = IF s = seen \/ row[t] \notin Live THEN row ELSE [row EXCEPT ![t] = s]

\* Commit status s to a row loaded with status seen: an equal value is not written.
CommitRow(t, s, seen) == row' = IF s = seen THEN row ELSE [row EXCEPT ![t] = s]

LiveRows == {t \in Subs : row[t] \in Live}

-----------------------------------------------------------------------------
(* The spawn route.                                                        *)

CountRows(t) ==
  /\ spawn[t] = "new"
  /\ spawn' = [spawn EXCEPT ![t] = IF Cardinality(LiveRows) >= MaxActive THEN "refused"
                                                                        ELSE "counted"]
  /\ UNCHANGED <<blocking, row, redis, exec, cancel, won, poll, spent>>

Enqueue(t) ==
  /\ spawn[t] = "counted"
  /\ spawn' = [spawn EXCEPT ![t] = "queued"]
  /\ record' = [record EXCEPT ![t] = "pending"]
  /\ pending' = pending \cup {t}
  /\ UNCHANGED <<blocking, row, active, exec, cancel, won, poll, spent>>

InsertRow(t) ==
  /\ spawn[t] = "queued"
  /\ spawn' = [spawn EXCEPT ![t] = IF blocking[t] THEN "waiting" ELSE "done"]
  /\ row' = [row EXCEPT ![t] = IF blocking[t] THEN "running" ELSE "spawned"]
  /\ UNCHANGED <<blocking, redis, exec, cancel, won, poll, spent>>

\* wait_for_completion returns: a final record, one that is not final when the
\* timeout passed, or none; the row was loaded with the status it was inserted with.
Answer(t) ==
  /\ spawn[t] = "waiting"
  /\ spawn' = [spawn EXCEPT ![t] = "done"]
  /\ IF record[t] = "absent" THEN UNCHANGED row
                             ELSE CommitRow(t, StatusOf(record[t]), "running")
  /\ UNCHANGED <<blocking, redis, exec, cancel, won, poll, spent>>

CrashApi(t) ==
  /\ spawn[t] \in {"counted", "queued", "waiting"}
  /\ spent.crashes < MaxCrashes
  /\ spent' = [spent EXCEPT !.crashes = @ + 1]
  /\ spawn' = [spawn EXCEPT ![t] = "lost"]
  /\ UNCHANGED <<blocking, row, redis, exec, cancel, won, poll>>

-----------------------------------------------------------------------------
(* The routes that are asked for a subagent: get_subagent syncs live rows, *)
(* get_subagent_progress any row.                                          *)

LoadRow(t) ==
  /\ poll[t].at = "idle" /\ row[t] # "none"
  /\ poll' = [poll EXCEPT ![t] = [NoPoll EXCEPT !.at = "loaded", !.seen = row[t]]]
  /\ UNCHANGED <<blocking, spawn, row, redis, exec, cancel, won, spent>>

ReadRecord(t) ==
  /\ poll[t].at = "loaded"
  /\ poll' = [poll EXCEPT ![t] = IF record[t] = "absent" THEN NoPoll
                                 ELSE [@ EXCEPT !.at = "read", !.got = record[t]]]
  /\ UNCHANGED <<blocking, spawn, row, redis, exec, cancel, won, spent>>

SyncRow(t) ==
  /\ poll[t].at = "read"
  /\ CommitRow(t, StatusOf(poll[t].got), poll[t].seen)
  /\ poll' = [poll EXCEPT ![t] = NoPoll]
  /\ UNCHANGED <<blocking, spawn, redis, exec, cancel, won, spent>>

-----------------------------------------------------------------------------
(* The cancel route, once per subagent.                                    *)

CancelLoad(t) ==
  /\ cancel[t] = "new" /\ row[t] \in Live
  /\ cancel' = [cancel EXCEPT ![t] = "loaded"]
  /\ UNCHANGED <<blocking, spawn, row, redis, exec, won, poll, spent>>

\* cancel_task does nothing when the record is absent or final.
CancelRead(t) ==
  /\ cancel[t] = "loaded"
  /\ cancel' = [cancel EXCEPT ![t] =
                  IF record[t] \in {"pending", "running"} THEN "read" ELSE "written"]
  /\ UNCHANGED <<blocking, spawn, row, redis, exec, won, poll, spent>>

\* Variant: the task is not taken off the queue.
CancelRemoveNothing(t) ==
  /\ cancel[t] = "read"
  /\ won' = [won EXCEPT ![t] = t \in pending]
  /\ cancel' = [cancel EXCEPT ![t] = "removed"]
  /\ UNCHANGED <<blocking, spawn, row, redis, exec, poll, spent>>

CancelRemove(t) ==
  /\ cancel[t] = "read"
  /\ won' = [won EXCEPT ![t] = t \in pending]
  /\ pending' = pending \ {t}
  /\ cancel' = [cancel EXCEPT ![t] = "removed"]
  /\ UNCHANGED <<blocking, spawn, row, record, active, exec, poll, spent>>

CancelUnlist(t) ==
  /\ cancel[t] = "removed"
  /\ active' = active \ {t}
  /\ cancel' = [cancel EXCEPT ![t] = "unlisted"]
  /\ UNCHANGED <<blocking, spawn, row, record, pending, exec, won, poll, spent>>

CancelRecord(t) ==
  /\ cancel[t] = "unlisted"
  /\ record' = [record EXCEPT ![t] = "cancelled"]
  /\ cancel' = [cancel EXCEPT ![t] = "written"]
  /\ UNCHANGED <<blocking, spawn, row, pending, active, exec, won, poll, spent>>

CancelCommit(t) ==
  /\ cancel[t] = "written"
  /\ row' = [row EXCEPT ![t] = "failed"]
  /\ cancel' = [cancel EXCEPT ![t] = "done"]
  /\ UNCHANGED <<blocking, spawn, redis, exec, won, poll, spent>>

\* The API process stops, or a call raises, in the middle of the cancel.
CrashCancel(t) ==
  /\ cancel[t] \in {"loaded", "read", "removed", "unlisted", "written"}
  /\ spent.crashes < MaxCrashes
  /\ spent' = [spent EXCEPT !.crashes = @ + 1]
  /\ cancel' = [cancel EXCEPT ![t] = "lost"]
  /\ UNCHANGED <<blocking, spawn, row, redis, exec, won, poll>>

-----------------------------------------------------------------------------
(* The worker: _dequeue_task and _process_task.                            *)

Peek(t) ==
  /\ exec[t] = "none" /\ t \in pending
  /\ exec' = [exec EXCEPT ![t] = "peeked"]
  /\ UNCHANGED <<blocking, spawn, row, redis, cancel, won, poll, spent>>

\* zrem: nothing removed means that someone else took the task.
Claim(t) ==
  /\ exec[t] = "peeked"
  /\ pending' = pending \ {t}
  /\ exec' = [exec EXCEPT ![t] = IF t \in pending THEN "claimed" ELSE "none"]
  /\ UNCHANGED <<blocking, spawn, row, record, active, cancel, won, poll, spent>>

ListActive(t) ==
  /\ exec[t] = "claimed"
  /\ active' = active \cup {t}
  /\ exec' = [exec EXCEPT ![t] = "listed"]
  /\ UNCHANGED <<blocking, spawn, row, record, pending, cancel, won, poll, spent>>

\* Read the record and write it back running; without a record, give up.
Start(t) ==
  /\ exec[t] = "listed"
  /\ IF record[t] = "absent"
       THEN /\ exec' = [exec EXCEPT ![t] = "done"]
            /\ UNCHANGED record
       ELSE /\ exec' = [exec EXCEPT ![t] = "running"]
            /\ record' = [record EXCEPT ![t] = "running"]
  /\ UNCHANGED <<blocking, spawn, row, pending, active, cancel, won, poll, spent>>

\* spawn_subagent of the manager returns, whatever the status of its subagent
\* (completed), or raises (failed); _complete_task and _fail_task read the record.
Finish(t) ==
  /\ exec[t] = "running"
  /\ \E out \in {"completed", "failed"} :
       exec' = [exec EXCEPT ![t] = IF record[t] = "absent" THEN "done" ELSE out]
  /\ UNCHANGED <<blocking, spawn, row, redis, cancel, won, poll, spent>>

Unlist(t) ==
  /\ exec[t] \in {"completed", "failed"}
  /\ active' = active \ {t}
  /\ exec' = [exec EXCEPT ![t] = IF @ = "completed" THEN "unlisted completed"
                                                   ELSE "unlisted failed"]
  /\ UNCHANGED <<blocking, spawn, row, record, pending, cancel, won, poll, spent>>

\* Variant: the record of an execution that failed is left as it is.
SettleCompleted(t) ==
  /\ exec[t] \in {"unlisted completed", "unlisted failed"}
  /\ record' = [record EXCEPT ![t] = IF exec[t] = "unlisted completed" THEN "completed" ELSE @]
  /\ exec' = [exec EXCEPT ![t] = "done"]
  /\ UNCHANGED <<blocking, spawn, row, pending, active, cancel, won, poll, spent>>

Settle(t) ==
  /\ exec[t] \in {"unlisted completed", "unlisted failed"}
  /\ record' = [record EXCEPT ![t] = IF exec[t] = "unlisted completed" THEN "completed"
                                                                      ELSE "failed"]
  /\ exec' = [exec EXCEPT ![t] = "done"]
  /\ UNCHANGED <<blocking, spawn, row, pending, active, cancel, won, poll, spent>>

\* A call of Redis raises: _dequeue_task lets the task go, its record marked
\* running or not; _complete_task falls back on _fail_task, the record already
\* completed or not; and when that raises too the record stays as it is.
WorkerFails(t) ==
  /\ exec[t] \in Held
  /\ spent.crashes < MaxCrashes
  /\ spent' = [spent EXCEPT !.crashes = @ + 1]
  /\ \/ exec' = [exec EXCEPT ![t] = "dead"] /\ UNCHANGED record
     \/ /\ exec[t] = "listed" /\ record[t] # "absent"
        /\ exec' = [exec EXCEPT ![t] = "dead"]
        /\ record' = [record EXCEPT ![t] = "running"]
     \/ /\ exec[t] \in {"completed", "unlisted completed"}
        /\ exec' = [exec EXCEPT ![t] = IF record[t] = "absent" THEN "done" ELSE "failed"]
        /\ UNCHANGED record
     \/ /\ exec[t] = "unlisted completed"
        /\ exec' = [exec EXCEPT ![t] = "failed"]
        /\ record' = [record EXCEPT ![t] = "completed"]
  /\ UNCHANGED <<blocking, spawn, row, pending, active, cancel, won, poll>>

\* The worker process stops and another takes its place: what it had is lost.
CrashWorker ==
  /\ \E t \in Subs : exec[t] \notin {"none", "done", "dead"}
  /\ spent.crashes < MaxCrashes
  /\ spent' = [spent EXCEPT !.crashes = @ + 1]
  /\ exec' = [t \in Subs |-> IF exec[t] \in {"none", "peeked"} THEN "none"
                             ELSE IF exec[t] = "done" THEN "done" ELSE "dead"]
  /\ UNCHANGED <<blocking, spawn, row, redis, cancel, won, poll>>

\* TASK_TTL, or COMPLETED_TTL of a final record.
Expire(t) ==
  /\ record[t] # "absent" /\ spawn[t] \in {"done", "lost"}
  /\ spent.expiries < MaxExpiries
  /\ spent' = [spent EXCEPT !.expiries = @ + 1]
  /\ record' = [record EXCEPT ![t] = "absent"]
  /\ UNCHANGED <<blocking, spawn, row, pending, active, exec, cancel, won, poll>>

-----------------------------------------------------------------------------

SpawnNext(t) == CountRows(t) \/ Enqueue(t) \/ InsertRow(t) \/ Answer(t)
PollNext(t) == LoadRow(t) \/ ReadRecord(t) \/ SyncRow(t)
CancelNext(t) ==
  CancelRead(t) \/ CancelRemove(t) \/ CancelUnlist(t) \/ CancelRecord(t) \/ CancelCommit(t)
WorkerNext(t) ==
  Peek(t) \/ Claim(t) \/ ListActive(t) \/ Start(t) \/ Finish(t) \/ Unlist(t) \/ Settle(t)

Next ==
  \/ \E t \in Subs :
       \/ SpawnNext(t) \/ PollNext(t) \/ CancelLoad(t) \/ CancelNext(t) \/ WorkerNext(t)
       \/ CrashApi(t) \/ CrashCancel(t) \/ WorkerFails(t) \/ Expire(t)
  \/ CrashWorker

Spec == Init /\ [][Next]_vars

\* Event loops run what is ready and an execution ends; no client need ask.
Fairness ==
  \A t \in Subs :
    /\ WF_vars(Enqueue(t) \/ InsertRow(t) \/ Answer(t))
    /\ WF_vars(ReadRecord(t) \/ SyncRow(t)) /\ WF_vars(CancelNext(t)) /\ WF_vars(WorkerNext(t))

FairSpec == Spec /\ Fairness

-----------------------------------------------------------------------------

\* A cancel that takes the task off the queue before a worker does is final: the
\* task never executes and its record never changes again but to expire.
CancelBeforeClaimIsFinal ==
  [][\A t \in Subs :
       won[t] => /\ exec'[t] \in {"none", "peeked"}
                 /\ record[t] = "cancelled" => record'[t] \in {"cancelled", "absent"}]_vars

\* A record that says pending or running has someone who will finish it: the queue,
\* the worker that claimed it, or the cancel that took it off the queue.  Only the
\* worker or the cancel that fails on its way leaves it so for ever: no race
\* between them, with a poll or with the TTL does.
LiveRecordHasOwner ==
  \A t \in Subs :
    record[t] \in {"pending", "running"} =>
      \/ t \in pending \/ exec[t] \in Held
      \/ won[t] /\ cancel[t] \in {"removed", "unlisted"}
      \/ exec[t] = "dead" \/ cancel[t] = "lost"

\* A row that is asked for again and again says in the end what its record says,
\* whatever the spawn, the cancel and the worker wrote in between and whoever of
\* them failed, unless the record has expired.
RowFollowsRecord ==
  \A t \in Subs :
    []<>(poll[t].at = "read") =>
      <>[](record[t] = "absent" \/ row[t] = StatusOf(record[t]))
=============================================================================
