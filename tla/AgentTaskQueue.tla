--------------------------- MODULE AgentTaskQueue ---------------------------
(***************************************************************************)
(* The Redis queue of agent tasks.  The API service saves a task record,   *)
(* adds its identifier to the sorted set of its session and polls the      *)
(* record (AgentTaskQueue, task_queue.py); the workers of the agent        *)
(* service claim, execute and settle the tasks, and listen to cancel       *)
(* commands broadcast over pub/sub (AgentTaskWorker, agent_worker.py).     *)
(*                                                                         *)
(* One action per Redis round trip: everything between two awaits of the   *)
(* code is one step, and any other process may run between two steps.      *)
(***************************************************************************)
EXTENDS Integers, FiniteSets

CONSTANTS
  Tasks,        \* task identifiers (uuid4: one per call of enqueue)
  Workers,      \* worker processes of the agent service
  Nobody,       \* no worker (holder of a task nobody has)
  Agents,       \* agent identifiers
  Sessions,     \* session identifiers
  SessionOf,    \* SessionOf[a]: the session agent a belongs to
  Priorities,   \* values of PRIORITY_SCORES in use: a subset of {0, 50, 100}
  Resolution,   \* distinguishable values of (time.time() % 100) / 100
  PoolSize,     \* _pool_size of every worker
  MaxCrashes,   \* bound: crashes or stops of workers and of API requests, and
                \* calls of Redis that raise in a worker
  MaxExpiries,  \* bound: records dropped by their TTL
  MaxCancels    \* bound: calls of cancel_task

ASSUME ConstantsAssumption ==
  /\ Nobody \notin Workers
  /\ SessionOf \in [Agents -> Sessions]
  /\ Agents \cap Sessions = {}
  /\ Agents # {}
  /\ IsFiniteSet(Tasks) /\ Tasks # {}
  /\ Priorities \subseteq {0, 50, 100}
  /\ Resolution \in Nat \ {0}
  /\ PoolSize \in Nat
  /\ MaxCrashes \in Nat /\ MaxExpiries \in Nat /\ MaxCancels \in Nat

VARIABLES
  status,    \* the "status" of the record TASK_KEY, "absent" when there is none
  owner,     \* the agent_id of the record
  prio,      \* the class of the record: its priority's value in PRIORITY_SCORES
  score,     \* the member's score in the sorted set, in units of 1/Resolution
  pending,   \* union of the sorted sets PENDING_KEY of all sessions
  active,    \* pairs <<key, task>>: task is a member of the set ACTIVE_KEY(key)
  api,       \* where the API request that enqueues the task and waits stands
  alive,     \* is the worker process running
  loop,      \* the worker's polling loop
  exec,      \* the worker's asyncio task for each queue task
  inbox,     \* cancel commands its subscription holds
  ctl,       \* its control listener
  spent      \* how much of each bound is used; lost: the tasks that a worker had
             \* not settled when it stopped or when its calls of Redis raised

redis == <<status, owner, prio, score, pending, active>>
worker == <<alive, loop, exec, inbox, ctl>>
vars == <<status, owner, prio, score, pending, active, api, alive, loop, exec,
          inbox, ctl, spent>>

Terminal == {"completed", "failed"}
Stages == {"none", "spawned", "executing", "saving", "unlisted", "written", "done"}
ApiStates == {"new", "saved", "waiting", "orphan", "gone", "timeout"} \cup Terminal

Idle == [at |-> "idle", todo |-> {}, slots |-> 0, task |-> CHOOSE t \in Tasks : TRUE]
NoRun == [at |-> "none", out |-> "failed"]
Quiet == [at |-> "idle", task |-> CHOOSE t \in Tasks : TRUE]

LoopStates == [at : {"idle", "scan", "peeked", "claimed", "listed"},
               todo : SUBSET Sessions, slots : Nat, task : Tasks]
ExecStates == [at : Stages, out : Terminal]
ControlStates == [at : {"idle", "read", "unlisted"}, task : Tasks]

TypeOK ==
  /\ status \in [Tasks -> {"absent", "pending", "running"} \cup Terminal]
  /\ owner \in [Tasks -> Agents]
  /\ prio \in [Tasks -> {0, 50, 100}]
  /\ score \in [Tasks -> Nat]
  /\ pending \subseteq Tasks
  /\ active \subseteq (Sessions \cup Agents) \X Tasks
  /\ api \in [Tasks -> ApiStates]
  /\ alive \in [Workers -> BOOLEAN]
  /\ loop \in [Workers -> LoopStates]
  /\ exec \in [Workers -> [Tasks -> ExecStates]]
  /\ inbox \in [Workers -> SUBSET Tasks]
  /\ ctl \in [Workers -> ControlStates]
  /\ spent \in [crashes : 0 .. MaxCrashes, expiries : 0 .. MaxExpiries,
                cancels : 0 .. MaxCancels, lost : SUBSET Tasks]

Session(t) == SessionOf[owner[t]]

\* The sorted set of session s, and the members zrange(key, 0, 0) may return.
Queue(s) == {t \in pending : Session(t) = s}
Head(s) == {t \in Queue(s) : \A u \in Queue(s) : score[t] <= score[u]}

\* _running_tasks and _active_tasks of worker w.
Running(w) == {t \in Tasks : exec[w][t].at # "none"}
ActiveTasks(w) ==
  {t \in Tasks : exec[w][t].at \in {"executing", "saving", "unlisted", "written"}}

\* Worker w answers for task t: its loop claimed it or its asyncio task has it.
LoopHolds(w, t) == loop[w].at \in {"claimed", "listed"} /\ loop[w].task = t
Holds(w, t) == LoopHolds(w, t) \/ exec[w][t].at # "none"

\* Worker w has yet to write the final status of task t.
Owes(w, t) == Holds(w, t) /\ exec[w][t].at \notin {"written", "done"}

Init ==
  /\ status = [t \in Tasks |-> "absent"]
  /\ owner \in [Tasks -> Agents]
  /\ prio = [t \in Tasks |-> 0]
  /\ score = [t \in Tasks |-> 0]
  /\ pending = {}
  /\ active = {}
  /\ api = [t \in Tasks |-> "new"]
  /\ alive = [w \in Workers |-> TRUE]
  /\ loop = [w \in Workers |-> Idle]
  /\ exec = [w \in Workers |-> [t \in Tasks |-> NoRun]]
  /\ inbox = [w \in Workers |-> {}]
  /\ ctl = [w \in Workers |-> Quiet]
  /\ spent = [crashes |-> 0, expiries |-> 0, cancels |-> 0, lost |-> {}]

-----------------------------------------------------------------------------
(* The API request: process_agent_message calls enqueue, then waits.       *)

\* Variant: the clock fraction forgets its divisor and outweighs the class.
PriorityScoreUnscaled(p, f) == p * Resolution + 100 * f

PriorityScore(p, f) == p * Resolution + f

\* enqueue: set_json(task_key, ..., ex=TASK_TTL).
SaveTask(t) ==
  /\ api[t] = "new"
  /\ \E p \in Priorities, f \in 0 .. Resolution - 1 :
       /\ prio' = [prio EXCEPT ![t] = p]
       /\ score' = [score EXCEPT ![t] = PriorityScore(p, f)]
  /\ status' = [status EXCEPT ![t] = "pending"]
  /\ api' = [api EXCEPT ![t] = "saved"]
  /\ UNCHANGED <<owner, pending, active, worker, spent>>

\* enqueue: zadd(pending_key, ...) and the "agent_task_created" event.
AddPending(t) ==
  /\ api[t] = "saved"
  /\ pending' = pending \cup {t}
  /\ api' = [api EXCEPT ![t] = "waiting"]
  /\ UNCHANGED <<status, owner, prio, score, active, worker, spent>>

\* wait_for_completion: one poll that sees a terminal record, or that comes
\* after the timeout, or that finds no record.
Answer(t) ==
  /\ api[t] = "waiting"
  /\ api' = [api EXCEPT ![t] = IF status[t] \in Terminal THEN status[t] ELSE "timeout"]
  /\ UNCHANGED <<redis, worker, spent>>

\* The API process dies in enqueue or in wait_for_completion.
CrashApi(t) ==
  /\ api[t] \in {"saved", "waiting"}
  /\ spent.crashes < MaxCrashes
  /\ spent' = [spent EXCEPT !.crashes = @ + 1]
  /\ api' = [api EXCEPT ![t] = IF @ = "saved" THEN "orphan" ELSE "gone"]
  /\ UNCHANGED <<redis, worker>>

\* cancel_task: nothing but a broadcast, received by the live subscribers.
CancelTask(t) ==
  /\ status[t] # "absent"
  /\ spent.cancels < MaxCancels
  /\ spent' = [spent EXCEPT !.cancels = @ + 1]
  /\ inbox' = [w \in Workers |-> IF alive[w] THEN inbox[w] \cup {t} ELSE inbox[w]]
  /\ UNCHANGED <<redis, api, alive, loop, exec, ctl>>

\* Redis drops a record at the end of TASK_TTL or COMPLETED_TTL.  Both are
\* longer than AGENT_TASK_TIMEOUT, so no request is waiting for it any more.
Expire(t) ==
  /\ status[t] # "absent"
  /\ api[t] \notin {"saved", "waiting"}
  /\ spent.expiries < MaxExpiries
  /\ spent' = [spent EXCEPT !.expiries = @ + 1]
  /\ status' = [status EXCEPT ![t] = "absent"]
  /\ UNCHANGED <<owner, prio, score, pending, active, api, worker>>

-----------------------------------------------------------------------------
(* The worker's polling loop: _process_pending_tasks and _dequeue_task.    *)

\* The loop after it is done with session s, having spawned n tasks for it: it
\* goes on to another session of the set, or breaks off when the slots are used
\* up, whichever sessions it has not come to.
NextSession(w, s, n) ==
  LET todo == loop[w].todo \ {s}
      slots == loop[w].slots - n
  IN  IF todo = {} \/ slots <= 0
        THEN Idle
        ELSE [Idle EXCEPT !.at = "scan", !.todo = todo, !.slots = slots]

\* Variant: the free slots are counted from the tasks already executing.
PollCountsActive(w) ==
  LET left == {t \in Running(w) : exec[w][t].at # "done"}
      slots == PoolSize - Cardinality(ActiveTasks(w))
      todo == {Session(t) : t \in pending}
  IN  /\ alive[w] /\ loop[w].at = "idle"
      /\ slots > 0 /\ todo # {}
      /\ exec' = [exec EXCEPT ![w] = [t \in Tasks |-> IF t \in left THEN @[t] ELSE NoRun]]
      /\ loop' = [loop EXCEPT ![w] = [Idle EXCEPT !.at = "scan", !.todo = todo, !.slots = slots]]
      /\ UNCHANGED <<redis, api, alive, inbox, ctl, spent>>

\* Forget the asyncio tasks that are done, count the free slots, scan the keys.
Poll(w) ==
  LET left == {t \in Running(w) : exec[w][t].at # "done"}
      slots == PoolSize - Cardinality(left)
      todo == {Session(t) : t \in pending}
  IN  /\ alive[w] /\ loop[w].at = "idle"
      /\ slots > 0 /\ todo # {}
      /\ exec' = [exec EXCEPT ![w] = [t \in Tasks |-> IF t \in left THEN @[t] ELSE NoRun]]
      /\ loop' = [loop EXCEPT ![w] = [Idle EXCEPT !.at = "scan", !.todo = todo, !.slots = slots]]
      /\ UNCHANGED <<redis, api, alive, inbox, ctl, spent>>

\* zrange(pending_key, 0, 0).
Peek(w) ==
  /\ loop[w].at = "scan"
  /\ \E s \in loop[w].todo :
       \/ /\ Queue(s) = {}
          /\ loop' = [loop EXCEPT ![w] = NextSession(w, s, 0)]
       \/ \E t \in Head(s) :
            loop' = [loop EXCEPT ![w] = [@ EXCEPT !.at = "peeked", !.task = t]]
  /\ UNCHANGED <<redis, api, alive, exec, inbox, ctl, spent>>

\* Variant: the answer of zrem is not looked at.
ClaimUnchecked(w) ==
  /\ loop[w].at = "peeked"
  /\ pending' = pending \ {loop[w].task}
  /\ loop' = [loop EXCEPT ![w].at = "claimed"]
  /\ UNCHANGED <<status, owner, prio, score, active, api, alive, exec, inbox, ctl, spent>>

\* zrem(pending_key, task_id): the worker that removes the member has the task.
Claim(w) ==
  LET t == loop[w].task
  IN  /\ loop[w].at = "peeked"
      /\ pending' = pending \ {t}
      /\ loop' = [loop EXCEPT ![w] =
                    IF t \in pending THEN [@ EXCEPT !.at = "claimed"]
                                     ELSE NextSession(w, Session(t), 0)]
      /\ UNCHANGED <<status, owner, prio, score, active, api, alive, exec, inbox,
                     ctl, spent>>

\* sadd(active_key, task_id).
ListActive(w) ==
  LET t == loop[w].task
  IN  /\ loop[w].at = "claimed"
      /\ active' = active \cup {<<Session(t), t>>}
      /\ loop' = [loop EXCEPT ![w].at = "listed"]
      /\ UNCHANGED <<status, owner, prio, score, pending, api, alive, exec, inbox,
                     ctl, spent>>

\* Variant: the record is not marked running before the task is spawned.
SpawnUnmarked(w) ==
  LET t == loop[w].task
  IN  /\ loop[w].at = "listed"
      /\ exec' = [exec EXCEPT ![w][t].at = "spawned"]
      /\ loop' = [loop EXCEPT ![w] = NextSession(w, Session(t), 1)]
      /\ UNCHANGED <<redis, api, alive, inbox, ctl, spent>>

\* Read the record, mark it running and spawn the asyncio task; a record that
\* expired meanwhile is skipped.
Spawn(w) ==
  LET t == loop[w].task
  IN  /\ loop[w].at = "listed"
      /\ \/ /\ status[t] = "absent"
            /\ loop' = [loop EXCEPT ![w] = NextSession(w, Session(t), 0)]
            /\ UNCHANGED <<status, exec>>
         \/ /\ status[t] # "absent"
            /\ status' = [status EXCEPT ![t] = "running"]
            /\ exec' = [exec EXCEPT ![w][t].at = "spawned"]
            /\ loop' = [loop EXCEPT ![w] = NextSession(w, Session(t), 1)]
      /\ UNCHANGED <<owner, prio, score, pending, active, api, alive, inbox, ctl, spent>>

\* A call of Redis raises in _dequeue_task: the loop goes on with the next
\* session, and a task that was claimed is with nobody, its record marked
\* running or not.
DequeueFails(w) ==
  LET t == loop[w].task
  IN  /\ loop[w].at \in {"peeked", "claimed", "listed"}
      /\ spent.crashes < MaxCrashes
      /\ spent' = [spent EXCEPT !.crashes = @ + 1, !.lost = @ \cup {u \in Tasks : LoopHolds(w, u)}]
      /\ \/ UNCHANGED status
         \/ /\ loop[w].at = "listed" /\ status[t] # "absent"
            /\ status' = [status EXCEPT ![t] = "running"]
      /\ loop' = [loop EXCEPT ![w] = NextSession(w, Session(t), 0)]
      /\ UNCHANGED <<owner, prio, score, pending, active, api, alive, exec, inbox, ctl>>

-----------------------------------------------------------------------------
(* The asyncio task of one queue task: _process_task.                      *)

Advance(w, t, from, to) ==
  /\ exec[w][t].at = from
  /\ exec' = [exec EXCEPT ![w][t].at = to]

\* Under the semaphore: enter _active_tasks and hand the task to the orchestrator.
Begin(w, t) ==
  /\ Cardinality(ActiveTasks(w)) < PoolSize
  /\ Advance(w, t, "spawned", "executing")
  /\ UNCHANGED <<redis, api, alive, loop, inbox, ctl, spent>>

\* The orchestrator returns (_complete_task) or raises (_fail_task); either
\* reads the record first and does nothing more when there is none.
Finish(w, t) ==
  /\ exec[w][t].at = "executing"
  /\ \E out \in Terminal :
       exec' = [exec EXCEPT ![w][t] =
                  IF status[t] = "absent" THEN [NoRun EXCEPT !.at = "done"]
                                          ELSE [at |-> "saving", out |-> out]]
  /\ UNCHANGED <<redis, api, alive, loop, inbox, ctl, spent>>

\* srem(active_key, task_id).
Unlist(w, t) ==
  /\ exec[w][t].at = "saving"
  /\ exec' = [exec EXCEPT ![w][t].at = "unlisted"]
  /\ active' = active \ {<<Session(t), t>>}
  /\ UNCHANGED <<status, owner, prio, score, pending, api, alive, loop, inbox, ctl, spent>>

\* Variant: the final status is never written.
SettleSkipped(w, t) ==
  /\ Advance(w, t, "unlisted", "written")
  /\ UNCHANGED <<redis, api, alive, loop, inbox, ctl, spent>>

\* set_json(task_key, data, ex=COMPLETED_TTL) with the final status.
Settle(w, t) ==
  /\ Advance(w, t, "unlisted", "written")
  /\ status' = [status EXCEPT ![t] = exec[w][t].out]
  /\ UNCHANGED <<owner, prio, score, pending, active, api, alive, loop, inbox, ctl, spent>>

\* The event is published and the finally block leaves _active_tasks.
Leave(w, t) ==
  /\ Advance(w, t, "written", "done")
  /\ UNCHANGED <<redis, api, alive, loop, inbox, ctl, spent>>

\* A call of Redis raises while the result is saved.  _complete_task then falls
\* back on _fail_task, which reads the record; when that raises too, the
\* asyncio task is done and the record stays as it is.
SettleFails(w, t) ==
  /\ exec[w][t].at \in {"executing", "saving", "unlisted", "written"}
  /\ spent.crashes < MaxCrashes
  /\ \/ /\ exec[w][t].at # "executing" /\ exec[w][t].out = "completed"
        /\ exec' = [exec EXCEPT ![w][t] =
                      IF status[t] = "absent" THEN [NoRun EXCEPT !.at = "done"]
                                              ELSE [at |-> "saving", out |-> "failed"]]
        /\ spent' = [spent EXCEPT !.crashes = @ + 1]
     \/ /\ exec' = [exec EXCEPT ![w][t] = [NoRun EXCEPT !.at = "done"]]
        /\ spent' = [spent EXCEPT !.crashes = @ + 1,
                      !.lost = IF Owes(w, t) THEN @ \cup {t} ELSE @]
  /\ UNCHANGED <<redis, api, alive, loop, inbox, ctl>>

-----------------------------------------------------------------------------
(* The control listener: _handle_control_command for "cancel".  The other  *)
(* three commands change no state of the queue.                            *)

\* Ignore the command or start _fail_task, which reads the record.  It is enough
\* that the worker executes some task of the command's agent.
TakeCancel(w, t) ==
  /\ t \in inbox[w] /\ ctl[w].at = "idle"
  /\ inbox' = [inbox EXCEPT ![w] = @ \ {t}]
  /\ ctl' = IF /\ \E u \in ActiveTasks(w) : owner[u] = owner[t]
               /\ status[t] # "absent"
              THEN [ctl EXCEPT ![w] = [at |-> "read", task |-> t]]
              ELSE ctl
  /\ UNCHANGED <<redis, api, alive, loop, exec, spent>>

\* The key the listener's _fail_task builds ACTIVE_KEY from: the caller passes
\* self._active_tasks.get(task_id, ""), the agent of the task (or, when only another
\* task of the agent is active here, "": no session's identifier either).
CancelKey(t) == owner[t]

CancelUnlist(w) ==
  LET t == ctl[w].task
  IN  /\ ctl[w].at = "read"
      /\ active' = active \ {<<CancelKey(t), t>>}
      /\ ctl' = [ctl EXCEPT ![w].at = "unlisted"]
      /\ UNCHANGED <<status, owner, prio, score, pending, api, alive, loop, exec,
                     inbox, spent>>

\* Variant: the handler writes a status the workers do not know.
CancelSettleCancelled(w) ==
  /\ ctl[w].at = "unlisted"
  /\ status' = [status EXCEPT ![ctl[w].task] = "cancelled"]
  /\ ctl' = [ctl EXCEPT ![w] = Quiet]
  /\ UNCHANGED <<owner, prio, score, pending, active, api, alive, loop, exec, inbox, spent>>

CancelSettle(w) ==
  /\ ctl[w].at = "unlisted"
  /\ status' = [status EXCEPT ![ctl[w].task] = "failed"]
  /\ ctl' = [ctl EXCEPT ![w] = Quiet]
  /\ UNCHANGED <<owner, prio, score, pending, active, api, alive, loop, exec, inbox, spent>>

-----------------------------------------------------------------------------
(* Worker processes come and go.                                           *)

\* Variant: a stopping worker puts the tasks it was executing back into the queue.
StopWorkerRequeues(w) ==
  /\ alive[w]
  /\ spent.crashes < MaxCrashes
  /\ spent' = [spent EXCEPT !.crashes = @ + 1, !.lost = @ \cup {t \in Tasks : Owes(w, t)}]
  /\ alive' = [alive EXCEPT ![w] = FALSE]
  /\ loop' = [loop EXCEPT ![w] = Idle]
  /\ exec' = [exec EXCEPT ![w] = [t \in Tasks |-> NoRun]]
  /\ inbox' = [inbox EXCEPT ![w] = {}]
  /\ ctl' = [ctl EXCEPT ![w] = Quiet]
  /\ pending' = pending \cup ActiveTasks(w)
  /\ UNCHANGED <<status, owner, prio, score, active, api>>

\* A crash, or stop(): the asyncio tasks are cancelled (CancelledError passes
\* through "except Exception"), and nothing of Redis is put back.
StopWorker(w) ==
  /\ alive[w]
  /\ spent.crashes < MaxCrashes
  /\ spent' = [spent EXCEPT !.crashes = @ + 1, !.lost = @ \cup {t \in Tasks : Owes(w, t)}]
  /\ alive' = [alive EXCEPT ![w] = FALSE]
  /\ loop' = [loop EXCEPT ![w] = Idle]
  /\ exec' = [exec EXCEPT ![w] = [t \in Tasks |-> NoRun]]
  /\ inbox' = [inbox EXCEPT ![w] = {}]
  /\ ctl' = [ctl EXCEPT ![w] = Quiet]
  /\ UNCHANGED <<redis, api>>

\* start() of a new process.
StartWorker(w) ==
  /\ ~alive[w]
  /\ alive' = [alive EXCEPT ![w] = TRUE]
  /\ UNCHANGED <<redis, api, loop, exec, inbox, ctl, spent>>

-----------------------------------------------------------------------------

ApiNext(t) ==
  SaveTask(t) \/ AddPending(t) \/ Answer(t) \/ CrashApi(t) \/ CancelTask(t) \/ Expire(t)
LoopNext(w) == Poll(w) \/ Peek(w) \/ Claim(w) \/ ListActive(w) \/ Spawn(w)
ExecNext(w, t) == Begin(w, t) \/ Finish(w, t) \/ Unlist(w, t) \/ Settle(w, t) \/ Leave(w, t)
ControlNext(w) == (\E t \in Tasks : TakeCancel(w, t)) \/ CancelUnlist(w) \/ CancelSettle(w)

Next ==
  \/ \E t \in Tasks : ApiNext(t)
  \/ \E w \in Workers :
       \/ LoopNext(w) \/ ControlNext(w) \/ StopWorker(w) \/ StartWorker(w) \/ DequeueFails(w)
       \/ \E t \in Tasks : ExecNext(w, t) \/ SettleFails(w, t)

Spec == Init /\ [][Next]_vars

\* Event loops keep running what is ready, an execution ends (the LLM client has
\* a timeout), and a stopped worker is replaced.
Fairness ==
  /\ \A t \in Tasks : WF_vars(AddPending(t))
  /\ \A w \in Workers :
       /\ WF_vars(LoopNext(w)) /\ WF_vars(ControlNext(w)) /\ WF_vars(StartWorker(w))
       /\ \A t \in Tasks : WF_vars(ExecNext(w, t))

FairSpec == Spec /\ Fairness

-----------------------------------------------------------------------------
(* Safety.                                                                 *)

\* A task is with one worker at most, and not at all while it is pending: the
\* answer of zrem in _dequeue_task is what makes a claim exclusive, whatever the
\* other workers read before it.
SingleClaim ==
  \A t \in Tasks :
    /\ t \in pending => \A w \in Workers : ~Holds(w, t)
    /\ \A v, w \in Workers : Holds(v, t) /\ Holds(w, t) => v = w

\* A worker never has more asyncio tasks than its pool, although the free slots
\* are counted once per poll and spent over many awaits.
PoolBound == \A w \in Workers : Cardinality(Running(w)) <= PoolSize

\* What a client reads in the record agrees with the execution: while a worker
\* executes the task the record says running (failed once a cancel got through,
\* absent once it expired), and "completed" is only ever read of a task that is
\* neither pending nor before the end of its execution.
RecordTracksExecution ==
  \A t \in Tasks :
    /\ \A w \in Workers :
         exec[w][t].at \in {"spawned", "executing"} => status[t] \in {"running", "failed", "absent"}
    /\ "completed" \in {status[t], api[t]} =>
         t \notin pending /\ \A w \in Workers :
           ~LoopHolds(w, t) /\ exec[w][t].at \notin {"spawned", "executing"}

\* A task that was accepted is never just gone: until its record has a final
\* status (or met the end of its TTL) it is in the sorted set or with a worker
\* that will settle it, unless that worker stopped or could not reach Redis.
\* Nothing else loses a task: no race for it, full pool, cancel or timeout.
NothingDropped ==
  \A t \in Tasks :
    \/ api[t] \in {"new", "saved", "orphan"} \/ t \in pending
    \/ \E w \in Workers : Owes(w, t)
    \/ status[t] \in Terminal \cup {"absent"}
    \/ t \in spent.lost

\* _dequeue_task takes the best priority first: no pending task of the session
\* has a better class than the one zrange returned, for any clock fraction.
BestPriorityFirst ==
  [][\A w \in Workers :
       loop[w].at # "peeked" /\ loop'[w].at = "peeked" =>
         LET t == loop'[w].task
         IN  \A u \in Queue(Session(t)) : prio[t] <= prio[u]]_vars

\* The queue implements the life of a task that TaskLifecycle promises.
At(w, t) == IF LoopHolds(w, t) THEN "spawned" ELSE exec[w][t].at
Keeper(t) == {w \in Workers : At(w, t) \in {"spawned", "executing"}}
StageOf(t) ==
  CASE api[t] \in {"new", "saved", "orphan"} -> "new"
    [] t \in pending -> "queued"
    [] \E w \in Keeper(t) : At(w, t) = "spawned" -> "held"
    [] \E w \in Keeper(t) : At(w, t) = "executing" -> "running"
    [] OTHER -> "over"
HolderOf(t) == IF Keeper(t) = {} THEN Nobody ELSE CHOOSE w \in Keeper(t) : TRUE

Life == INSTANCE TaskLifecycle WITH stage <- [t \in Tasks |-> StageOf(t)],
                                    holder <- [t \in Tasks |-> HolderOf(t)]
RunAtMostOnce == Life!Spec

-----------------------------------------------------------------------------
(* Liveness.                                                               *)

\* When nothing crashes or expires, a task that is enqueued gets a final status.
EveryTaskSettles ==
  \A t \in Tasks :
    t \in pending ~> status[t] \in Terminal \/ spent.crashes + spent.expiries > 0

-----------------------------------------------------------------------------
(* What the comments say and the code does not do.                         *)

\* "Cancel a specific task" (cancel_task), "Mark task as cancelled" (worker): a
\* task the listener marked failed is not reported completed afterwards.
CancelIsFinal ==
  [][\A t \in Tasks : status[t] = "failed" => status'[t] # "completed"]_vars
=============================================================================
