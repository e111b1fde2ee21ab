--------------------------- MODULE AgentLifecycle ---------------------------
(***************************************************************************)
(* The status of one agent: the row of the agents table that the API's     *)
(* message task, its control routes (abort, force-stop, pause, resume) and *)
(* the watchdog write, while a worker of the agent service executes.       *)
(*                                                                         *)
(* A handler loads the row, awaits, and commits.  SQLAlchemy writes only   *)
(* the columns whose value differs from the one loaded, so a commit of the *)
(* value that was loaded writes nothing.                                   *)
(*                                                                         *)
(* The routes also publish their command.  A worker that executes the      *)
(* agent keeps it in _abort_requested or _paused_agents, which nothing     *)
(* reads, and tells the orchestrator, whose agents have neither an abort   *)
(* nor a pause flag: the execution goes on, so commands are left out.      *)
(***************************************************************************)
EXTENDS Naturals

CONSTANTS
  Messages,    \* user messages sent to the agent
  Handlers,    \* calls of the control routes
  Kinds,       \* routes in use: a subset of the four in RouteKinds
  Timeout,     \* AGENT_TIMEOUT_MINUTES, in units of the model's clock
  Production,  \* settings.ENVIRONMENT = "production"
  MaxCrashes   \* bound: message tasks lost with their API process

RouteKinds == {"abort", "force-stop", "pause", "resume"}

ASSUME LifecycleAssumption ==
  /\ Kinds \subseteq RouteKinds
  /\ Timeout \in Nat \ {0}
  /\ Production \in BOOLEAN
  /\ MaxCrashes \in Nat

VARIABLES
  status,     \* agent.status
  changed,    \* age of status_changed_at, capped at Timeout; Null when unset
  updated,    \* age of updated_at, capped at Timeout (onupdate of the row)
  since,      \* time since status last became "running", capped (history)
  msg,        \* process_agent_message for each message
  task,       \* the status of its queue task
  call,       \* the control routes' handlers
  watchdog,   \* the watchdog is between its query and its commit
  crashes

vars == <<status, changed, updated, since, msg, task, call, watchdog, crashes>>
row == <<status, changed, updated, since>>

Null == Timeout + 1
Statuses == {"idle", "running", "paused", "error"}

TypeOK ==
  /\ status \in Statuses
  /\ changed \in 0 .. Null /\ updated \in 0 .. Timeout /\ since \in 0 .. Timeout
  /\ msg \in [Messages -> {"new", "begun", "waiting", "answered", "failed", "lost"}]
  /\ task \in [Messages -> {"none", "pending", "running", "completed", "failed"}]
  /\ call \in [Handlers -> [at : {"new", "loaded", "done"}, kind : RouteKinds, seen : Statuses]]
  /\ watchdog \in BOOLEAN
  /\ crashes \in 0 .. MaxCrashes

Init ==
  /\ status = "idle" /\ changed = Null /\ updated = 0 /\ since = 0
  /\ msg = [m \in Messages |-> "new"]
  /\ task = [m \in Messages |-> "none"]
  /\ call = [h \in Handlers |-> [at |-> "new", kind |-> "abort", seen |-> "idle"]]
  /\ watchdog = FALSE
  /\ crashes = 0

\* Commit status s over a row that was loaded with status seen.
WriteStatus(s, seen) ==
  IF s = seen
    THEN UNCHANGED <<status, updated, since>>
    ELSE /\ status' = s
         /\ updated' = 0
         /\ since' = IF s = "running" /\ status # "running" THEN 0 ELSE since

-----------------------------------------------------------------------------
(* process_agent_message.                                                  *)

\* SELECT ... FOR UPDATE, status = "running", commit.
BeginMessage(m) ==
  /\ msg[m] = "new"
  /\ WriteStatus("running", status)
  /\ msg' = [msg EXCEPT ![m] = "begun"]
  /\ UNCHANGED <<changed, task, call, watchdog, crashes>>

EnqueueTask(m) ==
  /\ msg[m] = "begun"
  /\ task' = [task EXCEPT ![m] = "pending"]
  /\ msg' = [msg EXCEPT ![m] = "waiting"]
  /\ UNCHANGED <<row, call, watchdog, crashes>>

\* The task completed, or something failed and this is not production (a simulated
\* response stands in): store the reply and set the agent loaded at the start idle.
Reply(m) ==
  /\ msg[m] \in {"begun", "waiting"}
  /\ task[m] = "completed" \/ ~Production
  /\ WriteStatus("idle", "running")
  /\ msg' = [msg EXCEPT ![m] = "answered"]
  /\ UNCHANGED <<changed, task, call, watchdog, crashes>>

\* Variant: the failure is reported, the row rolled back and nothing written.
FailMessageSilent(m) ==
  /\ msg[m] \in {"begun", "waiting", "answered"}
  /\ msg' = [msg EXCEPT ![m] = "failed"]
  /\ UNCHANGED <<row, task, call, watchdog, crashes>>

\* The task failed, the wait timed out, or any other call raised, also one of those
\* that follow the commit of the reply (its events, the auto-compaction): roll
\* back, reload, status = "error".
FailMessage(m) ==
  /\ msg[m] \in {"begun", "waiting", "answered"}
  /\ WriteStatus("error", status)
  /\ msg' = [msg EXCEPT ![m] = "failed"]
  /\ UNCHANGED <<changed, task, call, watchdog, crashes>>

CrashMessage(m) ==
  /\ msg[m] \in {"begun", "waiting"}
  /\ crashes < MaxCrashes
  /\ crashes' = crashes + 1
  /\ msg' = [msg EXCEPT ![m] = "lost"]
  /\ UNCHANGED <<row, task, call, watchdog>>

-----------------------------------------------------------------------------
(* The worker of the agent service.                                        *)

\* The worker claims the task; the orchestrator's process_task begins.
BeginTask(m) ==
  /\ task[m] = "pending"
  /\ task' = [task EXCEPT ![m] = "running"]
  /\ UNCHANGED <<row, msg, call, watchdog, crashes>>

\* process_task returns: _complete_task reports even a failed execution completed.
EndTask(m) ==
  /\ task[m] = "running"
  /\ task' = [task EXCEPT ![m] = "completed"]
  /\ UNCHANGED <<row, msg, call, watchdog, crashes>>

\* submit_task raises (MAX_TASKS, no orchestrator): _fail_task.
RefuseTask(m) ==
  /\ task[m] = "running"
  /\ task' = [task EXCEPT ![m] = "failed"]
  /\ UNCHANGED <<row, msg, call, watchdog, crashes>>

-----------------------------------------------------------------------------
(* The control routes.                                                     *)

\* The status check that may answer 400.
MayServe(k, seen) ==
  /\ k = "pause" => seen = "running"
  /\ k = "resume" => seen = "paused"

\* Variant: the status is the name of what was asked.
StatusAfterNamed(k) ==
  CASE k \in {"abort", "force-stop"} -> "aborted"
    [] k = "pause" -> "paused"
    [] k = "resume" -> "running"

StatusAfter(k) ==
  CASE k \in {"abort", "force-stop"} -> "idle"
    [] k = "pause" -> "paused"
    [] k = "resume" -> "running"

\* Load the row and check it; the command published next changes nothing here.
LoadAgent(h) ==
  /\ call[h].at = "new"
  /\ \E k \in Kinds :
       /\ MayServe(k, status)
       /\ call' = [call EXCEPT ![h] = [at |-> "loaded", kind |-> k, seen |-> status]]
  /\ UNCHANGED <<row, msg, task, watchdog, crashes>>

CommitAgent(h) ==
  LET k == call[h].kind
  IN  /\ call[h].at = "loaded"
      /\ call' = [call EXCEPT ![h].at = "done"]
      /\ IF k = "force-stop"
           THEN /\ changed' = 0 /\ updated' = 0
                /\ status' = IF call[h].seen = "idle" THEN status ELSE "idle"
                /\ UNCHANGED since
           ELSE /\ WriteStatus(StatusAfter(k), call[h].seen)
                /\ UNCHANGED changed
      /\ UNCHANGED <<msg, task, watchdog, crashes>>

-----------------------------------------------------------------------------
(* agent_watchdog_background_task and the clock.                           *)

StatusTime == IF changed = Null THEN updated ELSE changed

\* Variant: any agent found running is taken for stuck.
FindStuckEager ==
  /\ ~watchdog
  /\ status = "running"
  /\ watchdog' = TRUE
  /\ UNCHANGED <<row, msg, task, call, crashes>>

\* Variant: only agents whose status_changed_at is set are looked at.
FindStuckDated ==
  /\ ~watchdog
  /\ status = "running" /\ changed # Null /\ changed >= Timeout
  /\ watchdog' = TRUE
  /\ UNCHANGED <<row, msg, task, call, crashes>>

\* The query finds the agent running and its status time before the threshold.
FindStuck ==
  /\ ~watchdog
  /\ status = "running" /\ StatusTime >= Timeout
  /\ watchdog' = TRUE
  /\ UNCHANGED <<row, msg, task, call, crashes>>

\* After the abort over HTTP was tried: status = "error", commit.
RecoverStuck ==
  /\ watchdog
  /\ status' = "error" /\ changed' = 0 /\ updated' = 0
  /\ watchdog' = FALSE
  /\ UNCHANGED <<since, msg, task, call, crashes>>

Older(age) == IF age < Timeout THEN age + 1 ELSE age

Tick ==
  /\ changed < Timeout \/ updated < Timeout \/ since < Timeout
  /\ changed' = IF changed = Null THEN Null ELSE Older(changed)
  /\ updated' = Older(updated)
  /\ since' = Older(since)
  /\ UNCHANGED <<status, msg, task, call, watchdog, crashes>>

-----------------------------------------------------------------------------

MessageNext(m) ==
  BeginMessage(m) \/ EnqueueTask(m) \/ Reply(m) \/ FailMessage(m) \/ CrashMessage(m)
TaskNext(m) == BeginTask(m) \/ EndTask(m) \/ RefuseTask(m)

Next ==
  \/ \E m \in Messages : MessageNext(m) \/ TaskNext(m)
  \/ \E h \in Handlers : LoadAgent(h) \/ CommitAgent(h)
  \/ FindStuck \/ RecoverStuck \/ Tick

Spec == Init /\ [][Next]_vars

\* Time passes, the watchdog runs its cycles and handlers that began end.
Fairness ==
  /\ WF_vars(Tick) /\ WF_vars(FindStuck) /\ WF_vars(RecoverStuck)
  /\ \A m \in Messages :
       /\ WF_vars(EnqueueTask(m))
       /\ WF_vars(Reply(m) \/ (msg[m] # "answered" /\ FailMessage(m)))
  /\ \A h \in Handlers : WF_vars(CommitAgent(h))

FairSpec == Spec /\ Fairness

-----------------------------------------------------------------------------

\* Until a message is lost or a resume is asked, the status says running only while
\* a message is being processed: each writer leaves the row in a state that does
\* not wait for someone who is gone.
RunningHasMessage ==
  crashes = 0 /\ (\A h \in Handlers : call[h].kind # "resume") /\ status = "running"
    => \E m \in Messages : msg[m] \in {"begun", "waiting"}

\* An agent whose status_changed_at was never written is taken for stuck only
\* when it has been running for AGENT_TIMEOUT_MINUTES, however its row is updated.
\* It is a property of the query: the recovery is written after the abort over
\* HTTP was tried, and may hit an agent that ended and is running anew.
WatchdogIsPatient ==
  [][~watchdog /\ watchdog' /\ changed = Null => since >= Timeout]_vars

\* No agent is left running for ever, whether its message was lost with the API
\* process, or a resume found nobody to resume.
RunningEnds == []<>(status # "running")

=============================================================================
