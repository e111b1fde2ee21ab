# podex in TLA+

podex runs coding agents in the cloud. A user talks to an agent from the web
application, the CLI or VS Code; the API service keeps the database and the
clients' sockets, the agent service runs the agents, the compute service runs
the workspaces' containers, and a local pod is a user's own machine that takes
the place of a container. API, agent and compute services run in several
processes and talk through PostgreSQL, Redis (queues, records with a time to
live, pub/sub) and HTTP.

What is hard is between the processes. A record in Redis, a row in the database
and an asyncio task say the same thing at three places, each is read before an
`await` and written after it, any process may stop between two awaits, pub/sub
forgets those who do not listen, and keys expire. The browser adds places of its
own: the store of each window, the cookies and local storage that its tabs share, and
the socket's rooms, each changed around requests that may fail, cross or come late.
The modules below model those protocols; the properties relate the places to each
other.

## 1. Inventory

Paths are below `src/services` unless they say otherwise.

| Component | State | Operations | Talks to | Hard behaviour |
|---|---|---|---|---|
| **Agent task queue** `api/src/services/task_queue.py`, `agent/src/queue/agent_worker.py` | task record (JSON with a TTL), sorted set of pending ids and set of active ids per session; the worker's loop, pool and listener | enqueue, wait for completion, cancel, poll, claim, execute, complete, fail, control commands | API routes, orchestrator, Redis | two workers at one task, cancel against completion, a worker that dies, a call of Redis that raises, a record that expires, sessions passed over, scores |
| **Agent status** `api/src/routes/agents.py`, `api/src/main.py` (watchdog) | `agents.status`, `status_changed_at`, `updated_at` | message, abort, force-stop, pause, resume, watchdog | queue, database | rows read before and written after awaits, an API process lost with a message, the watchdog's clock |
| **Subagents** `api/src/routes/subagents.py`, `agent/src/queue/subagent_worker.py` | row, record, queue, active set | spawn, get and progress (which copy the status), cancel, execute | Redis, database | the row learns of the end only when asked, cancel against claim, the limit |
| **Context compaction** `api/src/routes/context.py`, `agent/src/queue/compaction_worker.py` | conversation rows, task | ask, load, summarise, replace, report | Redis, database, model | messages that arrive meanwhile, two compactions at once, timestamps of transactions |
| **Approvals** `agent/src/tools/executor.py`, `agent/src/queue/approval_listener.py`, `api/src/websocket/hub.py`, clients | the call's future, the listener's registry, the row, the saved allowlist and the executor's, dialogs | ask, show, answer, record, publish, deliver, time out, save the allowlist | HTTP, sockets, pub/sub | contradicting answers, answers in the moment of the timeout, lost requests and responses, an allowlist changed between tasks |
| **Tokens of the web application** `packages/api-client`, `apps/web/src/lib/api.ts`, `stores/auth.ts` (below `src`), `api/src/routes/auth.py` | cookies and local storage of the browser, the auth store and the requests of each tab, rotated and revoked tokens in Redis | request, retry after 401, refresh, page load, sign-in, sign-out | Redis | refreshes of several tabs, answers that are lost, refreshes given up that the server still handles, errors of Redis, what happens within and after a sign-out |
| **Session rooms** `apps/web/src/lib/socket.ts`, `hooks/useAgentSocket.ts` (below `src`), `api/src/websocket/hub.py`, `api/src/streaming/subscriber.py` | each window's active session, its joins under way, one-time tokens, rooms, the worker's count of subscriptions and its listener | join, leave, reconnect, subscribe, unsubscribe, listen | socket, Redis streams | one task for each event, joins that overtake leaves, shared tokens, lost connections, leaves that fail |
| **Conversations** `apps/web/src/stores/session.ts`, `components/workspace/AgentCard.tsx` (below `src`), `api/src/routes/conversations.py`, `agents.py` | conversations, attachments and messages in the database, and a copy in each window | attach, make, send, reply, /clear, load a page | API, socket, database | copies changed before the answer or without a request, undone after a failure, events before the page is in its room, temporary messages matched by text |
| Local pod hub `api/src/websocket/local_pod_hub.py`, `local-pod/` | Redis registry of connections, pending calls of each API worker, the pod's row | connect, heartbeat, disconnect, call, routed request and response | pods, Redis pub/sub | reconnection to another worker, expired registration, two timeouts for one call |
| Workspace placement and store `compute/src/managers`, `compute/src/storage` | servers' capacity, containers, record and indices | create, stop, delete, heartbeat, status | Docker hosts, Redis | capacity read before it is used, partial creation, lost updates |
| Task lock and background tasks `compute/src/utils/task_lock.py`, `compute/src/main.py` | lock key | acquire, release | Redis | release after the lock passed on |
| In-memory subagent manager `agent/src/subagent/manager.py` | subagents by parent, asyncio tasks | spawn, wait, cancel | language model | a cancelled wait, limit before await |
| Orchestrator `agent/src/orchestrator.py` | agents, tasks, results | get or create, clean up, process | agents, queue | limits before awaits |
| Agent mesh `agent/src/mesh` | agents' status, callbacks | delegate, complete, fail | Redis streams | publish that fails after the state changed |
| Change sets `agent/src/changes/manager.py` | change sets and hunks | create, select, apply, reject | - | operations in any order |
| Credits `api/src/services/org_limits.py`, `credit_enforcement.py` | pool, allocation, spending, blocks | check, record and deduct, reset | database | check and deduction apart, lost updates |
| Terminals, publishing of tokens, documents and presence | relays | - | clients | order of bytes, nothing decides on them |
| API background tasks `api/src/main.py` | workspaces, quotas | provision, standby, health, reset | compute | two API processes at one workspace |
| Registration, device sign-in, MFA, OAuth, other routes, planning, memory, skills, providers, tools, shared library, user interfaces, deployment | - | - | - | sequential, single-row, or external |

What makes each correct: a task runs once and is settled; a status says what is
going on; a subagent's row and record agree; nothing said is forgotten; nothing
that must be asked runs unasked; a user is signed out only for a reason, and stays
signed out; a window is in the room it shows and gets what is sent there; a window shows
messages where the database has them; a call to a pod is answered or fails, and a
connected pod is reachable; a server holds what it can and every container is in
the store; a lock is with one holder; a limit bounds what it counts; a change set
is applied once; a balance is what was allocated less what was used.

`PROJECT.json` lists each component with its status, and the hazards at their
lines with the properties that watch them.

## 2. Modules

| Module | Models | Extends |
|---|---|---|
| `AgentTaskQueue` | the Redis queue of agent tasks, its API client, its workers | |
| `TaskLifecycle` | abstract: what the queue promises for a task | |
| `MCAgentTaskQueue` | instances of the queue | `AgentTaskQueue` |
| `AgentTaskQueue_proofs` | types, exclusive claims, no task dropped, bounded pool, true records, best class first; the queue implements `TaskLifecycle` | `AgentTaskQueue` |
| `AgentLifecycle` | the status row of one agent | |
| `AgentLifecycle_proofs` | types, running is served | `AgentLifecycle` |
| `Subagents` | the subagents of one parent | |
| `Subagents_proofs` | types, a cancel that wins is final, live records have an owner | `Subagents` |
| `ContextCompaction` | compactions of one conversation | |
| `ContextCompaction_proofs` | types, nothing is forgotten, nothing told twice, recent rows survive | `ContextCompaction` |
| `Approvals` | tool calls that ask a user | |
| `Approvals_proofs` | types, consent, rows, allowlist, registry, first answer | `Approvals` |
| `TokenRefresh` | the tokens of a browser's tabs and their refresh | |
| `MCTokenRefresh` | its symmetry | `TokenRefresh` |
| `TokenRefresh_proofs` | types, a sign-out holds, nobody is left waiting, the cookies' token counts, the alarm has a cause | `TokenRefresh` |
| `SessionRooms` | windows, rooms and stream subscriptions of one API worker | |
| `MCSessionRooms` | its symmetry | `SessionRooms` |
| `SessionRooms_proofs` | types, streams reach members, windows are in their rooms, leaving gives back | `SessionRooms` |
| `Conversations` | conversations in the database and in windows | |
| `MCConversations` | its symmetry | `Conversations` |
| `Conversations_proofs` | types, pointers agree, messages are in place, no temporary message is left over | `Conversations` |

In all of them one action is what the code does between two awaits, so that
everybody else may run in between. Operators called `...` and preceded by a
comment "Variant:" are what the code does *not* do; they are beside the
definition they would replace and are used only to see a property fail.

### AgentTaskQueue

`status`, `owner`, `prio`, `score` are fields of the task record, `pending`
the union of the sorted sets `PENDING_KEY` and `active` the sets `ACTIVE_KEY`; `api`
is the request that enqueued the task, `loop` the local variables of
`_process_pending_tasks` and `_dequeue_task`, `exec` the asyncio task of
`_process_task` (and through it `_running_tasks` and `_active_tasks`), `inbox` and
`ctl` the control listener.

| Action | Code |
|---|---|
| `SaveTask`, `AddPending` | `enqueue`: `set_json`, then `zadd` |
| `Answer` | one poll of `wait_for_completion` |
| `CancelTask` | `cancel_task`: only publishes |
| `Poll`, `Peek`, `Claim`, `ListActive`, `Spawn` | the scan, `zrange`, `zrem`, `sadd`, and reading the record, marking it and `create_task` |
| `Begin`, `Finish`, `Unlist`, `Settle`, `Leave` | the semaphore, the end of the execution and the read of the record, `srem`, `set_json`, the `finally` |
| `TakeCancel`, `CancelUnlist`, `CancelSettle` | `_handle_control_command` with "cancel", whose `_fail_task` gets the agent's id where it expects the session's (`CancelKey`) |
| `DequeueFails`, `SettleFails` | a call of Redis that raises in `_dequeue_task` or while the result is saved (`_complete_task` falls back on `_fail_task`) |
| `StopWorker`, `StartWorker`, `CrashApi`, `Expire` | processes and TTLs |

The scan of a poll goes through an unordered set of sessions and breaks off when the
free slots are used up (`NextSession`), so that a session may be passed over. `spent`
counts what the bounds allow, and remembers the tasks a failure lost (`spent.lost`).

The score is `PRIORITY_SCORES` plus `(time.time() % 100) / 100`; the model keeps
`Resolution` values of the fraction and lets any be drawn, since the clock starts
again every 100 seconds.

`TaskLifecycle` is the promise: a task is queued, taken by one worker, run once by
that worker, over, and never comes back. `RunAtMostOnce` says the queue implements
it; the mapping (`StageOf`, `HolderOf`) reads the stage from the queue and from who
has the task.

### AgentLifecycle

`process_agent_message` (`BeginMessage`, `EnqueueTask`, `Reply`, `FailMessage`), the
four control routes (`LoadAgent`, `CommitAgent`), the watchdog (`FindStuck`,
`RecoverStuck`) and time (`Tick`) write one row. SQLAlchemy writes a column only when
its value differs from the one loaded: `WriteStatus` models this, and that
`updated_at` then changes by `onupdate` while `status_changed_at` changes only where
the code sets it. The control commands that the routes publish are left out because
they change nothing: the worker keeps them in sets nobody reads, and the orchestrator
looks for flags the agents do not have.

### Subagents

Per subagent: `spawn` (the spawn route), `row`, `record`, the queue and the active
set, `poll` (get or progress, which copy the record's status to the row, `StatusOf`),
`cancel`, `exec` (the worker). The record and its place in the queue are written in
one step because nobody knows the task before. The API process may stop in the middle
of a spawn or a cancel (`CrashApi`, `CrashCancel`), and a call of Redis may raise
anywhere in the worker (`WorkerFails`), which then lets the task go, completes its
record, or falls back on failing it.

### ContextCompaction

A row of the conversation has a time and covers messages: one for a message, many
for a summary. A writer's transaction begins (`BeginWrite`, which fixes `created_at`)
and later commits. A compaction loads the rows and splits them (`Load`), has the old
ones summarised, and in one transaction inserts the summary and deletes exactly the
rows it had loaded (`Commit`). `Old` is the split by `preserve_recent_messages`,
with 0 meaning none are old, as the slice `[:-0]` of the code does.

### Approvals

`Execute` is `ToolExecutor.execute` up to the permission check: a call runs, is
blocked or asks. Asking registers the future (`registered`) and posts the request,
which becomes a row shown to the clients (`CreateRequest`) or is lost
(`LoseRequest`). A client answers once what it is shown (`Respond`); the API writes
the row (`UpdateRow`) and publishes (`Publish`) to the instances that listen at that
moment (`reached`). A response that comes resolves the future (`Deliver`); the call
goes on when its coroutine runs (`Resume`) or gives up (`Timeout`), also when the timer
of `wait_for` fires between the two, and the call is refused although it was granted.
"always" adds the command to the executor's allowlist. The saved one is rewritten at any
time (`SaveAllowlist`); a task carries the list saved when it was made, which takes the
place of the executor's when it starts (`StartTask`), unless it is empty.
`saved` is every list the row has had, since a task may carry an old one.

### TokenRefresh

An access token and the refresh token issued with it are a *pair*, named by its number;
0 is no pair. `issued`, `expired`, `revoked` and `rotated` are what the API and Redis
know of them, `jar` the cookies, `saved` the local storage, `store` the auth store of
each tab, `call` a tab's requests and `flight` its two refreshes, the one shared by
refused requests ("auto") and the one of a page load ("init"). `adrift` are the refreshes
that a page load or a lost answer made their tab give up, and that the server still
handles.

| Action | Code |
|---|---|
| `Request`, `Answer`, `Refused`, `RefusedAgain`, `Fail` | `requestWithRetry` and `attemptTokenRefresh` of the API client: one retry, after the tab's refresh |
| `CheckRefresh`, `Rotate` | `/api/auth/refresh`: the check of the token presented, then its rotation and the new pair |
| `CheckAdrift`, `RotateAdrift` | the same for a refresh whose answer nobody awaits |
| `Refreshed`, `RefreshFailed` | the answer, in `refreshToken` and `refreshAuth` |
| `Load`, `Login`, `ClearCookies`, `ClearStore` | `initializeAuth`, `login`, and `logout` before and after its request has been answered |
| `Expire` | the lifetime of the oldest access token |

`is_token_revoked` answers yes when Redis cannot be asked; `error` in `CheckRefresh`,
`Rotate` and `Refused` is that. `causes` remembers what has happened that can make a
token be presented twice, `alarm` that the API took one for reused and revoked all.
`ended` says that the last tab signed out, `late` which refreshes were under way then.

### SessionRooms

The server starts a task for each event of a window, so `tasks` holds the handlers of
each window in the order of their events, and each step of any of them may come next; one
that has ended stays, with nothing left to do. A join
waits for the connection (`waiting`), then for a one-time token, which joins that wait
together share (`fetch`, `Token`), is emitted, and on the server reads the token,
subscribes and enters the room (`ReadToken`, `Subscribe`, `EnterRoom`). A leave leaves
the room and unsubscribes (`LeaveRoom`, `Unsubscribe`). `count`, `subscribed`,
`running` and `alive` are the worker's `StreamSubscriber`. `Cut` is a lost connection,
whose handlers go on if their events had arrived (`Abandon`). The manager's reconnection
joins again (`Connect`, `Rejoin`); `connectSocket()` after the manager has given up does
not (`ConnectAnew`). `ListenerFails`, `LeaveFails` and `UnsubscribeFails` are errors of Redis
in the listener, before a leave has unsubscribed, and after it has lowered the count; an
error in a join is in `Subscribe`.

`held` and `causes` are history: what was counted on behalf of a window, and whether
its joins may have been refused ("refused"), its events handled in another order than its
pages came and went ("order"), or a leave of it ended by an error ("error"). The properties
say that among the steps modelled nothing else puts a window in a wrong room or a stream out
of step. What the presence panel joins is left out: it joins again whenever the users shown
change, and never leaves, so that a session it was open for keeps its stream.

### Conversations

`made`, `at`, `home` and `replies` are the database: conversations, the one attached to
each agent, and where each message and its reply are. `view` is the store of a window:
what it knows, each agent's conversation, each conversation's list of agents, and
what it shows. A click is a chain of requests (`call`); the window changes its copy
before the first answer (`AttachSession`, `SendMessage`), between two
(`ShowCreated`, `ShowAttached`), or takes it back (`Fail`, which detaches the *first*
agent of the list). `/clear` detaches the first agent as well, in the window alone
(`ClearConversation`). A page that loads (`Reload`) reads agents and conversations with
two requests and shows them (`Install`): from then on its user can click (`Ready`). Only
after more requests, its mount, a connection and a token is it in the room (`JoinRoom`,
`Here`), and what is told before does not come to it. `Stream`, `StoreReply` and `Receive`
are a message, its reply and what windows do on hearing of them.

`doubt`, `cleared` and `excused` are history: the agents of which a window may have the
wrong conversation because another page changed it or two of its own requests crossed,
those that a `/clear` left without one, and the messages that the window may then have
misplaced or missed. `conversation_attached` and `conversation_created` carry no session, and
the handlers drop what does not name theirs (`Heeds`), so no window hears of them: the run
`conversations_sync`.

Not modelled: a send that the user aborts; deleting and renaming, which no page calls;
the request that detaches, whose callback is passed on and never called; the refinement
of a plan, which sends without looking whether a message is under way and makes no
conversation; the phone's views; a window that loses its connection for a while, whose
missed events are missed like those before it joined the room.

## 3. Runs

TLC checks each with no error, except those marked, whose property the code breaks.

| Run | Properties | Shows | Bounds |
|---|---|---|---|
| `queue_safety` | `TypeOK` `SingleClaim` `RecordTracksExecution` `NothingDropped` `RunAtMostOnce` | claims are exclusive, record and execution agree, only failures lose a task, the queue implements its promise | 2 tasks, 2 workers of one slot, a failure (a process that stops or a call that raises), an expiry, a cancel |
| `queue_order` | `PoolBound` `BestPriorityFirst` | a pool of two never runs three, better classes first | 3 tasks in 2 sessions, 1 worker of two slots, 2 classes, 2 clock values |
| `queue_live` | `EveryTaskSettles` | every task gets a final status when nothing fails | 2 tasks in 2 sessions, 1 slot, 2 cancels |
| `status` | `TypeOK` `RunningHasMessage` `WatchdogIsPatient` `RunningEnds` | "running" means a message is processed, and ends | 2 messages, 2 calls of any route, timeout of 2, a lost message |
| `subagents` | `TypeOK` `LiveRecordHasOwner` `CancelBeforeClaimIsFinal` `RowFollowsRecord` | a live record has someone who will finish it, a cancel that beats the claim is final, a row that is asked for agrees with its record in the end | 1 subagent, 2 failures, an expiry |
| `compaction` | `TypeOK` `NothingForgotten` `RecentSurvives` `ToldOnce` `CompactionEnds` | no message is lost by compactions; unless two overlap, none is told twice and the recent ones are kept | 3 messages, 2 compactions, splits 0 to 2, a crash |
| `approvals` | `TypeOK` `RunsByConsent` `RowByAnswer` `AllowlistByConsent` `DecisionIsFollowed` `EveryCallEnds` | nothing runs without its own consent, the first answer decides | 2 calls, 2 clients, 2 answers, one command that is saved or not |
| `tokens` | `TypeOK` `AlarmHasCause` `StaleCookieIsTransient` `SignOutHolds` `WaiterHasRefresh` | what sets off the reuse alarm, that the cookies hold a live token, that a sign-out holds | 2 tabs, 2 requests each, 2 pairs, one refresh adrift, an error of Redis |
| `rooms` | `TypeOK` `InItsRoom` `StreamReachesMembers` `SubscriptionEnds` | a window ends up in the room it shows, and its stream with it | 2 windows, 2 sessions, 3 tokens, 4 pages opened, closed or faults |
| `conversations` | `TypeOK` `PointerAgrees` `InPlace` `NoGhosts` | a window that hears of a message shows it where the database has it | 1 window, 2 agents, 2 conversations, 2 clicks, 1 fault, `/clear` at any time |
| `queue_cancel` (violated) | `CancelIsFinal` | a cancelled task ends "completed" | 1 task |
| `conversations_sync` (violated) | `WindowsInSync` | two windows keep different conversations for an agent | 2 windows, 1 agent, nothing fails |

The largest are `queue_order` with 9.3 million distinct states, `tokens` with 3.3 and
`conversations` with 2.7, each between one and four minutes of two workers of TLC.

Why the bounds are enough.

- *Queue.* A race for a task needs two workers and one task; the second task lets a
  worker hold one while it claims the other, and lets a cancel meet the wrong one.
  A pool of two with three tasks is the least where the count of free slots and the
  spawned tasks can disagree, and it takes two sessions for one poll to spawn twice.
  One failure, one expiry and one cancel can each come at every step; a second of a
  kind finds a system that has no memory of the first, other than what the exclusive
  claim already covers. Two tasks that never come again cannot show a session passed over
  for ever, which the code does not exclude. Under `SYMMETRY` the
  `CHOOSE` in `Idle` and `Quiet` only fills a field that nobody reads in that state.
- *Status.* The rows are read by at most two handlers before a third writes; two
  messages and two calls give four writers besides the watchdog. A timeout of two
  units tells "just now", "a while" and "too long" apart.
- *Subagents.* The properties are about one subagent: two share only the count of
  the spawn route, which no property is about.
- *Compaction.* Two compactions may overlap at any point, one loaded before and one
  after any message; three messages are the least where both can have something old
  and something recent, and `RecentIsKept` covers all others. A third compaction meets the rows of the second as the
  second met those of the first.
- *Approvals.* One agent instance: an answer for a call of another instance is
  dropped by the same branch that drops a late one (`Deliver` when the call is not
  registered). Two calls let an answer meet the wrong call, two answers let a client
  contradict another, and every request or response may be lost. `Stores` lets each
  list that is saved be empty or not, which the code tells apart.
- *Tokens.* Two tabs are the least that can present one token twice, two requests (one
  of them the page load's) the least that share a refresh. The second pair is the one
  a refresh issues, so that the first can be old, rotated, lost or revoked while the
  second is issued; a third would only repeat it. Redis fails at most once, and one
  refresh at a time is given up and still to be handled. Access tokens expire in the
  order they were issued, that of the last pair not at all, `Request` is made on the
  pages of a user who is signed in, and besides the page loads' one request is open at a
  time, in either tab.
- *Rooms.* A window that switches between two sessions needs four turns: two pages
  opened and two closed, or fewer and a fault. Two windows tell the room of one from
  the worker's count for both. Three tokens let a join be refused and another follow.
- *Conversations.* One window has everything but what it misses of another, which is
  what `doubt` stands for; the second window is in `conversations_sync`. Two agents can
  share a conversation, which is what makes "the first agent" another than the card's,
  two clicks overlap at any point and both have the same text. One of them can fail, at any
  step, or meet a page that loads; a `/clear`, or a refusal by the database, may come any
  number of times.

`CHECK_DEADLOCK FALSE` is said everywhere since all these systems rest when nobody
asks for anything more.

### Fairness

Weak fairness is given to what an event loop that runs does next, and to timeouts.

- Queue: an enqueue that has begun ends; the worker's loop, executions (every model
  call has a timeout) and listener go on; a stopped worker is replaced by its
  supervisor. Nothing makes a particular *session* be looked at, and the code promises
  none: that a task settles rests on the others being finitely many.
- Status: time passes, the watchdog's task runs, a handler that began ends. An
  execution need not end.
- Subagents: event loops. Nobody is obliged to ask for a subagent, without which
  nothing tells the row that the task ended: `RowFollowsRecord` speaks of rows that are
  asked for again and again.
- Compaction: the worker's loop, and a model that answers or times out.
- Approvals: the wait has a timeout, and a coroutine whose future is set runs. No
  request is obliged to be shown, no user to answer and no response to arrive.
- Tokens, rooms and conversations state none: their properties are about what holds in
  every state, and at rest.

Crashes, expiries, cancels, lost messages and users have no fairness.

## 4. Theorems

All hold for every value of the constants that the `ASSUME` of the module allows
(finite sets where cardinalities are used, bounds in `Nat`, one session per agent;
for `Conversations` also a window, an agent and a text, which a call that has not begun
refers to, and a `None` that is no conversation).

| Theorem | States |
|---|---|
| `AgentTaskQueue_proofs!TypeCorrect` | `Spec => []TypeOK` |
| `AgentTaskQueue_proofs!ClaimsAreExclusive` | `Spec => []SingleClaim` |
| `AgentTaskQueue_proofs!PoolNeverExceeded` | `Spec => []PoolBound` |
| `AgentTaskQueue_proofs!RecordIsTrue` | `Spec => []RecordTracksExecution` |
| `AgentTaskQueue_proofs!NoTaskDropped` | `Spec => []NothingDropped` |
| `AgentTaskQueue_proofs!BestIsServedFirst` | `Spec => BestPriorityFirst` |
| `AgentTaskQueue_proofs!QueueKeepsPromise` | `Spec => RunAtMostOnce`, that is `Life!Spec` |
| `AgentLifecycle_proofs!TypeCorrect` | `Spec => []TypeOK` |
| `AgentLifecycle_proofs!RunningIsServed` | `Spec => []RunningHasMessage` |
| `Subagents_proofs!TypeCorrect` | `Spec => []TypeOK` |
| `Subagents_proofs!CancelledStaysCancelled` | `Spec => CancelBeforeClaimIsFinal` |
| `Subagents_proofs!LiveRecordsAreOwned` | `Spec => []LiveRecordHasOwner` |
| `ContextCompaction_proofs!TypeCorrect` | `Spec => []TypeOK` |
| `ContextCompaction_proofs!NothingIsForgotten` | `Spec => []NothingForgotten` |
| `ContextCompaction_proofs!NothingIsToldTwice` | `Spec => []ToldOnce` |
| `ContextCompaction_proofs!RecentIsKept` | `Spec => RecentSurvives` |
| `Approvals_proofs!TypeCorrect` | `Spec => []TypeOK` |
| `Approvals_proofs!NothingRunsUnasked` | `Spec => []RunsByConsent` |
| `Approvals_proofs!RecordsAreAnswers` | `Spec => []RowByAnswer` |
| `Approvals_proofs!AllowlistGrowsByAnswers` | `Spec => []AllowlistByConsent` |
| `Approvals_proofs!RegistryNeverLeaks` | `Spec => []RegistryIsExact` |
| `Approvals_proofs!FirstAnswerDecides` | `Spec => DecisionIsFollowed` |
| `TokenRefresh_proofs!TypeCorrect` | `Spec => []TypeOK` |
| `TokenRefresh_proofs!NothingSignsBackIn` | `Spec => []SignOutHolds` |
| `TokenRefresh_proofs!NobodyIsLeftWaiting` | `Spec => []WaiterHasRefresh` |
| `TokenRefresh_proofs!CookiesRecover` | `Spec => []StaleCookieIsTransient` |
| `TokenRefresh_proofs!AlarmIsExplained` | `Spec => []AlarmHasCause` |
| `SessionRooms_proofs!TypeCorrect` | `Spec => []TypeOK` |
| `SessionRooms_proofs!StreamReaches` | `Spec => []StreamReachesMembers` |
| `SessionRooms_proofs!RoomsMatch` | `Spec => []InItsRoom` |
| `SessionRooms_proofs!LeavingGivesBack` | `Spec => []SubscriptionEnds` |
| `Conversations_proofs!TypeCorrect` | `Spec => []TypeOK` |
| `Conversations_proofs!PointersAgree` | `Spec => []PointerAgrees` |
| `Conversations_proofs!MessagesInPlace` | `Spec => []InPlace` |
| `Conversations_proofs!NoGhostsLeft` | `Spec => []NoGhosts` |

The arguments.

- *Claims.* `SingleClaim` alone is not inductive: a task that was never added to the
  queue could be held, and then added. `ClaimInv` adds that a task whose request has
  not reached `zadd` is neither pending nor with a worker. Only `Claim` gives a task to
  a worker, and only when `zrem` found it; every other action keeps or shrinks who
  holds what (`HoldsShrinks`).
- *Pool.* The free slots are counted once per poll and spent over many awaits.
  `SlotInv` says that running tasks and the loop's remaining slots never exceed the
  pool together, and that the loop is inside a scan only with a slot left; a spawn
  moves one from the slots to the tasks (`CountGrows`).
- *Record.* `RecordInv` adds to the property that the loop lets a task go before the
  asyncio task has it, and that nothing is reported completed of a task not added yet.
  With exclusive claims, whoever writes "completed" is then the one that had the task,
  and nobody holds it afterwards.
- *No task dropped.* `NothingDropped` is inductive with the claims and the record
  (`Accounted`): each step that takes a task from where it is puts it at the next place, or
  writes its final status, or notes it in `spent.lost`. The claim is what makes "with a
  worker" one place, and the record what makes a task a cancel has failed count as final.
- *Priorities.* `BandInv` keeps each score between its class and the next number, and
  two classes differ by more than the fraction can add (`Bands`), so that the member of
  least score has the best class; only `zrange` brings the loop to a task it has peeked.
- *Implementation.* `ClaimInv` determines what `TaskLifecycle` sees of a task, its stage
  and its holder (`ViewOf`). A step of the queue then changes the view of one task, by the
  abstract action of that kind (`AddIsSubmit`, `ClaimIsTake`, `SpawnIsSeen`,
  `ExecIsSeen`), of all the tasks of a worker that stops (`StopIsQuit`), or of none.
- *Status.* `RunningHasMessage` needs to know that a route which nobody has called yet
  counts as no resume (`NewIsAbort`), or "no resume was asked" could become true again.
- *Subagents.* `CancelInv` says that a task in the queue was not claimed, that one not
  enqueued yet is with nobody and was not cancelled, and that a cancel whose `zrem`
  removed it leaves it out of the queue and unclaimed: no action puts it back, and only
  a claim leads to a write of the record by the worker (`OthersUntouched` covers the
  other tasks). `LiveRecordHasOwner` follows a record with it (`Owned`): who takes the task
  off the queue, the worker or the cancel, owes it a final status until it is written.
- *Compaction.* `CompactionInv` says that what a compaction loaded was told then and
  is covered by the summary it will insert (`SnapshotsAreTold`), so that deleting the
  loaded rows and inserting the summary takes nothing from what is told, whatever came
  or went meanwhile, including the other compaction's commit. `OnceInv` is about the time
  before two compactions overlap: at most one has a snapshot, all its rows are still there,
  and no two rows tell one message. `KeptInv` adds that each row of the snapshot has at
  least `preserve_recent_messages` rows after it, which stays true since until the commit
  rows are only added.
- *Approvals.* `ConsentInv` follows an answer from the client to the call: what a handler
  or a channel carries was answered by a user for that call, a decision was carried and its
  call waits (`DecidedCallsWait`), a row was written from what was carried, an allowlist from
  that or from a list the row has had, and a call that had to ask ran only after a decision
  that grants. `DecisionIsFollowed` needs `RegistryIsExact`: a second answer is dropped
  because the first has taken the call out of the registry.
- *Tokens.* After a sign-out (`Quiet`) no cookie, store or local storage has a token, and
  every refresh that is still open was refused, presents no token (`Harmless`), so that the
  server refuses it, or was under way already (`late`); a refresh begun later has nothing to
  present either. `WaiterHasRefresh` is inductive with the types: whoever ends a tab's
  shared refresh ends every wait of that tab in the same step. `CookieInv` says that the pair
  of a rotation whose answer has not come is in no cookie, store or refresh, given up or not,
  so that nothing rotates it before its answer puts it in the cookies; what else puts a pair
  there puts one just issued, and `Plain` sums up all the steps that issue and rotate nothing.
  A rotation that nobody awaits any more is noted when it is given up, or when the server
  makes it. `AloneInv` says that as long as there is no cause, no two refreshes present one
  token, those adrift included, and what they present was not rotated: so the check finds
  nothing to raise the alarm for.

- *Streams.* `StreamReachesMembers` needs an account. `Units` is the set of the subscribe
  calls not given back, and `BackInv` says that `count` is its size and that a window in a
  room, or about to enter it, has more units of it than its leaves under way (`Leavers`) will
  return: so whoever returns the last unit of a session leaves nobody in its room
  (`LastLeaver`). It rests on `TurnInv`, that a join about to enter waits for no earlier event
  of its window. Both hold while the record of every window shows no events out of order.
- *Rooms.* What a window has emitted, in handlers or in its buffer, is one sequence (`Sent`,
  `Event`). `Chain` says that the events still to be dealt with lead on from where the server
  has the window (`info`), each from the place where the one before it leads, and that the
  rooms agree with `info`; `Expected` that the place at the end of the sequence is the session
  the page shows, or that a join for it is still without a token. An event emitted at the end
  must fit there (`ChainEmit`), a handler in turn takes the first (`ChainAdvance`). A join
  is not refused because tokens are not shared: `TokenInv`.
- *Giving back.* As long as no connection was lost and nothing is on record, errors of
  Redis included, `CountInv` makes
  the account exact: a window has one unit of the session in whose room it is, and one for
  each leave under way. A join adds a unit only to a window in no room (`NotThere`, from
  `Chain`), and a leave that is no stray finds one.

- *Conversations, what calls know.* `Sound` adds to the types what a chain of requests knows
  at each stage: only a call that has still to make its conversation has none, a call
  with a page has one that has loaded and that knows what it attaches, a message with a place
  has been stored, and only such a message is told. A step moves at most one call (`Turns`),
  and the others keep what they know (`OthersStay`).
- *Pointers.* `PointerAgrees` speaks of windows at rest; `Agreed` says what holds on the way.
  As long as no request crossed another and no other page changed the agent, at most one call
  of the agent is open and its page is there. If it attaches, the window is ahead of the database
  (it has the conversation of the call); any other call is behind it from the commit to the
  answer; in between both have the same, and the window knows the conversation. A cleared agent
  has none until an answer gives it one, or the page loads; a `/clear` in the middle of a
  request for the agent leaves it in doubt instead, for the answer may come before or after.
- *Places.* `InPlace` is inductive once it also says what a stream that has begun remembers
  (`Placed`). What is left is that an event which names only the agent finds the conversation
  that holds its message: `RightConversation`, from `Pointers`; and that a page which joins the
  room has fetched what was told before, or is excused (`Has`).
- *Temporary messages.* Messages with one text replace each other's entries, so that no entry
  can be followed to its end; `Counted` counts them. In a conversation there are never more
  temporary messages of a text (`Ghosts`) than calls with that text whose message is still to
  come to that conversation (`Alives`), unless the window is excused for one of them. A call is
  such a call when its entry is added (`NewGhost`) and until its event comes (`AliveKept`),
  which takes one entry away, its own or another's (`ReceiveTakes`); a call whose events a page
  misses because it joins the room later is excused or was fetched. `Marked` gives what this
  needs: a page sends to the conversation it shows the message in, and the server stores it
  there or the window is excused. At rest no call is left, and so no entry.

What TLC alone checks: liveness (queue, status, subagents, compaction, approvals),
which the prover does not reach, and `WatchdogIsPatient`, which says little more than the
watchdog's query. Every other invariant and action property of the runs that pass is a
theorem.

## 5. What the models found

The two violated runs are in `PROJECT.json` as findings, with the line of the code
and the line it disagrees with: a cancelled task that runs is reported completed, and
the windows of a session do not hear of each other's conversations. Met on the way, and
without a run:

- the queue's "first in, first out" within a priority turns round every 100 seconds,
  when the clock's fraction in the score starts again;
- a poll that has used its slots breaks off its scan of an unordered set of sessions
  (`agent_worker.py:318`): which session is served next is left to chance;
- a call of Redis that raises after the claim, or twice while the result is saved, leaves a
  task with nobody and its record running (`NothingDropped` counts it as lost);
- the watchdog reads `status_changed_at`, which only force-stop and itself set: an agent
  that was once force-stopped is recovered as soon as it runs again;
- the limit on subagents counts rows, which learn that a subagent ended only when a
  client asks for it: ended subagents keep their place until then;
- two compactions that overlap can remove a row that is among the most recent: the first
  replaces several of the rows the second counted by one, which `RecentSurvives` excludes.
  It takes four messages, one of them begun first and committed last, and a split of 3;
- a compaction's summary gets a time after that of the messages that were kept, so it
  comes after them in the conversation;
- the alarm for a reused refresh token needs no thief: two tabs that refresh at once
  set it off (`AlarmHasCause`), as does an answer of a refresh that is lost, or one
  error of Redis;
- a join whose token comes after the page was closed puts the window into the room of
  a session it does not show; a leave of a window that was never counted ends the
  stream of others, and a lost connection leaves it on for ever;
- a listener that ended with an error stays marked as running, and no other is started;
- a leave that fails in Redis after the room was left keeps the stream on, also with
  nobody left; so does the presence panel, which joins and never leaves;
- after a reconnection that is not the manager's own the window is in no room;
- an attach that fails is undone by detaching the first agent of the conversation, and
  `/clear` detaches the first agent too, in the window only: until it gives the agent a
  conversation again, the window drops the agent's messages and replies;
- messages told between the fetch of a page and its join of the room, several requests
  later, are missing until the page is loaded again;
- an approval in the moment of the timeout is approved in the row and refused by the call;
- an allowlist that is emptied does not reach an agent in memory: `orchestrator.py:687`
  passes on only a list that is not empty, although `AgentModeSelector.tsx:314` tells the
  user that all commands will require approval;
- `logout()` waits for its answer with the tokens still in the store: a request refused in
  between refreshes, and its answer may come after the store was cleared and sign the user
  in again (`SignOutHolds` names it; `late`);
- a refresh that the page gave up is rotated by the server all the same, and the next one
  sets off the alarm;
- abort and pause stop nothing: the orchestrator sets flags the agents do not have,
  and a pause ends with the next reply, after which resume answers 400;
- the worker's cancel removes the task from the active set of the *agent*, not of the
  session (`CancelKey`), which is why a cancelled task stays listed until it ends;
- a cancel is taken by any worker that executes some task of the same agent, whatever
  the state of the cancelled one: a pending task is then answered "failed" and
  executed later all the same, and a finished one turns from completed to failed;
- a reply that was stored is followed by status "error" when one of its events, or
  the auto-compaction, raises (`FailMessage` after `Reply`), and a compaction that was
  committed is reported failed when something raises after it (`Fail`);
- an execution that fails in the orchestrator returns a result, and the queue reports
  it completed;
- spawn counts and then inserts: two requests can pass one free place;
- `preserve_recent_messages = 0` preserves everything, since `[:-0]` is empty;
- the row of an approval and what the agent did may disagree: a second answer
  overwrites the row, the first decides; a timeout leaves it pending ("expired" is
  never written);
- an "always allow" is lost at the agent's next task when the saved allowlist is not
  empty.

## 6. Not modelled, and why

- What a model says and a tool does: outcomes are chosen freely.
- Texts, tokens, costs, prompts, files: no property here tells them apart.
- Redis and PostgreSQL themselves: a command or a transaction is one step. Of the
  commands of a queue that fail with the process alive, those are modelled that can lose
  a task; one that fails in a poll or a request ends that, and the next comes.
- Streaming, terminals and the socket hub's relays: nothing decides on what they
  carry. The socket hub's handler of answers is in `Approvals`.
- Registration, device sign-in, MFA, OAuth and the routes over single rows: one
  transaction each, no interleaving of interest.
- Layout, forms and caches of the user interfaces; deployment.
- Several API workers in `SessionRooms`: a room and its subscription are those of one
  worker, and the count kept in Redis is read by nobody.

## 7. Plan

Left, in this order, each with the places where it is hard:

1. `LocalPodHub`: registry, calls, routing between API workers, disconnects; a pod that is
   connected and sends heartbeats is reachable; each call ends once; an abstract
   `RemoteCall` it implements. A disconnect reads the registry on the old worker while
   the pod reconnects to another (`local_pod_hub.py:357`), a heartbeat only extends a
   key that may be gone (line 103), a routed call has two time limits (line 809).
2. `WorkspacePlacement` with the store and the lock: capacity is read and used several
   awaits apart (`workspace_orchestrator.py:123`), heartbeat and status write the whole
   record back (`workspace_store.py:218`), a lock has no owner (`task_lock.py:87`).
3. `SubagentManager` and orchestrator limits: a waiter that is cancelled
   (`subagent/manager.py:328`), limits that are checked before an await.
4. `OrgCredits`: the check and the deduction are apart (`org_limits.py:606`).
5. `ChangeSets` (`changes/manager.py:302`: partial application) and the mesh, small.
6. Proofs: the safety of the modules above.
