------------------------------ MODULE Approvals ------------------------------
(***************************************************************************)
(* A native agent asks its user before it acts.  The tool executor checks  *)
(* the agent's mode and its command allowlist, registers a future with the *)
(* approval listener of its service instance, posts the request to the API *)
(* and waits five minutes.  The API stores a row and shows the request to  *)
(* every client of the session; an answer goes back through the row and a  *)
(* Redis channel that keeps nothing for a listener that is away.           *)
(***************************************************************************)
EXTENDS Naturals, Sequences

CONSTANTS
  Executors,   \* agents, each on a service instance of its own
  Calls,       \* calls of a tool, numbered in the order they are made
  Commands,    \* a command, with all those its allowlist pattern matches
  Clients,     \* clients of the session: browser tabs, editors
  Modes,       \* modes that users give the agents
  Stores,      \* allowlists that users saved with the agents
  MaxAnswers   \* bound: answers that clients give

ASSUME ApprovalsAssumption ==
  /\ Calls \subseteq Nat /\ Calls # {} /\ Executors # {}
  /\ Modes \subseteq {"plan", "ask", "auto", "sovereign"}
  /\ Stores \subseteq SUBSET Commands
  /\ MaxAnswers \in Nat
  /\ "none" \notin Commands

VARIABLES
  saved,       \* the allowlists that the agent's row has had: its tasks bring them
  built,       \* executors of an agent that is in memory
  allowlist,   \* the executor's command_allowlist
  call,        \* each call: its executor, tool and command, and where it is
  registered,  \* the listeners' _pending_approvals
  decision,    \* the result of a call's future, "none" until it is set
  post,        \* calls whose request is on its way to the API
  row,         \* agent_pending_approvals.status
  open,        \* the requests that a client shows
  handler,     \* the API's handling of a client's answer
  bus,         \* responses on their way to each listener
  answers,     \* what was answered to each call (history)
  given        \* how many answers that were

vars == <<saved, built, allowlist, call, registered, decision, post, row, open,
          handler, bus, answers, given>>

Kinds == {"read", "write", "command", "deploy"}
NoCommand == "none"  \* of a call that runs no command
Answers == {"allow", "always", "deny"}
Callings == [at : {"new", "waiting", "ran", "denied", "blocked", "dead"},
             by : Executors, cmd : Commands \cup {NoCommand}, asked : BOOLEAN]
Responses == [call : Calls, answer : Answers]
Handlings == [at : {"update", "publish"}, response : Responses]

Idle == [at |-> "idle"]

TypeOK ==
  /\ saved \in [Executors -> SUBSET Stores]
  /\ built \subseteq Executors
  /\ allowlist \in [Executors -> SUBSET Commands]
  /\ call \in [Calls -> Callings]
  /\ registered \subseteq Calls
  /\ decision \in [Calls -> Answers \cup {"none"}]
  /\ post \subseteq Calls
  /\ row \in [Calls -> {"none", "pending", "approved", "rejected"}]
  /\ open \in [Clients -> SUBSET Calls]
  /\ handler \in [Clients -> Handlings \cup {Idle}]
  /\ bus \in [Executors -> Seq(Responses)]
  /\ answers \in [Calls -> SUBSET Answers]
  /\ given \in Nat

Init ==
  /\ saved \in [Executors -> {{list} : list \in Stores}]
  /\ built = {}
  /\ allowlist = [e \in Executors |-> {}]
  /\ call = [c \in Calls |->
               [at |-> "new", by |-> CHOOSE e \in Executors : TRUE, cmd |-> NoCommand,
                asked |-> FALSE]]
  /\ registered = {}
  /\ decision = [c \in Calls |-> "none"]
  /\ post = {}
  /\ row = [c \in Calls |-> "none"]
  /\ open = [u \in Clients |-> {}]
  /\ handler = [u \in Clients |-> Idle]
  /\ bus = [e \in Executors |-> <<>>]
  /\ answers = [c \in Calls |-> {}]
  /\ given = 0

Grants(a) == a \in {"allow", "always"}

-----------------------------------------------------------------------------
(* The executor.                                                           *)

\* _check_permission: what the mode forbids, and what it asks the user about.
Blocked(m, kind) == m = "plan" /\ kind # "read"

NeedsApproval(e, m, kind, cmd) ==
  \/ m = "ask" /\ kind # "read"
  \/ m = "auto" /\ kind = "deploy"
  \/ m = "auto" /\ kind = "command" /\ cmd \notin allowlist[e]

\* A task in some mode calls a tool: the call is refused, runs, or its request is
\* registered and posted.  The executor then waits, whatever becomes of the request:
\* _notify_approval_request only logs an error or its timeout of 30 seconds.
Execute(c, e, m, kind, cmd) ==
  LET asks == NeedsApproval(e, m, kind, cmd)
  IN  /\ e \in built
      /\ call[c].at = "new" /\ \A d \in Calls : d < c => call[d].at # "new"
      /\ kind = "command" <=> cmd # NoCommand
      /\ call' = [call EXCEPT ![c] =
           [at |-> IF Blocked(m, kind) THEN "blocked" ELSE IF asks THEN "waiting" ELSE "ran",
            by |-> e, cmd |-> cmd, asked |-> asks]]
      /\ registered' = IF asks THEN registered \cup {c} ELSE registered
      /\ post' = IF asks THEN post \cup {c} ELSE post
      /\ UNCHANGED <<saved, built, allowlist, decision, row, open, handler, bus, answers,
                     given>>

\* Variant: an approved command is remembered whatever the answer asked for.
ResumeAddAll(c) ==
  LET ok == Grants(decision[c])
      e == call[c].by
  IN  /\ call[c].at = "waiting" /\ decision[c] # "none"
      /\ call' = [call EXCEPT ![c].at = IF ok THEN "ran" ELSE "denied"]
      /\ allowlist' = IF ok /\ call[c].cmd # NoCommand
                      THEN [allowlist EXCEPT ![e] = @ \cup {call[c].cmd}] ELSE allowlist
      /\ decision' = [decision EXCEPT ![c] = "none"]
      /\ UNCHANGED <<saved, built, registered, post, row, open, handler, bus, answers,
                     given>>

\* The future has its result: a command that is always allowed joins the allowlist,
\* and an approved call runs.
Resume(c) ==
  LET e == call[c].by
  IN  /\ call[c].at = "waiting" /\ decision[c] # "none"
      /\ call' = [call EXCEPT ![c].at = IF Grants(decision[c]) THEN "ran" ELSE "denied"]
      /\ allowlist' = IF decision[c] = "always" /\ call[c].cmd # NoCommand
                      THEN [allowlist EXCEPT ![e] = @ \cup {call[c].cmd}] ELSE allowlist
      /\ decision' = [decision EXCEPT ![c] = "none"]
      /\ UNCHANGED <<saved, built, registered, post, row, open, handler, bus, answers,
                     given>>

\* Variant: the deadline is looked at only when an answer wakes the executor.
TimeoutNever(c) ==
  /\ call[c].at = "waiting" /\ decision[c] # "none"
  /\ call' = [call EXCEPT ![c].at = "denied"]
  /\ registered' = registered \ {c}
  /\ UNCHANGED <<saved, built, allowlist, decision, post, row, open, handler, bus, answers,
                 given>>

\* Five minutes have passed: the call is denied and unregistered, also when a
\* response has just set its future and the executor has not run since.
Timeout(c) ==
  /\ call[c].at = "waiting"
  /\ call' = [call EXCEPT ![c].at = "denied"]
  /\ registered' = registered \ {c}
  /\ decision' = [decision EXCEPT ![c] = "none"]
  /\ UNCHANGED <<saved, built, allowlist, post, row, open, handler, bus, answers,
                 given>>

\* update_agent_mode: the user saves another allowlist.
SaveAllowlist(e, list) ==
  /\ saved' = [saved EXCEPT ![e] = @ \cup {list}]
  /\ UNCHANGED <<built, allowlist, call, registered, decision, post, row, open,
                 handler, bus, answers, given>>

\* The agent's next task brings the allowlist that the row had when its message was
\* sent, however long ago.  An empty one reaches only an agent that is built for the
\* task; calls of an earlier task may still wait.
StartTask(e, list) ==
  /\ list \in saved[e]
  /\ allowlist' = [allowlist EXCEPT ![e] = IF list = {} /\ e \in built THEN @ ELSE list]
  /\ built' = built \cup {e}
  /\ UNCHANGED <<saved, call, registered, decision, post, row, open, handler, bus,
                 answers, given>>

\* The instance stops with its agent and its futures.
Crash(e) ==
  LET lost == {c \in Calls : call[c].by = e /\ call[c].at = "waiting"}
  IN  /\ call' = [c \in Calls |-> IF c \in lost THEN [call[c] EXCEPT !.at = "dead"]
                                                ELSE call[c]]
      /\ registered' = registered \ lost
      /\ bus' = [bus EXCEPT ![e] = <<>>]
      /\ built' = built \ {e}
      /\ allowlist' = [allowlist EXCEPT ![e] = {}]
      /\ decision' = [c \in Calls |-> IF c \in lost THEN "none" ELSE decision[c]]
      /\ UNCHANGED <<saved, post, row, open, handler, answers, given>>

-----------------------------------------------------------------------------
(* The listener.                                                           *)

\* Variant: a response resolves the oldest future there is.
DeliverToAny(e) ==
  LET mine == {c \in registered : call[c].by = e}
      m == Head(bus[e])
  IN  /\ bus[e] # <<>>
      /\ bus' = [bus EXCEPT ![e] = Tail(@)]
      /\ \/ /\ mine = {} /\ UNCHANGED <<registered, decision>>
         \/ \E c \in mine : /\ registered' = registered \ {c}
                            /\ decision' = [decision EXCEPT ![c] = m.answer]
      /\ UNCHANGED <<saved, built, allowlist, call, post, row, open, handler, answers,
                     given>>

\* Variant: the future stays in the registry, to be removed by its executor.
DeliverAgain(e) ==
  LET m == Head(bus[e])
      mine == call[m.call].by = e /\ call[m.call].at = "waiting"
  IN  /\ bus[e] # <<>>
      /\ bus' = [bus EXCEPT ![e] = Tail(@)]
      /\ decision' = IF mine THEN [decision EXCEPT ![m.call] = m.answer] ELSE decision
      /\ UNCHANGED <<saved, built, allowlist, call, registered, post, row, open, handler,
                     answers, given>>

\* The future registered under the response's id, if this instance has one, is taken
\* out of the registry and set; any other response is another's, or late.
Deliver(e) ==
  LET m == Head(bus[e])
      mine == m.call \in registered /\ call[m.call].by = e
  IN  /\ bus[e] # <<>>
      /\ bus' = [bus EXCEPT ![e] = Tail(@)]
      /\ registered' = IF mine THEN registered \ {m.call} ELSE registered
      /\ decision' = IF mine THEN [decision EXCEPT ![m.call] = m.answer] ELSE decision
      /\ UNCHANGED <<saved, built, allowlist, call, post, row, open, handler, answers,
                     given>>

-----------------------------------------------------------------------------
(* The API and its clients.                                                *)

\* create_approval_request: a pending row, shown to every client.  It may come after
\* the executor gave up on its request.
CreateRequest(c) ==
  /\ c \in post
  /\ post' = post \ {c}
  /\ row' = [row EXCEPT ![c] = "pending"]
  /\ open' = [u \in Clients |-> open[u] \cup {c}]
  /\ UNCHANGED <<saved, built, allowlist, call, registered, decision, handler, bus, answers,
                 given>>

\* The API is away, or does not know the agent: the executor waits all the same.
LoseRequest(c) ==
  /\ c \in post
  /\ post' = post \ {c}
  /\ UNCHANGED <<saved, built, allowlist, call, registered, decision, row, open, handler,
                 bus, answers, given>>

\* A client answers what it shows.  Nothing takes the request off the other clients.
Respond(u, c, a) ==
  /\ c \in open[u] /\ handler[u] = Idle
  /\ given < MaxAnswers
  /\ given' = given + 1
  /\ open' = [open EXCEPT ![u] = @ \ {c}]
  /\ handler' = [handler EXCEPT ![u] =
                   [at |-> "update", response |-> [call |-> c, answer |-> a]]]
  /\ answers' = [answers EXCEPT ![c] = @ \cup {a}]
  /\ UNCHANGED <<saved, built, allowlist, call, registered, decision, post, row, bus>>

\* Variant: the row is approved unless someone rejected it before.
UpdateRowSticky(u) ==
  LET c == handler[u].response.call
  IN  /\ handler[u].at = "update"
      /\ handler' = [handler EXCEPT ![u].at = "publish"]
      /\ row' = [row EXCEPT ![c] = IF @ = "pending" THEN "approved" ELSE @]
      /\ UNCHANGED <<saved, built, allowlist, call, registered, decision, post, open, bus,
                     answers, given>>

\* Variant: the client's own word goes into the row.
UpdateRowRaw(u) ==
  LET c == handler[u].response.call
  IN  /\ handler[u].at = "update"
      /\ handler' = [handler EXCEPT ![u].at = "publish"]
      /\ row' = [row EXCEPT ![c] = handler[u].response.answer]
      /\ UNCHANGED <<saved, built, allowlist, call, registered, decision, post, open, bus,
                     answers, given>>

\* native_approval_response writes the answer over whatever status the row has, if
\* there is a row and the database does not fail.
UpdateRow(u) ==
  LET c == handler[u].response.call
      status == IF Grants(handler[u].response.answer) THEN "approved" ELSE "rejected"
  IN  /\ handler[u].at = "update"
      /\ handler' = [handler EXCEPT ![u].at = "publish"]
      /\ row' \in {row, [row EXCEPT ![c] = IF @ = "none" THEN @ ELSE status]}
      /\ UNCHANGED <<saved, built, allowlist, call, registered, decision, post, open, bus,
                     answers, given>>

\* ... and publishes it: it reaches the listeners that are subscribed just then,
\* none if Redis fails.
Publish(u, reached) ==
  /\ handler[u].at = "publish"
  /\ handler' = [handler EXCEPT ![u] = Idle]
  /\ bus' = [e \in Executors |-> IF e \in reached THEN Append(bus[e], handler[u].response)
                                                 ELSE bus[e]]
  /\ UNCHANGED <<saved, built, allowlist, call, registered, decision, post, row, open,
                 answers, given>>

\* force_stop_agent deletes the agent's pending rows; its calls go on waiting.
ForceStop(e) ==
  /\ row' = [c \in Calls |-> IF call[c].by = e /\ row[c] = "pending" THEN "none" ELSE row[c]]
  /\ UNCHANGED <<saved, built, allowlist, call, registered, decision, post, open, handler,
                 bus, answers, given>>

-----------------------------------------------------------------------------

Next ==
  \/ \E c \in Calls : \/ \E e \in Executors, m \in Modes, kind \in Kinds,
                         cmd \in Commands \cup {NoCommand} :
                           Execute(c, e, m, kind, cmd)
                      \/ Resume(c) \/ Timeout(c)
                      \/ CreateRequest(c) \/ LoseRequest(c)
  \/ \E e \in Executors : \/ \E list \in Stores : SaveAllowlist(e, list) \/ StartTask(e, list)
                          \/ Crash(e) \/ Deliver(e) \/ ForceStop(e)
  \/ \E u \in Clients : \/ \E c \in Calls, a \in Answers : Respond(u, c, a)
                        \/ UpdateRow(u)
                        \/ \E reached \in SUBSET Executors : Publish(u, reached)

Spec == Init /\ [][Next]_vars

\* The client of the callback and the wait have timeouts, and a coroutine whose future
\* is set runs again.  Nothing makes a user answer or a response arrive.
FairSpec ==
  Spec /\ \A c \in Calls : WF_vars(Resume(c) \/ Timeout(c))

-----------------------------------------------------------------------------

\* A call that had to ask runs only if a user granted that very call; the answers to
\* another call, late answers and timeouts never let it run.
RunsByConsent ==
  \A c \in Calls : call[c].asked /\ call[c].at = "ran" => \E a \in answers[c] : Grants(a)

\* A row that is decided tells an answer that some user gave to it.
RowByAnswer ==
  \A c \in Calls :
    /\ row[c] = "approved" => \E a \in answers[c] : Grants(a)
    /\ row[c] = "rejected" => "deny" \in answers[c]

\* A command that auto mode runs unasked was saved with the agent, at that time or
\* before, or a user answered "always" to that command of that agent.  That it is still
\* saved is not promised: emptying the list does not reach an agent in memory.
AllowlistByConsent ==
  \A e \in Executors : \A cmd \in allowlist[e] \ UNION saved[e] :
    \E c \in Calls : call[c].by = e /\ call[c].cmd = cmd /\ "always" \in answers[c]

\* The registry holds exactly the calls that still can be answered: nothing is left
\* behind by a timeout, a response or a crash, and no waiting call is deaf.
RegistryIsExact ==
  registered = {c \in Calls : call[c].at = "waiting" /\ decision[c] = "none"}

\* The first answer that reaches a call decides it: no later one, of the same client
\* or another, takes its place.  Only the timeout of that moment, or a stop of the
\* instance, turns a grant into a refusal; nothing turns a refusal into a grant.
DecisionIsFollowed ==
  [][\A c \in Calls :
       decision[c] # "none" =>
         \/ decision'[c] = decision[c] /\ call'[c].at = "waiting"
         \/ call'[c].at = "ran" /\ Grants(decision[c])
         \/ call'[c].at \in {"denied", "dead"}]_vars

\* A call never waits forever, whatever was lost.
EveryCallEnds ==
  \A c \in Calls : call[c].at = "waiting" ~> call[c].at \in {"ran", "denied", "dead"}
==============================================================================
