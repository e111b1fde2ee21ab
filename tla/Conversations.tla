---------------------------- MODULE Conversations ----------------------------
(***************************************************************************)
(* Conversations, the agents they are attached to and their messages: in   *)
(* the database (routes/conversations.py, send_message of agents.py), and  *)
(* in the store of each browser window (stores/session.ts, AgentCard,      *)
(* useAgentSocket).  A window changes its copy around the API calls it     *)
(* makes, and hears of messages and replies in the session's room.  The    *)
(* conversation_attached and conversation_created events name no session,  *)
(* and the client's handlers drop an event that does not name theirs.      *)
(***************************************************************************)
EXTENDS Naturals, Sequences, FiniteSets, SequencesExt

CONSTANTS
  Windows, Agents, Convs,
  Texts,       \* what users type: two messages with one text are taken for one in places
  None,        \* no conversation, or no session
  MaxCalls,    \* bound on what the users do
  MaxFaults    \* bound on the requests that fail and the pages loaded again

ASSUME ConversationAssumption ==
  /\ Windows # {} /\ Agents # {} /\ Texts # {} /\ IsFiniteSet(Agents)
  /\ None \notin Convs /\ {MaxCalls, MaxFaults} \subseteq Nat

Calls == 1 .. MaxCalls

VARIABLES
  made,      \* conversations in the database
  at,        \* the conversation attached to each agent (agent_conversation_attachments)
  home,      \* the conversation that holds the user message of each call
  replies,   \* calls whose reply is stored in that conversation
  call,      \* the chain of requests of each click
  sent,      \* events emitted for each message: the message, stream start, stream end
  got,       \* how many of them each window has been sent
  view,      \* the store of each window
  streams,   \* streamingMessages of each window
  loading,   \* what a page that loads has still to do
  faults,    \* requests that failed and pages loaded again so far
  doubt,     \* agents of which a window may have the wrong conversation
  cleared,   \* agents that a window has none for since a /clear, which the server never hears of
  excused    \* messages that a window may not have, or may have misplaced

server == <<made, at, home, replies>>
window == <<view, streams, loading>>
why == <<doubt, cleared, excused>>
vars == <<server, call, sent, got, window, faults, why>>

Entries == Calls \X {"temp", "user", "reply"}
\* A list of agents has no agent twice.
Lists == {l \in Seq(Agents) : IsInjective(l)}
Views ==
  [known : SUBSET Convs, points : [Agents -> Convs \cup {None}], lists : [Convs -> Lists],
   shown : [Convs -> SUBSET Entries]]
Stages == {"idle", "create", "created", "attach", "read", "attached", "refused",
           "send", "routed", "stored", "done"}
Chains ==
  [kind : {"attach", "new", "send"}, w : Windows, a : Agents, c : Convs \cup {None},
   text : Texts, at : Stages, saw : Convs \cup {None}, page : BOOLEAN]

TypeOK ==
  /\ made \subseteq Convs
  /\ at \in [Agents -> made \cup {None}]
  /\ home \in [Calls -> made \cup {None}]
  /\ replies \subseteq {k \in Calls : home[k] # None}
  /\ call \in [Calls -> Chains]
  /\ sent \in [Calls -> 0 .. 3] /\ got \in [Windows -> [Calls -> 0 .. 3]]
  /\ \A w \in Windows, k \in Calls : got[w][k] <= sent[k]
  /\ view \in [Windows -> Views]
  /\ loading \in [Windows -> SUBSET {"agents", "conversations", "show", "join"}]
  /\ streams \subseteq Windows \X Calls
  /\ faults \in 0 .. MaxFaults
  /\ doubt \subseteq Windows \X Agents /\ cleared \subseteq Windows \X Agents
  /\ excused \subseteq Windows \X Calls

-----------------------------------------------------------------------------
(* The database and what a page reads of it.                               *)

Attached(c) == SetToSeq({a \in Agents : at[a] = c})
Stored(c) ==
  {<<k, "user">> : k \in {k \in Calls : home[k] = c}}
    \cup {<<k, "reply">> : k \in {k \in replies : home[k] = c}}
AsStored ==
  [known |-> made, points |-> at, lists |-> [c \in Convs |-> Attached(c)],
   shown |-> [c \in Convs |-> Stored(c)]]
NoCall(w, a, t) ==
  [kind |-> "attach", w |-> w, a |-> a, c |-> None, text |-> t, at |-> "idle",
   saw |-> None, page |-> FALSE]

Init ==
  /\ made \in SUBSET Convs
  /\ at \in [Agents -> made \cup {None}]
  /\ home = [k \in Calls |-> None] /\ replies = {}
  /\ call = [k \in Calls |-> NoCall(CHOOSE w \in Windows : TRUE, CHOOSE a \in Agents : TRUE,
                                    CHOOSE t \in Texts : TRUE)]
  /\ sent = [k \in Calls |-> 0] /\ got = [w \in Windows |-> sent]
  /\ view = [w \in Windows |-> AsStored]
  /\ streams = {} /\ faults = 0
  /\ loading = [w \in Windows |-> {}]
  /\ doubt = {} /\ cleared = {} /\ excused = {}

-----------------------------------------------------------------------------
(* The store of a window: functions from a view to a view.                 *)

\* getConversationForAgent()
Conversation(v, a) == IF v.points[a] \in v.known THEN v.points[a] ELSE None

\* Variant: an agent that is on the list is added once more.
AttachTwice(v, c, a) ==
  [v EXCEPT !.points[a] = c, !.lists[c] = IF c \in v.known THEN Append(@, a) ELSE @]

\* attachConversationToAgent()
AttachLocally(v, c, a) ==
  [v EXCEPT !.points[a] = c,
            !.lists[c] = IF c \in v.known /\ a \notin ToSet(@) THEN Append(@, a) ELSE @]

\* detachConversationFromAgent() without an agent: the first one attached.
DetachFirst(v, c) ==
  IF v.lists[c] = <<>> THEN v
  ELSE LET a == Head(v.lists[c])
       IN [v EXCEPT !.lists[c] = Tail(@), !.points[a] = IF @ = c THEN None ELSE @]

Alike(j, k) == call[j].text = call[k].text
Temps(v, c, k) == {e \in v.shown[c] : e[2] = "temp" /\ Alike(e[1], k)}

\* addConversationMessage() of the message a user has just typed.
AddTemp(v, c, k) ==
  IF \E e \in v.shown[c] : e[2] = "user" /\ Alike(e[1], k) THEN v
  ELSE [v EXCEPT !.shown[c] = @ \cup {<<k, "temp">>}]

\* Variants: the message is added beside the one that stands for it, or kept out by it.
AddBeside(v, c, k) == {[v EXCEPT !.shown[c] = @ \cup {<<k, "user">>}]}
KeepTemp(v, c, k) == IF Temps(v, c, k) # {} THEN {v} ELSE AddBeside(v, c, k)

\* addConversationMessage() of a user message from the server: it takes the place of a temporary
\* message with the same text.
AddUser(v, c, k) ==
  IF <<k, "user">> \in v.shown[c] THEN {v}
  ELSE LET temps == Temps(v, c, k)
           first == IF temps = {} THEN {{}} ELSE {{e} : e \in temps}
       IN {[v EXCEPT !.shown[c] = (@ \ gone) \cup {<<k, "user">>}] : gone \in first}

\* finalizeStreamingMessage()
AddReply(v, c, k) == [v EXCEPT !.shown[c] = @ \cup {<<k, "reply">>}]

-----------------------------------------------------------------------------
(* What the users do.                                                      *)

\* The page is shown; it is in the session's room.
Ready(w) == loading[w] \subseteq {"join"}
Here(w) == loading[w] = {}
Pending(k) == call[k].at \notin {"idle", "done", "refused", "created", "attached", "stored"}
Open(k) == Pending(k) \/ call[k].page
OpenFor(w, a) == {k \in Calls : call[k].w = w /\ call[k].a = a /\ Open(k)}

\* Starts call k of window w for agent a.  Calls for one agent at the same time may end in any
\* order.
Start(k, kind, w, a, c, t, stage) ==
  /\ call[k].at = "idle" /\ \A j \in 1 .. (k - 1) : call[j].at # "idle"
  /\ call' = [call EXCEPT ![k] = [kind |-> kind, w |-> w, a |-> a, c |-> c, text |-> t,
                                  at |-> stage, saw |-> None, page |-> TRUE]]
  /\ cleared' = IF kind = "attach" THEN cleared \ {<<w, a>>} ELSE cleared
  /\ IF OpenFor(w, a) = {} THEN UNCHANGED <<doubt, excused>>
     ELSE /\ doubt' = doubt \cup {<<w, a>>}
          /\ excused' = excused \cup ({w} \X ({k} \cup OpenFor(w, a)))
  /\ UNCHANGED <<server, sent, got, streams, loading, faults>>

\* handleAttachSession(): the window shows the conversation before the server has attached it.
AttachSession(k, w, a, c, t) ==
  /\ Ready(w) /\ c \in view[w].known /\ c # Conversation(view[w], a)
  /\ Start(k, "attach", w, a, c, t, "attach")
  /\ view' = [view EXCEPT ![w] = AttachLocally(@, c, a)]

\* handleCreateNewSession()
CreateNewSession(k, w, a, t) ==
  /\ Ready(w)
  /\ Start(k, "new", w, a, None, t, "create")
  /\ UNCHANGED view

\* handleSendMessage(), one at a time for each card: without a conversation it makes one first.
SendMessage(k, w, a, t) ==
  /\ Ready(w)
  /\ \A j \in OpenFor(w, a) : call[j].page => call[j].kind # "send"
  /\ LET c == Conversation(view[w], a)
     IN /\ Start(k, "send", w, a, c, t, IF c = None THEN "create" ELSE "send")
        /\ view' = IF c = None THEN view ELSE [view EXCEPT ![w] = AddTemp(@, c, k)]

\* /clear: the window takes the card's conversation from the first agent on its list, which need
\* not be that of the card, and sends no request.  A request for that agent may be under way.
ClearConversation(w, a) ==
  LET c == Conversation(view[w], a)
      b == Head(view[w].lists[c])
      lost == IF view[w].points[b] = c THEN {<<w, b>>} ELSE {}
  IN
  /\ Ready(w) /\ c # None /\ view[w].shown[c] # {} /\ view[w].lists[c] # <<>>
  /\ view' = [view EXCEPT ![w] = DetachFirst(@, c)]
  /\ IF OpenFor(w, b) = {} THEN cleared' = cleared \cup lost /\ UNCHANGED doubt
     ELSE doubt' = doubt \cup lost /\ UNCHANGED cleared
  /\ UNCHANGED <<server, call, sent, got, streams, loading, faults, excused>>

-----------------------------------------------------------------------------
(* The handlers of the API.                                                *)

To(k, stage) == call' = [call EXCEPT ![k].at = stage]

\* What an event names: it has no session_id.  The handlers return when an event does not name
\* the session of their page.
Event(c, a) == [session |-> None, conv |-> c, agent |-> a]
Heeds(e) == e.session # None

\* handleConversationEvent()
Told(v, e) ==
  IF ~ Heeds(e) THEN v
  ELSE IF e.agent = None THEN [v EXCEPT !.known = @ \cup {e.conv}]
  ELSE AttachLocally(v, e.conv, e.agent)

\* The windows in the session's room are sent the event (emit_to_session).
Tell(e) == view' = [w \in Windows |-> IF Here(w) THEN Told(view[w], e) ELSE view[w]]

\* An agent changed by call k: other windows, and a page that has left, do not know.
Changed(k) ==
  doubt' = doubt \cup {<<w, call[k].a>> : w \in {w \in Windows : w # call[k].w \/ ~ call[k].page}}

\* create_conversation
CreateConversation(k) ==
  /\ call[k].at = "create"
  /\ \E c \in Convs \ made :
       /\ made' = made \cup {c}
       /\ call' = [call EXCEPT ![k].at = "created", ![k].c = c]
       /\ Tell(Event(c, None))
  /\ UNCHANGED <<at, home, replies, sent, got, streams, loading, faults, why>>

\* attach_conversation reads the agent's attachment: attached already is an answer.
ReadAttachment(k) ==
  /\ call[k].at = "attach"
  /\ call' = [call EXCEPT ![k].at = IF at[call[k].a] = call[k].c THEN "attached" ELSE "read",
                          ![k].saw = at[call[k].a]]
  /\ UNCHANGED <<server, sent, got, window, faults, why>>

\* Variant: the old attachment is removed, and none is added.
OnlyDetach(k) == at' = [at EXCEPT ![call[k].a] = None]

\* The conversation takes the place of the old one.
Reattach(k) == at' = [at EXCEPT ![call[k].a] = call[k].c]

\* It replaces the attachment it has read: with another one, the delete finds no row or the key
\* of the table refuses the insert.
CommitAttachment(k) ==
  LET a == call[k].a  c == call[k].c IN
  /\ call[k].at = "read"
  /\ IF at[a] = call[k].saw
     THEN Reattach(k) /\ To(k, "attached") /\ Tell(Event(c, a)) /\ Changed(k)
     ELSE To(k, "refused") /\ UNCHANGED <<at, view, doubt>>
  /\ UNCHANGED <<made, home, replies, sent, got, streams, loading, faults, cleared, excused>>

\* send_message reads the conversation of the agent.
RouteMessage(k) ==
  /\ call[k].at = "send"
  /\ call' = [call EXCEPT ![k].at = "routed", ![k].saw = at[call[k].a]]
  /\ UNCHANGED <<server, sent, got, window, faults, why>>

\* The message is stored in the conversation read before, or in one made for it; the key of the
\* table refuses that one if the agent has got another since.
StoreMessage(k) ==
  LET a == call[k].a IN
  /\ call[k].at = "routed"
  /\ IF call[k].saw # None
     THEN home' = [home EXCEPT ![k] = call[k].saw] /\ UNCHANGED <<made, at, doubt>>
     ELSE \E c \in Convs \ made :
            /\ at[a] = None
            /\ made' = made \cup {c}
            /\ at' = [at EXCEPT ![a] = c]
            /\ home' = [home EXCEPT ![k] = c]
            /\ doubt' = doubt \cup (Windows \X {a})
  /\ To(k, "stored")
  /\ UNCHANGED <<replies, sent, got, window, faults, cleared, excused>>

\* A message with the text of one stored within five seconds is not stored again.
SkipDuplicate(k) ==
  /\ call[k].at = "routed"
  /\ \E j \in Calls : home[j] # None /\ home[j] = call[k].saw /\ Alike(j, k)
  /\ To(k, "stored")
  /\ excused' = excused \cup {<<call[k].w, k>>}
  /\ UNCHANGED <<server, sent, got, window, faults, doubt, cleared>>

\* The insert that made a conversation for the message is refused.
RefuseMessage(k) ==
  /\ call[k].at = "routed" /\ call[k].saw = None /\ at[call[k].a] # None
  /\ To(k, "refused")
  /\ UNCHANGED <<server, sent, got, window, faults, why>>

\* The message is told to the room, then the task of its reply: emit_agent_stream_start, and
\* when the agent is done emit_agent_stream_end.
Stream(k) ==
  /\ home[k] # None /\ sent[k] < 3
  /\ sent' = [sent EXCEPT ![k] = @ + 1]
  /\ UNCHANGED <<server, call, got, window, faults, why>>

\* _process_and_emit_response stores it in the conversation of the message.
StoreReply(k) ==
  /\ sent[k] >= 2 /\ k \notin replies
  /\ replies' = replies \cup {k}
  /\ UNCHANGED <<made, at, home, call, sent, got, window, faults, why>>

-----------------------------------------------------------------------------
(* Answers and events in the window.                                       *)

Answered(k, stage) == call[k].at = stage /\ call[k].page
Fault == faults < MaxFaults /\ faults' = faults + 1
\* What is left of a call that is over: whose message it was.
Ended(k) == [NoCall(call[k].w, call[k].a, call[k].text) EXCEPT !.at = "done"]
Finish(k) == call' = [call EXCEPT ![k] = Ended(k)]

\* createConversation() has answered: the window knows the conversation, and attaches it.
ShowCreated(k) ==
  /\ Answered(k, "created")
  /\ view' = [view EXCEPT ![call[k].w].known = @ \cup {call[k].c}]
  /\ To(k, "attach")
  /\ UNCHANGED <<server, sent, got, streams, loading, faults, why>>

\* attachConversation() has answered: a card that made the conversation shows it now, and sends
\* the message it was made for.
ShowAttached(k) ==
  LET w == call[k].w  c == call[k].c
      attached == AttachLocally(view[w], c, call[k].a)
  IN
  /\ Answered(k, "attached")
  /\ \/ call[k].kind = "attach" /\ Finish(k) /\ UNCHANGED view
     \/ call[k].kind = "new" /\ Finish(k) /\ view' = [view EXCEPT ![w] = attached]
     \/ call[k].kind = "send" /\ To(k, "send")
          /\ view' = [view EXCEPT ![w] = AddTemp(attached, c, k)]
  /\ cleared' = cleared \ {<<w, call[k].a>>}
  /\ UNCHANGED <<server, sent, got, streams, loading, faults, doubt, excused>>

\* sendAgentMessage() has answered.
ShowSent(k) ==
  /\ Answered(k, "stored") /\ (home[k] = None \/ sent[k] >= 1)
  /\ Finish(k)
  /\ UNCHANGED <<server, sent, got, window, faults, why>>

\* A request is refused or fails, before or after the server has handled it.  handleAttachSession
\* detaches the first agent of the conversation, which may be another than its own.
Fail(k) ==
  LET w == call[k].w  c == call[k].c
      undo == call[k].kind = "attach" /\ view[w].lists[c] # <<>>
      touched == {call[k].a} \cup IF undo THEN {Head(view[w].lists[c])} ELSE {}
  IN
  /\ call[k].page
  /\ IF call[k].at = "refused" THEN UNCHANGED faults ELSE Fault
  /\ \/ call' = [call EXCEPT ![k] = Ended(k)]
     \/ Pending(k) /\ call' = [call EXCEPT ![k].page = FALSE]
  /\ view' = IF call[k].kind = "attach" THEN [view EXCEPT ![w] = DetachFirst(@, c)] ELSE view
  /\ doubt' = doubt \cup ({w} \X touched)
  /\ excused' = excused \cup {<<w, k>>}
  /\ UNCHANGED <<server, sent, got, streams, loading, cleared>>

\* A window is sent the next event of a message.  It adds the message, or the reply it has seen
\* begin, to the conversation that it has for the agent.
Receive(w, k) ==
  LET a == call[k].a
      c == Conversation(view[w], a)
      n == got[w][k] + 1
      begun == <<w, k>> \in streams
      astray == <<w, a>> \in doubt \cup cleared \/ at[a] # home[k] \/ OpenFor(w, a) \ {k} # {}
  IN
  /\ Here(w) /\ got[w][k] < sent[k]
  /\ got' = [got EXCEPT ![w][k] = n]
  /\ \/ n = 1 /\ c # None /\ \E v \in AddUser(view[w], c, k) : view' = [view EXCEPT ![w] = v]
     \/ n = 3 /\ c # None /\ begun /\ view' = [view EXCEPT ![w] = AddReply(@, c, k)]
     \/ (n = 2 \/ c = None \/ (n = 3 /\ ~ begun)) /\ UNCHANGED view
  /\ streams' = IF n = 2 THEN streams \cup {<<w, k>>} ELSE streams \ {<<w, k>>}
  /\ excused' = IF astray THEN excused \cup {<<w, k>>} ELSE excused
  /\ UNCHANGED <<server, call, sent, loading, faults, doubt, cleared>>

-----------------------------------------------------------------------------
(* A page that loads.  Its requests go out together; when it has their     *)
(* answers it is shown, and later joins the room: events before that do    *)
(* not come to it.                                                         *)

Blank ==
  [known |-> {}, points |-> [a \in Agents |-> None], lists |-> [c \in Convs |-> <<>>],
   shown |-> [c \in Convs |-> {}]]

Reload(w) ==
  /\ Ready(w) /\ Fault
  /\ loading' = [loading EXCEPT ![w] = {"agents", "conversations", "show", "join"}]
  /\ streams' = {s \in streams : s[1] # w}
  /\ call' = [k \in Calls |-> [call[k] EXCEPT !.page = @ /\ call[k].w # w]]
  /\ view' = [view EXCEPT ![w] = Blank]
  /\ got' = [got EXCEPT ![w] = [k \in Calls |-> 0]]
  /\ doubt' = {x \in doubt : x[1] # w} /\ excused' = {x \in excused : x[1] # w}
  /\ UNCHANGED <<server, sent, cleared>>

Fetched(w, what) == what \in loading[w] /\ loading' = [loading EXCEPT ![w] = @ \ {what}]

\* listAgents()
FetchAgents(w) ==
  /\ Fetched(w, "agents")
  /\ view' = [view EXCEPT ![w].points = at]
  /\ cleared' = {x \in cleared : x[1] # w}
  /\ UNCHANGED <<server, call, sent, got, streams, faults, doubt, excused>>

\* listConversations(), getConversation()
FetchConversations(w) ==
  /\ Fetched(w, "conversations")
  /\ view' = [view EXCEPT ![w] = [AsStored EXCEPT !.points = view[w].points]]
  /\ UNCHANGED <<server, call, sent, got, streams, faults, why>>

\* The agents that have a conversation are added to the conversation's list.
Merged(v) ==
  [v EXCEPT !.lists = [c \in Convs |->
     @[c] \o SetToSeq({a \in Agents : c \in v.known /\ v.points[a] = c} \ ToSet(@[c]))]]

\* The page has a message that was told before it joined if it has fetched all of it.
Has(v, k) ==
  /\ <<k, "user">> \in v.shown[home[k]]
  /\ sent[k] >= 2 => <<k, "reply">> \in v.shown[home[k]]

\* The page shows what it has fetched (createSession()).
Install(w) ==
  /\ loading[w] = {"show", "join"} /\ Fetched(w, "show")
  /\ view' = [view EXCEPT ![w] = Merged(@)]
  /\ UNCHANGED <<server, call, sent, got, streams, faults, why>>

\* It has the state of the workspace, has mounted its cards and connected, and the server has
\* put it into the room.
JoinRoom(w) ==
  /\ loading[w] = {"join"} /\ Fetched(w, "join")
  /\ got' = [got EXCEPT ![w] = sent]
  /\ excused' = excused \cup {<<w, k>> : k \in {k \in Calls : sent[k] > 0 /\ ~ Has(view[w], k)}}
  /\ UNCHANGED <<server, call, sent, view, streams, faults, doubt, cleared>>

-----------------------------------------------------------------------------

Next ==
  \/ \E k \in Calls, w \in Windows, a \in Agents, t \in Texts :
       \/ CreateNewSession(k, w, a, t) \/ SendMessage(k, w, a, t)
       \/ \E c \in Convs : AttachSession(k, w, a, c, t)
  \/ \E w \in Windows, a \in Agents : ClearConversation(w, a)
  \/ \E k \in Calls :
       \/ CreateConversation(k) \/ ReadAttachment(k) \/ CommitAttachment(k)
       \/ RouteMessage(k) \/ StoreMessage(k) \/ SkipDuplicate(k) \/ RefuseMessage(k)
       \/ Stream(k) \/ StoreReply(k)
       \/ ShowCreated(k) \/ ShowAttached(k) \/ ShowSent(k) \/ Fail(k)
  \/ \E w \in Windows :
       \/ Reload(w) \/ FetchAgents(w) \/ FetchConversations(w) \/ Install(w) \/ JoinRoom(w)
       \/ \E k \in Calls : Receive(w, k)

Spec == Init /\ [][Next]_vars

-----------------------------------------------------------------------------
(* Properties.                                                             *)

\* A window whose requests for an agent have all been answered, one after the other, has for it
\* the conversation that the database has, as long as no other page has changed it: or none, from
\* a /clear that took this agent (the first of its conversation, not always the one of the card)
\* until a request of the window gives it one again.
PointerAgrees ==
  \A w \in Windows, a \in Agents :
    Ready(w) /\ <<w, a>> \notin doubt /\ OpenFor(w, a) = {} =>
      view[w].points[a] = IF <<w, a>> \in cleared THEN None ELSE at[a]

\* A message and its reply are where the database has them, and nowhere else, in every window
\* that was in the room and had the agent's conversation right, and not cleared, when it heard of
\* them: whatever was typed twice, shared between agents or loaded in between.
InPlace ==
  \A w \in Windows, k \in Calls :
    Here(w) /\ <<w, k>> \notin excused =>
      /\ got[w][k] >= 1 => <<k, "user">> \in view[w].shown[home[k]]
      /\ got[w][k] = 3 => <<k, "reply">> \in view[w].shown[home[k]]
      /\ \A c \in Convs \ {home[k]} : {<<k, "user">>, <<k, "reply">>} \cap view[w].shown[c] = {}

\* The events of the messages have all come, and no request is open.
Rest == \A k \in Calls : ~ Open(k) /\ (home[k] # None => sent[k] = 3)
          /\ \A w \in Windows : Here(w) /\ got[w][k] = sent[k]

\* When everything has come, a temporary message is left only beside a message of its text whose
\* request failed, crossed another or was taken for a duplicate, that was told before the window
\* was in the room, or that came when it had another conversation for the agent or, after a
\* /clear, none.
NoGhosts ==
  Rest => \A w \in Windows, c \in Convs : \A e \in view[w].shown[c] :
    e[2] = "temp" => \E k \in Calls : Alike(e[1], k) /\ <<w, k>> \in excused

\* "WebSocket events keep sessions in sync in real-time across windows" (session page,
\* stores/session.ts): when everything has come, nothing has failed and nothing was cleared, every
\* window has the conversation of each agent.
WindowsInSync ==
  Rest /\ faults = 0 /\ cleared = {} => \A w \in Windows : view[w].points = at
=============================================================================
