---------------------------- MODULE SessionRooms ----------------------------
(***************************************************************************)
(* Browser windows that join and leave session rooms (lib/socket.ts,       *)
(* useAgentSocket), the handlers of one API worker that serve them         *)
(* (session_join, session_leave, disconnect of hub.py), the one-time       *)
(* tokens they present, and the worker's subscription to each session's    *)
(* stream (StreamSubscriber).  The server starts a task for every event,   *)
(* so the handlers of one window overlap and may finish in any order.      *)
(***************************************************************************)
EXTENDS Naturals, Sequences, FiniteSets

CONSTANTS
  Clients,     \* browser windows connected to the worker
  Sessions,
  NoSession,
  MaxTokens,   \* bound on the tokens issued
  MaxTurns     \* bound on the pages opened and closed and on the faults

ASSUME RoomAssumption ==
  /\ IsFiniteSet(Clients) /\ NoSession \notin Sessions
  /\ {MaxTokens, MaxTurns} \subseteq Nat

VARIABLES
  active,      \* activeSession of each window
  conn,        \* its connection
  waiting,     \* its joins that wait for 'connect'
  fetch,       \* its joins that wait for one token
  buffer,      \* its events emitted while there was no connection
  tasks,       \* the handlers of its events, in the order of the events (those that ended too)
  live,        \* tokens not yet consumed
  room,        \* the windows in each session's room
  info,        \* _client_info: the session of each connection
  count,       \* _local_session_counts
  subscribed,  \* _subscribed_sessions
  running,     \* _running
  alive,       \* the listener task is there
  issued,      \* tokens issued so far
  turns,       \* pages opened and closed, and faults, so far
  faults,      \* whether a connection was lost, and whether the listener has died
  held,        \* subscribe calls made for each window, less its unsubscribe calls
  causes       \* what went wrong for each window: a join that may be refused or was not emitted,
               \* events that the server handles in another order than the window's pages came and
               \* went, or an error of Redis that left its stream on

window == <<active, conn, waiting, fetch, buffer>>
stream == <<count, subscribed, running, alive>>
bounds == <<issued, turns>>
vars == <<window, tasks, live, room, info, stream, bounds, faults, held, causes>>

Events == [kind : {"join", "leave"}, session : Sessions, token : 0 .. MaxTokens]
Tasks == [event : Events, at : {"new", "read", "subscribed", "left", "done"}, gone : BOOLEAN]

TypeOK ==
  /\ active \in [Clients -> Sessions \cup {NoSession}]
  /\ conn \in [Clients -> {"never", "up", "down"}]
  /\ waiting \in [Clients -> Seq(Sessions)] /\ fetch \in [Clients -> Seq(Sessions)]
  /\ buffer \in [Clients -> Seq(Events)] /\ tasks \in [Clients -> Seq(Tasks)]
  /\ live \subseteq 1 .. MaxTokens
  /\ room \in [Sessions -> SUBSET Clients]
  /\ info \in [Clients -> Sessions \cup {NoSession}]
  /\ count \in [Sessions -> Nat]
  /\ subscribed \subseteq Sessions
  /\ running \in BOOLEAN /\ alive \in BOOLEAN
  /\ issued \in 0 .. MaxTokens /\ turns \in 0 .. MaxTurns /\ faults \subseteq {"cut", "listener"}
  /\ held \in [Clients -> [Sessions -> Nat]]
  /\ causes \in [Clients -> SUBSET {"refused", "order", "error"}]

\* Some windows are in the rooms of the sessions they show, the others have not connected.
Init ==
  /\ active \in [Clients -> Sessions \cup {NoSession}]
  /\ conn = [c \in Clients |-> IF active[c] = NoSession THEN "never" ELSE "up"]
  /\ waiting = [c \in Clients |-> <<>>] /\ fetch = waiting
  /\ buffer = waiting /\ tasks = waiting
  /\ live = {}
  /\ room = [s \in Sessions |-> {c \in Clients : active[c] = s}]
  /\ info = active
  /\ count = [s \in Sessions |-> Cardinality(room[s])]
  /\ subscribed = {s \in Sessions : room[s] # {}}
  /\ running = (subscribed # {}) /\ alive = running
  /\ issued = 0 /\ turns = 0 /\ faults = {}
  /\ held = [c \in Clients |-> [s \in Sessions |-> IF active[c] = s THEN 1 ELSE 0]]
  /\ causes = [c \in Clients |-> {}]

-----------------------------------------------------------------------------
(* The window.                                                             *)

Join(s, token) == [kind |-> "join", session |-> s, token |-> token]
Quit(s) == [kind |-> "leave", session |-> s, token |-> 0]
Started(events) == [i \in DOMAIN events |-> [event |-> events[i], at |-> "new", gone |-> FALSE]]

Turn == turns < MaxTurns /\ turns' = turns + 1
Blame(c, what) == causes' = [causes EXCEPT ![c] = @ \cup what]

\* Socket.emit(): events wait in the socket's buffer while there is no connection.
Emit(c, events) ==
  IF conn[c] = "up"
  THEN tasks' = [tasks EXCEPT ![c] = @ \o Started(events)] /\ UNCHANGED buffer
  ELSE buffer' = [buffer EXCEPT ![c] = @ \o events] /\ UNCHANGED tasks

\* A session page opens, or comes back with another access token: joinSession().
JoinSession(c, s) ==
  /\ active[c] = NoSession
  /\ Turn
  /\ active' = [active EXCEPT ![c] = s]
  /\ IF conn[c] = "up"
     THEN fetch' = [fetch EXCEPT ![c] = Append(@, s)] /\ UNCHANGED waiting
     ELSE waiting' = [waiting EXCEPT ![c] = Append(@, s)] /\ UNCHANGED fetch
  /\ UNCHANGED <<conn, buffer, tasks, live, room, info, stream, issued, faults, held, causes>>

\* The page closes: leaveSession().  A join whose token has not come is emitted after it.
LeaveSession(c) ==
  /\ active[c] # NoSession
  /\ Turn
  /\ Emit(c, <<Quit(active[c])>>)
  /\ active' = [active EXCEPT ![c] = NoSession]
  /\ Blame(c, IF waiting[c] \o fetch[c] = <<>> THEN {} ELSE {"order"})
  /\ UNCHANGED <<conn, waiting, fetch, live, room, info, stream, issued, faults, held>>

\* Variants: nothing is done on 'reconnect', or it joins whatever there is.
ForgetSession(c) == <<>>
RejoinAnything(c) == IF conn[c] = "down" THEN <<active[c]>> ELSE <<>>

\* The 'reconnect' handler of the manager joins the active session again.
Rejoin(c) == IF conn[c] = "down" /\ active[c] # NoSession THEN <<active[c]>> ELSE <<>>

\* A connection is there: the buffer goes out and the joins begin.
Up(c, joins) ==
  /\ conn' = [conn EXCEPT ![c] = "up"]
  /\ fetch' = [fetch EXCEPT ![c] = @ \o joins]
  /\ waiting' = [waiting EXCEPT ![c] = <<>>]
  /\ tasks' = [tasks EXCEPT ![c] = @ \o Started(buffer[c])]
  /\ buffer' = [buffer EXCEPT ![c] = <<>>]
  /\ UNCHANGED <<active, live, room, info, stream, bounds, faults, held>>

\* connectSocket(), or the manager reconnects.
Connect(c) ==
  /\ conn[c] = "down" \/ (conn[c] = "never" /\ active[c] # NoSession)
  /\ Up(c, Rejoin(c) \o waiting[c])
  /\ UNCHANGED causes

\* connectSocket() when the manager has given up, or the server has closed the connection: no
\* 'reconnect' comes, and the page that is still there joins only if a join of it waits.
ConnectAnew(c) ==
  /\ conn[c] = "down"
  /\ Up(c, waiting[c])
  /\ Blame(c, IF active[c] # NoSession /\ fetch[c] \o waiting[c] = <<>> THEN {"refused"} ELSE {})

\* getWsToken() answers every join that waits for it with one token.  A token that could not be
\* fetched, or whose 30 seconds are over before it is used, is one that is not live; so is that of
\* a join refused after the look-up (no access, the server full, an error before it is counted).
Token(c) ==
  /\ fetch[c] # <<>>
  /\ issued < MaxTokens
  /\ issued' = issued + 1
  /\ \E good \in BOOLEAN :
       /\ live' = IF good THEN live \cup {issued'} ELSE live
       /\ Blame(c, IF good /\ Len(fetch[c]) = 1 THEN {} ELSE {"refused"})
  /\ Emit(c, [i \in DOMAIN fetch[c] |-> Join(fetch[c][i], issued')])
  /\ fetch' = [fetch EXCEPT ![c] = <<>>]
  /\ UNCHANGED <<active, conn, waiting, room, info, stream, turns, faults, held>>

-----------------------------------------------------------------------------
(* The handlers.                                                           *)

Dealt(k) == k.at \in {"left", "done"}

\* An earlier event of the window has not been dealt with.
Overtakes(c, i) == \E j \in 1 .. i - 1 : ~ Dealt(tasks[c][j])
Order(c, i) == IF Overtakes(c, i) THEN {"order"} ELSE {}

\* The window leaves a session for which nothing is counted on its behalf, or only what an
\* earlier leave of it is about to give back.
Leavers(c, s) ==
  {i \in DOMAIN tasks[c] : tasks[c][i].at = "left" /\ tasks[c][i].event.session = s}
Leaving(c, s) == Cardinality(Leavers(c, s))
Stray(c, s) == IF held[c][s] <= Leaving(c, s) THEN {"order"} ELSE {}

At(c, i, kind, at) == tasks[c][i].event.kind = kind /\ tasks[c][i].at = at
Goes(c, i, at) == tasks' = [tasks EXCEPT ![c][i].at = at]
Ends(c, i) == Goes(c, i, "done")

\* session_join(): the token is looked up; without one that counts the join is refused (the
\* handshake of another origin carries no cookie to fall back on).
ReadToken(c, i) ==
  LET token == tasks[c][i].event.token
  IN  /\ At(c, i, "join", "new")
      /\ IF token \in live THEN Goes(c, i, "read") ELSE Ends(c, i)
      /\ UNCHANGED <<window, live, room, info, stream, bounds, faults, held, causes>>

\* validate_ws_token() deletes the token, which another join may have read as well; then
\* subscribe_session(): count, subscribe, start the listener unless it is marked as running.
\* An error of Redis comes between the count and the subscription and ends the handler.
Subscribe(c, i) ==
  LET s == tasks[c][i].event.session
  IN  /\ At(c, i, "join", "read")
      /\ live' = live \ {tasks[c][i].event.token}
      /\ info' = IF tasks[c][i].gone THEN info ELSE [info EXCEPT ![c] = s]
      /\ count' = [count EXCEPT ![s] = @ + 1]
      /\ held' = [held EXCEPT ![c][s] = @ + 1]
      /\ \/ /\ Goes(c, i, "subscribed")
            /\ subscribed' = subscribed \cup {s}
            /\ running' = TRUE
            /\ alive' = IF s \notin subscribed /\ ~running THEN TRUE ELSE alive
            /\ Blame(c, Order(c, i))
            /\ UNCHANGED turns
         \/ /\ Turn
            /\ Ends(c, i)
            /\ UNCHANGED <<subscribed, running, alive>>
            /\ Blame(c, Order(c, i) \cup {"refused"})
      /\ UNCHANGED <<window, room, issued, faults>>

\* enter_room(), which fails for a connection that is gone.
EnterRoom(c, i) ==
  LET s == tasks[c][i].event.session
  IN  /\ At(c, i, "join", "subscribed")
      /\ Ends(c, i)
      /\ room' = IF tasks[c][i].gone THEN room ELSE [room EXCEPT ![s] = @ \cup {c}]
      /\ Blame(c, Order(c, i))
      /\ UNCHANGED <<window, live, info, stream, bounds, faults, held>>

\* session_leave(), up to leave_room().
LeaveRoom(c, i) ==
  LET s == tasks[c][i].event.session
  IN  /\ At(c, i, "leave", "new")
      /\ Goes(c, i, "left")
      /\ IF tasks[c][i].gone THEN UNCHANGED <<room, info>>
         ELSE room' = [room EXCEPT ![s] = @ \ {c}] /\ info' = [info EXCEPT ![c] = NoSession]
      /\ Blame(c, Order(c, i) \cup Stray(c, s))
      /\ UNCHANGED <<window, live, stream, bounds, faults, held>>

\* Variant: the listener is left marked as running.
StayMarked(rest) == running

\* _stop_listener() when no subscription remains: a listener that has died is left alone, and
\* stays marked as running.
Marked(rest) == IF rest = {} /\ alive THEN FALSE ELSE running

\* Variant: the last client does not count as the last.
KeepSession(s) == IF count[s] < 1 THEN subscribed \ {s} ELSE subscribed

\* The subscription goes with the last client.
Remaining(s) == IF count[s] <= 1 THEN subscribed \ {s} ELSE subscribed

\* unsubscribe_session(), which session_leave() calls for a client that never joined too.
Unsubscribe(c, i) ==
  LET s == tasks[c][i].event.session
  IN  /\ At(c, i, "leave", "left")
      /\ Ends(c, i)
      /\ IF count[s] = 0 THEN UNCHANGED <<stream, held, causes>>
         ELSE /\ count' = [count EXCEPT ![s] = @ - 1]
              /\ subscribed' = Remaining(s)
              /\ running' = Marked(Remaining(s))
              /\ alive' = (alive /\ Remaining(s) # {})
              /\ held' = [held EXCEPT ![c][s] = IF @ = 0 THEN 0 ELSE @ - 1]
              /\ Blame(c, IF held[c][s] = 0 THEN {"order"} ELSE {})
      /\ UNCHANGED <<window, live, room, info, bounds, faults>>

\* remove_viewer() fails with an error of Redis: session_leave() ends with nothing given back.
LeaveFails(c, i) ==
  /\ At(c, i, "leave", "left")
  /\ Turn
  /\ Ends(c, i)
  /\ Blame(c, {"error"})
  /\ UNCHANGED <<window, live, room, info, stream, issued, faults, held>>

\* unsubscribe_session() fails with an error of Redis after it has lowered the count: the stream
\* stays on, also when nobody is counted any more.
UnsubscribeFails(c, i) ==
  LET s == tasks[c][i].event.session
  IN  /\ At(c, i, "leave", "left")
      /\ count[s] # 0
      /\ Turn
      /\ Ends(c, i)
      /\ count' = [count EXCEPT ![s] = @ - 1]
      /\ held' = [held EXCEPT ![c][s] = IF @ = 0 THEN 0 ELSE @ - 1]
      /\ Blame(c, (IF held[c][s] = 0 THEN {"order"} ELSE {})
                    \cup (IF count[s] = 1 THEN {"error"} ELSE {}))
      /\ UNCHANGED <<window, live, room, info, subscribed, running, alive, issued, faults>>

-----------------------------------------------------------------------------
(* Faults.                                                                 *)

\* The handlers of a lost connection: those that have begun go on, an event that had not arrived
\* is lost.
Abandon(k, arrived) ==
  IF k.at = "new" /\ ~ arrived THEN [k EXCEPT !.at = "done"] ELSE [k EXCEPT !.gone = TRUE]

\* disconnect(): room and _client_info go, the stream's count stays.
Cut(c) ==
  /\ conn[c] = "up"
  /\ Turn
  /\ faults' = faults \cup {"cut"}
  /\ conn' = [conn EXCEPT ![c] = "down"]
  /\ room' = [s \in Sessions |-> room[s] \ {c}]
  /\ info' = [info EXCEPT ![c] = NoSession]
  /\ \E arrived \in SUBSET {i \in DOMAIN tasks[c] : tasks[c][i].at = "new"} :
       tasks' = [tasks EXCEPT ![c] = [i \in DOMAIN @ |-> Abandon(@[i], i \in arrived)]]
  /\ UNCHANGED <<active, waiting, fetch, buffer, live, stream, issued, held, causes>>

\* _listen() ends with an error of Redis; _running stays set.
ListenerFails ==
  /\ alive
  /\ Turn
  /\ alive' = FALSE
  /\ faults' = faults \cup {"listener"}
  /\ UNCHANGED <<window, tasks, live, room, info, count, subscribed, running, issued, held, causes>>

-----------------------------------------------------------------------------

WindowNext(c) ==
  \/ \E s \in Sessions : JoinSession(c, s)
  \/ LeaveSession(c) \/ Connect(c) \/ ConnectAnew(c) \/ Token(c) \/ Cut(c)
HandlerNext(c) ==
  \E i \in DOMAIN tasks[c] :
    ReadToken(c, i) \/ Subscribe(c, i) \/ EnterRoom(c, i)
      \/ LeaveRoom(c, i) \/ Unsubscribe(c, i) \/ LeaveFails(c, i) \/ UnsubscribeFails(c, i)

Next ==
  \/ \E c \in Clients : WindowNext(c) \/ HandlerNext(c)
  \/ ListenerFails

Spec == Init /\ [][Next]_vars

-----------------------------------------------------------------------------
(* Properties.                                                             *)

\* Nothing of the window is under way.
Settled(c) ==
  /\ conn[c] = "up"
  /\ waiting[c] \o fetch[c] \o buffer[c] = <<>>
  /\ \A i \in DOMAIN tasks[c] : tasks[c][i].at = "done"

\* A connected window is in the room of the session it shows and in no other, after any number
\* of visits, lost connections and errors, unless it left before its join was emitted, shared a
\* token, had none that counts, was connected anew without a 'reconnect', or the server's handlers
\* finished in another order than it emitted.
InItsRoom ==
  \A c \in Clients : Settled(c) /\ causes[c] \subseteq {"error"} =>
    info[c] = active[c] /\ \A s \in Sessions : c \in room[s] <=> s = active[c]

\* Whatever windows come and go, and whatever of their handlers fails, the worker listens to the
\* stream of every session that has a window in its room, unless the listener died, handlers
\* overtook one another, or a window left that was not counted or before its join was emitted.
StreamReachesMembers ==
  "listener" \notin faults /\ (\A c \in Clients : "order" \notin causes[c]) =>
    \A s \in Sessions : room[s] # {} => s \in subscribed /\ alive

\* When everything is done and no connection was lost, the worker listens to the sessions that
\* have a window in their room and to no other: leaving gives back what joining took, unless an
\* error of Redis ended a join after it was counted, or a leave before it gave back or as the last.
SubscriptionEnds ==
  "cut" \notin faults /\ (\A c \in Clients : Settled(c) /\ causes[c] = {}) =>
    subscribed = {s \in Sessions : room[s] # {}}

=============================================================================
