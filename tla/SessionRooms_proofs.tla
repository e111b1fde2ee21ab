------------------------- MODULE SessionRooms_proofs -------------------------
(***************************************************************************)
(* What holds of SessionRooms for all finite sets of windows, all sessions *)
(* and all bounds.                                                         *)
(***************************************************************************)
EXTENDS SessionRooms, FiniteSetTheorems, SequenceTheorems, TLAPS

Places == Sessions \cup {NoSession}
Steps == {"new", "read", "subscribed", "left", "done"}
TaskLists == [Clients -> Seq(Tasks)]
EventLists == [Clients -> Seq(Events)]
JoinLists == [Clients -> Seq(Sessions)]
HeldTables == [Clients -> [Sessions -> Nat]]
CauseTables == [Clients -> SUBSET {"refused", "order", "error"}]
Rooms == [Sessions -> SUBSET Clients]

ListType ==
  /\ waiting \in JoinLists /\ fetch \in JoinLists
  /\ buffer \in EventLists /\ tasks \in TaskLists
ViewType == active \in [Clients -> Places] /\ conn \in [Clients -> {"never", "up", "down"}]
StreamType ==
  /\ count \in [Sessions -> Nat] /\ subscribed \subseteq Sessions
  /\ running \in BOOLEAN /\ alive \in BOOLEAN
RoomType == room \in Rooms /\ info \in [Clients -> Places]
BoundType ==
  /\ live \subseteq 1 .. MaxTokens
  /\ issued \in 0 .. MaxTokens /\ turns \in 0 .. MaxTurns /\ faults \subseteq {"cut", "listener"}
LedgerType == held \in HeldTables /\ causes \in CauseTables

LEMMA TypeParts ==
  LET Parts == /\ ListType /\ ViewType /\ StreamType
               /\ RoomType /\ BoundType /\ LedgerType
  IN  (TypeOK <=> Parts) /\ (TypeOK' <=> Parts')
BY DEF TypeOK, ListType, ViewType, StreamType, RoomType, BoundType, LedgerType, TaskLists,
       EventLists, JoinLists, HeldTables, CauseTables, Rooms, Places

-----------------------------------------------------------------------------
(* The sequences.                                                          *)

\* A handler's record after a step.
LEMMA TaskMove ==
  ASSUME NEW k \in Tasks, NEW at \in Steps
  PROVE  /\ [k EXCEPT !.at = at] \in Tasks /\ [k EXCEPT !.gone = TRUE] \in Tasks
         /\ [k EXCEPT !.at = at].at = at /\ [k EXCEPT !.at = at].event = k.event
         /\ [k EXCEPT !.at = at].gone = k.gone
         /\ [k EXCEPT !.gone = TRUE].at = k.at /\ [k EXCEPT !.gone = TRUE].event = k.event
         /\ [k EXCEPT !.gone = TRUE].gone
BY DEF Tasks, Steps

\* The handlers of window c are the same but for the i-th, which is now at step at.
Moved(c, i, at) ==
  /\ tasks' \in TaskLists
  /\ \A d \in Clients : d # c => tasks'[d] = tasks[d]
  /\ Len(tasks'[c]) = Len(tasks[c]) /\ DOMAIN tasks'[c] = DOMAIN tasks[c]
  /\ \A j \in DOMAIN tasks[c] :
       /\ tasks'[c][j].event = tasks[c][j].event /\ tasks'[c][j].gone = tasks[c][j].gone
       /\ tasks'[c][j].at = IF j = i THEN at ELSE tasks[c][j].at

LEMMA GoesMoves ==
  ASSUME tasks \in TaskLists, NEW c \in Clients, NEW i \in DOMAIN tasks[c], NEW at \in Steps,
         Goes(c, i, at)
  PROVE  Moved(c, i, at)
<1> DEFINE k == tasks[c][i]
           x == [tasks[c] EXCEPT ![i] = [k EXCEPT !.at = at]]
<1>1. tasks[c] \in Seq(Tasks) /\ DOMAIN tasks[c] = 1 .. Len(tasks[c]) /\ k \in Tasks
  BY LenProperties, ElementOfSeq DEF TaskLists
<1>2. [k EXCEPT !.at = at] \in Tasks
  BY <1>1, TaskMove
<1>3. /\ x \in Seq(Tasks) /\ Len(x) = Len(tasks[c])
      /\ \A j \in 1 .. Len(tasks[c]) : x[j] = IF j = i THEN [k EXCEPT !.at = at] ELSE tasks[c][j]
  BY <1>1, <1>2, ExceptSeq
<1>4. tasks' = [tasks EXCEPT ![c] = x]
  BY DEF Goes
<1>5. tasks' \in TaskLists /\ tasks'[c] = x /\ \A d \in Clients : d # c => tasks'[d] = tasks[d]
  BY <1>3, <1>4 DEF TaskLists
<1>6. DOMAIN x = DOMAIN tasks[c]
  OBVIOUS
<1> HIDE DEF x
<1>7. ASSUME NEW j \in DOMAIN tasks[c]
      PROVE  /\ x[j].event = tasks[c][j].event /\ x[j].gone = tasks[c][j].gone
             /\ x[j].at = IF j = i THEN at ELSE tasks[c][j].at
  <2>1. j # i => x[j] = tasks[c][j]
    BY <1>1, <1>3
  <2>2. x[i] = [k EXCEPT !.at = at]
    BY <1>1, <1>3
  <2>3. x[i].at = at /\ x[i].event = k.event /\ x[i].gone = k.gone
    BY <1>1, <2>2, TaskMove
  <2> QED
    BY <2>1, <2>3
<1> QED
  BY <1>3, <1>5, <1>6, <1>7 DEF Moved

LEMMA NewTask ==
  ASSUME NEW e \in Events, NEW k, k = [event |-> e, at |-> "new", gone |-> FALSE]
  PROVE  k \in Tasks /\ k.event = e /\ k.at = "new" /\ ~ k.gone
BY DEF Tasks

\* Window c has new handlers, one for each of the events, after those it had.
Added(c, events) ==
  LET n == Len(tasks[c])
  IN  /\ tasks' \in TaskLists
      /\ \A d \in Clients : d # c => tasks'[d] = tasks[d]
      /\ n \in Nat /\ Len(tasks'[c]) = n + Len(events) /\ Len(events) \in Nat
      /\ DOMAIN tasks[c] = 1 .. n /\ DOMAIN tasks'[c] = 1 .. n + Len(events)
      /\ \A j \in 1 .. n : tasks'[c][j] = tasks[c][j]
      /\ \A j \in 1 .. Len(events) :
           /\ tasks'[c][n + j].event = events[j]
           /\ tasks'[c][n + j].at = "new" /\ ~ tasks'[c][n + j].gone

LEMMA StartedAdds ==
  ASSUME tasks \in TaskLists, NEW c \in Clients, NEW events \in Seq(Events),
         tasks' = [tasks EXCEPT ![c] = @ \o Started(events)]
  PROVE  Added(c, events)
<1> DEFINE n == Len(tasks[c])
           e == Started(events)
<1>1. tasks[c] \in Seq(Tasks) /\ DOMAIN tasks[c] = 1 .. n /\ n \in Nat
  BY LenProperties DEF TaskLists
<1>2. Len(events) \in Nat /\ DOMAIN events = 1 .. Len(events)
  BY LenProperties
<1>3. \A j \in 1 .. Len(events) : events[j] \in Events
  BY ElementOfSeq
<1>4. e \in [1 .. Len(events) -> Tasks]
  BY <1>2, <1>3 DEF Started, Tasks
<1>5. e \in Seq(Tasks) /\ Len(e) = Len(events)
  BY <1>2, <1>4, SeqDef, LenProperties
<1>6. /\ tasks[c] \o e \in Seq(Tasks) /\ Len(tasks[c] \o e) = n + Len(events)
      /\ \A j \in 1 .. n + Len(events) :
           (tasks[c] \o e)[j] = IF j <= n THEN tasks[c][j] ELSE e[j - n]
  <2> HIDE DEF e
  <2>1. /\ tasks[c] \o e \in Seq(Tasks) /\ Len(tasks[c] \o e) = Len(tasks[c]) + Len(e)
        /\ \A j \in 1 .. Len(tasks[c]) + Len(e) :
             (tasks[c] \o e)[j] = IF j <= Len(tasks[c]) THEN tasks[c][j]
                                                        ELSE e[j - Len(tasks[c])]
    BY <1>1, <1>5, ConcatProperties
  <2> QED
    BY <1>5, <2>1
<1>7. \A j \in 1 .. Len(events) : e[j] = [event |-> events[j], at |-> "new", gone |-> FALSE]
  BY <1>2 DEF Started
<1>8. tasks' \in TaskLists /\ tasks'[c] = tasks[c] \o e
      /\ \A d \in Clients : d # c => tasks'[d] = tasks[d]
  BY <1>6 DEF TaskLists
<1>9. DOMAIN tasks'[c] = 1 .. n + Len(events)
  BY <1>6, <1>8, LenProperties
<1> HIDE DEF e
<1>10. \A j \in 1 .. n : tasks'[c][j] = tasks[c][j]
  BY <1>1, <1>2, <1>6, <1>8
<1>11. \A j \in 1 .. Len(events) : tasks'[c][n + j] = e[j]
  BY <1>1, <1>2, <1>6, <1>8
<1>12. ASSUME NEW j \in 1 .. Len(events)
       PROVE  /\ tasks'[c][n + j].event = events[j]
              /\ tasks'[c][n + j].at = "new" /\ ~ tasks'[c][n + j].gone
  <2>1. tasks'[c][n + j] = [event |-> events[j], at |-> "new", gone |-> FALSE]
    BY <1>7, <1>11
  <2>2. events[j] \in Events
    BY <1>3
  <2> QED
    BY <2>1, <2>2, NewTask
<1> QED
  BY <1>1, <1>2, <1>6, <1>8, <1>9, <1>10, <1>12 DEF Added

\* The connection of window c is lost: a handler goes on without it, or had not begun and is over.
Abandoned(c) ==
  /\ tasks' \in TaskLists
  /\ \A d \in Clients : d # c => tasks'[d] = tasks[d]
  /\ Len(tasks'[c]) = Len(tasks[c]) /\ DOMAIN tasks'[c] = DOMAIN tasks[c]
  /\ \A j \in DOMAIN tasks[c] :
       /\ tasks'[c][j].event = tasks[c][j].event
       /\ \/ tasks'[c][j].at = tasks[c][j].at /\ tasks'[c][j].gone
          \/ /\ tasks[c][j].at = "new" /\ tasks'[c][j].at = "done"
             /\ tasks'[c][j].gone = tasks[c][j].gone

LEMMA CutAbandons ==
  ASSUME tasks \in TaskLists, NEW c \in Clients, Cut(c)
  PROVE  Abandoned(c)
<1> PICK arrived : tasks' = [tasks EXCEPT ![c] = [i \in DOMAIN @ |-> Abandon(@[i], i \in arrived)]]
  BY DEF Cut
<1> DEFINE n == Len(tasks[c])
           x == [i \in DOMAIN tasks[c] |-> Abandon(tasks[c][i], i \in arrived)]
<1>1. tasks[c] \in Seq(Tasks) /\ DOMAIN tasks[c] = 1 .. n /\ n \in Nat
  BY LenProperties DEF TaskLists
<1>2. \A j \in 1 .. n : tasks[c][j] \in Tasks
  BY <1>1, ElementOfSeq
<1>3. \A j \in 1 .. n : Abandon(tasks[c][j], j \in arrived) \in Tasks
  BY <1>2, TaskMove DEF Steps, Abandon
<1>4. x \in [1 .. n -> Tasks]
  BY <1>1, <1>3
<1>5. x \in Seq(Tasks) /\ Len(x) = n
  BY <1>1, <1>4, SeqDef, LenProperties
<1>6. tasks' = [tasks EXCEPT ![c] = x]
  OBVIOUS
<1>7. tasks' \in TaskLists /\ tasks'[c] = x /\ \A d \in Clients : d # c => tasks'[d] = tasks[d]
  BY <1>5, <1>6 DEF TaskLists
<1>8. \A j \in DOMAIN tasks[c] : x[j] = Abandon(tasks[c][j], j \in arrived)
  OBVIOUS
<1>9. DOMAIN x = DOMAIN tasks[c]
  OBVIOUS
<1> HIDE DEF x
<1>10. ASSUME NEW j \in DOMAIN tasks[c]
      PROVE  /\ x[j].event = tasks[c][j].event
             /\ \/ x[j].at = tasks[c][j].at /\ x[j].gone
                \/ tasks[c][j].at = "new" /\ x[j].at = "done" /\ x[j].gone = tasks[c][j].gone
  <2> PICK k \in Tasks : k = tasks[c][j]
    BY <1>1, <1>2
  <2>1. x[j] = Abandon(k, j \in arrived)
    BY <1>8
  <2>2. \/ x[j] = [k EXCEPT !.at = "done"] /\ k.at = "new"
        \/ x[j] = [k EXCEPT !.gone = TRUE]
    BY <2>1 DEF Abandon
  <2>3. ASSUME x[j] = [k EXCEPT !.at = "done"], k.at = "new"
        PROVE  x[j].at = "done" /\ x[j].event = k.event /\ x[j].gone = k.gone
    BY <2>3, TaskMove DEF Steps
  <2>4. ASSUME x[j] = [k EXCEPT !.gone = TRUE]
        PROVE  x[j].at = k.at /\ x[j].event = k.event /\ x[j].gone
    BY <2>4, TaskMove DEF Steps
  <2> QED
    BY <2>2, <2>3, <2>4
<1> QED
  BY <1>1, <1>5, <1>7, <1>9, <1>10 DEF Abandoned

-----------------------------------------------------------------------------
(* Types.                                                                  *)

LEMMA EventType ==
  \A s \in Sessions :
    /\ \A n \in 0 .. MaxTokens : Join(s, n) \in Events
    /\ Quit(s) \in Events
    /\ \A n \in 0 .. MaxTokens :
         Join(s, n).session = s /\ Join(s, n).kind = "join" /\ Join(s, n).token = n
    /\ Quit(s).session = s /\ Quit(s).kind = "leave" /\ Quit(s).token = 0
BY RoomAssumption DEF RoomAssumption, Join, Quit, Events

LEMMA ListMoves ==
  ASSUME NEW S, NEW f \in [Clients -> Seq(S)], NEW c \in Clients, NEW x \in Seq(S)
  PROVE  /\ [f EXCEPT ![c] = <<>>] \in [Clients -> Seq(S)]
         /\ [f EXCEPT ![c] = @ \o x] \in [Clients -> Seq(S)]
         /\ \A s \in S : [f EXCEPT ![c] = Append(@, s)] \in [Clients -> Seq(S)]
         /\ \A s \in S : <<s>> \in Seq(S)
<1>1. f[c] \o x \in Seq(S) /\ <<>> \in Seq(S)
  BY ConcatProperties
<1>2. \A s \in S : Append(f[c], s) \in Seq(S) /\ <<s>> \in Seq(S)
  BY AppendProperties
<1> QED
  BY <1>1, <1>2

LEMMA EmitType ==
  ASSUME ListType, NEW c \in Clients, NEW events \in Seq(Events), Emit(c, events)
  PROVE  /\ tasks' \in TaskLists /\ buffer' \in EventLists
         /\ conn[c] = "up" => Added(c, events) /\ buffer' = buffer
         /\ conn[c] # "up" => tasks' = tasks /\ buffer' = [buffer EXCEPT ![c] = @ \o events]
<1>1. conn[c] = "up" => Added(c, events) /\ buffer' = buffer
  BY StartedAdds DEF Emit, ListType
<1>2. conn[c] # "up" => tasks' = tasks /\ buffer' = [buffer EXCEPT ![c] = @ \o events]
  BY DEF Emit
<1>3. [buffer EXCEPT ![c] = @ \o events] \in EventLists
  BY ListMoves DEF ListType, EventLists
<1> QED
  BY <1>1, <1>2, <1>3 DEF ListType, Added

\* The joins that one token answers.
Joins(c, token) == [i \in DOMAIN fetch[c] |-> Join(fetch[c][i], token)]

LEMMA JoinsType ==
  ASSUME ListType, NEW c \in Clients, NEW n \in 0 .. MaxTokens
  PROVE  /\ Joins(c, n) \in Seq(Events) /\ Len(Joins(c, n)) = Len(fetch[c])
         /\ DOMAIN fetch[c] = 1 .. Len(fetch[c]) /\ Len(fetch[c]) \in Nat
         /\ \A i \in 1 .. Len(fetch[c]) :
              Joins(c, n)[i] = Join(fetch[c][i], n) /\ fetch[c][i] \in Sessions
<1>1. fetch[c] \in Seq(Sessions)
  BY DEF ListType, JoinLists
<1>2. Len(fetch[c]) \in Nat /\ DOMAIN fetch[c] = 1 .. Len(fetch[c])
  BY <1>1, LenProperties
<1>3. \A i \in 1 .. Len(fetch[c]) : fetch[c][i] \in Sessions
  BY <1>1, ElementOfSeq
<1>4. Joins(c, n) \in [1 .. Len(fetch[c]) -> Events]
  BY <1>2, <1>3, EventType DEF Joins
<1>5. Joins(c, n) \in Seq(Events)
  BY <1>2, <1>4, SeqDef
<1>6. Len(Joins(c, n)) = Len(fetch[c])
  BY <1>2, <1>4, <1>5, LenProperties
<1> QED
  BY <1>2, <1>3, <1>5, <1>6 DEF Joins

LEMMA BlameType ==
  ASSUME LedgerType, NEW c \in Clients, NEW what \in SUBSET {"refused", "order", "error"}, Blame(c, what)
  PROVE  /\ causes' \in CauseTables
         /\ causes'[c] = causes[c] \cup what
         /\ \A d \in Clients : d # c => causes'[d] = causes[d]
BY DEF LedgerType, CauseTables, Blame

LEMMA CauseType ==
  \A c, i : /\ Order(c, i) \in SUBSET {"refused", "order", "error"}
            /\ \A s : Stray(c, s) \in SUBSET {"refused", "order", "error"}
            /\ {"error"} \in SUBSET {"refused", "order", "error"}
            /\ Order(c, i) \cup {"refused"} \in SUBSET {"refused", "order", "error"}
            /\ \A s : Order(c, i) \cup Stray(c, s) \in SUBSET {"refused", "order", "error"}
BY DEF Order, Stray

\* Handler i of window c, and the event it handles.
LEMMA TaskShape ==
  ASSUME tasks \in TaskLists, NEW c \in Clients
  PROVE  /\ tasks[c] \in Seq(Tasks) /\ Len(tasks[c]) \in Nat
         /\ DOMAIN tasks[c] = 1 .. Len(tasks[c])
         /\ \A i \in DOMAIN tasks[c] :
              LET k == tasks[c][i]
              IN  /\ k \in Tasks /\ k.at \in Steps /\ k.gone \in BOOLEAN /\ k.event \in Events
                  /\ k.event.kind \in {"join", "leave"} /\ k.event.session \in Sessions
                  /\ k.event.token \in 0 .. MaxTokens
<1>1. tasks[c] \in Seq(Tasks) /\ Len(tasks[c]) \in Nat /\ DOMAIN tasks[c] = 1 .. Len(tasks[c])
  BY LenProperties DEF TaskLists
<1>2. \A i \in DOMAIN tasks[c] : tasks[c][i] \in Tasks
  BY <1>1, ElementOfSeq
<1>3. ASSUME NEW k \in Tasks
      PROVE  /\ k.at \in Steps /\ k.gone \in BOOLEAN /\ k.event \in Events
             /\ k.event.kind \in {"join", "leave"} /\ k.event.session \in Sessions
             /\ k.event.token \in 0 .. MaxTokens
  BY DEF Tasks, Events, Steps
<1> QED
  BY <1>1, <1>2, <1>3

\* What a window counts for changes by one in one session.
LEMMA HeldMoves ==
  ASSUME LedgerType, NEW c \in Clients, NEW s \in Sessions, NEW n \in Nat,
         held' = [held EXCEPT ![c][s] = n]
  PROVE  /\ held' \in HeldTables /\ held'[c][s] = n
         /\ \A d \in Clients, r \in Sessions : d # c \/ r # s => held'[d][r] = held[d][r]
BY DEF LedgerType, HeldTables

LEMMA TypeInit == Init => TypeOK
<1> SUFFICES ASSUME Init PROVE TypeOK
  OBVIOUS
<1>1. <<>> \in Seq(Sessions) /\ <<>> \in Seq(Events) /\ <<>> \in Seq(Tasks)
  BY EmptySeq
<1>2. ListType
  BY <1>1 DEF Init, ListType, JoinLists, EventLists, TaskLists
<1>3. ViewType
  BY DEF Init, ViewType, Places
<1>4. RoomType
  BY DEF Init, RoomType, Rooms, Places
<1>5. StreamType
  <2>1. \A s \in Sessions : IsFiniteSet(room[s])
    BY <1>4, RoomAssumption, FS_Subset DEF RoomAssumption, RoomType, Rooms
  <2>2. \A s \in Sessions : Cardinality(room[s]) \in Nat
    BY <2>1, FS_CardinalityType
  <2> QED
    BY <2>2 DEF Init, StreamType
<1>6. BoundType
  BY RoomAssumption DEF Init, BoundType, RoomAssumption
<1>7. LedgerType
  BY DEF Init, LedgerType, HeldTables, CauseTables
<1> QED
  BY <1>2, <1>3, <1>4, <1>5, <1>6, <1>7, TypeParts

LEMMA TurnType == ASSUME BoundType, Turn PROVE turns' \in 0 .. MaxTurns
BY RoomAssumption DEF BoundType, Turn, RoomAssumption

\* The joins of a connection that the manager has brought back.
LEMMA JoinsBegin ==
  ASSUME ListType, ViewType, NEW c \in Clients
  PROVE  /\ Rejoin(c) \in Seq(Sessions) /\ waiting[c] \in Seq(Sessions) /\ fetch[c] \in Seq(Sessions)
         /\ Rejoin(c) \o waiting[c] \in Seq(Sessions)
<1>1. Rejoin(c) \in Seq(Sessions) /\ waiting[c] \in Seq(Sessions) /\ fetch[c] \in Seq(Sessions)
  BY AppendProperties, EmptySeq DEF Rejoin, ViewType, Places, ListType, JoinLists
<1> QED
  BY <1>1, ConcatProperties

LEMMA TypeStep == TypeOK /\ [Next]_vars => TypeOK'
<1> SUFFICES ASSUME TypeOK, [Next]_vars PROVE TypeOK'
  OBVIOUS
<1> DEFINE Parts == ListType /\ ViewType /\ StreamType /\ RoomType /\ BoundType /\ LedgerType
<1>0. ListType /\ ViewType /\ StreamType /\ RoomType /\ BoundType /\ LedgerType
  BY TypeParts
<1> SUFFICES Parts'
  BY TypeParts
<1>1. ASSUME NEW c \in Clients, NEW s \in Sessions, JoinSession(c, s) PROVE Parts'
  <2>1. Append(fetch[c], s) \in Seq(Sessions) /\ Append(waiting[c], s) \in Seq(Sessions)
    BY <1>0, AppendProperties DEF ListType, JoinLists
  <2>4. ListType'
    BY <1>0, <1>1, <2>1 DEF JoinSession, ListType, JoinLists
  <2>2. ViewType'
    BY <1>0, <1>1 DEF JoinSession, ViewType, Places
  <2>3. BoundType'
    BY <1>0, <1>1, TurnType DEF JoinSession, BoundType
  <2> QED
    BY <1>0, <1>1, <2>2, <2>3, <2>4
       DEF JoinSession, stream, StreamType, RoomType, LedgerType
<1>2. ASSUME NEW c \in Clients, LeaveSession(c) PROVE Parts'
  <2>1. active[c] \in Sessions
    BY <1>0, <1>2 DEF LeaveSession, ViewType, Places
  <2>2. <<Quit(active[c])>> \in Seq(Events)
    BY <2>1, EventType, AppendProperties
  <2>3. ListType'
    BY <1>0, <1>2, <2>2, EmitType DEF LeaveSession, ListType
  <2>4. LedgerType'
    BY <1>0, <1>2, BlameType DEF LeaveSession, LedgerType
  <2>5. ViewType'
    BY <1>0, <1>2 DEF LeaveSession, ViewType, Places
  <2>6. BoundType'
    BY <1>0, <1>2, TurnType DEF LeaveSession, BoundType
  <2> QED
    BY <1>0, <1>2, <2>3, <2>4, <2>5, <2>6 DEF LeaveSession, stream, StreamType, RoomType
<1>a. ASSUME NEW c \in Clients, NEW joins \in Seq(Sessions), Up(c, joins), causes' \in CauseTables
      PROVE  Parts'
  <2>1. fetch' \in JoinLists /\ waiting' \in JoinLists
    BY <1>0, <1>a, ListMoves, EmptySeq DEF Up, ListType, JoinLists
  <2>2. buffer' \in EventLists
    BY <1>0, <1>a, EmptySeq DEF Up, ListType, EventLists
  <2>3. buffer[c] \in Seq(Events)
    BY <1>0 DEF ListType, EventLists
  <2>4. Added(c, buffer[c])
    BY <1>0, <1>a, <2>3, StartedAdds DEF Up, ListType
  <2>5. ListType'
    BY <2>1, <2>2, <2>4 DEF ListType, Added
  <2>6. ViewType'
    BY <1>0, <1>a DEF Up, ViewType
  <2> QED
    BY <1>0, <1>a, <2>5, <2>6
       DEF Up, stream, bounds, StreamType, RoomType, BoundType, LedgerType
<1>3. ASSUME NEW c \in Clients, Connect(c) PROVE Parts'
  <2>1. Rejoin(c) \o waiting[c] \in Seq(Sessions) /\ Up(c, Rejoin(c) \o waiting[c])
    BY <1>0, <1>3, JoinsBegin DEF Connect
  <2> QED
    BY <1>0, <1>3, <1>a, <2>1 DEF Connect, LedgerType
<1>b. ASSUME NEW c \in Clients, ConnectAnew(c) PROVE Parts'
  <2>1. waiting[c] \in Seq(Sessions) /\ Up(c, waiting[c])
    BY <1>0, <1>b DEF ConnectAnew, ListType, JoinLists
  <2>2. causes' \in CauseTables
    BY <1>0, <1>b, BlameType DEF ConnectAnew, LedgerType
  <2> QED
    BY <1>a, <2>1, <2>2
<1>4. ASSUME NEW c \in Clients, Token(c) PROVE Parts'
  <2>1. issued' \in 1 .. MaxTokens /\ issued' \in 0 .. MaxTokens
    BY <1>0, <1>4, RoomAssumption DEF Token, BoundType, RoomAssumption
  <2>2. BoundType'
    BY <1>0, <1>4, <2>1 DEF Token, BoundType
  <2>3. Emit(c, Joins(c, issued'))
    BY <1>4 DEF Token, Joins
  <2>4. tasks' \in TaskLists /\ buffer' \in EventLists
    BY <1>0, <2>1, <2>3, JoinsType, EmitType
  <2>5. ListType'
    BY <1>0, <1>4, <2>4, EmptySeq DEF Token, ListType, JoinLists
  <2>6. LedgerType'
    BY <1>0, <1>4, BlameType DEF Token, LedgerType
  <2> QED
    BY <1>0, <1>4, <2>2, <2>5, <2>6 DEF Token, stream, StreamType, RoomType, ViewType
<1>5. ASSUME NEW c \in Clients, NEW i \in DOMAIN tasks[c], ReadToken(c, i) PROVE Parts'
  <2>1. tasks' \in TaskLists
    BY <1>0, <1>5, GoesMoves DEF ReadToken, Ends, Moved, Steps, ListType
  <2> QED
    BY <1>0, <1>5, <2>1 DEF ReadToken, window, stream, bounds, StreamType, RoomType, BoundType,
       LedgerType, ListType, ViewType
<1>6. ASSUME NEW c \in Clients, NEW i \in DOMAIN tasks[c], Subscribe(c, i) PROVE Parts'
  <2>1. tasks' \in TaskLists
    BY <1>0, <1>6, GoesMoves DEF Subscribe, Ends, Moved, Steps, ListType
  <2> DEFINE s == tasks[c][i].event.session
  <2>2. s \in Sessions
    BY <1>0, TaskShape DEF ListType
  <2> HIDE DEF s
  <2>3. held' = [held EXCEPT ![c][s] = @ + 1] /\ count' = [count EXCEPT ![s] = @ + 1]
        /\ (info' = info \/ info' = [info EXCEPT ![c] = s])
    BY <1>6 DEF Subscribe, s
  <2>4. held[c][s] + 1 \in Nat
    BY <1>0, <2>2 DEF LedgerType, HeldTables
  <2>5. held' \in HeldTables
    BY <1>0, <2>2, <2>3, <2>4, HeldMoves
  <2>6. causes' \in CauseTables
    BY <1>0, <1>6, BlameType, CauseType DEF Subscribe
  <2>7. count' \in [Sessions -> Nat]
    BY <1>0, <2>2, <2>3 DEF StreamType
  <2>10. \/ /\ subscribed' = subscribed \cup {s} /\ running' = TRUE
            /\ alive' = IF s \notin subscribed /\ ~running THEN TRUE ELSE alive
         \/ UNCHANGED <<subscribed, running, alive>>
    BY <1>6 DEF Subscribe, s
  <2>11. StreamType'
    BY <1>0, <2>2, <2>7, <2>10 DEF StreamType
  <2>8. RoomType'
    BY <1>0, <1>6, <2>2, <2>3 DEF Subscribe, RoomType, Places
  <2>9. BoundType'
    BY <1>0, <1>6, TurnType DEF Subscribe, BoundType
  <2> QED
    BY <1>0, <1>6, <2>1, <2>5, <2>6, <2>8, <2>9, <2>11
       DEF Subscribe, window, ListType, ViewType, LedgerType
<1>7. ASSUME NEW c \in Clients, NEW i \in DOMAIN tasks[c], EnterRoom(c, i) PROVE Parts'
  <2>1. tasks' \in TaskLists
    BY <1>0, <1>7, GoesMoves DEF EnterRoom, Ends, Moved, Steps, ListType
  <2>2. causes' \in CauseTables
    BY <1>0, <1>7, BlameType, CauseType DEF EnterRoom
  <2>3. RoomType'
    BY <1>0, <1>7 DEF EnterRoom, RoomType, Rooms
  <2> QED
    BY <1>0, <1>7, <2>1, <2>2, <2>3 DEF EnterRoom, window, stream, bounds, StreamType,
       BoundType, LedgerType, ListType, ViewType
<1>8. ASSUME NEW c \in Clients, NEW i \in DOMAIN tasks[c], LeaveRoom(c, i) PROVE Parts'
  <2>1. tasks' \in TaskLists
    BY <1>0, <1>8, GoesMoves DEF LeaveRoom, Moved, Steps, ListType
  <2>2. causes' \in CauseTables
    BY <1>0, <1>8, BlameType, CauseType DEF LeaveRoom
  <2>3. RoomType'
    BY <1>0, <1>8 DEF LeaveRoom, RoomType, Rooms, Places
  <2> QED
    BY <1>0, <1>8, <2>1, <2>2, <2>3 DEF LeaveRoom, window, stream, bounds, StreamType,
       BoundType, LedgerType, ListType, ViewType
<1>9. ASSUME NEW c \in Clients, NEW i \in DOMAIN tasks[c], Unsubscribe(c, i) PROVE Parts'
  <2>1. tasks' \in TaskLists
    BY <1>0, <1>9, GoesMoves DEF Unsubscribe, Ends, Moved, Steps, ListType
  <2> DEFINE s == tasks[c][i].event.session
  <2>2. s \in Sessions
    BY <1>0, TaskShape DEF ListType
  <2> HIDE DEF s
  <2>3. \/ UNCHANGED <<stream, held, causes>>
        \/ /\ count[s] # 0 /\ count' = [count EXCEPT ![s] = @ - 1]
           /\ subscribed' = Remaining(s) /\ running' = Marked(Remaining(s))
           /\ alive' = (alive /\ Remaining(s) # {})
           /\ held' = [held EXCEPT ![c][s] = IF @ = 0 THEN 0 ELSE @ - 1]
           /\ Blame(c, IF held[c][s] = 0 THEN {"order"} ELSE {})
    BY <1>9 DEF Unsubscribe, s
  <2>4. (IF held[c][s] = 0 THEN 0 ELSE held[c][s] - 1) \in Nat
    BY <1>0, <2>2 DEF LedgerType, HeldTables
  <2>5. held' \in HeldTables
    BY <1>0, <2>2, <2>3, <2>4, HeldMoves DEF LedgerType
  <2>6. causes' \in CauseTables
    BY <1>0, <2>3, BlameType DEF LedgerType
  <2>7. count' \in [Sessions -> Nat]
    BY <1>0, <2>2, <2>3 DEF stream, StreamType
  <2>8. subscribed' \subseteq Sessions /\ running' \in BOOLEAN /\ alive' \in BOOLEAN
    BY <1>0, <2>3 DEF stream, StreamType, Remaining, Marked
  <2> QED
    BY <1>0, <1>9, <2>1, <2>5, <2>6, <2>7, <2>8
       DEF Unsubscribe, window, bounds, ListType, ViewType, BoundType, RoomType, LedgerType, StreamType
<1>c. ASSUME NEW c \in Clients, NEW i \in DOMAIN tasks[c], LeaveFails(c, i) PROVE Parts'
  <2>1. tasks' \in TaskLists
    BY <1>0, <1>c, GoesMoves DEF LeaveFails, Ends, Moved, Steps, ListType
  <2>2. causes' \in CauseTables
    BY <1>0, <1>c, BlameType, CauseType DEF LeaveFails
  <2>3. BoundType'
    BY <1>0, <1>c, TurnType DEF LeaveFails, BoundType
  <2> QED
    BY <1>0, <1>c, <2>1, <2>2, <2>3 DEF LeaveFails, window, stream, ListType, ViewType,
       StreamType, RoomType, LedgerType
<1>d. ASSUME NEW c \in Clients, NEW i \in DOMAIN tasks[c], UnsubscribeFails(c, i) PROVE Parts'
  <2>1. tasks' \in TaskLists
    BY <1>0, <1>d, GoesMoves DEF UnsubscribeFails, Ends, Moved, Steps, ListType
  <2> DEFINE s == tasks[c][i].event.session
             what == (IF held[c][s] = 0 THEN {"order"} ELSE {})
                       \cup (IF count[s] = 1 THEN {"error"} ELSE {})
  <2>2. s \in Sessions
    BY <1>0, TaskShape DEF ListType
  <2>3. what \in SUBSET {"refused", "order", "error"}
    OBVIOUS
  <2>4. /\ count[s] # 0 /\ count' = [count EXCEPT ![s] = @ - 1]
        /\ held' = [held EXCEPT ![c][s] = IF @ = 0 THEN 0 ELSE @ - 1]
        /\ Blame(c, what)
    BY <1>d DEF UnsubscribeFails
  <2> HIDE DEF s, what
  <2>5. (IF held[c][s] = 0 THEN 0 ELSE held[c][s] - 1) \in Nat
    BY <1>0, <2>2 DEF LedgerType, HeldTables
  <2>6. held' \in HeldTables
    BY <1>0, <2>2, <2>4, <2>5, HeldMoves DEF LedgerType
  <2>7. causes' \in CauseTables
    BY <1>0, <2>3, <2>4, BlameType DEF LedgerType
  <2>8. count' \in [Sessions -> Nat]
    BY <1>0, <2>2, <2>4 DEF StreamType
  <2>9. BoundType'
    BY <1>0, <1>d, TurnType DEF UnsubscribeFails, BoundType
  <2> QED
    BY <1>0, <1>d, <2>1, <2>6, <2>7, <2>8, <2>9
       DEF UnsubscribeFails, window, ListType, ViewType, RoomType, LedgerType, StreamType
<1>10. ASSUME NEW c \in Clients, Cut(c) PROVE Parts'
  <2>1. tasks' \in TaskLists
    BY <1>0, <1>10, CutAbandons DEF Abandoned, ListType
  <2>2. BoundType'
    BY <1>0, <1>10, TurnType DEF Cut, BoundType
  <2>3. RoomType'
    BY <1>0, <1>10 DEF Cut, RoomType, Rooms, Places
  <2>4. ViewType'
    BY <1>0, <1>10 DEF Cut, ViewType
  <2> QED
    BY <1>0, <1>10, <2>1, <2>2, <2>3, <2>4 DEF Cut, stream, StreamType, LedgerType, ListType
<1>11. ASSUME ListenerFails PROVE Parts'
  <2>1. BoundType'
    BY <1>0, <1>11, TurnType DEF ListenerFails, BoundType
  <2> QED
    BY <1>0, <1>11, <2>1 DEF ListenerFails, window, ListType, ViewType, StreamType, RoomType, LedgerType
<1>12. ASSUME UNCHANGED vars PROVE Parts'
  BY <1>0, <1>12 DEF vars, window, stream, bounds, ListType, ViewType, StreamType, RoomType,
     BoundType, LedgerType
<1> HIDE DEF Parts
<1> QED
  BY <1>1, <1>2, <1>3, <1>b, <1>4, <1>5, <1>6, <1>7, <1>8, <1>9, <1>c, <1>d, <1>10, <1>11, <1>12
     DEF Next, WindowNext, HandlerNext

\* Every table of the windows, the handlers and the worker keeps its shape, for any number of
\* windows and sessions.
THEOREM TypeCorrect == Spec => []TypeOK
BY TypeInit, TypeStep, PTL DEF Spec

-----------------------------------------------------------------------------
(* What one step may do.                                                   *)

\* Nothing that belongs to window d changes.
Same(d) ==
  /\ active'[d] = active[d] /\ conn'[d] = conn[d] /\ waiting'[d] = waiting[d]
  /\ fetch'[d] = fetch[d] /\ buffer'[d] = buffer[d] /\ tasks'[d] = tasks[d]
  /\ info'[d] = info[d] /\ \A s \in Sessions : d \in room'[s] <=> d \in room[s]
  /\ held'[d] = held[d] /\ causes'[d] = causes[d]

\* A step of window c, or of one of its handlers.
StepOf(c) == WindowNext(c) \/ HandlerNext(c)

\* A window and its handlers touch nothing that belongs to another window.
LEMMA Apart ==
  ASSUME TypeOK, NEW c \in Clients, StepOf(c), NEW d \in Clients, d # c
  PROVE  Same(d)
<1>0. ListType /\ ViewType /\ RoomType /\ LedgerType
  BY TypeParts
<1>1. ASSUME NEW s \in Sessions, JoinSession(c, s) PROVE Same(d)
  BY <1>0, <1>1 DEF JoinSession, Same, ViewType, ListType, JoinLists
<1>2. ASSUME LeaveSession(c) PROVE Same(d)
  BY <1>0, <1>2 DEF LeaveSession, Emit, Blame, Same, ViewType, ListType, EventLists, TaskLists,
     LedgerType, CauseTables
<1>3. ASSUME Connect(c) PROVE Same(d)
  BY <1>0, <1>3 DEF Connect, Up, Same, ViewType, ListType, JoinLists, EventLists, TaskLists
<1>a. ASSUME ConnectAnew(c) PROVE Same(d)
  BY <1>0, <1>a DEF ConnectAnew, Up, Blame, Same, ViewType, ListType, JoinLists, EventLists,
     TaskLists, LedgerType, CauseTables
<1>4. ASSUME Token(c) PROVE Same(d)
  BY <1>0, <1>4 DEF Token, Emit, Blame, Same, ListType, JoinLists, EventLists, TaskLists,
     LedgerType, CauseTables
<1>5. ASSUME Cut(c) PROVE Same(d)
  BY <1>0, <1>5 DEF Cut, Same, ViewType, ListType, TaskLists, RoomType, Rooms
<1>6. ASSUME NEW i \in DOMAIN tasks[c], ReadToken(c, i) PROVE Same(d)
  BY <1>0, <1>6 DEF ReadToken, Ends, Goes, window, Same, ListType, TaskLists
<1>7. ASSUME NEW i \in DOMAIN tasks[c], Subscribe(c, i) PROVE Same(d)
  <2>1. held'[d] = held[d]
    BY <1>0, <1>7 DEF Subscribe, LedgerType, HeldTables
  <2> QED
    BY <1>0, <1>7, <2>1 DEF Subscribe, Ends, Goes, Blame, window, Same, ListType, TaskLists,
       LedgerType, CauseTables, RoomType
<1>8. ASSUME NEW i \in DOMAIN tasks[c], EnterRoom(c, i) PROVE Same(d)
  <2>1. \A s \in Sessions : d \in room'[s] <=> d \in room[s]
    BY <1>0, <1>8 DEF EnterRoom, RoomType, Rooms
  <2> QED
    BY <1>0, <1>8, <2>1 DEF EnterRoom, Ends, Goes, Blame, window, Same, ListType, TaskLists,
       LedgerType, CauseTables
<1>9. ASSUME NEW i \in DOMAIN tasks[c], LeaveRoom(c, i) PROVE Same(d)
  <2>1. \A s \in Sessions : d \in room'[s] <=> d \in room[s]
    BY <1>0, <1>9 DEF LeaveRoom, RoomType, Rooms
  <2> QED
    BY <1>0, <1>9, <2>1 DEF LeaveRoom, Goes, Blame, window, Same, ListType, TaskLists,
       LedgerType, CauseTables, RoomType
<1>10. ASSUME NEW i \in DOMAIN tasks[c], Unsubscribe(c, i) PROVE Same(d)
  <2>1. held'[d] = held[d]
    BY <1>0, <1>10 DEF Unsubscribe, LedgerType, HeldTables
  <2> QED
    BY <1>0, <1>10, <2>1 DEF Unsubscribe, Ends, Goes, Blame, window, Same, ListType, TaskLists,
       LedgerType, CauseTables
<1>b. ASSUME NEW i \in DOMAIN tasks[c], LeaveFails(c, i) PROVE Same(d)
  BY <1>0, <1>b DEF LeaveFails, Ends, Goes, Blame, window, Same, ListType, TaskLists,
     LedgerType, CauseTables
<1>c. ASSUME NEW i \in DOMAIN tasks[c], UnsubscribeFails(c, i) PROVE Same(d)
  <2>1. held'[d] = held[d]
    BY <1>0, <1>c DEF UnsubscribeFails, LedgerType, HeldTables
  <2> QED
    BY <1>0, <1>c, <2>1 DEF UnsubscribeFails, Ends, Goes, Blame, window, Same, ListType, TaskLists,
       LedgerType, CauseTables
<1> QED
  BY <1>1, <1>2, <1>3, <1>a, <1>4, <1>5, <1>6, <1>7, <1>8, <1>9, <1>10, <1>b, <1>c
     DEF StepOf, WindowNext, HandlerNext

LEMMA Idle ==
  ASSUME ListenerFails \/ UNCHANGED vars, NEW d \in Clients
  PROVE  Same(d) /\ live' = live /\ issued' = issued
BY DEF ListenerFails, vars, window, bounds, stream, Same

\* What went wrong stays on record.
LEMMA Recorded ==
  ASSUME TypeOK, [Next]_vars
  PROVE  faults \subseteq faults' /\ \A c \in Clients : causes[c] \subseteq causes'[c]
<1>0. LedgerType
  BY TypeParts
<1>1. ASSUME NEW c \in Clients, NEW what, Blame(c, what)
      PROVE  \A d \in Clients : causes[d] \subseteq causes'[d]
  BY <1>0, <1>1 DEF Blame, LedgerType, CauseTables
<1>2. ASSUME NEW c \in Clients, WindowNext(c)
      PROVE  \/ UNCHANGED causes
             \/ \E what : Blame(c, what)
  BY <1>2 DEF WindowNext, JoinSession, LeaveSession, Connect, ConnectAnew, Up, Token, Cut
<1>3. ASSUME NEW c \in Clients, HandlerNext(c)
      PROVE  \/ UNCHANGED causes
             \/ \E what : Blame(c, what)
  BY <1>3 DEF HandlerNext, ReadToken, Subscribe, EnterRoom, LeaveRoom, Unsubscribe, LeaveFails,
     UnsubscribeFails
<1>4. \A d \in Clients : causes[d] \subseteq causes'[d]
  BY <1>1, <1>2, <1>3 DEF Next, ListenerFails, vars
<1>5. ASSUME NEW c \in Clients, WindowNext(c) PROVE faults \subseteq faults'
  BY <1>5 DEF WindowNext, JoinSession, LeaveSession, Connect, ConnectAnew, Up, Token, Cut
<1>6. ASSUME NEW c \in Clients, HandlerNext(c) PROVE faults \subseteq faults'
  BY <1>6 DEF HandlerNext, ReadToken, Subscribe, EnterRoom, LeaveRoom, Unsubscribe, LeaveFails,
     UnsubscribeFails, bounds
<1> QED
  BY <1>4, <1>5, <1>6 DEF Next, ListenerFails, vars

\* A handler's step: where it stood, what it handles, where it stands then; it is on record when
\* one that subscribes or leaves overtakes another.
Transitions ==
  {<<"new", "join", "read">>, <<"new", "join", "done">>,
   <<"read", "join", "subscribed">>, <<"read", "join", "done">>,
   <<"subscribed", "join", "done">>,
   <<"new", "leave", "left">>, <<"left", "leave", "done">>}

Stepped(c, i, at) ==
  /\ Moved(c, i, at)
  /\ <<tasks[c][i].at, tasks[c][i].event.kind, at>> \in Transitions
  /\ conn'[c] = conn[c] /\ buffer'[c] = buffer[c] /\ waiting'[c] = waiting[c]
  /\ fetch'[c] = fetch[c] /\ active'[c] = active[c] /\ faults' = faults
  /\ at \in {"subscribed", "left"} => Order(c, i) \subseteq causes'[c]

\* The handlers of window c stay, events arrive, or the connection goes; or one takes a step.
WindowMove(c) ==
  \/ /\ tasks'[c] = tasks[c] /\ conn'[c] = conn[c] /\ faults' = faults
     /\ conn[c] = "up" => buffer'[c] = buffer[c] /\ waiting'[c] = waiting[c]
  \/ /\ \E events \in Seq(Events) : Added(c, events)
     /\ conn[c] = "up" => buffer'[c] = buffer[c] /\ waiting'[c] = waiting[c]
     /\ conn[c] # "up" => buffer'[c] = <<>> /\ waiting'[c] = <<>>
     /\ conn'[c] = "up" /\ faults' = faults
  \/ Abandoned(c) /\ Cut(c) /\ "cut" \in faults' /\ conn'[c] = "down"
HandlersMove(c) == WindowMove(c) \/ \E i \in DOMAIN tasks[c], at \in Steps : Stepped(c, i, at)

LEMMA WindowMovement ==
  ASSUME TypeOK, NEW c \in Clients, WindowNext(c)
  PROVE  WindowMove(c)
<1>0. ListType /\ ViewType /\ BoundType
  BY TypeParts
<1>1. ASSUME NEW s \in Sessions, JoinSession(c, s) PROVE WindowMove(c)
  BY <1>0, <1>1 DEF JoinSession, WindowMove, ListType, JoinLists
<1>2. ASSUME LeaveSession(c) PROVE WindowMove(c)
  <2>1. active[c] \in Sessions
    BY <1>0, <1>2 DEF LeaveSession, ViewType, Places
  <2>2. <<Quit(active[c])>> \in Seq(Events)
    BY <2>1, EventType, AppendProperties
  <2>3. conn[c] = "up" => Added(c, <<Quit(active[c])>>) /\ buffer' = buffer
    BY <1>0, <1>2, <2>2, EmitType DEF LeaveSession
  <2>4. conn[c] # "up" => tasks' = tasks
    BY <1>2 DEF LeaveSession, Emit
  <2>5. conn' = conn /\ waiting' = waiting /\ faults' = faults
    BY <1>2 DEF LeaveSession
  <2> QED
    BY <2>2, <2>3, <2>4, <2>5 DEF WindowMove
<1>3. ASSUME Connect(c) \/ ConnectAnew(c) PROVE WindowMove(c)
  <2>0. PICK joins : Up(c, joins) /\ conn[c] \in {"down", "never"}
    BY <1>3 DEF Connect, ConnectAnew
  <2>1. buffer[c] \in Seq(Events)
    BY <1>0 DEF ListType, EventLists
  <2>2. Added(c, buffer[c])
    BY <1>0, <2>0, <2>1, StartedAdds DEF Up, ListType
  <2>3. conn'[c] = "up" /\ faults' = faults /\ conn[c] # "up" /\ buffer'[c] = <<>>
        /\ waiting'[c] = <<>>
    BY <1>0, <2>0 DEF Up, ViewType, ListType, EventLists, JoinLists
  <2> QED
    BY <2>1, <2>2, <2>3 DEF WindowMove
<1>4. ASSUME Token(c) PROVE WindowMove(c)
  <2>1. issued' \in 0 .. MaxTokens
    BY <1>0, <1>4, RoomAssumption DEF Token, BoundType, RoomAssumption
  <2>2. Emit(c, Joins(c, issued')) /\ Joins(c, issued') \in Seq(Events)
    BY <1>0, <1>4, <2>1, JoinsType DEF Token, Joins
  <2>3. conn[c] = "up" => Added(c, Joins(c, issued')) /\ buffer' = buffer
    BY <1>0, <2>2, EmitType
  <2>4. conn[c] # "up" => tasks' = tasks
    BY <2>2 DEF Emit
  <2>5. conn' = conn /\ waiting' = waiting /\ faults' = faults
    BY <1>4 DEF Token
  <2> QED
    BY <2>2, <2>3, <2>4, <2>5 DEF WindowMove
<1>5. ASSUME Cut(c) PROVE WindowMove(c)
  <2>1. Abandoned(c)
    BY <1>0, <1>5, CutAbandons DEF ListType
  <2>2. "cut" \in faults' /\ conn'[c] = "down"
    BY <1>0, <1>5 DEF Cut, ViewType
  <2> QED
    BY <1>5, <2>1, <2>2 DEF WindowMove
<1> QED
  BY <1>1, <1>2, <1>3, <1>4, <1>5 DEF WindowNext

LEMMA HandlerMovement ==
  ASSUME TypeOK, NEW c \in Clients, NEW i \in DOMAIN tasks[c],
         \/ ReadToken(c, i) \/ Subscribe(c, i) \/ EnterRoom(c, i)
         \/ LeaveRoom(c, i) \/ Unsubscribe(c, i) \/ LeaveFails(c, i) \/ UnsubscribeFails(c, i)
  PROVE  \E at \in Steps : Stepped(c, i, at)
<1>0. ListType /\ LedgerType
  BY TypeParts
<1> DEFINE Still == UNCHANGED window /\ faults' = faults
<1>1. ASSUME NEW at \in Steps, Goes(c, i, at), Still,
             <<tasks[c][i].at, tasks[c][i].event.kind, at>> \in Transitions,
             at \in {"subscribed", "left"} => Order(c, i) \subseteq causes'[c]
      PROVE  Stepped(c, i, at)
  <2>1. Moved(c, i, at)
    BY <1>0, <1>1, GoesMoves DEF ListType
  <2>2. Stepped(c, i, at)
    BY <1>1, <2>1 DEF Stepped, window
  <2> QED
    BY <2>2
<1>2. /\ \A x \in {"read", "done"} : <<"new", "join", x>> \in Transitions
      /\ \A x \in {"subscribed", "done"} : <<"read", "join", x>> \in Transitions
      /\ <<"subscribed", "join", "done">> \in Transitions
      /\ <<"new", "leave", "left">> \in Transitions /\ <<"left", "leave", "done">> \in Transitions
      /\ {"read", "subscribed", "left", "done"} \subseteq Steps
  BY DEF Transitions, Steps
<1>3. ASSUME ReadToken(c, i) PROVE \E at \in Steps : Stepped(c, i, at)
  <2>1. Goes(c, i, "read") \/ Goes(c, i, "done")
    BY <1>3 DEF ReadToken, Ends
  <2>2. tasks[c][i].at = "new" /\ tasks[c][i].event.kind = "join" /\ Still
    BY <1>3 DEF ReadToken, At
  <2> QED
    BY <1>1, <1>2, <2>1, <2>2
<1>4. ASSUME Subscribe(c, i) PROVE \E at \in Steps : Stepped(c, i, at)
  <2>1. Goes(c, i, "subscribed") \/ Goes(c, i, "done")
    BY <1>4 DEF Subscribe, Ends
  <2>2. tasks[c][i].at = "read" /\ tasks[c][i].event.kind = "join" /\ Still
    BY <1>4 DEF Subscribe, At
  <2>3. Order(c, i) \subseteq causes'[c]
    <3>1. Blame(c, Order(c, i)) \/ Blame(c, Order(c, i) \cup {"refused"})
      BY <1>4 DEF Subscribe
    <3> QED
      BY <1>0, <3>1, BlameType, CauseType
  <2> QED
    BY <1>1, <1>2, <2>1, <2>2, <2>3
<1>5. ASSUME EnterRoom(c, i) PROVE \E at \in Steps : Stepped(c, i, at)
  <2>1. Goes(c, i, "done") /\ tasks[c][i].at = "subscribed" /\ tasks[c][i].event.kind = "join" /\ Still
    BY <1>5 DEF EnterRoom, At, Ends
  <2> QED
    BY <1>1, <1>2, <2>1
<1>6. ASSUME LeaveRoom(c, i) PROVE \E at \in Steps : Stepped(c, i, at)
  <2>1. Goes(c, i, "left") /\ tasks[c][i].at = "new" /\ tasks[c][i].event.kind = "leave" /\ Still
    BY <1>6 DEF LeaveRoom, At
  <2>2. Order(c, i) \subseteq causes'[c]
    BY <1>0, <1>6, BlameType, CauseType DEF LeaveRoom
  <2> QED
    BY <1>1, <1>2, <2>1, <2>2
<1>7. ASSUME Unsubscribe(c, i) \/ LeaveFails(c, i) \/ UnsubscribeFails(c, i)
      PROVE  \E at \in Steps : Stepped(c, i, at)
  <2>1. Goes(c, i, "done") /\ tasks[c][i].at = "left" /\ tasks[c][i].event.kind = "leave" /\ Still
    BY <1>7 DEF Unsubscribe, LeaveFails, UnsubscribeFails, At, Ends
  <2> QED
    BY <1>1, <1>2, <2>1
<1> QED
  BY <1>3, <1>4, <1>5, <1>6, <1>7

LEMMA Movement ==
  ASSUME TypeOK, NEW c \in Clients, StepOf(c)
  PROVE  HandlersMove(c)
BY WindowMovement, HandlerMovement DEF StepOf, HandlerNext, HandlersMove

\* What a window and its handlers look like.
Shape(c) ==
  /\ \A i \in DOMAIN tasks[c] :
       LET k == tasks[c][i]
       IN  /\ k.at \in {"read", "subscribed"} => k.event.kind = "join"
           /\ k.at = "left" => k.event.kind = "leave"
           /\ conn[c] # "up" => k.gone \/ Dealt(k)
           /\ "cut" \notin faults => ~ k.gone
  /\ \A i, j \in DOMAIN tasks[c] :
       i < j /\ tasks[c][j].gone /\ ~ Dealt(tasks[c][i]) => tasks[c][i].gone
  /\ conn[c] = "up" => waiting[c] = <<>> /\ buffer[c] = <<>>
  /\ "cut" \notin faults => conn[c] # "down"
ShapeInv == \A c \in Clients : Shape(c)

LEMMA ShapeInit == Init => ShapeInv
<1> SUFFICES ASSUME Init, NEW c \in Clients PROVE Shape(c)
  BY DEF ShapeInv
<1>1. tasks[c] = <<>> /\ waiting[c] = <<>> /\ buffer[c] = <<>> /\ conn[c] # "down"
  BY DEF Init
<1>2. DOMAIN tasks[c] = {}
  BY <1>1
<1> QED
  BY <1>1, <1>2 DEF Shape

LEMMA ShapeStep == TypeOK /\ ShapeInv /\ [Next]_vars => ShapeInv'
<1> SUFFICES ASSUME TypeOK, ShapeInv, [Next]_vars, NEW c \in Clients PROVE Shape(c)'
  BY DEF ShapeInv
<1>0. ListType /\ ViewType /\ Shape(c) /\ faults \subseteq faults'
  BY TypeParts, Recorded DEF ShapeInv
<1>1. ASSUME Same(c) PROVE Shape(c)'
  BY <1>0, <1>1 DEF Same, Shape, Dealt
<1>2. ASSUME StepOf(c) PROVE Shape(c)'
  <2>1. CASE /\ tasks'[c] = tasks[c] /\ conn'[c] = conn[c] /\ faults' = faults
             /\ conn[c] = "up" => buffer'[c] = buffer[c] /\ waiting'[c] = waiting[c]
    BY <1>0, <2>1 DEF Shape, Dealt
  <2>2. ASSUME NEW events \in Seq(Events), Added(c, events), conn'[c] = "up", faults' = faults,
               conn[c] = "up" => buffer'[c] = buffer[c] /\ waiting'[c] = waiting[c],
               conn[c] # "up" => buffer'[c] = <<>> /\ waiting'[c] = <<>>
        PROVE  Shape(c)'
    <3> DEFINE n == Len(tasks[c])
    <3>1. ASSUME NEW j \in 1 .. n + Len(events), ~ j \in 1 .. n
          PROVE  tasks'[c][j].at = "new" /\ ~ tasks'[c][j].gone
      <4>1. j - n \in 1 .. Len(events) /\ n + (j - n) = j
        BY <2>2, <3>1 DEF Added
      <4> QED
        BY <2>2, <4>1 DEF Added
    <3>2. \A j \in 1 .. n : tasks'[c][j] = tasks[c][j]
      BY <2>2 DEF Added
    <3>3. DOMAIN tasks'[c] = 1 .. n + Len(events) /\ DOMAIN tasks[c] = 1 .. n
      BY <2>2 DEF Added
    <3>4. \A i, j \in 1 .. n + Len(events) : i < j /\ j \in 1 .. n => i \in 1 .. n
      BY <2>2 DEF Added
    <3> HIDE DEF n
    <3>5. ASSUME NEW i \in 1 .. n + Len(events), NEW j \in 1 .. n + Len(events), i < j,
                 tasks'[c][j].gone, ~ Dealt(tasks'[c][i])
          PROVE  tasks'[c][i].gone
      <4>1. j \in 1 .. n /\ i \in 1 .. n
        BY <3>1, <3>4, <3>5
      <4> QED
        BY <1>0, <3>2, <3>3, <3>5, <4>1 DEF Shape
    <3> QED
      BY <1>0, <2>2, <3>1, <3>2, <3>3, <3>5 DEF Shape
  <2>3. ASSUME NEW i \in DOMAIN tasks[c], NEW at \in Steps, Stepped(c, i, at)
        PROVE  Shape(c)'
    BY <1>0, <2>3 DEF Stepped, Moved, Shape, Dealt, Transitions
  <2>4. ASSUME Abandoned(c), "cut" \in faults', conn'[c] = "down" PROVE Shape(c)'
    BY <1>0, <2>4 DEF Abandoned, Shape, Dealt
  <2>5. HandlersMove(c)
    BY <1>2, Movement
  <2> QED
    BY <2>1, <2>2, <2>3, <2>4, <2>5 DEF HandlersMove, WindowMove
<1>3. ASSUME NEW d \in Clients, d # c, StepOf(d) PROVE Same(c)
  BY <1>3, Apart
<1> QED
  BY <1>1, <1>2, <1>3, Idle DEF Next, StepOf

LEMMA Arrival ==
  ASSUME NEW c \in Clients, NEW events, Added(c, events)
  PROVE  /\ DOMAIN tasks[c] \subseteq DOMAIN tasks'[c]
         /\ \A j \in DOMAIN tasks[c] : tasks'[c][j] = tasks[c][j]
         /\ \A j \in DOMAIN tasks'[c] : j \notin DOMAIN tasks[c] =>
              /\ tasks'[c][j].at = "new" /\ ~ tasks'[c][j].gone
              /\ j - Len(tasks[c]) \in 1 .. Len(events)
              /\ tasks'[c][j].event = events[j - Len(tasks[c])]
              /\ \A i \in DOMAIN tasks[c] : i < j
<1> DEFINE n == Len(tasks[c])
<1>1. /\ DOMAIN tasks'[c] = 1 .. n + Len(events) /\ DOMAIN tasks[c] = 1 .. n
      /\ \A j \in 1 .. n : tasks'[c][j] = tasks[c][j]
      /\ n \in Nat /\ Len(events) \in Nat
  BY DEF Added
<1>2. ASSUME NEW j \in 1 .. n + Len(events), ~ j \in 1 .. n
      PROVE  /\ tasks'[c][j].at = "new" /\ ~ tasks'[c][j].gone
             /\ tasks'[c][j].event = events[j - n] /\ j - n \in 1 .. Len(events)
             /\ \A i \in 1 .. n : i < j
  <2>1. j - n \in 1 .. Len(events) /\ n + (j - n) = j /\ \A i \in 1 .. n : i < j
    BY <1>1, <1>2
  <2> QED
    BY <2>1 DEF Added
<1> HIDE DEF n
<1>3. 1 .. n \subseteq 1 .. n + Len(events)
  BY <1>1
<1> QED
  BY <1>1, <1>2, <1>3 DEF n

-----------------------------------------------------------------------------
(* The worker listens to the sessions whose rooms have members.            *)

Free(c) == "order" \notin causes[c]

\* Handler i has subscribed its window to session s and is about to put it into the room.
Entering(c, i, s) ==
  LET k == tasks[c][i]
  IN  i \in DOMAIN tasks[c] /\ k.at = "subscribed" /\ ~ k.gone /\ k.event.session = s
InIt(c, s) == c \in room[s] \/ \E i \in DOMAIN tasks[c] : Entering(c, i, s)

\* A join that is about to enter its room waits for no earlier event, and a window in a room for
\* no event of a connection it has lost.
InTurn(c) ==
  Free(c) =>
    /\ \A i \in DOMAIN tasks[c], s \in Sessions : Entering(c, i, s) => ~ Overtakes(c, i)
    /\ (\E s \in Sessions : c \in room[s]) =>
         \A i \in DOMAIN tasks[c] : tasks[c][i].gone => Dealt(tasks[c][i])
TurnInv == \A c \in Clients : InTurn(c)

LEMMA TurnInit == Init => TurnInv
<1> SUFFICES ASSUME Init, NEW c \in Clients PROVE DOMAIN tasks[c] = {}
  BY DEF TurnInv, InTurn
<1> QED
  BY DEF Init

\* Only enter_room() puts a window into a room.
LEMMA RoomGrows ==
  ASSUME TypeOK, NEW c \in Clients, StepOf(c), NEW s \in Sessions, c \in room'[s], c \notin room[s]
  PROVE  \E i \in DOMAIN tasks[c] : EnterRoom(c, i) /\ ~ tasks[c][i].gone
<1>0. RoomType
  BY TypeParts
<1>1. ASSUME WindowNext(c) PROVE FALSE
  <2>1. room' = room \/ room' = [r \in Sessions |-> room[r] \ {c}]
    BY <1>1 DEF WindowNext, JoinSession, LeaveSession, Connect, ConnectAnew, Up, Token, Cut
  <2> QED
    BY <2>1
<1>2. ASSUME NEW i \in DOMAIN tasks[c], LeaveRoom(c, i) PROVE FALSE
  BY <1>0, <1>2 DEF LeaveRoom, RoomType, Rooms
<1>3. ASSUME NEW i \in DOMAIN tasks[c], EnterRoom(c, i), tasks[c][i].gone PROVE FALSE
  BY <1>3 DEF EnterRoom
<1>4. ASSUME NEW i \in DOMAIN tasks[c],
             \/ ReadToken(c, i) \/ Subscribe(c, i) \/ Unsubscribe(c, i)
             \/ LeaveFails(c, i) \/ UnsubscribeFails(c, i)
      PROVE  FALSE
  BY <1>4 DEF ReadToken, Subscribe, Unsubscribe, LeaveFails, UnsubscribeFails
<1> QED
  BY <1>1, <1>2, <1>3, <1>4 DEF StepOf, HandlerNext

LEMMA TurnStep == TypeOK /\ ShapeInv /\ TurnInv /\ [Next]_vars => TurnInv'
<1> SUFFICES ASSUME TypeOK, ShapeInv, TurnInv, [Next]_vars, NEW c \in Clients PROVE InTurn(c)'
  BY DEF TurnInv
<1>0. ListType /\ LedgerType /\ Shape(c) /\ InTurn(c) /\ (Free(c)' => Free(c))
  BY TypeParts, Recorded DEF TurnInv, ShapeInv, Free
<1>a. DOMAIN tasks[c] = 1 .. Len(tasks[c]) /\ Len(tasks[c]) \in Nat
  BY <1>0, TaskShape DEF ListType
<1> DEFINE Smaller == \A s \in Sessions : c \in room'[s] => c \in room[s]
<1>1. ASSUME tasks'[c] = tasks[c], Smaller PROVE InTurn(c)'
  BY <1>0, <1>1 DEF InTurn, Entering, Overtakes, Dealt
<1>2. ASSUME NEW events \in Seq(Events), Added(c, events), Smaller PROVE InTurn(c)'
  <2>a. ASSUME Free(c)', NEW i \in DOMAIN tasks'[c], NEW s \in Sessions, Entering(c, i, s)'
        PROVE  ~ Overtakes(c, i)'
    <3>1. i \in DOMAIN tasks[c] /\ \A j \in DOMAIN tasks[c] : tasks'[c][j] = tasks[c][j]
      BY <1>2, <2>a, Arrival DEF Entering
    <3>2. ~ Overtakes(c, i)
      BY <1>0, <2>a, <3>1 DEF InTurn, Entering
    <3>3. \A j \in 1 .. i - 1 : j \in DOMAIN tasks[c]
      BY <1>a, <3>1
    <3> QED
      BY <3>1, <3>2, <3>3 DEF Overtakes, Dealt
  <2>b. ASSUME Free(c)', NEW s \in Sessions, c \in room'[s], NEW i \in DOMAIN tasks'[c],
               tasks'[c][i].gone
        PROVE  Dealt(tasks'[c][i])
    <3>1. i \in DOMAIN tasks[c] /\ tasks'[c][i] = tasks[c][i]
      BY <1>2, <2>b, Arrival
    <3> QED
      BY <1>0, <1>2, <2>b, <3>1 DEF InTurn
  <2>c. \A k : Dealt(k)' <=> Dealt(k)
    BY DEF Dealt
  <2> QED
    BY <2>a, <2>b, <2>c DEF InTurn, Dealt
<1>3. ASSUME NEW i \in DOMAIN tasks[c], NEW at \in Steps, Stepped(c, i, at), StepOf(c),
             at = "subscribed" => (Free(c)' => ~ Overtakes(c, i)),
             \A s \in Sessions : Free(c)' /\ c \in room'[s] /\ c \notin room[s] =>
               tasks[c][i].at = "subscribed" /\ ~ tasks[c][i].gone /\ ~ Overtakes(c, i)
      PROVE  InTurn(c)'
  <2>0. \A l \in DOMAIN tasks[c] : Dealt(tasks[c][l]) => Dealt(tasks'[c][l])
    BY <1>3 DEF Stepped, Moved, Dealt, Transitions
  <2>a. ASSUME Free(c)', NEW j \in DOMAIN tasks'[c], NEW s \in Sessions, Entering(c, j, s)'
        PROVE  ~ Overtakes(c, j)'
    <3>1. Moved(c, i, at) /\ j \in DOMAIN tasks[c]
      BY <1>3, <2>a DEF Stepped, Moved
    <3>2. ~ Overtakes(c, j)
      <4>1. CASE j = i
        <5>1. at = "subscribed"
          BY <2>a, <3>1, <4>1 DEF Moved, Entering
        <5> QED
          BY <1>3, <2>a, <4>1, <5>1
      <4>2. CASE j # i
        <5>1. Entering(c, j, s)
          BY <2>a, <3>1, <4>2 DEF Moved, Entering
        <5> QED
          BY <1>0, <2>a, <3>1, <5>1 DEF InTurn
      <4> QED
        BY <4>1, <4>2
    <3>3. \A l \in 1 .. j - 1 : l \in DOMAIN tasks[c]
      BY <1>a, <3>1
    <3>5. \A l \in 1 .. j - 1 : Dealt(tasks'[c][l])
      BY <2>0, <3>2, <3>3 DEF Overtakes
    <3> QED
      BY <3>5 DEF Overtakes, Dealt
  <2>b. ASSUME Free(c)', NEW s \in Sessions, c \in room'[s], NEW j \in DOMAIN tasks'[c],
               tasks'[c][j].gone
        PROVE  Dealt(tasks'[c][j])
    <3>1. j \in DOMAIN tasks[c] /\ tasks[c][j].gone
      BY <1>3, <2>b DEF Stepped, Moved
    <3>2. CASE c \in room[s]
      BY <1>0, <2>0, <2>b, <3>1, <3>2 DEF InTurn
    <3>3. CASE c \notin room[s]
      <4>1. tasks[c][i].at = "subscribed" /\ ~ tasks[c][i].gone /\ ~ Overtakes(c, i)
        BY <1>3, <2>b, <3>3
      <4>2. ~ i < j
        BY <1>0, <3>1, <4>1 DEF Shape, Dealt
      <4>3. j \in 1 .. i - 1
        BY <1>a, <3>1, <4>1, <4>2
      <4> QED
        BY <2>0, <3>1, <4>1, <4>3 DEF Overtakes
    <3> QED
      BY <3>2, <3>3
  <2> QED
    BY <2>a, <2>b DEF InTurn, Dealt
<1>4. ASSUME Abandoned(c), \A s \in Sessions : c \notin room'[s] PROVE InTurn(c)'
  <2>1. ASSUME NEW i \in DOMAIN tasks'[c], NEW s \in Sessions PROVE ~ Entering(c, i, s)'
    BY <1>4 DEF Abandoned, Entering
  <2> QED
    BY <1>4, <2>1 DEF InTurn
<1>5. ASSUME StepOf(c) PROVE InTurn(c)'
  <2>1. ASSUME NEW i \in DOMAIN tasks[c], NEW at \in Steps, Stepped(c, i, at) PROVE InTurn(c)'
    <3>1. at = "subscribed" => (Free(c)' => ~ Overtakes(c, i))
      BY <2>1 DEF Stepped, Free, Order
    <3>2. ASSUME NEW s \in Sessions, Free(c)', c \in room'[s], c \notin room[s]
          PROVE  tasks[c][i].at = "subscribed" /\ ~ tasks[c][i].gone /\ ~ Overtakes(c, i)
      <4>1. PICK j \in DOMAIN tasks[c] : EnterRoom(c, j) /\ ~ tasks[c][j].gone
        BY <1>5, <3>2, RoomGrows
      <4>2. Moved(c, j, "done") /\ tasks[c][j].at = "subscribed"
        BY <1>0, <4>1, GoesMoves DEF EnterRoom, Ends, At, ListType, Steps
      <4>3. Moved(c, i, at) /\ tasks[c][i].at # at
        BY <2>1 DEF Stepped, Transitions
      <4>4. i = j
        BY <4>2, <4>3 DEF Moved
      <4>5. ~ Overtakes(c, j)
        BY <1>0, <3>2, <4>1, BlameType, CauseType DEF EnterRoom, Order, Free
      <4> QED
        BY <4>1, <4>2, <4>4, <4>5
    <3> QED
      BY <1>3, <1>5, <2>1, <3>1, <3>2
  <2>2. HandlersMove(c)
    BY <1>5, Movement
  <2>3. Smaller \/ \E i \in DOMAIN tasks[c] : EnterRoom(c, i)
    BY <1>5, RoomGrows
  <2>4. ASSUME WindowMove(c) PROVE InTurn(c)'
    <3>1. ASSUME NEW i \in DOMAIN tasks[c], EnterRoom(c, i) PROVE InTurn(c)'
      <4>1. PICK at \in Steps : Stepped(c, i, at)
        BY <3>1, HandlerMovement
      <4> QED
        BY <2>1, <4>1
    <3>2. Cut(c) => \A s \in Sessions : c \notin room'[s]
      BY DEF Cut
    <3> QED
      BY <1>1, <1>2, <1>4, <2>3, <2>4, <3>1, <3>2 DEF WindowMove
  <2> QED
    BY <2>1, <2>2, <2>4 DEF HandlersMove
<1>6. ASSUME NEW d \in Clients, d # c, StepOf(d) PROVE InTurn(c)'
  BY <1>1, <1>6, Apart DEF Same
<1>7. ASSUME ListenerFails \/ UNCHANGED vars PROVE InTurn(c)'
  BY <1>1, <1>7, Idle DEF Same
<1> QED
  BY <1>5, <1>6, <1>7 DEF Next, StepOf

\* The units that are counted for session s: one for each subscribe call not given back.
Units(s) == {u \in Clients \X Nat : u[2] < held[u[1]][s]}
Counted(s) == IsFiniteSet(Units(s)) /\ count[s] = Cardinality(Units(s))

\* A window that is in a room, or about to enter it, has more units than its leaves will give back.
Backed(c, s) ==
  /\ Leaving(c, s) <= held[c][s]
  /\ InIt(c, s) => Leaving(c, s) < held[c][s] /\ s \in subscribed
InOrder == \A c \in Clients : Free(c)
BackInv == InOrder => \A s \in Sessions : Counted(s) /\ \A c \in Clients : Backed(c, s)

LEMMA LeaversFinite ==
  ASSUME ListType, NEW c \in Clients, NEW s
  PROVE  IsFiniteSet(Leavers(c, s)) /\ Leaving(c, s) \in Nat
<1>1. Leavers(c, s) \subseteq 1 .. Len(tasks[c]) /\ Len(tasks[c]) \in Nat
  BY TaskShape DEF ListType, Leavers
<1>2. IsFiniteSet(1 .. Len(tasks[c]))
  BY <1>1, FS_Interval
<1>3. IsFiniteSet(Leavers(c, s))
  BY <1>1, <1>2, FS_Subset
<1> QED
  BY <1>3, FS_CardinalityType DEF Leaving

\* How many leaves of a session are under way changes as a handler starts and ends one.
LEMMA LeavingStays ==
  ASSUME ListType, NEW c \in Clients, NEW s,
         \/ tasks'[c] = tasks[c]
         \/ \E events : Added(c, events)
         \/ Abandoned(c)
         \/ \E i \in DOMAIN tasks[c], at \in Steps :
              /\ Moved(c, i, at)
              /\ (at # "left" /\ tasks[c][i].at # "left") \/ tasks[c][i].event.session # s
  PROVE  Leaving(c, s)' = Leaving(c, s)
<1>1. CASE tasks'[c] = tasks[c]
  BY <1>1 DEF Leaving, Leavers
<1>2. ASSUME NEW events, Added(c, events) PROVE Leavers(c, s)' = Leavers(c, s)
  BY <1>2, Arrival DEF Leavers
<1>3. ASSUME Abandoned(c) PROVE Leavers(c, s)' = Leavers(c, s)
  BY <1>3 DEF Abandoned, Leavers
<1>4. ASSUME NEW i \in DOMAIN tasks[c], NEW at \in Steps, Moved(c, i, at),
             (at # "left" /\ tasks[c][i].at # "left") \/ tasks[c][i].event.session # s
      PROVE  Leavers(c, s)' = Leavers(c, s)
  BY <1>4 DEF Moved, Leavers
<1> QED
  BY <1>1, <1>2, <1>3, <1>4 DEF Leaving

LEMMA LeavingStarts ==
  ASSUME ListType, NEW c \in Clients, NEW i \in DOMAIN tasks[c], Moved(c, i, "left"),
         tasks[c][i].at # "left", NEW s, s = tasks[c][i].event.session
  PROVE  Leaving(c, s)' = Leaving(c, s) + 1
<1>1. Leavers(c, s)' = Leavers(c, s) \cup {i} /\ i \notin Leavers(c, s)
  BY DEF Moved, Leavers
<1> QED
  BY <1>1, LeaversFinite, FS_AddElement DEF Leaving

LEMMA LeavingEnds ==
  ASSUME ListType, NEW c \in Clients, NEW i \in DOMAIN tasks[c], NEW at, Moved(c, i, at),
         tasks[c][i].at = "left", at # "left", NEW s, s = tasks[c][i].event.session
  PROVE  Leaving(c, s)' = Leaving(c, s) - 1 /\ Leaving(c, s) > 0
<1>1. Leavers(c, s)' = Leavers(c, s) \ {i} /\ i \in Leavers(c, s)
  BY DEF Moved, Leavers
<1>2. Leaving(c, s)' = Leaving(c, s) - 1
  <2>1. IsFiniteSet(Leavers(c, s))
    BY LeaversFinite
  <2>2. Cardinality(Leavers(c, s) \ {i}) = Cardinality(Leavers(c, s)) - 1
    BY <1>1, <2>1, FS_RemoveElement
  <2> QED
    BY <1>1, <2>2 DEF Leaving
<1>3. Leaving(c, s) # 0
  BY <1>1, LeaversFinite, FS_EmptySet DEF Leaving
<1> QED
  BY <1>2, <1>3, LeaversFinite

\* Who is in a room, or about to enter, changes with the room and with the handlers that enter.
LEMMA InItStays ==
  ASSUME ListType, NEW c \in Clients, NEW s, c \in room'[s] => c \in room[s],
         \/ tasks'[c] = tasks[c]
         \/ \E events : Added(c, events)
         \/ Abandoned(c)
         \/ \E i \in DOMAIN tasks[c], at \in Steps : Moved(c, i, at) /\ at # "subscribed"
  PROVE  InIt(c, s)' => InIt(c, s)
<1>1. CASE tasks'[c] = tasks[c]
  BY <1>1 DEF InIt, Entering
<1>2. ASSUME NEW events, Added(c, events) PROVE InIt(c, s)' => InIt(c, s)
  BY <1>2, Arrival DEF InIt, Entering
<1>3. ASSUME Abandoned(c) PROVE InIt(c, s)' => InIt(c, s)
  BY <1>3 DEF InIt, Entering, Abandoned
<1>4. ASSUME NEW i \in DOMAIN tasks[c], NEW at \in Steps, Moved(c, i, at), at # "subscribed"
      PROVE  InIt(c, s)' => InIt(c, s)
  <2>1. \A j \in DOMAIN tasks[c] : Entering(c, j, s)' => Entering(c, j, s)
    BY <1>4 DEF Entering, Moved
  <2> QED
    BY <1>4, <2>1 DEF InIt, Moved
<1> QED
  BY <1>1, <1>2, <1>3, <1>4

\* When the last unit of a session is given back, nobody is in its room or about to enter.
LEMMA LastLeaver ==
  ASSUME TypeOK, NEW s \in Sessions, Counted(s), \A d \in Clients : Backed(d, s),
         count[s] <= 1, NEW c \in Clients, Leaving(c, s) > 0, NEW d \in Clients
  PROVE  ~ InIt(d, s)
<1> SUFFICES ASSUME InIt(d, s) PROVE FALSE
  OBVIOUS
<1>0. ListType /\ LedgerType /\ StreamType
  BY TypeParts
<1>1. Leaving(c, s) \in Nat /\ Leaving(d, s) \in Nat /\ held[c][s] \in Nat /\ held[d][s] \in Nat
  BY <1>0, LeaversFinite DEF LedgerType, HeldTables
<1>2. Leaving(d, s) < held[d][s] /\ Leaving(c, s) <= held[c][s]
  BY DEF Backed
<1>3. <<c, 0>> \in Units(s) /\ <<d, 0>> \in Units(s)
  BY <1>1, <1>2 DEF Units
<1>4. c = d => <<c, 1>> \in Units(s)
  BY <1>1, <1>2 DEF Units
<1>5. Units(s) # {} /\ Cardinality(Units(s)) \in Nat /\ Cardinality(Units(s)) # 0
  BY <1>3, FS_EmptySet, FS_CardinalityType DEF Counted
<1>6. Cardinality(Units(s)) = 1
  BY <1>0, <1>5 DEF Counted
<1>7. PICK u : Units(s) = {u}
  BY <1>6, FS_Singleton DEF Counted
<1>8. <<c, 0>> = u /\ <<d, 0>> = u
  BY <1>3, <1>7
<1>9. c = d
  BY <1>8
<1>10. <<c, 1>> = u
  BY <1>4, <1>7, <1>9
<1>11. <<c, 0>>[2] = 0 /\ <<c, 1>>[2] = 1
  OBVIOUS
<1> QED
  BY <1>8, <1>10, <1>11

LEMMA BackInit == Init => BackInv
<1> SUFFICES ASSUME Init, NEW s \in Sessions
             PROVE  Counted(s) /\ \A c \in Clients : Backed(c, s)
  BY DEF BackInv
<1>0. ListType /\ RoomType /\ LedgerType
  BY TypeInit, TypeParts
<1>1. IsFiniteSet(room[s])
  BY <1>0, RoomAssumption, FS_Subset DEF RoomAssumption, RoomType, Rooms
<1>2. Units(s) = {<<d, 0>> : d \in room[s]}
  <2>1. ASSUME NEW u \in Clients \X Nat
        PROVE  u[2] < held[u[1]][s] <=> u[1] \in room[s] /\ u[2] = 0
    BY <2>1 DEF Init
  <2>2. \A d \in room[s] : <<d, 0>> \in Clients \X Nat
    BY <1>0 DEF RoomType, Rooms
  <2> QED
    BY <2>1, <2>2 DEF Units
<1>3. IsFiniteSet(Units(s)) /\ Cardinality(Units(s)) = Cardinality(room[s])
  <2> DEFINE f == [d \in room[s] |-> <<d, 0>>]
  <2>1. f \in Bijection(room[s], Units(s))
    BY <1>2 DEF Bijection, Injection, Surjection, IsInjective
  <2> QED
    BY <1>1, <2>1, FS_Bijection DEF ExistsBijection
<1>4. Counted(s)
  BY <1>3 DEF Counted, Init
<1>5. ASSUME NEW c \in Clients PROVE Backed(c, s)
  <2>1. DOMAIN tasks[c] = {}
    BY DEF Init
  <2>2. Leavers(c, s) = {}
    BY <2>1 DEF Leavers
  <2>3. Leaving(c, s) = 0
    BY <2>2, FS_EmptySet DEF Leaving
  <2>4. InIt(c, s) => held[c][s] = 1 /\ s \in subscribed
    BY <2>1 DEF InIt, Init
  <2>5. held[c][s] \in Nat
    BY <1>0 DEF LedgerType, HeldTables
  <2> QED
    BY <2>3, <2>4, <2>5 DEF Backed
<1> QED
  BY <1>4, <1>5


\* One more unit of window c in session s, or one less.
LEMMA UnitsGrow ==
  ASSUME LedgerType, NEW c \in Clients, NEW s \in Sessions, Counted(s),
         held' = [held EXCEPT ![c][s] = @ + 1], count'[s] = count[s] + 1
  PROVE  Counted(s)'
<1> DEFINE n == held[c][s]
<1>1. n \in Nat /\ held'[c][s] = n + 1 /\ \A d \in Clients : d # c => held'[d][s] = held[d][s]
  BY DEF LedgerType, HeldTables
<1>2. ASSUME NEW u \in Clients \X Nat
      PROVE  u[2] < held'[u[1]][s] <=> u[2] < held[u[1]][s] \/ u = <<c, n>>
  <2>1. CASE u[1] # c
    BY <1>1, <2>1
  <2>2. CASE u[1] = c
    <3>1. u[2] < n + 1 <=> u[2] < n \/ u[2] = n
      BY <1>1
    <3>2. u = <<c, n>> <=> u[2] = n
      BY <2>2
    <3> QED
      BY <1>1, <2>2, <3>1, <3>2
  <2> QED
    BY <2>1, <2>2
<1>3. <<c, n>> \in Clients \X Nat /\ <<c, n>> \notin Units(s)
  BY <1>1 DEF Units
<1>4. Units(s)' = Units(s) \cup {<<c, n>>}
  BY <1>2, <1>3 DEF Units
<1>5. IsFiniteSet(Units(s) \cup {<<c, n>>})
      /\ Cardinality(Units(s) \cup {<<c, n>>}) = Cardinality(Units(s)) + 1
  BY <1>3, FS_AddElement DEF Counted
<1> QED
  BY <1>4, <1>5 DEF Counted

LEMMA UnitsShrink ==
  ASSUME LedgerType, StreamType, NEW c \in Clients, NEW s \in Sessions, Counted(s), held[c][s] # 0,
         held' = [held EXCEPT ![c][s] = IF @ = 0 THEN 0 ELSE @ - 1], count'[s] = count[s] - 1
  PROVE  Counted(s)'
<1> DEFINE n == held[c][s] - 1
<1>1. n \in Nat /\ held[c][s] = n + 1 /\ held'[c][s] = n
      /\ \A d \in Clients : d # c => held'[d][s] = held[d][s]
  BY DEF LedgerType, HeldTables
<1>2. ASSUME NEW u \in Clients \X Nat
      PROVE  u[2] < held'[u[1]][s] <=> u[2] < held[u[1]][s] /\ u # <<c, n>>
  <2>1. CASE u[1] # c
    BY <1>1, <2>1
  <2>2. CASE u[1] = c
    <3>1. u[2] < n <=> u[2] < n + 1 /\ u[2] # n
      BY <1>1
    <3>2. u = <<c, n>> <=> u[2] = n
      BY <2>2
    <3> QED
      BY <1>1, <2>2, <3>1, <3>2
  <2> QED
    BY <2>1, <2>2
<1>3. <<c, n>> \in Units(s)
  BY <1>1 DEF Units
<1>4. Units(s)' = Units(s) \ {<<c, n>>}
  BY <1>2 DEF Units
<1>5. IsFiniteSet(Units(s) \ {<<c, n>>})
      /\ Cardinality(Units(s) \ {<<c, n>>}) = Cardinality(Units(s)) - 1
  BY <1>3, FS_RemoveElement DEF Counted
<1> QED
  BY <1>4, <1>5 DEF Counted

LEMMA UnitsStay ==
  ASSUME NEW s \in Sessions, Counted(s), count'[s] = count[s],
         \A d \in Clients : held'[d][s] = held[d][s]
  PROVE  Counted(s)'
<1>1. Units(s)' = Units(s)
  BY DEF Units
<1> QED
  BY <1>1 DEF Counted

LEMMA BackedStays ==
  ASSUME NEW d \in Clients, NEW s \in Sessions, Backed(d, s), held'[d][s] = held[d][s],
         Leaving(d, s)' = Leaving(d, s), InIt(d, s)' => InIt(d, s),
         s \in subscribed /\ InIt(d, s) => s \in subscribed'
  PROVE  Backed(d, s)'
BY DEF Backed

\* A leave that is on nobody's account takes a window out of a room only before it enters again.
LEMMA LeaveIsFirst ==
  ASSUME TypeOK, ShapeInv, TurnInv, NEW c \in Clients, NEW i \in DOMAIN tasks[c], LeaveRoom(c, i),
         Free(c)', NEW s \in Sessions, s = tasks[c][i].event.session
  PROVE  ~ InIt(c, s)' /\ Leaving(c, s) < held[c][s] /\ Moved(c, i, "left")
<1>0. ListType /\ RoomType /\ LedgerType /\ Shape(c) /\ InTurn(c)
  BY TypeParts DEF ShapeInv, TurnInv
<1>1. Moved(c, i, "left")
  BY <1>0, GoesMoves DEF LeaveRoom, ListType, Steps
<1>2. Free(c) /\ Order(c, i) = {} /\ Stray(c, s) = {}
  <2>1. causes'[c] = causes[c] \cup (Order(c, i) \cup Stray(c, s))
    BY <1>0, BlameType, CauseType DEF LeaveRoom
  <2> QED
    BY <2>1 DEF Free, Order, Stray
<1>3. Leaving(c, s) < held[c][s]
  <2>1. Leaving(c, s) \in Nat /\ held[c][s] \in Nat
    BY <1>0, LeaversFinite DEF LedgerType, HeldTables
  <2> QED
    BY <1>2, <2>1 DEF Stray
<1>4. ~ Overtakes(c, i)
  BY <1>2 DEF Order
<1>5. tasks[c][i].at = "new"
  BY DEF LeaveRoom, At
<1>6. c \notin room'[s]
  <2>1. CASE tasks[c][i].gone
    <3>1. ~ Dealt(tasks[c][i]) /\ room' = room
      BY <1>5, <2>1 DEF Dealt, LeaveRoom
    <3> QED
      BY <1>0, <1>2, <2>1, <3>1 DEF InTurn
  <2>2. CASE ~ tasks[c][i].gone
    BY <1>0, <2>2 DEF LeaveRoom, RoomType, Rooms
  <2> QED
    BY <2>1, <2>2
<1>7. ASSUME NEW j \in DOMAIN tasks[c], Entering(c, j, s)' PROVE FALSE
  <2>1. j # i /\ Entering(c, j, s)
    BY <1>1, <1>7 DEF Entering, Moved
  <2>2. DOMAIN tasks[c] = 1 .. Len(tasks[c]) /\ Len(tasks[c]) \in Nat
    BY <1>0, TaskShape DEF ListType
  <2>3. ~ Overtakes(c, j)
    BY <1>0, <1>2, <2>1 DEF InTurn
  <2>4. ~ Dealt(tasks[c][i]) /\ ~ Dealt(tasks[c][j])
    BY <1>5, <2>1 DEF Dealt, Entering
  <2>5. ~ i \in 1 .. j - 1 /\ ~ j \in 1 .. i - 1
    BY <1>4, <2>3, <2>4 DEF Overtakes
  <2> QED
    BY <2>1, <2>2, <2>5
<1> QED
  BY <1>1, <1>3, <1>6, <1>7 DEF InIt, Moved

LEMMA BackStep == TypeOK /\ ShapeInv /\ TurnInv /\ BackInv /\ [Next]_vars => BackInv'
<1> SUFFICES ASSUME TypeOK, ShapeInv, TurnInv, BackInv, [Next]_vars, InOrder', NEW s \in Sessions
             PROVE  Counted(s)' /\ \A d \in Clients : Backed(d, s)'
  BY DEF BackInv
<1> DEFINE Goal == Counted(s)' /\ \A d \in Clients : Backed(d, s)'
<1>0. ListType /\ RoomType /\ LedgerType /\ StreamType
  BY TypeParts
<1>1. InOrder /\ Counted(s) /\ \A d \in Clients : Backed(d, s)
  BY Recorded DEF BackInv, InOrder, Free
<1>2. ASSUME NEW d \in Clients, Same(d), s \in subscribed /\ InIt(d, s) => s \in subscribed'
      PROVE  Backed(d, s)'
  <2>1. Leaving(d, s)' = Leaving(d, s) /\ (InIt(d, s)' => InIt(d, s))
    BY <1>0, <1>2, LeavingStays, InItStays DEF Same
  <2> QED
    BY <1>1, <1>2, <2>1, BackedStays DEF Same
<1>3. ASSUME NEW c \in Clients, StepOf(c), Counted(s)', Backed(c, s)',
             \A d \in Clients : s \in subscribed /\ InIt(d, s) => s \in subscribed'
      PROVE  Goal
  BY <1>2, <1>3, Apart
<1>4. ASSUME NEW c \in Clients, WindowNext(c) PROVE Goal
  <2>1. held' = held /\ count' = count /\ subscribed' = subscribed /\ StepOf(c)
    BY <1>4 DEF WindowNext, JoinSession, LeaveSession, Connect, ConnectAnew, Up, Token, Cut, stream, StepOf
  <2>2. room' = room \/ room' = [r \in Sessions |-> room[r] \ {c}]
    BY <1>4 DEF WindowNext, JoinSession, LeaveSession, Connect, ConnectAnew, Up, Token, Cut
  <2>3. tasks'[c] = tasks[c] \/ (\E events : Added(c, events)) \/ Abandoned(c)
    BY <1>4, WindowMovement DEF WindowMove
  <2>4. Leaving(c, s)' = Leaving(c, s) /\ (InIt(c, s)' => InIt(c, s))
    BY <1>0, <2>2, <2>3, LeavingStays, InItStays
  <2>5. Backed(c, s)'
    BY <1>1, <2>1, <2>4, BackedStays
  <2>6. Counted(s)'
    BY <1>1, <2>1, UnitsStay
  <2> QED
    BY <1>3, <2>1, <2>5, <2>6
<1>5. ASSUME NEW c \in Clients, NEW i \in DOMAIN tasks[c], ReadToken(c, i) PROVE Goal
  <2>1. /\ held' = held /\ count' = count /\ subscribed' = subscribed /\ room' = room
        /\ StepOf(c)
    BY <1>5 DEF ReadToken, stream, StepOf, HandlerNext
  <2>2. tasks[c][i].at = "new" /\ (Moved(c, i, "read") \/ Moved(c, i, "done"))
    BY <1>0, <1>5, GoesMoves DEF ReadToken, Ends, At, ListType, Steps
  <2>3. Leaving(c, s)' = Leaving(c, s) /\ (InIt(c, s)' => InIt(c, s))
    BY <1>0, <2>1, <2>2, LeavingStays, InItStays DEF Steps
  <2> QED
    BY <1>1, <1>3, <2>1, <2>3, BackedStays, UnitsStay
<1>6. ASSUME NEW c \in Clients, NEW i \in DOMAIN tasks[c], EnterRoom(c, i) PROVE Goal
  <2>1. held' = held /\ count' = count /\ subscribed' = subscribed /\ StepOf(c)
    BY <1>6 DEF EnterRoom, stream, StepOf, HandlerNext
  <2>2. tasks[c][i].at = "subscribed" /\ Moved(c, i, "done")
    BY <1>0, <1>6, GoesMoves DEF EnterRoom, Ends, At, ListType, Steps
  <2>3. Leaving(c, s)' = Leaving(c, s)
    BY <1>0, <2>2, LeavingStays DEF Steps
  <2>4. InIt(c, s)' => InIt(c, s)
    <3>1. CASE c \in room'[s] => c \in room[s]
      BY <1>0, <2>2, <3>1, InItStays DEF Steps
    <3>2. CASE c \in room'[s] /\ c \notin room[s]
      <4>1. s = tasks[c][i].event.session /\ ~ tasks[c][i].gone
        BY <1>0, <1>6, <3>2 DEF EnterRoom, RoomType, Rooms
      <4> QED
        BY <2>2, <4>1 DEF InIt, Entering
    <3> QED
      BY <3>1, <3>2
  <2> QED
    BY <1>1, <1>3, <2>1, <2>3, <2>4, BackedStays, UnitsStay
<1>7. ASSUME NEW c \in Clients, NEW i \in DOMAIN tasks[c], Subscribe(c, i) PROVE Goal
  <2> DEFINE r == tasks[c][i].event.session
  <2>0. r \in Sessions
    BY <1>0, TaskShape DEF ListType
  <2>1. tasks[c][i].at = "read" /\ (Moved(c, i, "subscribed") \/ Moved(c, i, "done"))
    BY <1>0, <1>7, GoesMoves DEF Subscribe, Ends, At, ListType, Steps
  <2>2. Leaving(c, s)' = Leaving(c, s) /\ Leaving(c, s) \in Nat
    BY <1>0, <2>1, LeavingStays, LeaversFinite DEF Steps
  <2>3. /\ held' = [held EXCEPT ![c][r] = @ + 1] /\ count' = [count EXCEPT ![r] = @ + 1]
        /\ room' = room /\ subscribed \subseteq subscribed' /\ StepOf(c)
        /\ Moved(c, i, "subscribed") => r \in subscribed'
    <3>1. held' = [held EXCEPT ![c][r] = @ + 1] /\ count' = [count EXCEPT ![r] = @ + 1]
          /\ room' = room /\ StepOf(c)
      BY <1>7 DEF Subscribe, StepOf, HandlerNext
    <3>2. \/ Goes(c, i, "subscribed") /\ subscribed' = subscribed \cup {r}
          \/ Goes(c, i, "done") /\ subscribed' = subscribed
      BY <1>7 DEF Subscribe, Ends
    <3>3. Goes(c, i, "done") => Moved(c, i, "done")
      BY <1>0, GoesMoves DEF ListType, Steps
    <3>4. ~ (Moved(c, i, "subscribed") /\ Moved(c, i, "done"))
      BY DEF Moved
    <3> QED
      BY <3>1, <3>2, <3>3, <3>4
  <2> HIDE DEF r
  <2>4. CASE s # r
    <3>1. held'[c][s] = held[c][s] /\ count'[s] = count[s]
          /\ \A d \in Clients : held'[d][s] = held[d][s]
      BY <1>0, <2>0, <2>3, <2>4 DEF LedgerType, HeldTables, StreamType
    <3>2. InIt(c, s)' => InIt(c, s)
      <4>1. \A j \in DOMAIN tasks[c] : Entering(c, j, s)' => Entering(c, j, s)
        BY <2>1, <2>4 DEF Entering, Moved, r
      <4> QED
        BY <2>1, <2>3, <4>1 DEF InIt, Moved
    <3> QED
      BY <1>1, <1>3, <2>2, <2>3, <3>1, <3>2, BackedStays, UnitsStay
  <2>5. CASE s = r
    <3>1. held'[c][s] = held[c][s] + 1 /\ count'[s] = count[s] + 1 /\ held[c][s] \in Nat
      BY <1>0, <2>3, <2>5 DEF LedgerType, HeldTables, StreamType
    <3>2. Counted(s)'
      BY <1>0, <1>1, <2>3, <2>5, <3>1, UnitsGrow
    <3>3. InIt(c, s)' => s \in subscribed'
      <4>1. CASE Moved(c, i, "subscribed")
        BY <2>3, <2>5, <4>1
      <4>2. CASE Moved(c, i, "done")
        <5>1. InIt(c, s)' => InIt(c, s)
          BY <1>0, <2>3, <4>2, InItStays DEF Steps
        <5> QED
          BY <1>1, <2>3, <5>1 DEF Backed
      <4> QED
        BY <2>1, <4>1, <4>2
    <3>4. Backed(c, s)'
      BY <1>1, <2>2, <3>1, <3>3 DEF Backed
    <3> QED
      BY <1>3, <2>3, <3>2, <3>4
  <2> QED
    BY <2>4, <2>5
<1>8. ASSUME NEW c \in Clients, NEW i \in DOMAIN tasks[c], LeaveRoom(c, i) PROVE Goal
  <2>1. held' = held /\ count' = count /\ subscribed' = subscribed /\ StepOf(c)
    BY <1>8 DEF LeaveRoom, stream, StepOf, HandlerNext
  <2>2. tasks[c][i].at = "new" /\ Moved(c, i, "left")
    BY <1>0, <1>8, GoesMoves DEF LeaveRoom, At, ListType, Steps
  <2>3. Leaving(c, s) \in Nat /\ held[c][s] \in Nat
    BY <1>0, LeaversFinite DEF LedgerType, HeldTables
  <2>4. CASE s # tasks[c][i].event.session
    <3>1. Leaving(c, s)' = Leaving(c, s)
      BY <1>0, <2>2, <2>4, LeavingStays DEF Steps
    <3>2. c \in room'[s] => c \in room[s]
      BY <1>0, <1>8 DEF LeaveRoom, RoomType, Rooms
    <3>3. InIt(c, s)' => InIt(c, s)
      BY <1>0, <2>2, <3>2, InItStays DEF Steps
    <3> QED
      BY <1>1, <1>3, <2>1, <3>1, <3>3, BackedStays, UnitsStay
  <2>5. CASE s = tasks[c][i].event.session
    <3>1. Leaving(c, s)' = Leaving(c, s) + 1
      BY <1>0, <2>2, <2>5, LeavingStarts
    <3>2. ~ InIt(c, s)' /\ Leaving(c, s) < held[c][s]
      BY <1>8, <2>5, LeaveIsFirst DEF InOrder
    <3>3. Backed(c, s)'
      BY <2>1, <2>3, <3>1, <3>2 DEF Backed
    <3> QED
      BY <1>1, <1>3, <2>1, <3>3, UnitsStay
  <2> QED
    BY <2>4, <2>5
<1>9. ASSUME NEW c \in Clients, NEW i \in DOMAIN tasks[c],
             Unsubscribe(c, i) \/ LeaveFails(c, i) \/ UnsubscribeFails(c, i)
      PROVE  Goal
  <2> DEFINE r == tasks[c][i].event.session
  <2>0. r \in Sessions
    BY <1>0, TaskShape DEF ListType
  <2>1. room' = room /\ StepOf(c)
    BY <1>9 DEF Unsubscribe, LeaveFails, UnsubscribeFails, StepOf, HandlerNext
  <2>2. tasks[c][i].at = "left" /\ Moved(c, i, "done")
    BY <1>0, <1>9, GoesMoves
       DEF Unsubscribe, LeaveFails, UnsubscribeFails, Ends, At, ListType, Steps
  <2>3. Leaving(c, s) \in Nat /\ held[c][s] \in Nat /\ (InIt(c, s)' => InIt(c, s))
    BY <1>0, <2>1, <2>2, LeaversFinite, InItStays DEF LedgerType, HeldTables, Steps
  <2>4. \/ UNCHANGED <<count, subscribed, held>>
        \/ /\ count[r] # 0 /\ count' = [count EXCEPT ![r] = @ - 1]
           /\ subscribed' \in {Remaining(r), subscribed}
           /\ held' = [held EXCEPT ![c][r] = IF @ = 0 THEN 0 ELSE @ - 1]
           /\ held[c][r] = 0 => "order" \in causes'[c]
    <3>1. CASE Unsubscribe(c, i)
      <4>1. \/ UNCHANGED <<count, subscribed, held>>
            \/ /\ count[r] # 0 /\ count' = [count EXCEPT ![r] = @ - 1]
               /\ subscribed' = Remaining(r)
               /\ held' = [held EXCEPT ![c][r] = IF @ = 0 THEN 0 ELSE @ - 1]
               /\ Blame(c, IF held[c][r] = 0 THEN {"order"} ELSE {})
        BY <3>1 DEF Unsubscribe, stream
      <4> QED
        BY <1>0, <4>1, BlameType
    <3>2. CASE LeaveFails(c, i)
      BY <3>2 DEF LeaveFails, stream
    <3>3. CASE UnsubscribeFails(c, i)
      <4> DEFINE what == (IF held[c][r] = 0 THEN {"order"} ELSE {})
                           \cup (IF count[r] = 1 THEN {"error"} ELSE {})
      <4>1. /\ count[r] # 0 /\ count' = [count EXCEPT ![r] = @ - 1] /\ subscribed' = subscribed
            /\ held' = [held EXCEPT ![c][r] = IF @ = 0 THEN 0 ELSE @ - 1]
            /\ Blame(c, what)
        BY <3>3 DEF UnsubscribeFails
      <4>2. what \in SUBSET {"refused", "order", "error"} /\ (held[c][r] = 0 => "order" \in what)
        OBVIOUS
      <4> HIDE DEF what, r
      <4> QED
        BY <1>0, <4>1, <4>2, BlameType
    <3> QED
      BY <1>9, <3>1, <3>2, <3>3
  <2>5. s # r => Leaving(c, s)' = Leaving(c, s)
    BY <1>0, <2>2, LeavingStays DEF Steps
  <2>6. s = r => Leaving(c, s)' = Leaving(c, s) - 1 /\ Leaving(c, s) > 0
    BY <1>0, <2>2, LeavingEnds
  <2> HIDE DEF r
  <2>7. ASSUME UNCHANGED <<count, subscribed, held>> PROVE Goal
    <3>1. Backed(c, s)'
      <4>1. Leaving(c, s)' <= Leaving(c, s) /\ Leaving(c, s)' \in Nat
        BY <2>3, <2>5, <2>6
      <4> QED
        BY <1>1, <2>3, <2>7, <4>1 DEF Backed
    <3> QED
      BY <1>1, <1>3, <2>1, <2>7, <3>1, UnitsStay
  <2>8. ASSUME count[r] # 0, count' = [count EXCEPT ![r] = @ - 1],
               subscribed' \in {Remaining(r), subscribed},
               held' = [held EXCEPT ![c][r] = IF @ = 0 THEN 0 ELSE @ - 1],
               held[c][r] = 0 => "order" \in causes'[c]
        PROVE  Goal
    <3>1. s # r /\ s \in subscribed => s \in subscribed'
      BY <2>8 DEF Remaining
    <3>2. CASE s # r
      <4>1. count'[s] = count[s] /\ \A d \in Clients : held'[d][s] = held[d][s]
        BY <1>0, <2>0, <2>8, <3>2 DEF LedgerType, HeldTables, StreamType
      <4> QED
        BY <1>1, <1>3, <2>1, <2>3, <2>5, <3>1, <3>2, <4>1, BackedStays, UnitsStay
    <3>3. CASE s = r
      <4>1. held[c][s] # 0
        <5>1. "order" \notin causes'[c]
          BY DEF InOrder, Free
        <5> QED
          BY <2>8, <3>3, <5>1
      <4>2. held'[c][s] = held[c][s] - 1 /\ count'[s] = count[s] - 1
        BY <1>0, <2>8, <3>3, <4>1 DEF LedgerType, HeldTables, StreamType
      <4>3. Counted(s)'
        BY <1>0, <1>1, <2>8, <3>3, <4>1, <4>2, UnitsShrink
      <4>4. \A d \in Clients : s \in subscribed /\ InIt(d, s) => s \in subscribed'
        BY <1>1, <2>6, <2>8, <3>3, LastLeaver DEF Remaining
      <4>5. Backed(c, s)'
        BY <1>1, <2>3, <2>6, <3>3, <4>2, <4>4 DEF Backed
      <4> QED
        BY <1>3, <2>1, <4>3, <4>4, <4>5
    <3> QED
      BY <3>2, <3>3
  <2> QED
    BY <2>4, <2>7, <2>8
<1>10. ASSUME ListenerFails \/ UNCHANGED vars PROVE Goal
  <2>1. count' = count /\ subscribed' = subscribed
    BY <1>10 DEF ListenerFails, vars, stream
  <2> QED
    BY <1>1, <1>2, <1>10, <2>1, Idle, UnitsStay DEF Same
<1> HIDE DEF Goal
<1> SUFFICES Goal
  BY DEF Goal
<1> QED
  BY <1>4, <1>5, <1>6, <1>7, <1>8, <1>9, <1>10 DEF Next, HandlerNext

\* While the listener has not died it is there whenever there is something to listen to.
ListenInv == "listener" \notin faults => running = alive /\ (subscribed # {} => alive)

LEMMA ListenInit == Init => ListenInv
<1> SUFFICES ASSUME Init PROVE running = alive /\ (subscribed # {} => alive)
  BY DEF ListenInv
<1>1. running = (subscribed # {}) /\ alive = running
  BY DEF Init
<1> QED
  BY <1>1

LEMMA ListenStep == TypeOK /\ ListenInv /\ [Next]_vars => ListenInv'
<1> SUFFICES ASSUME TypeOK, ListenInv, [Next]_vars, "listener" \notin faults'
             PROVE  running' = alive' /\ (subscribed' # {} => alive')
  BY DEF ListenInv
<1>0. StreamType /\ running = alive /\ (subscribed # {} => alive)
  BY TypeParts, Recorded DEF ListenInv
<1>1. ASSUME UNCHANGED stream PROVE running' = alive' /\ (subscribed' # {} => alive')
  BY <1>0, <1>1 DEF stream
<1>2. ASSUME NEW c \in Clients, WindowNext(c) PROVE UNCHANGED stream
  BY <1>2 DEF WindowNext, JoinSession, LeaveSession, Connect, ConnectAnew, Up, Token, Cut
<1>3. ASSUME NEW c \in Clients, NEW i \in DOMAIN tasks[c],
             ReadToken(c, i) \/ EnterRoom(c, i) \/ LeaveRoom(c, i)
      PROVE  UNCHANGED stream
  BY <1>3 DEF ReadToken, EnterRoom, LeaveRoom
<1>4. ASSUME NEW c \in Clients, NEW i \in DOMAIN tasks[c], Subscribe(c, i)
      PROVE  running' = alive' /\ (subscribed' # {} => alive')
  <2> DEFINE s == tasks[c][i].event.session
  <2>1. \/ /\ subscribed' = subscribed \cup {s} /\ running' = TRUE
           /\ alive' = IF s \notin subscribed /\ ~running THEN TRUE ELSE alive
        \/ UNCHANGED <<subscribed, running, alive>>
    BY <1>4 DEF Subscribe
  <2> HIDE DEF s
  <2> QED
    BY <1>0, <2>1 DEF StreamType
<1>5. ASSUME NEW c \in Clients, NEW i \in DOMAIN tasks[c], Unsubscribe(c, i)
      PROVE  running' = alive' /\ (subscribed' # {} => alive')
  <2> DEFINE rest == Remaining(tasks[c][i].event.session)
  <2>1. \/ UNCHANGED stream
        \/ subscribed' = rest /\ running' = Marked(rest) /\ alive' = (alive /\ rest # {})
    BY <1>5 DEF Unsubscribe
  <2>2. rest \subseteq subscribed
    BY DEF Remaining
  <2> HIDE DEF rest
  <2> QED
    BY <1>0, <1>1, <2>1, <2>2 DEF Marked, StreamType
<1>6. ASSUME ListenerFails PROVE FALSE
  BY <1>6 DEF ListenerFails
<1>7. ASSUME NEW c \in Clients, NEW i \in DOMAIN tasks[c], LeaveFails(c, i) \/ UnsubscribeFails(c, i)
      PROVE  running' = alive' /\ (subscribed' # {} => alive')
  <2>1. UNCHANGED <<subscribed, running, alive>>
    BY <1>7 DEF LeaveFails, UnsubscribeFails, stream
  <2> QED
    BY <1>0, <2>1
<1> QED
  BY <1>1, <1>2, <1>3, <1>4, <1>5, <1>6, <1>7 DEF Next, HandlerNext, vars

\* What the worker's account of its windows rests on.
AccountInv == TypeOK /\ ShapeInv /\ TurnInv /\ BackInv /\ ListenInv

LEMMA AccountHolds == Spec => []AccountInv
<1>1. Init => AccountInv
  BY TypeInit, ShapeInit, TurnInit, BackInit, ListenInit DEF AccountInv
<1>2. AccountInv /\ [Next]_vars => AccountInv'
  BY TypeStep, ShapeStep, TurnStep, BackStep, ListenStep DEF AccountInv
<1> QED
  BY <1>1, <1>2, PTL DEF Spec

\* The worker listens to the stream of every session that has a window in its room, through any
\* joins, leaves and lost connections of any number of windows, unless the listener died or a
\* window's events were handled in another order than it came and went.
THEOREM StreamReaches == Spec => []StreamReachesMembers
<1>1. AccountInv => StreamReachesMembers
  <2> SUFFICES ASSUME AccountInv, "listener" \notin faults, InOrder,
                      NEW s \in Sessions, room[s] # {}
               PROVE  s \in subscribed /\ alive
    BY DEF StreamReachesMembers, InOrder, Free
  <2>1. PICK c \in Clients : c \in room[s]
    BY TypeParts DEF AccountInv, RoomType, Rooms
  <2>2. Backed(c, s) /\ InIt(c, s)
    BY <2>1 DEF AccountInv, BackInv, InIt
  <2> QED
    BY <2>2 DEF Backed, AccountInv, ListenInv
<1> QED
  BY <1>1, AccountHolds, PTL

-----------------------------------------------------------------------------
(* The events a window has emitted, those that wait in its buffer last.    *)

Sent(c) == Len(tasks[c]) + Len(buffer[c])
Event(c, i) ==
  IF i <= Len(tasks[c]) THEN tasks[c][i].event ELSE buffer[c][i - Len(tasks[c])]

\* No handler has begun with the i-th; it has still to be dealt with; it is about to enter a room.
Fresh(c, i) == i <= Len(tasks[c]) => tasks[c][i].at = "new"
Open(c, i) == i <= Len(tasks[c]) => ~ tasks[c][i].gone /\ ~ Dealt(tasks[c][i])
Enters(c, i) == i <= Len(tasks[c]) /\ tasks[c][i].at = "subscribed" /\ ~ tasks[c][i].gone

\* Positions in one sequence that continues another.
LEMMA Split ==
  ASSUME NEW n \in Nat, NEW m \in Nat
  PROVE  /\ n + m \in Nat
         /\ \A i \in 1 .. n : i <= n /\ i \in 1 .. n + m /\ i <= n + m
         /\ \A i \in 1 .. n + m :
              /\ i <= n + m /\ (i <= n => i \in 1 .. n)
              /\ ~ i <= n => i - n \in 1 .. m /\ n + (i - n) = i
OBVIOUS

LEMMA SplitAgain ==
  ASSUME NEW n \in Nat, NEW m \in Nat, NEW l \in Nat
  PROVE  /\ n + (m + l) = (n + m) + l /\ n + (m + l) + 0 = (n + m) + l
         /\ \A i \in 1 .. n + m : i \in 1 .. n + (m + l)
         /\ \A i \in 1 .. (n + m) + l : ~ i <= n + m =>
              /\ ~ i <= n /\ i \in 1 .. n + (m + l)
              /\ i - n \in 1 .. m + l /\ ~ i - n <= m /\ (i - n) - m = i - (n + m)
OBVIOUS

LEMMA SentShape ==
  ASSUME ListType, NEW c \in Clients
  PROVE  /\ Len(tasks[c]) \in Nat /\ Len(buffer[c]) \in Nat /\ Sent(c) \in Nat
         /\ DOMAIN tasks[c] = 1 .. Len(tasks[c]) /\ DOMAIN buffer[c] = 1 .. Len(buffer[c])
         /\ \A i \in 1 .. Sent(c) : Event(c, i) \in Events
<1>1. Len(tasks[c]) \in Nat /\ DOMAIN tasks[c] = 1 .. Len(tasks[c])
  BY TaskShape DEF ListType
<1>2. buffer[c] \in Seq(Events)
  BY DEF ListType, EventLists
<1>3. Len(buffer[c]) \in Nat /\ DOMAIN buffer[c] = 1 .. Len(buffer[c])
  BY <1>2, LenProperties
<1> PICK n \in Nat, m \in Nat : n = Len(tasks[c]) /\ m = Len(buffer[c])
  BY <1>1, <1>3
<1>4. Sent(c) = n + m /\ n + m \in Nat
  BY Split DEF Sent
<1>5. \A i \in 1 .. n : tasks[c][i].event \in Events
  BY <1>1, TaskShape DEF ListType
<1>6. \A j \in 1 .. m : buffer[c][j] \in Events
  BY <1>2, ElementOfSeq
<1>7. ASSUME NEW i \in 1 .. n + m PROVE Event(c, i) \in Events
  <2>1. CASE i <= n
    BY <1>5, <2>1, Split DEF Event
  <2>2. CASE ~ i <= n
    <3>1. i - n \in 1 .. m
      BY <2>2, Split
    <3> QED
      BY <1>6, <2>2, <3>1 DEF Event
  <2> QED
    BY <2>1, <2>2
<1> QED
  BY <1>1, <1>3, <1>4, <1>7

\* The i-th event is what it was and stands where it stood, or its handler has begun.
Kept(c, i) ==
  /\ Event(c, i)' = Event(c, i) /\ (Fresh(c, i)' => Fresh(c, i))
  /\ (Open(c, i)' <=> Open(c, i)) /\ (Enters(c, i)' <=> Enters(c, i))

\* Window c emits events, after those it has emitted.
Emits(c, events) ==
  /\ Sent(c)' = Sent(c) + Len(events) /\ Len(events) \in Nat
  /\ \A i \in 1 .. Sent(c) : Kept(c, i)
  /\ \A i \in 1 .. Sent(c) + Len(events) : ~ i <= Sent(c) =>
       Event(c, i)' = events[i - Sent(c)] /\ Open(c, i)' /\ ~ Enters(c, i)'

LEMMA Quiet ==
  ASSUME ListType, NEW c \in Clients, tasks'[c] = tasks[c], buffer'[c] = buffer[c]
  PROVE  Emits(c, <<>>)
<1>1. \A i \in 1 .. Sent(c) : Kept(c, i)
  BY DEF Kept, Event, Fresh, Open, Enters, Dealt
<1>2. Sent(c)' = Sent(c) /\ Sent(c) \in Nat
  BY SentShape DEF Sent
<1>3. Len(<<>>) = 0
  BY EmptySeq
<1> QED
  BY <1>1, <1>2, <1>3 DEF Emits

\* The events are handed over to new handlers, from the buffer or as they are emitted.
LEMMA HandedOver ==
  ASSUME ListType, NEW c \in Clients, NEW events \in Seq(Events), Added(c, events), buffer'[c] = <<>>,
         NEW more \in Seq(Events), events = buffer[c] \o more
  PROVE  Emits(c, more)
<1>a. PICK n \in Nat, m \in Nat : n = Len(tasks[c]) /\ m = Len(buffer[c])
  BY SentShape
<1>1. Sent(c) = n + m /\ DOMAIN tasks[c] = 1 .. n
  BY <1>a, SentShape DEF Sent
<1>2. buffer[c] \in Seq(Events)
  BY DEF ListType, EventLists
<1>b. PICK l \in Nat : l = Len(more)
  BY LenProperties
<1>4. /\ Len(events) = m + l
      /\ \A j \in 1 .. m + l : events[j] = IF j <= m THEN buffer[c][j] ELSE more[j - m]
  BY <1>a, <1>b, <1>2, ConcatProperties
<1>5. Len(tasks[c])' = n + (m + l) /\ Len(buffer[c])' = 0
  BY <1>a, <1>4, EmptySeq DEF Added
<1>6. Sent(c)' = Sent(c) + l
  <2>1. Sent(c)' = n + (m + l) + 0
    BY <1>5 DEF Sent
  <2>2. n + (m + l) + 0 = (n + m) + l
    BY SplitAgain
  <2> QED
    BY <1>1, <2>1, <2>2
<1>7. ASSUME NEW i \in 1 .. n
      PROVE  /\ Event(c, i)' = Event(c, i) /\ (Fresh(c, i)' <=> Fresh(c, i))
             /\ (Open(c, i)' <=> Open(c, i)) /\ (Enters(c, i)' <=> Enters(c, i))
  <2>1. tasks'[c][i] = tasks[c][i]
    BY <1>a DEF Added
  <2>2. i <= n /\ i <= n + (m + l)
    BY Split
  <2> QED
    BY <1>a, <1>5, <2>1, <2>2 DEF Event, Fresh, Open, Enters, Dealt
<1>8. ASSUME NEW i \in 1 .. n + (m + l), ~ i <= n
      PROVE  /\ Event(c, i)' = events[i - n] /\ Fresh(c, i)'
             /\ Open(c, i)' /\ ~ Enters(c, i)'
  <2> PICK j \in 1 .. m + l : j = i - n /\ i = n + j
    BY <1>8, Split
  <2>1. /\ tasks'[c][n + j].event = events[j] /\ tasks'[c][n + j].at = "new"
        /\ ~ tasks'[c][n + j].gone
    BY <1>a, <1>4 DEF Added
  <2>2. i <= n + (m + l)
    BY Split
  <2> QED
    BY <1>a, <1>5, <2>1, <2>2 DEF Event, Fresh, Open, Enters, Dealt
<1>9. ASSUME NEW i \in 1 .. n + m PROVE Kept(c, i)
  <2>1. CASE i <= n
    BY <1>7, <2>1, Split DEF Kept
  <2>2. CASE ~ i <= n
    <3> PICK j \in 1 .. m : j = i - n
      BY <2>2, Split
    <3>0. i \in 1 .. n + (m + l)
      BY SplitAgain
    <3>1. i \in 1 .. n + (m + l) /\ j \in 1 .. m + l /\ j <= m
      BY <3>0, Split
    <3>2. Event(c, i) = buffer[c][j] /\ Fresh(c, i) /\ Open(c, i) /\ ~ Enters(c, i)
      BY <1>a, <2>2 DEF Event, Fresh, Open, Enters
    <3>3. events[j] = buffer[c][j]
      BY <1>4, <3>1
    <3>4. Event(c, i)' = events[i - n] /\ Fresh(c, i)' /\ Open(c, i)' /\ ~ Enters(c, i)'
      BY <1>8, <2>2, <3>1
    <3> QED
      BY <3>2, <3>3, <3>4 DEF Kept
  <2> QED
    BY <2>1, <2>2
<1>10. ASSUME NEW i \in 1 .. (n + m) + l, ~ i <= n + m
       PROVE  Event(c, i)' = more[i - (n + m)] /\ Open(c, i)' /\ ~ Enters(c, i)'
  <2>0. i - n \in 1 .. m + l /\ ~ i - n <= m /\ (i - n) - m = i - (n + m)
    BY <1>10, SplitAgain
  <2> PICK j \in 1 .. m + l : j = i - n /\ ~ j <= m /\ j - m = i - (n + m)
    BY <2>0
  <2>1. i \in 1 .. n + (m + l) /\ ~ i <= n
    BY <1>10, SplitAgain
  <2>2. events[j] = more[j - m]
    BY <1>4
  <2>3. Event(c, i)' = events[i - n] /\ Open(c, i)' /\ ~ Enters(c, i)'
    BY <1>8, <2>1
  <2> QED
    BY <2>2, <2>3
<1> QED
  BY <1>b, <1>1, <1>6, <1>9, <1>10 DEF Emits

LEMMA EmitEmits ==
  ASSUME ListType, NEW c \in Clients, Shape(c), NEW events \in Seq(Events), Emit(c, events)
  PROVE  Emits(c, events)
<1>1. CASE conn[c] = "up"
  <2>1. Added(c, events) /\ buffer'[c] = buffer[c] /\ buffer[c] = <<>>
    BY <1>1, EmitType DEF Shape
  <2>2. events = <<>> \o events
    BY ConcatEmptySeq
  <2> QED
    BY <2>1, <2>2, HandedOver
<1>2. CASE conn[c] # "up"
  <2>a. PICK n \in Nat, m \in Nat : n = Len(tasks[c]) /\ m = Len(buffer[c])
    BY SentShape
  <2>b. PICK l \in Nat : l = Len(events)
    BY LenProperties
  <2>1. tasks' = tasks /\ buffer'[c] = buffer[c] \o events /\ buffer[c] \in Seq(Events)
    BY <1>2, EmitType DEF ListType, EventLists
  <2>2. Sent(c) = n + m
    BY <2>a DEF Sent
  <2>3. /\ Len(buffer[c] \o events) = m + l
        /\ \A j \in 1 .. m + l :
             (buffer[c] \o events)[j] = IF j <= m THEN buffer[c][j] ELSE events[j - m]
    BY <2>a, <2>b, <2>1, ConcatProperties
  <2>4. Sent(c)' = (n + m) + l /\ Len(tasks[c])' = n
    <3>1. Len(tasks[c])' = n /\ Len(buffer[c])' = m + l
      BY <2>a, <2>1, <2>3
    <3>2. Sent(c)' = n + (m + l)
      BY <3>1 DEF Sent
    <3> QED
      BY <3>1, <3>2, SplitAgain
  <2>5. ASSUME NEW i \in 1 .. n + m PROVE Kept(c, i)
    <3>1. CASE i <= n
      BY <2>a, <2>1, <2>4, <3>1 DEF Kept, Event, Fresh, Open, Enters, Dealt
    <3>2. CASE ~ i <= n
      <4> PICK j \in 1 .. m : j = i - n
        BY <3>2, Split
      <4>1. j \in 1 .. m + l /\ j <= m
        BY Split
      <4>2. buffer'[c][j] = buffer[c][j]
        BY <2>1, <2>3, <4>1
      <4> QED
        BY <2>a, <2>4, <3>2, <4>2 DEF Kept, Event, Fresh, Open, Enters
    <3> QED
      BY <3>1, <3>2
  <2>6. ASSUME NEW i \in 1 .. (n + m) + l, ~ i <= n + m
        PROVE  Event(c, i)' = events[i - (n + m)] /\ Open(c, i)' /\ ~ Enters(c, i)'
    <3>0. i - n \in 1 .. m + l /\ ~ i - n <= m /\ (i - n) - m = i - (n + m)
      BY <2>6, SplitAgain
    <3> PICK j \in 1 .. m + l : j = i - n /\ ~ j <= m /\ j - m = i - (n + m)
      BY <3>0
    <3>1. ~ i <= n
      BY <2>6, SplitAgain
    <3>2. buffer'[c][j] = events[j - m]
      BY <2>1, <2>3
    <3> QED
      BY <2>a, <2>4, <3>1, <3>2 DEF Event, Open, Enters
  <2> QED
    BY <2>b, <2>2, <2>4, <2>5, <2>6 DEF Emits
<1> QED
  BY <1>1, <1>2

LEMMA ConnectEmits ==
  ASSUME ListType, NEW c \in Clients, NEW joins, Up(c, joins)
  PROVE  Emits(c, <<>>)
<1>1. buffer[c] \in Seq(Events) /\ <<>> \in Seq(Events)
  BY EmptySeq DEF ListType, EventLists
<1>2. Added(c, buffer[c])
  BY <1>1, StartedAdds DEF Up, ListType
<1>3. buffer'[c] = <<>>
  BY DEF Up, ListType, EventLists
<1>4. buffer[c] = buffer[c] \o <<>>
  BY <1>1, ConcatEmptySeq
<1> QED
  BY <1>1, <1>2, <1>3, <1>4, HandedOver

LEMMA HandlerKeeps ==
  ASSUME ListType, NEW c \in Clients, NEW i \in DOMAIN tasks[c], NEW at \in Steps, Stepped(c, i, at)
  PROVE  /\ Sent(c)' = Sent(c) /\ i \in 1 .. Sent(c) /\ i \in 1 .. Len(tasks[c])
         /\ Event(c, i) = tasks[c][i].event
         /\ \A j \in 1 .. Sent(c) :
              /\ Event(c, j)' = Event(c, j) /\ (Fresh(c, j)' => Fresh(c, j))
              /\ j # i => Kept(c, j)
         /\ ~ Fresh(c, i)'
         /\ Open(c, i)' <=> ~ tasks[c][i].gone /\ at \notin {"left", "done"}
         /\ Open(c, i) <=> ~ tasks[c][i].gone /\ tasks[c][i].at \notin {"left", "done"}
         /\ Enters(c, i)' <=> ~ tasks[c][i].gone /\ at = "subscribed"
<1>a. PICK n \in Nat, m \in Nat : n = Len(tasks[c]) /\ m = Len(buffer[c])
  BY SentShape
<1>1. DOMAIN tasks[c] = 1 .. n /\ Sent(c) = n + m /\ Sent(c)' = n + m /\ Len(tasks[c])' = n
  BY <1>a, SentShape DEF Sent, Stepped, Moved
<1>2. i \in 1 .. n /\ i \in 1 .. n + m /\ i <= n
  BY <1>1, Split
<1>3. at # "new"
  BY DEF Stepped, Transitions
<1>4. /\ tasks'[c][i].event = tasks[c][i].event /\ tasks'[c][i].gone = tasks[c][i].gone
      /\ tasks'[c][i].at = at
  BY DEF Stepped, Moved
<1>5. /\ Event(c, i)' = Event(c, i) /\ ~ Fresh(c, i)' /\ Event(c, i) = tasks[c][i].event
      /\ Open(c, i)' <=> ~ tasks[c][i].gone /\ at \notin {"left", "done"}
      /\ Open(c, i) <=> ~ tasks[c][i].gone /\ tasks[c][i].at \notin {"left", "done"}
      /\ Enters(c, i)' <=> ~ tasks[c][i].gone /\ at = "subscribed"
  BY <1>a, <1>1, <1>2, <1>3, <1>4 DEF Event, Fresh, Open, Enters, Dealt
<1>6. ASSUME NEW j \in 1 .. n + m, j # i PROVE Kept(c, j)
  <2>1. CASE j <= n
    <3>1. j \in 1 .. n
      BY <2>1, Split
    <3>2. /\ tasks'[c][j].event = tasks[c][j].event /\ tasks'[c][j].gone = tasks[c][j].gone
          /\ tasks'[c][j].at = tasks[c][j].at
      BY <1>1, <1>6, <3>1 DEF Stepped, Moved
    <3> QED
      BY <1>a, <1>1, <2>1, <3>2 DEF Kept, Event, Fresh, Open, Enters, Dealt
  <2>2. CASE ~ j <= n
    BY <1>a, <1>1, <2>2 DEF Kept, Event, Fresh, Open, Enters, Stepped
  <2> QED
    BY <2>1, <2>2
<1> QED
  BY <1>a, <1>1, <1>2, <1>5, <1>6 DEF Kept

LEMMA CutKeeps ==
  ASSUME ListType, NEW c \in Clients, Shape(c), Cut(c)
  PROVE  /\ Sent(c)' = Sent(c) /\ Sent(c) = Len(tasks[c])
         /\ \A j \in 1 .. Sent(c) :
              /\ Event(c, j)' = Event(c, j)
              /\ (Fresh(c, j)' => Fresh(c, j)) /\ ~ Open(c, j)' /\ ~ Enters(c, j)'
<1>a. PICK n \in Nat : n = Len(tasks[c])
  BY SentShape
<1>1. Abandoned(c) /\ buffer[c] = <<>> /\ buffer'[c] = buffer[c] /\ Len(buffer[c]) = 0
  BY CutAbandons, EmptySeq DEF Cut, Shape, ListType
<1>2. DOMAIN tasks[c] = 1 .. n /\ Sent(c) = n /\ Sent(c)' = n /\ Len(tasks[c])' = n
  <2>1. Sent(c) = n + 0 /\ Sent(c)' = n + 0 /\ Len(tasks[c])' = n
    BY <1>a, <1>1 DEF Sent, Abandoned
  <2>2. n + 0 = n
    OBVIOUS
  <2> QED
    BY <1>a, <2>1, <2>2, SentShape
<1>3. ASSUME NEW j \in 1 .. n
      PROVE  /\ Event(c, j)' = Event(c, j) /\ (Fresh(c, j)' => Fresh(c, j))
             /\ ~ Open(c, j)' /\ ~ Enters(c, j)'
  <2>1. /\ tasks'[c][j].event = tasks[c][j].event
        /\ \/ tasks'[c][j].at = tasks[c][j].at /\ tasks'[c][j].gone
           \/ tasks'[c][j].at = "done"
    BY <1>1, <1>2 DEF Abandoned
  <2>2. j <= n
    BY Split
  <2> QED
    BY <1>a, <1>2, <2>1, <2>2 DEF Event, Fresh, Open, Enters, Dealt
<1> QED
  BY <1>a, <1>2, <1>3

-----------------------------------------------------------------------------
(* One-time tokens.                                                        *)

IsJoin(c, i) == Event(c, i).kind = "join"
Granted(c) ==
  "refused" \notin causes[c] =>
    /\ \A i, j \in 1 .. Sent(c) : i # j /\ IsJoin(c, i) /\ IsJoin(c, j) =>
         Event(c, i).token # Event(c, j).token
    /\ \A i \in 1 .. Sent(c) : IsJoin(c, i) /\ Fresh(c, i) => Event(c, i).token \in live
Foreign(c, d) ==
  \A i \in 1 .. Sent(c), j \in 1 .. Sent(d) :
    IsJoin(c, i) /\ IsJoin(d, j) => Event(c, i).token # Event(d, j).token
Issued(c) == \A i \in 1 .. Sent(c) : Event(c, i).token <= issued

\* No two windows present one token; a window that may not be refused presents one for each join,
\* which counts until the join is handled.
TokenInv ==
  /\ live \subseteq 1 .. issued
  /\ \A c \in Clients : Issued(c) /\ Granted(c)
  /\ \A c, d \in Clients : c # d => Foreign(c, d)

\* Window c has emitted nothing but leaves.
Plain(c) ==
  \A i \in 1 .. Sent(c)' :
    \/ i \in 1 .. Sent(c) /\ Event(c, i)' = Event(c, i) /\ (Fresh(c, i)' => Fresh(c, i))
    \/ Event(c, i)'.kind = "leave" /\ Event(c, i)'.token <= issued

LEMMA PlainTokens ==
  ASSUME TokenInv, \A c \in Clients : Plain(c) /\ causes[c] \subseteq causes'[c],
         issued' = issued, live' \subseteq live,
         \A c \in Clients : \A i \in 1 .. Sent(c) :
           "refused" \notin causes[c] /\ IsJoin(c, i) /\ Fresh(c, i)' /\ Event(c, i).token \in live =>
             Event(c, i).token \in live'
  PROVE  TokenInv'
<1>1. ASSUME NEW c \in Clients, NEW i \in 1 .. Sent(c)', IsJoin(c, i)'
      PROVE  i \in 1 .. Sent(c) /\ Event(c, i)' = Event(c, i) /\ (Fresh(c, i)' => Fresh(c, i))
  BY <1>1 DEF Plain, IsJoin
<1>2. ASSUME NEW c \in Clients PROVE Issued(c)'
  BY DEF Plain, TokenInv, Issued
<1>3. ASSUME NEW c \in Clients PROVE Granted(c)'
  <2> SUFFICES ASSUME "refused" \notin causes'[c] PROVE Granted(c)'
    BY DEF Granted
  <2>1. Granted(c) /\ "refused" \notin causes[c]
    BY DEF TokenInv
  <2> QED
    BY <1>1, <2>1 DEF Granted, IsJoin
<1>4. ASSUME NEW c \in Clients, NEW d \in Clients, c # d PROVE Foreign(c, d)'
  <2>1. Foreign(c, d)
    BY <1>4 DEF TokenInv
  <2> QED
    BY <1>1, <2>1 DEF Foreign, IsJoin
<1> QED
  BY <1>2, <1>3, <1>4 DEF TokenInv


LEMMA EmitsPlain ==
  ASSUME ListType, NEW c \in Clients, NEW events, Emits(c, events),
         \A j \in 1 .. Len(events) : events[j].kind = "leave" /\ events[j].token <= issued
  PROVE  Plain(c)
<1> PICK n \in Nat, m \in Nat : n = Sent(c) /\ m = Len(events)
  BY SentShape DEF Emits
<1>1. Sent(c)' = n + m
  BY DEF Emits
<1>2. ASSUME NEW i \in 1 .. n + m, i <= n
      PROVE  i \in 1 .. n /\ Event(c, i)' = Event(c, i) /\ (Fresh(c, i)' => Fresh(c, i))
  BY <1>2, Split DEF Emits, Kept
<1>3. ASSUME NEW i \in 1 .. n + m, ~ i <= n
      PROVE  Event(c, i)'.kind = "leave" /\ Event(c, i)'.token <= issued
  <2>1. i - n \in 1 .. m
    BY <1>3, Split
  <2>2. Event(c, i)' = events[i - n]
    BY <1>3 DEF Emits
  <2> QED
    BY <2>1, <2>2
<1> QED
  BY <1>1, <1>2, <1>3 DEF Plain

LEMMA SamePlain ==
  ASSUME ListType, NEW c \in Clients, Same(c)
  PROVE  Plain(c)
<1>1. Emits(c, <<>>)
  BY Quiet DEF Same
<1>2. \A j \in 1 .. Len(<<>>) : FALSE
  BY EmptySeq
<1> QED
  BY <1>1, <1>2, EmitsPlain

LEMMA LeaveEmits ==
  ASSUME ListType, ViewType, NEW c \in Clients, Shape(c), LeaveSession(c)
  PROVE  /\ active[c] \in Sessions /\ Emits(c, <<Quit(active[c])>>)
         /\ <<Quit(active[c])>> \in Seq(Events)
<1>1. active[c] \in Sessions
  BY DEF LeaveSession, ViewType, Places
<1>2. <<Quit(active[c])>> \in Seq(Events)
  BY <1>1, EventType, AppendProperties
<1> QED
  BY <1>1, <1>2, EmitEmits DEF LeaveSession

LEMMA TokenEmits ==
  ASSUME ListType, BoundType, NEW c \in Clients, Shape(c), Token(c)
  PROVE  /\ issued' \in 1 .. MaxTokens /\ Emits(c, Joins(c, issued'))
         /\ Joins(c, issued') \in Seq(Events) /\ Len(Joins(c, issued')) = Len(fetch[c])
         /\ \A i \in 1 .. Len(fetch[c]) :
              Joins(c, issued')[i] = Join(fetch[c][i], issued') /\ fetch[c][i] \in Sessions
<1>1. issued' \in 1 .. MaxTokens /\ issued' \in 0 .. MaxTokens
  BY RoomAssumption DEF Token, BoundType, RoomAssumption
<1>2. /\ Joins(c, issued') \in Seq(Events) /\ Len(Joins(c, issued')) = Len(fetch[c])
      /\ \A i \in 1 .. Len(fetch[c]) :
           Joins(c, issued')[i] = Join(fetch[c][i], issued') /\ fetch[c][i] \in Sessions
  BY <1>1, JoinsType
<1>3. Emit(c, Joins(c, issued'))
  BY DEF Token, Joins
<1> QED
  BY <1>1, <1>2, <1>3, EmitEmits

LEMMA TokenInit == Init => TokenInv
<1> SUFFICES ASSUME Init PROVE TokenInv
  OBVIOUS
<1>1. \A c \in Clients : Sent(c) = 0
  BY EmptySeq DEF Init, Sent
<1>2. \A c \in Clients : \A i \in 1 .. Sent(c) : FALSE
  BY <1>1
<1>3. live = {}
  BY DEF Init
<1> QED
  BY <1>2, <1>3 DEF TokenInv, Issued, Granted, Foreign

LEMMA TokenStep == TypeOK /\ ShapeInv /\ TokenInv /\ [Next]_vars => TokenInv'
<1> SUFFICES ASSUME TypeOK, ShapeInv, TokenInv, [Next]_vars PROVE TokenInv'
  OBVIOUS
<1>0. /\ ListType /\ ViewType /\ BoundType /\ LedgerType
      /\ \A c \in Clients : Shape(c) /\ causes[c] \subseteq causes'[c]
  BY TypeParts, Recorded DEF ShapeInv
<1>1. ASSUME NEW c \in Clients, StepOf(c), Plain(c), issued' = issued, live' = live
      PROVE  TokenInv'
  <2>1. \A d \in Clients : Plain(d)
    BY <1>0, <1>1, Apart, SamePlain
  <2> QED
    BY <1>0, <1>1, <2>1, PlainTokens
<1>2. ASSUME NEW c \in Clients, NEW i \in DOMAIN tasks[c], NEW at \in Steps, Stepped(c, i, at)
      PROVE  Plain(c)
  BY <1>0, <1>2, HandlerKeeps DEF Plain
<1>3. ASSUME NEW c \in Clients, NEW s \in Sessions, JoinSession(c, s) PROVE TokenInv'
  <2>1. tasks'[c] = tasks[c] /\ buffer'[c] = buffer[c] /\ issued' = issued /\ live' = live
        /\ StepOf(c)
    BY <1>3 DEF JoinSession, StepOf, WindowNext
  <2>2. Plain(c)
    BY <1>0, <2>1, Quiet, EmitsPlain, EmptySeq
  <2> QED
    BY <1>1, <2>1, <2>2
<1>4. ASSUME NEW c \in Clients, LeaveSession(c) PROVE TokenInv'
  <2>1. issued' = issued /\ live' = live /\ StepOf(c)
    BY <1>4 DEF LeaveSession, StepOf, WindowNext
  <2>2. Emits(c, <<Quit(active[c])>>) /\ active[c] \in Sessions
    BY <1>0, <1>4, LeaveEmits
  <2>3. \A j \in 1 .. Len(<<Quit(active[c])>>) :
           <<Quit(active[c])>>[j].kind = "leave" /\ <<Quit(active[c])>>[j].token <= issued
    <3>1. Len(<<Quit(active[c])>>) = 1 /\ <<Quit(active[c])>>[1] = Quit(active[c])
      OBVIOUS
    <3>2. Quit(active[c]).kind = "leave" /\ Quit(active[c]).token = 0
      BY <2>2, EventType
    <3>3. 0 <= issued
      BY <1>0, RoomAssumption DEF BoundType, RoomAssumption
    <3> QED
      BY <3>1, <3>2, <3>3
  <2> QED
    BY <1>0, <1>1, <2>1, <2>2, <2>3, EmitsPlain
<1>5. ASSUME NEW c \in Clients, Connect(c) \/ ConnectAnew(c) PROVE TokenInv'
  <2>0. \E joins : Up(c, joins)
    BY <1>5 DEF Connect, ConnectAnew
  <2>1. issued' = issued /\ live' = live /\ StepOf(c)
    BY <1>5 DEF Connect, ConnectAnew, Up, bounds, StepOf, WindowNext
  <2>2. Plain(c)
    BY <1>0, <2>0, ConnectEmits, EmitsPlain, EmptySeq
  <2> QED
    BY <1>1, <2>1, <2>2
<1>6. ASSUME NEW c \in Clients, Cut(c) PROVE TokenInv'
  <2>1. issued' = issued /\ live' = live /\ StepOf(c)
    BY <1>6 DEF Cut, StepOf, WindowNext
  <2>2. Plain(c)
    BY <1>0, <1>6, CutKeeps DEF Plain
  <2> QED
    BY <1>1, <2>1, <2>2
<1>7. ASSUME NEW c \in Clients, HandlerNext(c), issued' = issued, live' = live PROVE TokenInv'
  <2>1. StepOf(c)
    BY <1>7 DEF StepOf
  <2>2. \E i \in DOMAIN tasks[c], at \in Steps : Stepped(c, i, at)
    BY <1>7, HandlerMovement DEF HandlerNext
  <2> QED
    BY <1>1, <1>2, <1>7, <2>1, <2>2
<1>8. ASSUME NEW c \in Clients, NEW i \in DOMAIN tasks[c], Subscribe(c, i) PROVE TokenInv'
  <2> DEFINE t == tasks[c][i].event.token
  <2>1. HandlerNext(c) /\ StepOf(c) /\ issued' = issued /\ live' = live \ {t}
    BY <1>8 DEF Subscribe, StepOf, HandlerNext
  <2>2. PICK at \in Steps : Stepped(c, i, at)
    BY <1>8, HandlerMovement
  <2>3. \A d \in Clients : Plain(d)
    BY <1>0, <1>2, <2>1, <2>2, Apart, SamePlain
  <2>4. /\ i \in 1 .. Sent(c) /\ Event(c, i) = tasks[c][i].event /\ ~ Fresh(c, i)'
        /\ \A j \in 1 .. Sent(c) : Fresh(c, j)' => Fresh(c, j)
    BY <1>0, <2>2, HandlerKeeps
  <2>5. IsJoin(c, i)
    BY <1>8, <2>4 DEF Subscribe, At, IsJoin
  <2>6. ASSUME NEW d \in Clients, NEW j \in 1 .. Sent(d), "refused" \notin causes[d],
               IsJoin(d, j), Fresh(d, j)'
        PROVE  Event(d, j).token # t
    <3>1. CASE d = c
      <4>1. j # i /\ Granted(c)
        BY <2>4, <2>6, <3>1 DEF TokenInv
      <4> QED
        BY <2>4, <2>5, <2>6, <3>1, <4>1 DEF Granted
    <3>2. CASE d # c
      <4>1. Foreign(d, c)
        BY <3>2 DEF TokenInv
      <4> QED
        BY <2>4, <2>5, <2>6, <4>1 DEF Foreign
    <3> QED
      BY <3>1, <3>2
  <2> QED
    BY <1>0, <2>1, <2>3, <2>6, PlainTokens
<1>9. ASSUME NEW c \in Clients, Token(c) PROVE TokenInv'
  <2> PICK n \in Nat, m \in Nat : n = Sent(c) /\ m = Len(fetch[c])
    BY <1>0, SentShape, JoinsType, TokenEmits, <1>9
  <2> PICK t \in 1 .. MaxTokens : t = issued' /\ t = issued + 1
    BY <1>0, <1>9, TokenEmits DEF Token
  <2>1. Emits(c, Joins(c, t)) /\ Len(Joins(c, t)) = m
        /\ \A i \in 1 .. m : Joins(c, t)[i] = Join(fetch[c][i], t) /\ fetch[c][i] \in Sessions
    BY <1>0, <1>9, TokenEmits
  <2>2. StepOf(c) /\ (live' = live \/ live' = live \cup {t})
    BY <1>9 DEF Token, StepOf, WindowNext
  <2>3. issued \in 0 .. MaxTokens /\ issued < t /\ 1 .. issued \subseteq 1 .. t /\ t \in 1 .. t
    BY <1>0, RoomAssumption DEF BoundType, RoomAssumption
  <2>4. /\ Sent(c)' = n + m
        /\ \A i \in 1 .. n + m : i <= n => i \in 1 .. n
        /\ \A i \in 1 .. n + m : ~ i <= n => i - n \in 1 .. m
    BY <2>1, Split DEF Emits
  <2>5. ASSUME NEW i \in 1 .. n
        PROVE  Event(c, i)' = Event(c, i) /\ (Fresh(c, i)' => Fresh(c, i))
    BY <2>1 DEF Emits, Kept
  <2>6. ASSUME NEW i \in 1 .. n + m, ~ i <= n PROVE Event(c, i)'.token = t
    <3>1. i - n \in 1 .. m
      BY <2>4, <2>6
    <3>2. Event(c, i)' = Joins(c, t)[i - n]
      BY <2>1, <2>6 DEF Emits
    <3>3. Event(c, i)' = Join(fetch[c][i - n], t) /\ fetch[c][i - n] \in Sessions
      BY <2>1, <3>1, <3>2
    <3>4. t \in 0 .. MaxTokens
      BY RoomAssumption DEF RoomAssumption
    <3> QED
      BY <3>3, <3>4, EventType
  <2>7. ASSUME NEW d \in Clients, d # c
        PROVE  /\ Sent(d)' = Sent(d) /\ causes'[d] = causes[d]
               /\ \A i \in 1 .. Sent(d) : Event(d, i)' = Event(d, i) /\ (Fresh(d, i)' => Fresh(d, i))
    <3>1. Same(d)
      BY <2>2, <2>7, Apart
    <3>2. Emits(d, <<>>) /\ Sent(d) \in Nat
      BY <1>0, <3>1, Quiet, SentShape DEF Same
    <3>3. Sent(d)' = Sent(d)
      BY <3>2, EmptySeq DEF Emits
    <3> QED
      BY <3>1, <3>2, <3>3 DEF Same, Emits, Kept
  <2>8. live' \subseteq 1 .. issued'
    BY <2>2, <2>3 DEF TokenInv
  <2>9. ASSUME NEW d \in Clients, NEW i \in 1 .. Sent(d) PROVE Event(d, i).token <= issued /\ Event(d, i).token # t
    <3>1. Event(d, i).token <= issued /\ Event(d, i).token \in 0 .. MaxTokens
      BY <1>0, SentShape DEF TokenInv, Issued, Events
    <3> QED
      BY <2>3, <3>1
  <2>10. ASSUME NEW d \in Clients PROVE Issued(d)'
    <3>1. \A i \in 1 .. Sent(d) : Event(d, i).token <= t
      <4>1. ASSUME NEW i \in 1 .. Sent(d) PROVE Event(d, i).token <= t
        <5>1. Event(d, i).token \in 0 .. MaxTokens
          BY <1>0, SentShape DEF Events
        <5> QED
          BY <2>3, <2>9, <5>1
      <4> QED
        BY <4>1
    <3>2. CASE d = c
      BY <2>3, <2>4, <2>5, <2>6, <3>1, <3>2 DEF Issued
    <3>3. CASE d # c
      BY <2>7, <3>1, <3>3 DEF Issued
    <3> QED
      BY <3>2, <3>3
  <2>11. ASSUME NEW d \in Clients PROVE Granted(d)'
    <3>1. CASE d = c
      <4> SUFFICES ASSUME "refused" \notin causes'[c] PROVE Granted(c)'
        BY <3>1 DEF Granted
      <4>1. live' = live \cup {t} /\ m = 1
        <5>1. PICK good \in BOOLEAN :
                /\ live' = IF good THEN live \cup {t} ELSE live
                /\ Blame(c, IF good /\ m = 1 THEN {} ELSE {"refused"})
          BY <1>9 DEF Token
        <5>2. good /\ m = 1
          BY <1>0, <5>1, BlameType
        <5> QED
          BY <5>1, <5>2
      <4>2. Granted(c) /\ "refused" \notin causes[c]
        BY <1>0 DEF TokenInv
      <4>3. \A i \in 1 .. n + m : ~ i <= n => i = n + 1
        BY <4>1
      <4>4. ASSUME NEW i \in 1 .. n + m, NEW j \in 1 .. n + m, i # j, IsJoin(c, i)', IsJoin(c, j)'
            PROVE  Event(c, i)'.token # Event(c, j)'.token
        <5>1. i <= n \/ j <= n
          BY <4>3, <4>4
        <5>2. CASE i <= n /\ j <= n
          BY <2>4, <2>5, <4>2, <4>4, <5>2 DEF Granted, IsJoin
        <5>3. CASE i <= n /\ ~ j <= n
          BY <2>4, <2>5, <2>6, <2>9, <5>3
        <5>4. CASE ~ i <= n /\ j <= n
          BY <2>4, <2>5, <2>6, <2>9, <5>4
        <5> QED
          BY <5>1, <5>2, <5>3, <5>4
      <4>5. ASSUME NEW i \in 1 .. n + m, IsJoin(c, i)', Fresh(c, i)'
            PROVE  Event(c, i)'.token \in live'
        <5>1. CASE i <= n
          BY <2>4, <2>5, <4>1, <4>2, <4>5, <5>1 DEF Granted, IsJoin
        <5>2. CASE ~ i <= n
          BY <2>6, <4>1, <5>2
        <5> QED
          BY <5>1, <5>2
      <4> QED
        BY <2>4, <4>4, <4>5 DEF Granted
    <3>2. CASE d # c
      <4>1. Granted(d)
        BY DEF TokenInv
      <4> QED
        BY <2>2, <2>7, <3>2, <4>1 DEF Granted, IsJoin
    <3> QED
      BY <3>1, <3>2
  <2>12. ASSUME NEW d \in Clients, NEW e \in Clients, d # e PROVE Foreign(d, e)'
    <3>1. Foreign(d, e)
      BY <2>12 DEF TokenInv
    <3>2. CASE d # c /\ e # c
      BY <2>7, <3>1, <3>2 DEF Foreign, IsJoin
    <3>3. CASE d = c
      <4>1. ASSUME NEW i \in 1 .. n + m, NEW j \in 1 .. Sent(e), IsJoin(c, i)', IsJoin(e, j)
            PROVE  Event(c, i)'.token # Event(e, j).token
        <5>1. CASE i <= n
          BY <2>4, <2>5, <3>1, <3>3, <4>1, <5>1 DEF Foreign, IsJoin
        <5>2. CASE ~ i <= n
          BY <2>6, <2>9, <5>2
        <5> QED
          BY <5>1, <5>2
      <4> QED
        BY <2>4, <2>7, <2>12, <3>3, <4>1 DEF Foreign, IsJoin
    <3>4. CASE e = c
      <4>1. ASSUME NEW i \in 1 .. n + m, NEW j \in 1 .. Sent(d), IsJoin(c, i)', IsJoin(d, j)
            PROVE  Event(c, i)'.token # Event(d, j).token
        <5>1. CASE i <= n
          BY <2>4, <2>5, <3>1, <3>4, <4>1, <5>1 DEF Foreign, IsJoin
        <5>2. CASE ~ i <= n
          BY <2>6, <2>9, <5>2
        <5> QED
          BY <5>1, <5>2
      <4> QED
        BY <2>4, <2>7, <2>12, <3>4, <4>1 DEF Foreign, IsJoin
    <3> QED
      BY <3>2, <3>3, <3>4
  <2> QED
    BY <2>8, <2>10, <2>11, <2>12 DEF TokenInv
<1>10. ASSUME ListenerFails \/ UNCHANGED vars PROVE TokenInv'
  <2>1. \A d \in Clients : Plain(d)
    BY <1>0, <1>10, Idle, SamePlain
  <2>2. live' = live /\ issued' = issued
    BY <1>10, Idle DEF ListenerFails, vars, bounds
  <2> QED
    BY <1>0, <2>1, <2>2, PlainTokens
<1>11. ASSUME NEW c \in Clients, NEW i \in DOMAIN tasks[c],
              \/ ReadToken(c, i) \/ EnterRoom(c, i) \/ LeaveRoom(c, i) \/ Unsubscribe(c, i)
              \/ LeaveFails(c, i) \/ UnsubscribeFails(c, i)
       PROVE  TokenInv'
  <2>1. HandlerNext(c) /\ issued' = issued /\ live' = live
    BY <1>11 DEF HandlerNext, ReadToken, EnterRoom, LeaveRoom, Unsubscribe, LeaveFails,
     UnsubscribeFails, bounds
  <2> QED
    BY <1>7, <2>1
<1> QED
  BY <1>3, <1>4, <1>5, <1>6, <1>8, <1>9, <1>10, <1>11 DEF Next, WindowNext, HandlerNext


-----------------------------------------------------------------------------
(* The room of a window, and what it is on its way to.                     *)

\* The joins that wait are for the session the window shows; one that has never connected has
\* nothing but them.
Wants(c) ==
  /\ \A i \in 1 .. Len(fetch[c]) : fetch[c][i] = active[c]
  /\ \A i \in 1 .. Len(waiting[c]) : waiting[c][i] = active[c]
  /\ active[c] = NoSession => fetch[c] = <<>> /\ waiting[c] = <<>>
  /\ conn[c] = "never" =>
       /\ fetch[c] = <<>> /\ buffer[c] = <<>> /\ tasks[c] = <<>>
       /\ waiting[c] = IF active[c] = NoSession THEN <<>> ELSE <<active[c]>>
WantsInv == \A c \in Clients : Free(c) => Wants(c)

LEMMA WantsInit == Init => WantsInv
<1> SUFFICES ASSUME Init, NEW c \in Clients PROVE Wants(c)
  BY DEF WantsInv
<1>1. /\ fetch[c] = <<>> /\ waiting[c] = <<>> /\ buffer[c] = <<>> /\ tasks[c] = <<>>
      /\ conn[c] = "never" => active[c] = NoSession
  BY DEF Init
<1>2. Len(<<>>) = 0 /\ \A i \in 1 .. 0 : FALSE
  BY EmptySeq
<1> QED
  BY <1>1, <1>2 DEF Wants

LEMMA OneJoin ==
  ASSUME NEW s
  PROVE  /\ Append(<<>>, s) = <<s>> /\ Len(<<s>>) = 1 /\ <<s>>[1] = s /\ <<s>> # <<>>
         /\ \A i \in 1 .. 1 : <<s>>[i] = s
         /\ Len(<<>>) = 0 /\ \A i \in 1 .. 0 : FALSE
OBVIOUS

LEMMA Uniform ==
  ASSUME NEW a, NEW x \in Seq(Sessions), NEW y \in Seq(Sessions),
         \A i \in 1 .. Len(x) : x[i] = a, \A i \in 1 .. Len(y) : y[i] = a
  PROVE  /\ x \o y \in Seq(Sessions) /\ \A i \in 1 .. Len(x \o y) : (x \o y)[i] = a
         /\ x = <<>> /\ y = <<>> => x \o y = <<>>
<1>1. /\ x \o y \in Seq(Sessions) /\ Len(x \o y) = Len(x) + Len(y)
      /\ \A i \in 1 .. Len(x) + Len(y) : (x \o y)[i] = IF i <= Len(x) THEN x[i] ELSE y[i - Len(x)]
  BY ConcatProperties
<1>a. PICK n \in Nat, m \in Nat : n = Len(x) /\ m = Len(y)
  BY LenProperties
<1>2. ASSUME NEW i \in 1 .. n + m PROVE (x \o y)[i] = a
  BY <1>1, <1>a, Split
<1> QED
  BY <1>1, <1>2, <1>a, ConcatEmptySeq

LEMMA WantsStep == TypeOK /\ WantsInv /\ [Next]_vars => WantsInv'
<1> SUFFICES ASSUME TypeOK, WantsInv, [Next]_vars, NEW c \in Clients, Free(c)' PROVE Wants(c)'
  BY DEF WantsInv
<1>0. ListType /\ ViewType /\ LedgerType /\ Wants(c)
  BY TypeParts, Recorded DEF WantsInv, Free
<1>1. ASSUME Same(c) PROVE Wants(c)'
  BY <1>0, <1>1 DEF Same, Wants
<1>2. ASSUME NEW s \in Sessions, JoinSession(c, s) PROVE Wants(c)'
  <2>1. /\ active[c] = NoSession /\ fetch[c] = <<>> /\ waiting[c] = <<>>
        /\ active'[c] = s /\ s # NoSession /\ conn' = conn /\ buffer' = buffer /\ tasks' = tasks
    BY <1>0, <1>2, RoomAssumption DEF JoinSession, Wants, ViewType, RoomAssumption
  <2>2. CASE conn[c] = "up"
    <3>1. fetch'[c] = <<s>> /\ waiting'[c] = <<>>
      BY <1>0, <1>2, <2>1, <2>2, OneJoin DEF JoinSession, ListType, JoinLists
    <3> QED
      BY <2>1, <2>2, <3>1, OneJoin DEF Wants
  <2>3. CASE conn[c] # "up"
    <3>1. waiting'[c] = <<s>> /\ fetch'[c] = <<>>
      BY <1>0, <1>2, <2>1, <2>3, OneJoin DEF JoinSession, ListType, JoinLists
    <3> QED
      BY <1>0, <2>1, <2>3, <3>1, OneJoin DEF Wants
  <2> QED
    BY <2>2, <2>3
<1>3. ASSUME LeaveSession(c) PROVE Wants(c)'
  <2>1. /\ active[c] # NoSession /\ active'[c] = NoSession
        /\ conn' = conn /\ waiting' = waiting /\ fetch' = fetch
    BY <1>0, <1>3 DEF LeaveSession, ViewType
  <2>2. waiting[c] = <<>> /\ fetch[c] = <<>>
    <3>1. Blame(c, IF waiting[c] \o fetch[c] = <<>> THEN {} ELSE {"order"})
      BY <1>3 DEF LeaveSession
    <3>2. waiting[c] \o fetch[c] = <<>>
      BY <1>0, <3>1, BlameType DEF Free
    <3>3. waiting[c] \in Seq(Sessions) /\ fetch[c] \in Seq(Sessions)
      BY <1>0 DEF ListType, JoinLists
    <3> QED
      BY <3>2, <3>3, ConcatEqualIffEmpty
  <2>3. conn[c] # "never"
    BY <1>0, <2>1, <2>2, OneJoin DEF Wants
  <2> QED
    BY <2>1, <2>2, <2>3, OneJoin DEF Wants
<1>b. waiting[c] \in Seq(Sessions) /\ fetch[c] \in Seq(Sessions) /\ Rejoin(c) \in Seq(Sessions)
  BY <1>0, JoinsBegin DEF ListType, JoinLists
<1>a. ASSUME NEW joins \in Seq(Sessions), Up(c, joins), \A i \in 1 .. Len(joins) : joins[i] = active[c],
             active[c] = NoSession => joins = <<>>
      PROVE  Wants(c)'
  <2>1. /\ conn'[c] = "up" /\ waiting'[c] = <<>> /\ active' = active
        /\ fetch'[c] = fetch[c] \o joins
    BY <1>0, <1>a DEF Up, ViewType, ListType, JoinLists
  <2>2. \A i \in 1 .. Len(fetch[c] \o joins) : (fetch[c] \o joins)[i] = active[c]
    BY <1>0, <1>a, <1>b, Uniform DEF Wants
  <2>3. active[c] = NoSession => fetch[c] \o joins = <<>>
    BY <1>0, <1>a, <1>b, Uniform DEF Wants
  <2> QED
    BY <2>1, <2>2, <2>3, OneJoin DEF Wants
<1>4. ASSUME Connect(c) PROVE Wants(c)'
  <2>1. Up(c, Rejoin(c) \o waiting[c])
    BY <1>4 DEF Connect
  <2>2. /\ \A i \in 1 .. Len(Rejoin(c)) : Rejoin(c)[i] = active[c]
        /\ active[c] = NoSession => Rejoin(c) = <<>>
    BY OneJoin DEF Rejoin
  <2>3. /\ Rejoin(c) \o waiting[c] \in Seq(Sessions)
        /\ \A i \in 1 .. Len(Rejoin(c) \o waiting[c]) : (Rejoin(c) \o waiting[c])[i] = active[c]
        /\ active[c] = NoSession => Rejoin(c) \o waiting[c] = <<>>
    BY <1>0, <1>b, <2>2, Uniform DEF Wants
  <2> QED
    BY <1>a, <2>1, <2>3
<1>c. ASSUME ConnectAnew(c) PROVE Wants(c)'
  <2>1. Up(c, waiting[c])
    BY <1>c DEF ConnectAnew
  <2> QED
    BY <1>0, <1>a, <1>b, <2>1 DEF Wants
<1>5. ASSUME Token(c) PROVE Wants(c)'
  <2>1. /\ fetch[c] # <<>> /\ fetch'[c] = <<>> /\ waiting' = waiting /\ conn' = conn
        /\ active' = active
    BY <1>0, <1>5 DEF Token, ListType, JoinLists
  <2> QED
    BY <1>0, <2>1, OneJoin DEF Wants
<1>6. ASSUME Cut(c) PROVE Wants(c)'
  <2>1. conn'[c] = "down" /\ UNCHANGED <<active, waiting, fetch>>
    BY <1>0, <1>6 DEF Cut, ViewType
  <2> QED
    BY <1>0, <2>1 DEF Wants
<1>7. ASSUME HandlerNext(c) PROVE Wants(c)'
  <2>1. \E i \in DOMAIN tasks[c] : TRUE
    BY <1>7 DEF HandlerNext
  <2>2. conn[c] # "never"
    BY <1>0, <2>1 DEF Wants
  <2>3. UNCHANGED window
    BY <1>7 DEF HandlerNext, ReadToken, Subscribe, EnterRoom, LeaveRoom, Unsubscribe, LeaveFails,
     UnsubscribeFails
  <2> QED
    BY <1>0, <2>2, <2>3 DEF window, Wants
<1>8. ASSUME NEW d \in Clients, d # c, StepOf(d) PROVE Same(c)
  BY <1>8, Apart
<1> QED
  BY <1>1, <1>2, <1>3, <1>4, <1>c, <1>5, <1>6, <1>7, <1>8, Idle DEF Next, StepOf, WindowNext


\* Where event e leaves the window, and the place in which the window should be when it comes:
\* a connection that was never lost joins from nowhere and leaves where it is.
Target(e) == IF e.kind = "join" THEN e.session ELSE NoSession
Fits(p, e) ==
  /\ p \in {NoSession, e.session}
  /\ "cut" \notin faults => p = IF e.kind = "join" THEN NoSession ELSE e.session

\* The i-th event is the next to be dealt with.
IsNext(c, i) == Open(c, i) /\ \A j \in 1 .. Sent(c) : j < i => ~ Open(c, j)

\* The window is in the room of the session the server has it down for, and in no other, and
\* what is still to be dealt with leads on from there, one place at a time.
InRoom(c) ==
  /\ \A s \in Sessions : c \in room[s] => s = info[c]
  /\ info[c] \in Sessions => c \in room[info[c]] \/ \E i \in 1 .. Sent(c) : Enters(c, i)
Chain(c) ==
  /\ InRoom(c)
  /\ \A i, j \in 1 .. Sent(c) : i < j /\ Open(c, i) => Open(c, j)
  /\ \A i, j \in 1 .. Sent(c) : j = i + 1 /\ Open(c, i) => Fits(Target(Event(c, i)), Event(c, j))
  /\ \A i \in 1 .. Sent(c) :
       /\ Enters(c, i) => info[c] = Event(c, i).session
       /\ IsNext(c, i) /\ ~ Enters(c, i) => Fits(info[c], Event(c, i))

\* Where the window is in the end.
Last(c) == IF Sent(c) > 0 /\ Open(c, Sent(c)) THEN Target(Event(c, Sent(c))) ELSE info[c]
Expected(c) ==
  /\ conn[c] # "up" => info[c] = NoSession
  /\ Last(c) \in {NoSession, active[c]}
  /\ conn[c] = "up" /\ fetch[c] = <<>> => Last(c) = active[c]
  /\ conn[c] = "up" /\ fetch[c] # <<>> /\ "cut" \notin faults => Last(c) = NoSession

Blameless(c) == causes[c] \subseteq {"error"}
RoomInv == \A c \in Clients : Blameless(c) => Chain(c) /\ Expected(c)

\* A join about to enter is the next of its window's events.
LEMMA EntersNext ==
  ASSUME ListType, NEW c \in Clients, InTurn(c), Free(c), NEW i \in 1 .. Sent(c), Enters(c, i)
  PROVE  Open(c, i) /\ \A j \in 1 .. Sent(c) : j < i => ~ Open(c, j)
<1>a. PICK n \in Nat, m \in Nat : n = Len(tasks[c]) /\ m = Len(buffer[c])
  BY SentShape
<1>1. i \in 1 .. n /\ DOMAIN tasks[c] = 1 .. n /\ i \in 1 .. n + m /\ Sent(c) = n + m
  BY <1>a, SentShape, Split DEF Enters, Sent
<1>2. tasks[c][i].event.session \in Sessions
  BY <1>1, TaskShape DEF ListType
<1>3. ~ Overtakes(c, i)
  BY <1>1, <1>2 DEF InTurn, Entering, Enters
<1>4. ASSUME NEW j \in 1 .. n + m, j < i PROVE ~ Open(c, j)
  <2>1. j \in 1 .. i - 1
    BY <1>4
  <2>2. j <= n
    BY <1>1, <1>4
  <2> QED
    BY <1>a, <1>3, <2>1, <2>2 DEF Overtakes, Open
<1>5. Open(c, i)
  BY DEF Open, Enters, Dealt
<1> QED
  BY <1>1, <1>4, <1>5

\* A handler that overtakes no other has the next event, and no join is about to enter before it.
LEMMA HandlerNextOne ==
  ASSUME ListType, NEW c \in Clients, InTurn(c), Free(c), NEW i \in DOMAIN tasks[c], ~ Overtakes(c, i),
         Open(c, i)
  PROVE  /\ i \in 1 .. Sent(c) /\ IsNext(c, i)
         /\ \A j \in 1 .. Sent(c) : j # i => ~ Enters(c, j)
<1>a. PICK n \in Nat, m \in Nat : n = Len(tasks[c]) /\ m = Len(buffer[c])
  BY SentShape
<1>1. i \in 1 .. n /\ i <= n /\ i \in 1 .. n + m /\ Sent(c) = n + m
  BY <1>a, SentShape, Split DEF Sent
<1>2. ASSUME NEW j \in 1 .. n + m, j < i PROVE ~ Open(c, j)
  <2>1. j \in 1 .. i - 1 /\ j <= n
    BY <1>1, <1>2
  <2> QED
    BY <1>a, <2>1 DEF Overtakes, Open
<1>3. ASSUME NEW j \in 1 .. n + m, j # i PROVE ~ Enters(c, j)
  <2>1. CASE j < i
    BY <1>2, <2>1 DEF Enters, Open, Dealt
  <2>2. CASE i < j
    BY <1>1, <2>2, EntersNext
  <2>3. j < i \/ i < j
    BY <1>1, <1>3
  <2> QED
    BY <2>1, <2>2, <2>3
<1> QED
  BY <1>1, <1>2, <1>3 DEF IsNext

\* Nothing changes in what the window has emitted and in where it stands.
Steady(c) ==
  /\ Sent(c)' = Sent(c) /\ info'[c] = info[c]
  /\ \A s \in Sessions : c \in room'[s] <=> c \in room[s]
  /\ \A i \in 1 .. Sent(c) :
       /\ Event(c, i)' = Event(c, i)
       /\ (Open(c, i)' <=> Open(c, i)) /\ (Enters(c, i)' <=> Enters(c, i))

LEMMA FitsStays == faults \subseteq faults' => \A p, e : Fits(p, e) => Fits(p, e)'
BY DEF Fits

LEMMA ChainSteady ==
  ASSUME ListType, RoomType, NEW c \in Clients, Chain(c), Steady(c), faults \subseteq faults'
  PROVE  Chain(c)' /\ Last(c)' = Last(c)
<1>1. PICK n \in Nat : n = Sent(c) /\ n = Sent(c)'
  BY SentShape DEF Steady
<1>2. InRoom(c)'
  <2>1. \A s \in Sessions : c \in room'[s] => s = info'[c]
    BY DEF Chain, InRoom, Steady
  <2>2. ASSUME info'[c] \in Sessions
        PROVE  c \in room'[info'[c]] \/ \E i \in 1 .. n : Enters(c, i)'
    BY <1>1, <2>2 DEF Chain, InRoom, Steady
  <2> QED
    BY <1>1, <2>1, <2>2 DEF InRoom
<1>3. \A i \in 1 .. n : IsNext(c, i)' => IsNext(c, i)
  BY <1>1 DEF IsNext, Steady
<1>4. \A i, j \in 1 .. n : j = i + 1 /\ Open(c, i)' => Fits(Target(Event(c, i)), Event(c, j))'
  <2> SUFFICES ASSUME NEW i \in 1 .. n, NEW j \in 1 .. n, j = i + 1, Open(c, i)'
               PROVE  Fits(Target(Event(c, i)), Event(c, j))'
    OBVIOUS
  <2> PICK p, e : p = Target(Event(c, i)) /\ e = Event(c, j)
    OBVIOUS
  <2>1. Target(Event(c, i))' = p /\ Event(c, j)' = e
    BY <1>1 DEF Steady, Target
  <2>2. Fits(p, e)
    BY <1>1 DEF Steady, Chain
  <2> QED
    BY <2>1, <2>2 DEF Fits
<1>5. \A i \in 1 .. n : IsNext(c, i)' /\ ~ Enters(c, i)' => Fits(info[c], Event(c, i))'
  <2> SUFFICES ASSUME NEW i \in 1 .. n, IsNext(c, i)', ~ Enters(c, i)'
               PROVE  Fits(info[c], Event(c, i))'
    OBVIOUS
  <2> PICK p, e : p = info[c] /\ e = Event(c, i)
    OBVIOUS
  <2>1. info'[c] = p /\ Event(c, i)' = e
    BY <1>1 DEF Steady
  <2>2. Fits(p, e)
    BY <1>1, <1>3 DEF Steady, Chain
  <2> QED
    BY <2>1, <2>2 DEF Fits
<1>6. \A i \in 1 .. n : Enters(c, i)' => info'[c] = Event(c, i)'.session
  BY <1>1 DEF Chain, Steady
<1>7. \A i, j \in 1 .. n : i < j /\ Open(c, i)' => Open(c, j)'
  BY <1>1 DEF Chain, Steady
<1>8. Last(c)' = Last(c)
  <2>1. CASE n > 0
    <3> PICK k \in 1 .. n : k = n
      BY <2>1
    <3>1. Event(c, k)' = Event(c, k) /\ (Open(c, k)' <=> Open(c, k)) /\ info'[c] = info[c]
      BY <1>1 DEF Steady
    <3>2. Last(c) = IF Open(c, k) THEN Target(Event(c, k)) ELSE info[c]
      BY <1>1, <2>1 DEF Last
    <3>3. Last(c)' = IF Open(c, k)' THEN Target(Event(c, k))' ELSE info'[c]
      BY <1>1, <2>1 DEF Last
    <3> QED
      BY <3>1, <3>2, <3>3 DEF Target
  <2>2. CASE ~ n > 0
    BY <1>1, <2>2 DEF Last, Steady
  <2> QED
    BY <2>1, <2>2
<1> QED
  BY <1>1, <1>2, <1>4, <1>5, <1>6, <1>7, <1>8 DEF Chain


\* An event that fits where the window is in the end continues the chain.
LEMMA ChainEmit ==
  ASSUME ListType, NEW c \in Clients, Chain(c), NEW e, Emits(c, <<e>>), info'[c] = info[c],
         \A s \in Sessions : c \in room'[s] <=> c \in room[s],
         faults \subseteq faults', Fits(Last(c), e)
  PROVE  Chain(c)' /\ Last(c)' = Target(e)
<1>a. PICK n \in Nat : n = Sent(c)
  BY SentShape
<1>b. PICK p : p = Last(c)
  OBVIOUS
<1>1. /\ n + 1 \in 1 .. n + 1 /\ n + 1 > 0 /\ ~ n + 1 <= n /\ (n + 1) - n = 1
      /\ \A i \in 1 .. n + 1 : i = n + 1 \/ (i \in 1 .. n /\ i <= n /\ i < n + 1)
      /\ \A i \in 1 .. n : i \in 1 .. n + 1 /\ n > 0 /\ n \in 1 .. n
      /\ n > 0 => n \in 1 .. n
  OBVIOUS
<1>2. /\ Sent(c)' = n + 1 /\ \A i \in 1 .. n : Kept(c, i)
      /\ Event(c, n + 1)' = e /\ Open(c, n + 1)' /\ ~ Enters(c, n + 1)'
  <2>1. Len(<<e>>) = 1 /\ <<e>>[1] = e
    OBVIOUS
  <2> QED
    BY <1>a, <1>1, <2>1 DEF Emits
<1>3. InRoom(c)'
  <2>1. \A s \in Sessions : c \in room'[s] => s = info'[c]
    BY DEF Chain, InRoom
  <2>2. ASSUME info'[c] \in Sessions
        PROVE  c \in room'[info'[c]] \/ \E i \in 1 .. n + 1 : Enters(c, i)'
    BY <1>a, <1>1, <1>2, <2>2 DEF Chain, InRoom, Kept
  <2> QED
    BY <1>2, <2>1, <2>2 DEF InRoom
<1>4. \A i, j \in 1 .. n + 1 : i < j /\ Open(c, i)' => Open(c, j)'
  <2>1. ASSUME NEW i \in 1 .. n + 1, NEW j \in 1 .. n + 1, i < j, Open(c, i)', j # n + 1
        PROVE  Open(c, j)'
    <3>1. j \in 1 .. n /\ i \in 1 .. n
      BY <1>1, <2>1
    <3> QED
      BY <1>a, <1>2, <2>1, <3>1 DEF Chain, Kept
  <2> QED
    BY <1>2, <2>1
<1>5. ASSUME NEW i \in 1 .. n + 1, NEW j \in 1 .. n + 1, j = i + 1, Open(c, i)'
      PROVE  Fits(Target(Event(c, i)), Event(c, j))'
  <2>1. i \in 1 .. n /\ (j = n + 1 => i = n) /\ (j # n + 1 => j \in 1 .. n)
    BY <1>5
  <2>a. PICK q, d : q = Target(Event(c, i)) /\ d = Event(c, j)'
    OBVIOUS
  <2>2. Target(Event(c, i))' = q /\ Open(c, i)
    BY <1>2, <1>5, <2>a, <2>1 DEF Target, Kept
  <2>3. CASE j = n + 1
    <3>1. d = e /\ q = p
      BY <1>a, <1>b, <1>1, <1>2, <2>a, <2>1, <2>2, <2>3 DEF Last
    <3> QED
      BY <1>b, <2>a, <2>2, <3>1 DEF Fits
  <2>4. CASE j # n + 1
    <3>1. Fits(q, d)
      BY <1>a, <1>2, <1>5, <2>a, <2>1, <2>2, <2>4 DEF Chain, Kept
    <3> QED
      BY <2>a, <2>2, <3>1 DEF Fits
  <2> QED
    BY <2>3, <2>4
<1>6. ASSUME NEW i \in 1 .. n + 1, IsNext(c, i)', ~ Enters(c, i)'
      PROVE  Fits(info[c], Event(c, i))'
  <2>a. PICK q, d : q = info[c] /\ d = Event(c, i)'
    OBVIOUS
  <2>1. CASE i = n + 1
    <3>1. \A j \in 1 .. n : ~ Open(c, j)
      BY <1>1, <1>2, <1>6, <2>1 DEF IsNext, Kept
    <3>2. q = p /\ d = e
      BY <1>a, <1>b, <1>1, <1>2, <2>a, <2>1, <3>1 DEF Last
    <3> QED
      BY <1>b, <2>a, <3>2 DEF Fits
  <2>2. CASE i # n + 1
    <3>1. i \in 1 .. n
      BY <1>1, <2>2
    <3>2. IsNext(c, i) /\ ~ Enters(c, i) /\ Event(c, i)' = Event(c, i)
      BY <1>a, <1>1, <1>2, <1>6, <3>1 DEF IsNext, Kept
    <3>3. Fits(q, d)
      BY <1>a, <2>a, <3>1, <3>2 DEF Chain
    <3> QED
      BY <2>a, <3>3 DEF Fits
  <2> QED
    BY <2>1, <2>2
<1>7. ASSUME NEW i \in 1 .. n + 1, Enters(c, i)' PROVE info'[c] = Event(c, i)'.session
  <2>1. i \in 1 .. n
    BY <1>1, <1>2, <1>7
  <2> QED
    BY <1>a, <1>2, <1>7, <2>1 DEF Chain, Kept
<1>8. Last(c)' = Target(e)
  <2>1. Target(Event(c, n + 1))' = Target(e)
    BY <1>2 DEF Target
  <2> QED
    BY <1>1, <1>2, <2>1 DEF Last
<1> QED
  BY <1>2, <1>3, <1>4, <1>5, <1>6, <1>7, <1>8 DEF Chain


\* When the next event has been dealt with, the window is where the event leads.
LEMMA ChainAdvance ==
  ASSUME ListType, NEW c \in Clients, Chain(c), NEW i \in 1 .. Sent(c), IsNext(c, i),
         Sent(c)' = Sent(c), \A j \in 1 .. Sent(c) : Event(c, j)' = Event(c, j) /\ ~ Enters(c, j)',
         \A j \in 1 .. Sent(c) : j # i => Kept(c, j),
         ~ Open(c, i)', info'[c] = Target(Event(c, i)), InRoom(c)', faults \subseteq faults'
  PROVE  Chain(c)' /\ Last(c)' = Last(c)
<1>a. PICK n \in Nat : n = Sent(c)
  BY SentShape
<1>1. i \in 1 .. n /\ n > 0 /\ n \in 1 .. n
  BY <1>a
<1>2. ASSUME NEW j \in 1 .. n PROVE Open(c, j)' <=> j # i /\ Open(c, j)
  BY <1>a, <1>2 DEF Kept
<1>3. \A j \in 1 .. n : j < i => ~ Open(c, j)
  BY <1>a DEF IsNext
<1>4. ASSUME NEW j \in 1 .. n, NEW k \in 1 .. n, j < k, Open(c, j)' PROVE Open(c, k)'
  <2>1. j # i /\ Open(c, j) /\ Open(c, k)
    BY <1>a, <1>2, <1>4 DEF Chain
  <2>2. ~ j < i
    BY <1>3, <2>1
  <2>3. k # i
    BY <1>1, <1>4, <2>1, <2>2
  <2> QED
    BY <1>2, <2>1, <2>3
<1>5. ASSUME NEW j \in 1 .. n, NEW k \in 1 .. n, k = j + 1, Open(c, j)'
      PROVE  Fits(Target(Event(c, j)), Event(c, k))'
  <2>a. PICK q, d : q = Target(Event(c, j)) /\ d = Event(c, k)
    OBVIOUS
  <2>1. Target(Event(c, j))' = q /\ Event(c, k)' = d
    BY <1>a, <2>a DEF Target
  <2>2. Fits(q, d)
    BY <1>a, <1>2, <1>5, <2>a DEF Chain
  <2> QED
    BY <2>1, <2>2 DEF Fits
<1>6. ASSUME NEW j \in 1 .. n, IsNext(c, j)' PROVE Fits(info[c], Event(c, j))'
  <2>1. Open(c, j) /\ j # i /\ \A k \in 1 .. n : k < j => ~ Open(c, k)'
    BY <1>a, <1>2, <1>6 DEF IsNext
  <2>2. i < j
    BY <1>1, <1>3, <2>1
  <2>3. i + 1 \in 1 .. n /\ i < i + 1 /\ i + 1 # i /\ (i + 1 < j \/ i + 1 = j)
    BY <1>1, <2>2
  <2>4. Open(c, i + 1)
    BY <1>a, <1>1, <2>3 DEF Chain, IsNext
  <2>5. j = i + 1
    BY <1>2, <2>1, <2>3, <2>4
  <2>a. PICK q, d : q = Target(Event(c, i)) /\ d = Event(c, j)
    OBVIOUS
  <2>6. Fits(q, d)
    BY <1>a, <1>1, <2>a, <2>5 DEF Chain, IsNext
  <2>7. info'[c] = q /\ Event(c, j)' = d
    BY <1>a, <2>a
  <2> QED
    BY <2>6, <2>7 DEF Fits
<1>7. Last(c)' = Last(c)
  <2>a. PICK q, d : q = Target(Event(c, n)) /\ d = Open(c, n)
    OBVIOUS
  <2>1. Target(Event(c, n))' = q /\ Last(c) = IF Open(c, n) THEN q ELSE info[c]
    BY <1>a, <1>1, <2>a DEF Target, Last
  <2>2. Last(c)' = IF Open(c, n)' THEN q ELSE info'[c]
    BY <1>a, <1>1, <2>1 DEF Last
  <2>3. Open(c, i)
    BY DEF IsNext
  <2>4. CASE i = n
    BY <1>2, <2>1, <2>2, <2>3, <2>4, <2>a
  <2>5. CASE i # n
    <3>1. i < n
      BY <1>1, <2>5
    <3>2. Open(c, n)
      BY <1>a, <1>1, <2>3, <3>1 DEF Chain
    <3>3. Open(c, n)'
      BY <1>1, <1>2, <2>5, <3>2
    <3> QED
      BY <2>1, <2>2, <3>2, <3>3
  <2> QED
    BY <2>4, <2>5
<1> QED
  BY <1>a, <1>4, <1>5, <1>6, <1>7 DEF Chain

\* A join that has subscribed is the next of the window's events still, and about to enter.
LEMMA ChainSubscribe ==
  ASSUME ListType, RoomType, NEW c \in Clients, Chain(c), NEW i \in 1 .. Sent(c), IsNext(c, i),
         Event(c, i).session \in Sessions,
         Sent(c)' = Sent(c), Event(c, i)' = Event(c, i), Open(c, i)', Enters(c, i)', ~ Enters(c, i),
         \A j \in 1 .. Sent(c) : j # i => Kept(c, j) /\ ~ Enters(c, j),
         info'[c] = Event(c, i).session,
         \A s \in Sessions : c \in room'[s] <=> c \in room[s], faults' = faults
  PROVE  Chain(c)' /\ Last(c)' = Last(c)
<1>a. PICK n \in Nat, e \in Events : n = Sent(c) /\ e = Event(c, i)
  BY SentShape
<1>1. i \in 1 .. n /\ n > 0 /\ n \in 1 .. n
  BY <1>a
<1>2. ASSUME NEW j \in 1 .. n
      PROVE  Event(c, j)' = Event(c, j) /\ (Open(c, j)' <=> Open(c, j)) /\ (Enters(c, j)' <=> j = i)
  BY <1>a, <1>2 DEF Kept, IsNext
<1>3. info[c] \in {NoSession, e.session}
  BY <1>a, <1>1 DEF Chain, Fits
<1>4. InRoom(c)'
  <2>1. ASSUME NEW s \in Sessions, c \in room'[s] PROVE s = info'[c]
    <3>1. s = info[c] /\ s # NoSession
      BY <2>1, RoomAssumption DEF Chain, InRoom, RoomAssumption
    <3> QED
      BY <1>a, <1>3, <3>1
  <2> QED
    BY <1>a, <1>1, <2>1 DEF InRoom
<1>5. \A j, k \in 1 .. n : j < k /\ Open(c, j)' => Open(c, k)'
  BY <1>a, <1>2 DEF Chain
<1>6. ASSUME NEW j \in 1 .. n, NEW k \in 1 .. n, k = j + 1, Open(c, j)'
      PROVE  Fits(Target(Event(c, j)), Event(c, k))'
  <2>a. PICK q, d : q = Target(Event(c, j)) /\ d = Event(c, k)
    OBVIOUS
  <2>1. Target(Event(c, j))' = q /\ Event(c, k)' = d
    BY <1>2, <2>a DEF Target
  <2>2. Fits(q, d)
    BY <1>a, <1>2, <1>6, <2>a DEF Chain
  <2> QED
    BY <2>1, <2>2 DEF Fits
<1>7. ASSUME NEW j \in 1 .. n, IsNext(c, j)' PROVE Enters(c, j)'
  <2>1. Open(c, j) /\ Open(c, i) /\ (i < j => ~ Open(c, i)) /\ (j < i => ~ Open(c, j))
    BY <1>a, <1>1, <1>2, <1>7 DEF IsNext
  <2>2. j = i
    BY <1>1, <2>1
  <2> QED
    BY <1>1, <1>2, <2>2
<1>8. Last(c)' = Last(c)
  <2>a. PICK q : q = Target(Event(c, n))
    OBVIOUS
  <2>1. Target(Event(c, n))' = q
    BY <1>1, <1>2, <2>a DEF Target
  <2>2. Open(c, n)
    <3>1. i < n \/ i = n
      BY <1>1
    <3> QED
      BY <1>a, <1>1, <3>1 DEF Chain, IsNext
  <2> QED
    BY <1>a, <1>1, <1>2, <2>1, <2>2, <2>a DEF Last
<1>9. \A j \in 1 .. n : Enters(c, j)' => info'[c] = Event(c, j)'.session
  BY <1>a, <1>2
<1> QED
  BY <1>a, <1>4, <1>5, <1>6, <1>7, <1>8, <1>9 DEF Chain

LEMMA ExpectedStays ==
  ASSUME NEW c \in Clients, Expected(c), Last(c)' = Last(c), info'[c] = info[c] \/ conn[c] = "up",
         conn'[c] = conn[c], fetch'[c] = fetch[c], active'[c] = active[c], faults \subseteq faults'
  PROVE  Expected(c)'
BY DEF Expected


LEMMA RoomInit == Init => RoomInv
<1> SUFFICES ASSUME Init, NEW c \in Clients PROVE Chain(c) /\ Expected(c)
  BY DEF RoomInv
<1>1. Sent(c) = 0 /\ \A i \in 1 .. 0 : FALSE
  BY EmptySeq DEF Init, Sent
<1>2. /\ active[c] \in Sessions \cup {NoSession} /\ info[c] = active[c] /\ fetch[c] = <<>>
      /\ \A s \in Sessions : c \in room[s] <=> active[c] = s
      /\ conn[c] # "up" => info[c] = NoSession
  BY DEF Init
<1>3. InRoom(c)
  BY <1>2 DEF InRoom
<1>4. Chain(c)
  BY <1>1, <1>3 DEF Chain
<1>5. Last(c) = info[c]
  BY <1>1 DEF Last
<1> QED
  BY <1>2, <1>4, <1>5 DEF Expected

\* What stays of a window about which nothing is on record.
Innocent(c) ==
  /\ Blameless(c) /\ Free(c) /\ Chain(c) /\ Expected(c) /\ Wants(c) /\ Shape(c) /\ InTurn(c)
  /\ Granted(c) /\ faults \subseteq faults'

LEMMA LeavePage ==
  ASSUME TypeOK, NEW c \in Clients, Innocent(c), Blameless(c)', LeaveSession(c)
  PROVE  Chain(c)' /\ Expected(c)'
<1>0. ListType /\ ViewType /\ RoomType /\ LedgerType
  BY TypeParts
<1>a. PICK s \in Sessions : s = active[c]
  BY <1>0, LeaveEmits DEF Innocent
<1>1. Emits(c, <<Quit(s)>>) /\ Quit(s).kind = "leave" /\ Quit(s).session = s
  BY <1>0, <1>a, LeaveEmits, EventType DEF Innocent
<1>2. /\ active'[c] = NoSession
      /\ UNCHANGED <<info, room, faults, conn, fetch>>
  BY <1>0 DEF LeaveSession, ViewType
<1>3. waiting[c] = <<>> /\ fetch[c] = <<>>
  <2>1. Blame(c, IF waiting[c] \o fetch[c] = <<>> THEN {} ELSE {"order"})
    BY DEF LeaveSession
  <2>2. waiting[c] \o fetch[c] = <<>>
    BY <1>0, <2>1, BlameType DEF Blameless
  <2>3. waiting[c] \in Seq(Sessions) /\ fetch[c] \in Seq(Sessions)
    BY <1>0 DEF ListType, JoinLists
  <2> QED
    BY <2>2, <2>3, ConcatEqualIffEmpty
<1>4. s # NoSession /\ conn[c] # "never"
  <2>1. s # NoSession
    BY RoomAssumption DEF RoomAssumption
  <2> QED
    BY <1>a, <1>3, <2>1, OneJoin DEF Innocent, Wants
<1>5. Fits(Last(c), Quit(s))
  BY <1>0, <1>a, <1>1, <1>3, <1>4 DEF Fits, Innocent, Expected, Shape, ViewType
<1>6. Chain(c)' /\ Last(c)' = NoSession
  BY <1>0, <1>1, <1>2, <1>5, ChainEmit DEF Innocent, Target
<1> QED
  BY <1>2, <1>3, <1>6 DEF Expected, Innocent

LEMMA UpPage ==
  ASSUME TypeOK, NEW c \in Clients, Innocent(c), NEW joins \in Seq(Sessions), Up(c, joins),
         conn[c] = "down" \/ (conn[c] = "never" /\ active[c] # NoSession),
         fetch[c] = <<>> /\ joins = <<>> => active[c] = NoSession
  PROVE  Chain(c)' /\ Expected(c)'
<1>0. ListType /\ ViewType /\ RoomType
  BY TypeParts
<1>1. /\ conn'[c] = "up" /\ conn[c] # "up"
      /\ UNCHANGED <<active, info, room, faults>>
      /\ fetch'[c] = fetch[c] \o joins
  BY <1>0 DEF Up, ViewType, ListType, JoinLists
<1>2. Steady(c)
  <2>1. Emits(c, <<>>) /\ Sent(c) \in Nat
    BY <1>0, ConnectEmits, SentShape
  <2>2. Sent(c)' = Sent(c)
    BY <2>1, EmptySeq DEF Emits
  <2> QED
    BY <1>1, <2>1, <2>2 DEF Emits, Kept, Steady
<1>3. Chain(c)' /\ Last(c)' = Last(c)
  BY <1>0, <1>1, <1>2, ChainSteady DEF Innocent
<1>4. fetch'[c] = <<>> => active[c] = NoSession
  <2>1. fetch[c] \in Seq(Sessions)
    BY <1>0 DEF ListType, JoinLists
  <2>2. fetch[c] \o joins = <<>> => fetch[c] = <<>> /\ joins = <<>>
    BY <2>1, ConcatEqualIffEmpty
  <2> QED
    BY <1>1, <2>2
<1>5. "cut" \notin faults => Last(c) = NoSession
  <2> SUFFICES ASSUME "cut" \notin faults PROVE Last(c) = NoSession
    OBVIOUS
  <2>1. conn[c] = "never"
    BY <1>1 DEF Innocent, Shape
  <2>2. Len(tasks[c]) = 0 /\ Len(buffer[c]) = 0
    BY <2>1, OneJoin DEF Innocent, Wants
  <2>3. Sent(c) = 0
    BY <2>2 DEF Sent
  <2> QED
    BY <1>1, <2>3 DEF Last, Innocent, Expected
<1>6. Last(c) \in {NoSession, active[c]}
  BY DEF Innocent, Expected
<1> QED
  BY <1>1, <1>3, <1>4, <1>5, <1>6 DEF Expected

LEMMA ConnectPage ==
  ASSUME TypeOK, NEW c \in Clients, Innocent(c), Connect(c)
  PROVE  Chain(c)' /\ Expected(c)'
<1>0. ListType /\ ViewType
  BY TypeParts
<1>1. /\ Up(c, Rejoin(c) \o waiting[c])
      /\ conn[c] = "down" \/ (conn[c] = "never" /\ active[c] # NoSession)
  BY DEF Connect
<1>2. Rejoin(c) \in Seq(Sessions) /\ waiting[c] \in Seq(Sessions)
      /\ Rejoin(c) \o waiting[c] \in Seq(Sessions)
  BY <1>0, JoinsBegin
<1>3. Rejoin(c) \o waiting[c] = <<>> => active[c] = NoSession
  <2> SUFFICES ASSUME Rejoin(c) \o waiting[c] = <<>>, active[c] # NoSession PROVE FALSE
    OBVIOUS
  <2>1. Rejoin(c) = <<>> /\ waiting[c] = <<>>
    BY <1>2, ConcatEqualIffEmpty
  <2>2. conn[c] = "never"
    BY <1>1, <2>1, OneJoin DEF Rejoin
  <2> QED
    BY <2>1, <2>2, OneJoin DEF Innocent, Wants
<1> QED
  BY <1>1, <1>2, <1>3, UpPage

LEMMA ConnectAnewPage ==
  ASSUME TypeOK, NEW c \in Clients, Innocent(c), Blameless(c)', ConnectAnew(c)
  PROVE  Chain(c)' /\ Expected(c)'
<1>0. ListType /\ LedgerType
  BY TypeParts
<1>1. conn[c] = "down" /\ Up(c, waiting[c])
  BY DEF ConnectAnew
<1>2. waiting[c] \in Seq(Sessions) /\ fetch[c] \in Seq(Sessions)
  BY <1>0 DEF ListType, JoinLists
<1>3. fetch[c] = <<>> /\ waiting[c] = <<>> => active[c] = NoSession
  <2>1. fetch[c] = <<>> /\ waiting[c] = <<>> => fetch[c] \o waiting[c] = <<>>
    BY <1>2, ConcatEmptySeq
  <2>2. Blame(c, IF active[c] # NoSession /\ fetch[c] \o waiting[c] = <<>> THEN {"refused"} ELSE {})
    BY DEF ConnectAnew
  <2> QED
    BY <1>0, <2>1, <2>2, BlameType DEF Blameless
<1> QED
  BY <1>1, <1>2, <1>3, UpPage

LEMMA TokenPage ==
  ASSUME TypeOK, NEW c \in Clients, Innocent(c), Blameless(c)', Token(c)
  PROVE  Chain(c)' /\ Expected(c)'
<1>0. ListType /\ ViewType /\ RoomType /\ LedgerType /\ BoundType
  BY TypeParts
<1>a. PICK t \in 1 .. MaxTokens : t = issued'
  BY <1>0, TokenEmits DEF Innocent
<1>1. /\ Emits(c, Joins(c, t)) /\ Joins(c, t) \in Seq(Events) /\ Len(Joins(c, t)) = Len(fetch[c])
      /\ \A i \in 1 .. Len(fetch[c]) : Joins(c, t)[i] = Join(fetch[c][i], t) /\ fetch[c][i] \in Sessions
  BY <1>0, <1>a, TokenEmits DEF Innocent
<1>2. Len(fetch[c]) = 1
  <2>1. PICK good \in BOOLEAN : Blame(c, IF good /\ Len(fetch[c]) = 1 THEN {} ELSE {"refused"})
    BY DEF Token
  <2> QED
    BY <1>0, <2>1, BlameType DEF Blameless
<1>b. PICK s \in Sessions : s = fetch[c][1]
  BY <1>1, <1>2
<1>3. s = active[c] /\ s # NoSession /\ fetch[c] # <<>>
  BY <1>b, <1>2, RoomAssumption DEF Innocent, Wants, Token, RoomAssumption
<1>4. Joins(c, t) = <<Join(s, t)>>
  <2>1. Joins(c, t)[1] = Join(s, t) /\ Len(Joins(c, t)) = 1 /\ Joins(c, t) \in Seq(Events)
    BY <1>1, <1>2, <1>b
  <2> HIDE DEF Joins
  <2>2. \A x \in Seq(Events) : Len(x) = 1 => x = <<x[1]>>
    OBVIOUS
  <2> QED
    BY <2>1, <2>2
<1>5. Join(s, t).kind = "join" /\ Join(s, t).session = s
  BY RoomAssumption, EventType DEF RoomAssumption
<1>6. UNCHANGED <<info, room, faults, conn, active>> /\ fetch'[c] = <<>>
  BY <1>0 DEF Token, ListType, JoinLists
<1>7. Fits(Last(c), Join(s, t))
  <2>1. "cut" \notin faults => Last(c) = NoSession
    BY <1>0, <1>3 DEF Innocent, Expected, Wants, Shape, ViewType
  <2> QED
    BY <1>3, <1>5, <2>1 DEF Fits, Innocent, Expected
<1>8. Chain(c)' /\ Last(c)' = s
  BY <1>0, <1>1, <1>4, <1>5, <1>6, <1>7, ChainEmit DEF Innocent, Target
<1> QED
  BY <1>3, <1>6, <1>8 DEF Expected, Innocent

LEMMA JoinPage ==
  ASSUME TypeOK, NEW c \in Clients, NEW s \in Sessions, Innocent(c), JoinSession(c, s)
  PROVE  Chain(c)' /\ Expected(c)'
<1>0. ListType /\ ViewType /\ RoomType
  BY TypeParts
<1>1. /\ active[c] = NoSession /\ active'[c] = s
      /\ UNCHANGED <<conn, buffer, tasks, info, room, faults>>
      /\ conn[c] = "up" => fetch'[c] = Append(fetch[c], s)
  BY <1>0 DEF JoinSession, ViewType, ListType, JoinLists
<1>2. Steady(c)
  <2>1. Emits(c, <<>>) /\ Sent(c) \in Nat
    BY <1>0, <1>1, Quiet, SentShape
  <2>2. Sent(c)' = Sent(c)
    BY <2>1, EmptySeq DEF Emits
  <2> QED
    BY <1>1, <2>1, <2>2 DEF Emits, Kept, Steady
<1>3. Chain(c)' /\ Last(c)' = Last(c)
  BY <1>0, <1>1, <1>2, ChainSteady DEF Innocent
<1>4. Last(c) = NoSession /\ (conn[c] = "up" => fetch'[c] # <<>>)
  BY <1>1, OneJoin DEF Innocent, Expected, Wants
<1> QED
  BY <1>1, <1>3, <1>4 DEF Expected, Innocent

LEMMA CutPage ==
  ASSUME TypeOK, NEW c \in Clients, Innocent(c), Cut(c)
  PROVE  Chain(c)' /\ Expected(c)'
<1>0. ListType /\ ViewType /\ RoomType
  BY TypeParts
<1>a. PICK n \in Nat : n = Sent(c)
  BY <1>0, SentShape
<1>1. Sent(c)' = n /\ \A j \in 1 .. n : ~ Open(c, j)' /\ ~ Enters(c, j)'
  BY <1>0, <1>a, CutKeeps DEF Innocent
<1>2. /\ info'[c] = NoSession /\ conn'[c] = "down" /\ \A s \in Sessions : c \notin room'[s]
      /\ active' = active
  BY <1>0 DEF Cut, RoomType, ViewType
<1>3. InRoom(c)'
  BY <1>2, RoomAssumption DEF InRoom, RoomAssumption
<1>4. Chain(c)'
  BY <1>1, <1>3 DEF Chain, IsNext
<1>5. Last(c)' = NoSession
  <2>1. n > 0 => n \in 1 .. n
    OBVIOUS
  <2> QED
    BY <1>1, <1>2, <2>1 DEF Last
<1> QED
  BY <1>2, <1>4, <1>5 DEF Expected


\* A handler's step that leaves the event as it was: dealt with, under way or lost.
LEMMA HandlerSteady ==
  ASSUME TypeOK, NEW c \in Clients, Innocent(c), NEW i \in DOMAIN tasks[c], NEW at \in Steps,
         Stepped(c, i, at), info'[c] = info[c], \A s \in Sessions : c \in room'[s] <=> c \in room[s],
         \/ tasks[c][i].gone
         \/ tasks[c][i].at \in {"new", "read"} /\ at \in {"new", "read"}
         \/ tasks[c][i].at \in {"left", "done"} /\ at \in {"left", "done"}
  PROVE  Chain(c)' /\ Expected(c)'
<1>0. ListType /\ RoomType
  BY TypeParts
<1>1. /\ Sent(c)' = Sent(c) /\ i \in 1 .. Len(tasks[c])
      /\ \A j \in 1 .. Sent(c) : Event(c, j)' = Event(c, j) /\ (j # i => Kept(c, j))
      /\ Open(c, i)' <=> ~ tasks[c][i].gone /\ at \notin {"left", "done"}
      /\ Open(c, i) <=> ~ tasks[c][i].gone /\ tasks[c][i].at \notin {"left", "done"}
      /\ Enters(c, i)' <=> ~ tasks[c][i].gone /\ at = "subscribed"
  BY <1>0, HandlerKeeps
<1>2. Enters(c, i) <=> ~ tasks[c][i].gone /\ tasks[c][i].at = "subscribed"
  BY <1>1 DEF Enters
<1>3. Steady(c)
  <2>1. (Open(c, i)' <=> Open(c, i)) /\ (Enters(c, i)' <=> Enters(c, i))
    BY <1>1, <1>2
  <2> QED
    BY <1>1, <2>1 DEF Steady, Kept
<1>4. Chain(c)' /\ Last(c)' = Last(c)
  BY <1>0, <1>3, ChainSteady DEF Innocent
<1> QED
  BY <1>4, ExpectedStays DEF Innocent, Stepped

\* Where a handler that is not too early for its event finds the window.
LEMMA HandlerPlace ==
  ASSUME TypeOK, NEW c \in Clients, Innocent(c), NEW i \in DOMAIN tasks[c],
         ~ tasks[c][i].gone, tasks[c][i].at \in {"new", "read", "subscribed"}, ~ Overtakes(c, i)
  PROVE  /\ IsNext(c, i) /\ conn[c] = "up" /\ \A j \in 1 .. Sent(c) : j # i => ~ Enters(c, j)
         /\ Event(c, i) = tasks[c][i].event /\ i \in 1 .. Sent(c) /\ Event(c, i).session \in Sessions
         /\ Enters(c, i) <=> tasks[c][i].at = "subscribed"
<1>0. ListType
  BY TypeParts
<1>1. i \in 1 .. Len(tasks[c]) /\ i <= Len(tasks[c]) /\ tasks[c][i].event.session \in Sessions
  BY <1>0, SentShape, TaskShape DEF ListType
<1>2. Open(c, i) /\ (Enters(c, i) <=> tasks[c][i].at = "subscribed") /\ Event(c, i) = tasks[c][i].event
  BY <1>1 DEF Open, Dealt, Enters, Event
<1>3. conn[c] = "up"
  BY DEF Innocent, Shape, Dealt
<1> QED
  BY <1>0, <1>1, <1>2, <1>3, HandlerNextOne DEF Innocent

LEMMA ReadRoom ==
  ASSUME TypeOK, NEW c \in Clients, Innocent(c), Blameless(c)', NEW i \in DOMAIN tasks[c],
         ReadToken(c, i)
  PROVE  Chain(c)' /\ Expected(c)'
<1>0. ListType /\ RoomType
  BY TypeParts
<1>1. At(c, i, "join", "new") /\ UNCHANGED <<room, info>>
  BY DEF ReadToken
<1>2. tasks[c][i].event.token \in live
  <2>1. i \in 1 .. Len(tasks[c]) /\ i <= Len(tasks[c]) /\ i \in 1 .. Sent(c)
    BY <1>0, SentShape, Split DEF Sent
  <2>2. Event(c, i) = tasks[c][i].event /\ Fresh(c, i) /\ IsJoin(c, i)
    BY <1>1, <2>1 DEF Event, Fresh, IsJoin, At
  <2> QED
    BY <2>1, <2>2 DEF Innocent, Granted, Blameless
<1>3. Moved(c, i, "read")
  BY <1>0, <1>2, GoesMoves DEF ReadToken, ListType, Steps
<1>4. PICK at \in Steps : Stepped(c, i, at)
  BY HandlerMovement
<1>5. at = "read"
  BY <1>3, <1>4 DEF Stepped, Moved
<1> QED
  BY <1>1, <1>4, <1>5, HandlerSteady DEF At

LEMMA SubscribeRoom ==
  ASSUME TypeOK, NEW c \in Clients, Innocent(c), Blameless(c)', NEW i \in DOMAIN tasks[c],
         Subscribe(c, i)
  PROVE  Chain(c)' /\ Expected(c)'
<1>0. ListType /\ RoomType /\ LedgerType
  BY TypeParts
<1>a. PICK s \in Sessions : s = tasks[c][i].event.session
  BY <1>0, TaskShape DEF ListType
<1>1. At(c, i, "join", "read") /\ UNCHANGED <<room, faults>>
      /\ info' = IF tasks[c][i].gone THEN info ELSE [info EXCEPT ![c] = s]
  BY <1>a DEF Subscribe
<1>2. Goes(c, i, "subscribed") /\ Blame(c, Order(c, i))
  <2>1. ASSUME Blame(c, Order(c, i) \cup {"refused"}) PROVE FALSE
    BY <1>0, <2>1, BlameType, CauseType DEF Blameless
  <2> QED
    BY <2>1 DEF Subscribe
<1>3. Moved(c, i, "subscribed")
  BY <1>0, <1>2, GoesMoves DEF ListType, Steps
<1>4. PICK at \in Steps : Stepped(c, i, at)
  BY HandlerMovement
<1>5. at = "subscribed"
  BY <1>3, <1>4 DEF Stepped, Moved
<1>6. ASSUME tasks[c][i].gone PROVE Chain(c)' /\ Expected(c)'
  BY <1>1, <1>4, <1>6, HandlerSteady
<1>7. ASSUME ~ tasks[c][i].gone PROVE Chain(c)' /\ Expected(c)'
  <2>1. ~ Overtakes(c, i)
    BY <1>4, <1>5 DEF Stepped, Order, Blameless
  <2>2. /\ IsNext(c, i) /\ conn[c] = "up" /\ \A j \in 1 .. Sent(c) : j # i => ~ Enters(c, j)
        /\ Event(c, i) = tasks[c][i].event /\ i \in 1 .. Sent(c) /\ Event(c, i).session = s
        /\ ~ Enters(c, i)
    BY <1>1, <1>7, <1>a, <2>1, HandlerPlace DEF At
  <2>3. /\ Sent(c)' = Sent(c) /\ Event(c, i)' = Event(c, i)
        /\ \A j \in 1 .. Sent(c) : j # i => Kept(c, j)
        /\ Open(c, i)' /\ Enters(c, i)'
    BY <1>0, <1>4, <1>5, <1>7, <2>2, HandlerKeeps
  <2>4. info'[c] = s
    BY <1>0, <1>1, <1>7 DEF RoomType
  <2>5. Chain(c)' /\ Last(c)' = Last(c)
    BY <1>0, <1>1, <2>2, <2>3, <2>4, ChainSubscribe DEF Innocent
  <2> QED
    BY <1>4, <2>2, <2>5, ExpectedStays DEF Innocent, Stepped
<1> QED
  BY <1>6, <1>7


LEMMA EnterRoomRoom ==
  ASSUME TypeOK, NEW c \in Clients, Innocent(c), Blameless(c)', NEW i \in DOMAIN tasks[c],
         EnterRoom(c, i)
  PROVE  Chain(c)' /\ Expected(c)'
<1>0. ListType /\ RoomType /\ LedgerType
  BY TypeParts
<1>a. PICK s \in Sessions : s = tasks[c][i].event.session
  BY <1>0, TaskShape DEF ListType
<1>1. At(c, i, "join", "subscribed") /\ UNCHANGED <<info, faults>> /\ Blame(c, Order(c, i))
      /\ room' = IF tasks[c][i].gone THEN room ELSE [room EXCEPT ![s] = @ \cup {c}]
  BY <1>a DEF EnterRoom
<1>2. Moved(c, i, "done")
  BY <1>0, GoesMoves DEF EnterRoom, Ends, ListType, Steps
<1>3. PICK at \in Steps : Stepped(c, i, at)
  BY HandlerMovement
<1>4. at = "done"
  BY <1>2, <1>3 DEF Stepped, Moved
<1>5. ASSUME tasks[c][i].gone PROVE Chain(c)' /\ Expected(c)'
  BY <1>1, <1>3, <1>5, HandlerSteady
<1>6. ASSUME ~ tasks[c][i].gone PROVE Chain(c)' /\ Expected(c)'
  <2>1. ~ Overtakes(c, i)
    BY <1>0, <1>1, BlameType, CauseType DEF Order, Blameless
  <2>2. /\ IsNext(c, i) /\ conn[c] = "up" /\ \A j \in 1 .. Sent(c) : j # i => ~ Enters(c, j)
        /\ Event(c, i) = tasks[c][i].event /\ i \in 1 .. Sent(c) /\ Event(c, i).session = s
        /\ Enters(c, i) /\ Event(c, i).kind = "join"
    BY <1>1, <1>6, <1>a, <2>1, HandlerPlace DEF At
  <2>3. /\ Sent(c)' = Sent(c) /\ \A j \in 1 .. Sent(c) : Event(c, j)' = Event(c, j)
        /\ \A j \in 1 .. Sent(c) : j # i => Kept(c, j)
        /\ ~ Open(c, i)' /\ ~ Enters(c, i)'
    BY <1>0, <1>3, <1>4, <1>6, <2>2, HandlerKeeps
  <2>4. \A j \in 1 .. Sent(c) : ~ Enters(c, j)'
    BY <2>2, <2>3 DEF Kept
  <2>5. info[c] = s /\ info'[c] = s /\ Target(Event(c, i)) = s
    BY <1>1, <2>2 DEF Innocent, Chain, Target
  <2>6. InRoom(c)'
    <3>1. \A r \in Sessions : c \in room'[r] <=> c \in room[r] \/ r = s
      BY <1>0, <1>1, <1>6 DEF RoomType, Rooms
    <3> QED
      BY <2>5, <3>1 DEF InRoom, Innocent, Chain
  <2>7. Chain(c)' /\ Last(c)' = Last(c)
    BY <1>0, <1>1, <2>2, <2>3, <2>4, <2>5, <2>6, ChainAdvance DEF Innocent
  <2> QED
    BY <1>3, <2>2, <2>7, ExpectedStays DEF Innocent, Stepped
<1> QED
  BY <1>5, <1>6

LEMMA LeaveRoomRoom ==
  ASSUME TypeOK, NEW c \in Clients, Innocent(c), Blameless(c)', NEW i \in DOMAIN tasks[c],
         LeaveRoom(c, i)
  PROVE  Chain(c)' /\ Expected(c)'
<1>0. ListType /\ RoomType /\ LedgerType
  BY TypeParts
<1>a. PICK s \in Sessions : s = tasks[c][i].event.session
  BY <1>0, TaskShape DEF ListType
<1>1. At(c, i, "leave", "new") /\ UNCHANGED faults /\ Blame(c, Order(c, i) \cup Stray(c, s))
  BY <1>a DEF LeaveRoom
<1> SUFFICES ASSUME ~ tasks[c][i].gone PROVE Chain(c)' /\ Expected(c)'
  <2>1. ASSUME tasks[c][i].gone PROVE Chain(c)' /\ Expected(c)'
    <3>1. UNCHANGED <<room, info>>
      BY <2>1 DEF LeaveRoom
    <3>2. \E at \in Steps : Stepped(c, i, at)
      BY HandlerMovement
    <3> QED
      BY <2>1, <3>1, <3>2, HandlerSteady
  <2> QED
    BY <2>1
<1>2. ~ tasks[c][i].gone
  OBVIOUS
<1>3. room' = [room EXCEPT ![s] = @ \ {c}] /\ info' = [info EXCEPT ![c] = NoSession]
  BY <1>2, <1>a DEF LeaveRoom
<1>4. Moved(c, i, "left")
  BY <1>0, GoesMoves DEF LeaveRoom, ListType, Steps
<1>5. PICK at \in Steps : Stepped(c, i, at)
  BY HandlerMovement
<1>6. at = "left"
  BY <1>4, <1>5 DEF Stepped, Moved
<1>7. ~ Overtakes(c, i)
  BY <1>0, <1>1, BlameType, CauseType DEF Order, Blameless
<1>8. /\ IsNext(c, i) /\ conn[c] = "up" /\ \A j \in 1 .. Sent(c) : j # i => ~ Enters(c, j)
      /\ Event(c, i) = tasks[c][i].event /\ i \in 1 .. Sent(c) /\ Event(c, i).session = s
      /\ ~ Enters(c, i) /\ Event(c, i).kind = "leave"
  BY <1>1, <1>2, <1>7, <1>a, HandlerPlace DEF At
<1>9. /\ Sent(c)' = Sent(c) /\ \A j \in 1 .. Sent(c) : Event(c, j)' = Event(c, j)
      /\ \A j \in 1 .. Sent(c) : j # i => Kept(c, j)
      /\ ~ Open(c, i)' /\ ~ Enters(c, i)'
  BY <1>0, <1>5, <1>6, <1>8, HandlerKeeps
<1>10. \A j \in 1 .. Sent(c) : ~ Enters(c, j)'
  BY <1>8, <1>9 DEF Kept
<1>11. info[c] \in {NoSession, s} /\ info'[c] = NoSession /\ Target(Event(c, i)) = NoSession
  BY <1>0, <1>3, <1>8 DEF RoomType, Innocent, Chain, Fits, Target
<1>12. InRoom(c)'
  <2>1. \A r \in Sessions : c \in room'[r] <=> c \in room[r] /\ r # s
    BY <1>0, <1>3 DEF RoomType, Rooms
  <2>2. \A r \in Sessions : c \notin room'[r]
    BY <1>11, <2>1, RoomAssumption DEF RoomAssumption, InRoom, Innocent, Chain
  <2> QED
    BY <1>11, <2>2, RoomAssumption DEF RoomAssumption, InRoom
<1>13. Chain(c)' /\ Last(c)' = Last(c)
  BY <1>0, <1>1, <1>8, <1>9, <1>10, <1>11, <1>12, ChainAdvance DEF Innocent
<1> QED
  BY <1>5, <1>8, <1>13, ExpectedStays DEF Innocent, Stepped

LEMMA UnsubscribeRoom ==
  ASSUME TypeOK, NEW c \in Clients, Innocent(c), NEW i \in DOMAIN tasks[c],
         Unsubscribe(c, i) \/ LeaveFails(c, i) \/ UnsubscribeFails(c, i)
  PROVE  Chain(c)' /\ Expected(c)'
<1>0. ListType
  BY TypeParts
<1>1. At(c, i, "leave", "left") /\ UNCHANGED <<room, info>>
  BY DEF Unsubscribe, LeaveFails, UnsubscribeFails
<1>2. Moved(c, i, "done")
  BY <1>0, GoesMoves DEF Unsubscribe, LeaveFails, UnsubscribeFails, Ends, ListType, Steps
<1>3. PICK at \in Steps : Stepped(c, i, at)
  BY HandlerMovement
<1>4. at = "done"
  BY <1>2, <1>3 DEF Stepped, Moved
<1> QED
  BY <1>1, <1>3, <1>4, HandlerSteady DEF At

RoomHyps == TypeOK /\ ShapeInv /\ TurnInv /\ TokenInv /\ WantsInv /\ RoomInv

LEMMA StillInnocent ==
  ASSUME RoomHyps, [Next]_vars, NEW c \in Clients, Blameless(c)'
  PROVE  Innocent(c)
<1>1. causes[c] \subseteq causes'[c] /\ faults \subseteq faults'
  BY Recorded DEF RoomHyps
<1>2. Blameless(c) /\ Free(c)
  BY <1>1 DEF Blameless, Free
<1> QED
  BY <1>1, <1>2 DEF Innocent, RoomHyps, RoomInv, WantsInv, ShapeInv, TurnInv, TokenInv

LEMMA RoomStep == RoomHyps /\ [Next]_vars => RoomInv'
<1> SUFFICES ASSUME RoomHyps, [Next]_vars, NEW c \in Clients, Blameless(c)'
             PROVE  Chain(c)' /\ Expected(c)'
  BY DEF RoomInv
<1>0. TypeOK /\ ListType /\ RoomType
  BY TypeParts DEF RoomHyps
<1>1. Innocent(c)
  BY StillInnocent
<1>2. ASSUME Same(c) PROVE Chain(c)' /\ Expected(c)'
  <2>1. Emits(c, <<>>) /\ Sent(c) \in Nat
    BY <1>0, <1>2, Quiet, SentShape DEF Same
  <2>2. Sent(c)' = Sent(c)
    BY <2>1, EmptySeq DEF Emits
  <2>3. Steady(c)
    BY <1>2, <2>1, <2>2 DEF Emits, Kept, Steady, Same
  <2>4. Chain(c)' /\ Last(c)' = Last(c)
    BY <1>0, <1>1, <2>3, ChainSteady DEF Innocent
  <2> QED
    BY <1>1, <1>2, <2>4, ExpectedStays DEF Innocent, Same
<1>3. ASSUME WindowNext(c) PROVE Chain(c)' /\ Expected(c)'
  BY <1>0, <1>1, <1>3, JoinPage, LeavePage, ConnectPage, ConnectAnewPage, TokenPage, CutPage
     DEF WindowNext
<1>4. ASSUME HandlerNext(c) PROVE Chain(c)' /\ Expected(c)'
  BY <1>0, <1>1, <1>4, ReadRoom, SubscribeRoom, EnterRoomRoom, LeaveRoomRoom, UnsubscribeRoom
     DEF HandlerNext
<1>5. ASSUME NEW d \in Clients, d # c, StepOf(d) PROVE Same(c)
  BY <1>0, <1>5, Apart
<1> QED
  BY <1>2, <1>3, <1>4, <1>5, Idle DEF Next, StepOf


RoomsInv == AccountInv /\ TokenInv /\ WantsInv /\ RoomInv

LEMMA RoomsHold == Spec => []RoomsInv
<1>1. Init => RoomsInv
  BY TypeInit, ShapeInit, TurnInit, BackInit, ListenInit, TokenInit, WantsInit, RoomInit
     DEF AccountInv, RoomsInv
<1>2. RoomsInv /\ [Next]_vars => RoomsInv'
  BY TypeStep, ShapeStep, TurnStep, BackStep, ListenStep, TokenStep, WantsStep, RoomStep
     DEF AccountInv, RoomsInv, RoomHyps
<1> QED
  BY <1>1, <1>2, PTL DEF Spec

\* Nothing that has been emitted is open when everything is done.
LEMMA SettledClosed ==
  ASSUME ListType, NEW c \in Clients, Settled(c)
  PROVE  /\ fetch[c] = <<>> /\ \A i \in 1 .. Sent(c) : ~ Open(c, i) /\ ~ Enters(c, i)
         /\ Last(c) = info[c]
<1>1. fetch[c] = <<>> /\ buffer[c] = <<>>
  <2>1. waiting[c] \in Seq(Sessions) /\ fetch[c] \in Seq(Sessions) /\ waiting[c] \o fetch[c] \in Seq(Sessions)
    BY ConcatProperties DEF ListType, JoinLists
  <2>2. buffer[c] \in Seq(Events)
    BY DEF ListType, EventLists
  <2>3. waiting[c] \o fetch[c] = <<>> /\ buffer[c] = <<>>
    BY <2>1, <2>2, ConcatEqualIffEmpty DEF Settled
  <2> QED
    BY <2>1, <2>3, ConcatEqualIffEmpty
<1>a. PICK n \in Nat : n = Len(tasks[c])
  BY SentShape
<1>2. Sent(c) = n
  <2>1. Len(buffer[c]) = 0 /\ n + 0 = n
    BY <1>1, EmptySeq
  <2> QED
    BY <1>a, <2>1 DEF Sent
<1>3. ASSUME NEW i \in 1 .. n PROVE ~ Open(c, i) /\ ~ Enters(c, i)
  <2>1. i <= n /\ tasks[c][i].at = "done"
    BY <1>a, SentShape DEF Settled
  <2> QED
    BY <1>a, <2>1 DEF Open, Enters, Dealt
<1>4. n > 0 => n \in 1 .. n
  OBVIOUS
<1> QED
  BY <1>1, <1>2, <1>3, <1>4 DEF Last

\* A connected window is in the room of the session it shows and in no other, after any number of
\* visits, lost connections and reconnections of any number of windows, unless it is on record
\* that it left too early, had no token of its own or was served in another order.
THEOREM RoomsMatch == Spec => []InItsRoom
<1>1. RoomsInv => InItsRoom
  <2> SUFFICES ASSUME RoomsInv, NEW c \in Clients, Settled(c), causes[c] \subseteq {"error"}
               PROVE  info[c] = active[c] /\ \A s \in Sessions : c \in room[s] <=> s = active[c]
    BY DEF InItsRoom
  <2>1. ListType
    BY TypeParts DEF RoomsInv, AccountInv
  <2>2. Chain(c) /\ Expected(c)
    BY DEF RoomsInv, RoomInv, Blameless
  <2>3. fetch[c] = <<>> /\ Last(c) = info[c] /\ \A i \in 1 .. Sent(c) : ~ Enters(c, i)
    BY <2>1, SettledClosed
  <2>4. info[c] = active[c]
    BY <2>2, <2>3 DEF Expected, Settled
  <2> QED
    BY <2>2, <2>3, <2>4 DEF Chain, InRoom
<1> QED
  BY <1>1, RoomsHold, PTL

-----------------------------------------------------------------------------
(* Leaving gives back what joining took.                                   *)

Clean == "cut" \notin faults /\ \A c \in Clients : causes[c] = {}

\* Window c has one unit of session s if it is in its room or about to enter, and one for each
\* leave that is about to give it back.
Exact(c, s) ==
  /\ InIt(c, s) => held[c][s] = Leaving(c, s) + 1
  /\ ~ InIt(c, s) => held[c][s] = Leaving(c, s)
Followed(s) == s \in subscribed <=> count[s] # 0
CountInv == Clean => \A s \in Sessions : Followed(s) /\ \A c \in Clients : Exact(c, s)

LEMMA NoLeavers ==
  ASSUME NEW c \in Clients, NEW s, \A i \in DOMAIN tasks[c] : tasks[c][i].at # "left"
  PROVE  Leaving(c, s) = 0
<1>1. Leavers(c, s) = {}
  BY DEF Leavers
<1> QED
  BY <1>1, FS_EmptySet DEF Leaving

LEMMA CountInit == Init => CountInv
<1> SUFFICES ASSUME Init, NEW s \in Sessions
             PROVE  Followed(s) /\ \A c \in Clients : Exact(c, s)
  BY DEF CountInv
<1>1. /\ room[s] = {c \in Clients : active[c] = s} /\ count[s] = Cardinality(room[s])
      /\ s \in subscribed <=> room[s] # {}
      /\ \A c \in Clients : /\ tasks[c] = <<>>
                            /\ held[c][s] = IF active[c] = s THEN 1 ELSE 0
  BY DEF Init
<1>2. Followed(s)
  <2>1. IsFiniteSet(room[s])
    BY <1>1, FS_Subset, RoomAssumption DEF RoomAssumption
  <2> QED
    BY <1>1, <2>1, FS_EmptySet DEF Followed
<1>3. ASSUME NEW c \in Clients PROVE Exact(c, s)
  <2>1. \A i \in DOMAIN tasks[c] : FALSE
    BY <1>1
  <2>2. Leaving(c, s) = 0
    BY <2>1, NoLeavers
  <2>3. InIt(c, s) <=> active[c] = s
    BY <1>1, <2>1 DEF InIt
  <2> QED
    BY <1>1, <2>2, <2>3 DEF Exact
<1> QED
  BY <1>2, <1>3

\* A window is in a room, or about to enter it, after the step if it was before.
LEMMA InItSame ==
  ASSUME ListType, NEW c \in Clients, NEW s, c \in room'[s] <=> c \in room[s],
         \/ tasks'[c] = tasks[c]
         \/ \E events : Added(c, events)
         \/ \E i \in DOMAIN tasks[c], at \in Steps :
              /\ Moved(c, i, at)
              /\ (at # "subscribed" /\ tasks[c][i].at # "subscribed") \/ tasks[c][i].event.session # s
  PROVE  InIt(c, s)' <=> InIt(c, s)
<1>1. CASE tasks'[c] = tasks[c]
  BY <1>1 DEF InIt, Entering
<1>2. ASSUME NEW events, Added(c, events) PROVE InIt(c, s)' <=> InIt(c, s)
  BY <1>2, Arrival DEF InIt, Entering
<1>3. ASSUME NEW i \in DOMAIN tasks[c], NEW at \in Steps, Moved(c, i, at),
             (at # "subscribed" /\ tasks[c][i].at # "subscribed") \/ tasks[c][i].event.session # s
      PROVE  InIt(c, s)' <=> InIt(c, s)
  <2>1. DOMAIN tasks'[c] = DOMAIN tasks[c]
        /\ \A j \in DOMAIN tasks[c] : Entering(c, j, s)' <=> Entering(c, j, s)
    BY <1>3 DEF Entering, Moved
  <2> QED
    BY <1>3, <2>1 DEF InIt
<1> QED
  BY <1>1, <1>2, <1>3

LEMMA ExactStays ==
  ASSUME NEW c \in Clients, NEW s \in Sessions, Exact(c, s), held'[c][s] = held[c][s],
         Leaving(c, s)' = Leaving(c, s), InIt(c, s)' <=> InIt(c, s)
  PROVE  Exact(c, s)'
BY DEF Exact


\* A session is counted if some window has a unit of it.
LEMMA UnitsCount ==
  ASSUME LedgerType, NEW s \in Sessions, Counted(s)
  PROVE  count[s] # 0 <=> \E c \in Clients : held[c][s] # 0
<1>1. count[s] = 0 <=> Units(s) = {}
  BY FS_EmptySet DEF Counted
<1>2. \A c \in Clients : held[c][s] \in Nat
  BY DEF LedgerType, HeldTables
<1>3. ASSUME NEW c \in Clients, held[c][s] # 0 PROVE <<c, 0>> \in Units(s)
  BY <1>2, <1>3 DEF Units
<1>4. ASSUME NEW u \in Units(s) PROVE \E c \in Clients : held[c][s] # 0
  <2>1. u[1] \in Clients /\ u[2] \in Nat /\ u[2] < held[u[1]][s]
    BY DEF Units
  <2>2. held[u[1]][s] # 0
    BY <1>2, <2>1
  <2> QED
    BY <2>1, <2>2
<1> QED
  BY <1>1, <1>3, <1>4

\* A join finds its window in no room, and about to enter none, when no connection was lost.
LEMMA NotThere ==
  ASSUME TypeOK, NEW c \in Clients, Innocent(c), "cut" \notin faults, NEW i \in DOMAIN tasks[c],
         Subscribe(c, i), ~ tasks[c][i].gone, ~ Overtakes(c, i), NEW s \in Sessions
  PROVE  ~ InIt(c, s)
<1>0. ListType
  BY TypeParts
<1>1. At(c, i, "join", "read")
  BY DEF Subscribe
<1>2. /\ IsNext(c, i) /\ \A j \in 1 .. Sent(c) : ~ Enters(c, j)
      /\ i \in 1 .. Sent(c) /\ Event(c, i).kind = "join"
  BY <1>1, HandlerPlace DEF At
<1>3. Fits(info[c], Event(c, i))
  BY <1>2 DEF Innocent, Chain
<1>4. info[c] = NoSession
  BY <1>2, <1>3 DEF Fits
<1>5. c \notin room[s]
  BY <1>4, RoomAssumption DEF Innocent, Chain, InRoom, RoomAssumption
<1>6. ASSUME NEW j \in DOMAIN tasks[c] PROVE ~ Entering(c, j, s)
  <2>1. j \in 1 .. Len(tasks[c]) /\ j <= Len(tasks[c]) /\ j \in 1 .. Sent(c)
    BY <1>0, SentShape, Split DEF Sent
  <2> QED
    BY <1>2, <2>1 DEF Entering, Enters
<1> QED
  BY <1>5, <1>6 DEF InIt


CountHyps == RoomsInv /\ CountInv

LEMMA CountStep == CountHyps /\ [Next]_vars => CountInv'
<1> SUFFICES ASSUME CountHyps, [Next]_vars, Clean', NEW s \in Sessions
             PROVE  Followed(s)' /\ \A d \in Clients : Exact(d, s)'
  BY DEF CountInv
<1> DEFINE Goal == Followed(s)' /\ \A d \in Clients : Exact(d, s)'
<1>0. /\ RoomHyps /\ ListType /\ RoomType /\ LedgerType /\ StreamType
      /\ TypeOK /\ ShapeInv /\ TurnInv /\ BackInv
  BY TypeParts DEF CountHyps, RoomsInv, AccountInv, RoomHyps
<1>1. /\ Clean /\ Followed(s) /\ Counted(s)
      /\ \A d \in Clients : Exact(d, s) /\ Innocent(d) /\ Free(d)' /\ Blameless(d)'
  <2>1. \A d \in Clients : Innocent(d) /\ Free(d)' /\ Blameless(d)'
    BY <1>0, StillInnocent DEF Clean, Blameless, Free
  <2>2. Clean
    BY <1>0, <2>1, Recorded DEF Clean, Innocent
  <2>3. InOrder
    BY <2>1 DEF InOrder, Innocent
  <2> QED
    BY <1>0, <2>1, <2>2, <2>3 DEF CountHyps, CountInv, BackInv
<1>2. ASSUME NEW d \in Clients, Same(d) PROVE Exact(d, s)'
  <2>1. Leaving(d, s)' = Leaving(d, s) /\ (InIt(d, s)' <=> InIt(d, s))
    BY <1>0, <1>2, LeavingStays, InItSame DEF Same
  <2> QED
    BY <1>1, <1>2, <2>1, ExactStays DEF Same
<1>3. ASSUME NEW c \in Clients, StepOf(c), Followed(s)', Exact(c, s)' PROVE Goal
  BY <1>0, <1>2, <1>3, Apart
<1>4. ASSUME NEW c \in Clients, WindowNext(c) PROVE Goal
  <2>1. ~ Cut(c)
    BY <1>0 DEF Cut, Clean
  <2>2. held' = held /\ count' = count /\ subscribed' = subscribed /\ room' = room /\ StepOf(c)
    BY <1>4, <2>1 DEF WindowNext, JoinSession, LeaveSession, Connect, ConnectAnew, Up, Token, stream, StepOf
  <2>3. tasks'[c] = tasks[c] \/ (\E events : Added(c, events))
    BY <1>0, <1>4, <2>1, WindowMovement DEF WindowMove
  <2>4. Leaving(c, s)' = Leaving(c, s) /\ (InIt(c, s)' <=> InIt(c, s))
    BY <1>0, <2>2, <2>3, LeavingStays, InItSame
  <2> QED
    BY <1>1, <1>3, <2>2, <2>4, ExactStays DEF Followed
<1>5. ASSUME NEW c \in Clients, NEW i \in DOMAIN tasks[c], ReadToken(c, i) PROVE Goal
  <2>1. held' = held /\ count' = count /\ subscribed' = subscribed /\ room' = room /\ StepOf(c)
    BY <1>5 DEF ReadToken, stream, StepOf, HandlerNext
  <2>2. tasks[c][i].at = "new" /\ (Moved(c, i, "read") \/ Moved(c, i, "done"))
    BY <1>0, <1>5, GoesMoves DEF ReadToken, Ends, At, ListType, Steps
  <2>3. Leaving(c, s)' = Leaving(c, s) /\ (InIt(c, s)' <=> InIt(c, s))
    BY <1>0, <2>1, <2>2, LeavingStays, InItSame DEF Steps
  <2> QED
    BY <1>1, <1>3, <2>1, <2>3, ExactStays DEF Followed
<1>6. ASSUME NEW c \in Clients, NEW i \in DOMAIN tasks[c], EnterRoom(c, i) PROVE Goal
  <2>1. held' = held /\ count' = count /\ subscribed' = subscribed /\ StepOf(c)
    BY <1>6 DEF EnterRoom, stream, StepOf, HandlerNext
  <2>2. tasks[c][i].at = "subscribed" /\ Moved(c, i, "done") /\ ~ tasks[c][i].gone
    BY <1>0, <1>1, <1>6, GoesMoves DEF EnterRoom, Ends, At, ListType, Steps, Clean, Innocent, Shape
  <2>3. Leaving(c, s)' = Leaving(c, s)
    BY <1>0, <2>2, LeavingStays DEF Steps
  <2>4. CASE s = tasks[c][i].event.session
    <3>1. c \in room'[s]
      BY <1>0, <1>6, <2>2, <2>4 DEF EnterRoom, RoomType, Rooms
    <3>2. InIt(c, s)' /\ InIt(c, s)
      BY <2>2, <2>4, <3>1 DEF InIt, Entering
    <3> QED
      BY <1>1, <1>3, <2>1, <2>3, <3>2, ExactStays DEF Followed
  <2>5. CASE s # tasks[c][i].event.session
    <3>1. c \in room'[s] <=> c \in room[s]
      BY <1>0, <1>6, <2>5 DEF EnterRoom, RoomType, Rooms
    <3>2. InIt(c, s)' <=> InIt(c, s)
      BY <1>0, <2>2, <2>5, <3>1, InItSame DEF Steps
    <3> QED
      BY <1>1, <1>3, <2>1, <2>3, <3>2, ExactStays DEF Followed
  <2> QED
    BY <2>4, <2>5
<1>7. ASSUME NEW c \in Clients, NEW i \in DOMAIN tasks[c], Subscribe(c, i) PROVE Goal
  <2>a. PICK r \in Sessions : r = tasks[c][i].event.session
    BY <1>0, TaskShape DEF ListType
  <2>1. tasks[c][i].at = "read" /\ ~ tasks[c][i].gone
    BY <1>1, <1>7 DEF Subscribe, At, Clean, Innocent, Shape
  <2>2. /\ held' = [held EXCEPT ![c][r] = @ + 1] /\ count' = [count EXCEPT ![r] = @ + 1]
        /\ room' = room /\ StepOf(c)
    BY <1>7, <2>a DEF Subscribe, StepOf, HandlerNext
  <2>3. Goes(c, i, "subscribed") /\ subscribed' = subscribed \cup {r} /\ Blame(c, Order(c, i))
    <3>1. ASSUME Blame(c, Order(c, i) \cup {"refused"}) PROVE FALSE
      BY <1>0, <1>1, <3>1, BlameType, CauseType DEF Blameless
    <3> QED
      BY <1>7, <2>a, <3>1 DEF Subscribe
  <2>4. Moved(c, i, "subscribed") /\ ~ Overtakes(c, i)
    BY <1>0, <1>1, <2>3, GoesMoves, BlameType, CauseType DEF Order, Blameless, ListType, Steps
  <2>5. Leaving(c, s)' = Leaving(c, s) /\ Leaving(c, s) \in Nat
    BY <1>0, <2>1, <2>4, LeavingStays, LeaversFinite DEF Steps
  <2>6. CASE s # r
    <3>1. held'[c][s] = held[c][s] /\ count'[s] = count[s]
      BY <1>0, <2>2, <2>6 DEF LedgerType, HeldTables, StreamType
    <3>2. InIt(c, s)' <=> InIt(c, s)
      BY <1>0, <2>a, <2>2, <2>4, <2>6, InItSame DEF Steps
    <3> QED
      BY <1>1, <1>3, <2>2, <2>3, <2>5, <2>6, <3>1, <3>2, ExactStays DEF Followed
  <2>7. CASE s = r
    <3>1. held'[c][s] = held[c][s] + 1 /\ count'[s] = count[s] + 1 /\ count[s] \in Nat
      BY <1>0, <2>2, <2>7 DEF LedgerType, HeldTables, StreamType
    <3>2. Followed(s)'
      BY <2>3, <2>7, <3>1 DEF Followed
    <3>3. InIt(c, s)'
      BY <2>a, <2>1, <2>4, <2>7 DEF InIt, Entering, Moved
    <3>4. ~ InIt(c, s)
      BY <1>0, <1>1, <1>7, <2>a, <2>1, <2>4, <2>7, NotThere DEF Clean
    <3>5. Exact(c, s)'
      BY <1>1, <2>5, <3>1, <3>3, <3>4 DEF Exact
    <3> QED
      BY <1>3, <2>2, <3>2, <3>5
  <2> QED
    BY <2>6, <2>7
<1>8. ASSUME NEW c \in Clients, NEW i \in DOMAIN tasks[c], LeaveRoom(c, i) PROVE Goal
  <2>1. held' = held /\ count' = count /\ subscribed' = subscribed /\ StepOf(c)
    BY <1>8 DEF LeaveRoom, stream, StepOf, HandlerNext
  <2>2. tasks[c][i].at = "new" /\ Moved(c, i, "left")
    BY <1>0, <1>8, GoesMoves DEF LeaveRoom, At, ListType, Steps
  <2>3. Leaving(c, s) \in Nat /\ held[c][s] \in Nat
    BY <1>0, LeaversFinite DEF LedgerType, HeldTables
  <2>4. CASE s # tasks[c][i].event.session
    <3>1. Leaving(c, s)' = Leaving(c, s)
      BY <1>0, <2>2, <2>4, LeavingStays DEF Steps
    <3>2. c \in room'[s] <=> c \in room[s]
      BY <1>0, <1>8, <2>4 DEF LeaveRoom, RoomType, Rooms
    <3>3. InIt(c, s)' <=> InIt(c, s)
      BY <1>0, <2>2, <3>2, InItSame DEF Steps
    <3> QED
      BY <1>1, <1>3, <2>1, <3>1, <3>3, ExactStays DEF Followed
  <2>5. CASE s = tasks[c][i].event.session
    <3>1. Leaving(c, s)' = Leaving(c, s) + 1
      BY <1>0, <2>2, <2>5, LeavingStarts
    <3>2. ~ InIt(c, s)' /\ Leaving(c, s) < held[c][s]
      BY <1>0, <1>1, <1>8, <2>5, LeaveIsFirst
    <3>3. held[c][s] = Leaving(c, s) + 1
      BY <1>1, <2>3, <3>2 DEF Exact
    <3>4. Exact(c, s)'
      BY <2>1, <3>1, <3>2, <3>3 DEF Exact
    <3> QED
      BY <1>1, <1>3, <2>1, <3>4 DEF Followed
  <2> QED
    BY <2>4, <2>5
<1>9. ASSUME NEW c \in Clients, NEW i \in DOMAIN tasks[c], Unsubscribe(c, i) \/ UnsubscribeFails(c, i)
      PROVE  Goal
  <2>a. PICK r \in Sessions : r = tasks[c][i].event.session
    BY <1>0, TaskShape DEF ListType
  <2>1. room' = room /\ StepOf(c)
    BY <1>9 DEF Unsubscribe, UnsubscribeFails, StepOf, HandlerNext
  <2>2. tasks[c][i].at = "left" /\ Moved(c, i, "done")
    BY <1>0, <1>9, GoesMoves DEF Unsubscribe, UnsubscribeFails, Ends, At, ListType, Steps
  <2>3. Leaving(c, s) \in Nat /\ held[c][s] \in Nat /\ (InIt(c, s)' <=> InIt(c, s))
    BY <1>0, <2>1, <2>2, LeaversFinite, InItSame DEF LedgerType, HeldTables, Steps
  <2>4. \/ count[r] = 0 /\ UNCHANGED <<count, subscribed, held>>
        \/ /\ count[r] # 0 /\ count' = [count EXCEPT ![r] = @ - 1]
           /\ subscribed' = Remaining(r)
           /\ held' = [held EXCEPT ![c][r] = IF @ = 0 THEN 0 ELSE @ - 1]
    <3>1. CASE Unsubscribe(c, i)
      BY <2>a, <3>1 DEF Unsubscribe, stream
    <3>2. CASE UnsubscribeFails(c, i)
      <4> DEFINE what == (IF held[c][r] = 0 THEN {"order"} ELSE {})
                           \cup (IF count[r] = 1 THEN {"error"} ELSE {})
      <4>1. /\ count[r] # 0 /\ count' = [count EXCEPT ![r] = @ - 1] /\ subscribed' = subscribed
            /\ held' = [held EXCEPT ![c][r] = IF @ = 0 THEN 0 ELSE @ - 1]
            /\ Blame(c, what)
        BY <2>a, <3>2 DEF UnsubscribeFails
      <4>2. what \in SUBSET {"refused", "order", "error"} /\ (count[r] = 1 => "error" \in what)
        OBVIOUS
      <4> HIDE DEF what
      <4>3. count[r] # 1
        BY <1>0, <4>1, <4>2, BlameType DEF Clean
      <4>4. ~ count[r] <= 1
        BY <1>0, <4>1, <4>3 DEF StreamType
      <4> QED
        BY <4>1, <4>4 DEF Remaining
    <3> QED
      BY <1>9, <3>1, <3>2
  <2>5. s # r => Leaving(c, s)' = Leaving(c, s)
    BY <1>0, <2>a, <2>2, LeavingStays DEF Steps
  <2>6. s = r => Leaving(c, s)' = Leaving(c, s) - 1 /\ Leaving(c, s) > 0
    BY <1>0, <2>a, <2>2, LeavingEnds
  <2>7. CASE s # r
    <3>1. count'[s] = count[s] /\ held'[c][s] = held[c][s] /\ (s \in subscribed' <=> s \in subscribed)
      BY <1>0, <2>4, <2>7 DEF LedgerType, HeldTables, StreamType, Remaining
    <3> QED
      BY <1>1, <1>3, <2>1, <2>3, <2>5, <2>7, <3>1, ExactStays DEF Followed
  <2>8. CASE s = r
    <3>1. held[c][s] # 0 /\ held[c][s] \in Nat
      BY <1>1, <2>3, <2>6, <2>8 DEF Exact
    <3>2. count[s] # 0
      BY <1>0, <1>1, <3>1, UnitsCount
    <3>3. /\ count'[s] = count[s] - 1 /\ count[s] \in Nat /\ held'[c][s] = held[c][s] - 1
          /\ subscribed' = Remaining(s)
      BY <1>0, <2>4, <2>8, <3>1, <3>2 DEF LedgerType, HeldTables, StreamType
    <3>4. s \in subscribed' <=> count[s] > 1
      BY <1>1, <3>2, <3>3 DEF Remaining, Followed
    <3>5. Followed(s)'
      BY <3>2, <3>3, <3>4 DEF Followed
    <3>6. Exact(c, s)'
      BY <1>1, <2>3, <2>6, <2>8, <3>3 DEF Exact
    <3> QED
      BY <1>3, <2>1, <3>5, <3>6
  <2> QED
    BY <2>7, <2>8
<1>a. ASSUME NEW c \in Clients, NEW i \in DOMAIN tasks[c], LeaveFails(c, i) PROVE Goal
  BY <1>0, <1>a, BlameType, CauseType DEF LeaveFails, Clean
<1>10. ASSUME ListenerFails \/ UNCHANGED vars PROVE Goal
  <2>1. count' = count /\ subscribed' = subscribed
    BY <1>10 DEF ListenerFails, vars, stream
  <2> QED
    BY <1>1, <1>2, <1>10, <2>1, Idle DEF Followed
<1> HIDE DEF Goal
<1> SUFFICES Goal
  BY DEF Goal
<1> QED
  BY <1>4, <1>5, <1>6, <1>7, <1>8, <1>9, <1>a, <1>10 DEF Next, HandlerNext


LEMMA CountsHold == Spec => []CountHyps
<1>1. Init => CountInv
  BY CountInit
<1>2. RoomsInv /\ CountInv /\ [Next]_vars => CountInv'
  BY CountStep DEF CountHyps
<1>3. RoomsInv /\ CountInv => CountHyps
  BY DEF CountHyps
<1> QED
  BY <1>1, <1>2, <1>3, RoomsHold, PTL DEF Spec

\* When everything is done and no connection was lost, the worker listens to the streams of the
\* sessions that have a window in their room and to no other, however many windows came and went:
\* unsubscribe_session() has given back what subscribe_session() counted.
THEOREM LeavingGivesBack == Spec => []SubscriptionEnds
<1>1. CountHyps => SubscriptionEnds
  <2> SUFFICES ASSUME CountHyps, "cut" \notin faults,
                      \A c \in Clients : Settled(c) /\ causes[c] = {},
                      NEW s \in Sessions
               PROVE  s \in subscribed <=> room[s] # {}
    <3>1. CountHyps => subscribed \subseteq Sessions
      BY TypeParts DEF CountHyps, RoomsInv, AccountInv, StreamType
    <3> QED
      BY <3>1 DEF SubscriptionEnds
  <2>0. ListType /\ LedgerType /\ RoomType /\ BackInv
    BY TypeParts DEF CountHyps, RoomsInv, AccountInv
  <2>1. Followed(s) /\ \A c \in Clients : Exact(c, s)
    BY DEF CountHyps, CountInv, Clean, Blameless
  <2>2. Counted(s)
    BY <2>0 DEF BackInv, InOrder, Free
  <2>3. ASSUME NEW c \in Clients PROVE held[c][s] # 0 <=> c \in room[s]
    <3>1. \A i \in DOMAIN tasks[c] : tasks[c][i].at = "done"
      BY DEF Settled
    <3>2. Leaving(c, s) = 0
      BY <3>1, NoLeavers
    <3>3. InIt(c, s) <=> c \in room[s]
      BY <3>1 DEF InIt, Entering
    <3> QED
      BY <2>1, <3>2, <3>3 DEF Exact
  <2>4. \A c \in room[s] : c \in Clients
    BY <2>0 DEF RoomType, Rooms
  <2> QED
    BY <2>0, <2>1, <2>2, <2>3, <2>4, UnitsCount DEF Followed
<1> QED
  BY <1>1, CountsHold, PTL

=============================================================================
