--------------------------- MODULE Approvals_proofs ---------------------------
(***************************************************************************)
(* Nothing runs without consent, for any number of agents, calls, clients  *)
(* and answers.                                                            *)
(***************************************************************************)
EXTENDS Approvals, SequenceTheorems, TLAPS

-----------------------------------------------------------------------------
(* Types.                                                                  *)

LEMMA NoCommandIsNone == NoCommand \notin Commands
BY ApprovalsAssumption DEF ApprovalsAssumption, NoCommand

LEMMA CallMoves ==
  ASSUME NEW k \in Callings,
         NEW at \in {"new", "waiting", "ran", "denied", "blocked", "dead"},
         NEW e \in Executors, NEW cmd \in Commands \cup {NoCommand}, NEW b \in BOOLEAN
  PROVE  /\ [k EXCEPT !.at = at] \in Callings
         /\ [at |-> at, by |-> e, cmd |-> cmd, asked |-> b] \in Callings
BY DEF Callings

\* A call's record keeps its type when only its stage changes.
LEMMA CallAt ==
  ASSUME TypeOK, NEW c \in Calls
  PROVE  /\ call[c].cmd \in Commands \cup {NoCommand}
         /\ \A at \in {"ran", "denied", "dead"} :
              [call[c] EXCEPT !.at = at] \in Callings
<1>1. call[c] \in Callings
  BY DEF TypeOK
<1>2. call[c].cmd \in Commands \cup {NoCommand}
  BY <1>1 DEF Callings
<1>3. ASSUME NEW at \in {"ran", "denied", "dead"}
      PROVE  [call[c] EXCEPT !.at = at] \in Callings
  BY <1>1, CallMoves DEF Callings
<1> QED
  BY <1>2, <1>3

\* A handler that is not idle carries a response.
LEMMA HandlerType ==
  ASSUME TypeOK, NEW u \in Clients, handler[u].at # "idle"
  PROVE  /\ handler[u] \in Handlings
         /\ handler[u].response \in Responses
         /\ handler[u].response.call \in Calls
         /\ handler[u].response.answer \in Answers
BY DEF TypeOK, Idle, Handlings, Responses

LEMMA TypeInit == Init => TypeOK
<1> SUFFICES ASSUME Init PROVE TypeOK
  OBVIOUS
<1>1. (CHOOSE e \in Executors : TRUE) \in Executors
  BY ApprovalsAssumption DEF ApprovalsAssumption
<1>2. call \in [Calls -> Callings]
  BY <1>1, CallMoves DEF Init, Callings
<1>3. saved \in [Executors -> SUBSET Stores]
  BY DEF Init
<1>4. bus \in [Executors -> Seq(Responses)]
  <2>1. <<>> \in Seq(Responses)
    BY EmptySeq
  <2> QED
    BY <2>1 DEF Init
<1> QED
  BY <1>2, <1>3, <1>4 DEF Init, TypeOK

LEMMA TypeStep == TypeOK /\ [Next]_vars => TypeOK'
<1> SUFFICES ASSUME TypeOK, [Next]_vars PROVE TypeOK'
  OBVIOUS
<1> USE DEF TypeOK
<1>1. ASSUME NEW c \in Calls, NEW e \in Executors, NEW m \in Modes, NEW kind \in Kinds,
             NEW cmd \in Commands \cup {NoCommand}, Execute(c, e, m, kind, cmd)
      PROVE  TypeOK'
  <2> DEFINE asks == NeedsApproval(e, m, kind, cmd)
             at == IF Blocked(m, kind) THEN "blocked" ELSE IF asks THEN "waiting" ELSE "ran"
  <2>1. asks \in BOOLEAN /\ at \in {"blocked", "waiting", "ran"}
    BY DEF NeedsApproval
  <2>2. [at |-> at, by |-> e, cmd |-> cmd, asked |-> asks] \in Callings
    BY <2>1 DEF Callings
  <2>3. call' = [call EXCEPT ![c] = [at |-> at, by |-> e, cmd |-> cmd, asked |-> asks]]
    BY <1>1 DEF Execute
  <2>4. call' \in [Calls -> Callings]
    BY <2>2, <2>3
  <2>5. registered' \subseteq Calls /\ post' \subseteq Calls
    BY <1>1 DEF Execute
  <2> QED
    BY <1>1, <2>4, <2>5 DEF Execute
<1>2. ASSUME NEW e \in Executors, NEW list \in Stores, SaveAllowlist(e, list) PROVE TypeOK'
  BY <1>2 DEF SaveAllowlist
<1>3. ASSUME NEW c \in Calls, Resume(c) PROVE TypeOK'
  <2>1. \A at \in {"ran", "denied"} : [call[c] EXCEPT !.at = at] \in Callings
    BY CallAt
  <2>2. call' \in [Calls -> Callings]
    BY <1>3, <2>1 DEF Resume
  <2>3. call[c].cmd \in Commands \cup {NoCommand}
    BY CallAt
  <2>4. allowlist' \in [Executors -> SUBSET Commands]
    BY <1>3, <2>3 DEF Resume
  <2> QED
    BY <1>3, <2>2, <2>4 DEF Resume
<1>4. ASSUME NEW c \in Calls, Timeout(c) PROVE TypeOK'
  <2>1. [call[c] EXCEPT !.at = "denied"] \in Callings
    BY CallAt
  <2>2. call' \in [Calls -> Callings]
    BY <1>4, <2>1 DEF Timeout
  <2>3. registered' \subseteq Calls /\ decision' \in [Calls -> Answers \cup {"none"}]
    BY <1>4 DEF Timeout
  <2> QED
    BY <1>4, <2>2, <2>3 DEF Timeout
<1>5. ASSUME NEW c \in Calls, CreateRequest(c) \/ LoseRequest(c) PROVE TypeOK'
  <2>1. post' \subseteq Calls
    BY <1>5 DEF CreateRequest, LoseRequest
  <2>2. row' \in [Calls -> {"none", "pending", "approved", "rejected"}]
    BY <1>5 DEF CreateRequest, LoseRequest
  <2>3. open' \in [Clients -> SUBSET Calls]
    BY <1>5 DEF CreateRequest, LoseRequest
  <2> QED
    BY <1>5, <2>1, <2>2, <2>3 DEF CreateRequest, LoseRequest
<1>6. ASSUME NEW e \in Executors, NEW list \in Stores, StartTask(e, list) PROVE TypeOK'
  <2>1. list \subseteq Commands
    BY ApprovalsAssumption DEF ApprovalsAssumption
  <2>2. allowlist' \in [Executors -> SUBSET Commands]
    BY <1>6, <2>1 DEF StartTask
  <2>3. built' \subseteq Executors
    BY <1>6 DEF StartTask
  <2> QED
    BY <1>6, <2>2, <2>3 DEF StartTask
<1>7. ASSUME NEW e \in Executors, Crash(e) PROVE TypeOK'
  <2>1. \A c \in Calls : [call[c] EXCEPT !.at = "dead"] \in Callings
    BY CallAt
  <2>2. call' \in [Calls -> Callings]
    BY <1>7, <2>1 DEF Crash
  <2>3. <<>> \in Seq(Responses)
    BY EmptySeq
  <2>4. bus' \in [Executors -> Seq(Responses)]
    BY <1>7, <2>3 DEF Crash
  <2>5. built' \subseteq Executors /\ allowlist' \in [Executors -> SUBSET Commands]
    BY <1>7 DEF Crash
  <2> QED
    BY <1>7, <2>2, <2>4, <2>5 DEF Crash
<1>8. ASSUME NEW e \in Executors, Deliver(e) PROVE TypeOK'
  <2>1. Head(bus[e]) \in Responses /\ Tail(bus[e]) \in Seq(Responses)
    BY <1>8, HeadTailProperties DEF Deliver
  <2>2. bus' \in [Executors -> Seq(Responses)]
    BY <1>8, <2>1 DEF Deliver
  <2>3. Head(bus[e]).answer \in Answers
    BY <2>1 DEF Responses
  <2>4. registered' \subseteq Calls /\ decision' \in [Calls -> Answers \cup {"none"}]
    BY <1>8, <2>3 DEF Deliver
  <2> QED
    BY <1>8, <2>2, <2>4 DEF Deliver
<1>9. ASSUME NEW e \in Executors, ForceStop(e) PROVE TypeOK'
  BY <1>9 DEF ForceStop
<1>10. ASSUME NEW u \in Clients, NEW c \in Calls, NEW a \in Answers, Respond(u, c, a)
       PROVE  TypeOK'
  <2>1. handler' \in [Clients -> Handlings \cup {Idle}]
    <3>1. [at |-> "update", response |-> [call |-> c, answer |-> a]] \in Handlings
      BY DEF Handlings, Responses
    <3> QED
      BY <1>10, <3>1 DEF Respond
  <2>2. given' \in Nat
    BY <1>10 DEF Respond
  <2> QED
    BY <1>10, <2>1, <2>2 DEF Respond
<1>11. ASSUME NEW u \in Clients, UpdateRow(u) PROVE TypeOK'
  <2>1. [handler[u] EXCEPT !.at = "publish"] \in Handlings
    BY <1>11, HandlerType DEF UpdateRow, Handlings
  <2>2. handler' \in [Clients -> Handlings \cup {Idle}]
    BY <1>11, <2>1 DEF UpdateRow
  <2>3. row' \in [Calls -> {"none", "pending", "approved", "rejected"}]
    BY <1>11 DEF UpdateRow
  <2> QED
    BY <1>11, <2>2, <2>3 DEF UpdateRow
<1>12. ASSUME NEW u \in Clients, NEW reached \in SUBSET Executors, Publish(u, reached)
       PROVE  TypeOK'
  <2>1. handler[u].response \in Responses
    BY <1>12, HandlerType DEF Publish
  <2>2. \A e \in Executors : Append(bus[e], handler[u].response) \in Seq(Responses)
    BY <2>1, AppendProperties
  <2>3. bus' \in [Executors -> Seq(Responses)]
    BY <1>12, <2>2 DEF Publish
  <2> QED
    BY <1>12, <2>3 DEF Publish
<1>13. CASE UNCHANGED vars
  BY <1>13 DEF vars
<1> QED
  BY <1>1, <1>2, <1>3, <1>4, <1>5, <1>6, <1>7, <1>8, <1>9, <1>10, <1>11, <1>12, <1>13
  DEF Next

\* Calls, rows, handlers and responses are always what TypeOK says.
THEOREM TypeCorrect == Spec => []TypeOK
BY TypeInit, TypeStep, PTL DEF Spec

-----------------------------------------------------------------------------
(* Consent.                                                                *)

\* A call that was not made has nothing that could decide it.
NewIsBlank ==
  \A c \in Calls : call[c].at = "new" => decision[c] = "none" /\ call[c].cmd = NoCommand

\* A future keeps its result only while its call waits for it.
DecidedCallsWait == \A c \in Calls : decision[c] # "none" => call[c].at = "waiting"

\* Whatever is handled, on its way or set as a result was answered to that call.
DecisionsWereGiven == \A c \in Calls : decision[c] # "none" => decision[c] \in answers[c]

HandledWereGiven ==
  \A u \in Clients : handler[u].at # "idle" =>
    handler[u].response.answer \in answers[handler[u].response.call]

SentWereGiven ==
  \A e \in Executors : \A i \in 1 .. Len(bus[e]) : bus[e][i].answer \in answers[bus[e][i].call]

ConsentInv ==
  /\ TypeOK /\ NewIsBlank /\ RegistryIsExact /\ DecidedCallsWait
  /\ DecisionsWereGiven /\ HandledWereGiven /\ SentWereGiven
  /\ RunsByConsent /\ RowByAnswer /\ AllowlistByConsent

\* A response that is sent was answered.
LEMMA HeadWasGiven ==
  ASSUME TypeOK, SentWereGiven, NEW e \in Executors, bus[e] # <<>>
  PROVE  /\ Head(bus[e]) \in Responses
         /\ Head(bus[e]).call \in Calls
         /\ Head(bus[e]).answer \in answers[Head(bus[e]).call]
         /\ \A i \in 1 .. Len(Tail(bus[e])) :
              Tail(bus[e])[i].answer \in answers[Tail(bus[e])[i].call]
<1>1. bus[e] \in Seq(Responses)
  BY DEF TypeOK
<1>2. /\ Head(bus[e]) \in Responses /\ Len(bus[e]) \in Nat /\ Len(bus[e]) # 0
      /\ Head(bus[e]) = bus[e][1]
      /\ Len(Tail(bus[e])) = Len(bus[e]) - 1
      /\ \A i \in 1 .. Len(Tail(bus[e])) : Tail(bus[e])[i] = bus[e][i + 1]
  BY <1>1, HeadTailProperties, EmptySeq
<1>3. 1 \in 1 .. Len(bus[e])
  BY <1>2
<1>4. \A i \in 1 .. Len(Tail(bus[e])) : i + 1 \in 1 .. Len(bus[e])
  BY <1>2
<1> QED
  BY <1>2, <1>3, <1>4 DEF SentWereGiven, Responses

LEMMA ConsentInit == Init => ConsentInv
<1> SUFFICES ASSUME Init PROVE ConsentInv
  OBVIOUS
<1>1. TypeOK
  BY TypeInit
<1>2. NewIsBlank /\ RegistryIsExact /\ DecidedCallsWait /\ DecisionsWereGiven
  BY DEF Init, NewIsBlank, RegistryIsExact, DecidedCallsWait, DecisionsWereGiven
<1>3. HandledWereGiven
  BY DEF Init, HandledWereGiven, Idle
<1>4. SentWereGiven
  <2>1. \A e \in Executors : bus[e] = <<>>
    BY DEF Init
  <2>2. Len(<<>>) = 0
    BY EmptySeq
  <2> QED
    BY <2>1, <2>2 DEF SentWereGiven
<1>5. RunsByConsent /\ RowByAnswer /\ AllowlistByConsent
  BY DEF Init, RunsByConsent, RowByAnswer, AllowlistByConsent
<1> QED
  BY <1>1, <1>2, <1>3, <1>4, <1>5 DEF ConsentInv

\* The registry and the futures go together.
LEMMA RegistryStep ==
  ConsentInv /\ [Next]_vars => (NewIsBlank /\ RegistryIsExact /\ DecidedCallsWait)'
<1> SUFFICES ASSUME ConsentInv, [Next]_vars
             PROVE  (NewIsBlank /\ RegistryIsExact /\ DecidedCallsWait)'
  OBVIOUS
<1> DEFINE Goal == (NewIsBlank /\ RegistryIsExact /\ DecidedCallsWait)'
<1> SUFFICES Goal
  OBVIOUS
<1>0. /\ NewIsBlank /\ RegistryIsExact /\ DecidedCallsWait
      /\ call \in [Calls -> Callings] /\ decision \in [Calls -> Answers \cup {"none"}]
      /\ registered \subseteq Calls
  BY DEF ConsentInv, TypeOK
<1> USE <1>0 DEF NewIsBlank, RegistryIsExact, DecidedCallsWait
<1>1. ASSUME NEW c \in Calls, NEW e \in Executors, NEW m \in Modes, NEW kind \in Kinds,
             NEW cmd \in Commands \cup {NoCommand}, Execute(c, e, m, kind, cmd)
      PROVE  Goal
  <2>1. call'[c].at # "new" /\ \A d \in Calls \ {c} : call'[d] = call[d]
    BY <1>1 DEF Execute
  <2>2. call[c].at = "new" /\ decision[c] = "none" /\ decision' = decision
    BY <1>1 DEF Execute
  <2>3. CASE NeedsApproval(e, m, kind, cmd)
    <3>1. ~Blocked(m, kind)
      BY <2>3 DEF NeedsApproval, Blocked
    <3>2. call'[c].at = "waiting" /\ registered' = registered \cup {c}
      BY <1>1, <2>3, <3>1 DEF Execute
    <3> QED
      BY <2>1, <2>2, <3>2
  <2>4. CASE ~NeedsApproval(e, m, kind, cmd)
    <3>1. call'[c].at \in {"blocked", "ran"} /\ registered' = registered
      BY <1>1, <2>4 DEF Execute
    <3> QED
      BY <2>1, <2>2, <3>1
  <2> QED
    BY <2>3, <2>4
<1>3. ASSUME NEW c \in Calls, Resume(c) PROVE Goal
  <2>1. call'[c].at \in {"ran", "denied"} /\ call[c].at = "waiting" /\ decision[c] # "none"
    BY <1>3 DEF Resume, Callings
  <2>2. \A d \in Calls \ {c} : call'[d] = call[d] /\ decision'[d] = decision[d]
    BY <1>3 DEF Resume
  <2>3. decision'[c] = "none" /\ registered' = registered
    BY <1>3 DEF Resume
  <2> QED
    BY <2>1, <2>2, <2>3
<1>4. ASSUME NEW c \in Calls, Timeout(c) PROVE Goal
  <2>1. call'[c].at = "denied" /\ call[c].at = "waiting" /\ decision'[c] = "none"
    BY <1>4 DEF Timeout, Callings
  <2>2. \A d \in Calls \ {c} : call'[d] = call[d] /\ decision'[d] = decision[d]
    BY <1>4 DEF Timeout
  <2>3. registered' = registered \ {c}
    BY <1>4 DEF Timeout
  <2> QED
    BY <2>1, <2>2, <2>3
<1>5. ASSUME NEW e \in Executors, Crash(e) PROVE Goal
  <2> DEFINE lost == {c \in Calls : call[c].by = e /\ call[c].at = "waiting"}
  <2>1. \A c \in lost : call'[c].at = "dead" /\ decision'[c] = "none"
    BY <1>5 DEF Crash, Callings
  <2>2. \A c \in Calls \ lost : call'[c] = call[c] /\ decision'[c] = decision[c]
    BY <1>5 DEF Crash
  <2>3. registered' = registered \ lost
    BY <1>5 DEF Crash
  <2> QED
    BY <2>1, <2>2, <2>3
<1>6. ASSUME NEW e \in Executors, Deliver(e) PROVE Goal
  <2> DEFINE m == Head(bus[e])
             mine == m.call \in registered /\ call[m.call].by = e
  <2>1. m.answer \in Answers
    BY <1>6, HeadWasGiven DEF ConsentInv, Deliver, Responses
  <2>2. m.answer # "none" /\ call' = call
    BY <1>6, <2>1 DEF Deliver, Answers
  <2>3. CASE mine
    <3>1. m.call \in Calls /\ registered' = registered \ {m.call}
      BY <1>6, <2>3 DEF Deliver
    <3>2. decision' = [decision EXCEPT ![m.call] = m.answer]
      BY <1>6, <2>3 DEF Deliver
    <3>3. decision'[m.call] # "none" /\ \A d \in Calls \ {m.call} : decision'[d] = decision[d]
      BY <2>2, <3>1, <3>2
    <3>4. call[m.call].at = "waiting"
      BY <2>3
    <3> QED
      BY <2>2, <3>1, <3>3, <3>4
  <2>4. CASE ~mine
    <3>1. registered' = registered /\ decision' = decision
      BY <1>6, <2>4 DEF Deliver
    <3> QED
      BY <2>2, <3>1
  <2> QED
    BY <2>3, <2>4
<1>7. ASSUME UNCHANGED <<call, registered, decision>> PROVE Goal
  BY <1>7
<1> HIDE DEF Goal
<1>8. ASSUME NEW c \in Calls, CreateRequest(c) \/ LoseRequest(c) PROVE Goal
  BY <1>7, <1>8 DEF CreateRequest, LoseRequest
<1>9. ASSUME NEW e \in Executors, ForceStop(e) PROVE Goal
  BY <1>7, <1>9 DEF ForceStop
<1>2. ASSUME NEW e \in Executors, NEW list \in Stores,
             SaveAllowlist(e, list) \/ StartTask(e, list)
      PROVE  Goal
  BY <1>2, <1>7 DEF SaveAllowlist, StartTask
<1>10. ASSUME NEW u \in Clients, UpdateRow(u) PROVE Goal
  BY <1>7, <1>10 DEF UpdateRow
<1>11. ASSUME NEW u \in Clients, NEW c \in Calls, NEW a \in Answers, Respond(u, c, a) PROVE Goal
  BY <1>7, <1>11 DEF Respond
<1>12. ASSUME NEW u \in Clients, NEW reached \in SUBSET Executors, Publish(u, reached) PROVE Goal
  BY <1>7, <1>12 DEF Publish
<1>13. CASE UNCHANGED vars
  BY <1>7, <1>13 DEF vars
<1> QED
  BY <1>1, <1>2, <1>3, <1>4, <1>5, <1>6, <1>8, <1>9, <1>10, <1>11, <1>12, <1>13 DEF Next

\* An answer keeps its call from the client to the future.
LEMMA AnswersStep ==
  ConsentInv /\ [Next]_vars => (DecisionsWereGiven /\ HandledWereGiven /\ SentWereGiven)'
<1> SUFFICES ASSUME ConsentInv, [Next]_vars
             PROVE  (DecisionsWereGiven /\ HandledWereGiven /\ SentWereGiven)'
  OBVIOUS
<1> DEFINE Goal == (DecisionsWereGiven /\ HandledWereGiven /\ SentWereGiven)'
<1> SUFFICES Goal
  OBVIOUS
<1>0. TypeOK /\ DecisionsWereGiven /\ HandledWereGiven /\ SentWereGiven
  BY DEF ConsentInv
<1>1. ASSUME UNCHANGED <<decision, handler, bus, answers>> PROVE Goal
  BY <1>0, <1>1 DEF DecisionsWereGiven, HandledWereGiven, SentWereGiven
<1>2. ASSUME NEW c \in Calls, Resume(c) PROVE Goal
  <2>1. \A d \in Calls : decision'[d] # "none" => decision'[d] = decision[d]
    BY <1>0, <1>2 DEF Resume, TypeOK
  <2> QED
    BY <1>0, <1>2, <2>1 DEF Resume, DecisionsWereGiven, HandledWereGiven, SentWereGiven
<1>13. ASSUME NEW c \in Calls, Timeout(c) PROVE Goal
  <2>1. \A d \in Calls : decision'[d] # "none" => decision'[d] = decision[d]
    BY <1>0, <1>13 DEF Timeout, TypeOK
  <2> QED
    BY <1>0, <1>13, <2>1 DEF Timeout, DecisionsWereGiven, HandledWereGiven, SentWereGiven
<1>3. ASSUME NEW e \in Executors, Crash(e) PROVE Goal
  <2>1. \A d \in Calls : decision'[d] # "none" => decision'[d] = decision[d]
    BY <1>3 DEF Crash
  <2>2. \A f \in Executors \ {e} : bus'[f] = bus[f]
    BY <1>0, <1>3 DEF Crash, TypeOK
  <2>3. Len(bus'[e]) = 0
    BY <1>0, <1>3, EmptySeq DEF Crash, TypeOK
  <2>4. SentWereGiven'
    BY <1>0, <1>3, <2>2, <2>3 DEF Crash, SentWereGiven
  <2> QED
    BY <1>0, <1>3, <2>1, <2>4 DEF Crash, DecisionsWereGiven, HandledWereGiven
<1>4. ASSUME NEW e \in Executors, Deliver(e) PROVE Goal
  <2> DEFINE m == Head(bus[e])
             mine == m.call \in registered /\ call[m.call].by = e
  <2>1. /\ m.call \in Calls /\ m.answer \in answers[m.call]
        /\ \A i \in 1 .. Len(Tail(bus[e])) :
             Tail(bus[e])[i].answer \in answers[Tail(bus[e])[i].call]
    BY <1>0, <1>4, HeadWasGiven DEF Deliver
  <2>2. decision' = decision \/ decision' = [decision EXCEPT ![m.call] = m.answer]
    BY <1>4 DEF Deliver
  <2>3. \A d \in Calls : decision'[d] = decision[d] \/ decision'[d] \in answers[d]
    BY <1>0, <2>1, <2>2 DEF TypeOK
  <2>4. bus' = [bus EXCEPT ![e] = Tail(bus[e])] /\ UNCHANGED <<handler, answers>>
    BY <1>4 DEF Deliver
  <2>5. SentWereGiven'
    <3>1. \A f \in Executors \ {e} : bus'[f] = bus[f]
      BY <1>0, <2>4 DEF TypeOK
    <3>2. bus'[e] = Tail(bus[e])
      BY <1>0, <2>4 DEF TypeOK
    <3> QED
      BY <1>0, <2>1, <2>4, <3>1, <3>2 DEF SentWereGiven
  <2> QED
    BY <1>0, <2>3, <2>4, <2>5 DEF DecisionsWereGiven, HandledWereGiven
<1>5. ASSUME NEW u \in Clients, NEW c \in Calls, NEW a \in Answers, Respond(u, c, a) PROVE Goal
  <2>1. \A d \in Calls : answers[d] \subseteq answers'[d]
    BY <1>0, <1>5 DEF Respond, TypeOK
  <2>2. a \in answers'[c] /\ UNCHANGED <<decision, bus>>
    BY <1>0, <1>5 DEF Respond, TypeOK
  <2>3. handler'[u].response.call = c /\ handler'[u].response.answer = a
    BY <1>0, <1>5 DEF Respond, TypeOK
  <2>4. \A v \in Clients \ {u} : handler'[v] = handler[v]
    BY <1>0, <1>5 DEF Respond, TypeOK
  <2>5. HandledWereGiven'
    <3> SUFFICES ASSUME NEW v \in Clients, handler'[v].at # "idle"
                 PROVE  handler'[v].response.answer \in answers'[handler'[v].response.call]
      BY DEF HandledWereGiven
    <3>1. CASE v = u
      BY <2>2, <2>3, <3>1
    <3>2. CASE v # u
      <4>1. handler'[v] = handler[v] /\ handler[v].response.call \in Calls
        BY <1>0, <2>4, <3>2, HandlerType
      <4> QED
        BY <1>0, <2>1, <4>1 DEF HandledWereGiven
    <3> QED
      BY <3>1, <3>2
  <2>6. SentWereGiven'
    <3> SUFFICES ASSUME NEW e \in Executors, NEW i \in 1 .. Len(bus[e])
                 PROVE  bus[e][i].answer \in answers'[bus[e][i].call]
      BY <2>2 DEF SentWereGiven
    <3>1. bus[e][i] \in Responses
      BY <1>0, ElementOfSeq DEF TypeOK
    <3>2. bus[e][i].call \in Calls
      BY <3>1 DEF Responses
    <3> QED
      BY <1>0, <2>1, <3>2 DEF SentWereGiven
  <2> QED
    BY <1>0, <2>1, <2>2, <2>5, <2>6 DEF DecisionsWereGiven
<1>6. ASSUME NEW u \in Clients, UpdateRow(u) PROVE Goal
  <2>1. handler[u] \in Handlings
    BY <1>0, <1>6, HandlerType DEF UpdateRow
  <2>2. handler'[u].response = handler[u].response
    BY <1>0, <1>6, <2>1 DEF UpdateRow, TypeOK, Handlings
  <2>3. \A v \in Clients \ {u} : handler'[v] = handler[v]
    BY <1>0, <1>6 DEF UpdateRow, TypeOK
  <2>4. handler[u].at # "idle" /\ UNCHANGED <<decision, bus, answers>>
    BY <1>6 DEF UpdateRow
  <2> QED
    BY <1>0, <2>2, <2>3, <2>4 DEF DecisionsWereGiven, HandledWereGiven, SentWereGiven
<1>7. ASSUME NEW u \in Clients, NEW reached \in SUBSET Executors, Publish(u, reached) PROVE Goal
  <2> DEFINE m == handler[u].response
  <2>1. m \in Responses /\ m.answer \in answers[m.call]
    BY <1>0, <1>7, HandlerType DEF Publish, HandledWereGiven
  <2>2. UNCHANGED <<decision, answers>>
    BY <1>7 DEF Publish
  <2>3. HandledWereGiven'
    BY <1>0, <1>7 DEF Publish, HandledWereGiven, TypeOK, Idle
  <2>4. SentWereGiven'
    <3> SUFFICES ASSUME NEW e \in Executors, NEW i \in 1 .. Len(bus'[e])
                 PROVE  bus'[e][i].answer \in answers[bus'[e][i].call]
      BY <2>2 DEF SentWereGiven
    <3>1. bus'[e] = bus[e] \/ bus'[e] = Append(bus[e], m)
      BY <1>7 DEF Publish
    <3>2. CASE bus'[e] = bus[e]
      BY <1>0, <3>2 DEF SentWereGiven
    <3>3. CASE bus'[e] = Append(bus[e], m)
      <4>1. bus[e] \in Seq(Responses) /\ Len(bus[e]) \in Nat
        BY <1>0 DEF TypeOK
      <4>2. /\ Len(Append(bus[e], m)) = Len(bus[e]) + 1
            /\ \A k \in 1 .. Len(bus[e]) : Append(bus[e], m)[k] = bus[e][k]
            /\ Append(bus[e], m)[Len(bus[e]) + 1] = m
        BY <2>1, <4>1, AppendProperties
      <4>3. i \in 1 .. Len(bus[e]) \/ i = Len(bus[e]) + 1
        BY <3>3, <4>1, <4>2
      <4> QED
        BY <1>0, <2>1, <3>3, <4>2, <4>3 DEF SentWereGiven
    <3> QED
      BY <3>1, <3>2, <3>3
  <2> QED
    BY <1>0, <2>2, <2>3, <2>4 DEF DecisionsWereGiven
<1> HIDE DEF Goal
<1>8. ASSUME NEW c \in Calls, NEW e \in Executors, NEW m \in Modes, NEW kind \in Kinds,
             NEW cmd \in Commands \cup {NoCommand}, Execute(c, e, m, kind, cmd)
      PROVE  Goal
  BY <1>1, <1>8 DEF Execute
<1>9. ASSUME NEW c \in Calls, CreateRequest(c) \/ LoseRequest(c) PROVE Goal
  BY <1>1, <1>9 DEF CreateRequest, LoseRequest
<1>10. ASSUME NEW e \in Executors, ForceStop(e) PROVE Goal
  BY <1>1, <1>10 DEF ForceStop
<1>11. ASSUME NEW e \in Executors, NEW list \in Stores,
              SaveAllowlist(e, list) \/ StartTask(e, list)
       PROVE  Goal
  BY <1>1, <1>11 DEF SaveAllowlist, StartTask
<1>12. CASE UNCHANGED vars
  BY <1>1, <1>12 DEF vars
<1> QED
  BY <1>2, <1>3, <1>4, <1>5, <1>6, <1>7, <1>8, <1>9, <1>10, <1>11, <1>12, <1>13 DEF Next

\* What a call, a row or an allowlist shows stays justified by an answer.
LEMMA OutcomesStep ==
  ConsentInv /\ [Next]_vars => (RunsByConsent /\ RowByAnswer /\ AllowlistByConsent)'
<1> SUFFICES ASSUME ConsentInv, [Next]_vars
             PROVE  (RunsByConsent /\ RowByAnswer /\ AllowlistByConsent)'
  OBVIOUS
<1> DEFINE Goal == (RunsByConsent /\ RowByAnswer /\ AllowlistByConsent)'
<1> SUFFICES Goal
  OBVIOUS
<1>0. /\ TypeOK /\ NewIsBlank /\ DecisionsWereGiven /\ HandledWereGiven
      /\ RunsByConsent /\ RowByAnswer /\ AllowlistByConsent
  BY DEF ConsentInv
<1>1. ASSUME UNCHANGED <<saved, allowlist, call, row, answers>> PROVE Goal
  BY <1>0, <1>1 DEF RunsByConsent, RowByAnswer, AllowlistByConsent
<1>2. ASSUME NEW c \in Calls, NEW e \in Executors, NEW m \in Modes, NEW kind \in Kinds,
             NEW cmd \in Commands \cup {NoCommand}, Execute(c, e, m, kind, cmd)
      PROVE  Goal
  <2>1. UNCHANGED <<saved, allowlist, row, answers>> /\ call[c].at = "new"
    BY <1>2 DEF Execute
  <2>2. \A d \in Calls \ {c} : call'[d] = call[d]
    BY <1>0, <1>2 DEF Execute, TypeOK
  <2>3. ~(call'[c].asked /\ call'[c].at = "ran")
    <3>1. CASE NeedsApproval(e, m, kind, cmd)
      <4>1. ~Blocked(m, kind)
        BY <3>1 DEF NeedsApproval, Blocked
      <4> QED
        BY <1>0, <1>2, <3>1, <4>1 DEF Execute, TypeOK
    <3>2. CASE ~NeedsApproval(e, m, kind, cmd)
      BY <1>0, <1>2, <3>2 DEF Execute, TypeOK
    <3> QED
      BY <3>1, <3>2
  <2>4. RunsByConsent'
    BY <1>0, <2>1, <2>2, <2>3 DEF RunsByConsent
  <2>5. AllowlistByConsent'
    <3> SUFFICES ASSUME NEW f \in Executors, NEW k \in allowlist[f] \ UNION saved[f]
                 PROVE  \E d \in Calls : /\ call'[d].by = f /\ call'[d].cmd = k
                                        /\ "always" \in answers[d]
      BY <2>1 DEF AllowlistByConsent
    <3>1. PICK d \in Calls : call[d].by = f /\ call[d].cmd = k /\ "always" \in answers[d]
      BY <1>0 DEF AllowlistByConsent
    <3>2. k # NoCommand
      BY <1>0, NoCommandIsNone DEF TypeOK
    <3>3. d # c
      BY <1>0, <2>1, <3>1, <3>2 DEF NewIsBlank
    <3> QED
      BY <2>2, <3>1, <3>3
  <2> QED
    BY <1>0, <2>1, <2>4, <2>5 DEF RowByAnswer
<1>3. ASSUME NEW c \in Calls, Timeout(c) PROVE Goal
  <2>1. UNCHANGED <<saved, allowlist, row, answers>>
    BY <1>3 DEF Timeout
  <2>2. \A d \in Calls : /\ call'[d].by = call[d].by /\ call'[d].cmd = call[d].cmd
                         /\ call'[d].asked = call[d].asked
                         /\ call'[d].at = "ran" => call[d].at = "ran"
    <3>1. call[c] \in Callings
      BY <1>0 DEF TypeOK
    <3>2. call' = [call EXCEPT ![c].at = "denied"]
      BY <1>3 DEF Timeout
    <3>3. /\ call'[c].by = call[c].by /\ call'[c].cmd = call[c].cmd
          /\ call'[c].asked = call[c].asked /\ call'[c].at # "ran"
      BY <1>0, <3>1, <3>2 DEF TypeOK, Callings
    <3>4. \A d \in Calls \ {c} : call'[d] = call[d]
      BY <1>0, <3>2 DEF TypeOK
    <3> QED
      BY <3>3, <3>4
  <2> QED
    BY <1>0, <2>1, <2>2 DEF RunsByConsent, RowByAnswer, AllowlistByConsent
<1>4. ASSUME NEW c \in Calls, Resume(c) PROVE Goal
  <2>1. decision[c] \in answers[c] /\ UNCHANGED <<saved, row, answers>>
    BY <1>0, <1>4 DEF Resume, DecisionsWereGiven
  <2>2. \A d \in Calls : call'[d].by = call[d].by /\ call'[d].cmd = call[d].cmd
    BY <1>0, <1>4 DEF Resume, TypeOK, Callings
  <2>3. \A d \in Calls \ {c} : call'[d] = call[d]
    BY <1>0, <1>4 DEF Resume, TypeOK
  <2>4. call'[c].at = "ran" => Grants(decision[c])
    BY <1>0, <1>4 DEF Resume, TypeOK, Callings
  <2>5. RunsByConsent'
    BY <1>0, <2>1, <2>3, <2>4 DEF RunsByConsent
  <2>6. AllowlistByConsent'
    <3> SUFFICES ASSUME NEW f \in Executors, NEW k \in allowlist'[f] \ UNION saved[f]
                 PROVE  \E d \in Calls : /\ call[d].by = f /\ call[d].cmd = k
                                        /\ "always" \in answers[d]
      BY <2>1, <2>2 DEF AllowlistByConsent
    <3>1. CASE k \in allowlist[f]
      BY <1>0, <3>1 DEF AllowlistByConsent
    <3>2. CASE k \notin allowlist[f]
      <4>1. decision[c] = "always" /\ f = call[c].by /\ k = call[c].cmd
        BY <1>0, <1>4, <3>2 DEF Resume, TypeOK
      <4> QED
        BY <2>1, <4>1
    <3> QED
      BY <3>1, <3>2
  <2> QED
    BY <1>0, <2>1, <2>5, <2>6 DEF RowByAnswer
<1>5. ASSUME NEW c \in Calls, CreateRequest(c) PROVE Goal
  <2>1. \A d \in Calls : row'[d] = row[d] \/ row'[d] = "pending"
    BY <1>0, <1>5 DEF CreateRequest, TypeOK
  <2> QED
    BY <1>0, <1>5, <2>1 DEF CreateRequest, RunsByConsent, RowByAnswer, AllowlistByConsent
<1>6. ASSUME NEW e \in Executors, ForceStop(e) PROVE Goal
  BY <1>0, <1>6 DEF ForceStop, RunsByConsent, RowByAnswer, AllowlistByConsent
<1>7. ASSUME NEW e \in Executors, NEW list \in Stores, StartTask(e, list) PROVE Goal
  <2>1. list \in saved[e] /\ UNCHANGED <<saved, call, row, answers>>
    BY <1>7 DEF StartTask
  <2>2. \A f \in Executors : allowlist'[f] \subseteq allowlist[f] \cup UNION saved[f]
    <3>1. \A f \in Executors : allowlist'[f] # allowlist[f] => f = e /\ allowlist'[f] = list
      BY <1>0, <1>7 DEF StartTask, TypeOK
    <3>2. list \subseteq UNION saved[e]
      BY <2>1
    <3> QED
      BY <3>1, <3>2
  <2> QED
    BY <1>0, <2>1, <2>2 DEF RunsByConsent, RowByAnswer, AllowlistByConsent
<1>15. ASSUME NEW e \in Executors, NEW list \in Stores, SaveAllowlist(e, list) PROVE Goal
  <2>1. \A f \in Executors : UNION saved[f] \subseteq UNION (saved'[f])
    BY <1>0, <1>15 DEF SaveAllowlist, TypeOK
  <2>2. UNCHANGED <<allowlist, call, row, answers>>
    BY <1>15 DEF SaveAllowlist
  <2> QED
    BY <1>0, <2>1, <2>2 DEF RunsByConsent, RowByAnswer, AllowlistByConsent
<1>8. ASSUME NEW e \in Executors, Crash(e) PROVE Goal
  <2>1. \A f \in Executors : allowlist'[f] \subseteq allowlist[f]
    BY <1>0, <1>8 DEF Crash, TypeOK
  <2>2. \A d \in Calls : /\ call'[d].by = call[d].by /\ call'[d].cmd = call[d].cmd
                         /\ call'[d].asked = call[d].asked
                         /\ call'[d].at = "ran" => call[d].at = "ran"
    BY <1>0, <1>8 DEF Crash, TypeOK, Callings
  <2>3. UNCHANGED <<saved, row, answers>>
    BY <1>8 DEF Crash
  <2> QED
    BY <1>0, <2>1, <2>2, <2>3 DEF RunsByConsent, RowByAnswer, AllowlistByConsent
<1>9. ASSUME NEW u \in Clients, NEW c \in Calls, NEW a \in Answers, Respond(u, c, a) PROVE Goal
  <2>1. \A d \in Calls : answers[d] \subseteq answers'[d]
    BY <1>0, <1>9 DEF Respond, TypeOK
  <2>2. UNCHANGED <<saved, allowlist, call, row>>
    BY <1>9 DEF Respond
  <2>3. RunsByConsent' /\ RowByAnswer'
    BY <1>0, <2>1, <2>2 DEF RunsByConsent, RowByAnswer
  <2>4. AllowlistByConsent'
    BY <1>0, <2>1, <2>2 DEF AllowlistByConsent
  <2> QED
    BY <2>3, <2>4
<1>10. ASSUME NEW u \in Clients, UpdateRow(u) PROVE Goal
  <2> DEFINE c == handler[u].response.call
             a == handler[u].response.answer
  <2>1. c \in Calls /\ a \in Answers /\ a \in answers[c]
    BY <1>0, <1>10, HandlerType DEF UpdateRow, HandledWereGiven
  <2>2. UNCHANGED <<saved, allowlist, call, answers>>
    BY <1>10 DEF UpdateRow
  <2>3. \A d \in Calls : \/ row'[d] = row[d]
                         \/ d = c /\ row'[d] = IF Grants(a) THEN "approved" ELSE "rejected"
    BY <1>0, <1>10 DEF UpdateRow, TypeOK
  <2>4. ~Grants(a) => a = "deny"
    BY <2>1 DEF Grants, Answers
  <2>5. RowByAnswer'
    BY <1>0, <2>1, <2>2, <2>3, <2>4 DEF RowByAnswer
  <2> QED
    BY <1>0, <2>2, <2>5 DEF RunsByConsent, AllowlistByConsent
<1> HIDE DEF Goal
<1>11. ASSUME NEW c \in Calls, LoseRequest(c) PROVE Goal
  BY <1>1, <1>11 DEF LoseRequest
<1>12. ASSUME NEW e \in Executors, Deliver(e) PROVE Goal
  BY <1>1, <1>12 DEF Deliver
<1>13. ASSUME NEW u \in Clients, NEW reached \in SUBSET Executors, Publish(u, reached) PROVE Goal
  BY <1>1, <1>13 DEF Publish
<1>14. CASE UNCHANGED vars
  BY <1>1, <1>14 DEF vars
<1> QED
  BY <1>2, <1>3, <1>4, <1>5, <1>6, <1>7, <1>8, <1>9, <1>10, <1>11, <1>12, <1>13, <1>14,
     <1>15
  DEF Next

LEMMA ConsentStep == ConsentInv /\ [Next]_vars => ConsentInv'
<1> SUFFICES ASSUME ConsentInv, [Next]_vars PROVE ConsentInv'
  OBVIOUS
<1>1. TypeOK'
  BY TypeStep DEF ConsentInv
<1>2. (NewIsBlank /\ RegistryIsExact /\ DecidedCallsWait)'
  BY RegistryStep
<1>3. (DecisionsWereGiven /\ HandledWereGiven /\ SentWereGiven)'
  BY AnswersStep
<1>4. (RunsByConsent /\ RowByAnswer /\ AllowlistByConsent)'
  BY OutcomesStep
<1> QED
  BY <1>1, <1>2, <1>3, <1>4 DEF ConsentInv

\* A call that had to ask runs only after a user granted that call, whichever answers
\* are late, lost, contradictory or another call's.
THEOREM NothingRunsUnasked == Spec => []RunsByConsent
<1>1. ConsentInv => RunsByConsent
  BY DEF ConsentInv
<1> QED
  BY <1>1, ConsentInit, ConsentStep, PTL DEF Spec

\* Every row that is decided goes back to an answer of a user to that call.
THEOREM RecordsAreAnswers == Spec => []RowByAnswer
<1>1. ConsentInv => RowByAnswer
  BY DEF ConsentInv
<1> QED
  BY <1>1, ConsentInit, ConsentStep, PTL DEF Spec

\* Every command that runs unasked was saved with the agent at some time, or granted
\* with "always" by a user, however the saved list, the tasks that carry it and the
\* answers interleave.
THEOREM AllowlistGrowsByAnswers == Spec => []AllowlistByConsent
<1>1. ConsentInv => AllowlistByConsent
  BY DEF ConsentInv
<1> QED
  BY <1>1, ConsentInit, ConsentStep, PTL DEF Spec

\* The listener's registry never leaks and never misses a waiting call.
THEOREM RegistryNeverLeaks == Spec => []RegistryIsExact
<1>1. ConsentInv => RegistryIsExact
  BY DEF ConsentInv
<1> QED
  BY <1>1, ConsentInit, ConsentStep, PTL DEF Spec

\* The first answer that reaches a call decides it, unless the call times out or its
\* instance stops before the executor has run.
THEOREM FirstAnswerDecides == Spec => DecisionIsFollowed
<1> DEFINE Kept(c) == decision'[c] = decision[c] /\ call'[c].at = "waiting"
           Followed(c) == call'[c].at = "ran" /\ Grants(decision[c])
           Refused(c) == call'[c].at \in {"denied", "dead"}
           Decided == \A c \in Calls :
                        decision[c] # "none" =>
                          \/ decision'[c] = decision[c] /\ call'[c].at = "waiting"
                          \/ call'[c].at = "ran" /\ Grants(decision[c])
                          \/ call'[c].at \in {"denied", "dead"}
<1>1. ConsentInv /\ [Next]_vars =>
        \A c \in Calls : decision[c] # "none" => Kept(c) \/ Followed(c) \/ Refused(c)
  <2> SUFFICES ASSUME ConsentInv, [Next]_vars, NEW c \in Calls, decision[c] # "none"
               PROVE  Kept(c) \/ Followed(c) \/ Refused(c)
    OBVIOUS
  <2>0. /\ call[c].at = "waiting" /\ c \notin registered
        /\ call \in [Calls -> Callings] /\ decision \in [Calls -> Answers \cup {"none"}]
    BY DEF ConsentInv, TypeOK, DecidedCallsWait, RegistryIsExact
  <2>1. ASSUME NEW d \in Calls, NEW e \in Executors, NEW m \in Modes, NEW kind \in Kinds,
               NEW cmd \in Commands \cup {NoCommand}, Execute(d, e, m, kind, cmd)
        PROVE  Kept(c)
    BY <2>0, <2>1 DEF Execute
  <2>2. ASSUME NEW d \in Calls, Timeout(d) PROVE Kept(c) \/ Refused(c)
    <3>1. CASE c = d
      BY <2>0, <2>2, <3>1 DEF Timeout, Callings
    <3>2. CASE c # d
      BY <2>0, <2>2, <3>2 DEF Timeout, Callings
    <3> QED
      BY <3>1, <3>2
  <2>3. ASSUME NEW d \in Calls, Resume(d) PROVE Kept(c) \/ Followed(c) \/ Refused(c)
    <3>1. CASE c = d
      BY <2>0, <2>3, <3>1 DEF Resume, Callings
    <3>2. CASE c # d
      BY <2>0, <2>3, <3>2 DEF Resume, Callings
    <3> QED
      BY <3>1, <3>2
  <2>4. ASSUME NEW e \in Executors, Crash(e) PROVE Kept(c) \/ Refused(c)
    BY <2>0, <2>4 DEF Crash, Callings
  <2>5. ASSUME NEW e \in Executors, Deliver(e) PROVE Kept(c)
    BY <2>0, <2>5 DEF Deliver
  <2>6. ASSUME UNCHANGED <<call, decision>> PROVE Kept(c)
    BY <2>0, <2>6
  <2>7. \/ UNCHANGED <<call, decision>>
        \/ \E d \in Calls : \/ Resume(d) \/ Timeout(d)
                            \/ \E e \in Executors, m \in Modes, kind \in Kinds,
                                  cmd \in Commands \cup {NoCommand} :
                                    Execute(d, e, m, kind, cmd)
        \/ \E e \in Executors : Crash(e) \/ Deliver(e)
    BY DEF Next, vars, CreateRequest, LoseRequest, SaveAllowlist, StartTask, ForceStop,
           Respond, UpdateRow, Publish
  <2> QED
    BY <2>1, <2>2, <2>3, <2>4, <2>5, <2>6, <2>7
<1>2. ConsentInv /\ [Next]_vars => Decided
  BY <1>1
<1> QED
  BY <1>2, ConsentInit, ConsentStep, PTL DEF Spec, DecisionIsFollowed
=============================================================================
