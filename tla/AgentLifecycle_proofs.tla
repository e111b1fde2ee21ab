------------------------ MODULE AgentLifecycle_proofs ------------------------
(***************************************************************************)
(* What holds of the agent's row for any number of messages and of calls   *)
(* of the control routes, and any timeout: its types, and that "running"   *)
(* has a message behind it.                                                *)
(***************************************************************************)
EXTENDS AgentLifecycle, TLAPS

Calling == [at : {"new", "loaded", "done"}, kind : RouteKinds, seen : Statuses]

LEMMA Ages == Timeout \in Nat /\ 0 \in 0 .. Timeout /\ {0, Null} \subseteq 0 .. Null
BY LifecycleAssumption DEF LifecycleAssumption, Null

LEMMA InitType == Init => TypeOK
<1> SUFFICES ASSUME Init PROVE TypeOK
  OBVIOUS
<1>1. 0 \in 0 .. MaxCrashes
  BY LifecycleAssumption DEF LifecycleAssumption
<1>2. [at |-> "new", kind |-> "abort", seen |-> "idle"] \in
        [at : {"new", "loaded", "done"}, kind : RouteKinds, seen : Statuses]
  BY DEF RouteKinds, Statuses
<1>3. call \in [Handlers -> [at : {"new", "loaded", "done"}, kind : RouteKinds, seen : Statuses]]
  BY <1>2 DEF Init
<1> QED
  BY Ages, <1>1, <1>3 DEF Init, TypeOK, Statuses

\* A status the code commits keeps the types of the row's columns it writes.
LEMMA WriteType ==
  ASSUME TypeOK, NEW s \in Statuses, NEW seen, WriteStatus(s, seen)
  PROVE  status' \in Statuses /\ updated' \in 0 .. Timeout /\ since' \in 0 .. Timeout
BY LifecycleAssumption DEF LifecycleAssumption, TypeOK, WriteStatus

LEMMA StatusAfterType == \A k \in RouteKinds : StatusAfter(k) \in Statuses
BY DEF RouteKinds, StatusAfter, Statuses

\* Every step keeps the types: one step of the proof per action.
LEMMA TypeStep == TypeOK /\ [Next]_vars => TypeOK'
<1> SUFFICES ASSUME TypeOK, [Next]_vars PROVE TypeOK'
  OBVIOUS
<1> USE LifecycleAssumption DEF LifecycleAssumption
<1>1. ASSUME NEW m \in Messages, MessageNext(m) PROVE TypeOK'
  <2>1. CASE BeginMessage(m)
    <3>1. status' \in Statuses /\ updated' \in 0 .. Timeout /\ since' \in 0 .. Timeout
      BY <2>1, WriteType DEF BeginMessage, Statuses
    <3> QED
      BY <2>1, <3>1 DEF BeginMessage, TypeOK
  <2>2. CASE EnqueueTask(m)
    BY <2>2 DEF EnqueueTask, TypeOK, row
  <2>3. CASE Reply(m)
    <3>1. status' \in Statuses /\ updated' \in 0 .. Timeout /\ since' \in 0 .. Timeout
      BY <2>3, WriteType DEF Reply, Statuses
    <3> QED
      BY <2>3, <3>1 DEF Reply, TypeOK
  <2>4. CASE FailMessage(m)
    <3>1. status' \in Statuses /\ updated' \in 0 .. Timeout /\ since' \in 0 .. Timeout
      BY <2>4, WriteType DEF FailMessage, Statuses
    <3> QED
      BY <2>4, <3>1 DEF FailMessage, TypeOK
  <2>5. CASE CrashMessage(m)
    BY <2>5 DEF CrashMessage, TypeOK, row
  <2> QED
    BY <1>1, <2>1, <2>2, <2>3, <2>4, <2>5 DEF MessageNext
<1>2. ASSUME NEW m \in Messages, TaskNext(m) PROVE TypeOK'
  BY <1>2 DEF TaskNext, BeginTask, EndTask, RefuseTask, TypeOK, row
<1>3. ASSUME NEW h \in Handlers, LoadAgent(h) PROVE TypeOK'
  <2>1. PICK k \in Kinds : call' = [call EXCEPT ![h] = [at |-> "loaded", kind |-> k, seen |-> status]]
    BY <1>3 DEF LoadAgent
  <2>2. call' \in [Handlers -> Calling]
    BY <2>1 DEF TypeOK, Calling
  <2> QED
    BY <1>3, <2>2 DEF LoadAgent, TypeOK, row, Calling
<1>4. ASSUME NEW h \in Handlers, CommitAgent(h) PROVE TypeOK'
  <2>1. call[h] \in Calling
    BY DEF TypeOK, Calling
  <2>2. call' \in [Handlers -> Calling]
    <3>1. [call[h] EXCEPT !.at = "done"] \in Calling
      BY <2>1 DEF Calling
    <3> QED
      BY <1>4, <3>1 DEF CommitAgent, TypeOK, Calling
  <2>3. CASE call[h].kind = "force-stop"
    BY <1>4, <2>2, <2>3 DEF CommitAgent, TypeOK, Null, Statuses, Calling
  <2>4. CASE call[h].kind # "force-stop"
    <3>1. WriteStatus(StatusAfter(call[h].kind), call[h].seen) /\ StatusAfter(call[h].kind) \in Statuses
      BY <1>4, <2>1, <2>4, StatusAfterType DEF CommitAgent, Calling
    <3>2. status' \in Statuses /\ updated' \in 0 .. Timeout /\ since' \in 0 .. Timeout
      BY <3>1, WriteType
    <3> QED
      BY <1>4, <2>2, <2>4, <3>2 DEF CommitAgent, TypeOK, Calling
  <2> QED
    BY <2>3, <2>4
<1>5. ASSUME FindStuck PROVE TypeOK'
  BY <1>5 DEF FindStuck, TypeOK, row
<1>6. ASSUME RecoverStuck PROVE TypeOK'
  BY <1>6, Ages DEF RecoverStuck, TypeOK, Statuses
<1>7. ASSUME Tick PROVE TypeOK'
  BY <1>7 DEF Tick, Older, TypeOK, Null
<1>8. ASSUME UNCHANGED vars PROVE TypeOK'
  BY <1>8 DEF vars, TypeOK
<1> QED
  BY <1>1, <1>2, <1>3, <1>4, <1>5, <1>6, <1>7, <1>8 DEF Next

\* The row, the message tasks, the handlers and the watchdog keep their types.
THEOREM TypeCorrect == Spec => []TypeOK
  BY InitType, TypeStep, PTL DEF Spec

-----------------------------------------------------------------------------
(* Whoever leaves the row running is still there.                          *)

\* A route that was not called yet has no kind but the one Init gives it, so that
\* "no resume was asked" once false never becomes true again.
NewIsAbort == \A h \in Handlers : call[h].at = "new" => call[h].kind # "resume"
RunningInv == TypeOK /\ NewIsAbort /\ RunningHasMessage

LEMMA NewIsAbortStep == TypeOK /\ NewIsAbort /\ [Next]_vars => NewIsAbort'
<1> SUFFICES ASSUME TypeOK, NewIsAbort, [Next]_vars PROVE NewIsAbort'
  OBVIOUS
<1>1. ASSUME NEW h \in Handlers, LoadAgent(h) PROVE NewIsAbort'
  BY <1>1 DEF LoadAgent, NewIsAbort, TypeOK
<1>2. ASSUME NEW h \in Handlers, CommitAgent(h) PROVE NewIsAbort'
  BY <1>2 DEF CommitAgent, NewIsAbort, TypeOK
<1>3. ASSUME UNCHANGED call PROVE NewIsAbort'
  BY <1>3 DEF NewIsAbort
<1>4. UNCHANGED call \/ \E h \in Handlers : LoadAgent(h) \/ CommitAgent(h)
  BY DEF Next, vars, MessageNext, BeginMessage, EnqueueTask, Reply, FailMessage, CrashMessage,
         TaskNext, BeginTask, EndTask, RefuseTask, FindStuck, RecoverStuck, Tick
<1> QED
  BY <1>1, <1>2, <1>3, <1>4

\* No step leaves the row running without a message, unless a message is lost or a resume is
\* asked: the message's own last write takes it out of "running".
LEMMA RunningStep == RunningInv /\ [Next]_vars => RunningHasMessage'
<1> DEFINE Asked == \E h \in Handlers : call[h].kind = "resume"
           Busy == \E m \in Messages : msg[m] \in {"begun", "waiting"}
<1> SUFFICES ASSUME RunningInv, [Next]_vars, crashes' = 0, ~Asked', status' = "running"
             PROVE  Busy'
  BY DEF RunningHasMessage
<1>0. TypeOK /\ NewIsAbort /\ (crashes = 0 /\ ~Asked /\ status = "running" => Busy)
  BY DEF RunningInv, RunningHasMessage
<1>1. ASSUME NEW m \in Messages, BeginMessage(m) PROVE Busy'
  BY <1>0, <1>1 DEF BeginMessage, TypeOK
<1>2. ASSUME NEW m \in Messages, EnqueueTask(m) PROVE Busy'
  BY <1>0, <1>2 DEF EnqueueTask, TypeOK
<1>3. ASSUME NEW m \in Messages, Reply(m) PROVE Busy'
  BY <1>3 DEF Reply, WriteStatus
<1>4. ASSUME NEW m \in Messages, FailMessage(m) PROVE Busy'
  BY <1>4 DEF FailMessage, WriteStatus
<1>5. ASSUME NEW m \in Messages, CrashMessage(m) PROVE Busy'
  BY <1>0, <1>5 DEF CrashMessage, TypeOK
<1>6. ASSUME NEW h \in Handlers, LoadAgent(h) PROVE Busy'
  <2>1. ~Asked
    <3>1. call[h].kind # "resume"
      BY <1>0, <1>6 DEF LoadAgent, NewIsAbort
    <3>2. \A g \in Handlers \ {h} : call'[g] = call[g]
      BY <1>0, <1>6 DEF LoadAgent, TypeOK
    <3> QED
      BY <3>1, <3>2
  <2> QED
    BY <1>0, <1>6, <2>1 DEF LoadAgent, row
<1>7. ASSUME NEW h \in Handlers, CommitAgent(h) PROVE Busy'
  <2>1. \A g \in Handlers : call'[g].kind = call[g].kind
    BY <1>0, <1>7 DEF CommitAgent, TypeOK
  <2>2. ~Asked
    BY <2>1
  <2>3. call[h].kind \in RouteKinds \ {"resume"}
    BY <1>0, <2>2 DEF TypeOK
  <2>4. StatusAfter(call[h].kind) # "running"
    BY <2>3 DEF StatusAfter, RouteKinds
  <2>5. status = "running"
    BY <1>7, <2>4 DEF CommitAgent, WriteStatus
  <2> QED
    BY <1>0, <1>7, <2>2, <2>5 DEF CommitAgent
<1>8. ASSUME RecoverStuck PROVE Busy'
  BY <1>8 DEF RecoverStuck
<1>9. ASSUME UNCHANGED <<status, msg, call, crashes>> PROVE Busy'
  BY <1>0, <1>9
<1>10. \/ UNCHANGED <<status, msg, call, crashes>> \/ RecoverStuck
       \/ \E m \in Messages : BeginMessage(m) \/ EnqueueTask(m) \/ Reply(m) \/ FailMessage(m)
                                \/ CrashMessage(m)
       \/ \E h \in Handlers : LoadAgent(h) \/ CommitAgent(h)
  BY DEF Next, vars, row, MessageNext, TaskNext, BeginTask, EndTask, RefuseTask, FindStuck, Tick
<1> HIDE DEF Busy
<1> QED
  BY <1>1, <1>2, <1>3, <1>4, <1>5, <1>6, <1>7, <1>8, <1>9, <1>10

\* As long as no message is lost with its API process and no resume is asked, an agent whose
\* status says running has a message that process_agent_message is working on.
THEOREM RunningIsServed == Spec => []RunningHasMessage
<1>1. Init => RunningInv
  BY InitType DEF Init, RunningInv, NewIsAbort, RunningHasMessage
<1>2. RunningInv /\ [Next]_vars => RunningInv'
  BY TypeStep, NewIsAbortStep, RunningStep DEF RunningInv
<1>3. RunningInv => RunningHasMessage
  BY DEF RunningInv
<1> QED
  BY <1>1, <1>2, <1>3, PTL DEF Spec

=============================================================================
