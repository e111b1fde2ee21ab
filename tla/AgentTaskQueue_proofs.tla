------------------------ MODULE AgentTaskQueue_proofs ------------------------
(***************************************************************************)
(* What holds of AgentTaskQueue for all sets of tasks, workers, agents and *)
(* sessions, every pool size and every bound on failures, and that it      *)
(* implements TaskLifecycle.                                               *)
(***************************************************************************)
EXTENDS AgentTaskQueue, FiniteSetTheorems, TLAPS

SpentStates == [crashes : 0 .. MaxCrashes, expiries : 0 .. MaxExpiries,
                cancels : 0 .. MaxCancels, lost : SUBSET Tasks]

\* The identifier that idle process states carry is a task.
LEMMA SomeTask == (CHOOSE t \in Tasks : TRUE) \in Tasks
BY ConstantsAssumption DEF ConstantsAssumption

\* The number of created tasks, and any count of tasks, is a natural number.
LEMMA CountIsNat ==
  ASSUME NEW S \in SUBSET Tasks
  PROVE  IsFiniteSet(S) /\ Cardinality(S) \in Nat
BY ConstantsAssumption, FS_Subset, FS_CardinalityType DEF ConstantsAssumption

\* The states of the processes of a worker: the idle ones, and those a step makes.
LEMMA IdleStates == Idle \in LoopStates /\ NoRun \in ExecStates /\ Quiet \in ControlStates
BY SomeTask DEF Idle, NoRun, Quiet, LoopStates, ExecStates, ControlStates, Stages, Terminal

LEMMA LoopMoves ==
  ASSUME NEW l \in LoopStates, NEW t \in Tasks, NEW todo \in SUBSET Sessions, NEW n \in Nat
  PROVE  /\ [l EXCEPT !.at = "peeked", !.task = t] \in LoopStates
         /\ [l EXCEPT !.at = "claimed"] \in LoopStates
         /\ [l EXCEPT !.at = "listed"] \in LoopStates
         /\ [l EXCEPT !.at = "scan", !.todo = todo, !.slots = n] \in LoopStates
BY DEF LoopStates

LEMMA ExecMoves ==
  ASSUME NEW e \in ExecStates, NEW at \in Stages, NEW out \in Terminal
  PROVE  /\ [e EXCEPT !.at = at] \in ExecStates
         /\ [at |-> at, out |-> out] \in ExecStates
BY DEF ExecStates

\* One asyncio task of one worker changes.
LEMMA ExecUpdate ==
  ASSUME exec \in [Workers -> [Tasks -> ExecStates]],
         NEW w \in Workers, NEW t \in Tasks, NEW e \in ExecStates
  PROVE  [exec EXCEPT ![w] = [@ EXCEPT ![t] = e]] \in [Workers -> [Tasks -> ExecStates]]
<1>1. exec[w] \in [Tasks -> ExecStates]
  OBVIOUS
<1>2. [exec[w] EXCEPT ![t] = e] \in [Tasks -> ExecStates]
  BY <1>1
<1> QED
  BY <1>2

LEMMA NextSessionType ==
  ASSUME NEW w \in Workers, NEW s \in Sessions, NEW n \in {0, 1}, loop[w] \in LoopStates
  PROVE  NextSession(w, s, n) \in LoopStates
<1>1. loop[w].todo \ {s} \in SUBSET Sessions /\ loop[w].slots - n \in Int
  BY DEF LoopStates
<1>2. CASE loop[w].todo \ {s} = {} \/ loop[w].slots - n <= 0
  BY <1>2, IdleStates DEF NextSession
<1>3. CASE ~(loop[w].todo \ {s} = {} \/ loop[w].slots - n <= 0)
  <2>1. loop[w].slots - n \in Nat
    BY <1>1, <1>3
  <2>2. [Idle EXCEPT !.at = "scan", !.todo = loop[w].todo \ {s}, !.slots = loop[w].slots - n]
          \in LoopStates
    BY <1>1, <2>1, IdleStates, LoopMoves, SomeTask
  <2> QED
    BY <1>3, <2>2 DEF NextSession
<1> QED
  BY <1>2, <1>3

LEMMA NextSessionHolds ==
  ASSUME NEW w \in Workers, NEW s, NEW n
  PROVE  NextSession(w, s, n).at \in {"idle", "scan"}
BY DEF NextSession, Idle

LEMMA LoopAt ==
  ASSUME TypeOK, NEW w \in Workers
  PROVE  /\ [loop[w] EXCEPT !.at = "claimed"] \in LoopStates
         /\ [loop[w] EXCEPT !.at = "listed"] \in LoopStates
<1>1. loop[w] \in LoopStates
  BY DEF TypeOK
<1> QED
  BY <1>1, LoopMoves, SomeTask, 0 \in Nat, {} \in SUBSET Sessions

LEMMA ControlAt ==
  ASSUME TypeOK, NEW w \in Workers
  PROVE  [ctl[w] EXCEPT !.at = "unlisted"] \in ControlStates
<1>1. ctl[w] \in ControlStates
  BY DEF TypeOK
<1> QED
  BY <1>1 DEF ControlStates

\* Each counter of failures stays within its bound.
LEMMA SpentMoves ==
  ASSUME TypeOK
  PROVE  /\ spent.crashes < MaxCrashes =>
              /\ [spent EXCEPT !.crashes = @ + 1] \in SpentStates
              /\ \A S \in SUBSET Tasks :
                   [spent EXCEPT !.crashes = @ + 1, !.lost = S] \in SpentStates
         /\ spent.expiries < MaxExpiries => [spent EXCEPT !.expiries = @ + 1] \in SpentStates
         /\ spent.cancels < MaxCancels => [spent EXCEPT !.cancels = @ + 1] \in SpentStates
<1>1. spent \in [crashes : 0 .. MaxCrashes, expiries : 0 .. MaxExpiries,
                cancels : 0 .. MaxCancels, lost : SUBSET Tasks]
  BY DEF TypeOK
<1>2. MaxCrashes \in Nat /\ MaxExpiries \in Nat /\ MaxCancels \in Nat
  BY ConstantsAssumption DEF ConstantsAssumption
<1>3. /\ spent.crashes < MaxCrashes => spent.crashes + 1 \in 0 .. MaxCrashes
      /\ spent.expiries < MaxExpiries => spent.expiries + 1 \in 0 .. MaxExpiries
      /\ spent.cancels < MaxCancels => spent.cancels + 1 \in 0 .. MaxCancels
  BY <1>1, <1>2
<1> QED
  BY <1>1, <1>3 DEF SpentStates

\* A call of Redis that raises in the loop: a task it had is with nobody.
LEMMA DequeueFailsMoves ==
  ASSUME TypeOK, NEW w \in Workers, DequeueFails(w)
  PROVE  /\ pending' = pending /\ api' = api /\ exec' = exec
         /\ loop[w].at \in {"peeked", "claimed", "listed"}
         /\ loop' = [loop EXCEPT ![w] = NextSession(w, Session(loop[w].task), 0)]
         /\ loop'[w] = NextSession(w, Session(loop[w].task), 0)
         /\ loop'[w].at \in {"idle", "scan"}
         /\ \A v \in Workers \ {w} : loop'[v] = loop[v]
         /\ loop[w].task \in Tasks
         /\ prio' = prio /\ score' = score
<1>1. loop' = [loop EXCEPT ![w] = NextSession(w, Session(loop[w].task), 0)]
  BY DEF DequeueFails
<1>2. /\ loop'[w] = NextSession(w, Session(loop[w].task), 0)
      /\ \A v \in Workers \ {w} : loop'[v] = loop[v]
  BY <1>1 DEF TypeOK
<1>3. loop[w].task \in Tasks
  BY DEF TypeOK, LoopStates
<1> QED
  BY <1>1, <1>2, <1>3, NextSessionHolds DEF DequeueFails

\* A call of Redis that raises in an asyncio task: it saves the failure, or is done.
LEMMA SettleFailsMoves ==
  ASSUME TypeOK, NEW w \in Workers, NEW t \in Tasks, SettleFails(w, t)
  PROVE  /\ pending' = pending /\ api' = api /\ loop' = loop /\ status' = status
         /\ prio' = prio /\ score' = score
         /\ exec[w][t].at \in {"executing", "saving", "unlisted", "written"}
         /\ exec'[w][t].at \in {"saving", "done"}
         /\ exec' = [exec EXCEPT ![w] = [@ EXCEPT ![t] = exec'[w][t]]]
         /\ exec'[w][t] \in ExecStates
         /\ \A v \in Workers, u \in Tasks : v # w \/ u # t => exec'[v][u] = exec[v][u]
<1> DEFINE e1 == IF status[t] = "absent" THEN [NoRun EXCEPT !.at = "done"]
                                         ELSE [at |-> "saving", out |-> "failed"]
           e2 == [NoRun EXCEPT !.at = "done"]
<1>1. PICK e \in {e1, e2} : exec' = [exec EXCEPT ![w][t] = e]
  BY DEF SettleFails
<1>2. e \in ExecStates /\ e.at \in {"saving", "done"}
  BY DEF ExecStates, Stages, Terminal, NoRun
<1>3. exec' = [exec EXCEPT ![w] = [@ EXCEPT ![t] = e]]
  BY <1>1
<1>4. exec'[w][t] = e /\ \A v \in Workers, u \in Tasks : v # w \/ u # t => exec'[v][u] = exec[v][u]
  BY <1>3 DEF TypeOK
<1> HIDE DEF e1, e2
<1> QED
  BY <1>2, <1>3, <1>4 DEF SettleFails, redis

LEMMA SessionType == TypeOK => \A t \in Tasks : Session(t) \in Sessions
BY ConstantsAssumption DEF ConstantsAssumption, TypeOK, Session

\* Every step keeps the types: one step of the proof per action.
LEMMA TypeStep == TypeOK /\ [Next]_vars => TypeOK'
<1> SUFFICES ASSUME TypeOK, [Next]_vars PROVE TypeOK'
  OBVIOUS
<1> USE SomeTask, IdleStates DEF TypeOK
<1>1. ASSUME NEW t \in Tasks, SaveTask(t) PROVE TypeOK'
  <2>1. \A p \in Priorities, f \in 0 .. Resolution - 1 :
          p \in {0, 50, 100} /\ PriorityScore(p, f) \in Nat
    <3> SUFFICES ASSUME NEW p \in Priorities, NEW f \in 0 .. Resolution - 1
                 PROVE  p \in {0, 50, 100} /\ p * Resolution + f \in Nat
      BY DEF PriorityScore
    <3> QED
      BY ConstantsAssumption DEF ConstantsAssumption
  <2>2. prio' \in [Tasks -> {0, 50, 100}] /\ score' \in [Tasks -> Nat]
    BY <1>1, <2>1 DEF SaveTask
  <2>3. status' \in [Tasks -> {"absent", "pending", "running"} \cup Terminal]
    BY <1>1 DEF SaveTask
  <2>4. api' \in [Tasks -> ApiStates]
    BY <1>1 DEF SaveTask, ApiStates
  <2> QED
    BY <1>1, <2>2, <2>3, <2>4 DEF SaveTask, worker
<1>2. ASSUME NEW t \in Tasks, AddPending(t) PROVE TypeOK'
  BY <1>2 DEF AddPending, worker, ApiStates
<1>3. ASSUME NEW t \in Tasks, Answer(t) PROVE TypeOK'
  BY <1>3 DEF Answer, redis, worker, ApiStates, Terminal
<1>4. ASSUME NEW t \in Tasks, CrashApi(t) PROVE TypeOK'
  <2>1. spent' \in SpentStates
    BY <1>4, SpentMoves DEF CrashApi
  <2>2. api' \in [Tasks -> ApiStates]
    BY <1>4 DEF CrashApi, ApiStates
  <2> QED
    BY <1>4, <2>1, <2>2 DEF CrashApi, redis, worker, SpentStates
<1>5. ASSUME NEW t \in Tasks, CancelTask(t) PROVE TypeOK'
  <2>1. spent' \in SpentStates
    BY <1>5, SpentMoves DEF CancelTask
  <2>2. inbox' \in [Workers -> SUBSET Tasks]
    BY <1>5 DEF CancelTask
  <2> QED
    BY <1>5, <2>1, <2>2 DEF CancelTask, redis, SpentStates
<1>6. ASSUME NEW t \in Tasks, Expire(t) PROVE TypeOK'
  <2>1. spent' \in SpentStates
    BY <1>6, SpentMoves DEF Expire
  <2>2. status' \in [Tasks -> {"absent", "pending", "running"} \cup Terminal]
    BY <1>6 DEF Expire
  <2> QED
    BY <1>6, <2>1, <2>2 DEF Expire, worker, SpentStates
<1>7. ASSUME NEW w \in Workers, Poll(w) PROVE TypeOK'
  <2> DEFINE left == {t \in Running(w) : exec[w][t].at # "done"}
             slots == PoolSize - Cardinality(left)
             todo == {Session(t) : t \in pending}
  <2>1. left \in SUBSET Tasks
    BY DEF Running
  <2>2. slots \in Nat
    <3>1. Cardinality(left) \in Nat
      BY <2>1, CountIsNat
    <3>2. slots > 0
      BY <1>7 DEF Poll
    <3> QED
      BY <3>1, <3>2, ConstantsAssumption DEF ConstantsAssumption
  <2>3. todo \in SUBSET Sessions
    BY SessionType
  <2>4. [Idle EXCEPT !.at = "scan", !.todo = todo, !.slots = slots] \in LoopStates
    BY <2>2, <2>3, LoopMoves
  <2>5. loop' \in [Workers -> LoopStates]
    BY <1>7, <2>4 DEF Poll
  <2>6. exec' \in [Workers -> [Tasks -> ExecStates]]
    BY <1>7 DEF Poll
  <2> QED
    BY <1>7, <2>5, <2>6 DEF Poll, redis
<1>8. ASSUME NEW w \in Workers, Peek(w) PROVE TypeOK'
  <2>1. \A s \in loop[w].todo : s \in Sessions
    BY DEF LoopStates
  <2>2. \A s \in Sessions : NextSession(w, s, 0) \in LoopStates
    BY NextSessionType
  <2>3. \A s \in Sessions : \A t \in Head(s) : t \in Tasks
    BY DEF Head, Queue
  <2>4. \A t \in Tasks : [loop[w] EXCEPT !.at = "peeked", !.task = t] \in LoopStates
    <3>1. loop[w] \in LoopStates
      OBVIOUS
    <3> HIDE DEF TypeOK
    <3> QED
      BY <3>1, LoopMoves, 0 \in Nat, {} \in SUBSET Sessions
  <2>5. loop' \in [Workers -> LoopStates]
    <3>1. PICK s \in loop[w].todo :
            \/ loop' = [loop EXCEPT ![w] = NextSession(w, s, 0)]
            \/ \E t \in Head(s) :
                 loop' = [loop EXCEPT ![w] = [@ EXCEPT !.at = "peeked", !.task = t]]
      BY <1>8 DEF Peek
    <3>2. \E l \in LoopStates : loop' = [loop EXCEPT ![w] = l]
      BY <2>1, <2>2, <2>3, <2>4, <3>1
    <3> QED
      BY <3>2
  <2> QED
    BY <1>8, <2>5 DEF Peek, redis
<1>9. ASSUME NEW w \in Workers, Claim(w) PROVE TypeOK'
  <2>1. loop[w].task \in Tasks
    BY DEF LoopStates
  <2>2. NextSession(w, Session(loop[w].task), 0) \in LoopStates
    BY <2>1, NextSessionType, SessionType
  <2>3. [loop[w] EXCEPT !.at = "claimed"] \in LoopStates
    BY LoopAt
  <2>4. loop' \in [Workers -> LoopStates]
    BY <1>9, <2>2, <2>3 DEF Claim
  <2> QED
    BY <1>9, <2>4 DEF Claim
<1>10. ASSUME NEW w \in Workers, ListActive(w) PROVE TypeOK'
  <2>1. loop[w].task \in Tasks /\ Session(loop[w].task) \in Sessions
    BY SessionType DEF LoopStates
  <2>2. [loop[w] EXCEPT !.at = "listed"] \in LoopStates
    BY LoopAt
  <2>3. loop' \in [Workers -> LoopStates]
    BY <1>10, <2>2 DEF ListActive
  <2> QED
    BY <1>10, <2>1, <2>3 DEF ListActive
<1>11. ASSUME NEW w \in Workers, Spawn(w) PROVE TypeOK'
  <2>1. loop[w].task \in Tasks /\ Session(loop[w].task) \in Sessions
    BY SessionType DEF LoopStates
  <2>2. NextSession(w, Session(loop[w].task), 0) \in LoopStates
    BY <2>1, NextSessionType
  <2>3. NextSession(w, Session(loop[w].task), 1) \in LoopStates
    BY <2>1, NextSessionType
  <2>4. loop' \in [Workers -> LoopStates]
    BY <1>11, <2>2, <2>3 DEF Spawn
  <2>5. [exec[w][loop[w].task] EXCEPT !.at = "spawned"] \in ExecStates
    <3>1. exec[w][loop[w].task] \in ExecStates
      BY <2>1
    <3> QED
      BY <3>1, ExecMoves DEF Stages, Terminal
  <2>6. exec' \in [Workers -> [Tasks -> ExecStates]]
    <3> DEFINE t == loop[w].task
               e == [exec[w][t] EXCEPT !.at = "spawned"]
               moved == [exec EXCEPT ![w] = [@ EXCEPT ![t] = e]]
    <3>1. exec' = exec \/ exec' = moved
      BY <1>11 DEF Spawn
    <3>2. exec \in [Workers -> [Tasks -> ExecStates]] /\ t \in Tasks /\ e \in ExecStates
      BY <2>1, <2>5
    <3>3. moved \in [Workers -> [Tasks -> ExecStates]]
      <4> HIDE DEF TypeOK, t, e
      <4> QED
        BY <3>2, ExecUpdate
    <3> HIDE DEF TypeOK, moved
    <3> QED
      BY <3>1, <3>2, <3>3
  <2>7. status' \in [Tasks -> {"absent", "pending", "running"} \cup Terminal]
    BY <1>11 DEF Spawn
  <2> QED
    BY <1>11, <2>4, <2>6, <2>7 DEF Spawn
<1>12. ASSUME NEW w \in Workers, NEW t \in Tasks, ExecNext(w, t) PROVE TypeOK'
  <2>1. \A at \in Stages : /\ [NoRun EXCEPT !.at = at] \in ExecStates
                           /\ [exec[w][t] EXCEPT !.at = at] \in ExecStates
    <3>1. exec[w][t] \in ExecStates
      OBVIOUS
    <3> QED
      BY <3>1, ExecMoves DEF Terminal
  <2>2. \A out \in Terminal : [at |-> "saving", out |-> out] \in ExecStates
    BY DEF ExecStates, Stages
  <2>3. \E e \in ExecStates : exec' = [exec EXCEPT ![w] = [@ EXCEPT ![t] = e]]
    BY <1>12, <2>1, <2>2 DEF ExecNext, Begin, Finish, Unlist, Settle, Leave, Advance, Stages
  <2>4. exec' \in [Workers -> [Tasks -> ExecStates]]
    BY <2>3, ExecUpdate
  <2>5. status' \in [Tasks -> {"absent", "pending", "running"} \cup Terminal]
    <3>1. exec[w][t].out \in Terminal
      BY DEF ExecStates
    <3> QED
      BY <1>12, <3>1 DEF ExecNext, Begin, Finish, Unlist, Settle, Leave, redis
  <2>6. active' \in SUBSET ((Sessions \cup Agents) \X Tasks)
    BY <1>12 DEF ExecNext, Begin, Finish, Unlist, Settle, Leave, redis
  <2> QED
    BY <1>12, <2>4, <2>5, <2>6 DEF ExecNext, Begin, Finish, Unlist, Settle, Leave, redis
<1>13. ASSUME NEW w \in Workers, NEW t \in Tasks, TakeCancel(w, t) PROVE TypeOK'
  <2>1. [at |-> "read", task |-> t] \in ControlStates
    BY DEF ControlStates
  <2>2. ctl' \in [Workers -> ControlStates] /\ inbox' \in [Workers -> SUBSET Tasks]
    BY <1>13, <2>1 DEF TakeCancel
  <2> QED
    BY <1>13, <2>2 DEF TakeCancel, redis
<1>14. ASSUME NEW w \in Workers, CancelUnlist(w) PROVE TypeOK'
  <2>1. [ctl[w] EXCEPT !.at = "unlisted"] \in ControlStates
    BY ControlAt
  <2>2. ctl' \in [Workers -> ControlStates]
    BY <1>14, <2>1 DEF CancelUnlist
  <2> QED
    BY <1>14, <2>2 DEF CancelUnlist
<1>15. ASSUME NEW w \in Workers, CancelSettle(w) PROVE TypeOK'
  <2>1. status' \in [Tasks -> {"absent", "pending", "running"} \cup Terminal]
    BY <1>15 DEF CancelSettle, Terminal
  <2> QED
    BY <1>15, <2>1 DEF CancelSettle
<1>16. ASSUME NEW w \in Workers, StopWorker(w) PROVE TypeOK'
  <2>1. spent' \in SpentStates
    <3>1. {t \in Tasks : Owes(w, t)} \in SUBSET Tasks /\ spent.lost \in SUBSET Tasks
      OBVIOUS
    <3>2. spent.lost \cup {t \in Tasks : Owes(w, t)} \in SUBSET Tasks
      BY <3>1
    <3>3. spent' = [spent EXCEPT !.crashes = @ + 1,
                     !.lost = spent.lost \cup {t \in Tasks : Owes(w, t)}]
      BY <1>16 DEF StopWorker
    <3>4. spent.crashes < MaxCrashes
      BY <1>16 DEF StopWorker
    <3> HIDE DEF TypeOK
    <3> QED
      BY <3>2, <3>3, <3>4, SpentMoves
  <2>2. [t \in Tasks |-> NoRun] \in [Tasks -> ExecStates]
    OBVIOUS
  <2>3. exec' \in [Workers -> [Tasks -> ExecStates]]
    BY <1>16, <2>2 DEF StopWorker
  <2> QED
    BY <1>16, <2>1, <2>3 DEF StopWorker, redis, SpentStates
<1>17. ASSUME NEW w \in Workers, StartWorker(w) PROVE TypeOK'
  BY <1>17 DEF StartWorker, redis
<1>18. CASE UNCHANGED vars
  BY <1>18 DEF vars
<1>19. ASSUME NEW w \in Workers, DequeueFails(w) PROVE TypeOK'
  <2>1. spent' \in SpentStates
    <3>1. /\ spent.crashes < MaxCrashes
          /\ spent' = [spent EXCEPT !.crashes = @ + 1,
                        !.lost = spent.lost \cup {u \in Tasks : LoopHolds(w, u)}]
      BY <1>19 DEF DequeueFails
    <3>2. spent.lost \cup {u \in Tasks : LoopHolds(w, u)} \in SUBSET Tasks
      OBVIOUS
    <3> HIDE DEF TypeOK
    <3> QED
      BY <3>1, <3>2, SpentMoves
  <2>2. loop' \in [Workers -> LoopStates]
    <3>1. NextSession(w, Session(loop[w].task), 0) \in LoopStates
      BY <1>19, DequeueFailsMoves, NextSessionType, SessionType
    <3> QED
      BY <1>19, <3>1, DequeueFailsMoves
  <2>3. status' \in [Tasks -> {"absent", "pending", "running"} \cup Terminal]
    BY <1>19 DEF DequeueFails
  <2> QED
    BY <1>19, <2>1, <2>2, <2>3 DEF DequeueFails, SpentStates
<1>20. ASSUME NEW w \in Workers, NEW t \in Tasks, SettleFails(w, t) PROVE TypeOK'
  <2>1. spent' \in SpentStates
    <3>1. /\ spent.crashes < MaxCrashes
          /\ \/ spent' = [spent EXCEPT !.crashes = @ + 1]
             \/ \E S \in SUBSET Tasks : spent' = [spent EXCEPT !.crashes = @ + 1, !.lost = S]
      <4>1. /\ spent.lost \cup {t} \in SUBSET Tasks
            /\ (IF Owes(w, t) THEN spent.lost \cup {t} ELSE spent.lost) \in SUBSET Tasks
        OBVIOUS
      <4> HIDE DEF TypeOK
      <4> QED
        BY <1>20, <4>1 DEF SettleFails
    <3> HIDE DEF TypeOK
    <3> QED
      BY <3>1, SpentMoves
  <2>2. exec' \in [Workers -> [Tasks -> ExecStates]]
    <3>1. /\ exec' = [exec EXCEPT ![w] = [@ EXCEPT ![t] = exec'[w][t]]]
          /\ exec'[w][t] \in ExecStates
      BY <1>20, SettleFailsMoves
    <3>2. PICK e \in ExecStates : exec' = [exec EXCEPT ![w] = [@ EXCEPT ![t] = e]]
      BY <3>1
    <3> QED
      BY <3>2, ExecUpdate
  <2> QED
    BY <1>20, <2>1, <2>2 DEF SettleFails, redis, SpentStates
<1> HIDE DEF TypeOK
<1> QED
  BY <1>1, <1>2, <1>3, <1>4, <1>5, <1>6, <1>7, <1>8, <1>9, <1>10, <1>11, <1>12, <1>13, <1>14,
     <1>15, <1>16, <1>17, <1>18, <1>19, <1>20 DEF Next, ApiNext, LoopNext, ControlNext

\* Type correctness of the queue.
THEOREM TypeCorrect == Spec => []TypeOK
<1>1. Init => TypeOK
  <2> SUFFICES ASSUME Init PROVE TypeOK
    OBVIOUS
  <2>1. [t \in Tasks |-> NoRun] \in [Tasks -> ExecStates]
    BY IdleStates
  <2>2. spent \in SpentStates
    BY ConstantsAssumption DEF Init, ConstantsAssumption, SpentStates
  <2> QED
    BY <2>1, <2>2, IdleStates DEF Init, TypeOK, ApiStates, SpentStates
<1> QED
  BY <1>1, TypeStep, PTL DEF Spec

-----------------------------------------------------------------------------
(* Exclusive claims.  SingleClaim alone is not inductive: a task that is   *)
(* about to be added must be known to be with no worker either.            *)

Unqueued == {"new", "saved", "orphan"}

ClaimInv ==
  /\ \A t \in Tasks : api[t] \in Unqueued =>
       t \notin pending /\ \A w \in Workers : ~Holds(w, t)
  /\ SingleClaim

\* Steps that neither add a task nor claim one give no worker a task it had not.
LEMMA HoldsShrinks ==
  ASSUME TypeOK, [Next]_vars,
         ~ \E t \in Tasks : AddPending(t), ~ \E w \in Workers : Claim(w)
  PROVE  /\ pending' = pending
         /\ \A t \in Tasks : api'[t] \in Unqueued => api[t] \in Unqueued
         /\ \A w \in Workers, t \in Tasks : Holds(w, t)' => Holds(w, t)
<1> DEFINE Goal == /\ pending' = pending
                   /\ \A t \in Tasks : api'[t] \in Unqueued => api[t] \in Unqueued
                   /\ \A w \in Workers, t \in Tasks : Holds(w, t)' => Holds(w, t)
<1> USE DEF Holds, LoopHolds, Unqueued, TypeOK
<1>1. ASSUME NEW t \in Tasks, SaveTask(t) \/ Answer(t) \/ CrashApi(t) PROVE Goal
  BY <1>1 DEF SaveTask, Answer, CrashApi, redis, worker, Terminal
<1>2. ASSUME NEW t \in Tasks, CancelTask(t) \/ Expire(t) PROVE Goal
  BY <1>2 DEF CancelTask, Expire, redis, worker
<1>3. ASSUME NEW w \in Workers, Poll(w) PROVE Goal
  <2>1. loop'[w].at = "scan" /\ \A v \in Workers \ {w} : loop'[v] = loop[v] /\ exec'[v] = exec[v]
    BY <1>3 DEF Poll, Idle
  <2>2. \A t \in Tasks : exec'[w][t] \in {exec[w][t], NoRun}
    BY <1>3 DEF Poll
  <2> QED
    BY <1>3, <2>1, <2>2 DEF Poll, redis, NoRun
<1>4. ASSUME NEW w \in Workers, Peek(w) PROVE Goal
  <2>1. loop'[w].at \in {"idle", "scan", "peeked"} /\ \A v \in Workers \ {w} : loop'[v] = loop[v]
    <3>1. PICK s \in loop[w].todo :
            \/ loop' = [loop EXCEPT ![w] = NextSession(w, s, 0)]
            \/ \E t \in Head(s) :
                 loop' = [loop EXCEPT ![w] = [@ EXCEPT !.at = "peeked", !.task = t]]
      BY <1>4 DEF Peek
    <3>2. ASSUME NEW l, loop' = [loop EXCEPT ![w] = l], l.at \in {"idle", "scan", "peeked"}
          PROVE  loop'[w].at \in {"idle", "scan", "peeked"} /\
                 \A v \in Workers \ {w} : loop'[v] = loop[v]
      BY <3>2
    <3>3. CASE loop' = [loop EXCEPT ![w] = NextSession(w, s, 0)]
      BY <3>2, <3>3, NextSessionHolds
    <3>4. ASSUME NEW t \in Head(s),
                 loop' = [loop EXCEPT ![w] = [@ EXCEPT !.at = "peeked", !.task = t]]
          PROVE  loop'[w].at = "peeked" /\ \A v \in Workers \ {w} : loop'[v] = loop[v]
      BY <3>4 DEF LoopStates
    <3> QED
      BY <3>1, <3>3, <3>4
  <2> QED
    BY <1>4, <2>1 DEF Peek, redis
<1>5. ASSUME NEW w \in Workers, ListActive(w) PROVE Goal
  BY <1>5 DEF ListActive, LoopStates
<1>6. ASSUME NEW w \in Workers, Spawn(w) PROVE Goal
  <2> DEFINE u == loop[w].task
  <2>1. loop'[w].at \in {"idle", "scan"} /\ \A v \in Workers \ {w} : loop'[v] = loop[v]
    BY <1>6, NextSessionHolds DEF Spawn
  <2>2. \A v \in Workers, t \in Tasks : exec'[v][t] # exec[v][t] => v = w /\ t = u
    BY <1>6 DEF Spawn
  <2>3. loop[w].at = "listed" /\ pending' = pending /\ api' = api
    BY <1>6 DEF Spawn
  <2>4. ASSUME NEW v \in Workers, NEW t \in Tasks, Holds(v, t)' PROVE Holds(v, t)
    <3>1. CASE exec'[v][t] # exec[v][t]
      BY <2>2, <2>3, <3>1 DEF LoopHolds, Holds
    <3>2. CASE exec'[v][t] = exec[v][t]
      <4>1. LoopHolds(v, t)' => LoopHolds(v, t)
        BY <2>1 DEF LoopHolds
      <4> QED
        BY <2>4, <3>2, <4>1 DEF Holds
    <3> QED
      BY <3>1, <3>2
  <2> QED
    BY <2>3, <2>4
<1>7. ASSUME NEW w \in Workers, NEW t \in Tasks, ExecNext(w, t) PROVE Goal
  <2>1. exec[w][t].at # "none"
    BY <1>7 DEF ExecNext, Begin, Finish, Unlist, Settle, Leave, Advance
  <2>2. \A v \in Workers, u \in Tasks : exec'[v][u] # exec[v][u] => v = w /\ u = t
    BY <1>7 DEF ExecNext, Begin, Finish, Unlist, Settle, Leave, Advance
  <2>3. pending' = pending /\ api' = api /\ loop' = loop
    BY <1>7 DEF ExecNext, Begin, Finish, Unlist, Settle, Leave, redis
  <2> QED
    BY <2>1, <2>2, <2>3
<1>8. ASSUME NEW w \in Workers, ControlNext(w) PROVE Goal
  BY <1>8 DEF ControlNext, TakeCancel, CancelUnlist, CancelSettle, redis
<1>9. ASSUME NEW w \in Workers, StopWorker(w) PROVE Goal
  <2>1. loop'[w].at = "idle" /\ \A v \in Workers \ {w} : loop'[v] = loop[v] /\ exec'[v] = exec[v]
    BY <1>9 DEF StopWorker, Idle
  <2>2. \A t \in Tasks : exec'[w][t].at = "none"
    BY <1>9 DEF StopWorker, NoRun
  <2> QED
    BY <1>9, <2>1, <2>2 DEF StopWorker, redis
<1>10. ASSUME NEW w \in Workers, StartWorker(w) PROVE Goal
  BY <1>10 DEF StartWorker, redis
<1>11. ASSUME UNCHANGED vars PROVE Goal
  BY <1>11 DEF vars
<1>14. ASSUME NEW w \in Workers, DequeueFails(w) PROVE Goal
  <2> HIDE DEF TypeOK
  <2> QED
    BY <1>14, DequeueFailsMoves
<1>15. ASSUME NEW w \in Workers, NEW t \in Tasks, SettleFails(w, t) PROVE Goal
  <2> HIDE DEF TypeOK
  <2> QED
    BY <1>15, SettleFailsMoves
<1> SUFFICES Goal
  OBVIOUS
<1> HIDE DEF Goal, Holds, LoopHolds, Unqueued, TypeOK
<1>12. ASSUME NEW t \in Tasks, ApiNext(t) PROVE Goal
  BY <1>1, <1>2, <1>12 DEF ApiNext
<1>13. ASSUME NEW w \in Workers, LoopNext(w) PROVE Goal
  BY <1>3, <1>4, <1>5, <1>6, <1>13 DEF LoopNext
<1> QED
  BY <1>7, <1>8, <1>9, <1>10, <1>11, <1>12, <1>13, <1>14, <1>15 DEF Next

LEMMA ClaimStep == TypeOK /\ ClaimInv /\ [Next]_vars => ClaimInv'
<1> SUFFICES ASSUME TypeOK, ClaimInv, [Next]_vars PROVE ClaimInv'
  OBVIOUS
<1>1. ASSUME NEW t \in Tasks, AddPending(t) PROVE ClaimInv'
  <2>1. \A w \in Workers, u \in Tasks : Holds(w, u)' <=> Holds(w, u)
    BY <1>1 DEF AddPending, worker, Holds, LoopHolds
  <2>2. pending' = pending \cup {t} /\ api[t] = "saved"
    BY <1>1 DEF AddPending
  <2>3. \A u \in Tasks : api'[u] \in Unqueued => api[u] \in Unqueued /\ u # t
    BY <1>1 DEF AddPending, TypeOK, Unqueued
  <2> QED
    BY <2>1, <2>2, <2>3 DEF ClaimInv, SingleClaim, Unqueued
<1>2. ASSUME NEW w \in Workers, Claim(w) PROVE ClaimInv'
  <2> DEFINE t == loop[w].task
  <2>1. pending' = pending \ {t} /\ api' = api
    BY <1>2 DEF Claim
  <2>2. CASE t \in pending
    <3>1. \A v \in Workers, u \in Tasks : Holds(v, u)' => Holds(v, u) \/ (v = w /\ u = t)
      BY <1>2, <2>2 DEF Claim, Holds, LoopHolds, TypeOK, LoopStates
    <3>2. t \in Tasks /\ api[t] \notin Unqueued /\ \A v \in Workers : ~Holds(v, t)
      BY <2>2 DEF ClaimInv, SingleClaim, TypeOK
    <3> QED
      BY <2>1, <3>1, <3>2 DEF ClaimInv, SingleClaim
  <2>3. CASE t \notin pending
    <3>1. \A v \in Workers, u \in Tasks : Holds(v, u)' => Holds(v, u)
      <4>1. loop'[w].at \in {"idle", "scan"} /\ \A v \in Workers \ {w} : loop'[v] = loop[v]
        BY <1>2, <2>3, NextSessionHolds DEF Claim, TypeOK
      <4> QED
        BY <1>2, <4>1 DEF Claim, Holds, LoopHolds
    <3> QED
      BY <2>1, <3>1 DEF ClaimInv, SingleClaim
  <2> QED
    BY <2>2, <2>3
<1>3. CASE ~(\E t \in Tasks : AddPending(t)) /\ ~(\E w \in Workers : Claim(w))
  BY <1>3, HoldsShrinks DEF ClaimInv, SingleClaim
<1> QED
  BY <1>1, <1>2, <1>3

\* A task is with one worker at most, and with none while it is pending: what
\* zrem's answer in _dequeue_task is for.
THEOREM ClaimsAreExclusive == Spec => []SingleClaim
<1>1. Init => ClaimInv
  BY DEF Init, ClaimInv, SingleClaim, Holds, LoopHolds, Idle, NoRun
<1>2. ClaimInv => SingleClaim
  BY DEF ClaimInv
<1> QED
  BY <1>1, <1>2, ClaimStep, TypeCorrect, PTL DEF Spec

-----------------------------------------------------------------------------
(* The pool.  The slots counted at the beginning of a poll are an upper    *)
(* bound until its end: only the loop itself adds to _running_tasks.       *)

SlotInv ==
  \A w \in Workers :
    /\ Cardinality(Running(w)) + loop[w].slots <= PoolSize
    /\ loop[w].at # "idle" => loop[w].slots > 0

LEMMA CountGrows ==
  ASSUME NEW S \in SUBSET Tasks, NEW T \in SUBSET Tasks, NEW t \in Tasks
  PROVE  /\ S \subseteq T => Cardinality(S) <= Cardinality(T)
         /\ Cardinality(T \cup {t}) <= Cardinality(T) + 1
<1>1. IsFiniteSet(T)
  BY CountIsNat
<1>2. S \subseteq T => Cardinality(S) <= Cardinality(T)
  BY <1>1, FS_Subset
<1>3. Cardinality(T \cup {t}) = IF t \in T THEN Cardinality(T) ELSE Cardinality(T) + 1
  BY <1>1, FS_AddElement
<1> QED
  BY <1>2, <1>3, CountIsNat

LEMMA NextSessionSlots ==
  ASSUME TypeOK, NEW w \in Workers, NEW s, NEW n \in {0, 1}, loop[w].slots > 0
  PROVE  LET l == NextSession(w, s, n)
         IN  l.slots \in Nat /\ l.slots <= loop[w].slots - n /\ (l.at # "idle" => l.slots > 0)
<1>1. loop[w].slots \in Nat
  BY DEF TypeOK, LoopStates
<1> QED
  BY <1>1 DEF NextSession, Idle

\* A worker whose asyncio tasks and whose slots do not grow keeps its bound.
LEMMA SlotsKept ==
  ASSUME TypeOK, SlotInv, TypeOK', NEW w \in Workers, Running(w)' \subseteq Running(w),
         loop'[w].slots <= loop[w].slots, loop'[w].at # "idle" => loop'[w].slots > 0
  PROVE  /\ Cardinality(Running(w))' + loop'[w].slots <= PoolSize
         /\ loop'[w].at # "idle" => loop'[w].slots > 0
<1>1. Running(w) \in SUBSET Tasks /\ Running(w)' \in SUBSET Tasks
  BY DEF Running
<1>2. Cardinality(Running(w)') <= Cardinality(Running(w))
  BY <1>1, CountGrows, SomeTask
<1>3. Cardinality(Running(w)') \in Nat /\ Cardinality(Running(w)) \in Nat
  BY <1>1, CountIsNat
<1>4. loop[w].slots \in Nat /\ loop'[w].slots \in Nat /\ PoolSize \in Nat
  BY ConstantsAssumption DEF ConstantsAssumption, TypeOK, LoopStates
<1> QED
  BY <1>2, <1>3, <1>4 DEF SlotInv

LEMMA SlotStep == TypeOK /\ TypeOK' /\ SlotInv /\ [Next]_vars => SlotInv'
<1> SUFFICES ASSUME TypeOK, TypeOK', SlotInv, [Next]_vars, NEW v \in Workers
             PROVE  /\ Cardinality(Running(v))' + loop'[v].slots <= PoolSize
                    /\ loop'[v].at # "idle" => loop'[v].slots > 0
  BY DEF SlotInv
<1> DEFINE Goal == /\ Cardinality(Running(v))' + loop'[v].slots <= PoolSize
                   /\ loop'[v].at # "idle" => loop'[v].slots > 0
<1> SUFFICES Goal
  OBVIOUS
<1>a. loop[v].slots \in Nat /\ (loop[v].at # "idle" => loop[v].slots > 0)
  BY DEF TypeOK, LoopStates, SlotInv
<1>b. loop'[v] = loop[v] /\ Running(v)' \subseteq Running(v) => Goal
  BY SlotsKept, <1>a
<1> HIDE DEF Goal
<1>1. ASSUME NEW w \in Workers, Poll(w) PROVE Goal
  <2>1. CASE v # w
    <3>1. loop'[v] = loop[v] /\ exec'[v] = exec[v]
      BY <1>1, <2>1 DEF Poll, TypeOK
    <3> QED
      BY <3>1, <1>b DEF Running
  <2>2. CASE v = w
    <3> DEFINE left == {t \in Running(v) : exec[v][t].at # "done"}
               slots == PoolSize - Cardinality(left)
    <3>1. Running(v)' = left
      BY <1>1, <2>2 DEF Poll, Running, TypeOK, NoRun
    <3>2. loop'[v].slots = slots /\ slots > 0
      BY <1>1, <2>2 DEF Poll, TypeOK, Idle
    <3>3. Cardinality(left) \in Nat /\ PoolSize \in Nat
      BY CountIsNat, ConstantsAssumption DEF Running, ConstantsAssumption
    <3> HIDE DEF left
    <3> QED
      BY <3>1, <3>2, <3>3 DEF Goal
  <2> QED
    BY <2>1, <2>2
<1>2. ASSUME NEW w \in Workers, Peek(w) PROVE Goal
  <2>1. exec' = exec
    BY <1>2 DEF Peek
  <2>2. CASE v # w
    <3>1. loop'[v] = loop[v]
      BY <1>2, <2>2 DEF Peek, TypeOK
    <3> QED
      BY <3>1, <2>1, <1>b DEF Running
  <2>3. CASE v = w
    <3>1. loop[v].slots > 0
      BY <1>a, <1>2, <2>3 DEF Peek
    <3>2. loop'[v].slots <= loop[v].slots /\ (loop'[v].at # "idle" => loop'[v].slots > 0)
      <4>1. PICK s \in loop[w].todo :
              \/ loop' = [loop EXCEPT ![w] = NextSession(w, s, 0)]
              \/ \E t \in Head(s) :
                   loop' = [loop EXCEPT ![w] = [@ EXCEPT !.at = "peeked", !.task = t]]
        BY <1>2 DEF Peek
      <4>2. CASE loop' = [loop EXCEPT ![w] = NextSession(w, s, 0)]
        <5>1. loop'[v] = NextSession(v, s, 0)
          BY <2>3, <4>2 DEF TypeOK
        <5> QED
          BY <5>1, <3>1, <1>a, NextSessionSlots
      <4>3. CASE \E t \in Head(s) :
                   loop' = [loop EXCEPT ![w] = [@ EXCEPT !.at = "peeked", !.task = t]]
        <5>1. loop'[v].slots = loop[v].slots
          BY <4>3, <2>3 DEF TypeOK, LoopStates
        <5> QED
          BY <5>1, <3>1, <1>a
      <4> QED
        BY <4>1, <4>2, <4>3
    <3> QED
      BY <3>2, <2>1, SlotsKept DEF Running, Goal
  <2> QED
    BY <2>2, <2>3
<1>3. ASSUME NEW w \in Workers, Claim(w) \/ ListActive(w) PROVE Goal
  <2>1. exec' = exec
    BY <1>3 DEF Claim, ListActive
  <2>2. CASE v # w
    <3>1. loop'[v] = loop[v]
      BY <1>3, <2>2 DEF Claim, ListActive, TypeOK
    <3> QED
      BY <3>1, <2>1, <1>b DEF Running
  <2>3. CASE v = w
    <3>1. loop[v].slots > 0
      BY <1>a, <1>3, <2>3 DEF Claim, ListActive
    <3>2. \/ loop'[v] = NextSession(v, Session(loop[v].task), 0)
          \/ loop'[v].slots = loop[v].slots
      BY <1>3, <2>3 DEF Claim, ListActive, TypeOK, LoopStates
    <3>3. loop'[v].slots <= loop[v].slots /\ (loop'[v].at # "idle" => loop'[v].slots > 0)
      BY <3>1, <3>2, <1>a, NextSessionSlots
    <3> QED
      BY <3>3, <2>1, SlotsKept DEF Running, Goal
  <2> QED
    BY <2>2, <2>3
<1>4. ASSUME NEW w \in Workers, Spawn(w) PROVE Goal
  <2> DEFINE t == loop[w].task
  <2>1. t \in Tasks
    BY DEF TypeOK, LoopStates
  <2>2. CASE v # w
    <3>1. loop'[v] = loop[v] /\ exec'[v] = exec[v]
      BY <1>4, <2>2 DEF Spawn, TypeOK
    <3> QED
      BY <3>1, <1>b DEF Running
  <2>3. CASE v = w
    <3>1. loop[v].slots > 0
      BY <1>a, <1>4, <2>3 DEF Spawn
    <3>2. CASE status[t] = "absent"
      <4>1. exec' = exec /\ loop'[v] = NextSession(v, Session(t), 0)
        BY <1>4, <2>3, <3>2 DEF Spawn, TypeOK
      <4>2. loop'[v].slots <= loop[v].slots /\ (loop'[v].at # "idle" => loop'[v].slots > 0)
        BY <4>1, <3>1, <1>a, NextSessionSlots
      <4> QED
        BY <4>1, <4>2, SlotsKept DEF Running, Goal
    <3>3. CASE status[t] # "absent"
      <4>1. loop'[v] = NextSession(v, Session(t), 1)
        BY <1>4, <2>3, <3>3 DEF Spawn, TypeOK
      <4>2. /\ loop'[v].slots \in Nat
            /\ loop'[v].slots <= loop[v].slots - 1
            /\ loop'[v].at # "idle" => loop'[v].slots > 0
        BY <4>1, <3>1, NextSessionSlots
      <4>3. Running(v)' \subseteq Running(v) \cup {t}
        BY <1>4, <2>3, <3>3 DEF Spawn, Running, TypeOK
      <4>4. Running(v)' \in SUBSET Tasks /\ Running(v) \in SUBSET Tasks
            /\ Running(v) \cup {t} \in SUBSET Tasks
        BY <2>1 DEF Running
      <4>5. Cardinality(Running(v)') <= Cardinality(Running(v)) + 1
        <5>1. Cardinality(Running(v)') <= Cardinality(Running(v) \cup {t})
          BY <4>3, <4>4, <2>1, CountGrows
        <5>2. Cardinality(Running(v) \cup {t}) <= Cardinality(Running(v)) + 1
          BY <4>4, <2>1, CountGrows
        <5> QED
          BY <5>1, <5>2, <4>4, CountIsNat
      <4>6. /\ Cardinality(Running(v)) \in Nat /\ Cardinality(Running(v)') \in Nat
            /\ PoolSize \in Nat /\ Cardinality(Running(v)) + loop[v].slots <= PoolSize
        BY <4>4, CountIsNat, ConstantsAssumption DEF ConstantsAssumption, SlotInv
      <4> QED
        BY <4>2, <4>5, <4>6, <1>a DEF Goal
    <3> QED
      BY <3>2, <3>3
  <2> QED
    BY <2>2, <2>3
<1>5. ASSUME NEW w \in Workers, NEW t \in Tasks, ExecNext(w, t) PROVE Goal
  <2>1. loop' = loop
    BY <1>5 DEF ExecNext, Begin, Finish, Unlist, Settle, Leave
  <2>2. exec[w][t].at # "none"
    BY <1>5 DEF ExecNext, Begin, Finish, Unlist, Settle, Leave, Advance
  <2>3. \A u \in Tasks : exec'[v][u] # exec[v][u] => v = w /\ u = t
    BY <1>5 DEF ExecNext, Begin, Finish, Unlist, Settle, Leave, Advance, TypeOK
  <2> QED
    BY <2>1, <2>2, <2>3, <1>b DEF Running
<1>6. ASSUME NEW w \in Workers, StopWorker(w) PROVE Goal
  <2>1. CASE v # w
    <3>1. loop'[v] = loop[v] /\ exec'[v] = exec[v]
      BY <1>6, <2>1 DEF StopWorker, TypeOK
    <3> QED
      BY <3>1, <1>b DEF Running
  <2>2. CASE v = w
    <3>1. loop'[v].slots = 0 /\ loop'[v].at = "idle" /\ Running(v)' = {}
      <4>1. loop'[v] = Idle
        BY <1>6, <2>2 DEF StopWorker, TypeOK
      <4>2. \A t \in Tasks : exec'[v][t] = NoRun
        BY <1>6, <2>2 DEF StopWorker, TypeOK
      <4> QED
        BY <4>1, <4>2 DEF Running, Idle, NoRun
    <3>2. /\ Running(v)' \subseteq Running(v) /\ loop'[v].slots <= loop[v].slots
          /\ loop'[v].at # "idle" => loop'[v].slots > 0
      BY <3>1, <1>a
    <3> QED
      BY <3>2, SlotsKept DEF Goal
  <2> QED
    BY <2>1, <2>2
<1>7. CASE loop' = loop /\ exec' = exec
  BY <1>7, <1>b DEF Running
<1>8. ASSUME NEW t \in Tasks, ApiNext(t) PROVE loop' = loop /\ exec' = exec
  BY <1>8 DEF ApiNext, SaveTask, AddPending, Answer, CrashApi, CancelTask, Expire, worker
<1>9. ASSUME NEW w \in Workers, ControlNext(w) \/ StartWorker(w) PROVE loop' = loop /\ exec' = exec
  BY <1>9 DEF ControlNext, TakeCancel, CancelUnlist, CancelSettle, StartWorker
<1>10. CASE UNCHANGED vars
  BY <1>10, <1>7 DEF vars
<1>11. ASSUME NEW w \in Workers, LoopNext(w) PROVE Goal
  BY <1>1, <1>2, <1>3, <1>4, <1>11 DEF LoopNext
<1>12. ASSUME NEW w \in Workers, DequeueFails(w) PROVE Goal
  <2>1. CASE v # w
    BY <1>12, <2>1, <1>b, DequeueFailsMoves DEF Running
  <2>2. CASE v = w
    <3>1. /\ loop'[v].slots <= loop[v].slots /\ (loop'[v].at # "idle" => loop'[v].slots > 0)
          /\ Running(v)' \subseteq Running(v)
      BY <1>12, <2>2, <1>a, DequeueFailsMoves, NextSessionSlots DEF Running
    <3> QED
      BY <3>1, SlotsKept DEF Goal
  <2> QED
    BY <2>1, <2>2
<1>13. ASSUME NEW w \in Workers, NEW t \in Tasks, SettleFails(w, t) PROVE Goal
  <2>1. loop'[v] = loop[v] /\ Running(v)' \subseteq Running(v)
    BY <1>13, SettleFailsMoves DEF Running
  <2> QED
    BY <2>1, <1>b
<1> QED
  BY <1>5, <1>6, <1>7, <1>8, <1>9, <1>10, <1>11, <1>12, <1>13 DEF Next

\* No worker ever runs more asyncio tasks than its pool_size.
THEOREM PoolNeverExceeded == Spec => []PoolBound
<1>1. Init => SlotInv
  <2> SUFFICES ASSUME Init, NEW w \in Workers
               PROVE  /\ Cardinality(Running(w)) + loop[w].slots <= PoolSize
                      /\ loop[w].at # "idle" => loop[w].slots > 0
    BY DEF SlotInv
  <2>1. Running(w) = {} /\ loop[w].slots = 0 /\ loop[w].at = "idle"
    BY DEF Init, Running, Idle, NoRun
  <2> QED
    BY <2>1, FS_EmptySet, ConstantsAssumption DEF ConstantsAssumption
<1>2. TypeOK /\ SlotInv => PoolBound
  <2> SUFFICES ASSUME TypeOK, SlotInv, NEW w \in Workers
               PROVE  Cardinality(Running(w)) <= PoolSize
    BY DEF PoolBound
  <2>1. loop[w].slots \in Nat /\ Cardinality(Running(w)) \in Nat /\ PoolSize \in Nat
    BY CountIsNat, ConstantsAssumption DEF ConstantsAssumption, TypeOK, LoopStates, Running
  <2> QED
    BY <2>1 DEF SlotInv
<1> QED
  BY <1>1, <1>2, SlotStep, TypeCorrect, PTL DEF Spec

-----------------------------------------------------------------------------
(* The record and the execution.  What makes RecordTracksExecution         *)
(* inductive: the loop lets a task go before its asyncio task has it, and  *)
(* nothing was completed of a task that was not added yet.                 *)

Early(w, t) == LoopHolds(w, t) \/ exec[w][t].at \in {"spawned", "executing"}

Tracked(t) ==
  /\ \A w \in Workers :
       /\ exec[w][t].at \in {"spawned", "executing"} =>
            status[t] \in {"running", "failed", "absent"}
       /\ LoopHolds(w, t) => exec[w][t].at = "none"
  /\ status[t] = "completed" \/ api[t] = "completed" =>
       t \notin pending /\ \A w \in Workers : ~Early(w, t)
  /\ status[t] = "completed" => api[t] \notin Unqueued

RecordInv == \A t \in Tasks : Tracked(t)

\* A step that leaves record and answer of a task, and brings it no nearer to a worker.
LEMMA TrackedStays ==
  ASSUME NEW t \in Tasks, Tracked(t),
         status'[t] = status[t] \/ status'[t] \in {"failed", "absent"},
         api'[t] = "completed" => "completed" \in {status[t], api[t]},
         t \in pending' => t \in pending,
         api'[t] \in Unqueued => api[t] \in Unqueued,
         \A w \in Workers : /\ LoopHolds(w, t)' => LoopHolds(w, t)
                            /\ exec'[w][t].at \in {exec[w][t].at, "none"}
  PROVE  Tracked(t)'
BY DEF Tracked, Early

LEMMA RecordStep == TypeOK /\ ClaimInv /\ RecordInv /\ [Next]_vars => RecordInv'
<1> SUFFICES ASSUME TypeOK, ClaimInv, RecordInv, [Next]_vars, NEW t \in Tasks PROVE Tracked(t)'
  BY DEF RecordInv
<1>0. Tracked(t)
  BY DEF RecordInv
<1>a. \A w \in Workers : LoopHolds(w, t) \/ exec[w][t].at # "none" => Holds(w, t)
  BY DEF Holds
<1>1. ASSUME NEW u \in Tasks, SaveTask(u) PROVE Tracked(t)'
  <2>1. /\ loop' = loop /\ exec' = exec /\ pending' = pending
        /\ api[u] = "new" /\ api'[u] = "saved" /\ status'[u] = "pending"
        /\ u # t => api'[t] = api[t] /\ status'[t] = status[t]
    BY <1>1 DEF SaveTask, worker, TypeOK
  <2>2. CASE u # t
    BY <1>0, <2>1, <2>2, TrackedStays DEF LoopHolds
  <2>3. CASE u = t
    <3>1. \A w \in Workers : ~LoopHolds(w, t) /\ exec[w][t].at = "none"
      BY <1>a, <2>1, <2>3 DEF ClaimInv, Unqueued
    <3> QED
      BY <2>1, <2>3, <3>1 DEF Tracked, LoopHolds
  <2> QED
    BY <2>2, <2>3
<1>2. ASSUME NEW u \in Tasks, AddPending(u) PROVE Tracked(t)'
  <2>1. /\ loop' = loop /\ exec' = exec /\ status' = status /\ pending' = pending \cup {u}
        /\ api[u] = "saved" /\ api'[u] = "waiting"
        /\ u # t => api'[t] = api[t]
    BY <1>2 DEF AddPending, worker, TypeOK
  <2>2. CASE u # t
    BY <1>0, <2>1, <2>2, TrackedStays DEF LoopHolds
  <2>3. CASE u = t
    BY <1>0, <2>1, <2>3 DEF Tracked, LoopHolds, Early, Unqueued
  <2> QED
    BY <2>2, <2>3
<1>3. ASSUME NEW u \in Tasks, Answer(u) \/ CrashApi(u) \/ CancelTask(u) \/ Expire(u)
      PROVE  Tracked(t)'
  <2>1. loop' = loop /\ exec' = exec /\ pending' = pending
    BY <1>3 DEF Answer, CrashApi, CancelTask, Expire, redis, worker
  <2>2. status'[t] = status[t] \/ status'[t] = "absent"
    BY <1>3 DEF Answer, CrashApi, CancelTask, Expire, redis, TypeOK
  <2>3. /\ api'[t] = "completed" => "completed" \in {status[t], api[t]}
        /\ api'[t] \in Unqueued => api[t] \in Unqueued
    BY <1>3 DEF Answer, CrashApi, CancelTask, Expire, TypeOK, Terminal, Unqueued
  <2> QED
    BY <1>0, <2>1, <2>2, <2>3, TrackedStays DEF LoopHolds
<1>4. ASSUME NEW w \in Workers, Poll(w) PROVE Tracked(t)'
  <2>1. /\ pending' = pending /\ api' = api /\ status' = status /\ loop'[w].at = "scan"
        /\ \A v \in Workers \ {w} : loop'[v] = loop[v] /\ exec'[v] = exec[v]
    BY <1>4 DEF Poll, redis, TypeOK, Idle
  <2>2. exec'[w][t] = exec[w][t] \/ exec'[w][t] = NoRun
    BY <1>4 DEF Poll, TypeOK
  <2>3. \A v \in Workers : (LoopHolds(v, t)' => LoopHolds(v, t))
                             /\ exec'[v][t].at \in {exec[v][t].at, "none"}
    BY <2>1, <2>2 DEF LoopHolds, NoRun
  <2> QED
    BY <1>0, <2>1, <2>3, TrackedStays
<1>5. ASSUME NEW w \in Workers, Peek(w) PROVE Tracked(t)'
  <2>1. /\ pending' = pending /\ api' = api /\ status' = status /\ exec' = exec
        /\ \A v \in Workers \ {w} : loop'[v] = loop[v]
    BY <1>5 DEF Peek, redis, TypeOK
  <2>2. loop'[w].at \in {"idle", "scan", "peeked"}
    <3>1. PICK s \in loop[w].todo :
            \/ loop' = [loop EXCEPT ![w] = NextSession(w, s, 0)]
            \/ \E u \in Head(s) :
                 loop' = [loop EXCEPT ![w] = [@ EXCEPT !.at = "peeked", !.task = u]]
      BY <1>5 DEF Peek
    <3>2. CASE loop' = [loop EXCEPT ![w] = NextSession(w, s, 0)]
      BY <3>2, NextSessionHolds DEF TypeOK
    <3>3. ASSUME NEW u \in Head(s),
                 loop' = [loop EXCEPT ![w] = [@ EXCEPT !.at = "peeked", !.task = u]]
          PROVE  loop'[w].at = "peeked"
      BY <3>3 DEF TypeOK, LoopStates
    <3> QED
      BY <3>1, <3>2, <3>3
  <2> QED
    BY <1>0, <2>1, <2>2, TrackedStays DEF LoopHolds
<1>6. ASSUME NEW w \in Workers, Claim(w) PROVE Tracked(t)'
  <2>1. /\ api' = api /\ status' = status /\ exec' = exec /\ pending' = pending \ {loop[w].task}
        /\ \A v \in Workers \ {w} : loop'[v] = loop[v]
    BY <1>6 DEF Claim, TypeOK
  <2>2. CASE loop[w].task \notin pending \/ loop[w].task # t
    <3>1. LoopHolds(w, t)' => LoopHolds(w, t)
      <4>1. loop[w].task \in pending => loop'[w].task = loop[w].task
        BY <1>6 DEF Claim, TypeOK, LoopStates
      <4>2. loop[w].task \notin pending => loop'[w].at \in {"idle", "scan"}
        BY <1>6, NextSessionHolds DEF Claim, TypeOK
      <4> QED
        BY <2>2, <4>1, <4>2 DEF LoopHolds
    <3> QED
      BY <1>0, <2>1, <3>1, TrackedStays DEF LoopHolds
  <2>3. CASE loop[w].task \in pending /\ loop[w].task = t
    <3>1. \A v \in Workers : ~LoopHolds(v, t) /\ exec[v][t].at = "none"
      BY <1>a, <2>3 DEF ClaimInv, SingleClaim
    <3>2. \A v \in Workers \ {w} : ~LoopHolds(v, t)'
      BY <2>1, <3>1 DEF LoopHolds
    <3> QED
      BY <1>0, <2>1, <2>3, <3>1, <3>2 DEF Tracked, Early
  <2> QED
    BY <2>2, <2>3
<1>7. ASSUME NEW w \in Workers, ListActive(w) PROVE Tracked(t)'
  <2>1. /\ pending' = pending /\ api' = api /\ status' = status /\ exec' = exec
        /\ loop[w].at = "claimed" /\ loop'[w].task = loop[w].task
        /\ \A v \in Workers \ {w} : loop'[v] = loop[v]
    BY <1>7 DEF ListActive, TypeOK, LoopStates
  <2> QED
    BY <1>0, <2>1, TrackedStays DEF LoopHolds
<1>8. ASSUME NEW w \in Workers, Spawn(w) PROVE Tracked(t)'
  <2>1. /\ pending' = pending /\ api' = api /\ loop[w].at = "listed"
        /\ \A v \in Workers \ {w} : loop'[v] = loop[v] /\ exec'[v] = exec[v]
        /\ loop[w].task # t => status'[t] = status[t] /\ exec'[w][t] = exec[w][t]
    BY <1>8 DEF Spawn, TypeOK
  <2>2. ~LoopHolds(w, t)'
    <3>1. loop'[w].at \in {"idle", "scan"}
      BY <1>8, NextSessionHolds DEF Spawn, TypeOK
    <3> QED
      BY <3>1 DEF LoopHolds
  <2>3. CASE loop[w].task # t \/ status[t] = "absent"
    <3>1. status'[t] = status[t] /\ exec'[w][t] = exec[w][t]
      BY <1>8, <2>1, <2>3 DEF Spawn, TypeOK
    <3> QED
      BY <1>0, <2>1, <2>2, <3>1, TrackedStays DEF LoopHolds
  <2>4. CASE loop[w].task = t /\ status[t] # "absent"
    <3>1. status'[t] = "running" /\ exec'[w][t].at = "spawned"
      BY <1>8, <2>4 DEF Spawn, TypeOK, ExecStates
    <3>2. LoopHolds(w, t)
      BY <2>1, <2>4 DEF LoopHolds
    <3>3. api[t] # "completed"
      BY <1>0, <3>2 DEF Tracked, Early
    <3>4. \A v \in Workers \ {w} : ~LoopHolds(v, t)' /\ exec'[v][t].at = "none"
      <4>1. \A v \in Workers \ {w} : ~LoopHolds(v, t) /\ exec[v][t].at = "none"
        BY <1>a, <3>2 DEF ClaimInv, SingleClaim
      <4> QED
        BY <2>1, <4>1 DEF LoopHolds
    <3> QED
      BY <2>1, <2>2, <3>1, <3>3, <3>4 DEF Tracked
  <2> QED
    BY <2>3, <2>4
<1>9. ASSUME NEW w \in Workers, NEW u \in Tasks, ExecNext(w, u) PROVE Tracked(t)'
  <2>1. /\ loop' = loop /\ pending' = pending /\ api' = api /\ exec[w][u].at # "none"
        /\ \A v \in Workers : v # w \/ u # t => exec'[v][t] = exec[v][t]
        /\ u # t => status'[t] = status[t]
    BY <1>9 DEF ExecNext, Begin, Finish, Unlist, Settle, Leave, Advance, redis, TypeOK
  <2>2. CASE u # t
    BY <1>0, <2>1, <2>2, TrackedStays DEF LoopHolds
  <2>3. CASE u = t
    <3>1. \A v \in Workers : ~LoopHolds(v, t) /\ (v # w => exec[v][t].at = "none")
      <4>1. ~LoopHolds(w, t)
        BY <1>0, <2>1, <2>3 DEF Tracked
      <4>2. \A v \in Workers \ {w} : ~Holds(v, t)
        BY <1>a, <2>1, <2>3 DEF ClaimInv, SingleClaim
      <4> QED
        BY <4>1, <4>2 DEF Holds
    <3>2. t \notin pending /\ api[t] \notin Unqueued
      BY <1>a, <2>1, <2>3 DEF ClaimInv, SingleClaim
    <3>3. \A v \in Workers : ~LoopHolds(v, t)' /\ (v # w => exec'[v][t].at = "none")
      BY <2>1, <3>1 DEF LoopHolds
    <3>4. \/ /\ exec[w][t].at = "spawned" /\ exec'[w][t].at = "executing"
             /\ status'[t] = status[t]
          \/ exec'[w][t].at \notin {"spawned", "executing"}
      BY <1>9, <2>3 DEF ExecNext, Begin, Finish, Unlist, Settle, Leave, Advance, redis,
                        TypeOK, ExecStates, NoRun
    <3> QED
      BY <1>0, <2>1, <3>2, <3>3, <3>4 DEF Tracked, Early
  <2> QED
    BY <2>2, <2>3
<1>10. ASSUME NEW w \in Workers, ControlNext(w) PROVE Tracked(t)'
  <2>1. loop' = loop /\ exec' = exec /\ pending' = pending /\ api' = api
    BY <1>10 DEF ControlNext, TakeCancel, CancelUnlist, CancelSettle, redis
  <2>2. status'[t] = status[t] \/ status'[t] = "failed"
    BY <1>10 DEF ControlNext, TakeCancel, CancelUnlist, CancelSettle, redis, TypeOK
  <2> QED
    BY <1>0, <2>1, <2>2, TrackedStays DEF LoopHolds
<1>11. ASSUME NEW w \in Workers, StopWorker(w) PROVE Tracked(t)'
  <2>1. /\ pending' = pending /\ api' = api /\ status' = status
        /\ \A v \in Workers \ {w} : loop'[v] = loop[v] /\ exec'[v] = exec[v]
        /\ loop'[w].at = "idle" /\ exec'[w][t].at = "none"
    BY <1>11 DEF StopWorker, redis, TypeOK, Idle, NoRun
  <2> QED
    BY <1>0, <2>1, TrackedStays DEF LoopHolds
<1>12. ASSUME UNCHANGED <<loop, exec, pending, api, status>> PROVE Tracked(t)'
  BY <1>0, <1>12, TrackedStays DEF LoopHolds
<1>13. ASSUME NEW w \in Workers, StartWorker(w) PROVE Tracked(t)'
  BY <1>12, <1>13 DEF StartWorker, redis
<1>14. ASSUME UNCHANGED vars PROVE Tracked(t)'
  BY <1>12, <1>14 DEF vars
<1>15. ASSUME NEW w \in Workers, LoopNext(w) PROVE Tracked(t)'
  BY <1>4, <1>5, <1>6, <1>7, <1>8, <1>15 DEF LoopNext
<1>16. ASSUME NEW u \in Tasks, ApiNext(u) PROVE Tracked(t)'
  BY <1>1, <1>2, <1>3, <1>16 DEF ApiNext
<1>17. ASSUME NEW w \in Workers, DequeueFails(w) PROVE Tracked(t)'
  <2>1. /\ pending' = pending /\ api' = api /\ exec' = exec
        /\ \A v \in Workers : LoopHolds(v, t)' => LoopHolds(v, t)
    BY <1>17, DequeueFailsMoves DEF LoopHolds
  <2>2. CASE status'[t] = status[t]
    BY <1>0, <2>1, <2>2, TrackedStays
  <2>3. CASE status'[t] # status[t]
    <3>1. loop[w].at = "listed" /\ loop[w].task = t /\ status'[t] = "running"
      BY <1>17, <2>3 DEF DequeueFails, TypeOK
    <3>2. LoopHolds(w, t)
      BY <3>1 DEF LoopHolds
    <3>3. api[t] # "completed"
      BY <1>0, <3>2 DEF Tracked, Early
    <3> QED
      BY <1>0, <2>1, <3>1, <3>3 DEF Tracked
  <2> QED
    BY <2>2, <2>3
<1>18. ASSUME NEW w \in Workers, NEW u \in Tasks, SettleFails(w, u) PROVE Tracked(t)'
  <2>1. /\ loop' = loop /\ pending' = pending /\ api' = api /\ status' = status
        /\ \A v \in Workers : \/ exec'[v][t] = exec[v][t]
                             \/ /\ exec'[v][t].at \in {"saving", "done"}
                                /\ exec[v][t].at # "none"
    BY <1>18, SettleFailsMoves
  <2>2. \A v \in Workers : LoopHolds(v, t)' = LoopHolds(v, t)
    BY <2>1 DEF LoopHolds
  <2> QED
    BY <1>0, <2>1, <2>2 DEF Tracked, Early
<1> QED
  BY <1>9, <1>10, <1>11, <1>13, <1>14, <1>15, <1>16, <1>17, <1>18 DEF Next

\* What a client reads in the record agrees with where the execution is.
THEOREM RecordIsTrue == Spec => []RecordTracksExecution
<1>1. Init => ClaimInv /\ RecordInv
  BY DEF Init, ClaimInv, SingleClaim, RecordInv, Tracked, Early, Holds, LoopHolds, Idle, NoRun
<1>2. RecordInv => RecordTracksExecution
  BY DEF RecordInv, Tracked, Early, RecordTracksExecution
<1> QED
  BY <1>1, <1>2, RecordStep, ClaimStep, TypeCorrect, PTL DEF Spec

-----------------------------------------------------------------------------
(* Nothing dropped.  Besides the claims, it takes that an execution that   *)
(* has written its final status, or found no record, is not told running   *)
(* again.                                                                  *)

Accounted(t) ==
  \/ api[t] \in Unqueued \/ t \in pending
  \/ \E w \in Workers : Owes(w, t)
  \/ status[t] \in Terminal \cup {"absent"}
  \/ t \in spent.lost

\* A step that keeps, or gives a final status to, what accounts for a task.
LEMMA AccountKept ==
  ASSUME NEW t \in Tasks, Accounted(t),
         api[t] \in Unqueued => api'[t] \in Unqueued \/ t \in pending',
         t \in pending => t \in pending' \/ \E w \in Workers : Owes(w, t)',
         \A w \in Workers : Owes(w, t) =>
            Owes(w, t)' \/ status'[t] \in Terminal \cup {"absent"} \/ t \in spent'.lost,
         \/ status'[t] = status[t]
         \/ status'[t] \in Terminal \cup {"absent"}
         \/ \E w \in Workers : Owes(w, t)'
         \/ api'[t] \in Unqueued \/ t \in spent'.lost,
         t \in spent.lost => t \in spent'.lost
  PROVE  Accounted(t)'
BY DEF Accounted

LEMMA AccountStep ==
  TypeOK /\ ClaimInv /\ RecordInv /\ NothingDropped /\ [Next]_vars => NothingDropped'
<1> SUFFICES ASSUME TypeOK, ClaimInv, RecordInv, NothingDropped, [Next]_vars, NEW t \in Tasks
             PROVE  Accounted(t)'
  BY DEF NothingDropped, Accounted, Unqueued
<1>0. Accounted(t) /\ Tracked(t)
  BY DEF NothingDropped, Accounted, Unqueued, RecordInv
<1>a. ASSUME loop' = loop, exec' = exec PROVE \A w \in Workers : Owes(w, t)' <=> Owes(w, t)
  BY <1>a DEF Owes, Holds, LoopHolds
<1>1. ASSUME NEW u \in Tasks, ApiNext(u) PROVE Accounted(t)'
  <2>1. loop' = loop /\ exec' = exec
    BY <1>1 DEF ApiNext, SaveTask, AddPending, Answer, CrashApi, CancelTask, Expire, worker
  <2>2. /\ t \in pending => t \in pending'
        /\ api[t] \in Unqueued => api'[t] \in Unqueued \/ t \in pending'
        /\ \/ status'[t] = status[t] \/ status'[t] = "absent" \/ api'[t] \in Unqueued
    BY <1>1 DEF ApiNext, SaveTask, AddPending, Answer, CrashApi, CancelTask, Expire, redis, worker,
                TypeOK, Unqueued
  <2>3. spent'.lost = spent.lost
    BY <1>1 DEF ApiNext, SaveTask, AddPending, Answer, CrashApi, CancelTask, Expire, TypeOK
  <2> QED
    BY <1>0, <1>a, <2>1, <2>2, <2>3, AccountKept
<1>2. ASSUME NEW w \in Workers, Poll(w) PROVE Accounted(t)'
  <2>1. /\ api' = api /\ status' = status /\ pending' = pending /\ spent' = spent
        /\ loop[w].at = "idle" /\ loop'[w].at = "scan"
        /\ \A v \in Workers \ {w} : loop'[v] = loop[v] /\ exec'[v] = exec[v]
    BY <1>2 DEF Poll, redis, TypeOK, Idle
  <2>2. Owes(w, t) => exec'[w][t] = exec[w][t]
    <3> SUFFICES ASSUME Owes(w, t) PROVE exec'[w][t] = exec[w][t]
      OBVIOUS
    <3>1. exec[w][t].at \notin {"none", "written", "done"}
      BY <2>1 DEF Owes, Holds, LoopHolds
    <3>2. t \in {u \in Running(w) : exec[w][u].at # "done"}
      BY <3>1 DEF Running
    <3> QED
      BY <1>2, <3>2 DEF Poll, TypeOK
  <2>3. \A v \in Workers : Owes(v, t) => Owes(v, t)'
    BY <2>1, <2>2 DEF Owes, Holds, LoopHolds
  <2> QED
    BY <1>0, <2>1, <2>3, AccountKept
<1>3. ASSUME NEW w \in Workers, Peek(w) PROVE Accounted(t)'
  <2>1. /\ pending' = pending /\ api' = api /\ status' = status /\ exec' = exec /\ spent' = spent
        /\ loop[w].at = "scan" /\ \A v \in Workers \ {w} : loop'[v] = loop[v]
    BY <1>3 DEF Peek, redis, TypeOK
  <2>2. \A v \in Workers : Owes(v, t) => Owes(v, t)'
    BY <2>1 DEF Owes, Holds, LoopHolds
  <2> QED
    BY <1>0, <2>1, <2>2, AccountKept
<1>4. ASSUME NEW w \in Workers, Claim(w) PROVE Accounted(t)'
  <2>1. /\ api' = api /\ status' = status /\ exec' = exec /\ spent' = spent
        /\ loop[w].at = "peeked" /\ pending' = pending \ {loop[w].task}
        /\ \A v \in Workers \ {w} : loop'[v] = loop[v]
    BY <1>4 DEF Claim, TypeOK
  <2>2. \A v \in Workers : Owes(v, t) => Owes(v, t)'
    BY <2>1 DEF Owes, Holds, LoopHolds
  <2>3. t \in pending /\ t \notin pending' => Owes(w, t)'
    <3> SUFFICES ASSUME t \in pending, t \notin pending' PROVE Owes(w, t)'
      OBVIOUS
    <3>1. loop[w].task = t
      BY <2>1
    <3>2. loop'[w].at = "claimed" /\ loop'[w].task = t
      BY <1>4, <3>1 DEF Claim, TypeOK, LoopStates
    <3>3. exec[w][t].at = "none"
      BY DEF ClaimInv, SingleClaim, Holds
    <3> QED
      BY <2>1, <3>2, <3>3 DEF Owes, Holds, LoopHolds
  <2> QED
    BY <1>0, <2>1, <2>2, <2>3, AccountKept
<1>5. ASSUME NEW w \in Workers, ListActive(w) PROVE Accounted(t)'
  <2>1. /\ pending' = pending /\ api' = api /\ status' = status /\ exec' = exec /\ spent' = spent
        /\ loop[w].at = "claimed" /\ loop'[w].task = loop[w].task /\ loop'[w].at = "listed"
        /\ \A v \in Workers \ {w} : loop'[v] = loop[v]
    BY <1>5 DEF ListActive, TypeOK, LoopStates
  <2>2. \A v \in Workers : Owes(v, t) => Owes(v, t)'
    BY <2>1 DEF Owes, Holds, LoopHolds
  <2> QED
    BY <1>0, <2>1, <2>2, AccountKept
<1>6. ASSUME NEW w \in Workers, Spawn(w) PROVE Accounted(t)'
  <2>1. /\ pending' = pending /\ api' = api /\ spent' = spent /\ loop[w].at = "listed"
        /\ \A v \in Workers \ {w} : loop'[v] = loop[v] /\ exec'[v] = exec[v]
        /\ loop[w].task # t => status'[t] = status[t] /\ exec'[w][t] = exec[w][t]
    BY <1>6 DEF Spawn, TypeOK
  <2>2. \A v \in Workers : v # w \/ loop[w].task # t => (Owes(v, t) => Owes(v, t)')
    BY <2>1 DEF Owes, Holds, LoopHolds
  <2>3. CASE loop[w].task # t
    BY <1>0, <2>1, <2>2, <2>3, AccountKept
  <2>4. CASE loop[w].task = t /\ status[t] = "absent"
    <3>1. status'[t] = "absent"
      BY <1>6, <2>4 DEF Spawn, TypeOK
    <3> QED
      BY <3>1 DEF Accounted
  <2>5. CASE loop[w].task = t /\ status[t] # "absent"
    <3>1. exec'[w][t].at = "spawned"
      BY <1>6, <2>5 DEF Spawn, TypeOK, ExecStates
    <3>2. Owes(w, t)'
      BY <3>1 DEF Owes, Holds
    <3> QED
      BY <3>2 DEF Accounted
  <2> QED
    BY <2>3, <2>4, <2>5
<1>7. ASSUME NEW w \in Workers, NEW u \in Tasks, ExecNext(w, u) PROVE Accounted(t)'
  <2>1. /\ loop' = loop /\ pending' = pending /\ api' = api /\ spent' = spent
        /\ \A v \in Workers : v # w \/ u # t => exec'[v][t] = exec[v][t]
        /\ u # t => status'[t] = status[t]
    BY <1>7 DEF ExecNext, Begin, Finish, Unlist, Settle, Leave, Advance, redis, TypeOK
  <2>2. \A v \in Workers : v # w \/ u # t => (Owes(v, t) => Owes(v, t)')
    BY <2>1 DEF Owes, Holds, LoopHolds
  <2>3. CASE u # t
    BY <1>0, <2>1, <2>2, <2>3, AccountKept
  <2>4. CASE u = t
    <3>1. \/ /\ exec'[w][t].at \in {"executing", "saving", "unlisted"} /\ status'[t] = status[t]
          \/ /\ exec'[w][t].at = "done" /\ status'[t] = status[t]
             /\ status[t] = "absent" \/ exec[w][t].at = "written"
          \/ exec'[w][t].at = "written" /\ status'[t] \in Terminal
      BY <1>7, <2>4 DEF ExecNext, Begin, Finish, Unlist, Settle, Leave, Advance, redis,
                        TypeOK, ExecStates, NoRun
    <3>2. CASE exec'[w][t].at \in {"executing", "saving", "unlisted"}
      BY <3>2 DEF Accounted, Owes, Holds
    <3>3. CASE status'[t] \in Terminal \cup {"absent"}
      BY <3>3 DEF Accounted
    <3>4. CASE exec'[w][t].at = "done" /\ status'[t] = status[t] /\ exec[w][t].at = "written"
      <4>1. ~Owes(w, t)
        BY <3>4 DEF Owes
      <4> QED
        BY <1>0, <2>1, <2>2, <3>4, <4>1, AccountKept
    <3> QED
      BY <3>1, <3>2, <3>3, <3>4
  <2> QED
    BY <2>3, <2>4
<1>8. ASSUME NEW w \in Workers, ControlNext(w) PROVE Accounted(t)'
  <2>1. loop' = loop /\ exec' = exec /\ pending' = pending /\ api' = api /\ spent' = spent
    BY <1>8 DEF ControlNext, TakeCancel, CancelUnlist, CancelSettle, redis
  <2>2. status'[t] = status[t] \/ status'[t] = "failed"
    BY <1>8 DEF ControlNext, TakeCancel, CancelUnlist, CancelSettle, redis, TypeOK
  <2> QED
    BY <1>0, <1>a, <2>1, <2>2, AccountKept DEF Terminal
<1>9. ASSUME NEW w \in Workers, StopWorker(w) PROVE Accounted(t)'
  <2>1. /\ pending' = pending /\ api' = api /\ status' = status
        /\ \A v \in Workers \ {w} : loop'[v] = loop[v] /\ exec'[v] = exec[v]
        /\ spent'.lost = spent.lost \cup {u \in Tasks : Owes(w, u)}
    BY <1>9 DEF StopWorker, redis, TypeOK
  <2>2. \A v \in Workers \ {w} : Owes(v, t) => Owes(v, t)'
    BY <2>1 DEF Owes, Holds, LoopHolds
  <2> QED
    BY <1>0, <2>1, <2>2, AccountKept
<1>10. ASSUME NEW w \in Workers, StartWorker(w) PROVE Accounted(t)'
  BY <1>0, <1>a, <1>10, AccountKept DEF StartWorker, redis
<1>11. ASSUME NEW w \in Workers, DequeueFails(w) PROVE Accounted(t)'
  <2>1. /\ pending' = pending /\ api' = api /\ exec' = exec
        /\ \A v \in Workers \ {w} : loop'[v] = loop[v]
    BY <1>11, DequeueFailsMoves
  <2>2. /\ spent'.lost = spent.lost \cup {u \in Tasks : LoopHolds(w, u)}
        /\ status'[t] = status[t] \/ LoopHolds(w, t)
    BY <1>11 DEF DequeueFails, TypeOK, LoopHolds
  <2>3. CASE LoopHolds(w, t)
    BY <2>2, <2>3 DEF Accounted
  <2>4. CASE ~LoopHolds(w, t)
    <3>1. \A v \in Workers : Owes(v, t) => Owes(v, t)'
      BY <2>1, <2>4 DEF Owes, Holds, LoopHolds
    <3> QED
      BY <1>0, <2>1, <2>2, <2>4, <3>1, AccountKept
  <2> QED
    BY <2>3, <2>4
<1>12. ASSUME NEW w \in Workers, NEW u \in Tasks, SettleFails(w, u) PROVE Accounted(t)'
  <2>1. /\ loop' = loop /\ pending' = pending /\ api' = api /\ status' = status
        /\ \A v \in Workers : v # w \/ u # t => exec'[v][t] = exec[v][t]
    BY <1>12, SettleFailsMoves
  <2>2. /\ \A x \in spent.lost : x \in spent'.lost
        /\ u = t /\ Owes(w, t) => \/ t \in spent'.lost
                                 \/ status[t] = "absent"
                                 \/ exec'[w][t] = [at |-> "saving", out |-> "failed"]
    <3>1. CASE /\ exec' = [exec EXCEPT ![w][u] =
                            IF status[u] = "absent" THEN [NoRun EXCEPT !.at = "done"]
                                                    ELSE [at |-> "saving", out |-> "failed"]]
               /\ spent' = [spent EXCEPT !.crashes = @ + 1]
      <4>1. spent'.lost = spent.lost
        BY <3>1 DEF TypeOK
      <4>2. exec'[w][u] = IF status[u] = "absent" THEN [NoRun EXCEPT !.at = "done"]
                                                  ELSE [at |-> "saving", out |-> "failed"]
        BY <3>1 DEF TypeOK
      <4> QED
        BY <4>1, <4>2
    <3>2. CASE spent' = [spent EXCEPT !.crashes = @ + 1,
                         !.lost = IF Owes(w, u) THEN @ \cup {u} ELSE @]
      <4>1. spent'.lost = IF Owes(w, u) THEN spent.lost \cup {u} ELSE spent.lost
        BY <3>2 DEF TypeOK
      <4> QED
        BY <4>1
    <3> QED
      BY <1>12, <3>1, <3>2 DEF SettleFails
  <2>3. \A v \in Workers : v # w \/ u # t => (Owes(v, t) => Owes(v, t)')
    BY <2>1 DEF Owes, Holds, LoopHolds
  <2>4. u = t /\ Owes(w, t) => \/ Owes(w, t)' \/ t \in spent'.lost
                               \/ status'[t] \in Terminal \cup {"absent"}
    BY <2>1, <2>2 DEF Owes, Holds
  <2> QED
    BY <1>0, <2>1, <2>2, <2>3, <2>4, AccountKept
<1>13. ASSUME UNCHANGED vars PROVE Accounted(t)'
  BY <1>0, <1>a, <1>13, AccountKept DEF vars
<1> QED
  BY <1>1, <1>2, <1>3, <1>4, <1>5, <1>6, <1>7, <1>8, <1>9, <1>10, <1>11, <1>12, <1>13
     DEF Next, LoopNext

\* No accepted task is just gone: only the stop of its worker, a Redis that cannot be
\* reached or the end of its TTL loses it.
THEOREM NoTaskDropped == Spec => []NothingDropped
<1>1. Init => ClaimInv /\ RecordInv /\ NothingDropped
  BY DEF Init, ClaimInv, SingleClaim, RecordInv, Tracked, Early, Holds, LoopHolds, Idle, NoRun,
         NothingDropped
<1> QED
  BY <1>1, AccountStep, RecordStep, ClaimStep, TypeCorrect, PTL DEF Spec

-----------------------------------------------------------------------------
(* Priorities.  A score lies in the band of its task's class, and the      *)
(* bands of two classes do not meet, however fine the clock.               *)

Banded(t) == prio[t] * Resolution <= score[t] /\ score[t] < (prio[t] + 1) * Resolution
BandInv == \A t \in Tasks : Banded(t)

LEMMA Bands ==
  ASSUME NEW p \in {0, 50, 100}, NEW q \in {0, 50, 100}, NEW x \in Nat, NEW y \in Nat,
         p * Resolution <= x, x < (p + 1) * Resolution,
         q * Resolution <= y, y < (q + 1) * Resolution, x <= y
  PROVE  p <= q
<1>1. Resolution \in Nat /\ Resolution > 0
  BY ConstantsAssumption DEF ConstantsAssumption
<1> QED
  BY <1>1

LEMMA BandStep == TypeOK /\ BandInv /\ [Next]_vars => BandInv'
<1> SUFFICES ASSUME TypeOK, BandInv, [Next]_vars PROVE BandInv'
  OBVIOUS
<1>1. ASSUME NEW t \in Tasks, SaveTask(t) PROVE BandInv'
  <2>1. PICK p \in Priorities, f \in 0 .. Resolution - 1 :
          /\ prio' = [prio EXCEPT ![t] = p]
          /\ score' = [score EXCEPT ![t] = p * Resolution + f]
    BY <1>1 DEF SaveTask, PriorityScore
  <2>2. p \in {0, 50, 100} /\ Resolution \in Nat /\ f \in Nat /\ f < Resolution
    BY ConstantsAssumption DEF ConstantsAssumption
  <2>3. p * Resolution <= p * Resolution + f /\ p * Resolution + f < (p + 1) * Resolution
    BY <2>2
  <2> QED
    BY <2>1, <2>3 DEF BandInv, Banded, TypeOK
<1>2. ASSUME UNCHANGED <<prio, score>> PROVE BandInv'
  BY <1>2 DEF BandInv, Banded
<1>3. ASSUME NEW t \in Tasks, ApiNext(t) PROVE BandInv'
  BY <1>1, <1>2, <1>3 DEF ApiNext, AddPending, Answer, CrashApi, CancelTask, Expire, redis
<1>4. ASSUME NEW w \in Workers, LoopNext(w) \/ ControlNext(w) \/ StopWorker(w) \/ StartWorker(w)
      PROVE  BandInv'
  BY <1>2, <1>4 DEF LoopNext, Poll, Peek, Claim, ListActive, Spawn, ControlNext, TakeCancel,
                    CancelUnlist, CancelSettle, StopWorker, StartWorker, redis
<1>5. ASSUME NEW w \in Workers, NEW t \in Tasks, ExecNext(w, t) PROVE BandInv'
  BY <1>2, <1>5 DEF ExecNext, Begin, Finish, Unlist, Settle, Leave, redis
<1>6. ASSUME UNCHANGED vars PROVE BandInv'
  BY <1>2, <1>6 DEF vars
<1>7. ASSUME NEW w \in Workers, DequeueFails(w) \/ \E t \in Tasks : SettleFails(w, t)
      PROVE  BandInv'
  BY <1>2, <1>7, DequeueFailsMoves, SettleFailsMoves
<1> QED
  BY <1>3, <1>4, <1>5, <1>6, <1>7 DEF Next

\* Only zrange puts the loop where it has looked, and what it returns has a least score.
LEMMA PeekTakesBest ==
  ASSUME TypeOK, BandInv, [Next]_vars, NEW w \in Workers,
         loop[w].at # "peeked", loop'[w].at = "peeked"
  PROVE  \A u \in Queue(Session(loop'[w].task)) : prio[loop'[w].task] <= prio[u]
<1>1. Peek(w)
  <2>1. ASSUME NEW t \in Tasks, ApiNext(t) PROVE loop' = loop
    BY <2>1 DEF ApiNext, SaveTask, AddPending, Answer, CrashApi, CancelTask, Expire, worker
  <2>2. ASSUME NEW v \in Workers, LoopNext(v) PROVE v = w
    <3> SUFFICES ASSUME v # w PROVE loop'[w] = loop[w]
      OBVIOUS
    <3>1. PICK l : loop' = [loop EXCEPT ![v] = l]
      <4>1. Poll(v) => \E l : loop' = [loop EXCEPT ![v] = l]
        BY DEF Poll
      <4>2. Peek(v) => \E l : loop' = [loop EXCEPT ![v] = l]
        BY DEF Peek
      <4>3. Claim(v) => \E l : loop' = [loop EXCEPT ![v] = l]
        BY DEF Claim
      <4>4. ListActive(v) => \E l : loop' = [loop EXCEPT ![v] = l]
        BY DEF ListActive
      <4>5. Spawn(v) => \E l : loop' = [loop EXCEPT ![v] = l]
        BY DEF Spawn
      <4> QED
        BY <2>2, <4>1, <4>2, <4>3, <4>4, <4>5 DEF LoopNext
    <3> QED
      BY <3>1 DEF TypeOK
  <2>3. LoopNext(w) => Peek(w)
    <3>1. Poll(w) => loop'[w].at = "scan"
      BY DEF Poll, TypeOK, Idle
    <3>2. Claim(w) => FALSE
      BY DEF Claim
    <3>3. ListActive(w) => loop'[w].at = "listed"
      BY DEF ListActive, TypeOK, LoopStates
    <3>4. Spawn(w) => loop'[w].at \in {"idle", "scan"}
      <4> SUFFICES ASSUME Spawn(w) PROVE loop'[w].at \in {"idle", "scan"}
        OBVIOUS
      <4>1. PICK s, n : loop' = [loop EXCEPT ![w] = NextSession(w, s, n)]
        BY DEF Spawn
      <4>2. loop'[w] = NextSession(w, s, n)
        BY <4>1 DEF TypeOK
      <4> QED
        BY <4>2 DEF NextSession, Idle
    <3> QED
      BY <3>1, <3>2, <3>3, <3>4 DEF LoopNext
  <2>4. ASSUME NEW v \in Workers, ControlNext(v) \/ StartWorker(v) PROVE loop' = loop
    BY <2>4 DEF ControlNext, TakeCancel, CancelUnlist, CancelSettle, StartWorker
  <2>5. ASSUME NEW v \in Workers, StopWorker(v) PROVE loop'[w] = loop[w] \/ loop'[w].at = "idle"
    BY <2>5 DEF StopWorker, TypeOK, Idle
  <2>6. ASSUME NEW v \in Workers, NEW t \in Tasks, ExecNext(v, t) PROVE loop' = loop
    BY <2>6 DEF ExecNext, Begin, Finish, Unlist, Settle, Leave
  <2>7. UNCHANGED vars => loop' = loop
    BY DEF vars
  <2>8. ASSUME NEW v \in Workers, DequeueFails(v)
        PROVE  loop'[w] = loop[w] \/ loop'[w].at \in {"idle", "scan"}
    BY <2>8, DequeueFailsMoves
  <2>9. ASSUME NEW v \in Workers, NEW t \in Tasks, SettleFails(v, t) PROVE loop' = loop
    BY <2>9, SettleFailsMoves
  <2> QED
    BY <2>1, <2>2, <2>3, <2>4, <2>5, <2>6, <2>7, <2>8, <2>9 DEF Next
<1>2. PICK s \in loop[w].todo :
        \/ loop' = [loop EXCEPT ![w] = NextSession(w, s, 0)]
        \/ \E t \in Head(s) : loop' = [loop EXCEPT ![w] = [@ EXCEPT !.at = "peeked", !.task = t]]
  BY <1>1 DEF Peek
<1>3. CASE loop' = [loop EXCEPT ![w] = NextSession(w, s, 0)]
  BY <1>3, NextSessionHolds DEF TypeOK
<1>4. ASSUME NEW t \in Head(s),
             loop' = [loop EXCEPT ![w] = [@ EXCEPT !.at = "peeked", !.task = t]]
      PROVE  \A u \in Queue(Session(loop'[w].task)) : prio[loop'[w].task] <= prio[u]
  <2>1. loop'[w].task = t
    BY <1>4 DEF TypeOK, LoopStates
  <2>2. t \in Tasks /\ Session(t) = s /\ \A u \in Queue(s) : u \in Tasks /\ score[t] <= score[u]
    BY DEF Head, Queue, TypeOK
  <2>3. \A u \in Tasks : /\ prio[u] \in {0, 50, 100} /\ score[u] \in Nat
                         /\ prio[u] * Resolution <= score[u]
                         /\ score[u] < (prio[u] + 1) * Resolution
    BY DEF TypeOK, BandInv, Banded
  <2>4. ASSUME NEW u \in Queue(s) PROVE prio[t] <= prio[u]
    BY <2>2, <2>3, Bands
  <2> QED
    BY <2>1, <2>2, <2>4
<1> QED
  BY <1>2, <1>3, <1>4

\* The queue serves the best class first, for any resolution of the clock.
THEOREM BestIsServedFirst == Spec => BestPriorityFirst
<1>1. Init => BandInv
  BY ConstantsAssumption DEF Init, BandInv, Banded, ConstantsAssumption
<1>2. TypeOK /\ BandInv /\ [Next]_vars =>
        [\A w \in Workers :
           loop[w].at # "peeked" /\ loop'[w].at = "peeked" =>
             LET t == loop'[w].task
             IN  \A u \in Queue(Session(t)) : prio[t] <= prio[u]]_vars
  BY PeekTakesBest
<1> QED
  BY <1>1, <1>2, BandStep, TypeCorrect, PTL DEF Spec, BestPriorityFirst

-----------------------------------------------------------------------------
(***************************************************************************)
(* The Redis queue with its workers implements TaskLifecycle, for any      *)
(* tasks, workers, pool sizes and bounds on failures: every step of the    *)
(* queue is a step in the life of one task, a worker that stops, or none   *)
(* of a client's business.                                                 *)
(***************************************************************************)

Active == {"spawned", "executing"}
Before(t) == api[t] \in Unqueued

\* What TaskLifecycle sees of a task, by where the claim and the execution stand.
Viewed(t) ==
  /\ Before(t) => StageOf(t) = "new" /\ HolderOf(t) = Nobody
  /\ t \in pending => StageOf(t) = "queued" /\ HolderOf(t) = Nobody
  /\ \A w \in Workers :
       /\ At(w, t) = "spawned" => StageOf(t) = "held" /\ HolderOf(t) = w
       /\ At(w, t) = "executing" => StageOf(t) = "running" /\ HolderOf(t) = w
       /\ At(w, t) \in Active => ~Before(t) /\ t \notin pending
  /\ (~Before(t) /\ t \notin pending /\ \A w \in Workers : At(w, t) \notin Active) =>
       StageOf(t) = "over" /\ HolderOf(t) = Nobody

LEMMA ViewOf == ClaimInv => \A t \in Tasks : Viewed(t)
<1> SUFFICES ASSUME ClaimInv, NEW t \in Tasks PROVE Viewed(t)
  OBVIOUS
<1>1. \A w \in Workers : At(w, t) \in Active => Holds(w, t)
  BY DEF At, Holds, Active
<1>2. \A w \in Workers : At(w, t) \in Active => ~Before(t) /\ t \notin pending
  BY <1>1 DEF ClaimInv, SingleClaim, Before
<1>3. Before(t) => t \notin pending
  BY DEF ClaimInv, Before
<1>4. \A v, w \in Workers : At(v, t) \in Active /\ At(w, t) \in Active => v = w
  BY <1>1 DEF ClaimInv, SingleClaim
<1>5. Keeper(t) = {w \in Workers : At(w, t) \in Active}
  BY DEF Keeper, Active
<1>6. ASSUME NEW w \in Workers, At(w, t) \in Active
      PROVE  /\ Keeper(t) = {w} /\ HolderOf(t) = w
             /\ At(w, t) = "spawned" => StageOf(t) = "held"
             /\ At(w, t) = "executing" => StageOf(t) = "running"
  <2>1. Keeper(t) = {w}
    BY <1>4, <1>5, <1>6
  <2>2. HolderOf(t) = w
    BY <2>1 DEF HolderOf
  <2>3. /\ At(w, t) = "spawned" => StageOf(t) = "held"
        /\ At(w, t) = "executing" => StageOf(t) = "running"
    BY <2>1, <1>2, <1>6 DEF StageOf, Before, Unqueued
  <2> QED
    BY <2>1, <2>2, <2>3
<1>7. ASSUME \A w \in Workers : At(w, t) \notin Active
      PROVE  /\ HolderOf(t) = Nobody
             /\ Before(t) => StageOf(t) = "new"
             /\ t \in pending => StageOf(t) = "queued"
             /\ ~Before(t) /\ t \notin pending => StageOf(t) = "over"
  <2>1. Keeper(t) = {}
    BY <1>5, <1>7
  <2>2. HolderOf(t) = Nobody
    BY <2>1 DEF HolderOf
  <2>3. /\ Before(t) => StageOf(t) = "new"
        /\ t \in pending => StageOf(t) = "queued"
        /\ ~Before(t) /\ t \notin pending => StageOf(t) = "over"
    BY <2>1, <1>3 DEF StageOf, Before, Unqueued
  <2> QED
    BY <2>2, <2>3
<1>8. CASE \E w \in Workers : At(w, t) \in Active
  BY <1>2, <1>4, <1>6, <1>8 DEF Viewed, Active
<1>9. CASE \A w \in Workers : At(w, t) \notin Active
  BY <1>7, <1>9 DEF Viewed, Active
<1> QED
  BY <1>8, <1>9

LEMMA ViewNext == ClaimInv' => \A t \in Tasks : Viewed(t)'
<1> DEFINE AllViewed == \A t \in Tasks : Viewed(t)
<1>1. ClaimInv => AllViewed
  BY ViewOf
<1> HIDE DEF AllViewed
<1>2. ClaimInv' => AllViewed'
  BY <1>1, PTL
<1> USE DEF AllViewed
<1> QED
  BY <1>2

-----------------------------------------------------------------------------

\* The view of a task as the promise is told it.
Same(t) == StageOf(t)' = StageOf(t) /\ HolderOf(t)' = HolderOf(t)

\* Nothing TaskLifecycle sees of a task has changed.
LEMMA StepUnseen ==
  ASSUME ClaimInv, ClaimInv', NEW t \in Tasks,
         Before(t)' <=> Before(t), t \in pending' <=> t \in pending,
         \A w \in Workers : At(w, t)' # At(w, t) => At(w, t)' \notin Active /\ At(w, t) \notin Active
  PROVE  Same(t)
<1>1. Viewed(t) /\ Viewed(t)'
  BY ViewOf, ViewNext
<1>2. CASE \E w \in Workers : At(w, t) \in Active
  BY <1>1, <1>2 DEF Viewed, Same, Active
<1>3. CASE \A w \in Workers : At(w, t) \notin Active
  <2>1. \A w \in Workers : At(w, t)' \notin Active
    BY <1>3
  <2> QED
    BY <1>1, <1>3, <2>1 DEF Viewed, Same
<1> QED
  BY <1>2, <1>3

LifeStep == Life!Next \/ UNCHANGED Life!vars

LEMMA AllSame == ASSUME \A t \in Tasks : Same(t) PROVE LifeStep
BY DEF Same, LifeStep, Life!vars

\* One worker's part in one task changes: it begins to execute, or lets the task go.
LEMMA StepOfOne ==
  ASSUME ClaimInv, ClaimInv', NEW w \in Workers, NEW t \in Tasks,
         \A u \in Tasks : (Before(u)' <=> Before(u)) /\ (u \in pending' <=> u \in pending),
         \A v \in Workers, u \in Tasks : v # w \/ u # t => At(v, u)' = At(v, u),
         \/ At(w, t)' \notin Active
         \/ At(w, t)' = At(w, t)
         \/ At(w, t) = "spawned" /\ At(w, t)' = "executing"
  PROVE  LifeStep
<1>1. \A u \in Tasks \ {t} : Same(u)
  BY StepUnseen
<1>2. Viewed(t) /\ Viewed(t)'
  BY ViewOf, ViewNext
<1>3. CASE At(w, t)' = At(w, t) \/ At(w, t) \notin Active
  BY <1>1, <1>3, StepUnseen, AllSame DEF Active
<1>4. CASE At(w, t) \in Active /\ At(w, t)' \notin Active
  <2>1. StageOf(t) \in {"held", "running"}
    BY <1>2, <1>4 DEF Viewed, Active
  <2>2. \A v \in Workers : At(v, t)' \notin Active
    <3>1. \A v \in Workers : At(v, t) \in Active => v = w
      BY <1>2, <1>4 DEF Viewed, Active
    <3> QED
      BY <1>4, <3>1
  <2>3. StageOf(t)' = "over" /\ HolderOf(t)' = Nobody
    BY <1>2, <1>4, <2>2 DEF Viewed
  <2>4. Life!End(t)
    BY <1>1, <2>1, <2>3 DEF Life!End, Same
  <2> QED
    BY <2>4 DEF LifeStep, Life!Next
<1>5. CASE At(w, t) = "spawned" /\ At(w, t)' = "executing"
  <2>1. StageOf(t) = "held" /\ StageOf(t)' = "running" /\ HolderOf(t)' = HolderOf(t)
    BY <1>2, <1>5 DEF Viewed
  <2>2. Life!Run(t)
    BY <1>1, <2>1 DEF Life!Run, Same
  <2> QED
    BY <2>2 DEF LifeStep, Life!Next
<1> QED
  BY <1>3, <1>4, <1>5

LEMMA NothingSeen ==
  ASSUME ClaimInv, ClaimInv',
         \A t \in Tasks : (Before(t)' <=> Before(t)) /\ (t \in pending' <=> t \in pending),
         \A w \in Workers, t \in Tasks :
           At(w, t)' # At(w, t) => At(w, t)' \notin Active /\ At(w, t) \notin Active
  PROVE  LifeStep
BY StepUnseen, AllSame

-----------------------------------------------------------------------------
(* One lemma per kind of step.                                             *)

\* enqueue's zadd puts the task on offer.
LEMMA AddIsSubmit ==
  ASSUME TypeOK, ClaimInv, ClaimInv', NEW t \in Tasks, AddPending(t) PROVE LifeStep
<1>1. /\ Before(t) /\ ~Before(t)' /\ t \in pending'
      /\ \A u \in Tasks \ {t} : (Before(u)' <=> Before(u)) /\ (u \in pending' <=> u \in pending)
  BY DEF AddPending, Before, Unqueued, TypeOK
<1>2. \A w \in Workers, u \in Tasks : At(w, u)' = At(w, u)
  BY DEF AddPending, worker, At, LoopHolds
<1>3. \A u \in Tasks \ {t} : Same(u)
  BY <1>1, <1>2, StepUnseen
<1>4. Viewed(t) /\ Viewed(t)'
  BY ViewOf, ViewNext
<1>5. /\ StageOf(t) = "new" /\ HolderOf(t) = Nobody
      /\ StageOf(t)' = "queued" /\ HolderOf(t)' = Nobody
  BY <1>1, <1>4 DEF Viewed
<1>6. Life!Submit(t)
  BY <1>3, <1>5 DEF Life!Submit, Same
<1> QED
  BY <1>6 DEF LifeStep, Life!Next

\* The zrem that removes the member takes the task.
LEMMA ClaimIsTake ==
  ASSUME TypeOK, ClaimInv, ClaimInv', NEW w \in Workers, Claim(w) PROVE LifeStep
<1>0. PICK t \in Tasks : t = loop[w].task
  BY DEF TypeOK, LoopStates
<1>1. /\ loop[w].at = "peeked" /\ pending' = pending \ {t}
      /\ exec' = exec /\ api' = api
      /\ \A v \in Workers \ {w} : loop'[v] = loop[v]
  BY <1>0 DEF Claim, TypeOK, LoopStates
<1>2. \A u \in Tasks : Before(u)' <=> Before(u)
  BY <1>1 DEF Before
<1>3. \A v \in Workers, u \in Tasks : v # w => At(v, u)' = At(v, u)
  BY <1>1 DEF At, LoopHolds
<1>4. CASE t \notin pending
  <2>1. loop'[w].at \in {"idle", "scan"}
    BY <1>0, <1>4, NextSessionHolds DEF Claim, TypeOK
  <2>2. \A u \in Tasks : At(w, u)' = At(w, u)
    BY <1>1, <2>1 DEF At, LoopHolds
  <2> QED
    BY <1>1, <1>2, <1>3, <1>4, <2>2, NothingSeen
<1>5. CASE t \in pending
  <2>1. loop'[w].at = "claimed" /\ loop'[w].task = t
    BY <1>0, <1>5 DEF Claim, TypeOK, LoopStates
  <2>2. At(w, t)' = "spawned" /\ \A u \in Tasks \ {t} : At(w, u)' = At(w, u)
    BY <1>1, <2>1 DEF At, LoopHolds
  <2>3. \A u \in Tasks \ {t} : Same(u)
    BY <1>1, <1>2, <1>3, <2>2, StepUnseen
  <2>4. Viewed(t) /\ Viewed(t)'
    BY <1>1, ViewOf, ViewNext
  <2>5. StageOf(t) = "queued" /\ StageOf(t)' = "held" /\ HolderOf(t)' = w
    BY <1>5, <2>2, <2>4 DEF Viewed
  <2>6. Life!Take(t, w)
    BY <1>1, <2>3, <2>5 DEF Life!Take, Same
  <2> QED
    BY <1>1, <2>6 DEF LifeStep, Life!Next
<1> QED
  BY <1>4, <1>5

\* The loop hands the task on, or lets it go when its record is gone.
LEMMA SpawnIsSeen ==
  ASSUME TypeOK, ClaimInv, ClaimInv', NEW w \in Workers, Spawn(w) PROVE LifeStep
<1>0. PICK t \in Tasks : t = loop[w].task
  BY DEF TypeOK, LoopStates
<1>1. /\ loop[w].at = "listed" /\ pending' = pending /\ api' = api
      /\ \A v \in Workers \ {w} : loop'[v] = loop[v] /\ exec'[v] = exec[v]
      /\ \A u \in Tasks \ {t} : exec'[w][u] = exec[w][u]
      /\ exec'[w][t].at \in {exec[w][t].at, "spawned"}
  BY <1>0 DEF Spawn, TypeOK, LoopStates, ExecStates
<1>2. loop'[w].at \in {"idle", "scan"}
  BY NextSessionHolds DEF Spawn, TypeOK
<1>3. \A u \in Tasks : (Before(u)' <=> Before(u)) /\ (u \in pending' <=> u \in pending)
  BY <1>1 DEF Before
<1>4. \A v \in Workers, u \in Tasks : v # w \/ u # t => At(v, u)' = At(v, u)
  BY <1>0, <1>1, <1>2 DEF At, LoopHolds
<1>5. At(w, t) = "spawned" /\ At(w, t)' = exec'[w][t].at
  BY <1>0, <1>1, <1>2 DEF At, LoopHolds
<1> QED
  BY <1>1, <1>3, <1>4, <1>5, StepOfOne DEF Active

\* The asyncio task begins, ends, or does what the promise does not speak of.
LEMMA ExecIsSeen ==
  ASSUME TypeOK, ClaimInv, ClaimInv', NEW w \in Workers, NEW t \in Tasks, ExecNext(w, t)
  PROVE  LifeStep
<1>1. /\ loop' = loop /\ pending' = pending /\ api' = api
      /\ \A v \in Workers, u \in Tasks : v # w \/ u # t => exec'[v][u] = exec[v][u]
  BY DEF ExecNext, Begin, Finish, Unlist, Settle, Leave, Advance, redis, TypeOK
<1>2. \/ exec[w][t].at = "spawned" /\ exec'[w][t].at = "executing"
      \/ exec'[w][t].at \notin Active
  BY DEF ExecNext, Begin, Finish, Unlist, Settle, Leave, Advance, TypeOK, ExecStates, NoRun, Active
<1>3. \A u \in Tasks : (Before(u)' <=> Before(u)) /\ (u \in pending' <=> u \in pending)
  BY <1>1 DEF Before
<1>4. \A v \in Workers, u \in Tasks : v # w \/ u # t => At(v, u)' = At(v, u)
  BY <1>1 DEF At, LoopHolds
<1>5. \/ At(w, t)' \notin Active
      \/ At(w, t)' = At(w, t)
      \/ At(w, t) = "spawned" /\ At(w, t)' = "executing"
  BY <1>1, <1>2 DEF At, LoopHolds
<1> QED
  BY <1>3, <1>4, <1>5, StepOfOne

\* A worker that stops, or crashes, takes what it had with it.
LEMMA StopIsQuit ==
  ASSUME TypeOK, ClaimInv, ClaimInv', NEW w \in Workers, StopWorker(w) PROVE LifeStep
<1>1. /\ pending' = pending /\ api' = api
      /\ \A v \in Workers \ {w} : loop'[v] = loop[v] /\ exec'[v] = exec[v]
      /\ loop'[w].at = "idle" /\ \A u \in Tasks : exec'[w][u].at = "none"
  BY DEF StopWorker, redis, TypeOK, Idle, NoRun
<1>2. \A u \in Tasks : (Before(u)' <=> Before(u)) /\ (u \in pending' <=> u \in pending)
  BY <1>1 DEF Before
<1>3. \A v \in Workers, u \in Tasks : v # w => At(v, u)' = At(v, u)
  BY <1>1 DEF At, LoopHolds
<1>4. \A u \in Tasks : At(w, u)' \notin Active
  BY <1>1 DEF At, LoopHolds, Active
<1>5. ASSUME NEW t \in Tasks
      PROVE  /\ StageOf(t)' = IF HolderOf(t) = w THEN "over" ELSE StageOf(t)
             /\ HolderOf(t)' = IF HolderOf(t) = w THEN Nobody ELSE HolderOf(t)
  <2>1. Viewed(t) /\ Viewed(t)'
    BY ViewOf, ViewNext
  <2>2. Nobody # w
    BY ConstantsAssumption DEF ConstantsAssumption
  <2>3. CASE At(w, t) \in Active
    <3>1. \A v \in Workers : At(v, t)' \notin Active
      <4>1. \A v \in Workers : At(v, t) \in Active => v = w
        BY <2>1, <2>3 DEF Viewed, Active
      <4> QED
        BY <1>3, <1>4, <4>1
    <3>2. HolderOf(t) = w
      BY <2>1, <2>3 DEF Viewed, Active
    <3>3. StageOf(t)' = "over" /\ HolderOf(t)' = Nobody
      BY <1>2, <2>1, <2>3, <3>1 DEF Viewed
    <3> QED
      BY <3>2, <3>3
  <2>4. CASE At(w, t) \notin Active
    <3>1. Same(t)
      BY <1>2, <1>3, <1>4, <2>4, StepUnseen
    <3>2. HolderOf(t) # w
      <4>1. CASE \E v \in Workers : At(v, t) \in Active
        BY <2>1, <2>4, <4>1 DEF Viewed, Active
      <4>2. CASE \A v \in Workers : At(v, t) \notin Active
        BY <2>1, <2>2, <4>2 DEF Viewed
      <4> QED
        BY <4>1, <4>2
    <3> QED
      BY <3>1, <3>2 DEF Same
  <2> QED
    BY <2>3, <2>4
<1>6. Life!Quit(w)
  BY <1>5 DEF Life!Quit
<1> QED
  BY <1>6 DEF LifeStep, Life!Next

\* A claimed task that the loop has to let go is over.
LEMMA DequeueFailsIsSeen ==
  ASSUME TypeOK, ClaimInv, ClaimInv', NEW w \in Workers, DequeueFails(w) PROVE LifeStep
<1>1. PICK t \in Tasks : t = loop[w].task
  BY DequeueFailsMoves
<1>2. \A u \in Tasks : (Before(u)' <=> Before(u)) /\ (u \in pending' <=> u \in pending)
  BY DequeueFailsMoves DEF Before
<1>3. \A v \in Workers, u \in Tasks : v # w \/ u # t => At(v, u)' = At(v, u)
  BY <1>1, DequeueFailsMoves DEF At, LoopHolds
<1>4. At(w, t)' = exec[w][t].at
  BY DequeueFailsMoves DEF At, LoopHolds
<1>5. CASE LoopHolds(w, t)
  <2>1. Holds(w, t)
    BY <1>5 DEF Holds
  <2>2. At(w, t) = "spawned"
    BY <1>5 DEF At
  <2> QED
    BY <1>2, <1>3, <1>4, <2>2, StepOfOne DEF Active
<1>6. CASE ~LoopHolds(w, t)
  <2>1. At(w, t)' = At(w, t)
    BY <1>4, <1>6 DEF At
  <2> QED
    BY <1>2, <1>3, <2>1, StepOfOne
<1> QED
  BY <1>5, <1>6

\* An execution whose result cannot be saved is over all the same.
LEMMA SettleFailsIsSeen ==
  ASSUME TypeOK, ClaimInv, ClaimInv', NEW w \in Workers, NEW t \in Tasks, SettleFails(w, t)
  PROVE  LifeStep
<1>1. \A u \in Tasks : (Before(u)' <=> Before(u)) /\ (u \in pending' <=> u \in pending)
  BY SettleFailsMoves DEF Before
<1>2. \A v \in Workers, u \in Tasks : v # w \/ u # t => At(v, u)' = At(v, u)
  BY SettleFailsMoves DEF At, LoopHolds
<1>3. At(w, t)' \notin Active \/ At(w, t)' = At(w, t)
  BY SettleFailsMoves DEF At, LoopHolds, Active
<1> QED
  BY <1>1, <1>2, <1>3, StepOfOne

-----------------------------------------------------------------------------

LEMMA EveryStep == TypeOK /\ ClaimInv /\ ClaimInv' /\ [Next]_vars => LifeStep
<1> SUFFICES ASSUME TypeOK, ClaimInv, ClaimInv', [Next]_vars PROVE LifeStep
  OBVIOUS
<1>1. ASSUME NEW t \in Tasks, ApiNext(t) PROVE LifeStep
  <2>1. CASE AddPending(t)
    BY <2>1, AddIsSubmit
  <2>2. CASE SaveTask(t) \/ Answer(t) \/ CrashApi(t) \/ CancelTask(t) \/ Expire(t)
    <3>1. loop' = loop /\ exec' = exec /\ pending' = pending
      BY <2>2 DEF SaveTask, Answer, CrashApi, CancelTask, Expire, redis, worker
    <3>2. \A u \in Tasks : Before(u)' <=> Before(u)
      BY <2>2 DEF SaveTask, Answer, CrashApi, CancelTask, Expire, Before, Unqueued, TypeOK, Terminal
    <3>3. \A w \in Workers, u \in Tasks : At(w, u)' = At(w, u)
      BY <3>1 DEF At, LoopHolds
    <3> QED
      BY <3>1, <3>2, <3>3, NothingSeen
  <2> QED
    BY <1>1, <2>1, <2>2 DEF ApiNext
<1>2. ASSUME NEW w \in Workers, Poll(w) PROVE LifeStep
  <2>1. /\ pending' = pending /\ api' = api
        /\ loop[w].at = "idle" /\ loop'[w].at = "scan"
        /\ \A v \in Workers \ {w} : loop'[v] = loop[v] /\ exec'[v] = exec[v]
    BY <1>2 DEF Poll, redis, TypeOK, Idle
  <2>2. \A u \in Tasks : exec'[w][u] = exec[w][u]
                           \/ (exec[w][u].at \in {"none", "done"} /\ exec'[w][u].at = "none")
    <3> SUFFICES ASSUME NEW u \in Tasks
                 PROVE  exec'[w][u] = exec[w][u]
                          \/ (exec[w][u].at \in {"none", "done"} /\ exec'[w][u].at = "none")
      OBVIOUS
    <3> DEFINE left == {t \in Running(w) : exec[w][t].at # "done"}
    <3>1. exec'[w][u] = IF u \in left THEN exec[w][u] ELSE NoRun
      BY <1>2 DEF Poll, TypeOK
    <3>2. u \notin left => exec[w][u].at \in {"none", "done"}
      BY DEF Running
    <3> HIDE DEF left
    <3> QED
      BY <3>1, <3>2 DEF NoRun
  <2>3. \A u \in Tasks : At(w, u) = exec[w][u].at /\ At(w, u)' = exec'[w][u].at
    BY <2>1 DEF At, LoopHolds
  <2>4. \A v \in Workers \ {w}, u \in Tasks : At(v, u)' = At(v, u)
    BY <2>1 DEF At, LoopHolds
  <2>5. \A v \in Workers, u \in Tasks :
          At(v, u)' # At(v, u) => At(v, u)' \notin Active /\ At(v, u) \notin Active
    BY <2>2, <2>3, <2>4 DEF Active
  <2> QED
    BY <2>1, <2>5, NothingSeen DEF Before
<1>3. ASSUME NEW w \in Workers, Peek(w) PROVE LifeStep
  <2>1. /\ pending' = pending /\ api' = api /\ exec' = exec /\ loop[w].at = "scan"
        /\ \A v \in Workers \ {w} : loop'[v] = loop[v]
    BY <1>3 DEF Peek, redis, TypeOK
  <2>2. loop'[w].at \in {"idle", "scan", "peeked"}
    <3>1. PICK s \in loop[w].todo :
            \/ loop' = [loop EXCEPT ![w] = NextSession(w, s, 0)]
            \/ \E t \in Head(s) :
                 loop' = [loop EXCEPT ![w] = [@ EXCEPT !.at = "peeked", !.task = t]]
      BY <1>3 DEF Peek
    <3>2. NextSession(w, s, 0).at \in {"idle", "scan"}
      BY NextSessionHolds
    <3>3. CASE loop' = [loop EXCEPT ![w] = NextSession(w, s, 0)]
      BY <3>2, <3>3 DEF TypeOK
    <3>4. ASSUME NEW t \in Head(s),
                 loop' = [loop EXCEPT ![w] = [@ EXCEPT !.at = "peeked", !.task = t]]
          PROVE  loop'[w].at = "peeked"
      BY <3>4 DEF TypeOK, LoopStates
    <3> QED
      BY <3>1, <3>3, <3>4
  <2>3. \A v \in Workers, u \in Tasks : At(v, u)' = At(v, u)
    BY <2>1, <2>2 DEF At, LoopHolds
  <2> QED
    BY <2>1, <2>3, NothingSeen DEF Before
<1>4. ASSUME NEW w \in Workers, ListActive(w) PROVE LifeStep
  <2>1. /\ pending' = pending /\ api' = api /\ exec' = exec
        /\ loop[w].at = "claimed" /\ loop'[w].at = "listed" /\ loop'[w].task = loop[w].task
        /\ \A v \in Workers \ {w} : loop'[v] = loop[v]
    BY <1>4 DEF ListActive, TypeOK, LoopStates
  <2>2. \A v \in Workers, u \in Tasks : At(v, u)' = At(v, u)
    BY <2>1 DEF At, LoopHolds
  <2> QED
    BY <2>1, <2>2, NothingSeen DEF Before
<1>5. ASSUME NEW w \in Workers, LoopNext(w) PROVE LifeStep
  BY <1>2, <1>3, <1>4, <1>5, ClaimIsTake, SpawnIsSeen DEF LoopNext
<1>6. ASSUME loop' = loop, exec' = exec, pending' = pending, api' = api PROVE LifeStep
  BY <1>6, NothingSeen DEF At, LoopHolds, Before
<1>7. ASSUME NEW w \in Workers, ControlNext(w) \/ StartWorker(w) PROVE LifeStep
  BY <1>6, <1>7 DEF ControlNext, TakeCancel, CancelUnlist, CancelSettle, StartWorker, redis
<1>8. ASSUME UNCHANGED vars PROVE LifeStep
  BY <1>6, <1>8 DEF vars
<1> QED
  BY <1>1, <1>5, <1>7, <1>8, ExecIsSeen, StopIsQuit, DequeueFailsIsSeen, SettleFailsIsSeen DEF Next

\* The queue implements the promise: a task is taken by one worker, run at most once by
\* that worker, and never comes back, whatever zrange returned to whom, whichever
\* workers and requests stop, and whatever is cancelled or expires.
THEOREM QueueKeepsPromise == Spec => RunAtMostOnce
<1>1. Init => ClaimInv /\ Life!Init
  <2> SUFFICES ASSUME Init PROVE ClaimInv /\ Life!Init
    OBVIOUS
  <2>1. ClaimInv
    BY DEF Init, ClaimInv, SingleClaim, Holds, LoopHolds, Idle, NoRun
  <2>2. \A t \in Tasks : StageOf(t) = "new" /\ HolderOf(t) = Nobody
    BY <2>1, ViewOf DEF Viewed, Before, Init, Unqueued
  <2> QED
    BY <2>1, <2>2 DEF Life!Init
<1>2. TypeOK /\ ClaimInv /\ ClaimInv' /\ [Next]_vars => [Life!Next]_Life!vars
  BY EveryStep DEF LifeStep
<1> QED
  BY <1>1, <1>2, ClaimStep, TypeCorrect, PTL DEF Spec, RunAtMostOnce, Life!Spec
=============================================================================
