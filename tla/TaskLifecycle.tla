---------------------------- MODULE TaskLifecycle ----------------------------
(***************************************************************************)
(* What a queue of agent tasks promises to whoever enqueues one: a task is *)
(* taken from the queue by one worker, run at most once, by that worker,   *)
(* and never comes back.  A worker that stops takes its tasks with it.     *)
(***************************************************************************)
CONSTANTS Tasks, Workers, Nobody

VARIABLES
  stage,   \* stage[t] in "new", "queued", "held", "running", "over"
  holder   \* holder[t]: the worker that has t, Nobody before and after

vars == <<stage, holder>>

Init ==
  /\ stage = [t \in Tasks |-> "new"]
  /\ holder = [t \in Tasks |-> Nobody]

Submit(t) ==
  /\ stage[t] = "new"
  /\ stage' = [stage EXCEPT ![t] = "queued"]
  /\ UNCHANGED holder

Take(t, w) ==
  /\ stage[t] = "queued"
  /\ stage' = [stage EXCEPT ![t] = "held"]
  /\ holder' = [holder EXCEPT ![t] = w]

Run(t) ==
  /\ stage[t] = "held"
  /\ stage' = [stage EXCEPT ![t] = "running"]
  /\ UNCHANGED holder

\* The execution ends, or the task is dropped before it begins.
End(t) ==
  /\ stage[t] \in {"held", "running"}
  /\ stage' = [stage EXCEPT ![t] = "over"]
  /\ holder' = [holder EXCEPT ![t] = Nobody]

\* Worker w stops: what it had is over, whatever became of it.
Quit(w) ==
  /\ stage' = [t \in Tasks |-> IF holder[t] = w THEN "over" ELSE stage[t]]
  /\ holder' = [t \in Tasks |-> IF holder[t] = w THEN Nobody ELSE holder[t]]

Next ==
  \/ \E t \in Tasks : Submit(t) \/ Run(t) \/ End(t) \/ \E w \in Workers : Take(t, w)
  \/ \E w \in Workers : Quit(w)

Spec == Init /\ [][Next]_vars
=============================================================================
