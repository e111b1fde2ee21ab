-------------------------- MODULE ContextCompaction --------------------------
(***************************************************************************)
(* Compaction of one conversation.  The API asks for it through a Redis    *)
(* queue, manually or after a reply that passed the threshold, and waits;  *)
(* workers load the conversation, have a model summarise its old messages  *)
(* and replace these by the summary.  Messages arrive all the while, and   *)
(* two compactions of one conversation may run at once.                    *)
(*                                                                         *)
(* created_at is now() of PostgreSQL: the time a transaction began, not    *)
(* the time its message became visible.                                    *)
(***************************************************************************)
EXTENDS Naturals, FiniteSets

CONSTANTS
  Said,       \* messages of the user and of the agent
  Jobs,       \* compaction tasks
  Preserves,  \* values of preserve_recent_messages in use
  MaxCrashes  \* bound: compactions lost with their worker

ASSUME CompactionAssumption == Preserves \subseteq Nat /\ MaxCrashes \in Nat

VARIABLES
  conv,      \* the rows of conversation_messages: created_at, and what the row tells
  clock,     \* time: how many transactions began
  write,     \* the transaction that inserts each message
  task,      \* the status of the task's record, "none" before it is enqueued
  preserve,  \* its preserve_recent_messages
  work,      \* what a worker does with it
  api,       \* the request that waits for it
  overlap,   \* two compactions held a snapshot at the same time (history)
  crashes

vars == <<conv, clock, write, task, preserve, work, api, overlap, crashes>>

\* A row tells the messages of "covers": one, or those a summary stands for.
Row == [at : Nat, covers : SUBSET Said]
Writes == [at : {"new", "begun", "done"}, stamp : Nat]
Works == [at : {"none", "claimed", "summarizing", "committed", "done", "dead"},
          stamp : Nat, old : SUBSET Row]

TypeOK ==
  /\ conv \subseteq Row
  /\ clock \in Nat
  /\ write \in [Said -> Writes]
  /\ task \in [Jobs -> {"none", "pending", "running", "completed", "failed"}]
  /\ preserve \in [Jobs -> Nat]
  /\ work \in [Jobs -> Works]
  /\ api \in [Jobs -> {"new", "waiting", "done", "failed"}]
  /\ overlap \in BOOLEAN
  /\ crashes \in Nat

NoWrite == [at |-> "new", stamp |-> 0]
NoWork == [at |-> "none", stamp |-> 0, old |-> {}]

Init ==
  /\ conv = {} /\ clock = 0
  /\ write = [m \in Said |-> NoWrite]
  /\ task = [j \in Jobs |-> "none"]
  /\ preserve \in [Jobs -> Preserves]
  /\ work = [j \in Jobs |-> NoWork]
  /\ api = [j \in Jobs |-> "new"]
  /\ overlap = FALSE /\ crashes = 0

\* messages[:-n] of rows sorted by created_at; messages[:-0] is empty.
Old(rows, n) ==
  {r \in rows : n > 0 /\ Cardinality({s \in rows : s.at > r.at}) >= n}

\* What a set of rows tells.
Told(rows) == UNION {r.covers : r \in rows}

-----------------------------------------------------------------------------
(* Messages.                                                               *)

\* The transaction that will insert the message begins: for a reply, before the
\* agent is even asked.
BeginWrite(m) ==
  /\ write[m].at = "new"
  /\ clock' = clock + 1
  /\ write' = [write EXCEPT ![m] = [at |-> "begun", stamp |-> clock]]
  /\ UNCHANGED <<conv, task, preserve, work, api, overlap, crashes>>

CommitWrite(m) ==
  /\ write[m].at = "begun"
  /\ conv' = conv \cup {[at |-> write[m].stamp, covers |-> {m}]}
  /\ write' = [write EXCEPT ![m].at = "done"]
  /\ UNCHANGED <<clock, task, preserve, work, api, overlap, crashes>>

-----------------------------------------------------------------------------
(* The API: compact_agent_context, maybe_trigger_auto_compaction.          *)

Request(j) ==
  /\ api[j] = "new"
  /\ api' = [api EXCEPT ![j] = "waiting"]
  /\ task' = [task EXCEPT ![j] = "pending"]
  /\ UNCHANGED <<conv, clock, write, preserve, work, overlap, crashes>>

\* Variant: whatever status the wait returns is taken for final.
AnswerAsIs(j) ==
  /\ api[j] = "waiting"
  /\ api' = [api EXCEPT ![j] = task[j]]
  /\ UNCHANGED <<conv, clock, write, task, preserve, work, overlap, crashes>>

\* The result, or an error: the task failed, or took more than two minutes.
Answer(j) ==
  /\ api[j] = "waiting"
  /\ api' = [api EXCEPT ![j] = IF task[j] = "completed" THEN "done" ELSE "failed"]
  /\ UNCHANGED <<conv, clock, write, task, preserve, work, overlap, crashes>>

-----------------------------------------------------------------------------
(* The worker.                                                             *)

Step(j, from, to) ==
  /\ work[j].at = from
  /\ work' = [work EXCEPT ![j].at = to]

\* The clocks of the API's processes order the queue: any pending task may be first.
Claim(j) ==
  /\ task[j] = "pending"
  /\ task' = [task EXCEPT ![j] = "running"]
  /\ Step(j, "none", "claimed")
  /\ UNCHANGED <<conv, clock, write, preserve, api, overlap, crashes>>

\* Variant: the rows to delete are those the split keeps.
LoadKept(j) ==
  LET old == conv \ Old(conv, preserve[j])
  IN  /\ work[j].at = "claimed"
      /\ clock' = clock + 1
      /\ work' = [work EXCEPT ![j] =
                    IF old = {} THEN [NoWork EXCEPT !.at = "committed"]
                                ELSE [at |-> "summarizing", stamp |-> clock, old |-> old]]
      /\ overlap' = (overlap \/ \E k \in Jobs \ {j} : work[k].at = "summarizing")
      /\ UNCHANGED <<conv, write, task, preserve, api, crashes>>

\* Begin the transaction, load the conversation and split it; with no old message
\* there is nothing to do.
Load(j) ==
  LET old == Old(conv, preserve[j])
  IN  /\ work[j].at = "claimed"
      /\ clock' = clock + 1
      /\ work' = [work EXCEPT ![j] =
                    IF old = {} THEN [NoWork EXCEPT !.at = "committed"]
                                ELSE [at |-> "summarizing", stamp |-> clock, old |-> old]]
      /\ overlap' = (overlap \/ \E k \in Jobs \ {j} : work[k].at = "summarizing")
      /\ UNCHANGED <<conv, write, task, preserve, api, crashes>>

\* Variant: everything written before the compaction began is deleted.
CommitByTime(j) ==
  /\ Step(j, "summarizing", "committed")
  /\ conv' = {r \in conv : r.at >= work[j].stamp}
               \cup {[at |-> work[j].stamp, covers |-> Told(work[j].old)]}
  /\ UNCHANGED <<clock, write, task, preserve, api, overlap, crashes>>

\* Variant: the summary is inserted and the old rows are left.
CommitInsertOnly(j) ==
  /\ Step(j, "summarizing", "committed")
  /\ conv' = conv \cup {[at |-> work[j].stamp, covers |-> Told(work[j].old)]}
  /\ UNCHANGED <<clock, write, task, preserve, api, overlap, crashes>>

\* The summary is there: delete the rows it covers, insert it, commit.
Commit(j) ==
  /\ Step(j, "summarizing", "committed")
  /\ conv' = (conv \ work[j].old)
               \cup {[at |-> work[j].stamp, covers |-> Told(work[j].old)]}
  /\ UNCHANGED <<clock, write, task, preserve, api, overlap, crashes>>

\* The model or the database raises and the transaction is rolled back; or something
\* raises after the commit, and the compaction that took place is reported failed.
Fail(j) ==
  /\ work[j].at \in {"claimed", "summarizing", "committed"}
  /\ work' = [work EXCEPT ![j].at = "done"]
  /\ task' = [task EXCEPT ![j] = "failed"]
  /\ UNCHANGED <<conv, clock, write, preserve, api, overlap, crashes>>

\* Variant: the result is not written back.
CompleteSilently(j) ==
  /\ Step(j, "committed", "done")
  /\ UNCHANGED <<conv, clock, write, task, preserve, api, overlap, crashes>>

Complete(j) ==
  /\ Step(j, "committed", "done")
  /\ task' = [task EXCEPT ![j] = "completed"]
  /\ UNCHANGED <<conv, clock, write, preserve, api, overlap, crashes>>

CrashWork(j) ==
  /\ work[j].at \in {"claimed", "summarizing", "committed"}
  /\ crashes < MaxCrashes
  /\ crashes' = crashes + 1
  /\ work' = [work EXCEPT ![j].at = "dead"]
  /\ UNCHANGED <<conv, clock, write, task, preserve, api, overlap>>

-----------------------------------------------------------------------------

WorkNext(j) == Claim(j) \/ Load(j) \/ Commit(j) \/ Fail(j) \/ Complete(j)

Next ==
  \/ \E m \in Said : BeginWrite(m) \/ CommitWrite(m)
  \/ \E j \in Jobs : Request(j) \/ Answer(j) \/ WorkNext(j) \/ CrashWork(j)

Spec == Init /\ [][Next]_vars

\* The worker's loop runs and the model answers or times out.
FairSpec == Spec /\ \A j \in Jobs : WF_vars(WorkNext(j))

-----------------------------------------------------------------------------

\* Nothing that was said is ever forgotten: every message written is in the
\* conversation or in a summary that is, whatever arrives while a summary is made
\* and however many compactions run at once.
NothingForgotten == Told(conv) = {m \in Said : write[m].at = "done"}

\* Unless two compactions overlapped, a compaction never takes any of the
\* preserve_recent_messages latest rows, as the conversation is when it commits: not
\* those that came late with an early created_at either.
RecentSurvives ==
  [][\A j \in Jobs :
       ~overlap /\ work[j].at = "summarizing" /\ work'[j].at = "committed" =>
         \A r \in conv \ conv' :
           Cardinality({s \in conv : s.at > r.at}) >= preserve[j]]_vars

\* Unless two compactions overlapped, a message is told once: a summary replaces
\* what it covers.
ToldOnce ==
  ~overlap => \A r, s \in conv : r # s => r.covers \cap s.covers = {}

\* A compaction that is asked for ends, unless its worker stopped.
CompactionEnds ==
  \A j \in Jobs : task[j] = "pending" ~> task[j] \in {"completed", "failed"} \/ crashes > 0

=============================================================================
