----------------------- MODULE ContextCompaction_proofs -----------------------
(***************************************************************************)
(* Nothing that was said is forgotten and, until two compactions overlap,  *)
(* nothing is told twice, for any messages, any number of compactions and  *)
(* any values of preserve_recent_messages.                                 *)
(***************************************************************************)
EXTENDS ContextCompaction, FiniteSetTheorems, TLAPS

\* What a compaction removes are rows of the conversation.
LEMMA OldAreRows == ASSUME NEW rows, NEW n PROVE Old(rows, n) \subseteq rows
BY DEF Old

LEMMA ToldUnion ==
  ASSUME NEW R, NEW S
  PROVE  Told(R \cup S) = Told(R) \cup Told(S)
BY DEF Told

LEMMA ToldOfOne == ASSUME NEW r PROVE Told({r}) = r.covers
BY DEF Told

LEMMA ToldOfPart == ASSUME NEW S, NEW R \in SUBSET S PROVE Told(R) \subseteq Told(S)
BY DEF Told

LEMMA ToldType == ASSUME NEW R \in SUBSET Row PROVE Told(R) \in SUBSET Said
BY DEF Told, Row

\* Replacing rows by one that tells the same loses nothing, even if some of the rows
\* were replaced before.
LEMMA ToldOfSummary ==
  ASSUME NEW R, NEW old, NEW at, Told(old) \subseteq Told(R)
  PROVE  Told((R \ old) \cup {[at |-> at, covers |-> Told(old)]}) = Told(R)
<1> DEFINE new == [at |-> at, covers |-> Told(old)]
<1>1. Told((R \ old) \cup {new}) = Told(R \ old) \cup Told({new})
  BY ToldUnion
<1>2. Told({new}) = Told(old)
  BY ToldOfOne
<1>3. Told(R \ old) \subseteq Told(R)
  BY ToldOfPart
<1>4. Told(R) \subseteq Told(R \ old) \cup Told(old)
  BY DEF Told
<1> QED
  BY <1>1, <1>2, <1>3, <1>4

-----------------------------------------------------------------------------
(* Types.                                                                  *)

LEMMA RowType ==
  ASSUME NEW n \in Nat, NEW S \in SUBSET Said
  PROVE  [at |-> n, covers |-> S] \in Row
BY DEF Row

LEMMA WorkMoves ==
  ASSUME NEW k \in Works, NEW n \in Nat, NEW old \in SUBSET Row,
         NEW to \in {"none", "claimed", "summarizing", "committed", "done", "dead"}
  PROVE  /\ [k EXCEPT !.at = to] \in Works
         /\ [at |-> to, stamp |-> n, old |-> old] \in Works
BY DEF Works

LEMMA TypeStep == TypeOK /\ [Next]_vars => TypeOK'
<1> SUFFICES ASSUME TypeOK, [Next]_vars PROVE TypeOK'
  OBVIOUS
<1> USE DEF TypeOK
<1>1. ASSUME NEW m \in Said, BeginWrite(m) PROVE TypeOK'
  <2>1. [at |-> "begun", stamp |-> clock] \in Writes
    BY DEF Writes
  <2> QED
    BY <1>1, <2>1 DEF BeginWrite
<1>2. ASSUME NEW m \in Said, CommitWrite(m) PROVE TypeOK'
  <2>1. write[m].stamp \in Nat /\ [write[m] EXCEPT !.at = "done"] \in Writes
    BY DEF Writes
  <2>2. [at |-> write[m].stamp, covers |-> {m}] \in Row
    BY <2>1, RowType
  <2>3. write' \in [Said -> Writes]
    BY <1>2, <2>1 DEF CommitWrite
  <2> QED
    BY <1>2, <2>2, <2>3 DEF CommitWrite
<1>3. ASSUME NEW j \in Jobs, Request(j) PROVE TypeOK'
  BY <1>3 DEF Request
<1>4. ASSUME NEW j \in Jobs, Answer(j) PROVE TypeOK'
  BY <1>4 DEF Answer
<1>5. ASSUME NEW j \in Jobs, Claim(j) PROVE TypeOK'
  <2>1. work' \in [Jobs -> Works]
    BY <1>5, WorkMoves DEF Claim, Step
  <2> QED
    BY <1>5, <2>1 DEF Claim
<1>6. ASSUME NEW j \in Jobs, Load(j) PROVE TypeOK'
  <2> DEFINE old == Old(conv, preserve[j])
  <2>1. old \in SUBSET Row
    BY OldAreRows
  <2>2. NoWork \in Works
    BY DEF NoWork, Works
  <2>3. [NoWork EXCEPT !.at = "committed"] \in Works
    BY <2>2, WorkMoves
  <2>4. [at |-> "summarizing", stamp |-> clock, old |-> old] \in Works
    BY <2>1, <2>2, WorkMoves
  <2>5. \E w \in Works : work' = [work EXCEPT ![j] = w]
    BY <1>6, <2>3, <2>4 DEF Load
  <2>6. work' \in [Jobs -> Works]
    BY <2>5
  <2> QED
    BY <1>6, <2>6 DEF Load
<1>7. ASSUME NEW j \in Jobs, Commit(j) PROVE TypeOK'
  <2>1. work[j].stamp \in Nat /\ work[j].old \in SUBSET Row
    BY DEF Works
  <2>2. [at |-> work[j].stamp, covers |-> Told(work[j].old)] \in Row
    BY <2>1, ToldType, RowType
  <2>3. work' \in [Jobs -> Works]
    BY <1>7, WorkMoves DEF Commit, Step
  <2> QED
    BY <1>7, <2>2, <2>3 DEF Commit
<1>8. ASSUME NEW j \in Jobs, Fail(j) PROVE TypeOK'
  <2>1. work' \in [Jobs -> Works]
    BY <1>8, WorkMoves DEF Fail
  <2> QED
    BY <1>8, <2>1 DEF Fail
<1>9. ASSUME NEW j \in Jobs, Complete(j) PROVE TypeOK'
  <2>1. work' \in [Jobs -> Works]
    BY <1>9, WorkMoves DEF Complete, Step
  <2> QED
    BY <1>9, <2>1 DEF Complete
<1>10. ASSUME NEW j \in Jobs, CrashWork(j) PROVE TypeOK'
  <2>1. work' \in [Jobs -> Works]
    BY <1>10, WorkMoves DEF CrashWork
  <2> QED
    BY <1>10, <2>1 DEF CrashWork
<1>11. CASE UNCHANGED vars
  BY <1>11 DEF vars
<1> QED
  BY <1>1, <1>2, <1>3, <1>4, <1>5, <1>6, <1>7, <1>8, <1>9, <1>10, <1>11 DEF Next, WorkNext

LEMMA TypeInit == Init => TypeOK
<1> SUFFICES ASSUME Init PROVE TypeOK
  OBVIOUS
<1>1. NoWrite \in Writes
  BY DEF NoWrite, Writes
<1>2. NoWork \in Works
  BY DEF NoWork, Works
<1>3. preserve \in [Jobs -> Nat]
  BY CompactionAssumption DEF Init, CompactionAssumption
<1> QED
  BY <1>1, <1>2, <1>3 DEF Init, TypeOK

\* The rows, the tasks and the workers' snapshots are always what TypeOK says.
THEOREM TypeCorrect == Spec => []TypeOK
BY TypeInit, TypeStep, PTL DEF Spec

-----------------------------------------------------------------------------
(* Nothing is forgotten.                                                   *)

\* What a worker is summarising is still told by the conversation: the rows it read,
\* or summaries that replaced them meanwhile.
SnapshotsAreTold ==
  \A j \in Jobs : work[j].at = "summarizing" => Told(work[j].old) \subseteq Told(conv)

CompactionInv == TypeOK /\ NothingForgotten /\ SnapshotsAreTold

LEMMA CompactionInit == Init => CompactionInv
<1> SUFFICES ASSUME Init PROVE NothingForgotten /\ SnapshotsAreTold /\ TypeOK
  BY DEF CompactionInv
<1>1. NothingForgotten
  BY DEF Init, NothingForgotten, Told, NoWrite
<1>2. SnapshotsAreTold
  BY DEF Init, SnapshotsAreTold, NoWork
<1>3. TypeOK
  BY TypeInit
<1> QED
  BY <1>1, <1>2, <1>3

\* A step that leaves the conversation and the messages alone, and begins no summary.
LEMMA QuietStep ==
  ASSUME CompactionInv, UNCHANGED <<conv, write>>,
         \A j \in Jobs : work'[j].at = "summarizing" => work'[j] = work[j]
  PROVE  NothingForgotten' /\ SnapshotsAreTold'
BY DEF CompactionInv, NothingForgotten, SnapshotsAreTold

LEMMA CompactionStep == CompactionInv /\ [Next]_vars => CompactionInv'
<1> SUFFICES ASSUME CompactionInv, [Next]_vars
             PROVE  NothingForgotten' /\ SnapshotsAreTold'
  BY TypeStep DEF CompactionInv
<1> DEFINE Goal == NothingForgotten' /\ SnapshotsAreTold'
<1> SUFFICES Goal
  OBVIOUS
<1>0. TypeOK /\ NothingForgotten /\ SnapshotsAreTold
  BY DEF CompactionInv
<1>1. ASSUME NEW m \in Said, BeginWrite(m) PROVE Goal
  <2>1. {n \in Said : write'[n].at = "done"} = {n \in Said : write[n].at = "done"}
    BY <1>0, <1>1 DEF BeginWrite, TypeOK
  <2> QED
    BY <1>0, <1>1, <2>1 DEF BeginWrite, NothingForgotten, SnapshotsAreTold
<1>2. ASSUME NEW m \in Said, CommitWrite(m) PROVE Goal
  <2> DEFINE row == [at |-> write[m].stamp, covers |-> {m}]
  <2>1. Told(conv') = Told(conv) \cup {m}
    <3>1. conv' = conv \cup {row}
      BY <1>2 DEF CommitWrite
    <3>2. Told({row}) = {m}
      BY ToldOfOne
    <3>3. Told(conv \cup {row}) = Told(conv) \cup Told({row})
      BY ToldUnion
    <3> QED
      BY <3>1, <3>2, <3>3
  <2>2. {n \in Said : write'[n].at = "done"} = {n \in Said : write[n].at = "done"} \cup {m}
    BY <1>0, <1>2 DEF CommitWrite, TypeOK, Writes
  <2> QED
    BY <1>0, <1>2, <2>1, <2>2 DEF CommitWrite, NothingForgotten, SnapshotsAreTold
<1>3. ASSUME NEW j \in Jobs, Commit(j) PROVE Goal
  <2>1. work[j].at = "summarizing" /\ UNCHANGED write
    BY <1>3 DEF Commit, Step
  <2>2. Told(conv') = Told(conv)
    BY <1>0, <1>3, <2>1, ToldOfSummary DEF Commit, SnapshotsAreTold
  <2>3. \A k \in Jobs : work'[k].at = "summarizing" => work'[k] = work[k]
    BY <1>0, <1>3 DEF Commit, Step, TypeOK, Works
  <2> QED
    BY <1>0, <2>1, <2>2, <2>3 DEF NothingForgotten, SnapshotsAreTold
<1>4. ASSUME NEW j \in Jobs, Load(j) PROVE Goal
  <2>1. Told(Old(conv, preserve[j])) \subseteq Told(conv)
    BY OldAreRows, ToldOfPart
  <2>2. work'[j].at = "summarizing" => work'[j].old = Old(conv, preserve[j])
    BY <1>0, <1>4 DEF Load, TypeOK, NoWork
  <2>3. \A k \in Jobs \ {j} : work'[k] = work[k]
    BY <1>0, <1>4 DEF Load, TypeOK
  <2>4. UNCHANGED <<conv, write>>
    BY <1>4 DEF Load
  <2> QED
    BY <1>0, <2>1, <2>2, <2>3, <2>4 DEF NothingForgotten, SnapshotsAreTold
<1>5. ASSUME NEW j \in Jobs, Claim(j) \/ Fail(j) \/ Complete(j) \/ CrashWork(j) PROVE Goal
  <2>1. \A k \in Jobs : work'[k].at = "summarizing" => work'[k] = work[k]
    BY <1>0, <1>5 DEF Claim, Fail, Complete, CrashWork, Step, TypeOK, Works
  <2> QED
    BY <1>5, <2>1, QuietStep DEF Claim, Fail, Complete, CrashWork
<1>6. ASSUME NEW j \in Jobs, Request(j) \/ Answer(j) PROVE Goal
  BY <1>6, QuietStep DEF Request, Answer
<1>7. CASE UNCHANGED vars
  BY <1>7, QuietStep DEF vars
<1> HIDE DEF Goal
<1> QED
  BY <1>1, <1>2, <1>3, <1>4, <1>5, <1>6, <1>7 DEF Next, WorkNext

\* Every message that was written is told by the conversation, in its own row or in a
\* summary, however many compactions run and fail at once.
THEOREM NothingIsForgotten == Spec => []NothingForgotten
<1>1. CompactionInv => NothingForgotten
  BY DEF CompactionInv
<1> QED
  BY <1>1, CompactionInit, CompactionStep, PTL DEF Spec

-----------------------------------------------------------------------------
(* Nothing is told twice.                                                  *)

\* Until two compactions overlap, at most one has a snapshot, all of its rows are still
\* there, and no two rows tell the same message.
Disjoint == \A r, s \in conv : r # s => r.covers \cap s.covers = {}
OneSnapshot ==
  \A j \in Jobs : work[j].at = "summarizing" =>
    /\ work[j].old \subseteq conv
    /\ \A k \in Jobs \ {j} : work[k].at # "summarizing"
OnceInv == CompactionInv /\ (~overlap => Disjoint /\ OneSnapshot)

\* A step that leaves the conversation alone and begins no summary.
LEMMA StillOnce ==
  ASSUME Disjoint, OneSnapshot, UNCHANGED conv,
         \A j \in Jobs : work'[j].at = "summarizing" => work'[j] = work[j]
  PROVE  Disjoint' /\ OneSnapshot'
BY DEF Disjoint, OneSnapshot

LEMMA OnceStep == OnceInv /\ [Next]_vars /\ ~overlap' => (Disjoint /\ OneSnapshot)'
<1> SUFFICES ASSUME OnceInv, [Next]_vars, ~overlap' PROVE Disjoint' /\ OneSnapshot'
  OBVIOUS
<1>0. ~overlap
  BY DEF Next, vars, BeginWrite, CommitWrite, Request, Answer, WorkNext, Claim, Load, Commit, Fail,
         Complete, CrashWork
<1>a. TypeOK /\ NothingForgotten /\ Disjoint /\ OneSnapshot
  BY <1>0 DEF OnceInv, CompactionInv
<1>1. ASSUME NEW m \in Said, CommitWrite(m) PROVE Disjoint' /\ OneSnapshot'
  <2> DEFINE row == [at |-> write[m].stamp, covers |-> {m}]
  <2>1. conv' = conv \cup {row} /\ UNCHANGED work
    BY <1>1 DEF CommitWrite
  <2>2. \A r \in conv : m \notin r.covers
    <3>1. m \notin Told(conv)
      BY <1>a, <1>1 DEF NothingForgotten, CommitWrite
    <3> QED
      BY <3>1 DEF Told
  <2>3. Disjoint'
    BY <1>a, <2>1, <2>2 DEF Disjoint
  <2>4. OneSnapshot'
    BY <1>a, <2>1 DEF OneSnapshot
  <2> QED
    BY <2>3, <2>4
<1>2. ASSUME NEW j \in Jobs, Load(j) PROVE Disjoint' /\ OneSnapshot'
  <2>1. \A k \in Jobs \ {j} : work'[k] = work[k] /\ work[k].at # "summarizing"
    BY <1>a, <1>2 DEF Load, TypeOK
  <2>2. work'[j].at = "summarizing" => work'[j].old = Old(conv, preserve[j])
    BY <1>a, <1>2 DEF Load, TypeOK, NoWork
  <2>3. UNCHANGED conv
    BY <1>2 DEF Load
  <2>4. OneSnapshot'
    BY <2>1, <2>2, <2>3 DEF OneSnapshot, Old
  <2> QED
    BY <1>a, <2>3, <2>4 DEF Disjoint
<1>3. ASSUME NEW j \in Jobs, Commit(j) PROVE Disjoint' /\ OneSnapshot'
  <2> DEFINE sum == [at |-> work[j].stamp, covers |-> Told(work[j].old)]
  <2>1. conv' = (conv \ work[j].old) \cup {sum} /\ work[j].at = "summarizing"
    BY <1>3 DEF Commit, Step
  <2>2. work[j].old \subseteq conv
    BY <1>a, <2>1 DEF OneSnapshot
  <2>3. \A r \in conv \ work[j].old : r.covers \cap sum.covers = {}
    BY <1>a, <2>2 DEF Disjoint, Told
  <2>4. Disjoint'
    <3> HIDE DEF sum
    <3> QED
      BY <1>a, <2>1, <2>3 DEF Disjoint
  <2>5. \A k \in Jobs : work'[k].at # "summarizing"
    <3>1. \A k \in Jobs \ {j} : work'[k] = work[k] /\ work[k].at # "summarizing"
      BY <1>a, <1>3, <2>1 DEF Commit, Step, OneSnapshot, TypeOK
    <3>2. work'[j].at = "committed"
      BY <1>a, <1>3 DEF Commit, Step, TypeOK, Works
    <3> QED
      BY <3>1, <3>2
  <2> QED
    BY <2>4, <2>5 DEF OneSnapshot
<1>4. ASSUME NEW j \in Jobs, Claim(j) \/ Fail(j) \/ Complete(j) \/ CrashWork(j)
      PROVE  Disjoint' /\ OneSnapshot'
  <2>1. \A k \in Jobs : work'[k].at = "summarizing" => work'[k] = work[k]
    BY <1>a, <1>4 DEF Claim, Fail, Complete, CrashWork, Step, TypeOK, Works
  <2> QED
    BY <1>a, <1>4, <2>1, StillOnce DEF Claim, Fail, Complete, CrashWork
<1>5. ASSUME UNCHANGED <<conv, work>> PROVE Disjoint' /\ OneSnapshot'
  BY <1>a, <1>5, StillOnce
<1>6. \/ UNCHANGED <<conv, work>>
      \/ \E m \in Said : CommitWrite(m)
      \/ \E j \in Jobs : WorkNext(j) \/ CrashWork(j)
  BY DEF Next, vars, BeginWrite, Request, Answer
<1> QED
  BY <1>1, <1>2, <1>3, <1>4, <1>5, <1>6 DEF WorkNext

\* As long as no two compactions overlap, no message is told by two rows: a summary takes the
\* place of what it covers, whatever is written, fails or stops meanwhile.
THEOREM NothingIsToldTwice == Spec => []ToldOnce
<1>1. Init => OnceInv
  BY CompactionInit DEF Init, OnceInv, Disjoint, OneSnapshot, NoWork
<1>2. OnceInv /\ [Next]_vars => OnceInv'
  BY CompactionStep, OnceStep DEF OnceInv
<1>3. OnceInv => ToldOnce
  BY DEF OnceInv, Disjoint, ToldOnce
<1> QED
  BY <1>1, <1>2, <1>3, PTL DEF Spec

-----------------------------------------------------------------------------
(* The recent rows survive.                                                *)

\* What came after row r.
Later(rows, r) == {s \in rows : s.at > r.at}

\* Until two compactions overlap, what one is about to delete is as old as when it was
\* loaded: rows are only added meanwhile.
KeptInv ==
  \A j \in Jobs : work[j].at = "summarizing" =>
    \A r \in work[j].old : Cardinality(Later(conv, r)) >= preserve[j]
RecentInv == OnceInv /\ IsFiniteSet(conv) /\ (~overlap => KeptInv)

LEMMA LaterGrows ==
  ASSUME NEW R, NEW S, IsFiniteSet(S), R \subseteq S, NEW r
  PROVE  Cardinality(Later(R, r)) <= Cardinality(Later(S, r)) /\ Cardinality(Later(R, r)) \in Nat
                                                              /\ Cardinality(Later(S, r)) \in Nat
<1>1. Later(R, r) \subseteq Later(S, r) /\ Later(S, r) \subseteq S
  BY DEF Later
<1> QED
  BY <1>1, FS_Subset, FS_CardinalityType

LEMMA StaysFinite == TypeOK /\ IsFiniteSet(conv) /\ [Next]_vars => IsFiniteSet(conv')
<1> SUFFICES ASSUME TypeOK, IsFiniteSet(conv), [Next]_vars PROVE IsFiniteSet(conv')
  OBVIOUS
<1>1. ASSUME NEW r, NEW R \in SUBSET conv, conv' = R \cup {r} PROVE IsFiniteSet(conv')
  BY <1>1, FS_Subset, FS_AddElement
<1>2. ASSUME NEW m \in Said, CommitWrite(m) PROVE IsFiniteSet(conv')
  BY <1>1, <1>2 DEF CommitWrite
<1>3. ASSUME NEW j \in Jobs, Commit(j) PROVE IsFiniteSet(conv')
  BY <1>1, <1>3 DEF Commit
<1>4. \/ UNCHANGED conv
      \/ \E m \in Said : CommitWrite(m)
      \/ \E j \in Jobs : Commit(j)
  BY DEF Next, vars, BeginWrite, Request, Answer, WorkNext, Claim, Load, Fail, Complete, CrashWork
<1> QED
  BY <1>2, <1>3, <1>4

LEMMA KeptStep == RecentInv /\ [Next]_vars /\ ~overlap' => KeptInv'
<1> SUFFICES ASSUME RecentInv, [Next]_vars, ~overlap' PROVE KeptInv'
  OBVIOUS
<1>0. ~overlap
  BY DEF Next, vars, BeginWrite, CommitWrite, Request, Answer, WorkNext, Claim, Load, Commit, Fail,
         Complete, CrashWork
<1>b. preserve' = preserve
  BY DEF Next, vars, BeginWrite, CommitWrite, Request, Answer, WorkNext, Claim, Load, Commit, Fail,
         Complete, CrashWork
<1>a. TypeOK /\ OneSnapshot /\ KeptInv /\ IsFiniteSet(conv) /\ IsFiniteSet(conv')
  BY <1>0, StaysFinite DEF RecentInv, OnceInv, CompactionInv
<1>1. ASSUME conv \subseteq conv',
             \A j \in Jobs : work'[j].at = "summarizing" => work'[j] = work[j]
      PROVE  KeptInv'
  <2> SUFFICES ASSUME NEW j \in Jobs, work'[j].at = "summarizing", NEW r \in work'[j].old
               PROVE  Cardinality(Later(conv', r)) >= preserve[j]
    BY <1>b DEF KeptInv
  <2>1. Cardinality(Later(conv, r)) >= preserve[j] /\ preserve[j] \in Nat
    BY <1>a, <1>1 DEF KeptInv, TypeOK
  <2> QED
    BY <1>a, <1>1, <2>1, LaterGrows
<1>2. ASSUME NEW m \in Said, CommitWrite(m) PROVE KeptInv'
  <2>1. conv \subseteq conv' /\ UNCHANGED work
    BY <1>2 DEF CommitWrite
  <2> QED
    BY <1>1, <2>1
<1>3. ASSUME NEW j \in Jobs, Load(j) PROVE KeptInv'
  <2>1. \A k \in Jobs \ {j} : work'[k] = work[k]
    BY <1>a, <1>3 DEF Load, TypeOK
  <2>2. work'[j].at = "summarizing" => work'[j].old = Old(conv, preserve[j])
    BY <1>a, <1>3 DEF Load, TypeOK, NoWork
  <2>3. \A r \in Old(conv, preserve[j]) : Cardinality(Later(conv, r)) >= preserve[j]
    BY DEF Old, Later
  <2>4. UNCHANGED conv
    BY <1>3 DEF Load
  <2> QED
    BY <1>b, <1>a, <2>1, <2>2, <2>3, <2>4 DEF KeptInv
<1>4. ASSUME NEW j \in Jobs, Commit(j) PROVE KeptInv'
  <2>1. \A k \in Jobs \ {j} : work'[k].at # "summarizing"
    BY <1>a, <1>4 DEF Commit, Step, OneSnapshot, TypeOK
  <2>2. work'[j].at = "committed"
    BY <1>a, <1>4 DEF Commit, Step, TypeOK, Works
  <2> QED
    BY <2>1, <2>2 DEF KeptInv
<1>5. ASSUME NEW j \in Jobs, Claim(j) \/ Fail(j) \/ Complete(j) \/ CrashWork(j) PROVE KeptInv'
  <2>1. \A k \in Jobs : work'[k].at = "summarizing" => work'[k] = work[k]
    BY <1>a, <1>5 DEF Claim, Fail, Complete, CrashWork, Step, TypeOK, Works
  <2> QED
    BY <1>1, <1>5, <2>1 DEF Claim, Fail, Complete, CrashWork
<1>6. ASSUME UNCHANGED <<conv, work>> PROVE KeptInv'
  BY <1>1, <1>6
<1>7. \/ UNCHANGED <<conv, work>>
      \/ \E m \in Said : CommitWrite(m)
      \/ \E j \in Jobs : WorkNext(j) \/ CrashWork(j)
  BY DEF Next, vars, BeginWrite, Request, Answer
<1> QED
  BY <1>2, <1>3, <1>4, <1>5, <1>6, <1>7 DEF WorkNext

\* As long as no two compactions overlap, a compaction removes no row that has fewer than
\* preserve_recent_messages rows after it, whenever each row was written and seen.
THEOREM RecentIsKept == Spec => RecentSurvives
<1>1. Init => RecentInv
  BY CompactionInit, FS_EmptySet
     DEF Init, RecentInv, OnceInv, Disjoint, OneSnapshot, KeptInv, NoWork
<1>2. RecentInv /\ [Next]_vars => RecentInv'
  BY CompactionStep, OnceStep, StaysFinite, KeptStep DEF RecentInv, OnceInv, CompactionInv
<1>3. RecentInv /\ [Next]_vars =>
        [\A j \in Jobs :
           ~overlap /\ work[j].at = "summarizing" /\ work'[j].at = "committed" =>
             \A r \in conv \ conv' :
               Cardinality({s \in conv : s.at > r.at}) >= preserve[j]]_vars
  <2> SUFFICES ASSUME RecentInv, [Next]_vars, ~overlap, NEW j \in Jobs,
                      work[j].at = "summarizing", work'[j].at = "committed",
                      NEW r \in conv \ conv'
               PROVE  Cardinality({s \in conv : s.at > r.at}) >= preserve[j]
    OBVIOUS
  <2>1. PICK i \in Jobs : Commit(i)
    BY DEF Next, vars, BeginWrite, CommitWrite, Request, Answer, WorkNext, Claim, Load, Fail,
           Complete, CrashWork
  <2>2. i = j
    BY <2>1 DEF Commit, Step, RecentInv, OnceInv, OneSnapshot
  <2>3. r \in work[j].old
    BY <2>1, <2>2 DEF Commit
  <2> QED
    BY <2>3 DEF RecentInv, KeptInv, Later
<1> QED
  BY <1>1, <1>2, <1>3, PTL DEF Spec, RecentSurvives
=============================================================================
