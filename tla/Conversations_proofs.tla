------------------------- MODULE Conversations_proofs -------------------------
(***************************************************************************)
(* What holds of Conversations for any number of windows, agents,          *)
(* conversations, texts, calls and faults.                                 *)
(***************************************************************************)
EXTENDS Conversations, FiniteSetTheorems, SequenceTheorems, TLAPS

-----------------------------------------------------------------------------
(* The lists of agents.                                                    *)

LEMMA NoAgents == <<>> \in Lists
BY EmptySeq DEF Lists, IsInjective

LEMMA AddAgent ==
  ASSUME NEW l \in Lists, NEW a \in Agents, a \notin ToSet(l)
  PROVE  Append(l, a) \in Lists
<1>1. l \in Seq(Agents) /\ IsInjective(l) /\ DOMAIN l = 1 .. Len(l)
  BY LenProperties DEF Lists
<1>a. PICK n \in Nat : n = Len(l)
  BY <1>1, LenProperties
<1>b. PICK m \in Seq(Agents) : m = Append(l, a)
  BY <1>1, AppendProperties
<1>2. /\ Len(m) = n + 1 /\ DOMAIN m = 1 .. n + 1 /\ m[n + 1] = a
      /\ \A i \in 1 .. n : m[i] = l[i] /\ m[i] # a
  <2>1. /\ Len(m) = n + 1 /\ m[n + 1] = a /\ \A i \in 1 .. n : m[i] = l[i]
    BY <1>1, <1>a, <1>b, AppendProperties
  <2>2. DOMAIN m = 1 .. Len(m)
    BY <1>b, LenProperties
  <2>3. \A i \in 1 .. n : l[i] # a
    BY <1>1, <1>a DEF ToSet
  <2> QED
    BY <2>1, <2>2, <2>3
<1>3. \A i \in 1 .. n + 1 : i \in 1 .. n \/ i = n + 1
  OBVIOUS
<1>4. ASSUME NEW i \in 1 .. n + 1, NEW j \in 1 .. n + 1, m[i] = m[j] PROVE i = j
  <2>1. CASE i \in 1 .. n /\ j \in 1 .. n
    BY <1>1, <1>a, <1>2, <1>4, <2>1 DEF IsInjective
  <2>2. CASE ~ (i \in 1 .. n /\ j \in 1 .. n)
    BY <1>2, <1>3, <1>4, <2>2
  <2> QED
    BY <2>1, <2>2
<1>5. IsInjective(m)
  BY <1>2, <1>4 DEF IsInjective
<1> QED
  BY <1>b, <1>5 DEF Lists

LEMMA DropAgent ==
  ASSUME NEW l \in Lists, l # <<>>
  PROVE  Head(l) \in Agents /\ Tail(l) \in Lists
<1>1. l \in Seq(Agents) /\ IsInjective(l) /\ DOMAIN l = 1 .. Len(l)
  BY LenProperties DEF Lists
<1>a. PICK n \in Nat : n = Len(l)
  BY <1>1, LenProperties
<1>b. PICK m \in Seq(Agents) : m = Tail(l)
  BY <1>1, HeadTailProperties
<1>2. Head(l) \in Agents /\ Len(m) = n - 1 /\ \A i \in 1 .. Len(m) : m[i] = l[i + 1]
  BY <1>1, <1>a, <1>b, HeadTailProperties
<1>3. DOMAIN m = 1 .. n - 1
  BY <1>2, LenProperties
<1>4. ASSUME NEW i \in 1 .. n - 1, NEW j \in 1 .. n - 1, m[i] = m[j] PROVE i = j
  <2>1. i + 1 \in 1 .. n /\ j + 1 \in 1 .. n
    OBVIOUS
  <2>2. l[i + 1] = l[j + 1]
    BY <1>2, <1>4
  <2>3. i + 1 = j + 1
    BY <1>1, <1>a, <2>1, <2>2 DEF IsInjective
  <2> QED
    BY <2>3
<1>5. IsInjective(m)
  BY <1>3, <1>4 DEF IsInjective
<1> QED
  BY <1>b, <1>2, <1>5 DEF Lists

LEMMA SetList ==
  ASSUME NEW S \in SUBSET Agents
  PROVE  SetToSeq(S) \in Lists /\ \A i \in DOMAIN SetToSeq(S) : SetToSeq(S)[i] \in S
<1>1. IsFiniteSet(S)
  BY ConversationAssumption, FS_Subset DEF ConversationAssumption
<1>a. PICK n \in Nat : n = Cardinality(S)
  BY <1>1, FS_CardinalityType
<1>2. \E f \in [1 .. n -> S] : IsInjective(f)
  BY <1>1, <1>a, FS_CardinalityType DEF ExistsBijection, Bijection, Injection
<1>3. SetToSeq(S) \in [1 .. n -> S] /\ IsInjective(SetToSeq(S))
  BY <1>a, <1>2 DEF SetToSeq
<1>4. SetToSeq(S) \in Seq(Agents)
  BY <1>3, SeqDef
<1> QED
  BY <1>3, <1>4 DEF Lists

LEMMA JoinLists ==
  ASSUME NEW l \in Lists, NEW m \in Lists, \A i \in DOMAIN m : m[i] \notin ToSet(l)
  PROVE  l \o m \in Lists
<1>1. /\ l \in Seq(Agents) /\ IsInjective(l) /\ DOMAIN l = 1 .. Len(l)
      /\ m \in Seq(Agents) /\ IsInjective(m) /\ DOMAIN m = 1 .. Len(m)
  BY LenProperties DEF Lists
<1>a. PICK n \in Nat, p \in Nat : n = Len(l) /\ p = Len(m)
  BY <1>1, LenProperties
<1>b. PICK k \in Seq(Agents) : k = l \o m
  BY <1>1, ConcatProperties
<1>2. Len(k) = n + p /\ \A i \in 1 .. n + p : k[i] = IF i <= n THEN l[i] ELSE m[i - n]
  BY <1>1, <1>a, <1>b, ConcatProperties
<1>3. DOMAIN k = 1 .. n + p
  BY <1>2, LenProperties
<1>4. ASSUME NEW i \in 1 .. n + p
      PROVE  IF i <= n THEN i \in 1 .. n ELSE i - n \in 1 .. p
  OBVIOUS
<1>5. \A i \in 1 .. n, j \in 1 .. p : l[i] # m[j]
  BY <1>1, <1>a DEF ToSet
<1>6. ASSUME NEW i \in 1 .. n + p, NEW j \in 1 .. n + p, k[i] = k[j] PROVE i = j
  <2>1. CASE i <= n /\ j <= n
    <3>1. i \in 1 .. n /\ j \in 1 .. n /\ l[i] = l[j]
      BY <1>2, <1>4, <1>6, <2>1
    <3> QED
      BY <1>1, <1>a, <3>1 DEF IsInjective
  <2>2. CASE ~ i <= n /\ ~ j <= n
    <3>1. i - n \in 1 .. p /\ j - n \in 1 .. p /\ m[i - n] = m[j - n]
      BY <1>2, <1>4, <1>6, <2>2
    <3>2. i - n = j - n
      BY <1>1, <1>a, <3>1 DEF IsInjective
    <3> QED
      BY <3>2
  <2>3. CASE i <= n /\ ~ j <= n
    BY <1>2, <1>4, <1>5, <1>6, <2>3
  <2>4. CASE ~ i <= n /\ j <= n
    BY <1>2, <1>4, <1>5, <1>6, <2>4
  <2> QED
    BY <2>1, <2>2, <2>3, <2>4
<1>7. IsInjective(k)
  BY <1>3, <1>6 DEF IsInjective
<1> QED
  BY <1>b, <1>7 DEF Lists

-----------------------------------------------------------------------------
(* What the operators on views return, and what they leave alone.          *)

LEMMA EntryIn ==
  ASSUME NEW k \in Calls, NEW x \in {"temp", "user", "reply"}
  PROVE  <<k, x>> \in Entries
BY DEF Entries

LEMMA AttachLocallyView ==
  ASSUME NEW v \in Views, NEW c \in Convs, NEW a \in Agents
  PROVE  LET u == AttachLocally(v, c, a) IN
         /\ u \in Views /\ u.known = v.known /\ u.shown = v.shown
         /\ u.points[a] = c /\ \A b \in Agents \ {a} : u.points[b] = v.points[b]
<1>a. PICK m \in Lists :
        m = IF c \in v.known /\ a \notin ToSet(v.lists[c]) THEN Append(v.lists[c], a)
            ELSE v.lists[c]
  BY AddAgent DEF Views
<1>1. PICK l \in [Convs -> Lists] : l = [v.lists EXCEPT ![c] = m]
  BY DEF Views
<1>2. PICK w \in Views : w = [v EXCEPT !.points[a] = c]
  BY DEF Views
<1>3. AttachLocally(v, c, a) = [[v EXCEPT !.points[a] = c] EXCEPT !.lists[c] = m]
  BY <1>a, Zenon DEF AttachLocally
<1>5. /\ w.known = v.known /\ w.shown = v.shown /\ w.points = [v.points EXCEPT ![a] = c]
      /\ w.lists = v.lists
  BY <1>2 DEF Views
<1>6. [w EXCEPT !.lists[c] = m] = [known |-> w.known, points |-> w.points, lists |-> l,
                                   shown |-> w.shown]
  BY <1>1, <1>5 DEF Views
<1>4. [v.points EXCEPT ![a] = c] \in [Agents -> Convs \cup {None}]
  BY DEF Views
<1> QED
  BY <1>2, <1>3, <1>4, <1>5, <1>6 DEF Views

LEMMA DetachFirstView ==
  ASSUME NEW v \in Views, NEW c \in Convs
  PROVE  LET u == DetachFirst(v, c) IN
         /\ u \in Views /\ u.known = v.known /\ u.shown = v.shown
         /\ \A a \in Agents :
              v.lists[c] = <<>> \/ a # Head(v.lists[c]) => u.points[a] = v.points[a]
         /\ v.lists[c] # <<>> =>
              LET b == Head(v.lists[c]) IN
              b \in Agents /\ u.points[b] = IF v.points[b] = c THEN None ELSE v.points[b]
<1>1. CASE v.lists[c] = <<>>
  BY <1>1 DEF DetachFirst
<1>2. ASSUME v.lists[c] # <<>>
      PROVE  LET u == DetachFirst(v, c)  b == Head(v.lists[c]) IN
             /\ u \in Views /\ u.known = v.known /\ u.shown = v.shown
             /\ \A a \in Agents : a # b => u.points[a] = v.points[a]
             /\ b \in Agents /\ u.points[b] = IF v.points[b] = c THEN None ELSE v.points[b]
  <2>1. PICK b \in Agents, l \in Lists : b = Head(v.lists[c]) /\ l = Tail(v.lists[c])
    BY <1>2, DropAgent DEF Views
  <2>2. PICK p \in [Agents -> Convs \cup {None}] :
          p = [v.points EXCEPT ![b] = IF @ = c THEN None ELSE @]
    BY DEF Views
  <2>3. DetachFirst(v, c) = [known |-> v.known, points |-> p,
                             lists |-> [v.lists EXCEPT ![c] = l], shown |-> v.shown]
    BY <1>2, <2>1, <2>2 DEF DetachFirst, Views
  <2>4. [v.lists EXCEPT ![c] = l] \in [Convs -> Lists]
    BY DEF Views
  <2> QED
    BY <2>1, <2>2, <2>3, <2>4 DEF Views
<1> QED
  BY <1>1, <1>2

LEMMA ShownView ==
  ASSUME NEW v \in Views, NEW c \in Convs, NEW S \in SUBSET Entries
  PROVE  LET u == [v EXCEPT !.shown[c] = S] IN
         /\ u \in Views /\ u.known = v.known /\ u.points = v.points
         /\ u.shown[c] = S /\ \A d \in Convs \ {c} : u.shown[d] = v.shown[d]
<1>1. PICK s \in [Convs -> SUBSET Entries] : s = [v.shown EXCEPT ![c] = S]
  BY DEF Views
<1>2. [v EXCEPT !.shown[c] = S]
        = [known |-> v.known, points |-> v.points, lists |-> v.lists, shown |-> s]
  BY <1>1 DEF Views
<1> QED
  BY <1>1, <1>2 DEF Views

\* A temporary message.
LEMMA AddTempView ==
  ASSUME NEW v \in Views, NEW c \in Convs, NEW k \in Calls
  PROVE  LET u == AddTemp(v, c, k) IN
         /\ u \in Views /\ u.known = v.known /\ u.points = v.points
         /\ \A d \in Convs \ {c} : u.shown[d] = v.shown[d]
         /\ u.shown[c] \in {v.shown[c], v.shown[c] \cup {<<k, "temp">>}}
<1>1. CASE \E e \in v.shown[c] : e[2] = "user" /\ Alike(e[1], k)
  BY <1>1 DEF AddTemp
<1>2. CASE ~ \E e \in v.shown[c] : e[2] = "user" /\ Alike(e[1], k)
  <2>1. PICK S \in SUBSET Entries : S = v.shown[c] \cup {<<k, "temp">>}
    BY EntryIn DEF Views
  <2>2. AddTemp(v, c, k) = [v EXCEPT !.shown[c] = S]
    BY <1>2, <2>1 DEF AddTemp
  <2> QED
    BY <2>1, <2>2, ShownView
<1> QED
  BY <1>1, <1>2

\* A user message stands for at most one temporary message of its text, and for one if there is.
Placing(v, u, c, k) ==
  \/ <<k, "user">> \in v.shown[c] /\ u.shown[c] = v.shown[c]
  \/ /\ <<k, "user">> \notin v.shown[c]
     /\ \/ Temps(v, c, k) = {} /\ u.shown[c] = v.shown[c] \cup {<<k, "user">>}
        \/ \E e \in Temps(v, c, k) : u.shown[c] = (v.shown[c] \ {e}) \cup {<<k, "user">>}

LEMMA AddUserView ==
  ASSUME NEW v \in Views, NEW c \in Convs, NEW k \in Calls, NEW u \in AddUser(v, c, k)
  PROVE  /\ u \in Views /\ u.known = v.known /\ u.points = v.points
         /\ \A d \in Convs \ {c} : u.shown[d] = v.shown[d]
         /\ Placing(v, u, c, k)
<1>1. CASE <<k, "user">> \in v.shown[c]
  BY <1>1 DEF AddUser, Placing
<1>2. CASE <<k, "user">> \notin v.shown[c]
  <2>1. PICK gone \in IF Temps(v, c, k) = {} THEN {{}} ELSE {{e} : e \in Temps(v, c, k)} :
          u = [v EXCEPT !.shown[c] = (@ \ gone) \cup {<<k, "user">>}]
    BY <1>2 DEF AddUser
  <2>2. PICK S \in SUBSET Entries : S = (v.shown[c] \ gone) \cup {<<k, "user">>}
    BY EntryIn DEF Views
  <2>3. u = [v EXCEPT !.shown[c] = S]
    BY <2>1, <2>2
  <2>4. /\ u \in Views /\ u.known = v.known /\ u.points = v.points
        /\ \A d \in Convs \ {c} : u.shown[d] = v.shown[d]
        /\ u.shown[c] = S
    BY <2>3, ShownView
  <2>5. \/ Temps(v, c, k) = {} /\ gone = {}
        \/ \E e \in Temps(v, c, k) : gone = {e}
    OBVIOUS
  <2> QED
    BY <1>2, <2>2, <2>4, <2>5 DEF Placing
<1> QED
  BY <1>1, <1>2

LEMMA AddReplyView ==
  ASSUME NEW v \in Views, NEW c \in Convs, NEW k \in Calls
  PROVE  LET u == AddReply(v, c, k) IN
         /\ u \in Views /\ u.known = v.known /\ u.points = v.points
         /\ \A d \in Convs \ {c} : u.shown[d] = v.shown[d]
         /\ u.shown[c] = v.shown[c] \cup {<<k, "reply">>}
<1>1. PICK S \in SUBSET Entries : S = v.shown[c] \cup {<<k, "reply">>}
  BY EntryIn DEF Views
<1>2. AddReply(v, c, k) = [v EXCEPT !.shown[c] = S]
  BY <1>1 DEF AddReply
<1> QED
  BY <1>1, <1>2, ShownView

LEMMA BlankView ==
  Blank \in Views /\ Blank.known = {} /\ \A c \in Convs : Blank.shown[c] = {}
BY NoAgents DEF Blank, Views

LEMMA MergedView ==
  ASSUME NEW v \in Views
  PROVE  LET u == Merged(v) IN
         u \in Views /\ u.known = v.known /\ u.points = v.points /\ u.shown = v.shown
<1> DEFINE M(c) == v.lists[c] \o SetToSeq({a \in Agents : c \in v.known /\ v.points[a] = c}
                                            \ ToSet(v.lists[c]))
<1>1. ASSUME NEW c \in Convs PROVE M(c) \in Lists
  <2>1. PICK l \in Lists : l = v.lists[c]
    BY DEF Views
  <2>2. PICK S \in SUBSET Agents :
          S = {a \in Agents : c \in v.known /\ v.points[a] = c} \ ToSet(v.lists[c])
    OBVIOUS
  <2>3. PICK m \in Lists : m = SetToSeq(S) /\ \A i \in DOMAIN m : m[i] \in S
    BY SetList
  <2>4. l \o m \in Lists
    BY <2>1, <2>2, <2>3, JoinLists
  <2> QED
    BY <2>1, <2>2, <2>3, <2>4
<1>2. PICK l \in [Convs -> Lists] : l = [c \in Convs |-> M(c)]
  BY <1>1
<1>3. Merged(v) = [v EXCEPT !.lists = l]
  BY <1>2, Zenon DEF Merged
<1>4. [v EXCEPT !.lists = l]
        = [known |-> v.known, points |-> v.points, lists |-> l, shown |-> v.shown]
  BY DEF Views
<1> QED
  BY <1>2, <1>3, <1>4 DEF Views

-----------------------------------------------------------------------------
(* The types, and what each chain of requests knows.                       *)

ServerType ==
  /\ made \subseteq Convs
  /\ at \in [Agents -> made \cup {None}]
  /\ home \in [Calls -> made \cup {None}]
  /\ replies \subseteq {k \in Calls : home[k] # None}
CallType == call \in [Calls -> Chains]
EventType ==
  /\ sent \in [Calls -> 0 .. 3] /\ got \in [Windows -> [Calls -> 0 .. 3]]
  /\ \A w \in Windows, k \in Calls : got[w][k] <= sent[k]
WindowType ==
  /\ view \in [Windows -> Views]
  /\ loading \in [Windows -> SUBSET {"agents", "conversations", "show", "join"}]
  /\ streams \subseteq Windows \X Calls
WhyType ==
  /\ faults \in 0 .. MaxFaults
  /\ doubt \subseteq Windows \X Agents /\ cleared \subseteq Windows \X Agents
  /\ excused \subseteq Windows \X Calls

\* A call that has not begun or is over is like a new one; an attach call stores no message; only
\* a call that has still to make its conversation has none.
Shaped(k) ==
  /\ call[k].at \in {"idle", "done"} => call[k].kind = "attach" /\ ~ call[k].page
  /\ call[k].kind = "attach" =>
       call[k].at \in {"idle", "done", "attach", "read", "attached", "refused"}
  /\ call[k].c = None => call[k].at \in {"idle", "create", "done"}

\* The conversations that a call has and has seen are made.
Named(k) == call[k].c \in made \cup {None} /\ call[k].saw \in made \cup {None}

\* A message that has a place has been stored, and only such a message is told.
Begun(k) ==
  /\ home[k] # None => call[k].at \in {"stored", "done"}
  /\ sent[k] > 0 => home[k] # None

\* A call with a page has one that has loaded, and that knows what it attaches.
Paged(k) ==
  call[k].page =>
    /\ Ready(call[k].w)
    /\ call[k].at \in {"attach", "read", "attached"} => call[k].c \in view[call[k].w].known

Sound ==
  /\ ServerType /\ CallType /\ EventType /\ WindowType /\ WhyType
  /\ \A k \in Calls : Shaped(k) /\ Named(k) /\ Begun(k) /\ Paged(k)
  /\ \A w \in Windows : view[w].known \subseteq made

LEMMA TypeParts ==
  TypeOK <=> ServerType /\ CallType /\ EventType /\ WindowType /\ WhyType
BY DEF TypeOK, ServerType, CallType, EventType, WindowType, WhyType

LEMMA StoredView ==
  ASSUME ServerType
  PROVE  /\ AsStored \in Views /\ AsStored.known = made /\ AsStored.points = at
         /\ \A c \in Convs : AsStored.shown[c] = Stored(c)
<1>1. PICK l \in [Convs -> Lists] : l = [c \in Convs |-> Attached(c)]
  BY SetList DEF Attached
<1>2. \A c \in Convs : Stored(c) \in SUBSET Entries
  BY DEF ServerType, Stored, Entries
<1>3. at \in [Agents -> Convs \cup {None}]
  BY DEF ServerType
<1> QED
  BY <1>1, <1>2, <1>3 DEF AsStored, Views, ServerType

-----------------------------------------------------------------------------
(* How a step moves a call.                                                *)

\* Call k has the fields of x and the other calls are as they were.
Turns(k, x) ==
  /\ CallType' /\ call'[k] = x
  /\ \A j \in Calls \ {k} : call'[j] = call[j]

LEMMA Turned ==
  ASSUME CallType, NEW k \in Calls, NEW x \in Chains, call' = [call EXCEPT ![k] = x]
  PROVE  Turns(k, x)
BY DEF Turns, CallType

LEMMA ToTurns ==
  ASSUME CallType, NEW k \in Calls, NEW s \in Stages, To(k, s)
  PROVE  \E x \in Chains :
           /\ Turns(k, x) /\ x.at = s
           /\ x.kind = call[k].kind /\ x.w = call[k].w /\ x.a = call[k].a /\ x.c = call[k].c
           /\ x.text = call[k].text /\ x.saw = call[k].saw /\ x.page = call[k].page
<1>1. PICK x \in Chains : x = [call[k] EXCEPT !.at = s]
  BY DEF CallType, Chains
<1>2. call' = [call EXCEPT ![k] = x]
  BY <1>1 DEF To, CallType
<1>3. /\ x.at = s
      /\ x.kind = call[k].kind /\ x.w = call[k].w /\ x.a = call[k].a /\ x.c = call[k].c
      /\ x.text = call[k].text /\ x.saw = call[k].saw /\ x.page = call[k].page
  BY <1>1 DEF CallType, Chains
<1> QED
  BY <1>2, <1>3, Turned

LEMMA EndTurns ==
  ASSUME CallType, NEW k \in Calls, Finish(k)
  PROVE  \E x \in Chains :
           /\ Turns(k, x) /\ x.at = "done" /\ x.kind = "attach" /\ x.c = None /\ x.saw = None
           /\ x.w = call[k].w /\ x.a = call[k].a /\ x.text = call[k].text /\ ~ x.page
<1>1. PICK y \in Chains : y = NoCall(call[k].w, call[k].a, call[k].text)
  BY DEF CallType, Chains, Stages, NoCall
<1>2. /\ y.kind = "attach" /\ y.c = None /\ y.saw = None
      /\ y.w = call[k].w /\ y.a = call[k].a /\ y.text = call[k].text /\ ~ y.page
  BY <1>1 DEF NoCall
<1>3. PICK x \in Chains : x = [y EXCEPT !.at = "done"]
  BY DEF Chains, Stages
<1>4. /\ x.at = "done" /\ x.kind = y.kind /\ x.c = y.c /\ x.saw = y.saw
      /\ x.w = y.w /\ x.a = y.a /\ x.text = y.text /\ x.page = y.page
  BY <1>3 DEF Chains
<1>5. Turns(k, x)
  BY <1>1, <1>3, Turned DEF Finish, Ended
<1> QED
  BY <1>2, <1>4, <1>5

\* No event names a session, so no window takes one in.
LEMMA TellsNothing ==
  ASSUME WindowType, NEW c, NEW a, Tell(Event(c, a))
  PROVE  view' = view
<1>1. ~ Heeds(Event(c, a))
  BY DEF Heeds, Event
<1> QED
  BY <1>1 DEF Tell, Told, WindowType

\* What the other calls know lasts as long as nothing is taken away.
LEMMA OthersStay ==
  ASSUME Sound, NEW k \in Calls, NEW x \in Chains, Turns(k, x),
         Shaped(k)', Named(k)', Begun(k)', Paged(k)',
         made \subseteq made', loading' = loading,
         \A j \in Calls \ {k} : home'[j] = home[j] /\ sent'[j] = sent[j],
         \A w \in Windows : view[w].known \subseteq view'[w].known
  PROVE  \A j \in Calls : Shaped(j)' /\ Named(j)' /\ Begun(j)' /\ Paged(j)'
<1> SUFFICES ASSUME NEW j \in Calls \ {k} PROVE Shaped(j)' /\ Named(j)' /\ Begun(j)' /\ Paged(j)'
  OBVIOUS
<1>1. call'[j] = call[j] /\ Shaped(j) /\ Named(j) /\ Begun(j) /\ Paged(j)
  BY DEF Turns, Sound
<1>2. call[j].w \in Windows
  BY DEF Sound, CallType, Chains
<1>3. Shaped(j)' /\ Named(j)' /\ Begun(j)'
  BY <1>1 DEF Shaped, Named, Begun
<1>4. Paged(j)'
  BY <1>1, <1>2 DEF Paged, Ready
<1> QED
  BY <1>3, <1>4

-----------------------------------------------------------------------------
(* The actions keep the types and what the calls know.                     *)

LEMMA CallFields ==
  ASSUME CallType, NEW k \in Calls
  PROVE  /\ call[k] \in Chains /\ call[k].w \in Windows /\ call[k].a \in Agents
         /\ call[k].c \in Convs \cup {None} /\ call[k].text \in Texts
         /\ call[k].at \in Stages /\ call[k].saw \in Convs \cup {None}
BY DEF CallType, Chains

LEMMA StartTurns ==
  ASSUME Sound, NEW k, NEW kind, NEW w, NEW a, NEW c, NEW t, NEW s,
         Start(k, kind, w, a, c, t, s), k \in Calls, kind \in {"attach", "new", "send"},
         w \in Windows, a \in Agents, c \in Convs \cup {None}, t \in Texts, s \in Stages
  PROVE  /\ call[k].at = "idle"
         /\ \E x \in Chains :
              /\ Turns(k, x) /\ x.kind = kind /\ x.w = w /\ x.a = a /\ x.c = c /\ x.text = t
              /\ x.at = s /\ x.saw = None /\ x.page
<1>1. PICK x \in Chains :
        x = [kind |-> kind, w |-> w, a |-> a, c |-> c, text |-> t, at |-> s, saw |-> None,
             page |-> TRUE]
  BY DEF Chains
<1>2. call[k].at = "idle" /\ call' = [call EXCEPT ![k] = x]
  BY <1>1 DEF Start
<1>3. Turns(k, x)
  BY <1>2, Turned DEF Sound
<1> QED
  BY <1>1, <1>2, <1>3

LEMMA CreateTurns ==
  ASSUME Sound, NEW k \in Calls, CreateConversation(k)
  PROVE  \E c \in Convs \ made, x \in Chains :
           /\ Turns(k, x) /\ x.at = "created" /\ x.c = c /\ made' = made \cup {c}
           /\ x.kind = call[k].kind /\ x.w = call[k].w /\ x.a = call[k].a
           /\ x.text = call[k].text /\ x.saw = call[k].saw /\ x.page = call[k].page
           /\ view' = view
<1>1. PICK c \in Convs \ made :
        /\ made' = made \cup {c}
        /\ call' = [call EXCEPT ![k].at = "created", ![k].c = c]
        /\ Tell(Event(c, None))
  BY DEF CreateConversation
<1>2. PICK y \in Chains : y = [call[k] EXCEPT !.at = "created"]
  BY CallFields DEF Sound, Chains, Stages
<1>3. PICK x \in Chains : x = [y EXCEPT !.c = c]
  BY DEF Chains
<1>4. call' = [call EXCEPT ![k] = x]
  BY <1>1, <1>2, <1>3 DEF Sound, CallType
<1>5. /\ y.at = "created"
      /\ y.kind = call[k].kind /\ y.w = call[k].w /\ y.a = call[k].a
      /\ y.text = call[k].text /\ y.saw = call[k].saw /\ y.page = call[k].page
  BY <1>2, CallFields DEF Sound, Chains
<1>6. /\ x.at = y.at /\ x.c = c
      /\ x.kind = y.kind /\ x.w = y.w /\ x.a = y.a
      /\ x.text = y.text /\ x.saw = y.saw /\ x.page = y.page
  BY <1>3 DEF Chains
<1>7. view' = view
  BY <1>1, TellsNothing DEF Sound
<1> QED
  BY <1>1, <1>4, <1>5, <1>6, <1>7, Turned DEF Sound

\* A call takes note of an attachment.
LEMMA SeeTurns ==
  ASSUME Sound, NEW k \in Calls, NEW s \in Stages,
         call' = [call EXCEPT ![k].at = s, ![k].saw = at[call[k].a]]
  PROVE  \E x \in Chains :
           /\ Turns(k, x) /\ x.at = s /\ x.saw = at[call[k].a]
           /\ x.kind = call[k].kind /\ x.w = call[k].w /\ x.a = call[k].a /\ x.c = call[k].c
           /\ x.text = call[k].text /\ x.page = call[k].page
<1>1. PICK o \in Convs \cup {None} : o = at[call[k].a]
  BY CallFields DEF Sound, ServerType
<1>2. PICK y \in Chains : y = [call[k] EXCEPT !.at = s]
  BY CallFields DEF Sound, Chains
<1>3. PICK x \in Chains : x = [y EXCEPT !.saw = o]
  BY DEF Chains
<1>4. call' = [call EXCEPT ![k] = x]
  BY <1>1, <1>2, <1>3 DEF Sound, CallType
<1>5. /\ y.at = s
      /\ y.kind = call[k].kind /\ y.w = call[k].w /\ y.a = call[k].a /\ y.c = call[k].c
      /\ y.text = call[k].text /\ y.page = call[k].page
  BY <1>2, CallFields DEF Sound, Chains
<1>6. /\ x.at = y.at /\ x.saw = o
      /\ x.kind = y.kind /\ x.w = y.w /\ x.a = y.a /\ x.c = y.c
      /\ x.text = y.text /\ x.page = y.page
  BY <1>3 DEF Chains
<1> QED
  BY <1>1, <1>4, <1>5, <1>6, Turned DEF Sound

LEMMA LeaveTurns ==
  ASSUME CallType, NEW k \in Calls, call' = [call EXCEPT ![k].page = FALSE]
  PROVE  \E x \in Chains :
           /\ Turns(k, x) /\ ~ x.page
           /\ x.kind = call[k].kind /\ x.w = call[k].w /\ x.a = call[k].a /\ x.c = call[k].c
           /\ x.text = call[k].text /\ x.at = call[k].at /\ x.saw = call[k].saw
<1>1. PICK x \in Chains : x = [call[k] EXCEPT !.page = FALSE]
  BY CallFields DEF Chains
<1>2. /\ ~ x.page
      /\ x.kind = call[k].kind /\ x.w = call[k].w /\ x.a = call[k].a /\ x.c = call[k].c
      /\ x.text = call[k].text /\ x.at = call[k].at /\ x.saw = call[k].saw
  BY <1>1, CallFields DEF Chains
<1>3. call' = [call EXCEPT ![k] = x]
  BY <1>1 DEF CallType
<1> QED
  BY <1>2, <1>3, Turned

LEMMA SoundInit == Init => Sound
<1> SUFFICES ASSUME Init PROVE Sound
  OBVIOUS
<1>1. ServerType /\ EventType
  BY DEF Init, ServerType, EventType
<1>a. PICK w \in Windows, a \in Agents, t \in Texts :
        /\ w = (CHOOSE v \in Windows : TRUE) /\ a = (CHOOSE b \in Agents : TRUE)
        /\ t = (CHOOSE u \in Texts : TRUE)
  BY ConversationAssumption DEF ConversationAssumption
<1>b. PICK x \in Chains : x = NoCall(w, a, t)
  BY DEF NoCall, Chains, Stages
<1>2. CallType /\ \A k \in Calls : call[k] = x
  BY <1>a, <1>b DEF Init, CallType
<1>3. x.at = "idle" /\ x.kind = "attach" /\ x.c = None /\ x.saw = None /\ ~ x.page
  BY <1>b DEF NoCall
<1>4. \A k \in Calls : Shaped(k) /\ Named(k)
  BY <1>2, <1>3 DEF Shaped, Named
<1>5. \A k \in Calls : Begun(k) /\ Paged(k)
  <2>1. \A k \in Calls : home[k] = None /\ sent[k] = 0
    BY DEF Init
  <2> QED
    BY <1>2, <1>3, <2>1 DEF Begun, Paged
<1>6. WhyType
  <2>1. faults = 0 /\ doubt = {} /\ cleared = {} /\ excused = {} /\ MaxFaults \in Nat
    BY ConversationAssumption DEF Init, ConversationAssumption
  <2> QED
    BY <2>1 DEF WhyType
<1>7. WindowType /\ \A u \in Windows : view[u].known \subseteq made
  <2>1. AsStored \in Views /\ AsStored.known = made
    BY <1>1, StoredView
  <2>2. view = [u \in Windows |-> AsStored]
    BY DEF Init
  <2>3. loading = [u \in Windows |-> {}] /\ streams = {}
    BY DEF Init
  <2> QED
    BY <2>1, <2>2, <2>3 DEF WindowType
<1> QED
  BY <1>1, <1>2, <1>4, <1>5, <1>6, <1>7 DEF Sound

LEMMA OpenedSound ==
  ASSUME Sound, NEW k \in Calls, NEW kind \in {"attach", "new", "send"}, NEW w \in Windows,
         NEW a \in Agents, NEW c \in Convs \cup {None}, NEW t \in Texts, NEW s \in Stages,
         Start(k, kind, w, a, c, t, s), Ready(w),
         c \in view[w].known \cup {None},
         kind = "attach" => s = "attach",
         s \in {"attach", "create", "send"}, c = None => s = "create", s = "attach" => c # None,
         view' \in [Windows -> Views], \A u \in Windows : view'[u].known = view[u].known
  PROVE  Sound'
<1>1. PICK x \in Chains :
        /\ Turns(k, x) /\ x.kind = kind /\ x.w = w /\ x.a = a /\ x.c = c /\ x.text = t
        /\ x.at = s /\ x.saw = None /\ x.page
  BY StartTurns
<1>2. UNCHANGED <<server, sent, got, streams, loading, faults>>
  BY DEF Start
<1>3. ServerType' /\ EventType' /\ WindowType'
  BY <1>2 DEF Sound, server, ServerType, EventType, WindowType
<1>4. WhyType'
  <2>1. OpenFor(w, a) \in SUBSET Calls
    BY DEF OpenFor
  <2>2. faults' = faults /\ cleared' \subseteq cleared
    BY <1>2 DEF Start
  <2>3. CASE OpenFor(w, a) = {}
    BY <2>2, <2>3 DEF Start, Sound, WhyType
  <2>4. CASE OpenFor(w, a) # {}
    <3>1. doubt' = doubt \cup {<<w, a>>} /\ excused' = excused \cup ({w} \X ({k} \cup OpenFor(w, a)))
      BY <2>4 DEF Start
    <3> QED
      BY <2>1, <2>2, <3>1 DEF Sound, WhyType
  <2> QED
    BY <2>3, <2>4
<1>5. home[k] = None /\ sent[k] = 0
  <2>1. call[k].at = "idle" /\ Begun(k)
    BY DEF Start, Sound
  <2>2. home[k] = None
    BY <2>1 DEF Begun
  <2>3. sent[k] \in 0 .. 3 /\ ~ sent[k] > 0
    BY <2>1, <2>2 DEF Begun, Sound, EventType
  <2> QED
    BY <2>2, <2>3
<1>6. c \in made \cup {None}
  BY DEF Sound
<1>7. Shaped(k)' /\ Named(k)' /\ Begun(k)' /\ Paged(k)'
  <2>1. call'[k] = x
    BY <1>1 DEF Turns
  <2>2. made' = made /\ home' = home /\ sent' = sent /\ loading' = loading
    BY <1>2 DEF server
  <2>3. Shaped(k)' /\ Named(k)'
    BY <1>1, <1>6, <2>1, <2>2 DEF Shaped, Named
  <2>4. Begun(k)' /\ Paged(k)'
    BY <1>1, <1>5, <2>1, <2>2 DEF Begun, Paged, Ready
  <2> QED
    BY <2>3, <2>4
<1>8. \A j \in Calls : Shaped(j)' /\ Named(j)' /\ Begun(j)' /\ Paged(j)'
  BY <1>1, <1>2, <1>7, OthersStay DEF server
<1>9. \A u \in Windows : view'[u].known \subseteq made'
  BY <1>2 DEF server, Sound
<1> QED
  BY <1>1, <1>3, <1>4, <1>8, <1>9 DEF Sound, Turns

LEMMA AttachSessionView ==
  ASSUME Sound, NEW k \in Calls, NEW w \in Windows, NEW a \in Agents, NEW c \in Convs,
         NEW t \in Texts, AttachSession(k, w, a, c, t)
  PROVE  /\ view' \in [Windows -> Views] /\ \A u \in Windows \ {w} : view'[u] = view[u]
         /\ view'[w].known = view[w].known /\ view'[w].shown = view[w].shown
         /\ view'[w].points[a] = c
         /\ \A b \in Agents \ {a} : view'[w].points[b] = view[w].points[b]
<1>a. PICK u \in Views : u = view[w]
  BY DEF Sound, WindowType
<1>1. PICK v \in Views : v = AttachLocally(view[w], c, a)
  BY <1>a, AttachLocallyView
<1>2. /\ v.known = view[w].known /\ v.shown = view[w].shown
      /\ v.points[a] = c /\ \A b \in Agents \ {a} : v.points[b] = view[w].points[b]
  BY <1>a, <1>1, AttachLocallyView
<1>3. view' = [view EXCEPT ![w] = v]
  BY <1>1 DEF AttachSession
<1> QED
  BY <1>2, <1>3 DEF Sound, WindowType

LEMMA SendMessageView ==
  ASSUME Sound, NEW k \in Calls, NEW w \in Windows, NEW a \in Agents, NEW t \in Texts,
         SendMessage(k, w, a, t)
  PROVE  LET c == Conversation(view[w], a) IN
         /\ c \in view[w].known \cup {None}
         /\ view' \in [Windows -> Views] /\ \A u \in Windows \ {w} : view'[u] = view[u]
         /\ view'[w].known = view[w].known /\ view'[w].points = view[w].points
         /\ c = None => view'[w] = view[w]
         /\ c # None =>
              /\ c \in Convs
              /\ \A d \in Convs \ {c} : view'[w].shown[d] = view[w].shown[d]
              /\ view'[w].shown[c] \in {view[w].shown[c], view[w].shown[c] \cup {<<k, "temp">>}}
<1> DEFINE c == Conversation(view[w], a)
<1>1. view[w] \in Views /\ view \in [Windows -> Views]
  BY DEF Sound, WindowType
<1>2. c \in view[w].known \cup {None} /\ (c # None => c \in Convs)
  BY <1>1 DEF Conversation, Views
<1>3. CASE c = None
  BY <1>1, <1>2, <1>3 DEF SendMessage
<1>4. ASSUME c # None
      PROVE  /\ view' \in [Windows -> Views] /\ \A u \in Windows \ {w} : view'[u] = view[u]
             /\ view'[w].known = view[w].known /\ view'[w].points = view[w].points
             /\ \A d \in Convs \ {c} : view'[w].shown[d] = view[w].shown[d]
             /\ view'[w].shown[c] \in {view[w].shown[c], view[w].shown[c] \cup {<<k, "temp">>}}
  <2>1. PICK d \in Convs : d = c
    BY <1>2, <1>4
  <2>2. PICK v \in Views : v = AddTemp(view[w], d, k)
    BY <1>1, AddTempView
  <2>3. view' = [view EXCEPT ![w] = v]
    BY <1>4, <2>1, <2>2 DEF SendMessage
  <2>4. /\ v.known = view[w].known /\ v.points = view[w].points
        /\ \A e \in Convs \ {d} : v.shown[e] = view[w].shown[e]
        /\ v.shown[d] \in {view[w].shown[d], view[w].shown[d] \cup {<<k, "temp">>}}
    BY <1>1, <2>2, AddTempView
  <2> HIDE DEF c
  <2> QED
    BY <1>1, <2>1, <2>3, <2>4
<1> QED
  BY <1>2, <1>3, <1>4

LEMMA ClickSound ==
  ASSUME Sound, NEW k \in Calls, NEW w \in Windows, NEW a \in Agents, NEW t \in Texts,
         \/ CreateNewSession(k, w, a, t) \/ SendMessage(k, w, a, t)
         \/ \E c \in Convs : AttachSession(k, w, a, c, t)
  PROVE  Sound'
<1>1. CASE CreateNewSession(k, w, a, t)
  <2>1. Start(k, "new", w, a, None, t, "create") /\ Ready(w) /\ view' = view
    BY <1>1 DEF CreateNewSession
  <2>2. view' \in [Windows -> Views] /\ \A u \in Windows : view'[u].known = view[u].known
    BY <2>1 DEF Sound, WindowType
  <2> QED
    BY <2>1, <2>2, OpenedSound DEF Stages
<1>2. CASE SendMessage(k, w, a, t)
  <2>1. PICK c \in Convs \cup {None} : c = Conversation(view[w], a) /\ c \in view[w].known \cup {None}
    BY <1>2, SendMessageView DEF Sound, WindowType, Views
  <2>2. PICK s \in {"create", "send"} : s = IF c = None THEN "create" ELSE "send"
    OBVIOUS
  <2>3. Start(k, "send", w, a, c, t, s) /\ Ready(w)
    BY <1>2, <2>1, <2>2 DEF SendMessage
  <2>4. view' \in [Windows -> Views] /\ \A u \in Windows : view'[u].known = view[u].known
    BY <1>2, SendMessageView
  <2>5. s \in Stages
    BY DEF Stages
  <2> QED
    BY <2>1, <2>2, <2>3, <2>4, <2>5, OpenedSound
<1>3. ASSUME NEW c \in Convs, AttachSession(k, w, a, c, t) PROVE Sound'
  <2>1. Start(k, "attach", w, a, c, t, "attach") /\ Ready(w) /\ c \in view[w].known
    BY <1>3 DEF AttachSession
  <2>2. view' \in [Windows -> Views] /\ \A u \in Windows : view'[u].known = view[u].known
    BY <1>3, AttachSessionView
  <2>3. c # None
    BY ConversationAssumption DEF ConversationAssumption
  <2> QED
    BY <2>1, <2>2, <2>3, OpenedSound DEF Stages
<1> QED
  BY <1>1, <1>2, <1>3

\* A step that moves one call and leaves the database alone.
LEMMA TurnSound ==
  ASSUME Sound, NEW k \in Calls, NEW x \in Chains, Turns(k, x),
         UNCHANGED <<server, sent, got, streams, loading>>, WhyType',
         view' \in [Windows -> Views],
         \A u \in Windows : view[u].known \subseteq view'[u].known /\ view'[u].known \subseteq made,
         Shaped(k)', Named(k)', Begun(k)', Paged(k)'
  PROVE  Sound'
<1>1. ServerType' /\ EventType' /\ WindowType' /\ made' = made /\ home' = home
  BY DEF Sound, server, ServerType, EventType, WindowType
<1>2. \A j \in Calls : Shaped(j)' /\ Named(j)' /\ Begun(j)' /\ Paged(j)'
  BY <1>1, OthersStay
<1> QED
  BY <1>1, <1>2 DEF Sound, Turns

\* As TurnSound, for a call that goes on: it keeps its conversation and its window.
LEMMA GoesOnSound ==
  ASSUME Sound, NEW k \in Calls, NEW x \in Chains, Turns(k, x),
         UNCHANGED <<server, sent, got, streams, loading>>, WhyType',
         view' \in [Windows -> Views],
         \A u \in Windows : view[u].known \subseteq view'[u].known /\ view'[u].known \subseteq made,
         x.kind = call[k].kind, x.w = call[k].w, x.c = call[k].c, x.page => call[k].page,
         x.saw \in made \cup {None}, home[k] # None => x.at \in {"stored", "done"},
         x.at \notin {"idle", "done", "create"}, x.c # None,
         x.kind = "attach" => x.at \in {"attach", "read", "attached", "refused"},
         x.page /\ x.at \in {"attach", "read", "attached"} => x.c \in view'[x.w].known
  PROVE  Sound'
<1>1. Shaped(k) /\ Named(k) /\ Begun(k) /\ Paged(k) /\ call'[k] = x
  BY DEF Sound, Turns
<1>2. made' = made /\ home' = home /\ sent' = sent /\ loading' = loading
  BY DEF server
<1>3. Shaped(k)' /\ Named(k)'
  BY <1>1, <1>2 DEF Shaped, Named
<1>4. Begun(k)' /\ Paged(k)'
  BY <1>1, <1>2 DEF Begun, Paged, Ready
<1> QED
  BY <1>3, <1>4, TurnSound

\* As TurnSound, for a call that is over.
LEMMA EndsSound ==
  ASSUME Sound, NEW k \in Calls, Finish(k),
         UNCHANGED <<server, sent, got, streams, loading>>, WhyType',
         view' \in [Windows -> Views],
         \A u \in Windows : view[u].known \subseteq view'[u].known /\ view'[u].known \subseteq made
  PROVE  Sound'
<1>1. PICK x \in Chains :
        /\ Turns(k, x) /\ x.at = "done" /\ x.kind = "attach" /\ x.c = None /\ x.saw = None
        /\ x.w = call[k].w /\ x.a = call[k].a /\ x.text = call[k].text /\ ~ x.page
  BY EndTurns DEF Sound
<1>2. Begun(k) /\ call'[k] = x
  BY <1>1 DEF Sound, Turns
<1>3. made' = made /\ home' = home /\ sent' = sent
  BY DEF server
<1>4. Shaped(k)' /\ Named(k)' /\ Begun(k)' /\ Paged(k)'
  BY <1>1, <1>2, <1>3 DEF Shaped, Named, Begun, Paged
<1> QED
  BY <1>1, <1>4, TurnSound

LEMMA SameViews ==
  ASSUME Sound, view' = view
  PROVE  /\ view' \in [Windows -> Views]
         /\ \A u \in Windows : view[u].known \subseteq view'[u].known /\ view'[u].known \subseteq made
BY DEF Sound, WindowType

LEMMA ReadAttachmentSound ==
  ASSUME Sound, NEW k \in Calls, ReadAttachment(k)
  PROVE  Sound'
<1>1. PICK s \in Stages : s = IF at[call[k].a] = call[k].c THEN "attached" ELSE "read"
  BY DEF Stages
<1>2. /\ call[k].at = "attach" /\ call' = [call EXCEPT ![k].at = s, ![k].saw = at[call[k].a]]
      /\ UNCHANGED <<server, sent, got, window, faults, why>>
  BY <1>1 DEF ReadAttachment
<1>3. PICK x \in Chains :
        /\ Turns(k, x) /\ x.at = s /\ x.saw = at[call[k].a]
        /\ x.kind = call[k].kind /\ x.w = call[k].w /\ x.a = call[k].a /\ x.c = call[k].c
        /\ x.text = call[k].text /\ x.page = call[k].page
  BY <1>2, SeeTurns
<1>4. UNCHANGED <<server, sent, got, streams, loading>> /\ view' = view
  BY <1>2 DEF window
<1>5. WhyType'
  BY <1>2 DEF why, Sound, WhyType
<1>6. x.saw \in made \cup {None}
  BY <1>3, CallFields DEF Sound, ServerType
<1>7. s \in {"attached", "read"}
  BY <1>1
<1>8. Shaped(k) /\ Begun(k) /\ Paged(k)
  BY DEF Sound
<1>9. /\ home[k] = None /\ x.c # None
      /\ x.page /\ x.at \in {"attach", "read", "attached"} => x.c \in view'[x.w].known
  BY <1>2, <1>3, <1>4, <1>8 DEF Shaped, Begun, Paged
<1> QED
  BY <1>3, <1>4, <1>5, <1>6, <1>7, <1>9, SameViews, GoesOnSound

LEMMA RouteMessageSound ==
  ASSUME Sound, NEW k \in Calls, RouteMessage(k)
  PROVE  Sound'
<1>1. "routed" \in Stages
  BY DEF Stages
<1>2. /\ call[k].at = "send" /\ call' = [call EXCEPT ![k].at = "routed", ![k].saw = at[call[k].a]]
      /\ UNCHANGED <<server, sent, got, window, faults, why>>
  BY DEF RouteMessage
<1>3. PICK x \in Chains :
        /\ Turns(k, x) /\ x.at = "routed" /\ x.saw = at[call[k].a]
        /\ x.kind = call[k].kind /\ x.w = call[k].w /\ x.a = call[k].a /\ x.c = call[k].c
        /\ x.text = call[k].text /\ x.page = call[k].page
  BY <1>1, <1>2, SeeTurns
<1>4. UNCHANGED <<server, sent, got, streams, loading>> /\ view' = view
  BY <1>2 DEF window
<1>5. WhyType'
  BY <1>2 DEF why, Sound, WhyType
<1>6. x.saw \in made \cup {None}
  BY <1>3, CallFields DEF Sound, ServerType
<1>7. Shaped(k) /\ Begun(k)
  BY DEF Sound
<1>8. home[k] = None /\ x.c # None /\ x.kind # "attach"
  BY <1>2, <1>3, <1>7 DEF Shaped, Begun
<1> QED
  BY <1>3, <1>4, <1>5, <1>6, <1>8, SameViews, GoesOnSound

\* A refused or a skipped message.
LEMMA TurnedDownSound ==
  ASSUME Sound, NEW k \in Calls, NEW s \in {"stored", "refused"}, To(k, s), call[k].at = "routed",
         UNCHANGED <<server, sent, got, window>>, WhyType'
  PROVE  Sound'
<1>1. s \in Stages
  BY DEF Stages
<1>2. PICK x \in Chains :
        /\ Turns(k, x) /\ x.at = s
        /\ x.kind = call[k].kind /\ x.w = call[k].w /\ x.a = call[k].a /\ x.c = call[k].c
        /\ x.text = call[k].text /\ x.saw = call[k].saw /\ x.page = call[k].page
  BY <1>1, ToTurns DEF Sound
<1>3. UNCHANGED <<server, sent, got, streams, loading>> /\ view' = view
  BY DEF window
<1>4. Shaped(k) /\ Named(k) /\ Begun(k)
  BY DEF Sound
<1>5. home[k] = None /\ x.c # None /\ x.kind # "attach" /\ x.saw \in made \cup {None}
  BY <1>2, <1>4 DEF Shaped, Named, Begun
<1> QED
  BY <1>2, <1>3, <1>5, SameViews, GoesOnSound

LEMMA ShowCreatedView ==
  ASSUME Sound, NEW k \in Calls, ShowCreated(k)
  PROVE  LET w == call[k].w  c == call[k].c IN
         /\ c \in made /\ view' \in [Windows -> Views]
         /\ \A u \in Windows \ {w} : view'[u] = view[u]
         /\ view'[w].known = view[w].known \cup {c} /\ view'[w].points = view[w].points
         /\ view'[w].shown = view[w].shown
<1>a. PICK w \in Windows : w = call[k].w
  BY CallFields DEF Sound
<1>b. PICK c \in Convs : c = call[k].c /\ c \in made
  BY DEF Sound, Shaped, Named, ShowCreated, Answered, ServerType
<1>1. PICK v \in Views : v = [view[w] EXCEPT !.known = @ \cup {c}]
  BY DEF Sound, WindowType, Views
<1>2. v.known = view[w].known \cup {c} /\ v.points = view[w].points /\ v.shown = view[w].shown
  BY <1>1 DEF Sound, WindowType, Views
<1>3. view' = [view EXCEPT ![w] = v]
  BY <1>a, <1>b, <1>1 DEF ShowCreated, Sound, WindowType
<1>4. view' \in [Windows -> Views] /\ view'[w] = v /\ \A u \in Windows \ {w} : view'[u] = view[u]
  BY <1>3 DEF Sound, WindowType
<1> QED
  BY <1>a, <1>b, <1>2, <1>4

LEMMA ShowCreatedSound ==
  ASSUME Sound, NEW k \in Calls, ShowCreated(k)
  PROVE  Sound'
<1>1. "attach" \in Stages
  BY DEF Stages
<1>2. call[k].at = "created" /\ To(k, "attach") /\ UNCHANGED <<server, sent, got, streams, loading>>
  BY DEF ShowCreated, Answered
<1>3. PICK x \in Chains :
        /\ Turns(k, x) /\ x.at = "attach"
        /\ x.kind = call[k].kind /\ x.w = call[k].w /\ x.a = call[k].a /\ x.c = call[k].c
        /\ x.text = call[k].text /\ x.saw = call[k].saw /\ x.page = call[k].page
  BY <1>1, <1>2, ToTurns DEF Sound
<1>4. WhyType'
  BY DEF ShowCreated, why, Sound, WhyType
<1>5. Shaped(k) /\ Named(k) /\ Begun(k)
  BY DEF Sound
<1>6. home[k] = None /\ x.c # None /\ x.kind # "attach" /\ x.saw \in made \cup {None}
  BY <1>2, <1>3, <1>5 DEF Shaped, Named, Begun
<1>a. PICK w \in Windows : w = call[k].w
  BY CallFields DEF Sound
<1>7. /\ view' \in [Windows -> Views] /\ x.c \in view'[x.w].known
      /\ \A u \in Windows : view[u].known \subseteq view'[u].known /\ view'[u].known \subseteq made
  <2>1. /\ call[k].c \in made /\ view' \in [Windows -> Views]
        /\ \A u \in Windows \ {w} : view'[u] = view[u]
        /\ view'[w].known = view[w].known \cup {call[k].c}
    BY <1>a, ShowCreatedView
  <2> QED
    BY <1>a, <1>3, <2>1 DEF Sound
<1> QED
  BY <1>2, <1>3, <1>4, <1>6, <1>7, GoesOnSound

\* The card that made the conversation shows it, and its message.
LEMMA ShowAttachedView ==
  ASSUME Sound, NEW k \in Calls, ShowAttached(k)
  PROVE  LET w == call[k].w  a == call[k].a  c == call[k].c IN
         /\ w \in Windows /\ a \in Agents /\ c \in Convs
         /\ view' \in [Windows -> Views] /\ \A u \in Windows \ {w} : view'[u] = view[u]
         /\ view'[w].known = view[w].known
         /\ \A b \in Agents \ {a} : view'[w].points[b] = view[w].points[b]
         /\ \/ call[k].kind = "attach" /\ Finish(k) /\ view' = view
            \/ /\ call[k].kind = "new" /\ Finish(k)
               /\ view'[w].points[a] = c /\ view'[w].shown = view[w].shown
            \/ /\ call[k].kind = "send" /\ To(k, "send") /\ view'[w].points[a] = c
               /\ \A d \in Convs \ {c} : view'[w].shown[d] = view[w].shown[d]
               /\ view'[w].shown[c]
                    \in {view[w].shown[c], view[w].shown[c] \cup {<<k, "temp">>}}
<1>a. PICK w \in Windows, a \in Agents, c \in Convs :
        w = call[k].w /\ a = call[k].a /\ c = call[k].c
  <2>1. Shaped(k) /\ call[k].at = "attached"
    BY DEF Sound, ShowAttached, Answered
  <2> QED
    BY <2>1, CallFields DEF Shaped, Sound
<1>b. PICK v \in Views : v = view[w]
  BY DEF Sound, WindowType
<1>c. PICK u \in Views : u = AttachLocally(v, c, a)
  BY AttachLocallyView
<1>1. /\ u.known = v.known /\ u.shown = v.shown
      /\ u.points[a] = c /\ \A b \in Agents \ {a} : u.points[b] = v.points[b]
  BY <1>c, AttachLocallyView
<1>d. PICK x \in Views : x = AddTemp(u, c, k)
  BY AddTempView
<1>2. /\ x.known = u.known /\ x.points = u.points
      /\ \A d \in Convs \ {c} : x.shown[d] = u.shown[d]
      /\ x.shown[c] \in {u.shown[c], u.shown[c] \cup {<<k, "temp">>}}
  BY <1>d, AddTempView
<1>3. \/ call[k].kind = "attach" /\ Finish(k) /\ view' = view
      \/ call[k].kind = "new" /\ Finish(k) /\ view' = [view EXCEPT ![w] = u]
      \/ call[k].kind = "send" /\ To(k, "send") /\ view' = [view EXCEPT ![w] = x]
  BY <1>a, <1>b, <1>c, <1>d DEF ShowAttached
<1>4. view \in [Windows -> Views]
  BY DEF Sound, WindowType
<1>5. CASE call[k].kind = "attach" /\ Finish(k) /\ view' = view
  BY <1>a, <1>4, <1>5
<1>6. CASE call[k].kind = "new" /\ Finish(k) /\ view' = [view EXCEPT ![w] = u]
  <2>1. view' \in [Windows -> Views] /\ view'[w] = u /\ \A y \in Windows \ {w} : view'[y] = view[y]
    BY <1>4, <1>6
  <2> QED
    BY <1>a, <1>b, <1>1, <1>6, <2>1
<1>7. CASE call[k].kind = "send" /\ To(k, "send") /\ view' = [view EXCEPT ![w] = x]
  <2>1. view' \in [Windows -> Views] /\ view'[w] = x /\ \A y \in Windows \ {w} : view'[y] = view[y]
    BY <1>4, <1>7
  <2>2. /\ view'[w].known = v.known
        /\ \A b \in Agents \ {a} : view'[w].points[b] = v.points[b]
        /\ view'[w].points[a] = c /\ \A d \in Convs \ {c} : view'[w].shown[d] = v.shown[d]
    BY <1>1, <1>2, <2>1
  <2>3. view'[w].shown[c] \in {v.shown[c], v.shown[c] \cup {<<k, "temp">>}}
    BY <1>1, <1>2, <2>1
  <2> QED
    BY <1>a, <1>b, <1>7, <2>1, <2>2, <2>3
<1> QED
  BY <1>3, <1>5, <1>6, <1>7

LEMMA ShowAttachedSound ==
  ASSUME Sound, NEW k \in Calls, ShowAttached(k)
  PROVE  Sound'
<1>1. call[k].at = "attached" /\ UNCHANGED <<server, sent, got, streams, loading>>
  BY DEF ShowAttached, Answered
<1>2. WhyType'
  BY DEF ShowAttached, why, Sound, WhyType
<1>a. PICK w \in Windows : w = call[k].w
  BY CallFields DEF Sound
<1>3. /\ view' \in [Windows -> Views]
      /\ \A u \in Windows : view[u].known \subseteq view'[u].known /\ view'[u].known \subseteq made
  <2>1. /\ view' \in [Windows -> Views] /\ \A u \in Windows \ {w} : view'[u] = view[u]
        /\ view'[w].known = view[w].known
    BY <1>a, ShowAttachedView
  <2> QED
    BY <2>1 DEF Sound
<1>4. CASE Finish(k)
  BY <1>1, <1>2, <1>3, <1>4, EndsSound
<1>5. CASE call[k].kind = "send" /\ To(k, "send")
  <2>1. "send" \in Stages
    BY DEF Stages
  <2>2. PICK x \in Chains :
          /\ Turns(k, x) /\ x.at = "send"
          /\ x.kind = call[k].kind /\ x.w = call[k].w /\ x.a = call[k].a /\ x.c = call[k].c
          /\ x.text = call[k].text /\ x.saw = call[k].saw /\ x.page = call[k].page
    BY <1>5, <2>1, ToTurns DEF Sound
  <2>3. Shaped(k) /\ Named(k) /\ Begun(k)
    BY DEF Sound
  <2>4. home[k] = None /\ x.c # None /\ x.kind # "attach" /\ x.saw \in made \cup {None}
    BY <1>1, <1>5, <2>2, <2>3 DEF Shaped, Named, Begun
  <2> QED
    BY <1>1, <1>2, <1>3, <2>2, <2>4, GoesOnSound
<1> QED
  BY <1>4, <1>5, ShowAttachedView

LEMMA ShowSentSound ==
  ASSUME Sound, NEW k \in Calls, ShowSent(k)
  PROVE  Sound'
<1>1. Finish(k) /\ UNCHANGED <<server, sent, got, window, faults, why>>
  BY DEF ShowSent
<1>2. UNCHANGED <<server, sent, got, streams, loading>> /\ view' = view
  BY <1>1 DEF window
<1>3. WhyType'
  BY <1>1 DEF why, Sound, WhyType
<1> QED
  BY <1>1, <1>2, <1>3, SameViews, EndsSound

\* A failed attach detaches the first agent of its conversation, any other call leaves the window
\* alone.
LEMMA FailView ==
  ASSUME Sound, NEW k \in Calls, Fail(k)
  PROVE  LET w == call[k].w  a == call[k].a IN
         /\ w \in Windows /\ a \in Agents
         /\ view' \in [Windows -> Views] /\ \A u \in Windows \ {w} : view'[u] = view[u]
         /\ view'[w].known = view[w].known /\ view'[w].shown = view[w].shown
         /\ \A b \in Agents : <<w, b>> \notin doubt' => view'[w].points[b] = view[w].points[b]
         /\ <<w, a>> \in doubt' /\ doubt \subseteq doubt' /\ doubt' \subseteq Windows \X Agents
         /\ excused' = excused \cup {<<w, k>>}
         /\ \A x \in doubt' \ doubt : x[1] = w
<1>a. PICK w \in Windows, a \in Agents : w = call[k].w /\ a = call[k].a
  BY CallFields DEF Sound
<1>b. PICK v \in Views : v = view[w]
  BY DEF Sound, WindowType
<1>1. view \in [Windows -> Views] /\ doubt \subseteq Windows \X Agents
  BY DEF Sound, WindowType, WhyType
<1>2. excused' = excused \cup {<<w, k>>}
  BY <1>a DEF Fail
<1>3. ASSUME call[k].kind # "attach"
      PROVE  view' = view /\ doubt' = doubt \cup {<<w, a>>}
  BY <1>3, <1>a DEF Fail
<1>4. ASSUME call[k].kind = "attach"
      PROVE  \E u \in Views :
               /\ view' = [view EXCEPT ![w] = u]
               /\ u.known = v.known /\ u.shown = v.shown
               /\ \A b \in Agents : <<w, b>> \notin doubt' => u.points[b] = v.points[b]
               /\ <<w, a>> \in doubt' /\ doubt \subseteq doubt' /\ doubt' \subseteq Windows \X Agents
               /\ \A x \in doubt' \ doubt : x[1] = w
  <2>1. PICK c \in Convs : c = call[k].c
    <3>1. Shaped(k) /\ call[k].page
      BY DEF Sound, Fail
    <3> QED
      BY <1>4, <3>1, CallFields DEF Sound, Shaped
  <2>2. PICK u \in Views : u = DetachFirst(v, c)
    BY DetachFirstView
  <2>3. /\ u.known = v.known /\ u.shown = v.shown
        /\ \A b \in Agents : v.lists[c] = <<>> \/ b # Head(v.lists[c]) => u.points[b] = v.points[b]
    BY <2>2, DetachFirstView
  <2>4. PICK T \in SUBSET Agents :
          T = {a} \cup IF v.lists[c] # <<>> THEN {Head(v.lists[c])} ELSE {}
    <3>1. v.lists[c] # <<>> => Head(v.lists[c]) \in Agents
      BY DropAgent DEF Views
    <3> QED
      BY <3>1
  <2>5. view' = [view EXCEPT ![w] = u] /\ doubt' = doubt \cup ({w} \X T)
    BY <1>4, <1>a, <1>b, <2>1, <2>2, <2>4 DEF Fail
  <2>6. \A b \in Agents : <<w, b>> \notin doubt' => v.lists[c] = <<>> \/ b # Head(v.lists[c])
    BY <2>4, <2>5
  <2> QED
    BY <1>1, <2>3, <2>4, <2>5, <2>6
<1>5. CASE call[k].kind # "attach"
  BY <1>a, <1>1, <1>2, <1>3, <1>5
<1>6. CASE call[k].kind = "attach"
  <2>1. PICK u \in Views :
               /\ view' = [view EXCEPT ![w] = u]
               /\ u.known = v.known /\ u.shown = v.shown
               /\ \A b \in Agents : <<w, b>> \notin doubt' => u.points[b] = v.points[b]
               /\ <<w, a>> \in doubt' /\ doubt \subseteq doubt' /\ doubt' \subseteq Windows \X Agents
               /\ \A x \in doubt' \ doubt : x[1] = w
    BY <1>4, <1>6
  <2>2. view' \in [Windows -> Views] /\ view'[w] = u /\ \A y \in Windows \ {w} : view'[y] = view[y]
    BY <1>1, <2>1
  <2> QED
    BY <1>a, <1>b, <1>2, <2>1, <2>2
<1> QED
  BY <1>5, <1>6

LEMMA FailSound ==
  ASSUME Sound, NEW k \in Calls, Fail(k)
  PROVE  Sound'
<1>1. UNCHANGED <<server, sent, got, streams, loading, cleared>>
  BY DEF Fail
<1>a. PICK w \in Windows : w = call[k].w
  BY CallFields DEF Sound
<1>2. /\ view' \in [Windows -> Views] /\ \A u \in Windows \ {w} : view'[u] = view[u]
      /\ view'[w].known = view[w].known
      /\ doubt' \subseteq Windows \X Agents /\ excused' = excused \cup {<<w, k>>}
  BY <1>a, FailView
<1>3. \A u \in Windows : view[u].known \subseteq view'[u].known /\ view'[u].known \subseteq made
  BY <1>2 DEF Sound
<1>4. WhyType'
  <2>1. faults' \in 0 .. MaxFaults
    <3>1. faults \in 0 .. MaxFaults /\ MaxFaults \in Nat
      BY ConversationAssumption DEF Sound, WhyType, ConversationAssumption
    <3>2. faults' = faults \/ (faults < MaxFaults /\ faults' = faults + 1)
      BY DEF Fail, Fault
    <3> QED
      BY <3>1, <3>2
  <2>2. excused' \subseteq Windows \X Calls
    BY <1>2 DEF Sound, WhyType
  <2> QED
    BY <1>1, <1>2, <2>1, <2>2 DEF Sound, WhyType
<1>5. CASE call' = [call EXCEPT ![k] = Ended(k)]
  BY <1>1, <1>2, <1>3, <1>4, <1>5, EndsSound DEF Finish
<1>6. CASE Pending(k) /\ call' = [call EXCEPT ![k].page = FALSE]
  <2>1. PICK x \in Chains :
           /\ Turns(k, x) /\ ~ x.page
           /\ x.kind = call[k].kind /\ x.w = call[k].w /\ x.a = call[k].a /\ x.c = call[k].c
           /\ x.text = call[k].text /\ x.at = call[k].at /\ x.saw = call[k].saw
    BY <1>6, LeaveTurns DEF Sound
  <2>2. Shaped(k) /\ Named(k) /\ Begun(k) /\ call'[k] = x /\ call[k].at \notin {"idle", "done"}
    BY <1>6, <2>1 DEF Sound, Turns, Pending
  <2>3. made' = made /\ home' = home /\ sent' = sent
    BY <1>1 DEF server
  <2>4. Shaped(k)' /\ Named(k)' /\ Begun(k)' /\ Paged(k)'
    BY <2>1, <2>2, <2>3 DEF Shaped, Named, Begun, Paged
  <2> QED
    BY <1>1, <1>2, <1>3, <1>4, <2>1, <2>4, TurnSound
<1> QED
  BY <1>5, <1>6 DEF Fail

LEMMA CreateConversationSound ==
  ASSUME Sound, NEW k \in Calls, CreateConversation(k)
  PROVE  Sound'
<1>1. PICK c \in Convs \ made, x \in Chains :
        /\ Turns(k, x) /\ x.at = "created" /\ x.c = c /\ made' = made \cup {c}
        /\ x.kind = call[k].kind /\ x.w = call[k].w /\ x.a = call[k].a
        /\ x.text = call[k].text /\ x.saw = call[k].saw /\ x.page = call[k].page
        /\ view' = view
  BY CreateTurns
<1>2. /\ call[k].at = "create"
      /\ UNCHANGED <<at, home, replies, sent, got, streams, loading, faults, why>>
  BY DEF CreateConversation
<1>3. ServerType' /\ EventType' /\ WindowType' /\ WhyType'
  BY <1>1, <1>2 DEF why, Sound, ServerType, EventType, WindowType, WhyType
<1>4. Shaped(k) /\ Named(k) /\ Begun(k) /\ Paged(k) /\ call'[k] = x
  BY <1>1 DEF Sound, Turns
<1>5. c # None
  BY ConversationAssumption DEF ConversationAssumption
<1>6. Shaped(k)' /\ Named(k)'
  BY <1>1, <1>2, <1>4, <1>5 DEF Shaped, Named
<1>7. Begun(k)' /\ Paged(k)'
  BY <1>1, <1>2, <1>4 DEF Begun, Paged, Ready
<1>8. \A j \in Calls : Shaped(j)' /\ Named(j)' /\ Begun(j)' /\ Paged(j)'
  BY <1>1, <1>2, <1>6, <1>7, OthersStay
<1>9. \A u \in Windows : view'[u].known \subseteq made'
  BY <1>1 DEF Sound
<1> QED
  BY <1>1, <1>3, <1>8, <1>9 DEF Sound, Turns

\* The attachment is as it was read, and changes, or it is not and the call is refused.
LEMMA CommitParts ==
  ASSUME Sound, NEW k \in Calls, CommitAttachment(k)
  PROVE  LET a == call[k].a  c == call[k].c IN
         /\ a \in Agents /\ c \in made /\ view' = view
         /\ call[k].at = "read"
         /\ UNCHANGED <<made, home, replies, sent, got, streams, loading, faults, cleared, excused>>
         /\ \/ /\ at' = [at EXCEPT ![a] = c] /\ To(k, "attached") /\ doubt \subseteq doubt'
               /\ doubt' \subseteq Windows \X Agents
               /\ \A u \in Windows : u # call[k].w \/ ~ call[k].page => <<u, a>> \in doubt'
            \/ at' = at /\ doubt' = doubt /\ To(k, "refused")
<1>a. PICK a \in Agents : a = call[k].a
  BY CallFields DEF Sound
<1>b. PICK c \in Convs : c = call[k].c /\ c \in made
  BY DEF Sound, Shaped, Named, CommitAttachment, ServerType
<1>1. /\ call[k].at = "read"
      /\ UNCHANGED <<made, home, replies, sent, got, streams, loading, faults, cleared, excused>>
  BY DEF CommitAttachment
<1>2. \/ Reattach(k) /\ To(k, "attached") /\ Tell(Event(call[k].c, call[k].a)) /\ Changed(k)
      \/ To(k, "refused") /\ UNCHANGED <<at, view, doubt>>
  BY DEF CommitAttachment
<1>3. CASE Reattach(k) /\ To(k, "attached") /\ Tell(Event(call[k].c, call[k].a)) /\ Changed(k)
  <2>1. view' = view
    BY <1>3, TellsNothing DEF Sound
  <2>2. at' = [at EXCEPT ![a] = c]
    BY <1>a, <1>b, <1>3 DEF Reattach
  <2>3. doubt' = doubt \cup {<<w, a>> : w \in {w \in Windows : w # call[k].w \/ ~ call[k].page}}
    BY <1>a, <1>3 DEF Changed
  <2>4. doubt \subseteq Windows \X Agents
    BY DEF Sound, WhyType
  <2>5. doubt \subseteq doubt' /\ doubt' \subseteq Windows \X Agents
    BY <2>3, <2>4
  <2>6. \A u \in Windows : u # call[k].w \/ ~ call[k].page => <<u, a>> \in doubt'
    BY <2>3
  <2> QED
    BY <1>a, <1>b, <1>1, <1>3, <2>1, <2>2, <2>5, <2>6
<1>4. CASE To(k, "refused") /\ UNCHANGED <<at, view, doubt>>
  BY <1>a, <1>b, <1>1, <1>4
<1> QED
  BY <1>2, <1>3, <1>4

LEMMA CommitAttachmentSound ==
  ASSUME Sound, NEW k \in Calls, CommitAttachment(k)
  PROVE  Sound'
<1>a. PICK a \in Agents : a = call[k].a
  BY CallFields DEF Sound
<1>b. PICK c \in made : c = call[k].c
  BY CommitParts
<1>1. /\ view' = view /\ call[k].at = "read"
      /\ UNCHANGED <<made, home, replies, sent, got, streams, loading, faults, cleared, excused>>
      /\ doubt' \subseteq Windows \X Agents
  BY CommitParts DEF Sound, WhyType
<1>2. PICK s \in {"attached", "refused"} : To(k, s) /\ (at' = [at EXCEPT ![a] = c] \/ at' = at)
  BY <1>a, <1>b, CommitParts
<1>3. s \in Stages
  BY DEF Stages
<1>4. PICK x \in Chains :
        /\ Turns(k, x) /\ x.at = s
        /\ x.kind = call[k].kind /\ x.w = call[k].w /\ x.a = call[k].a /\ x.c = call[k].c
        /\ x.text = call[k].text /\ x.saw = call[k].saw /\ x.page = call[k].page
  BY <1>2, <1>3, ToTurns DEF Sound
<1>5. at' \in [Agents -> made \cup {None}]
  BY <1>2 DEF Sound, ServerType
<1>6. ServerType' /\ EventType' /\ WindowType' /\ WhyType'
  BY <1>1, <1>5 DEF Sound, ServerType, EventType, WindowType, WhyType
<1>7. Shaped(k) /\ Named(k) /\ Begun(k) /\ Paged(k) /\ call'[k] = x
  BY <1>4 DEF Sound, Turns
<1>8. Shaped(k)' /\ Named(k)'
  BY <1>1, <1>4, <1>7 DEF Shaped, Named
<1>9. Begun(k)' /\ Paged(k)'
  BY <1>1, <1>4, <1>7 DEF Begun, Paged, Ready
<1>10. \A j \in Calls : Shaped(j)' /\ Named(j)' /\ Begun(j)' /\ Paged(j)'
  BY <1>1, <1>4, <1>8, <1>9, OthersStay
<1>11. \A u \in Windows : view'[u].known \subseteq made'
  BY <1>1 DEF Sound
<1> QED
  BY <1>4, <1>6, <1>10, <1>11 DEF Sound, Turns

\* The message goes to the conversation that the call saw, or to a new one of an agent that has
\* none.
LEMMA StoreParts ==
  ASSUME Sound, NEW k \in Calls, StoreMessage(k)
  PROVE  LET a == call[k].a IN
         /\ call[k].at = "routed" /\ To(k, "stored")
         /\ UNCHANGED <<replies, sent, got, window, faults, cleared, excused>>
         /\ \E c \in Convs :
              /\ c \in made' /\ made \subseteq made' /\ made' \subseteq Convs
              /\ home' = [home EXCEPT ![k] = c]
              /\ \/ c = call[k].saw /\ UNCHANGED <<made, at, doubt>>
                 \/ /\ call[k].saw = None /\ at[a] = None /\ at' = [at EXCEPT ![a] = c]
                    /\ doubt' = doubt \cup (Windows \X {a})
<1>1. /\ call[k].at = "routed" /\ To(k, "stored")
      /\ UNCHANGED <<replies, sent, got, window, faults, cleared, excused>>
  BY DEF StoreMessage
<1>2. made \subseteq Convs /\ call[k].saw \in made \cup {None}
  BY DEF Sound, ServerType, Named
<1>3. CASE call[k].saw # None
  <2>1. home' = [home EXCEPT ![k] = call[k].saw] /\ UNCHANGED <<made, at, doubt>>
    BY <1>3 DEF StoreMessage
  <2> QED
    BY <1>1, <1>2, <1>3, <2>1
<1>4. CASE call[k].saw = None
  <2>1. PICK c \in Convs \ made :
            /\ at[call[k].a] = None
            /\ made' = made \cup {c}
            /\ at' = [at EXCEPT ![call[k].a] = c]
            /\ home' = [home EXCEPT ![k] = c]
            /\ doubt' = doubt \cup (Windows \X {call[k].a})
    BY <1>4 DEF StoreMessage
  <2> QED
    BY <1>1, <1>2, <1>4, <2>1
<1> QED
  BY <1>3, <1>4

LEMMA StoreMessageSound ==
  ASSUME Sound, NEW k \in Calls, StoreMessage(k)
  PROVE  Sound'
<1>a. PICK a \in Agents : a = call[k].a
  BY CallFields DEF Sound
<1>1. /\ call[k].at = "routed" /\ To(k, "stored")
      /\ UNCHANGED <<replies, sent, got, view, streams, loading, faults, cleared, excused>>
  BY StoreParts DEF window
<1>2. PICK c \in Convs :
              /\ c \in made' /\ made \subseteq made' /\ made' \subseteq Convs
              /\ home' = [home EXCEPT ![k] = c]
              /\ \/ c = call[k].saw /\ UNCHANGED <<made, at, doubt>>
                 \/ /\ call[k].saw = None /\ at[a] = None /\ at' = [at EXCEPT ![a] = c]
                    /\ doubt' = doubt \cup (Windows \X {a})
  BY <1>a, StoreParts
<1>3. "stored" \in Stages
  BY DEF Stages
<1>4. PICK x \in Chains :
        /\ Turns(k, x) /\ x.at = "stored"
        /\ x.kind = call[k].kind /\ x.w = call[k].w /\ x.a = call[k].a /\ x.c = call[k].c
        /\ x.text = call[k].text /\ x.saw = call[k].saw /\ x.page = call[k].page
  BY <1>1, <1>3, ToTurns DEF Sound
<1>5. c # None
  BY ConversationAssumption DEF ConversationAssumption
<1>6. ServerType'
  <2>1. at' \in [Agents -> made' \cup {None}]
    BY <1>2 DEF Sound, ServerType
  <2>2. home' \in [Calls -> made' \cup {None}]
    BY <1>2 DEF Sound, ServerType
  <2>3. replies' \subseteq {j \in Calls : home'[j] # None}
    BY <1>1, <1>2, <1>5 DEF Sound, ServerType
  <2> QED
    BY <1>2, <2>1, <2>2, <2>3 DEF ServerType
<1>7. EventType' /\ WindowType'
  BY <1>1 DEF Sound, EventType, WindowType
<1>8. WhyType'
  BY <1>1, <1>2 DEF Sound, WhyType
<1>9. /\ Shaped(k) /\ Named(k) /\ Begun(k) /\ Paged(k) /\ call'[k] = x
      /\ home'[k] = c /\ \A j \in Calls \ {k} : home'[j] = home[j]
  BY <1>2, <1>4 DEF Sound, Turns, ServerType
<1>10. Shaped(k)' /\ Named(k)'
  BY <1>1, <1>2, <1>4, <1>9 DEF Shaped, Named
<1>11. Begun(k)' /\ Paged(k)'
  BY <1>1, <1>4, <1>5, <1>9 DEF Begun, Paged, Ready
<1>12. \A j \in Calls : Shaped(j)' /\ Named(j)' /\ Begun(j)' /\ Paged(j)'
  BY <1>1, <1>2, <1>4, <1>9, <1>10, <1>11, OthersStay
<1>13. \A u \in Windows : view'[u].known \subseteq made'
  BY <1>1, <1>2 DEF Sound
<1> QED
  BY <1>4, <1>6, <1>7, <1>8, <1>12, <1>13 DEF Sound, Turns

LEMMA TurnedAwaySound ==
  ASSUME Sound, NEW k \in Calls, SkipDuplicate(k) \/ RefuseMessage(k)
  PROVE  Sound'
<1>a. PICK w \in Windows : w = call[k].w
  BY CallFields DEF Sound
<1>1. CASE SkipDuplicate(k)
  <2>1. /\ call[k].at = "routed" /\ To(k, "stored") /\ excused' = excused \cup {<<w, k>>}
        /\ UNCHANGED <<server, sent, got, window, faults, doubt, cleared>>
    BY <1>a, <1>1 DEF SkipDuplicate
  <2>2. WhyType'
    BY <2>1 DEF Sound, WhyType
  <2> QED
    BY <2>1, <2>2, TurnedDownSound
<1>2. CASE RefuseMessage(k)
  <2>1. /\ call[k].at = "routed" /\ To(k, "refused")
        /\ UNCHANGED <<server, sent, got, window, faults, why>>
    BY <1>2 DEF RefuseMessage
  <2>2. WhyType'
    BY <2>1 DEF Sound, WhyType, why
  <2> QED
    BY <2>1, <2>2, TurnedDownSound
<1> QED
  BY <1>1, <1>2

LEMMA StreamSound ==
  ASSUME Sound, NEW k \in Calls, Stream(k) \/ StoreReply(k)
  PROVE  Sound'
<1>1. UNCHANGED <<made, at, home, call, got, view, streams, loading, faults, doubt, cleared, excused>>
  BY DEF Stream, StoreReply, server, window, why
<1>2. CallType' /\ WindowType' /\ WhyType'
  BY <1>1 DEF Sound, CallType, WindowType, WhyType
<1>3. CASE Stream(k)
  <2>a. PICK n \in 0 .. 2 : n = sent[k]
    BY <1>3 DEF Stream, Sound, EventType
  <2>1. home[k] # None /\ sent' = [sent EXCEPT ![k] = n + 1] /\ replies' = replies
    BY <1>3, <2>a DEF Stream, server
  <2>2. sent' \in [Calls -> 0 .. 3] /\ \A j \in Calls : sent[j] <= sent'[j]
    BY <2>a, <2>1 DEF Sound, EventType
  <2>3. EventType'
    <3>1. \A w \in Windows, j \in Calls : got[w][j] \in 0 .. 3 /\ sent[j] \in 0 .. 3 /\ sent'[j] \in 0 .. 3
      BY <2>2 DEF Sound, EventType
    <3>2. \A w \in Windows, j \in Calls : got[w][j] <= sent'[j]
      BY <2>2, <3>1 DEF Sound, EventType
    <3> QED
      BY <1>1, <2>2, <3>2 DEF Sound, EventType
  <2>4. ServerType'
    BY <1>1, <2>1 DEF Sound, ServerType
  <2>5. \A j \in Calls : Shaped(j)' /\ Named(j)' /\ Paged(j)'
    BY <1>1 DEF Sound, Shaped, Named, Paged, Ready
  <2>6. \A j \in Calls : Begun(j)'
    BY <1>1, <2>1, <2>2 DEF Sound, Begun, EventType
  <2> QED
    BY <1>1, <1>2, <2>3, <2>4, <2>5, <2>6 DEF Sound
<1>4. CASE StoreReply(k)
  <2>1. sent[k] >= 2 /\ replies' = replies \cup {k} /\ sent' = sent
    BY <1>4 DEF StoreReply
  <2>2. sent[k] \in 0 .. 3 /\ Begun(k)
    BY DEF Sound, EventType
  <2>3. home[k] # None
    BY <2>1, <2>2 DEF Begun
  <2>4. ServerType'
    BY <1>1, <2>1, <2>3 DEF Sound, ServerType
  <2>5. EventType'
    BY <1>1, <2>1 DEF Sound, EventType
  <2>6. \A j \in Calls : Shaped(j)' /\ Named(j)' /\ Begun(j)' /\ Paged(j)'
    BY <1>1, <2>1 DEF Sound, Shaped, Named, Begun, Paged, Ready
  <2> QED
    BY <1>1, <1>2, <2>4, <2>5, <2>6 DEF Sound
<1> QED
  BY <1>3, <1>4

\* What a window does with an event.
LEMMA ReceiveView ==
  ASSUME Sound, NEW w \in Windows, NEW k \in Calls, Receive(w, k)
  PROVE  LET a == call[k].a
             c == Conversation(view[w], a)
             v == view'[w]
         IN
         /\ a \in Agents /\ view' \in [Windows -> Views]
         /\ \A u \in Windows \ {w} : view'[u] = view[u]
         /\ v.known = view[w].known /\ v.points = view[w].points
         /\ \/ view' = view /\ (got[w][k] = 1 \/ c = None \/ (got[w][k] = 2 /\ <<w, k>> \notin streams))
            \/ /\ got[w][k] = 0 /\ c \in Convs /\ c # None
               /\ \A d \in Convs \ {c} : v.shown[d] = view[w].shown[d]
               /\ Placing(view[w], v, c, k)
            \/ /\ got[w][k] = 2 /\ c \in Convs /\ c # None /\ <<w, k>> \in streams
               /\ \A d \in Convs \ {c} : v.shown[d] = view[w].shown[d]
               /\ v.shown[c] = view[w].shown[c] \cup {<<k, "reply">>}
<1>a. PICK a \in Agents : a = call[k].a
  BY CallFields DEF Sound
<1>b. PICK v \in Views : v = view[w]
  BY DEF Sound, WindowType
<1>c. PICK c \in Convs \cup {None} : c = Conversation(v, a)
  BY DEF Conversation, Views
<1>d. PICK m \in 0 .. 3 : m = got[w][k]
  BY DEF Sound, EventType
<1>1. view \in [Windows -> Views]
  BY DEF Sound, WindowType
<1>2. \/ m + 1 = 1 /\ c # None /\ \E u \in AddUser(v, c, k) : view' = [view EXCEPT ![w] = u]
      \/ m + 1 = 3 /\ c # None /\ <<w, k>> \in streams /\ view' = [view EXCEPT ![w] = AddReply(v, c, k)]
      \/ (m + 1 = 2 \/ c = None \/ (m + 1 = 3 /\ <<w, k>> \notin streams)) /\ view' = view
  BY <1>a, <1>b, <1>c, <1>d DEF Receive
<1>3. ASSUME m + 1 = 1, c # None, NEW u \in AddUser(v, c, k), view' = [view EXCEPT ![w] = u]
      PROVE  /\ view' \in [Windows -> Views] /\ m = 0 /\ view'[w] = u
             /\ \A y \in Windows \ {w} : view'[y] = view[y]
             /\ u.known = v.known /\ u.points = v.points
             /\ \A d \in Convs \ {c} : u.shown[d] = v.shown[d]
             /\ Placing(v, u, c, k)
  <2>1. c \in Convs
    BY <1>3
  <2>2. /\ u \in Views /\ u.known = v.known /\ u.points = v.points
        /\ \A d \in Convs \ {c} : u.shown[d] = v.shown[d]
        /\ Placing(v, u, c, k)
    BY <1>3, <2>1, AddUserView
  <2>3. m = 0
    BY <1>3
  <2> QED
    BY <1>1, <1>3, <2>2, <2>3
<1>4. ASSUME m + 1 = 3, c # None, <<w, k>> \in streams, view' = [view EXCEPT ![w] = AddReply(v, c, k)]
      PROVE  /\ view' \in [Windows -> Views] /\ m = 2
             /\ \A y \in Windows \ {w} : view'[y] = view[y]
             /\ view'[w].known = v.known /\ view'[w].points = v.points
             /\ \A d \in Convs \ {c} : view'[w].shown[d] = v.shown[d]
             /\ view'[w].shown[c] = v.shown[c] \cup {<<k, "reply">>}
  <2>1. PICK u \in Views : u = AddReply(v, c, k)
    BY <1>4, AddReplyView
  <2>2. /\ u.known = v.known /\ u.points = v.points
        /\ \A d \in Convs \ {c} : u.shown[d] = v.shown[d]
        /\ u.shown[c] = v.shown[c] \cup {<<k, "reply">>}
    BY <1>4, <2>1, AddReplyView
  <2>3. view' = [view EXCEPT ![w] = u] /\ m = 2
    BY <1>4, <2>1
  <2> QED
    BY <1>1, <2>2, <2>3
<1>5. ASSUME m + 1 = 2 \/ c = None \/ (m + 1 = 3 /\ <<w, k>> \notin streams)
      PROVE  m = 1 \/ c = None \/ (m = 2 /\ <<w, k>> \notin streams)
  BY <1>5
<1> QED
  <2>1. CASE \E u \in AddUser(v, c, k) : m + 1 = 1 /\ c # None /\ view' = [view EXCEPT ![w] = u]
    <3>1. PICK u \in AddUser(v, c, k) : m + 1 = 1 /\ c # None /\ view' = [view EXCEPT ![w] = u]
      BY <2>1
    <3>2. /\ view' \in [Windows -> Views] /\ m = 0
          /\ \A y \in Windows \ {w} : view'[y] = view[y]
          /\ c \in Convs /\ view'[w] = u
      BY <1>1, <1>3, <3>1
    <3>3. /\ u.known = v.known /\ u.points = v.points
          /\ \A d \in Convs \ {c} : u.shown[d] = v.shown[d]
          /\ Placing(v, u, c, k)
      BY <1>3, <3>1
    <3> QED
      BY <1>a, <1>b, <1>c, <1>d, <3>1, <3>2, <3>3
  <2>2. CASE m + 1 = 3 /\ c # None /\ <<w, k>> \in streams /\ view' = [view EXCEPT ![w] = AddReply(v, c, k)]
    BY <1>4, <1>a, <1>b, <1>c, <1>d, <2>2
  <2>3. CASE (m + 1 = 2 \/ c = None \/ (m + 1 = 3 /\ <<w, k>> \notin streams)) /\ view' = view
    BY <1>1, <1>5, <1>a, <1>b, <1>c, <1>d, <2>3
  <2> QED
    BY <1>2, <2>1, <2>2, <2>3

\* A step that leaves the database and the events told alone, and moves no call: it may end the
\* page of one.
LEMMA WindowSound ==
  ASSUME Sound, UNCHANGED <<server, sent>>, EventType', WindowType', WhyType', CallType',
         \A j \in Calls :
           /\ call'[j].at = call[j].at /\ call'[j].kind = call[j].kind /\ call'[j].c = call[j].c
           /\ call'[j].saw = call[j].saw /\ (call'[j].page => call[j].page),
         \A j \in Calls : Paged(j)',
         \A u \in Windows : view'[u].known \subseteq made
  PROVE  Sound'
<1>1. made' = made /\ home' = home /\ sent' = sent /\ ServerType'
  BY DEF server, Sound, ServerType
<1>2. ASSUME NEW j \in Calls PROVE Shaped(j)' /\ Named(j)' /\ Begun(j)'
  <2>1. Shaped(j) /\ Named(j) /\ Begun(j)
    BY DEF Sound
  <2> QED
    BY <1>1, <2>1 DEF Shaped, Named, Begun
<1> QED
  BY <1>1, <1>2 DEF Sound

LEMMA ReceiveSound ==
  ASSUME Sound, NEW w \in Windows, NEW k \in Calls, Receive(w, k)
  PROVE  Sound'
<1>1. UNCHANGED <<server, sent, call, loading, faults, doubt, cleared>>
  BY DEF Receive
<1>a. PICK m \in 0 .. 3, n \in 0 .. 3 : m = got[w][k] /\ n = sent[k]
  BY DEF Sound, EventType
<1>2. m < n /\ got' = [got EXCEPT ![w][k] = m + 1]
  BY <1>a DEF Receive
<1>3. m + 1 \in 0 .. 3 /\ m + 1 <= n
  BY <1>2
<1>4. EventType'
  BY <1>a, <1>1, <1>2, <1>3 DEF Sound, EventType
<1>5. WindowType'
  <2>1. view' \in [Windows -> Views]
    BY ReceiveView
  <2>2. streams' \subseteq Windows \X Calls
    BY DEF Receive, Sound, WindowType
  <2> QED
    BY <1>1, <2>1, <2>2 DEF Sound, WindowType
<1>6. WhyType'
  BY <1>1 DEF Receive, Sound, WhyType
<1>7. \A u \in Windows : view'[u].known = view[u].known
  BY ReceiveView
<1>8. \A j \in Calls : Paged(j)'
  BY <1>1, <1>7, CallFields DEF Sound, Paged, Ready
<1> QED
  BY <1>1, <1>4, <1>5, <1>6, <1>7, <1>8, WindowSound DEF Sound, CallType

\* A page that loads ends the requests of its window, and leaves the rest alone.
LEMMA ReloadCalls ==
  ASSUME Sound, NEW w \in Windows, Reload(w)
  PROVE  /\ CallType'
         /\ \A j \in Calls :
              /\ call'[j].at = call[j].at /\ call'[j].kind = call[j].kind /\ call'[j].c = call[j].c
              /\ call'[j].saw = call[j].saw /\ call'[j].w = call[j].w /\ call'[j].a = call[j].a
              /\ call'[j].text = call[j].text
              /\ call'[j].page <=> call[j].page /\ call[j].w # w
<1>1. ASSUME NEW j \in Calls
      PROVE  \E x \in Chains :
              /\ x = [call[j] EXCEPT !.page = @ /\ call[j].w # w]
              /\ x.at = call[j].at /\ x.kind = call[j].kind /\ x.c = call[j].c
              /\ x.saw = call[j].saw /\ x.w = call[j].w /\ x.a = call[j].a
              /\ x.text = call[j].text
              /\ x.page <=> call[j].page /\ call[j].w # w
  <2>1. PICK b \in BOOLEAN : b = (call[j].page /\ call[j].w # w)
    OBVIOUS
  <2>2. call[j] \in Chains
    BY DEF Sound, CallType
  <2>3. PICK x \in Chains : x = [call[j] EXCEPT !.page = b]
    BY <2>2 DEF Chains
  <2>4. /\ x.at = call[j].at /\ x.kind = call[j].kind /\ x.c = call[j].c
        /\ x.saw = call[j].saw /\ x.w = call[j].w /\ x.a = call[j].a
        /\ x.text = call[j].text /\ x.page = b
    BY <2>2, <2>3 DEF Chains
  <2>5. x = [call[j] EXCEPT !.page = @ /\ call[j].w # w]
    BY <2>1, <2>3
  <2> QED
    BY <2>1, <2>4, <2>5
<1>2. call' = [j \in Calls |-> [call[j] EXCEPT !.page = @ /\ call[j].w # w]]
  BY DEF Reload
<1> QED
  BY <1>1, <1>2 DEF CallType

LEMMA ReloadView ==
  ASSUME Sound, NEW w \in Windows, Reload(w)
  PROVE  /\ view' \in [Windows -> Views] /\ \A u \in Windows \ {w} : view'[u] = view[u]
         /\ view'[w].known = {} /\ \A c \in Convs : view'[w].shown[c] = {}
         /\ \A u \in Windows \ {w} : loading'[u] = loading[u] /\ got'[u] = got[u]
         /\ loading'[w] = {"agents", "conversations", "show", "join"}
         /\ \A k \in Calls : got'[w][k] = 0
         /\ Ready(w) /\ got' \in [Windows -> [Calls -> 0 .. 3]]
         /\ loading' \in [Windows -> SUBSET {"agents", "conversations", "show", "join"}]
<1>1. PICK v \in Views : v = Blank /\ v.known = {} /\ \A c \in Convs : v.shown[c] = {}
  BY BlankView
<1>2. view' = [view EXCEPT ![w] = v]
  BY <1>1 DEF Reload
<1>3. view' \in [Windows -> Views] /\ view'[w] = v /\ \A u \in Windows \ {w} : view'[u] = view[u]
  BY <1>2 DEF Sound, WindowType
<1>4. /\ \A u \in Windows \ {w} : loading'[u] = loading[u]
      /\ loading'[w] = {"agents", "conversations", "show", "join"}
      /\ loading' \in [Windows -> SUBSET {"agents", "conversations", "show", "join"}]
  BY DEF Reload, Sound, WindowType
<1>5. PICK z \in [Calls -> 0 .. 3] : z = [k \in Calls |-> 0]
  <2>1. 0 \in 0 .. 3
    OBVIOUS
  <2>2. [k \in Calls |-> 0] \in [Calls -> 0 .. 3]
    BY <2>1
  <2> QED
    BY <2>2, Zenon
<1>6. got' = [got EXCEPT ![w] = z]
  BY <1>5 DEF Reload
<1>7. /\ \A u \in Windows \ {w} : got'[u] = got[u]
      /\ \A k \in Calls : got'[w][k] = 0
      /\ got' \in [Windows -> [Calls -> 0 .. 3]]
  BY <1>5, <1>6 DEF Sound, EventType
<1>8. Ready(w)
  BY DEF Reload
<1> QED
  BY <1>1, <1>3, <1>4, <1>7, <1>8

LEMMA ReloadSound ==
  ASSUME Sound, NEW w \in Windows, Reload(w)
  PROVE  Sound'
<1>1. UNCHANGED <<server, sent>>
  BY DEF Reload
<1>2. EventType'
  <2>1. \A u \in Windows, k \in Calls : got[u][k] \in 0 .. 3 /\ sent[k] \in 0 .. 3
    BY DEF Sound, EventType
  <2>2. ASSUME NEW u \in Windows, NEW k \in Calls PROVE got'[u][k] <= sent[k]
    <3>1. CASE u = w
      BY <2>1, <3>1, ReloadView
    <3>2. CASE u # w
      BY <3>2, ReloadView DEF Sound, EventType
    <3> QED
      BY <3>1, <3>2
  <2> QED
    BY <1>1, <2>2, ReloadView DEF Sound, EventType
<1>3. WindowType'
  <2>1. streams' \subseteq streams
    BY DEF Reload
  <2> QED
    BY <2>1, ReloadView DEF Sound, WindowType
<1>4. WhyType'
  <2>1. faults' \in 0 .. MaxFaults
    <3>1. faults \in 0 .. MaxFaults /\ MaxFaults \in Nat
      BY ConversationAssumption DEF Sound, WhyType, ConversationAssumption
    <3> QED
      BY <3>1 DEF Reload, Fault
  <2>2. doubt' \subseteq doubt /\ excused' \subseteq excused /\ cleared' = cleared
    BY DEF Reload
  <2> QED
    BY <2>1, <2>2 DEF Sound, WhyType
<1>5. \A u \in Windows : view'[u].known \subseteq made
  BY ReloadView DEF Sound
<1>6. ASSUME NEW j \in Calls PROVE Paged(j)'
  <2>1. CASE call[j].w = w
    BY <2>1, ReloadCalls DEF Paged
  <2>2. CASE call[j].w # w
    <3>1. call[j].w \in Windows \ {w} /\ Paged(j)
      BY <2>2, CallFields DEF Sound
    <3>2. view'[call[j].w] = view[call[j].w] /\ loading'[call[j].w] = loading[call[j].w]
      BY <3>1, ReloadView
    <3> QED
      BY <3>1, <3>2, ReloadCalls DEF Paged, Ready
  <2> QED
    BY <2>1, <2>2
<1> QED
  BY <1>1, <1>2, <1>3, <1>4, <1>5, <1>6, ReloadCalls, WindowSound

\* A step of a page that loads: none of its window's calls has a page.
LEMMA LoadingSound ==
  ASSUME Sound, NEW w \in Windows, UNCHANGED <<server, sent, call, streams>>, ~ Ready(w),
         EventType', WhyType', view' \in [Windows -> Views],
         loading' \in [Windows -> SUBSET {"agents", "conversations", "show", "join"}],
         \A u \in Windows \ {w} : view'[u] = view[u] /\ loading'[u] = loading[u],
         view'[w].known \subseteq made
  PROVE  Sound'
<1>1. WindowType'
  BY DEF Sound, WindowType
<1>2. \A u \in Windows : view'[u].known \subseteq made
  BY DEF Sound
<1>3. ASSUME NEW j \in Calls PROVE Paged(j)'
  <2>1. Paged(j) /\ call[j].w \in Windows
    BY CallFields DEF Sound
  <2> QED
    BY <2>1 DEF Paged, Ready
<1> QED
  BY <1>1, <1>2, <1>3, WindowSound DEF Sound, CallType

LEMMA FetchAgentsView ==
  ASSUME Sound, NEW w \in Windows, FetchAgents(w)
  PROVE  /\ view' \in [Windows -> Views] /\ \A u \in Windows \ {w} : view'[u] = view[u]
         /\ view'[w].known = view[w].known /\ view'[w].shown = view[w].shown
         /\ view'[w].points = at /\ ~ Ready(w)
         /\ loading' \in [Windows -> SUBSET {"agents", "conversations", "show", "join"}]
         /\ loading'[w] = loading[w] \ {"agents"}
         /\ \A u \in Windows \ {w} : loading'[u] = loading[u]
<1>1. PICK p \in [Agents -> Convs \cup {None}] : p = at
  BY DEF Sound, ServerType
<1>2. PICK v \in Views : v = view[w]
  BY DEF Sound, WindowType
<1>3. PICK u \in Views : u = [v EXCEPT !.points = p]
  BY DEF Views
<1>4. u.known = v.known /\ u.shown = v.shown /\ u.points = p
  BY <1>3 DEF Views
<1>5. view \in [Windows -> Views] /\ view' = [view EXCEPT ![w] = u]
  BY <1>1, <1>2, <1>3 DEF FetchAgents, Sound, WindowType
<1>6. view' \in [Windows -> Views] /\ view'[w] = u /\ \A y \in Windows \ {w} : view'[y] = view[y]
  BY <1>5
<1>7. /\ ~ Ready(w)
      /\ loading' \in [Windows -> SUBSET {"agents", "conversations", "show", "join"}]
      /\ loading'[w] = loading[w] \ {"agents"}
      /\ \A y \in Windows \ {w} : loading'[y] = loading[y]
  BY DEF FetchAgents, Fetched, Ready, Sound, WindowType
<1> QED
  BY <1>1, <1>2, <1>4, <1>6, <1>7

LEMMA FetchConversationsView ==
  ASSUME Sound, NEW w \in Windows, FetchConversations(w)
  PROVE  /\ view' \in [Windows -> Views] /\ \A u \in Windows \ {w} : view'[u] = view[u]
         /\ view'[w].known = made /\ view'[w].points = view[w].points
         /\ \A c \in Convs : view'[w].shown[c] = Stored(c)
         /\ ~ Ready(w)
         /\ loading' \in [Windows -> SUBSET {"agents", "conversations", "show", "join"}]
         /\ loading'[w] = loading[w] \ {"conversations"}
         /\ \A u \in Windows \ {w} : loading'[u] = loading[u]
<1>1. PICK s \in Views : /\ s = AsStored /\ s.known = made
                         /\ \A c \in Convs : s.shown[c] = Stored(c)
  BY StoredView DEF Sound
<1>2. PICK p \in [Agents -> Convs \cup {None}] : p = view[w].points
  BY DEF Sound, WindowType, Views
<1>3. PICK u \in Views : u = [s EXCEPT !.points = p]
  BY DEF Views
<1>4. u.known = s.known /\ u.shown = s.shown /\ u.points = p
  BY <1>3 DEF Views
<1>5. view \in [Windows -> Views] /\ view' = [view EXCEPT ![w] = u]
  BY <1>1, <1>2, <1>3 DEF FetchConversations, Sound, WindowType
<1>6. view' \in [Windows -> Views] /\ view'[w] = u /\ \A y \in Windows \ {w} : view'[y] = view[y]
  BY <1>5
<1>7. /\ ~ Ready(w)
      /\ loading' \in [Windows -> SUBSET {"agents", "conversations", "show", "join"}]
      /\ loading'[w] = loading[w] \ {"conversations"}
      /\ \A y \in Windows \ {w} : loading'[y] = loading[y]
  BY DEF FetchConversations, Fetched, Ready, Sound, WindowType
<1> QED
  BY <1>1, <1>2, <1>4, <1>6, <1>7

LEMMA InstallView ==
  ASSUME Sound, NEW w \in Windows, Install(w)
  PROVE  /\ view' \in [Windows -> Views] /\ \A u \in Windows \ {w} : view'[u] = view[u]
         /\ view'[w].known = view[w].known /\ view'[w].points = view[w].points
         /\ view'[w].shown = view[w].shown /\ ~ Ready(w)
         /\ loading' \in [Windows -> SUBSET {"agents", "conversations", "show", "join"}]
         /\ loading[w] = {"show", "join"} /\ loading'[w] = {"join"}
         /\ \A u \in Windows \ {w} : loading'[u] = loading[u]
<1>2. PICK v \in Views : v = view[w]
  BY DEF Sound, WindowType
<1>3. PICK u \in Views : u = Merged(v)
  BY MergedView
<1>4. u.known = v.known /\ u.shown = v.shown /\ u.points = v.points
  BY <1>3, MergedView
<1>5. view \in [Windows -> Views] /\ view' = [view EXCEPT ![w] = u]
  BY <1>2, <1>3 DEF Install, Sound, WindowType
<1>6. view' \in [Windows -> Views] /\ view'[w] = u /\ \A y \in Windows \ {w} : view'[y] = view[y]
  BY <1>5
<1>7. /\ ~ Ready(w) /\ loading[w] = {"show", "join"} /\ loading'[w] = {"join"}
      /\ loading' \in [Windows -> SUBSET {"agents", "conversations", "show", "join"}]
      /\ \A y \in Windows \ {w} : loading'[y] = loading[y]
  BY DEF Install, Fetched, Ready, Sound, WindowType
<1> QED
  BY <1>2, <1>4, <1>6, <1>7

LEMMA LoadSound ==
  ASSUME Sound, NEW w \in Windows, FetchAgents(w) \/ FetchConversations(w) \/ Install(w)
  PROVE  Sound'
<1>a. view[w].known \subseteq made
  BY DEF Sound
<1>1. CASE FetchAgents(w)
  <2>1. /\ UNCHANGED <<server, call, sent, got, streams, faults, doubt, excused>>
        /\ cleared' \subseteq cleared
    BY <1>1 DEF FetchAgents
  <2>2. EventType' /\ WhyType'
    BY <2>1 DEF Sound, EventType, WhyType
  <2> QED
    BY <1>1, <1>a, <2>1, <2>2, FetchAgentsView, LoadingSound
<1>2. CASE FetchConversations(w)
  <2>1. UNCHANGED <<server, call, sent, got, streams, faults, why>>
    BY <1>2 DEF FetchConversations
  <2>2. EventType' /\ WhyType'
    BY <2>1 DEF why, Sound, EventType, WhyType
  <2> QED
    BY <1>2, <2>1, <2>2, FetchConversationsView, LoadingSound
<1>3. CASE Install(w)
  <2>1. UNCHANGED <<server, call, sent, got, streams, faults, why>>
    BY <1>3 DEF Install
  <2>2. EventType' /\ WhyType'
    BY <2>1 DEF why, Sound, EventType, WhyType
  <2> QED
    BY <1>3, <1>a, <2>1, <2>2, InstallView, LoadingSound
<1> QED
  BY <1>1, <1>2, <1>3

\* The page that is in the room now has been sent all that was told before.
LEMMA JoinRoomParts ==
  ASSUME Sound, NEW w \in Windows, JoinRoom(w)
  PROVE  /\ UNCHANGED <<server, call, sent, view, streams, faults, doubt, cleared>>
         /\ Ready(w) /\ Ready(w)' /\ ~ Here(w) /\ Here(w)'
         /\ loading' \in [Windows -> SUBSET {"agents", "conversations", "show", "join"}]
         /\ got' \in [Windows -> [Calls -> 0 .. 3]] /\ \A k \in Calls : got'[w][k] = sent[k]
         /\ \A u \in Windows \ {w} : loading'[u] = loading[u] /\ got'[u] = got[u]
         /\ excused' = excused
              \cup {<<w, k>> : k \in {k \in Calls : sent[k] > 0 /\ ~ Has(view[w], k)}}
<1>1. /\ UNCHANGED <<server, call, sent, view, streams, faults, doubt, cleared>>
      /\ got' = [got EXCEPT ![w] = sent]
      /\ excused' = excused
           \cup {<<w, k>> : k \in {k \in Calls : sent[k] > 0 /\ ~ Has(view[w], k)}}
  BY DEF JoinRoom
<1>2. /\ loading[w] = {"join"} /\ loading'[w] = {}
      /\ loading' \in [Windows -> SUBSET {"agents", "conversations", "show", "join"}]
      /\ \A u \in Windows \ {w} : loading'[u] = loading[u]
  BY DEF JoinRoom, Fetched, Sound, WindowType
<1>3. /\ got' \in [Windows -> [Calls -> 0 .. 3]] /\ \A k \in Calls : got'[w][k] = sent[k]
      /\ \A u \in Windows \ {w} : got'[u] = got[u]
  BY <1>1 DEF Sound, EventType
<1>4. Ready(w) /\ Ready(w)' /\ ~ Here(w) /\ Here(w)'
  BY <1>2 DEF Ready, Here
<1> QED
  BY <1>1, <1>2, <1>3, <1>4

LEMMA JoinRoomSound ==
  ASSUME Sound, NEW w \in Windows, JoinRoom(w)
  PROVE  Sound'
<1>1. EventType'
  <2>1. \A k \in Calls : sent[k] \in 0 .. 3
    BY DEF Sound, EventType
  <2>2. ASSUME NEW u \in Windows, NEW k \in Calls PROVE got'[u][k] <= sent[k]
    <3>1. CASE u = w
      BY <2>1, <3>1, JoinRoomParts
    <3>2. CASE u # w
      BY <3>2, JoinRoomParts DEF Sound, EventType
    <3> QED
      BY <3>1, <3>2
  <2> QED
    BY <2>2, JoinRoomParts DEF Sound, EventType
<1>2. WindowType'
  BY JoinRoomParts DEF Sound, WindowType
<1>3. WhyType'
  BY JoinRoomParts DEF Sound, WhyType
<1>4. ASSUME NEW j \in Calls PROVE Paged(j)'
  <2>1. Paged(j) /\ call[j].w \in Windows
    BY CallFields DEF Sound
  <2>2. Ready(call[j].w) => Ready(call[j].w)'
    <3>1. CASE call[j].w = w
      BY <3>1, JoinRoomParts
    <3>2. CASE call[j].w # w
      BY <2>1, <3>2, JoinRoomParts DEF Ready
    <3> QED
      BY <3>1, <3>2
  <2>3. call' = call /\ view' = view
    BY JoinRoomParts
  <2> QED
    BY <2>1, <2>2, <2>3 DEF Paged, Ready
<1>5. \A u \in Windows : view'[u].known \subseteq made
  BY JoinRoomParts DEF Sound
<1> QED
  BY <1>1, <1>2, <1>3, <1>4, <1>5, JoinRoomParts, WindowSound DEF Sound, CallType

\* A /clear takes the pointer of one agent, if it points to the conversation.
LEMMA ClearView ==
  ASSUME Sound, NEW w \in Windows, NEW a \in Agents, ClearConversation(w, a)
  PROVE  /\ UNCHANGED <<server, call, sent, got, streams, loading, faults, excused>>
         /\ view' \in [Windows -> Views] /\ \A u \in Windows \ {w} : view'[u] = view[u]
         /\ view'[w].known = view[w].known /\ view'[w].shown = view[w].shown
         /\ Ready(w) /\ doubt' \subseteq Windows \X Agents /\ cleared' \subseteq Windows \X Agents
         /\ \E b \in Agents :
              /\ \A d \in Agents \ {b} : view'[w].points[d] = view[w].points[d]
              /\ \/ UNCHANGED <<doubt, cleared>> /\ view'[w].points[b] = view[w].points[b]
                 \/ /\ OpenFor(w, b) = {} /\ doubt' = doubt /\ cleared' = cleared \cup {<<w, b>>}
                    /\ view'[w].points[b] = None
                 \/ doubt' = doubt \cup {<<w, b>>} /\ cleared' = cleared
<1>a. PICK v \in Views : v = view[w]
  BY DEF Sound, WindowType
<1>b. PICK c \in Convs : c = Conversation(v, a)
  <2>1. Conversation(v, a) # None
    BY <1>a DEF ClearConversation
  <2> QED
    BY <2>1 DEF Conversation, Views
<1>1. Ready(w) /\ v.lists[c] # <<>> /\ view' = [view EXCEPT ![w] = DetachFirst(v, c)]
      /\ UNCHANGED <<server, call, sent, got, streams, loading, faults, excused>>
  BY <1>a, <1>b DEF ClearConversation
<1>c. PICK u \in Views : u = DetachFirst(v, c)
  BY DetachFirstView
<1>d. PICK b \in Agents : b = Head(v.lists[c])
  BY <1>1, DetachFirstView
<1>2. /\ u.known = v.known /\ u.shown = v.shown
      /\ \A d \in Agents \ {b} : u.points[d] = v.points[d]
      /\ u.points[b] = IF v.points[b] = c THEN None ELSE v.points[b]
  BY <1>1, <1>c, <1>d, DetachFirstView
<1>3. view \in [Windows -> Views]
  BY DEF Sound, WindowType
<1>4. view' \in [Windows -> Views] /\ view'[w] = u /\ \A y \in Windows \ {w} : view'[y] = view[y]
  BY <1>1, <1>3, <1>c
<1>5. PICK S \in SUBSET {<<w, b>>} : S = IF v.points[b] = c THEN {<<w, b>>} ELSE {}
  OBVIOUS
<1>6. \/ OpenFor(w, b) = {} /\ cleared' = cleared \cup S /\ doubt' = doubt
      \/ doubt' = doubt \cup S /\ cleared' = cleared
  BY <1>a, <1>b, <1>d, <1>5 DEF ClearConversation
<1>7. doubt' \subseteq Windows \X Agents /\ cleared' \subseteq Windows \X Agents
  BY <1>6 DEF Sound, WhyType
<1>8. \/ UNCHANGED <<doubt, cleared>> /\ u.points[b] = v.points[b]
      \/ /\ OpenFor(w, b) = {} /\ doubt' = doubt /\ cleared' = cleared \cup {<<w, b>>}
         /\ u.points[b] = None
      \/ doubt' = doubt \cup {<<w, b>>} /\ cleared' = cleared
  <2>1. CASE v.points[b] = c
    BY <1>2, <1>5, <1>6, <2>1
  <2>2. CASE v.points[b] # c
    BY <1>2, <1>5, <1>6, <2>2
  <2> QED
    BY <2>1, <2>2
<1> QED
  BY <1>a, <1>1, <1>2, <1>4, <1>7, <1>8

LEMMA ClearSound ==
  ASSUME Sound, NEW w \in Windows, NEW a \in Agents, ClearConversation(w, a)
  PROVE  Sound'
<1>1. UNCHANGED <<server, call, sent, got, streams, loading, faults, excused>>
  BY ClearView
<1>2. EventType' /\ WindowType' /\ WhyType'
  BY <1>1, ClearView DEF Sound, EventType, WindowType, WhyType
<1>3. \A u \in Windows : view'[u].known = view[u].known
  BY ClearView
<1>4. \A j \in Calls : Paged(j)'
  BY <1>1, <1>3, CallFields DEF Sound, Paged, Ready
<1> QED
  BY <1>1, <1>2, <1>3, <1>4, WindowSound DEF Sound, CallType

LEMMA SoundStep ==
  ASSUME Sound, [Next]_vars
  PROVE  Sound'
<1>1. CASE UNCHANGED vars
  BY <1>1 DEF vars, server, window, why, Sound, ServerType, CallType, EventType, WindowType, WhyType,
              Shaped, Named, Begun, Paged, Ready
<1>2. ASSUME NEW k \in Calls, NEW w \in Windows, NEW a \in Agents, NEW t \in Texts,
             \/ CreateNewSession(k, w, a, t) \/ SendMessage(k, w, a, t)
             \/ \E c \in Convs : AttachSession(k, w, a, c, t)
      PROVE  Sound'
  BY <1>2, ClickSound
<1>3. ASSUME NEW k \in Calls,
             \/ CreateConversation(k) \/ ReadAttachment(k) \/ CommitAttachment(k)
             \/ RouteMessage(k) \/ StoreMessage(k) \/ SkipDuplicate(k) \/ RefuseMessage(k)
             \/ Stream(k) \/ StoreReply(k)
             \/ ShowCreated(k) \/ ShowAttached(k) \/ ShowSent(k) \/ Fail(k)
      PROVE  Sound'
  BY <1>3, CreateConversationSound, ReadAttachmentSound, CommitAttachmentSound, RouteMessageSound,
     StoreMessageSound, TurnedAwaySound, StreamSound, ShowCreatedSound, ShowAttachedSound,
     ShowSentSound, FailSound
<1>4. ASSUME NEW w \in Windows,
             \/ Reload(w) \/ FetchAgents(w) \/ FetchConversations(w) \/ Install(w) \/ JoinRoom(w)
             \/ \E k \in Calls : Receive(w, k)
             \/ \E a \in Agents : ClearConversation(w, a)
      PROVE  Sound'
  BY <1>4, ReloadSound, LoadSound, JoinRoomSound, ReceiveSound, ClearSound
<1> QED
  BY <1>1, <1>2, <1>3, <1>4 DEF Next

LEMMA SoundAlways == Spec => []Sound
<1>1. Sound /\ [Next]_vars => Sound'
  BY SoundStep
<1> QED
  BY <1>1, SoundInit, PTL DEF Spec

\* Every call, event, view and pointer has its type: what a page shows, points to and asks for are
\* conversations and messages that exist, and no list of attached agents names an agent twice.
THEOREM TypeCorrect == Spec => []TypeOK
<1>1. Sound => TypeOK
  BY TypeParts DEF Sound
<1> QED
  BY <1>1, SoundAlways, PTL

-----------------------------------------------------------------------------
(* The conversation that a window has for an agent.                        *)

\* Call k of window w for agent a is open, and its page is there.
Mine(k, w, a) == call[k].w = w /\ call[k].a = a /\ Open(k)
OnPage(k, w, a) == call[k].w = w /\ call[k].a = a /\ call[k].page

\* What a window has for an agent when no request is under way.
Base(w, a) == IF <<w, a>> \in cleared THEN None ELSE at[a]

\* Between the click and the answer an attach call is ahead of the database, and any other call
\* is behind it from the moment it has attached.
Follows(k, w, a) ==
  /\ call[k].kind = "attach" => view[w].points[a] = call[k].c
  /\ call[k].at = "attached" => at[a] = call[k].c
  /\ call[k].kind # "attach" /\ call[k].at # "attached" => view[w].points[a] = Base(w, a)

Agreed(w, a) ==
  /\ \A j, k \in Calls : Mine(j, w, a) /\ OnPage(k, w, a) => j = k
  /\ "agents" \notin loading[w] /\ (\A k \in Calls : ~ OnPage(k, w, a)) => view[w].points[a] = Base(w, a)
  /\ \A k \in Calls : OnPage(k, w, a) => Follows(k, w, a)
  /\ "conversations" \notin loading[w] => at[a] \in view[w].known \cup {None}

Pointers == \A w \in Windows, a \in Agents : <<w, a>> \notin doubt => Agreed(w, a)

\* Nothing changes for the window and the agent.
LEMMA AgreedFrame ==
  ASSUME NEW w \in Windows, NEW a \in Agents, Agreed(w, a),
         \A j \in Calls : Mine(j, w, a)' => Mine(j, w, a),
         \A j \in Calls : OnPage(j, w, a) <=> OnPage(j, w, a)',
         \A j \in Calls : OnPage(j, w, a) => call'[j] = call[j],
         view'[w].points[a] = view[w].points[a], view[w].known \subseteq view'[w].known,
         loading'[w] = loading[w], at'[a] = at[a],
         <<w, a>> \in cleared' <=> <<w, a>> \in cleared
  PROVE  Agreed(w, a)'
<1>a. Base(w, a)' = Base(w, a)
  BY DEF Base
<1>1. \A j, k \in Calls : Mine(j, w, a)' /\ OnPage(k, w, a)' => j = k
  BY DEF Agreed
<1>2. "agents" \notin loading'[w] /\ (\A k \in Calls : ~ OnPage(k, w, a)') => view'[w].points[a] = Base(w, a)'
  BY <1>a DEF Agreed
<1>3. \A k \in Calls : OnPage(k, w, a)' => Follows(k, w, a)'
  BY <1>a DEF Agreed, Follows
<1>4. "conversations" \notin loading'[w] => at'[a] \in view'[w].known \cup {None}
  BY DEF Agreed
<1> QED
  BY <1>1, <1>2, <1>3, <1>4 DEF Agreed

\* A step of one open call.
LEMMA TurnAgreed ==
  ASSUME NEW w \in Windows, NEW a \in Agents, Agreed(w, a), NEW k \in Calls, NEW x \in Chains,
         Turns(k, x), x.w = call[k].w, x.a = call[k].a, Open(k), x.page => call[k].page,
         OnPage(k, w, a) =>
           IF x.page THEN Follows(k, w, a)' ELSE view'[w].points[a] = Base(w, a)',
         ~ OnPage(k, w, a) =>
           /\ view'[w].points[a] = view[w].points[a] /\ at'[a] = at[a]
           /\ <<w, a>> \in cleared' <=> <<w, a>> \in cleared,
         at'[a] = at[a] \/ at'[a] \in view'[w].known,
         view[w].known \subseteq view'[w].known, loading' = loading
  PROVE  Agreed(w, a)'
<1>1. /\ call'[k] = x
      /\ \A j \in Calls \ {k} : call'[j] = call[j]
  BY DEF Turns
<1>a. ~ OnPage(k, w, a) => Base(w, a)' = Base(w, a)
  BY DEF Base
<1>2. \A j \in Calls : Mine(j, w, a)' => Mine(j, w, a)
  BY <1>1 DEF Mine, Open, Pending
<1>3. \A j \in Calls : OnPage(j, w, a)' => OnPage(j, w, a)
  BY <1>1 DEF OnPage
<1>4. \A j \in Calls : OnPage(j, w, a) => Mine(j, w, a)
  BY DEF OnPage, Mine, Open
<1>5. \A i, j \in Calls : Mine(i, w, a)' /\ OnPage(j, w, a)' => i = j
  BY <1>2, <1>3 DEF Agreed
<1>6. ASSUME "agents" \notin loading'[w], \A j \in Calls : ~ OnPage(j, w, a)'
      PROVE  view'[w].points[a] = Base(w, a)'
  <2>1. CASE OnPage(k, w, a)
    <3>1. ~ x.page
      BY <1>1, <1>6, <2>1 DEF OnPage
    <3> QED
      BY <2>1, <3>1
  <2>2. CASE ~ OnPage(k, w, a)
    <3>1. \A j \in Calls \ {k} : ~ OnPage(j, w, a)
      BY <1>1, <1>6 DEF OnPage
    <3>2. view[w].points[a] = Base(w, a)
      BY <1>6, <2>2, <3>1 DEF Agreed
    <3> QED
      BY <1>a, <2>2, <3>2
  <2> QED
    BY <2>1, <2>2
<1>7. ASSUME NEW j \in Calls, OnPage(j, w, a)' PROVE Follows(j, w, a)'
  <2>1. CASE j = k
    <3>1. OnPage(k, w, a) /\ x.page
      BY <1>1, <1>3, <1>7, <2>1 DEF OnPage
    <3> QED
      BY <2>1, <3>1
  <2>2. CASE j # k
    <3>1. OnPage(j, w, a) /\ Mine(j, w, a)
      BY <1>3, <1>4, <1>7
    <3>2. ~ OnPage(k, w, a)
      BY <2>2, <3>1 DEF Agreed
    <3>3. Follows(j, w, a) /\ call'[j] = call[j]
      BY <1>1, <2>2, <3>1 DEF Agreed
    <3> QED
      BY <1>a, <3>2, <3>3 DEF Follows
  <2> QED
    BY <2>1, <2>2
<1>8. "conversations" \notin loading'[w] => at'[a] \in view'[w].known \cup {None}
  BY DEF Agreed
<1> QED
  BY <1>5, <1>6, <1>7, <1>8 DEF Agreed

LEMMA PointersInit == Init => Pointers
<1> SUFFICES ASSUME Init, NEW w \in Windows, NEW a \in Agents PROVE Agreed(w, a)
  BY DEF Pointers
<1>1. Sound
  BY SoundInit
<1>2. \A k \in Calls : ~ OnPage(k, w, a)
  <2>1. \A k \in Calls : call[k] = NoCall(CHOOSE v \in Windows : TRUE, CHOOSE b \in Agents : TRUE,
                                          CHOOSE t \in Texts : TRUE)
    BY DEF Init
  <2>a. \A v, b, t : NoCall(v, b, t).at = "idle"
    BY DEF NoCall
  <2>2. \A k \in Calls : call[k].at = "idle"
    BY <2>1, <2>a
  <2>3. \A k \in Calls : ~ call[k].page
    BY <1>1, <2>2 DEF Sound, Shaped
  <2> QED
    BY <2>3 DEF OnPage
<1>3. view[w] = AsStored
  BY DEF Init
<1>4. view[w].points = at /\ view[w].known = made
  BY <1>1, <1>3, StoredView DEF Sound
<1>5. at[a] \in made \cup {None} /\ Base(w, a) = at[a]
  BY <1>1 DEF Sound, ServerType, Init, Base
<1> QED
  BY <1>2, <1>4, <1>5 DEF Agreed

LEMMA OpenedAgreed ==
  ASSUME Sound, Pointers, NEW w \in Windows, NEW a \in Agents, <<w, a>> \notin doubt',
         NEW k \in Calls, NEW kind \in {"attach", "new", "send"}, NEW u \in Windows,
         NEW b \in Agents, NEW c \in Convs \cup {None}, NEW t \in Texts,
         NEW s \in {"attach", "create", "send"},
         Start(k, kind, u, b, c, t, s), Ready(u),
         view'[w].known = view[w].known,
         <<w, a>> # <<u, b>> => view'[w].points[a] = view[w].points[a],
         <<w, a>> = <<u, b>> =>
           view'[w].points[a] = IF kind = "attach" THEN c ELSE view[w].points[a]
  PROVE  Agreed(w, a)'
<1>1. s \in Stages
  BY DEF Stages
<1>2. PICK x \in Chains :
        /\ Turns(k, x) /\ x.kind = kind /\ x.w = u /\ x.a = b /\ x.c = c /\ x.text = t
        /\ x.at = s /\ x.saw = None /\ x.page
  BY <1>1, StartTurns
<1>3. /\ call'[k] = x /\ \A j \in Calls \ {k} : call'[j] = call[j]
      /\ at' = at /\ loading' = loading /\ call[k].at = "idle" /\ ~ call[k].page
  BY <1>2 DEF Turns, Start, server, Sound, Shaped
<1>4. /\ doubt' = IF OpenFor(u, b) = {} THEN doubt ELSE doubt \cup {<<u, b>>}
      /\ cleared' = IF kind = "attach" THEN cleared \ {<<u, b>>} ELSE cleared
  BY DEF Start
<1>5. Agreed(w, a)
  BY <1>4 DEF Pointers
<1>6. ~ Mine(k, w, a) /\ ~ OnPage(k, w, a)
  BY <1>3 DEF Mine, OnPage, Open, Pending
<1>7. CASE <<w, a>> # <<u, b>>
  <2>1. ~ Mine(k, w, a)' /\ ~ OnPage(k, w, a)'
    BY <1>2, <1>3, <1>7 DEF Mine, OnPage
  <2>2. \A j \in Calls \ {k} : (Mine(j, w, a)' <=> Mine(j, w, a)) /\ (OnPage(j, w, a)' <=> OnPage(j, w, a))
    BY <1>3 DEF Mine, OnPage, Open, Pending
  <2> QED
    BY <1>3, <1>4, <1>5, <1>6, <1>7, <2>1, <2>2, AgreedFrame
<1>8. CASE w = u /\ a = b
  <2>1. OpenFor(w, a) = {}
    BY <1>4, <1>8
  <2>2. \A j \in Calls : ~ Mine(j, w, a) /\ ~ OnPage(j, w, a)
    BY <2>1 DEF OpenFor, Mine, OnPage, Open
  <2>3. \A j \in Calls \ {k} : ~ Mine(j, w, a)' /\ ~ OnPage(j, w, a)'
    BY <1>3, <2>2 DEF Mine, OnPage, Open, Pending
  <2>4. view[w].points[a] = Base(w, a)
    BY <1>5, <1>8, <2>2 DEF Agreed, Ready
  <2>a. kind # "attach" => Base(w, a)' = Base(w, a)
    BY <1>3, <1>4 DEF Base
  <2>5. Follows(k, w, a)'
    BY <1>2, <1>3, <1>8, <2>4, <2>a DEF Follows
  <2>6. OnPage(k, w, a)'
    BY <1>2, <1>3, <1>8 DEF OnPage
  <2>7. "conversations" \notin loading'[w] => at'[a] \in view'[w].known \cup {None}
    BY <1>3, <1>5 DEF Agreed
  <2> QED
    BY <2>3, <2>5, <2>6, <2>7 DEF Agreed
<1> QED
  BY <1>7, <1>8

LEMMA ClickAgreed ==
  ASSUME Sound, Pointers, NEW w \in Windows, NEW a \in Agents, <<w, a>> \notin doubt',
         NEW k \in Calls, NEW u \in Windows, NEW b \in Agents, NEW t \in Texts,
         \/ CreateNewSession(k, u, b, t) \/ SendMessage(k, u, b, t)
         \/ \E c \in Convs : AttachSession(k, u, b, c, t)
  PROVE  Agreed(w, a)'
<1>1. CASE CreateNewSession(k, u, b, t)
  <2>1. Start(k, "new", u, b, None, t, "create") /\ Ready(u) /\ view' = view
    BY <1>1 DEF CreateNewSession
  <2> QED
    BY <2>1, OpenedAgreed
<1>2. CASE SendMessage(k, u, b, t)
  <2>1. PICK c \in Convs \cup {None} : c = Conversation(view[u], b) /\ c \in view[u].known \cup {None}
    BY <1>2, SendMessageView DEF Sound, WindowType, Views
  <2>2. PICK s \in {"create", "send"} : s = IF c = None THEN "create" ELSE "send"
    OBVIOUS
  <2>3. Start(k, "send", u, b, c, t, s) /\ Ready(u)
    BY <1>2, <2>1, <2>2 DEF SendMessage
  <2>4. view'[w].known = view[w].known /\ view'[w].points[a] = view[w].points[a]
    BY <1>2, SendMessageView
  <2> QED
    BY <2>3, <2>4, OpenedAgreed
<1>3. ASSUME NEW c \in Convs, AttachSession(k, u, b, c, t) PROVE Agreed(w, a)'
  <2>1. Start(k, "attach", u, b, c, t, "attach") /\ Ready(u)
    BY <1>3 DEF AttachSession
  <2>2. /\ view'[w].known = view[w].known
        /\ <<w, a>> # <<u, b>> => view'[w].points[a] = view[w].points[a]
        /\ <<w, a>> = <<u, b>> => view'[w].points[a] = c
    BY <1>3, AttachSessionView
  <2> QED
    BY <2>1, <2>2, OpenedAgreed
<1> QED
  BY <1>1, <1>2, <1>3

\* The server takes a call on to its next stage, and attaches nothing.
LEMMA ServedAgreed ==
  ASSUME NEW w \in Windows, NEW a \in Agents, Sound, Agreed(w, a), NEW k \in Calls, NEW x \in Chains,
         Turns(k, x), x.kind = call[k].kind, x.w = call[k].w, x.a = call[k].a, x.c = call[k].c,
         x.page = call[k].page, Pending(k), call[k].at # "attached",
         UNCHANGED <<view, loading, cleared>>, at'[a] = at[a],
         x.at = "attached" => at[call[k].a] = call[k].c
  PROVE  Agreed(w, a)'
<1>1. Open(k) /\ call'[k] = x
  BY DEF Open, Turns
<1>2. ASSUME OnPage(k, w, a) PROVE x.page /\ Follows(k, w, a)'
  <2>1. Follows(k, w, a) /\ x.page /\ call[k].a = a
    BY <1>2 DEF Agreed, OnPage
  <2>2. Base(w, a)' = Base(w, a)
    BY DEF Base
  <2> QED
    BY <1>1, <2>1, <2>2 DEF Follows
<1> QED
  BY <1>1, <1>2, TurnAgreed

LEMMA CreateConversationAgreed ==
  ASSUME Sound, Pointers, NEW w \in Windows, NEW a \in Agents, <<w, a>> \notin doubt',
         NEW k \in Calls, CreateConversation(k)
  PROVE  Agreed(w, a)'
<1>1. PICK c \in Convs \ made, x \in Chains :
        /\ Turns(k, x) /\ x.at = "created" /\ x.c = c /\ made' = made \cup {c}
        /\ x.kind = call[k].kind /\ x.w = call[k].w /\ x.a = call[k].a
        /\ x.text = call[k].text /\ x.saw = call[k].saw /\ x.page = call[k].page
        /\ view' = view
  BY CreateTurns
<1>2. /\ call[k].at = "create" /\ at' = at /\ loading' = loading /\ doubt' = doubt
      /\ cleared' = cleared
  BY DEF CreateConversation, why
<1>3. Agreed(w, a)
  BY <1>2 DEF Pointers
<1>4. Open(k) /\ call'[k] = x /\ call[k].kind # "attach"
  BY <1>1, <1>2 DEF Open, Pending, Turns, Sound, Shaped
<1>5. ASSUME OnPage(k, w, a) PROVE x.page /\ Follows(k, w, a)'
  <2>1. Follows(k, w, a) /\ x.page
    BY <1>1, <1>3, <1>5 DEF Agreed, OnPage
  <2>2. Base(w, a)' = Base(w, a)
    BY <1>2 DEF Base
  <2> QED
    BY <1>1, <1>2, <1>4, <2>1, <2>2 DEF Follows
<1> QED
  BY <1>1, <1>2, <1>3, <1>4, <1>5, TurnAgreed

LEMMA ReadAgreed ==
  ASSUME Sound, Pointers, NEW w \in Windows, NEW a \in Agents, <<w, a>> \notin doubt',
         NEW k \in Calls, ReadAttachment(k) \/ RouteMessage(k)
  PROVE  Agreed(w, a)'
<1>1. PICK s \in Stages :
        /\ call' = [call EXCEPT ![k].at = s, ![k].saw = at[call[k].a]]
        /\ UNCHANGED <<server, sent, got, window, faults, why>>
        /\ call[k].at \in {"attach", "send"}
        /\ s = "attached" => at[call[k].a] = call[k].c
  <2>1. CASE ReadAttachment(k)
    <3>1. PICK s \in Stages : s = IF at[call[k].a] = call[k].c THEN "attached" ELSE "read"
      BY DEF Stages
    <3> QED
      BY <2>1, <3>1 DEF ReadAttachment
  <2>2. CASE RouteMessage(k)
    BY <2>2 DEF RouteMessage, Stages
  <2> QED
    BY <2>1, <2>2
<1>2. PICK x \in Chains :
        /\ Turns(k, x) /\ x.at = s /\ x.saw = at[call[k].a]
        /\ x.kind = call[k].kind /\ x.w = call[k].w /\ x.a = call[k].a /\ x.c = call[k].c
        /\ x.text = call[k].text /\ x.page = call[k].page
  BY <1>1, SeeTurns
<1>3. UNCHANGED <<view, loading, at, doubt, cleared>>
  BY <1>1 DEF server, window, why
<1>4. Agreed(w, a)
  BY <1>3 DEF Pointers
<1>5. Pending(k) /\ call[k].at # "attached"
  BY <1>1 DEF Pending
<1> QED
  BY <1>1, <1>2, <1>3, <1>4, <1>5, ServedAgreed

LEMMA CommitAgreed ==
  ASSUME Sound, Pointers, NEW w \in Windows, NEW a \in Agents, <<w, a>> \notin doubt',
         NEW k \in Calls, CommitAttachment(k)
  PROVE  Agreed(w, a)'
<1>a. PICK b \in Agents : b = call[k].a
  BY CallFields DEF Sound
<1>b. PICK c \in made : c = call[k].c
  BY CommitParts
<1>1. /\ call[k].at = "read" /\ UNCHANGED <<view, loading, cleared>>
      /\ doubt \subseteq doubt'
  BY CommitParts
<1>2. Agreed(w, a) /\ Pending(k) /\ Open(k)
  BY <1>1 DEF Pointers, Pending, Open
<1>3. CASE at' = at /\ To(k, "refused")
  <2>1. "refused" \in Stages
    BY DEF Stages
  <2>2. PICK x \in Chains :
        /\ Turns(k, x) /\ x.at = "refused"
        /\ x.kind = call[k].kind /\ x.w = call[k].w /\ x.a = call[k].a /\ x.c = call[k].c
        /\ x.text = call[k].text /\ x.saw = call[k].saw /\ x.page = call[k].page
    BY <1>3, <2>1, ToTurns DEF Sound
  <2> QED
    BY <1>1, <1>2, <1>3, <2>2, ServedAgreed
<1>4. CASE /\ at' = [at EXCEPT ![b] = c] /\ To(k, "attached")
           /\ \A u \in Windows : u # call[k].w \/ ~ call[k].page => <<u, b>> \in doubt'
  <2>1. "attached" \in Stages
    BY DEF Stages
  <2>2. PICK x \in Chains :
        /\ Turns(k, x) /\ x.at = "attached"
        /\ x.kind = call[k].kind /\ x.w = call[k].w /\ x.a = call[k].a /\ x.c = call[k].c
        /\ x.text = call[k].text /\ x.saw = call[k].saw /\ x.page = call[k].page
    BY <1>4, <2>1, ToTurns DEF Sound
  <2>3. at'[b] = c /\ \A d \in Agents \ {b} : at'[d] = at[d]
    BY <1>4 DEF Sound, ServerType
  <2>4. CASE a # b
    <3>1. ~ OnPage(k, w, a) /\ at'[a] = at[a]
      BY <1>a, <2>3, <2>4 DEF OnPage
    <3> QED
      BY <1>1, <1>2, <2>2, <3>1, TurnAgreed
  <2>5. CASE a = b
    <3>1. w = call[k].w /\ call[k].page
      BY <1>4, <2>5
    <3>2. OnPage(k, w, a) /\ x.page
      BY <1>a, <2>2, <2>5, <3>1 DEF OnPage
    <3>3. c \in view[w].known
      BY <1>b, <1>1, <3>1 DEF Sound, Paged
    <3>4. Follows(k, w, a)'
      <4>1. Follows(k, w, a) /\ call'[k] = x
        BY <1>2, <2>2, <3>2 DEF Agreed, Turns
      <4> QED
        BY <1>b, <1>1, <2>2, <2>3, <2>5, <4>1 DEF Follows
    <3> QED
      BY <1>1, <1>2, <2>2, <2>3, <2>5, <3>2, <3>3, <3>4, TurnAgreed
  <2> QED
    BY <2>4, <2>5
<1> QED
  BY <1>3, <1>4, <1>a, <1>b, CommitParts

LEMMA StoredAgreed ==
  ASSUME Sound, Pointers, NEW w \in Windows, NEW a \in Agents, <<w, a>> \notin doubt',
         NEW k \in Calls, StoreMessage(k) \/ SkipDuplicate(k) \/ RefuseMessage(k)
  PROVE  Agreed(w, a)'
<1>1. PICK s \in {"stored", "refused"} :
        /\ call[k].at = "routed" /\ To(k, s) /\ UNCHANGED <<view, loading, cleared>>
        /\ doubt \subseteq doubt' /\ at'[a] = at[a]
  <2>1. CASE StoreMessage(k)
    <3>a. PICK b \in Agents : b = call[k].a
      BY CallFields DEF Sound
    <3>1. /\ call[k].at = "routed" /\ To(k, "stored") /\ UNCHANGED <<view, loading, cleared>>
          /\ \E c \in Convs :
               \/ UNCHANGED <<made, at, doubt>>
               \/ at' = [at EXCEPT ![b] = c] /\ doubt' = doubt \cup (Windows \X {b})
      BY <2>1, <3>a, StoreParts DEF window
    <3>2. at'[a] = at[a] /\ doubt \subseteq doubt'
      BY <3>1 DEF Sound, ServerType
    <3> QED
      BY <3>1, <3>2
  <2>2. CASE SkipDuplicate(k)
    BY <2>2 DEF SkipDuplicate, server, window
  <2>3. CASE RefuseMessage(k)
    BY <2>3 DEF RefuseMessage, server, window, why
  <2> QED
    BY <2>1, <2>2, <2>3
<1>2. s \in Stages
  BY DEF Stages
<1>3. PICK x \in Chains :
        /\ Turns(k, x) /\ x.at = s
        /\ x.kind = call[k].kind /\ x.w = call[k].w /\ x.a = call[k].a /\ x.c = call[k].c
        /\ x.text = call[k].text /\ x.saw = call[k].saw /\ x.page = call[k].page
  BY <1>1, <1>2, ToTurns DEF Sound
<1>4. Agreed(w, a) /\ Pending(k) /\ call[k].at # "attached"
  BY <1>1 DEF Pointers, Pending
<1> QED
  BY <1>1, <1>3, <1>4, ServedAgreed

LEMMA ShownAgreed ==
  ASSUME Sound, Pointers, NEW w \in Windows, NEW a \in Agents, <<w, a>> \notin doubt',
         NEW k \in Calls, ShowCreated(k) \/ ShowAttached(k) \/ ShowSent(k)
  PROVE  Agreed(w, a)'
<1>a. PICK u \in Windows, b \in Agents : u = call[k].w /\ b = call[k].a
  BY CallFields DEF Sound
<1>1. /\ call[k].page /\ at' = at /\ loading' = loading /\ doubt' = doubt
      /\ call[k].at \in {"created", "attached", "stored"}
  BY DEF ShowCreated, ShowAttached, ShowSent, Answered, server, window, why
<1>b. cleared' = IF ShowAttached(k) THEN cleared \ {<<u, b>>} ELSE cleared
  BY <1>a DEF ShowCreated, ShowAttached, ShowSent, why
<1>2. Agreed(w, a) /\ Open(k) /\ Shaped(k) /\ (OnPage(k, w, a) => Follows(k, w, a))
  BY <1>1 DEF Pointers, Agreed, Open, Sound
<1>3. OnPage(k, w, a) <=> w = u /\ a = b
  BY <1>a, <1>1 DEF OnPage
<1>4. CASE ShowCreated(k)
  <2>1. "attach" \in Stages /\ call[k].at = "created" /\ To(k, "attach")
    BY <1>4 DEF Stages, ShowCreated, Answered
  <2>2. PICK x \in Chains :
          /\ Turns(k, x) /\ x.at = "attach"
          /\ x.kind = call[k].kind /\ x.w = call[k].w /\ x.a = call[k].a /\ x.c = call[k].c
          /\ x.text = call[k].text /\ x.saw = call[k].saw /\ x.page = call[k].page
    BY <2>1, ToTurns DEF Sound
  <2>3. view'[w].points = view[w].points /\ view[w].known \subseteq view'[w].known
    BY <1>4, <1>a, ShowCreatedView
  <2>4. call[k].kind # "attach" /\ call'[k] = x
    BY <1>2, <2>1, <2>2 DEF Shaped, Turns
  <2>a. cleared' = cleared
    BY <1>4 DEF ShowCreated, why
  <2>b. Base(w, a)' = Base(w, a)
    BY <1>1, <2>a DEF Base
  <2>5. ASSUME OnPage(k, w, a) PROVE x.page /\ Follows(k, w, a)'
    BY <1>1, <1>2, <2>1, <2>2, <2>3, <2>4, <2>5, <2>b DEF Follows
  <2> QED
    BY <1>1, <1>2, <2>2, <2>3, <2>5, <2>a, TurnAgreed
<1>5. ASSUME Finish(k), \A y \in Windows, d \in Agents : <<y, d>> # <<u, b>> => view'[y].points[d] = view[y].points[d],
             OnPage(k, w, a) => view'[w].points[a] = Base(w, a)',
             view'[w].known = view[w].known
      PROVE  Agreed(w, a)'
  <2>1. PICK x \in Chains :
        /\ Turns(k, x) /\ x.at = "done" /\ x.kind = "attach" /\ x.c = None /\ x.saw = None
        /\ x.w = call[k].w /\ x.a = call[k].a /\ x.text = call[k].text /\ ~ x.page
    BY <1>5, EndTurns DEF Sound
  <2>2. ~ OnPage(k, w, a) => (<<w, a>> \in cleared' <=> <<w, a>> \in cleared)
    BY <1>3, <1>b
  <2> QED
    BY <1>1, <1>2, <1>3, <1>5, <2>1, <2>2, TurnAgreed
<1>6. CASE ShowSent(k)
  <2>1. Finish(k) /\ view' = view /\ call[k].at = "stored"
    BY <1>6 DEF ShowSent, Answered, window
  <2>a. Base(w, a)' = Base(w, a)
    BY <1>1, <1>6 DEF Base, ShowSent, why
  <2>2. OnPage(k, w, a) => view'[w].points[a] = Base(w, a)'
    BY <1>2, <2>1, <2>a DEF Follows, Shaped
  <2> QED
    BY <1>5, <2>1, <2>2
<1>7. CASE ShowAttached(k)
  <2>a. PICK c \in Convs : c = call[k].c
    BY <1>7, ShowAttachedView
  <2>c. call[k].at = "attached"
    BY <1>7 DEF ShowAttached, Answered
  <2>1. /\ call[k].at = "attached"
        /\ \A y \in Windows \ {u} : view'[y] = view[y]
        /\ view'[u].known = view[u].known
        /\ \A d \in Agents \ {b} : view'[u].points[d] = view[u].points[d]
        /\ \/ call[k].kind = "attach" /\ Finish(k) /\ view' = view
           \/ call[k].kind = "new" /\ Finish(k) /\ view'[u].points[b] = c
           \/ call[k].kind = "send" /\ To(k, "send") /\ view'[u].points[b] = c
    BY <1>7, <1>a, <2>a, <2>c, ShowAttachedView
  <2>2. OnPage(k, w, a) => view'[w].points[a] = at[a] /\ at[a] = c
    BY <1>2, <1>3, <2>a, <2>1 DEF Follows
  <2>3. /\ \A y \in Windows, d \in Agents : <<y, d>> # <<u, b>> => view'[y].points[d] = view[y].points[d]
        /\ view'[w].known = view[w].known
    BY <2>1
  <2>b. /\ OnPage(k, w, a) => Base(w, a)' = at[a]
        /\ ~ OnPage(k, w, a) => (<<w, a>> \in cleared' <=> <<w, a>> \in cleared)
    BY <1>1, <1>3, <1>7, <1>b DEF Base
  <2>4. CASE Finish(k)
    BY <1>5, <2>2, <2>3, <2>4, <2>b
  <2>5. CASE call[k].kind = "send" /\ To(k, "send")
    <3>1. "send" \in Stages
      BY DEF Stages
    <3>2. PICK x \in Chains :
          /\ Turns(k, x) /\ x.at = "send"
          /\ x.kind = call[k].kind /\ x.w = call[k].w /\ x.a = call[k].a /\ x.c = call[k].c
          /\ x.text = call[k].text /\ x.saw = call[k].saw /\ x.page = call[k].page
      BY <2>5, <3>1, ToTurns DEF Sound
    <3>3. ASSUME OnPage(k, w, a) PROVE x.page /\ Follows(k, w, a)'
      BY <1>1, <2>2, <2>5, <2>b, <3>2, <3>3 DEF Follows, Turns
    <3>4. ~ OnPage(k, w, a) => view'[w].points[a] = view[w].points[a]
      BY <1>3, <2>3
    <3> QED
      BY <1>1, <1>2, <2>3, <2>b, <3>2, <3>3, <3>4, TurnAgreed
  <2> QED
    BY <2>1, <2>4, <2>5
<1> QED
  BY <1>4, <1>6, <1>7

LEMMA FailAgreed ==
  ASSUME Sound, Pointers, NEW w \in Windows, NEW a \in Agents, <<w, a>> \notin doubt',
         NEW k \in Calls, Fail(k)
  PROVE  Agreed(w, a)'
<1>a. PICK u \in Windows, b \in Agents : u = call[k].w /\ b = call[k].a
  BY CallFields DEF Sound
<1>1. call[k].page /\ at' = at /\ loading' = loading /\ cleared' = cleared
  BY DEF Fail, server
<1>2. /\ \A y \in Windows \ {u} : view'[y] = view[y]
      /\ view'[u].known = view[u].known
      /\ \A d \in Agents : <<u, d>> \notin doubt' => view'[u].points[d] = view[u].points[d]
      /\ <<u, b>> \in doubt' /\ doubt \subseteq doubt'
  BY <1>a, FailView
<1>3. Agreed(w, a) /\ Open(k) /\ <<w, a>> # <<u, b>>
  BY <1>1, <1>2 DEF Pointers, Open
<1>4. ~ OnPage(k, w, a)
  BY <1>a, <1>3 DEF OnPage
<1>5. view'[w].points[a] = view[w].points[a] /\ view[w].known \subseteq view'[w].known
  BY <1>2
<1>6. PICK x \in Chains : Turns(k, x) /\ ~ x.page /\ x.w = call[k].w /\ x.a = call[k].a
  <2>1. CASE call' = [call EXCEPT ![k] = Ended(k)]
    BY <2>1, EndTurns DEF Finish, Sound
  <2>2. CASE call' = [call EXCEPT ![k].page = FALSE]
    BY <2>2, LeaveTurns DEF Sound
  <2> QED
    BY <2>1, <2>2 DEF Fail
<1> QED
  BY <1>1, <1>3, <1>4, <1>5, <1>6, TurnAgreed

LEMMA HeardAgreed ==
  ASSUME Sound, Pointers, NEW w \in Windows, NEW a \in Agents, <<w, a>> \notin doubt',
         \E k \in Calls : Stream(k) \/ StoreReply(k) \/ \E u \in Windows : Receive(u, k)
  PROVE  Agreed(w, a)'
<1>1. UNCHANGED <<at, loading, doubt, cleared, call>>
  BY DEF Stream, StoreReply, Receive, server, window, why
<1>2. view'[w].points = view[w].points /\ view'[w].known = view[w].known
  <2>1. ASSUME NEW u \in Windows, NEW k \in Calls, Receive(u, k)
        PROVE  view'[w].points = view[w].points /\ view'[w].known = view[w].known
    BY <2>1, ReceiveView
  <2>2. ASSUME NEW k \in Calls, Stream(k) \/ StoreReply(k) PROVE view' = view
    BY <2>2 DEF Stream, StoreReply, window
  <2> QED
    BY <2>1, <2>2
<1>3. Agreed(w, a)
  BY <1>1 DEF Pointers
<1>4. \A j \in Calls : (Mine(j, w, a)' <=> Mine(j, w, a)) /\ (OnPage(j, w, a)' <=> OnPage(j, w, a))
  BY <1>1 DEF Mine, OnPage, Open, Pending
<1> QED
  BY <1>1, <1>2, <1>3, <1>4, AgreedFrame

LEMMA ReloadAgreed ==
  ASSUME Sound, Pointers, NEW w \in Windows, NEW a \in Agents, <<w, a>> \notin doubt',
         NEW u \in Windows, Reload(u)
  PROVE  Agreed(w, a)'
<1>1. CASE w = u
  <2>1. \A j \in Calls : ~ OnPage(j, w, a)'
    BY <1>1, ReloadCalls DEF OnPage
  <2>2. "agents" \in loading'[w] /\ "conversations" \in loading'[w]
    BY <1>1, ReloadView
  <2> QED
    BY <2>1, <2>2 DEF Agreed
<1>2. CASE w # u
  <2>1. view'[w] = view[w] /\ loading'[w] = loading[w]
    BY <1>2, ReloadView
  <2>2. at' = at /\ doubt' = {x \in doubt : x[1] # u} /\ cleared' = cleared
    BY DEF Reload, server
  <2>3. Agreed(w, a)
    BY <1>2, <2>2 DEF Pointers
  <2>4. ASSUME NEW j \in Calls, call[j].w = w PROVE call'[j] = call[j]
    <3>1. call' = [i \in Calls |-> [call[i] EXCEPT !.page = @ /\ call[i].w # u]]
      BY DEF Reload
    <3>2. call[j] \in Chains
      BY DEF Sound, CallType
    <3>3. PICK y \in BOOLEAN : y = call[j].page
      BY <3>2 DEF Chains
    <3>4. call'[j] = [call[j] EXCEPT !.page = y]
      BY <1>2, <2>4, <3>1, <3>3
    <3> QED
      BY <3>2, <3>3, <3>4 DEF Chains
  <2>5. \A j \in Calls : call'[j].w = call[j].w
    BY ReloadCalls
  <2>6. \A j \in Calls : (Mine(j, w, a)' <=> Mine(j, w, a)) /\ (OnPage(j, w, a)' <=> OnPage(j, w, a))
    BY <2>4, <2>5 DEF Mine, OnPage, Open, Pending
  <2>7. \A j \in Calls : OnPage(j, w, a) => call'[j] = call[j]
    BY <2>4 DEF OnPage
  <2> QED
    BY <2>1, <2>2, <2>3, <2>6, <2>7, AgreedFrame
<1> QED
  BY <1>1, <1>2

LEMMA LoadAgreed ==
  ASSUME Sound, Pointers, NEW w \in Windows, NEW a \in Agents, <<w, a>> \notin doubt',
         NEW u \in Windows, FetchAgents(u) \/ FetchConversations(u) \/ Install(u)
  PROVE  Agreed(w, a)'
<1>1. call' = call /\ at' = at /\ doubt' = doubt
  BY DEF FetchAgents, FetchConversations, Install, server, why
<1>a. cleared' = IF FetchAgents(u) THEN {x \in cleared : x[1] # u} ELSE cleared
  BY DEF FetchAgents, FetchConversations, Install, why
<1>2. Agreed(w, a)
  BY <1>1 DEF Pointers
<1>3. \A j \in Calls : (Mine(j, w, a)' <=> Mine(j, w, a)) /\ (OnPage(j, w, a)' <=> OnPage(j, w, a))
  BY <1>1 DEF Mine, OnPage, Open, Pending
<1>4. CASE w # u
  <2>1. view'[w] = view[w] /\ loading'[w] = loading[w]
    BY <1>4, FetchAgentsView, FetchConversationsView, InstallView
  <2>2. <<w, a>> \in cleared' <=> <<w, a>> \in cleared
    BY <1>4, <1>a
  <2> QED
    BY <1>1, <1>2, <1>3, <2>1, <2>2, AgreedFrame
<1>5. CASE w = u
  <2>1. \A j \in Calls : ~ OnPage(j, w, a)
    <3>1. ~ Ready(w)
      BY <1>5, FetchAgentsView, FetchConversationsView, InstallView
    <3> QED
      BY <3>1 DEF OnPage, Sound, Paged
  <2>2. at[a] \in made \cup {None}
    BY DEF Sound, ServerType
  <2>3. /\ "agents" \notin loading'[w] => view'[w].points[a] = Base(w, a)'
        /\ "conversations" \notin loading'[w] => at[a] \in view'[w].known \cup {None}
    <3>1. CASE FetchAgents(u)
      <4>1. Base(w, a)' = at[a]
        BY <1>1, <1>5, <3>1 DEF FetchAgents, Base
      <4> QED
        BY <1>2, <1>5, <3>1, <4>1, FetchAgentsView DEF Agreed
    <3>2. CASE FetchConversations(u)
      <4>1. Base(w, a)' = Base(w, a)
        BY <1>1, <3>2 DEF FetchConversations, why, Base
      <4> QED
        BY <1>2, <1>5, <2>1, <2>2, <3>2, <4>1, FetchConversationsView DEF Agreed
    <3>3. CASE Install(u)
      <4>1. Base(w, a)' = Base(w, a)
        BY <1>1, <3>3 DEF Install, why, Base
      <4> QED
        BY <1>2, <1>5, <2>1, <3>3, <4>1, InstallView DEF Agreed
    <3> QED
      BY <3>1, <3>2, <3>3
  <2> QED
    BY <1>1, <1>3, <2>1, <2>3 DEF Agreed
<1> QED
  BY <1>4, <1>5

LEMMA JoinedAgreed ==
  ASSUME Sound, Pointers, NEW w \in Windows, NEW a \in Agents, <<w, a>> \notin doubt',
         NEW u \in Windows, JoinRoom(u)
  PROVE  Agreed(w, a)'
<1>1. UNCHANGED <<call, at, view, doubt, cleared>>
  BY JoinRoomParts DEF server
<1>2. Agreed(w, a)
  BY <1>1 DEF Pointers
<1>3. \A x \in {"agents", "conversations"} : x \in loading[w] => x \in loading'[w] \/ w = u
  BY JoinRoomParts
<1>4. w = u => "agents" \notin loading[w] /\ "conversations" \notin loading[w]
  BY JoinRoomParts DEF Ready
<1>5. \A j \in Calls : (Mine(j, w, a)' <=> Mine(j, w, a)) /\ (OnPage(j, w, a)' <=> OnPage(j, w, a))
  BY <1>1 DEF Mine, OnPage, Open, Pending
<1>6. Base(w, a)' = Base(w, a)
  BY <1>1 DEF Base
<1>7. \A j \in Calls : OnPage(j, w, a)' => Follows(j, w, a)'
  BY <1>1, <1>2, <1>5, <1>6 DEF Agreed, Follows
<1> QED
  BY <1>1, <1>2, <1>3, <1>4, <1>5, <1>6, <1>7 DEF Agreed

\* The agent that a /clear takes has no request under way, or is in doubt.
LEMMA ClearedAgreed ==
  ASSUME Sound, Pointers, NEW w \in Windows, NEW a \in Agents, <<w, a>> \notin doubt',
         NEW u \in Windows, NEW d \in Agents, ClearConversation(u, d)
  PROVE  Agreed(w, a)'
<1>1. /\ UNCHANGED <<server, call, loading>>
      /\ \A y \in Windows \ {u} : view'[y] = view[y]
      /\ view'[u].known = view[u].known
  BY ClearView
<1>a. PICK b \in Agents :
        /\ \A e \in Agents \ {b} : view'[u].points[e] = view[u].points[e]
        /\ \/ UNCHANGED <<doubt, cleared>> /\ view'[u].points[b] = view[u].points[b]
           \/ /\ OpenFor(u, b) = {} /\ doubt' = doubt /\ cleared' = cleared \cup {<<u, b>>}
              /\ view'[u].points[b] = None
           \/ doubt' = doubt \cup {<<u, b>>} /\ cleared' = cleared
  BY ClearView
<1>2. Agreed(w, a) /\ at' = at
  BY <1>1, <1>a DEF Pointers, server
<1>3. \A j \in Calls : (Mine(j, w, a)' <=> Mine(j, w, a)) /\ (OnPage(j, w, a)' <=> OnPage(j, w, a))
  BY <1>1 DEF Mine, OnPage, Open, Pending
<1>4. CASE view'[w].points[a] = view[w].points[a] /\ (<<w, a>> \in cleared' <=> <<w, a>> \in cleared)
  <2>1. view[w].known \subseteq view'[w].known /\ loading'[w] = loading[w]
    BY <1>1
  <2> QED
    BY <1>1, <1>2, <1>3, <1>4, <2>1, AgreedFrame
<1>5. CASE w = u /\ a = b /\ OpenFor(w, a) = {} /\ <<w, a>> \in cleared' /\ view'[w].points[a] = None
  <2>1. \A j \in Calls : ~ Mine(j, w, a)' /\ ~ OnPage(j, w, a)'
    BY <1>3, <1>5 DEF OpenFor, Mine, OnPage, Open
  <2>2. Base(w, a)' = None
    BY <1>5 DEF Base
  <2>3. "conversations" \notin loading'[w] => at'[a] \in view'[w].known \cup {None}
    BY <1>1, <1>2, <1>5 DEF Agreed
  <2> QED
    BY <1>5, <2>1, <2>2, <2>3 DEF Agreed
<1> QED
  BY <1>1, <1>a, <1>4, <1>5

LEMMA PointersStep ==
  ASSUME Sound, Pointers, [Next]_vars
  PROVE  Pointers'
<1> SUFFICES ASSUME NEW w \in Windows, NEW a \in Agents, <<w, a>> \notin doubt'
             PROVE  Agreed(w, a)'
  BY DEF Pointers
<1>1. ASSUME UNCHANGED vars PROVE Agreed(w, a)'
  BY <1>1 DEF vars, server, window, why, Pointers, Agreed, Mine, OnPage, Open, Pending, Follows, Base
<1>2. ASSUME NEW k \in Calls, NEW u \in Windows, NEW b \in Agents, NEW t \in Texts,
             \/ CreateNewSession(k, u, b, t) \/ SendMessage(k, u, b, t)
             \/ \E c \in Convs : AttachSession(k, u, b, c, t)
      PROVE  Agreed(w, a)'
  BY <1>2, ClickAgreed
<1>3. ASSUME NEW k \in Calls,
             \/ CreateConversation(k) \/ ReadAttachment(k) \/ CommitAttachment(k)
             \/ RouteMessage(k) \/ StoreMessage(k) \/ SkipDuplicate(k) \/ RefuseMessage(k)
             \/ Stream(k) \/ StoreReply(k)
             \/ ShowCreated(k) \/ ShowAttached(k) \/ ShowSent(k) \/ Fail(k)
      PROVE  Agreed(w, a)'
  BY <1>3, CreateConversationAgreed, ReadAgreed, CommitAgreed, StoredAgreed, HeardAgreed,
     ShownAgreed, FailAgreed
<1>4. ASSUME NEW u \in Windows,
             \/ Reload(u) \/ FetchAgents(u) \/ FetchConversations(u) \/ Install(u) \/ JoinRoom(u)
             \/ \E k \in Calls : Receive(u, k)
             \/ \E b \in Agents : ClearConversation(u, b)
      PROVE  Agreed(w, a)'
  BY <1>4, ReloadAgreed, LoadAgreed, JoinedAgreed, HeardAgreed, ClearedAgreed
<1> QED
  BY <1>1, <1>2, <1>3, <1>4 DEF Next

LEMMA PointersAlways == Spec => [](Sound /\ Pointers)
<1>1. Init => Sound /\ Pointers
  BY SoundInit, PointersInit
<1>2. Sound /\ Pointers /\ [Next]_vars => (Sound /\ Pointers)'
  BY SoundStep, PointersStep
<1> QED
  BY <1>1, <1>2, PTL DEF Spec

\* A window whose requests for an agent have been answered one after the other has the
\* conversation that the database has for it, or none since a /clear that took it: the change made
\* ahead of attachConversation() and the one made after createConversation() end where the
\* attachment ends.
THEOREM PointersAgree == Spec => []PointerAgrees
<1>1. Pointers => PointerAgrees
  <2> SUFFICES ASSUME Pointers, NEW w \in Windows, NEW a \in Agents,
                      Ready(w), <<w, a>> \notin doubt, OpenFor(w, a) = {}
               PROVE  view[w].points[a] = Base(w, a)
    BY DEF PointerAgrees, Base
  <2>1. \A k \in Calls : ~ OnPage(k, w, a)
    BY DEF OpenFor, OnPage, Open
  <2> QED
    BY <2>1 DEF Pointers, Agreed, Ready
<1> QED
  BY <1>1, PointersAlways, PTL

-----------------------------------------------------------------------------
(* Where a window shows a message.                                         *)

Shows(w, k, x, c) == <<k, x>> \in view[w].shown[c]

\* Message k is in window w where the database has it, as far as the window has been told.
Placed(w, k) ==
  /\ ~ Here(w) => got[w][k] = 0
  /\ \A c \in Convs \ {home[k]} : ~ Shows(w, k, "user", c) /\ ~ Shows(w, k, "reply", c)
  /\ got[w][k] >= 1 => Shows(w, k, "user", home[k])
  /\ got[w][k] = 2 => <<w, k>> \in streams \/ Shows(w, k, "reply", home[k])
  /\ got[w][k] = 3 => Shows(w, k, "reply", home[k])

Places == \A w \in Windows, k \in Calls : <<w, k>> \notin excused => Placed(w, k)

\* A window is told of messages that have a place.
LEMMA ToldHome ==
  ASSUME Sound, NEW w \in Windows, NEW k \in Calls
  PROVE  /\ got[w][k] \in 0 .. 3 /\ sent[k] \in 0 .. 3 /\ got[w][k] <= sent[k]
         /\ sent[k] >= 1 => home[k] \in Convs /\ home[k] # None
         /\ got[w][k] >= 1 => home[k] \in Convs /\ home[k] # None
         /\ home[k] = None => got[w][k] = 0
<1>1. /\ got[w][k] \in 0 .. 3 /\ sent[k] \in 0 .. 3 /\ got[w][k] <= sent[k]
  BY DEF Sound, EventType
<1>2. sent[k] >= 1 => home[k] # None
  BY <1>1 DEF Sound, Begun
<1>3. home[k] # None => home[k] \in Convs
  BY DEF Sound, ServerType
<1> QED
  BY <1>1, <1>2, <1>3

LEMMA PlacedFrame ==
  ASSUME Sound, NEW w \in Windows, NEW k \in Calls, Placed(w, k),
         loading'[w] = loading[w], got'[w][k] = got[w][k], home'[k] = home[k],
         <<w, k>> \in streams => <<w, k>> \in streams',
         \A c \in Convs, x \in {"user", "reply"} : Shows(w, k, x, c)' <=> Shows(w, k, x, c)
  PROVE  Placed(w, k)'
BY ToldHome DEF Placed, Here

\* The steps that leave the user messages and the replies of every window where they are.
LEMMA EntriesKept ==
  ASSUME Sound,
         \/ \E k \in Calls, w \in Windows, a \in Agents, t \in Texts :
              \/ CreateNewSession(k, w, a, t) \/ SendMessage(k, w, a, t)
              \/ \E c \in Convs : AttachSession(k, w, a, c, t)
         \/ \E k \in Calls :
              \/ CreateConversation(k) \/ ReadAttachment(k) \/ CommitAttachment(k)
              \/ RouteMessage(k) \/ StoreMessage(k) \/ SkipDuplicate(k) \/ RefuseMessage(k)
              \/ Stream(k) \/ StoreReply(k)
              \/ ShowCreated(k) \/ ShowAttached(k) \/ ShowSent(k) \/ Fail(k)
         \/ \E w \in Windows :
              FetchAgents(w) \/ Install(w) \/ JoinRoom(w) \/ \E a \in Agents : ClearConversation(w, a),
         NEW u \in Windows, NEW j \in Calls, NEW d \in Convs, NEW x \in {"user", "reply"}
  PROVE  Shows(u, j, x, d)' <=> Shows(u, j, x, d)
<1> SUFFICES \E k \in Calls : view'[u].shown[d] \in {view[u].shown[d], view[u].shown[d] \cup {<<k, "temp">>}}
  BY DEF Shows
<1>1. ASSUME NEW k \in Calls, NEW w \in Windows, NEW a \in Agents, NEW t \in Texts,
              \/ CreateNewSession(k, w, a, t) \/ SendMessage(k, w, a, t)
              \/ \E c \in Convs : AttachSession(k, w, a, c, t)
      PROVE  view'[u].shown[d] \in {view[u].shown[d], view[u].shown[d] \cup {<<k, "temp">>}}
  <2>1. CASE CreateNewSession(k, w, a, t)
    BY <2>1 DEF CreateNewSession
  <2>2. CASE SendMessage(k, w, a, t)
    <3>1. PICK c : c = Conversation(view[w], a)
      OBVIOUS
    <3>2. /\ \A y \in Windows \ {w} : view'[y] = view[y]
          /\ c = None => view'[w] = view[w]
          /\ c # None =>
              /\ c \in Convs
              /\ \A e \in Convs \ {c} : view'[w].shown[e] = view[w].shown[e]
              /\ view'[w].shown[c] \in {view[w].shown[c], view[w].shown[c] \cup {<<k, "temp">>}}
      BY <2>2, <3>1, SendMessageView
    <3> QED
      BY <3>2
  <2>3. ASSUME NEW c \in Convs, AttachSession(k, w, a, c, t)
        PROVE  view'[u].shown[d] = view[u].shown[d]
    BY <2>3, AttachSessionView
  <2> QED
    BY <1>1, <2>1, <2>2, <2>3
<1>2. ASSUME NEW k \in Calls, ShowAttached(k)
      PROVE  view'[u].shown[d] \in {view[u].shown[d], view[u].shown[d] \cup {<<k, "temp">>}}
  <2>1. PICK w \in Windows, c \in Convs : w = call[k].w /\ c = call[k].c
    BY <1>2, ShowAttachedView
  <2>2. /\ \A y \in Windows \ {w} : view'[y] = view[y]
        /\ \/ view' = view
           \/ view'[w].shown = view[w].shown
           \/ /\ \A e \in Convs \ {c} : view'[w].shown[e] = view[w].shown[e]
              /\ view'[w].shown[c] \in {view[w].shown[c], view[w].shown[c] \cup {<<k, "temp">>}}
    BY <1>2, <2>1, ShowAttachedView
  <2> QED
    BY <2>2
<1>3. ASSUME NEW k \in Calls,
              \/ CreateConversation(k) \/ ReadAttachment(k) \/ CommitAttachment(k)
              \/ RouteMessage(k) \/ StoreMessage(k) \/ SkipDuplicate(k) \/ RefuseMessage(k)
              \/ Stream(k) \/ StoreReply(k) \/ ShowSent(k)
      PROVE  view' = view
  <2>1. CASE CreateConversation(k)
    BY <2>1, CreateTurns
  <2>2. CASE CommitAttachment(k)
    BY <2>2, CommitParts
  <2>3. CASE \/ ReadAttachment(k) \/ RouteMessage(k) \/ StoreMessage(k) \/ SkipDuplicate(k)
             \/ RefuseMessage(k) \/ Stream(k) \/ StoreReply(k) \/ ShowSent(k)
    BY <2>3 DEF ReadAttachment, RouteMessage, StoreMessage, SkipDuplicate, RefuseMessage, Stream,
                StoreReply, ShowSent, window
  <2> QED
    BY <1>3, <2>1, <2>2, <2>3
<1>4. ASSUME NEW k \in Calls, ShowCreated(k) \/ Fail(k)
      PROVE  view'[u].shown[d] = view[u].shown[d]
  <2>1. PICK w \in Windows : w = call[k].w
    BY CallFields DEF Sound
  <2>2. (\A y \in Windows \ {w} : view'[y] = view[y]) /\ view'[w].shown = view[w].shown
    BY <1>4, <2>1, ShowCreatedView, FailView
  <2> QED
    BY <2>2
<1>5. ASSUME NEW w \in Windows,
             FetchAgents(w) \/ Install(w) \/ JoinRoom(w) \/ \E a \in Agents : ClearConversation(w, a)
      PROVE  view'[u].shown[d] = view[u].shown[d]
  BY <1>5, FetchAgentsView, InstallView, JoinRoomParts, ClearView
<1>6. CASE \E w \in Windows :
             FetchAgents(w) \/ Install(w) \/ JoinRoom(w) \/ \E a \in Agents : ClearConversation(w, a)
  <2>1. \E k \in Calls : TRUE
    OBVIOUS
  <2> QED
    BY <1>5, <1>6, <2>1
<1> QED
  BY <1>1, <1>2, <1>3, <1>4, <1>6

\* The steps that tell no window anything.
LEMMA QuietPlaced ==
  ASSUME Sound, Places,
         \/ \E k \in Calls, w \in Windows, a \in Agents, t \in Texts :
              \/ CreateNewSession(k, w, a, t) \/ SendMessage(k, w, a, t)
              \/ \E c \in Convs : AttachSession(k, w, a, c, t)
         \/ \E k \in Calls :
              \/ CreateConversation(k) \/ ReadAttachment(k) \/ CommitAttachment(k)
              \/ RouteMessage(k) \/ SkipDuplicate(k) \/ RefuseMessage(k)
              \/ Stream(k) \/ StoreReply(k)
              \/ ShowCreated(k) \/ ShowAttached(k) \/ ShowSent(k) \/ Fail(k)
         \/ \E w \in Windows, a \in Agents : ClearConversation(w, a)
  PROVE  Places'
<1> SUFFICES ASSUME NEW w \in Windows, NEW k \in Calls, <<w, k>> \notin excused'
             PROVE  Placed(w, k)'
  BY DEF Places
<1>1. got' = got /\ home' = home /\ streams' = streams /\ loading' = loading /\ excused \subseteq excused'
  <2>1. ASSUME NEW j \in Calls, NEW u \in Windows, NEW a \in Agents, NEW t \in Texts,
              \/ CreateNewSession(j, u, a, t) \/ SendMessage(j, u, a, t)
              \/ \E c \in Convs : AttachSession(j, u, a, c, t)
        PROVE  got' = got /\ home' = home /\ streams' = streams /\ loading' = loading
               /\ excused \subseteq excused'
    BY <2>1 DEF CreateNewSession, SendMessage, AttachSession, Start, server, why
  <2>2. ASSUME NEW j \in Calls,
              \/ CreateConversation(j) \/ ReadAttachment(j) \/ CommitAttachment(j)
              \/ RouteMessage(j) \/ SkipDuplicate(j) \/ RefuseMessage(j)
              \/ Stream(j) \/ StoreReply(j)
        PROVE  got' = got /\ home' = home /\ streams' = streams /\ loading' = loading
               /\ excused \subseteq excused'
    BY <2>2 DEF CreateConversation, ReadAttachment, CommitAttachment, RouteMessage, SkipDuplicate,
       RefuseMessage, Stream, StoreReply, server, window, why
  <2>3. ASSUME NEW j \in Calls, ShowCreated(j) \/ ShowAttached(j) \/ ShowSent(j) \/ Fail(j)
        PROVE  got' = got /\ home' = home /\ streams' = streams /\ loading' = loading
               /\ excused \subseteq excused'
    <3>1. CASE ShowCreated(j)
      BY <3>1 DEF ShowCreated, server, window, why
    <3>2. CASE ShowAttached(j)
      BY <3>2 DEF ShowAttached, server, window
    <3>3. CASE ShowSent(j)
      BY <3>3 DEF ShowSent, server, window, why
    <3>4. CASE Fail(j)
      <4>1. excused \subseteq excused'
        BY <3>4, FailView
      <4>2. UNCHANGED <<server, sent, got, streams, loading, cleared>>
        BY <3>4, Zenon DEF Fail
      <4> QED
        BY <4>1, <4>2 DEF server
    <3> QED
      BY <2>3, <3>1, <3>2, <3>3, <3>4
  <2>4. ASSUME NEW u \in Windows, NEW a \in Agents, ClearConversation(u, a)
        PROVE  got' = got /\ home' = home /\ streams' = streams /\ loading' = loading
               /\ excused \subseteq excused'
    BY <2>4, ClearView DEF server
  <2> QED
    BY <2>1, <2>2, <2>3, <2>4
<1>2. Placed(w, k)
  BY <1>1 DEF Places
<1>3. \A c \in Convs, x \in {"user", "reply"} : Shows(w, k, x, c)' <=> Shows(w, k, x, c)
  BY EntriesKept
<1> QED
  BY <1>1, <1>2, <1>3, PlacedFrame

\* A message that is stored was nowhere.
LEMMA StoreMessagePlaced ==
  ASSUME Sound, Places, NEW j \in Calls, StoreMessage(j)
  PROVE  Places'
<1> SUFFICES ASSUME NEW w \in Windows, NEW k \in Calls, <<w, k>> \notin excused'
             PROVE  Placed(w, k)'
  BY DEF Places
<1>1. got' = got /\ streams' = streams /\ loading' = loading /\ excused' = excused
  BY StoreParts DEF window
<1>2. Placed(w, k)
  BY <1>1 DEF Places
<1>3. \A c \in Convs, x \in {"user", "reply"} : Shows(w, k, x, c)' <=> Shows(w, k, x, c)
  BY EntriesKept
<1>4. PICK c \in Convs : home' = [home EXCEPT ![j] = c]
  BY StoreParts
<1>5. \A i \in Calls \ {j} : home'[i] = home[i]
  BY <1>4 DEF Sound, ServerType
<1>6. CASE k # j
  BY <1>1, <1>2, <1>3, <1>5, <1>6, PlacedFrame
<1>7. CASE k = j
  <2>1. home[k] = None
    <3>1. call[j].at = "routed"
      BY StoreParts
    <3> QED
      BY <1>7, <3>1 DEF Sound, Begun
  <2>2. None \notin Convs
    BY ConversationAssumption DEF ConversationAssumption
  <2>3. \A d \in Convs : ~ Shows(w, k, "user", d) /\ ~ Shows(w, k, "reply", d)
    BY <1>2, <2>1, <2>2 DEF Placed
  <2>4. got'[w][k] = 0
    BY <1>1, <2>1, ToldHome
  <2>5. \A d \in Convs : ~ Shows(w, k, "user", d)' /\ ~ Shows(w, k, "reply", d)'
    BY <1>3, <2>3
  <2> QED
    BY <2>4, <2>5 DEF Placed
<1> QED
  BY <1>6, <1>7

LEMMA LoadPlaced ==
  ASSUME Sound, Places, NEW u \in Windows, FetchAgents(u) \/ FetchConversations(u) \/ Install(u)
  PROVE  Places'
<1> SUFFICES ASSUME NEW w \in Windows, NEW k \in Calls, <<w, k>> \notin excused'
             PROVE  Placed(w, k)'
  BY DEF Places
<1>1. /\ UNCHANGED <<home, streams, excused, got>>
      /\ \A y \in Windows \ {u} : loading'[y] = loading[y] /\ view'[y] = view[y]
  <2>1. UNCHANGED <<home, streams, excused, got>>
    BY DEF FetchAgents, FetchConversations, Install, server, why
  <2> QED
    BY <2>1, FetchAgentsView, FetchConversationsView, InstallView
<1>2. Placed(w, k)
  BY <1>1 DEF Places
<1>3. CASE w # u
  <2>1. \A c \in Convs, x \in {"user", "reply"} : Shows(w, k, x, c)' <=> Shows(w, k, x, c)
    BY <1>1, <1>3 DEF Shows
  <2> QED
    BY <1>1, <1>2, <1>3, <2>1, PlacedFrame
<1>4. CASE w = u
  <2>1. got'[w][k] = 0
    <3>1. ~ Ready(w)
      BY <1>4, FetchAgentsView, FetchConversationsView, InstallView
    <3> QED
      BY <1>1, <1>2, <3>1 DEF Placed, Ready, Here
  <2>2. CASE FetchAgents(u) \/ Install(u)
    <3>1. \A c \in Convs, x \in {"user", "reply"} : Shows(w, k, x, c)' <=> Shows(w, k, x, c)
      BY <2>2, EntriesKept
    <3> QED
      BY <1>1, <1>2, <2>1, <3>1 DEF Placed
  <2>3. CASE FetchConversations(u)
    <3>2. \A c \in Convs : view'[w].shown[c] = Stored(c)
      BY <1>4, <2>3, FetchConversationsView
    <3>3. \A c \in Convs \ {home[k]} : <<k, "user">> \notin Stored(c) /\ <<k, "reply">> \notin Stored(c)
      BY DEF Stored
    <3>4. \A c \in Convs \ {home'[k]} : ~ Shows(w, k, "user", c)' /\ ~ Shows(w, k, "reply", c)'
      BY <1>1, <3>2, <3>3 DEF Shows
    <3> QED
      BY <2>1, <3>4 DEF Placed
  <2> QED
    BY <2>2, <2>3
<1> QED
  BY <1>3, <1>4

\* A page that joins the room has fetched what was told before, or is excused for it.
LEMMA JoinPlaced ==
  ASSUME Sound, Places, NEW u \in Windows, JoinRoom(u)
  PROVE  Places'
<1> SUFFICES ASSUME NEW w \in Windows, NEW k \in Calls, <<w, k>> \notin excused'
             PROVE  Placed(w, k)'
  BY DEF Places
<1>1. /\ UNCHANGED <<home, streams, view>> /\ excused \subseteq excused'
      /\ \A y \in Windows \ {u} : got'[y] = got[y] /\ loading'[y] = loading[y]
  BY JoinRoomParts DEF server
<1>2. Placed(w, k)
  BY <1>1 DEF Places
<1>3. \A c \in Convs, x \in {"user", "reply"} : Shows(w, k, x, c)' <=> Shows(w, k, x, c)
  BY <1>1 DEF Shows
<1>4. CASE w # u
  BY <1>1, <1>2, <1>3, <1>4, PlacedFrame
<1>5. CASE w = u
  <2>2. Here(w)' /\ got'[w][k] = sent[k]
    BY <1>5, JoinRoomParts
  <2>3. sent[k] > 0 => Has(view[w], k)
    BY <1>5, JoinRoomParts
  <2>4. sent[k] > 0 => /\ home[k] \in Convs /\ <<k, "user">> \in view[w].shown[home[k]]
                       /\ sent[k] >= 2 => <<k, "reply">> \in view[w].shown[home[k]]
    BY <2>3, ToldHome DEF Has
  <2>5. PICK n \in 0 .. 3 : n = sent[k]
    BY ToldHome
  <2>6. /\ n >= 1 => <<k, "user">> \in view'[w].shown[home'[k]]
        /\ n = 2 => <<k, "reply">> \in view'[w].shown[home'[k]]
        /\ n = 3 => <<k, "reply">> \in view'[w].shown[home'[k]]
    BY <1>1, <2>4, <2>5
  <2>7. \A c \in Convs \ {home'[k]} : ~ Shows(w, k, "user", c)' /\ ~ Shows(w, k, "reply", c)'
    BY <1>1, <1>2, <1>3 DEF Placed
  <2> QED
    BY <2>2, <2>5, <2>6, <2>7 DEF Placed, Shows
<1> QED
  BY <1>4, <1>5

LEMMA ReloadPlaced ==
  ASSUME Sound, Places, NEW u \in Windows, Reload(u)
  PROVE  Places'
<1> SUFFICES ASSUME NEW w \in Windows, NEW k \in Calls, <<w, k>> \notin excused'
             PROVE  Placed(w, k)'
  BY DEF Places
<1>1. /\ home' = home /\ streams' = {s \in streams : s[1] # u}
      /\ excused' = {x \in excused : x[1] # u}
  BY DEF Reload, server
<1>2. CASE w = u
  <2>1. got'[w][k] = 0 /\ \A c \in Convs : view'[w].shown[c] = {}
    BY <1>2, ReloadView
  <2> QED
    BY <2>1 DEF Placed, Shows
<1>3. CASE w # u
  <2>1. Placed(w, k)
    BY <1>1, <1>3 DEF Places
  <2>2. view'[w] = view[w] /\ loading'[w] = loading[w] /\ got'[w] = got[w]
    BY <1>3, ReloadView
  <2>3. <<w, k>> \in streams => <<w, k>> \in streams'
    BY <1>1, <1>3
  <2>4. \A c \in Convs, x \in {"user", "reply"} : Shows(w, k, x, c)' <=> Shows(w, k, x, c)
    BY <2>2 DEF Shows
  <2> QED
    BY <1>1, <2>1, <2>2, <2>3, <2>4, PlacedFrame
<1> QED
  BY <1>2, <1>3

\* A window that has the agent's conversation right has the message's conversation for it.
LEMMA RightConversation ==
  ASSUME Sound, Pointers, NEW w \in Windows, NEW k \in Calls, Here(w), sent[k] > 0,
         <<w, call[k].a>> \notin doubt \cup cleared, at[call[k].a] = home[k],
         OpenFor(w, call[k].a) \ {k} = {}
  PROVE  Conversation(view[w], call[k].a) = home[k] /\ home[k] \in Convs /\ home[k] # None
<1>a. PICK a \in Agents : a = call[k].a
  BY CallFields DEF Sound
<1>1. Agreed(w, a) /\ home[k] \in Convs /\ home[k] # None
  BY <1>a, ToldHome DEF Pointers
<1>2. call[k].at \in {"stored", "done"} /\ call[k].at # "attached"
  BY <1>1 DEF Sound, Begun
<1>b. Base(w, a) = at[a]
  BY <1>a DEF Base
<1>3. view[w].points[a] = at[a]
  <2>1. CASE OnPage(k, w, a)
    <3>1. call[k].kind # "attach"
      BY <1>2, <2>1 DEF OnPage, Sound, Shaped
    <3> QED
      BY <1>1, <1>2, <1>b, <2>1, <3>1 DEF Agreed, Follows
  <2>2. CASE ~ OnPage(k, w, a)
    <3>1. \A j \in Calls : ~ OnPage(j, w, a)
      BY <1>a, <2>2 DEF OpenFor, OnPage, Open
    <3> QED
      BY <1>1, <1>b, <3>1 DEF Agreed, Here
  <2> QED
    BY <2>1, <2>2
<1>4. at[a] \in view[w].known
  BY <1>a, <1>1 DEF Agreed, Here
<1> QED
  BY <1>a, <1>1, <1>3, <1>4 DEF Conversation

\* What an event adds is its own message, and it takes only temporary messages away.
LEMMA ReceiveShows ==
  ASSUME Sound, NEW u \in Windows, NEW j \in Calls, Receive(u, j),
         NEW w \in Windows, NEW k \in Calls, NEW x \in {"user", "reply"}, NEW d \in Convs
  PROVE  /\ Shows(w, k, x, d) => Shows(w, k, x, d)'
         /\ Shows(w, k, x, d)' => \/ Shows(w, k, x, d)
                                  \/ w = u /\ k = j /\ d = Conversation(view[w], call[k].a)
<1>a. PICK c : c = Conversation(view[u], call[j].a)
  OBVIOUS
<1>b. PICK S, T : S = view[w].shown[d] /\ T = view'[w].shown[d]
  OBVIOUS
<1>1. \/ T = S
      \/ w = u /\ d = c /\ \E y \in {"user", "reply"} : T = S \cup {<<j, y>>}
      \/ w = u /\ d = c /\ \E e \in S : e[2] = "temp" /\ T = (S \ {e}) \cup {<<j, "user">>}
  <2>1. CASE w # u
    BY <1>b, <2>1, ReceiveView
  <2>2. CASE w = u
    <3>1. \/ view' = view
          \/ /\ c \in Convs /\ \A e \in Convs \ {c} : view'[u].shown[e] = view[u].shown[e]
             /\ Placing(view[u], view'[u], c, j)
          \/ /\ c \in Convs /\ \A e \in Convs \ {c} : view'[u].shown[e] = view[u].shown[e]
             /\ view'[u].shown[c] = view[u].shown[c] \cup {<<j, "reply">>}
      BY <1>a, ReceiveView
    <3>2. CASE view' = view
      BY <1>b, <3>2
    <3>3. CASE /\ \A e \in Convs \ {c} : view'[u].shown[e] = view[u].shown[e]
               /\ Placing(view[u], view'[u], c, j)
      BY <1>b, <2>2, <3>3 DEF Placing, Temps
    <3>4. CASE /\ \A e \in Convs \ {c} : view'[u].shown[e] = view[u].shown[e]
               /\ view'[u].shown[c] = view[u].shown[c] \cup {<<j, "reply">>}
      BY <1>b, <2>2, <3>4
    <3> QED
      BY <3>1, <3>2, <3>3, <3>4
  <2> QED
    BY <2>1, <2>2
<1>2. <<k, x>>[2] # "temp"
  OBVIOUS
<1>3. /\ <<k, x>> \in S => <<k, x>> \in T
      /\ <<k, x>> \in T => <<k, x>> \in S \/ (w = u /\ d = c /\ k = j)
  BY <1>1, <1>2
<1> QED
  BY <1>a, <1>b, <1>3 DEF Shows

LEMMA ReceivePlaced ==
  ASSUME Sound, Pointers, Places, NEW u \in Windows, NEW j \in Calls, Receive(u, j)
  PROVE  Places'
<1> SUFFICES ASSUME NEW w \in Windows, NEW k \in Calls, <<w, k>> \notin excused'
             PROVE  Placed(w, k)'
  BY DEF Places
<1>1. /\ home' = home /\ loading' = loading /\ excused \subseteq excused' /\ call' = call
      /\ Here(u) /\ got[u][j] < sent[j]
      /\ got' = [got EXCEPT ![u][j] = got[u][j] + 1]
  BY DEF Receive, server
<1>2. Placed(w, k)
  BY <1>1 DEF Places
<1>3. CASE <<w, k>> # <<u, j>>
  <2>1. got'[w][k] = got[w][k]
    BY <1>1, <1>3 DEF Sound, EventType
  <2>2. <<w, k>> \in streams => <<w, k>> \in streams'
    BY <1>3 DEF Receive
  <2>3. \A c \in Convs, x \in {"user", "reply"} : Shows(w, k, x, c)' <=> Shows(w, k, x, c)
    BY <1>3, ReceiveShows
  <2> QED
    BY <1>1, <1>2, <2>1, <2>2, <2>3, PlacedFrame
<1>4. CASE w = u /\ k = j
  <2>a. PICK n \in 0 .. 2 : n = got[w][k]
    BY <1>1, <1>4, ToldHome
  <2>b. PICK h : h = home[k]
    OBVIOUS
  <2>1. /\ <<w, call[k].a>> \notin doubt \cup cleared /\ at[call[k].a] = h
        /\ OpenFor(w, call[k].a) \ {k} = {}
    BY <1>4, <2>b DEF Receive
  <2>2. sent[k] > 0
    BY <1>1, <1>4, <2>a, ToldHome
  <2>3. Conversation(view[w], call[k].a) = h /\ h \in Convs /\ h # None
    BY <1>1, <1>4, <2>b, <2>1, <2>2, RightConversation
  <2>4. \A c \in Convs \ {h} : ~ Shows(w, k, "user", c)' /\ ~ Shows(w, k, "reply", c)'
    BY <1>2, <2>b, <2>3, ReceiveShows DEF Placed
  <2>5. got'[w][k] = n + 1
    BY <1>1, <1>4, <2>a DEF Sound, EventType
  <2>6. (\A x \in {"user", "reply"} : Shows(w, k, x, h) => Shows(w, k, x, h)')
    BY <2>3, ReceiveShows
  <2>c. \/ n = 1 \/ (n = 2 /\ <<w, k>> \notin streams)
        \/ n = 0 /\ Placing(view[w], view'[w], h, k)
        \/ n = 2 /\ view'[w].shown[h] = view[w].shown[h] \cup {<<k, "reply">>}
    <3>1. Receive(w, k)
      BY <1>4
    <3> QED
      BY <2>a, <2>3, <3>1, ReceiveView
  <2>7. Shows(w, k, "user", h)'
    <3>1. CASE n = 0
      <4>1. Placing(view[w], view'[w], h, k)
        BY <2>c, <3>1
      <4> QED
        BY <4>1 DEF Placing, Shows
    <3>2. CASE n # 0
      <4>1. Shows(w, k, "user", h)
        BY <1>2, <2>a, <2>b, <3>2 DEF Placed
      <4> QED
        BY <2>6, <4>1
    <3> QED
      BY <3>1, <3>2
  <2>8. n = 1 => <<w, k>> \in streams'
    BY <1>4, <2>a DEF Receive
  <2>9. n = 2 => Shows(w, k, "reply", h)'
    <3>1. CASE n = 2 /\ <<w, k>> \in streams
      <4>1. view'[w].shown[h] = view[w].shown[h] \cup {<<k, "reply">>}
        BY <2>c, <3>1
      <4> QED
        BY <4>1 DEF Shows
    <3>2. CASE n = 2 /\ <<w, k>> \notin streams
      <4>1. Shows(w, k, "reply", h)
        BY <1>2, <2>a, <2>b, <3>2 DEF Placed
      <4> QED
        BY <2>6, <4>1
    <3> QED
      BY <3>1, <3>2
  <2>10. Here(w)'
    BY <1>1, <1>4 DEF Here
  <2>11. /\ got'[w][k] = 2 => <<w, k>> \in streams'
         /\ got'[w][k] = 3 => Shows(w, k, "reply", h)'
    BY <2>5, <2>8, <2>9
  <2> QED
    BY <1>1, <2>b, <2>4, <2>7, <2>10, <2>11 DEF Placed
<1> QED
  BY <1>3, <1>4

LEMMA PlacesInit == Init => Places
<1> SUFFICES ASSUME Init, NEW w \in Windows, NEW k \in Calls PROVE Placed(w, k)
  BY DEF Places
<1>1. home = [j \in Calls |-> None] /\ replies = {} /\ sent = [j \in Calls |-> 0]
      /\ got = [u \in Windows |-> sent] /\ view = [u \in Windows |-> AsStored]
  BY DEF Init
<1>2. \A c \in Convs : view[w].shown[c] = Stored(c)
  BY <1>1, SoundInit, StoredView DEF Sound
<1>3. None \notin Convs
  BY ConversationAssumption DEF ConversationAssumption
<1>4. \A c \in Convs : Stored(c) = {}
  BY <1>1, <1>3 DEF Stored
<1>5. got[w][k] = 0
  BY <1>1
<1> QED
  BY <1>2, <1>4, <1>5 DEF Placed, Shows

LEMMA PlacesStep ==
  ASSUME Sound, Pointers, Places, [Next]_vars
  PROVE  Places'
<1>1. CASE UNCHANGED vars
  <2>1. UNCHANGED <<home, got, view, streams, loading, excused>>
    BY <1>1 DEF vars, server, window, why
  <2> SUFFICES ASSUME NEW w \in Windows, NEW k \in Calls, <<w, k>> \notin excused'
               PROVE  Placed(w, k)'
    BY DEF Places
  <2>2. Placed(w, k)
    BY <2>1 DEF Places
  <2> QED
    BY <2>1, <2>2, PlacedFrame DEF Shows
<1>2. ASSUME NEW k \in Calls, NEW u \in Windows, NEW b \in Agents, NEW t \in Texts,
             \/ CreateNewSession(k, u, b, t) \/ SendMessage(k, u, b, t)
             \/ \E c \in Convs : AttachSession(k, u, b, c, t)
      PROVE  Places'
  BY <1>2, QuietPlaced
<1>3. ASSUME NEW k \in Calls,
             \/ CreateConversation(k) \/ ReadAttachment(k) \/ CommitAttachment(k)
             \/ RouteMessage(k) \/ StoreMessage(k) \/ SkipDuplicate(k) \/ RefuseMessage(k)
             \/ Stream(k) \/ StoreReply(k)
             \/ ShowCreated(k) \/ ShowAttached(k) \/ ShowSent(k) \/ Fail(k)
      PROVE  Places'
  BY <1>3, QuietPlaced, StoreMessagePlaced
<1>4. ASSUME NEW u \in Windows,
             \/ Reload(u) \/ FetchAgents(u) \/ FetchConversations(u) \/ Install(u) \/ JoinRoom(u)
             \/ \E k \in Calls : Receive(u, k)
             \/ \E a \in Agents : ClearConversation(u, a)
      PROVE  Places'
  BY <1>4, ReloadPlaced, LoadPlaced, JoinPlaced, ReceivePlaced, QuietPlaced
<1> QED
  BY <1>1, <1>2, <1>3, <1>4 DEF Next

LEMMA PlacesAlways == Spec => [](Sound /\ Pointers /\ Places)
<1>1. Init => Sound /\ Pointers /\ Places
  BY SoundInit, PointersInit, PlacesInit
<1>2. Sound /\ Pointers /\ Places /\ [Next]_vars => (Sound /\ Pointers /\ Places)'
  BY SoundStep, PointersStep, PlacesStep
<1> QED
  BY <1>1, <1>2, PTL DEF Spec

\* A message and its reply are in the conversation that the database has them in, and in no other,
\* in every window that was in the room and had the agent's conversation right, not cleared, when
\* it heard of them: an event names the agent and not the conversation, and the window takes its
\* own pointer for it.
THEOREM MessagesInPlace == Spec => []InPlace
<1>1. Sound /\ Places => InPlace
  <2> SUFFICES ASSUME Sound, Places, NEW w \in Windows, NEW k \in Calls, <<w, k>> \notin excused
               PROVE  /\ got[w][k] >= 1 => <<k, "user">> \in view[w].shown[home[k]]
                      /\ got[w][k] = 3 => <<k, "reply">> \in view[w].shown[home[k]]
                      /\ \A c \in Convs \ {home[k]} :
                           {<<k, "user">>, <<k, "reply">>} \cap view[w].shown[c] = {}
    BY DEF InPlace
  <2>1. Placed(w, k)
    BY DEF Places
  <2> QED
    BY <2>1 DEF Placed, Shows
<1> QED
  BY <1>1, PlacesAlways, PTL

-----------------------------------------------------------------------------
(* Temporary messages.                                                     *)

\* Once begun, a call keeps its window, its agent and its text.
LEMMA CallsKept ==
  ASSUME Sound, [Next]_vars, NEW j \in Calls, call[j].at # "idle"
  PROVE  /\ call'[j].at # "idle" /\ call'[j].w = call[j].w /\ call'[j].a = call[j].a
         /\ call'[j].text = call[j].text
<1> DEFINE Goal == /\ call'[j].at # "idle" /\ call'[j].w = call[j].w /\ call'[j].a = call[j].a
                   /\ call'[j].text = call[j].text
<1> SUFFICES Goal
  OBVIOUS
<1>1. ASSUME call' = call PROVE Goal
  BY <1>1
<1>2. ASSUME NEW k \in Calls, NEW x \in Chains, Turns(k, x), x.at # "idle", x.w = call[k].w,
             x.a = call[k].a, x.text = call[k].text
      PROVE  Goal
  BY <1>2 DEF Turns
<1> HIDE DEF Goal
<1>3. ASSUME NEW k \in Calls, NEW s \in Stages, s # "idle", To(k, s) PROVE Goal
  <2>1. PICK x \in Chains :
           /\ Turns(k, x) /\ x.at = s /\ x.w = call[k].w /\ x.a = call[k].a /\ x.text = call[k].text
    BY <1>3, ToTurns DEF Sound
  <2> QED
    BY <1>2, <1>3, <2>1
<1>4. ASSUME NEW k \in Calls, Finish(k) PROVE Goal
  <2>1. PICK x \in Chains :
           /\ Turns(k, x) /\ x.at = "done" /\ x.w = call[k].w /\ x.a = call[k].a
           /\ x.text = call[k].text
    BY <1>4, EndTurns DEF Sound
  <2> QED
    BY <1>2, <2>1
<1>5. ASSUME NEW k \in Calls, NEW s \in Stages, s # "idle",
             call' = [call EXCEPT ![k].at = s, ![k].saw = at[call[k].a]]
      PROVE  Goal
  <2>1. PICK x \in Chains :
           /\ Turns(k, x) /\ x.at = s /\ x.w = call[k].w /\ x.a = call[k].a /\ x.text = call[k].text
    BY <1>5, SeeTurns
  <2> QED
    BY <1>2, <1>5, <2>1
<1>6. ASSUME UNCHANGED vars PROVE Goal
  BY <1>1, <1>6 DEF vars
<1>7. ASSUME NEW k \in Calls, NEW u \in Windows, NEW b \in Agents, NEW t \in Texts,
             \/ CreateNewSession(k, u, b, t) \/ SendMessage(k, u, b, t)
             \/ \E c \in Convs : AttachSession(k, u, b, c, t)
      PROVE  Goal
  <2>1. \E kind, c, s : Start(k, kind, u, b, c, t, s)
    BY <1>7 DEF CreateNewSession, SendMessage, AttachSession
  <2>2. call[k].at = "idle" /\ call'[j] = call[j]
    <3>1. PICK y : call[k].at = "idle" /\ call' = [call EXCEPT ![k] = y]
      BY <2>1 DEF Start
    <3>2. j # k
      BY <3>1
    <3> QED
      BY <3>1, <3>2 DEF Sound, CallType
  <2> QED
    BY <2>2 DEF Goal
<1>8. ASSUME NEW k \in Calls,
             \/ CreateConversation(k) \/ ReadAttachment(k) \/ CommitAttachment(k)
             \/ RouteMessage(k) \/ StoreMessage(k) \/ SkipDuplicate(k) \/ RefuseMessage(k)
             \/ Stream(k) \/ StoreReply(k)
             \/ ShowCreated(k) \/ ShowAttached(k) \/ ShowSent(k) \/ Fail(k)
      PROVE  Goal
  <2>a. {"created", "attached", "read", "refused", "routed", "stored", "attach", "send"} \subseteq Stages
    BY DEF Stages
  <2>1. CASE CreateConversation(k)
    <3>1. PICK x \in Chains :
             /\ Turns(k, x) /\ x.at = "created" /\ x.w = call[k].w /\ x.a = call[k].a
             /\ x.text = call[k].text
      BY <2>1, CreateTurns
    <3> QED
      BY <1>2, <3>1
  <2>2. CASE ReadAttachment(k) \/ RouteMessage(k)
    <3>1. \E s \in {"attached", "read", "routed"} :
            call' = [call EXCEPT ![k].at = s, ![k].saw = at[call[k].a]]
      BY <2>2 DEF ReadAttachment, RouteMessage
    <3> QED
      BY <1>5, <2>a, <3>1
  <2>3. CASE \/ CommitAttachment(k) \/ StoreMessage(k) \/ SkipDuplicate(k) \/ RefuseMessage(k)
             \/ ShowCreated(k) \/ ShowAttached(k) \/ ShowSent(k)
    <3>1. Finish(k) \/ \E s \in {"attached", "refused", "stored", "attach", "send"} : To(k, s)
      BY <2>3 DEF CommitAttachment, StoreMessage, SkipDuplicate, RefuseMessage, ShowCreated,
         ShowAttached, ShowSent
    <3> QED
      BY <1>3, <1>4, <2>a, <3>1
  <2>4. CASE Stream(k) \/ StoreReply(k)
    BY <1>1, <2>4 DEF Stream, StoreReply
  <2>5. CASE Fail(k)
    <3>1. CASE call' = [call EXCEPT ![k] = Ended(k)]
      BY <1>4, <3>1 DEF Finish
    <3>2. CASE Pending(k) /\ call' = [call EXCEPT ![k].page = FALSE]
      <4>1. PICK x \in Chains :
              /\ Turns(k, x) /\ x.at = call[k].at /\ x.w = call[k].w /\ x.a = call[k].a
              /\ x.text = call[k].text
        BY <3>2, LeaveTurns DEF Sound
      <4> QED
        BY <1>2, <3>2, <4>1 DEF Pending
    <3> QED
      BY <2>5, <3>1, <3>2 DEF Fail
  <2> QED
    BY <1>8, <2>1, <2>2, <2>3, <2>4, <2>5
<1>9. ASSUME NEW u \in Windows,
             \/ Reload(u) \/ FetchAgents(u) \/ FetchConversations(u) \/ Install(u) \/ JoinRoom(u)
             \/ \E k \in Calls : Receive(u, k)
             \/ \E b \in Agents : ClearConversation(u, b)
      PROVE  Goal
  <2>1. CASE Reload(u)
    BY <2>1, ReloadCalls DEF Goal
  <2>2. CASE \/ FetchAgents(u) \/ FetchConversations(u) \/ Install(u) \/ JoinRoom(u)
             \/ \E k \in Calls : Receive(u, k)
    BY <1>1, <2>2 DEF FetchAgents, FetchConversations, Install, JoinRoom, Receive
  <2>3. CASE \E b \in Agents : ClearConversation(u, b)
    BY <1>1, <2>3, ClearView
  <2> QED
    BY <1>9, <2>1, <2>2, <2>3
<1> QED
  BY <1>6, <1>7, <1>8, <1>9 DEF Next

\* A temporary message that a step adds is that of the call that the card sends.
LEMMA TempsKept ==
  ASSUME Sound, [Next]_vars, NEW u \in Windows, NEW j \in Calls, NEW d \in Convs,
         Shows(u, j, "temp", d)'
  PROVE  \/ Shows(u, j, "temp", d)
         \/ \E a \in Agents, t \in Texts :
              SendMessage(j, u, a, t) /\ d = Conversation(view[u], a) /\ d # None
         \/ ShowAttached(j) /\ call[j].kind = "send" /\ u = call[j].w /\ d = call[j].c
<1> DEFINE Goal ==
      \/ Shows(u, j, "temp", d)
      \/ \E a \in Agents, t \in Texts :
           SendMessage(j, u, a, t) /\ d = Conversation(view[u], a) /\ d # None
      \/ ShowAttached(j) /\ call[j].kind = "send" /\ u = call[j].w /\ d = call[j].c
<1> SUFFICES Goal
  OBVIOUS
<1>1. ASSUME view'[u].shown[d] = view[u].shown[d] PROVE Goal
  BY <1>1 DEF Shows
<1>2. ASSUME NEW k \in Calls, NEW w \in Windows, NEW a \in Agents, NEW t \in Texts, SendMessage(k, w, a, t)
      PROVE  Goal
  <2>1. PICK c : c = Conversation(view[w], a)
    OBVIOUS
  <2>2. /\ \A y \in Windows \ {w} : view'[y] = view[y]
        /\ c = None => view'[w] = view[w]
        /\ c # None =>
            /\ c \in Convs
            /\ \A e \in Convs \ {c} : view'[w].shown[e] = view[w].shown[e]
            /\ view'[w].shown[c] \in {view[w].shown[c], view[w].shown[c] \cup {<<k, "temp">>}}
    BY <1>2, <2>1, SendMessageView
  <2>3. CASE u = w /\ d = c /\ c # None /\ view'[w].shown[c] = view[w].shown[c] \cup {<<k, "temp">>}
    <3>1. <<j, "temp">> \in view[u].shown[d] \/ j = k
      BY <2>3 DEF Shows
    <3> QED
      BY <1>2, <2>1, <2>3, <3>1 DEF Shows
  <2>4. CASE ~ (u = w /\ d = c /\ c # None /\ view'[w].shown[c] = view[w].shown[c] \cup {<<k, "temp">>})
    BY <1>1, <2>2, <2>4
  <2> QED
    BY <2>3, <2>4
<1>3. ASSUME NEW k \in Calls, ShowAttached(k) PROVE Goal
  <2>1. PICK w \in Windows, c \in Convs : w = call[k].w /\ c = call[k].c
    BY <1>3, ShowAttachedView
  <2>2. /\ \A y \in Windows \ {w} : view'[y] = view[y]
        /\ \/ view' = view
           \/ view'[w].shown = view[w].shown
           \/ /\ call[k].kind = "send"
              /\ \A e \in Convs \ {c} : view'[w].shown[e] = view[w].shown[e]
              /\ view'[w].shown[c] \in {view[w].shown[c], view[w].shown[c] \cup {<<k, "temp">>}}
    BY <1>3, <2>1, ShowAttachedView
  <2>3. CASE /\ u = w /\ d = c /\ call[k].kind = "send"
             /\ view'[w].shown[c] = view[w].shown[c] \cup {<<k, "temp">>}
    <3>1. <<j, "temp">> \in view[u].shown[d] \/ j = k
      BY <2>3 DEF Shows
    <3> QED
      BY <1>3, <2>1, <2>3, <3>1 DEF Shows
  <2>4. CASE ~ /\ u = w /\ d = c /\ call[k].kind = "send"
               /\ view'[w].shown[c] = view[w].shown[c] \cup {<<k, "temp">>}
    <3>1. view'[u].shown[d] = view[u].shown[d]
      BY <2>2, <2>4
    <3> QED
      BY <1>1, <3>1
  <2> QED
    BY <2>3, <2>4
<1> HIDE DEF Goal
<1>4. ASSUME NEW k \in Calls, NEW w \in Windows, NEW a \in Agents, NEW t \in Texts,
             CreateNewSession(k, w, a, t) \/ \E c \in Convs : AttachSession(k, w, a, c, t)
      PROVE  Goal
  <2>1. CASE CreateNewSession(k, w, a, t)
    BY <1>1, <2>1 DEF CreateNewSession
  <2>2. ASSUME NEW c \in Convs, AttachSession(k, w, a, c, t) PROVE Goal
    BY <1>1, <2>2, AttachSessionView
  <2> QED
    BY <1>4, <2>1, <2>2
<1>5. ASSUME NEW k \in Calls,
              \/ CreateConversation(k) \/ ReadAttachment(k) \/ CommitAttachment(k)
              \/ RouteMessage(k) \/ StoreMessage(k) \/ SkipDuplicate(k) \/ RefuseMessage(k)
              \/ Stream(k) \/ StoreReply(k) \/ ShowSent(k)
      PROVE  Goal
  <2>1. CASE CreateConversation(k)
    BY <1>1, <2>1, CreateTurns
  <2>2. CASE CommitAttachment(k)
    BY <1>1, <2>2, CommitParts
  <2>3. CASE \/ ReadAttachment(k) \/ RouteMessage(k) \/ StoreMessage(k) \/ SkipDuplicate(k)
             \/ RefuseMessage(k) \/ Stream(k) \/ StoreReply(k) \/ ShowSent(k)
    <3>1. view' = view
      BY <2>3 DEF ReadAttachment, RouteMessage, StoreMessage, SkipDuplicate, RefuseMessage, Stream,
                  StoreReply, ShowSent, window
    <3> QED
      BY <1>1, <3>1
  <2> QED
    BY <1>5, <2>1, <2>2, <2>3
<1>6. ASSUME NEW k \in Calls, ShowCreated(k) \/ Fail(k) PROVE Goal
  <2>1. PICK w \in Windows : w = call[k].w
    BY CallFields DEF Sound
  <2>2. (\A y \in Windows \ {w} : view'[y] = view[y]) /\ view'[w].shown = view[w].shown
    BY <1>6, <2>1, ShowCreatedView, FailView
  <2> QED
    BY <1>1, <2>2
<1>7. ASSUME NEW w \in Windows,
             FetchAgents(w) \/ Install(w) \/ JoinRoom(w) \/ \E a \in Agents : ClearConversation(w, a)
      PROVE  Goal
  BY <1>1, <1>7, FetchAgentsView, InstallView, JoinRoomParts, ClearView
<1>8. ASSUME NEW w \in Windows, FetchConversations(w) PROVE Goal
  <2>1. CASE u = w
    <3>1. view'[u].shown[d] = Stored(d)
      BY <1>8, <2>1, FetchConversationsView
    <3> QED
      BY <3>1 DEF Shows, Stored
  <2>2. CASE u # w
    BY <1>1, <1>8, <2>2, FetchConversationsView
  <2> QED
    BY <2>1, <2>2
<1>9. ASSUME NEW w \in Windows, Reload(w) PROVE Goal
  <2>1. CASE u = w
    BY <1>9, <2>1, ReloadView DEF Shows
  <2>2. CASE u # w
    BY <1>1, <1>9, <2>2, ReloadView
  <2> QED
    BY <2>1, <2>2
<1>10. ASSUME NEW w \in Windows, NEW k \in Calls, Receive(w, k) PROVE Goal
  <2>1. PICK c : c = Conversation(view[w], call[k].a)
    OBVIOUS
  <2>2. /\ \A y \in Windows \ {w} : view'[y] = view[y]
        /\ \/ view' = view
           \/ /\ c \in Convs /\ \A e \in Convs \ {c} : view'[w].shown[e] = view[w].shown[e]
              /\ \/ Placing(view[w], view'[w], c, k)
                 \/ view'[w].shown[c] = view[w].shown[c] \cup {<<k, "reply">>}
    BY <1>10, <2>1, ReceiveView
  <2>3. \/ view'[u].shown[d] = view[u].shown[d]
        \/ \E y \in {"user", "reply"} : view'[u].shown[d] \subseteq view[u].shown[d] \cup {<<k, y>>}
    BY <2>2 DEF Placing
  <2>4. <<j, "temp">> \in view'[u].shown[d] => <<j, "temp">> \in view[u].shown[d]
    BY <2>3
  <2> QED
    BY <2>4 DEF Shows, Goal
<1>11. ASSUME UNCHANGED vars PROVE Goal
  BY <1>1, <1>11 DEF vars, window
<1> QED
  BY <1>2, <1>3, <1>4, <1>5, <1>6, <1>7, <1>8, <1>9, <1>10, <1>11 DEF Next

\* A call moves by a step of its own, or loses its page to a page that loads.
LEMMA CallMoves ==
  ASSUME Sound, [Next]_vars, NEW j \in Calls
  PROVE  \/ call'[j] = call[j]
         \/ \E u \in Windows, b \in Agents, t \in Texts :
              \/ CreateNewSession(j, u, b, t) \/ SendMessage(j, u, b, t)
              \/ \E c \in Convs : AttachSession(j, u, b, c, t)
         \/ CreateConversation(j) \/ ReadAttachment(j) \/ CommitAttachment(j)
         \/ RouteMessage(j) \/ StoreMessage(j) \/ SkipDuplicate(j) \/ RefuseMessage(j)
         \/ ShowCreated(j) \/ ShowAttached(j) \/ ShowSent(j) \/ Fail(j)
         \/ \E u \in Windows : Reload(u)
<1>a. call \in [Calls -> Chains]
  BY DEF Sound, CallType
<1>1. ASSUME NEW k \in Calls, k # j,
             \/ \E y : call' = [call EXCEPT ![k] = y]
             \/ \E s : call' = [call EXCEPT ![k].at = s]
             \/ \E s, o : call' = [call EXCEPT ![k].at = s, ![k].saw = o]
             \/ \E s, o : call' = [call EXCEPT ![k].at = s, ![k].c = o]
             \/ call' = [call EXCEPT ![k].page = FALSE]
      PROVE  call'[j] = call[j]
  BY <1>a, <1>1
<1>2. ASSUME NEW k \in Calls, k # j, NEW u \in Windows, NEW b \in Agents, NEW t \in Texts,
             \/ CreateNewSession(k, u, b, t) \/ SendMessage(k, u, b, t)
             \/ \E c \in Convs : AttachSession(k, u, b, c, t)
      PROVE  call'[j] = call[j]
  <2>1. \E y : call' = [call EXCEPT ![k] = y]
    <3>1. \E kind, c, s : Start(k, kind, u, b, c, t, s)
      BY <1>2 DEF CreateNewSession, SendMessage, AttachSession
    <3> QED
      BY <3>1 DEF Start
  <2> QED
    BY <1>1, <1>2, <2>1
<1>3. ASSUME NEW k \in Calls, k # j,
             \/ CreateConversation(k) \/ ReadAttachment(k) \/ CommitAttachment(k)
             \/ RouteMessage(k) \/ StoreMessage(k) \/ SkipDuplicate(k) \/ RefuseMessage(k)
             \/ ShowCreated(k) \/ ShowAttached(k) \/ ShowSent(k) \/ Fail(k)
      PROVE  call'[j] = call[j]
  <2>1. CASE CreateConversation(k)
    <3>1. \E s, o : call' = [call EXCEPT ![k].at = s, ![k].c = o]
      BY <2>1 DEF CreateConversation
    <3> QED
      BY <1>1, <1>3, <3>1
  <2>2. CASE ReadAttachment(k) \/ RouteMessage(k)
    <3>1. \E s, o : call' = [call EXCEPT ![k].at = s, ![k].saw = o]
      BY <2>2 DEF ReadAttachment, RouteMessage
    <3> QED
      BY <1>1, <1>3, <3>1
  <2>3. CASE \/ CommitAttachment(k) \/ StoreMessage(k) \/ SkipDuplicate(k) \/ RefuseMessage(k)
             \/ ShowCreated(k) \/ ShowAttached(k) \/ ShowSent(k)
    <3>1. Finish(k) \/ \E s : To(k, s)
      BY <2>3 DEF CommitAttachment, StoreMessage, SkipDuplicate, RefuseMessage, ShowCreated,
         ShowAttached, ShowSent
    <3>2. (\E y : call' = [call EXCEPT ![k] = y]) \/ \E s : call' = [call EXCEPT ![k].at = s]
      BY <3>1 DEF Finish, To
    <3> QED
      BY <1>1, <1>3, <3>2
  <2>4. CASE Fail(k)
    <3>1. \/ \E y : call' = [call EXCEPT ![k] = y]
          \/ call' = [call EXCEPT ![k].page = FALSE]
      BY <2>4 DEF Fail
    <3> QED
      BY <1>1, <1>3, <3>1
  <2> QED
    BY <1>3, <2>1, <2>2, <2>3, <2>4
<1>4. ASSUME \/ UNCHANGED vars
             \/ \E k \in Calls : Stream(k) \/ StoreReply(k)
             \/ \E u \in Windows :
                  \/ FetchAgents(u) \/ FetchConversations(u) \/ Install(u) \/ JoinRoom(u)
                  \/ \E k \in Calls : Receive(u, k)
                  \/ \E a \in Agents : ClearConversation(u, a)
      PROVE  call'[j] = call[j]
  BY <1>4, ClearView, JoinRoomParts
     DEF vars, Stream, StoreReply, FetchAgents, FetchConversations, Install, Receive
<1> QED
  BY <1>2, <1>3, <1>4 DEF Next

\* Doubts and excuses last until the page loads again.
LEMMA WhyKept ==
  ASSUME Sound, [Next]_vars, NEW w \in Windows, ~ Reload(w)
  PROVE  /\ \A k \in Calls : <<w, k>> \in excused => <<w, k>> \in excused'
         /\ \A a \in Agents : <<w, a>> \in doubt => <<w, a>> \in doubt'
<1> DEFINE Goal == /\ \A k \in Calls : <<w, k>> \in excused => <<w, k>> \in excused'
                   /\ \A a \in Agents : <<w, a>> \in doubt => <<w, a>> \in doubt'
<1> SUFFICES Goal
  OBVIOUS
<1>1. ASSUME doubt \subseteq doubt', excused \subseteq excused' PROVE Goal
  BY <1>1
<1>2. ASSUME NEW u \in Windows, Reload(u) PROVE Goal
  BY <1>2 DEF Reload
<1> HIDE DEF Goal
<1>3. ASSUME NEW k \in Calls, NEW u \in Windows, NEW b \in Agents, NEW t \in Texts,
             \/ CreateNewSession(k, u, b, t) \/ SendMessage(k, u, b, t)
             \/ \E c \in Convs : AttachSession(k, u, b, c, t)
      PROVE  Goal
  <2>1. \E kind, c, s : Start(k, kind, u, b, c, t, s)
    BY <1>3 DEF CreateNewSession, SendMessage, AttachSession
  <2>2. doubt \subseteq doubt' /\ excused \subseteq excused'
    BY <2>1 DEF Start, why
  <2> QED
    BY <1>1, <2>2
<1>4. ASSUME NEW k \in Calls,
             \/ CreateConversation(k) \/ ReadAttachment(k) \/ CommitAttachment(k)
             \/ RouteMessage(k) \/ StoreMessage(k) \/ SkipDuplicate(k) \/ RefuseMessage(k)
             \/ Stream(k) \/ StoreReply(k)
             \/ ShowCreated(k) \/ ShowAttached(k) \/ ShowSent(k) \/ Fail(k)
      PROVE  Goal
  <2>1. CASE CommitAttachment(k)
    BY <1>1, <2>1, CommitParts
  <2>2. CASE StoreMessage(k)
    <3>1. doubt \subseteq doubt' /\ excused' = excused
      BY <2>2, StoreParts
    <3> QED
      BY <1>1, <3>1
  <2>3. CASE \/ CreateConversation(k) \/ ReadAttachment(k)
             \/ RouteMessage(k) \/ SkipDuplicate(k) \/ RefuseMessage(k)
             \/ Stream(k) \/ StoreReply(k) \/ ShowCreated(k) \/ ShowAttached(k) \/ ShowSent(k) \/ Fail(k)
    <3>1. doubt \subseteq doubt' /\ excused \subseteq excused'
      BY <2>3, FailView DEF CreateConversation, ReadAttachment, RouteMessage, SkipDuplicate,
         RefuseMessage, Stream, StoreReply, ShowCreated, ShowAttached, ShowSent, why
    <3> QED
      BY <1>1, <3>1
  <2> QED
    BY <1>4, <2>1, <2>2, <2>3
<1>5. ASSUME NEW u \in Windows,
             \/ FetchAgents(u) \/ FetchConversations(u) \/ Install(u) \/ JoinRoom(u)
             \/ \E k \in Calls : Receive(u, k)
             \/ \E a \in Agents : ClearConversation(u, a)
      PROVE  Goal
  <2>1. doubt \subseteq doubt' /\ excused \subseteq excused'
    BY <1>5, JoinRoomParts, ClearView DEF FetchAgents, FetchConversations, Install, Receive, why
  <2> QED
    BY <1>1, <2>1
<1>6. ASSUME UNCHANGED vars PROVE Goal
  BY <1>1, <1>6 DEF vars, why
<1> QED
  BY <1>2, <1>3, <1>4, <1>5, <1>6 DEF Next

\* A place is given once, when the message is stored.
LEMMA HomeKept ==
  ASSUME Sound, [Next]_vars, NEW k \in Calls
  PROVE  \/ home'[k] = home[k]
         \/ home[k] = None /\ home'[k] \in Convs /\ home'[k] # None /\ StoreMessage(k)
<1>1. ASSUME NEW j \in Calls, StoreMessage(j)
      PROVE  \/ home'[k] = home[k]
             \/ home[k] = None /\ home'[k] \in Convs /\ home'[k] # None /\ k = j
  <2>1. PICK c \in Convs : home' = [home EXCEPT ![j] = c] /\ call[j].at = "routed"
    BY <1>1, StoreParts
  <2>2. home[j] = None /\ c # None /\ home \in [Calls -> made \cup {None}]
    BY <2>1, ConversationAssumption DEF Sound, Begun, ServerType, ConversationAssumption
  <2> QED
    BY <2>1, <2>2
<1>2. ASSUME NEW j \in Calls, NEW u \in Windows, NEW b \in Agents, NEW t \in Texts,
             \/ CreateNewSession(j, u, b, t) \/ SendMessage(j, u, b, t)
             \/ \E c \in Convs : AttachSession(j, u, b, c, t)
      PROVE  home' = home
  BY <1>2 DEF CreateNewSession, SendMessage, AttachSession, Start, server
<1>3. ASSUME NEW j \in Calls,
             \/ CreateConversation(j) \/ ReadAttachment(j) \/ CommitAttachment(j)
             \/ RouteMessage(j) \/ SkipDuplicate(j) \/ RefuseMessage(j)
             \/ Stream(j) \/ StoreReply(j)
             \/ ShowCreated(j) \/ ShowAttached(j) \/ ShowSent(j) \/ Fail(j)
      PROVE  home' = home
  BY <1>3 DEF CreateConversation, ReadAttachment, CommitAttachment, RouteMessage, SkipDuplicate,
     RefuseMessage, Stream, StoreReply, ShowCreated, ShowAttached, ShowSent, Fail, server
<1>4. ASSUME NEW u \in Windows,
             \/ Reload(u) \/ FetchAgents(u) \/ FetchConversations(u) \/ Install(u) \/ JoinRoom(u)
             \/ \E j \in Calls : Receive(u, j)
             \/ \E a \in Agents : ClearConversation(u, a)
      PROVE  home' = home
  BY <1>4, ClearView DEF Reload, FetchAgents, FetchConversations, Install, JoinRoom, Receive, server
<1>5. ASSUME UNCHANGED vars PROVE home' = home
  BY <1>5 DEF vars, server
<1> QED
  BY <1>1, <1>2, <1>3, <1>4, <1>5 DEF Next

\* Only a call of its own page attaches an agent without putting the window in doubt.
LEMMA AtKept ==
  ASSUME Sound, [Next]_vars, NEW w \in Windows, NEW a \in Agents, <<w, a>> \notin doubt'
  PROVE  \/ at'[a] = at[a]
         \/ \E k \in Calls : OnPage(k, w, a) /\ Pending(k) /\ call[k].at = "read"
<1>1. ASSUME NEW k \in Calls, CommitAttachment(k)
      PROVE  at'[a] = at[a] \/ (OnPage(k, w, a) /\ Pending(k) /\ call[k].at = "read")
  <2>a. PICK b \in Agents : b = call[k].a
    BY CallFields DEF Sound
  <2>b. PICK c : c = call[k].c
    OBVIOUS
  <2>1. /\ call[k].at = "read"
        /\ \/ /\ at' = [at EXCEPT ![b] = c]
              /\ \A u \in Windows : u # call[k].w \/ ~ call[k].page => <<u, b>> \in doubt'
           \/ at' = at
    BY <1>1, <2>a, <2>b, CommitParts
  <2>2. CASE a # b
    BY <2>1, <2>2 DEF Sound, ServerType
  <2>3. CASE a = b
    BY <2>1, <2>3, <2>a DEF OnPage, Pending
  <2> QED
    BY <2>2, <2>3
<1>2. ASSUME NEW k \in Calls, StoreMessage(k) PROVE at'[a] = at[a]
  <2>a. PICK b \in Agents : b = call[k].a
    BY CallFields DEF Sound
  <2>1. \E c \in Convs : \/ at' = at
                         \/ at' = [at EXCEPT ![b] = c] /\ doubt' = doubt \cup (Windows \X {b})
    BY <1>2, <2>a, StoreParts
  <2> QED
    BY <2>1 DEF Sound, ServerType
<1>3. ASSUME NEW j \in Calls, NEW u \in Windows, NEW b \in Agents, NEW t \in Texts,
             \/ CreateNewSession(j, u, b, t) \/ SendMessage(j, u, b, t)
             \/ \E c \in Convs : AttachSession(j, u, b, c, t)
      PROVE  at' = at
  BY <1>3 DEF CreateNewSession, SendMessage, AttachSession, Start, server
<1>4. ASSUME NEW j \in Calls,
             \/ CreateConversation(j) \/ ReadAttachment(j)
             \/ RouteMessage(j) \/ SkipDuplicate(j) \/ RefuseMessage(j)
             \/ Stream(j) \/ StoreReply(j)
             \/ ShowCreated(j) \/ ShowAttached(j) \/ ShowSent(j) \/ Fail(j)
      PROVE  at' = at
  BY <1>4 DEF CreateConversation, ReadAttachment, RouteMessage, SkipDuplicate,
     RefuseMessage, Stream, StoreReply, ShowCreated, ShowAttached, ShowSent, Fail, server
<1>5. ASSUME NEW u \in Windows,
             \/ Reload(u) \/ FetchAgents(u) \/ FetchConversations(u) \/ Install(u) \/ JoinRoom(u)
             \/ \E j \in Calls : Receive(u, j)
             \/ \E b \in Agents : ClearConversation(u, b)
      PROVE  at' = at
  BY <1>5, ClearView DEF Reload, FetchAgents, FetchConversations, Install, JoinRoom, Receive, server
<1>6. ASSUME UNCHANGED vars PROVE at' = at
  BY <1>6 DEF vars, server
<1> QED
  BY <1>1, <1>2, <1>3, <1>4, <1>5, <1>6 DEF Next

\* A page sends a message to the conversation it shows it in, which is the agent's; a message that
\* was taken for a duplicate has no place, and the window is excused.
Sends(k) ==
  call[k].page =>
    /\ call[k].kind = "send" /\ <<call[k].w, call[k].a>> \notin doubt =>
         /\ call[k].at = "send" => call[k].c = at[call[k].a]
         /\ call[k].at = "routed" => call[k].saw = call[k].c
    /\ call[k].at = "stored" /\ home[k] = None => <<call[k].w, k>> \in excused

\* Only a call that has begun is excused, or shown by a page, and then by one that has loaded.
Marked ==
  /\ \A k \in Calls : Sends(k)
  /\ \A w \in Windows, k \in Calls : <<w, k>> \in excused => call[k].at # "idle"
  /\ \A w \in Windows, k \in Calls, c \in Convs :
       Shows(w, k, "temp", c) => call[k].at # "idle" /\ Ready(w)

LEMMA MarkedInit == Init => Marked
<1> SUFFICES ASSUME Init PROVE Marked
  OBVIOUS
<1>1. Sound
  BY SoundInit
<1>2. /\ call = [k \in Calls |-> NoCall(CHOOSE w \in Windows : TRUE, CHOOSE a \in Agents : TRUE,
                                        CHOOSE t \in Texts : TRUE)]
      /\ view = [w \in Windows |-> AsStored] /\ excused = {}
  BY DEF Init
<1>3. \A w, a, t : NoCall(w, a, t).at = "idle" /\ ~ NoCall(w, a, t).page
  BY DEF NoCall
<1>4. \A k \in Calls : ~ call[k].page
  BY <1>2, <1>3
<1>5. \A w \in Windows, k \in Calls, c \in Convs : ~ Shows(w, k, "temp", c)
  <2>1. \A w \in Windows, c \in Convs : view[w].shown[c] = Stored(c)
    BY <1>1, <1>2, StoredView DEF Sound
  <2> QED
    BY <2>1 DEF Shows, Stored
<1> QED
  BY <1>2, <1>4, <1>5 DEF Marked, Sends

\* A page is there until it loads again.
LEMMA ReadyKept ==
  ASSUME Sound, [Next]_vars, NEW w \in Windows, Ready(w), ~ Reload(w)
  PROVE  /\ Ready(w)'
         /\ \/ loading'[w] = loading[w] /\ got'[w] = got[w]
            \/ loading'[w] = loading[w] /\ \E k \in Calls : Receive(w, k)
            \/ JoinRoom(w)
<1> SUFFICES JoinRoom(w) \/ /\ loading'[w] = loading[w]
                            /\ got'[w] = got[w] \/ \E k \in Calls : Receive(w, k)
  BY JoinRoomParts DEF Ready
<1>1. ASSUME NEW k \in Calls, NEW u \in Windows, NEW b \in Agents, NEW t \in Texts,
             \/ CreateNewSession(k, u, b, t) \/ SendMessage(k, u, b, t)
             \/ \E c \in Convs : AttachSession(k, u, b, c, t)
      PROVE  loading' = loading /\ got' = got
  BY <1>1 DEF CreateNewSession, SendMessage, AttachSession, Start
<1>2. ASSUME NEW k \in Calls,
             \/ CreateConversation(k) \/ ReadAttachment(k) \/ CommitAttachment(k)
             \/ RouteMessage(k) \/ StoreMessage(k) \/ SkipDuplicate(k) \/ RefuseMessage(k)
             \/ Stream(k) \/ StoreReply(k)
             \/ ShowCreated(k) \/ ShowAttached(k) \/ ShowSent(k) \/ Fail(k)
      PROVE  loading' = loading /\ got' = got
  BY <1>2 DEF CreateConversation, ReadAttachment, CommitAttachment, RouteMessage, StoreMessage,
     SkipDuplicate, RefuseMessage, Stream, StoreReply, ShowCreated, ShowAttached, ShowSent, Fail,
     window
<1>3. ASSUME NEW u \in Windows, Reload(u) \/ FetchAgents(u) \/ FetchConversations(u) \/ Install(u)
      PROVE  u # w /\ loading'[w] = loading[w] /\ got'[w] = got[w]
  <2>1. u # w
    BY <1>3, FetchAgentsView, FetchConversationsView, InstallView
  <2>2. CASE Reload(u)
    BY <2>1, <2>2, ReloadView
  <2>3. CASE FetchAgents(u) \/ FetchConversations(u)
    BY <2>1, <2>3 DEF FetchAgents, FetchConversations, Fetched, Sound, WindowType
  <2>4. CASE Install(u)
    BY <2>1, <2>4 DEF Install, Fetched, Sound, WindowType, EventType
  <2> QED
    BY <1>3, <2>1, <2>2, <2>3, <2>4
<1>4. ASSUME NEW u \in Windows, NEW k \in Calls, Receive(u, k)
      PROVE  loading' = loading /\ (u = w \/ got'[w] = got[w])
  BY <1>4 DEF Receive, Sound, EventType
<1>5. CASE UNCHANGED vars
  BY <1>5 DEF vars, window
<1>6. ASSUME NEW u \in Windows, JoinRoom(u), u # w
      PROVE  loading'[w] = loading[w] /\ got'[w] = got[w]
  BY <1>6, JoinRoomParts
<1>7. ASSUME NEW u \in Windows, NEW a \in Agents, ClearConversation(u, a)
      PROVE  loading' = loading /\ got' = got
  BY <1>7, ClearView
<1> QED
  BY <1>1, <1>2, <1>3, <1>4, <1>5, <1>6, <1>7 DEF Next

\* What a click starts.
LEMMA ClickBegins ==
  ASSUME Sound, NEW k \in Calls, NEW u \in Windows, NEW b \in Agents, NEW t \in Texts,
         \/ CreateNewSession(k, u, b, t) \/ SendMessage(k, u, b, t)
         \/ \E c \in Convs : AttachSession(k, u, b, c, t)
  PROVE  /\ Ready(u) /\ loading' = loading /\ call[k].at = "idle"
         /\ call'[k].at \in {"attach", "create", "send"} /\ call'[k].page
         /\ call'[k].w = u /\ call'[k].a = b /\ call'[k].text = t
         /\ \A j \in Calls \ {k} : call'[j] = call[j]
         /\ UNCHANGED <<server, sent, got>>
         /\ \/ OpenFor(u, b) = {} /\ UNCHANGED <<doubt, excused>>
            \/ <<u, b>> \in doubt' /\ excused' = excused \cup ({u} \X ({k} \cup OpenFor(u, b)))
<1>1. PICK kind \in {"attach", "new", "send"}, c \in Convs \cup {None},
           s \in {"attach", "create", "send"} : Start(k, kind, u, b, c, t, s) /\ Ready(u)
  <2>1. Conversation(view[u], b) \in Convs \cup {None}
    BY DEF Conversation, Sound, WindowType, Views
  <2>2. CASE SendMessage(k, u, b, t)
    BY <2>1, <2>2 DEF SendMessage
  <2>3. CASE CreateNewSession(k, u, b, t)
    BY <2>3 DEF CreateNewSession
  <2>4. ASSUME NEW c \in Convs, AttachSession(k, u, b, c, t)
        PROVE  Start(k, "attach", u, b, c, t, "attach") /\ Ready(u)
    BY <2>4 DEF AttachSession
  <2> QED
    BY <2>2, <2>3, <2>4
<1>2. s \in Stages
  BY DEF Stages
<1>3. PICK x \in Chains :
         /\ Turns(k, x) /\ x.kind = kind /\ x.w = u /\ x.a = b /\ x.c = c /\ x.text = t
         /\ x.at = s /\ x.saw = None /\ x.page
  BY <1>1, <1>2, StartTurns
<1>4. call[k].at = "idle"
  BY <1>1 DEF Start
<1>5. /\ loading' = loading /\ UNCHANGED <<server, sent, got>>
      /\ \/ OpenFor(u, b) = {} /\ UNCHANGED <<doubt, excused>>
         \/ <<u, b>> \in doubt' /\ excused' = excused \cup ({u} \X ({k} \cup OpenFor(u, b)))
  BY <1>1 DEF Start
<1> QED
  BY <1>1, <1>3, <1>4, <1>5 DEF Turns

LEMMA ExcusesBegun ==
  ASSUME Sound, Marked, [Next]_vars, NEW w \in Windows, NEW k \in Calls, <<w, k>> \in excused'
  PROVE  call'[k].at # "idle"
<1>1. call[k].at # "idle" => call'[k].at # "idle"
  BY CallsKept
<1>2. <<w, k>> \in excused => call[k].at # "idle"
  BY DEF Marked
<1>3. excused' \subseteq excused \/ excused' = excused => call'[k].at # "idle"
  BY <1>1, <1>2
<1>4. ASSUME NEW j \in Calls, NEW u \in Windows, NEW b \in Agents, NEW t \in Texts,
             \/ CreateNewSession(j, u, b, t) \/ SendMessage(j, u, b, t)
             \/ \E c \in Convs : AttachSession(j, u, b, c, t)
      PROVE  call'[k].at # "idle"
  <2>1. /\ call'[j].at \in {"attach", "create", "send"}
        /\ \/ OpenFor(u, b) = {} /\ UNCHANGED <<doubt, excused>>
           \/ /\ <<u, b>> \in doubt'
              /\ excused' = excused \cup ({u} \X ({j} \cup OpenFor(u, b)))
    BY <1>4, ClickBegins
  <2>2. \/ <<w, k>> \in excused \/ k = j \/ k \in OpenFor(u, b)
    BY <2>1
  <2>3. k \in OpenFor(u, b) => call[k].at # "idle"
    BY DEF OpenFor, Open, Pending, Sound, Shaped
  <2> QED
    BY <1>1, <1>2, <2>1, <2>2, <2>3
<1>5. ASSUME NEW j \in Calls, SkipDuplicate(j) \/ Fail(j) PROVE call'[k].at # "idle"
  <2>1. excused' = excused \cup {<<call[j].w, j>>}
    BY <1>5, FailView DEF SkipDuplicate
  <2>2. call[j].at # "idle"
    BY <1>5 DEF SkipDuplicate, Fail, Sound, Shaped
  <2> QED
    BY <1>1, <1>2, <2>1, <2>2
<1>6. ASSUME NEW j \in Calls,
             \/ CreateConversation(j) \/ ReadAttachment(j) \/ CommitAttachment(j)
             \/ RouteMessage(j) \/ StoreMessage(j) \/ RefuseMessage(j)
             \/ Stream(j) \/ StoreReply(j) \/ ShowCreated(j) \/ ShowAttached(j) \/ ShowSent(j)
      PROVE  excused' = excused
  BY <1>6 DEF CreateConversation, ReadAttachment, CommitAttachment, RouteMessage, StoreMessage,
     RefuseMessage, Stream, StoreReply, ShowCreated, ShowAttached, ShowSent, why
<1>7. ASSUME NEW u \in Windows,
             \/ Reload(u) \/ FetchAgents(u) \/ FetchConversations(u) \/ Install(u)
             \/ \E a \in Agents : ClearConversation(u, a)
      PROVE  excused' \subseteq excused
  BY <1>7, ClearView DEF Reload, FetchAgents, FetchConversations, Install, why
<1>8. ASSUME NEW u \in Windows, NEW j \in Calls,
             \/ JoinRoom(u) /\ <<w, k>> \notin excused
             \/ Receive(u, j) /\ <<w, k>> \notin excused
      PROVE  call'[k].at # "idle"
  <2>1. sent[k] > 0
    <3>1. CASE JoinRoom(u)
      BY <1>8, <3>1, JoinRoomParts
    <3>2. CASE Receive(u, j)
      <4>1. u = w /\ j = k
        BY <1>8, <3>2 DEF Receive
      <4>2. got[w][k] < sent[k] /\ got[w][k] \in 0 .. 3 /\ sent[k] \in 0 .. 3
        BY <3>2, <4>1, ToldHome DEF Receive
      <4> QED
        BY <4>2
    <3> QED
      BY <1>8, <3>1, <3>2
  <2>2. call[k].at \in {"stored", "done"}
    BY <2>1 DEF Sound, Begun
  <2> QED
    BY <1>1, <2>2
<1>9. CASE UNCHANGED vars
  BY <1>3, <1>9 DEF vars, why
<1> QED
  BY <1>1, <1>2, <1>3, <1>4, <1>5, <1>6, <1>7, <1>8, <1>9 DEF Next

LEMMA TempsBegun ==
  ASSUME Sound, Marked, [Next]_vars, NEW w \in Windows, NEW k \in Calls, NEW c \in Convs,
         Shows(w, k, "temp", c)'
  PROVE  call'[k].at # "idle" /\ Ready(w)'
<1>1. ASSUME Shows(w, k, "temp", c) PROVE call'[k].at # "idle" /\ Ready(w)'
  <2>1. call[k].at # "idle" /\ Ready(w)
    BY <1>1 DEF Marked
  <2>2. ~ Reload(w)
    BY ReloadView DEF Shows
  <2> QED
    BY <2>1, <2>2, CallsKept, ReadyKept
<1>2. ASSUME NEW a \in Agents, NEW t \in Texts, SendMessage(k, w, a, t)
      PROVE  call'[k].at # "idle" /\ Ready(w)'
  BY <1>2, ClickBegins DEF Ready
<1>3. ASSUME ShowAttached(k), w = call[k].w PROVE call'[k].at # "idle" /\ Ready(w)'
  <2>1. call[k].at = "attached" /\ call[k].page /\ loading' = loading
    BY <1>3 DEF ShowAttached, Answered
  <2>2. Ready(w)
    BY <1>3, <2>1 DEF Sound, Paged
  <2> QED
    BY <2>1, <2>2, CallsKept DEF Ready
<1> QED
  BY <1>1, <1>2, <1>3, TempsKept

LEMMA SendsStep ==
  ASSUME Sound, Pointers, Marked, [Next]_vars, NEW k \in Calls
  PROVE  Sends(k)'
<1> SUFFICES ASSUME call'[k].page PROVE Sends(k)'
  BY DEF Sends
<1>a. PICK x, y : x = call[k] /\ y = call'[k]
  OBVIOUS
<1>b. Sends(k) /\ x.w \in Windows /\ x.a \in Agents
  BY <1>a, CallFields DEF Marked, Sound
<1>g. SUFFICES /\ y.kind = "send" /\ <<y.w, y.a>> \notin doubt' =>
                    /\ y.at = "send" => y.c = at'[y.a]
                    /\ y.at = "routed" => y.saw = y.c
               /\ y.at = "stored" /\ home'[k] = None => <<y.w, k>> \in excused'
  BY <1>a DEF Sends
<1> DEFINE Goal == /\ y.kind = "send" /\ <<y.w, y.a>> \notin doubt' =>
                        /\ y.at = "send" => y.c = at'[y.a]
                        /\ y.at = "routed" => y.saw = y.c
                   /\ y.at = "stored" /\ home'[k] = None => <<y.w, k>> \in excused'
<1> SUFFICES Goal
  OBVIOUS
<1>0. y.at \notin {"send", "routed", "stored"} => Goal
  OBVIOUS
<1>1. CASE y = x
  <2>1. x.page /\ Ready(x.w)
    BY <1>1, <1>a DEF Sound, Paged
  <2>2. ~ Reload(x.w)
    BY <1>a, <1>b, <1>1, <2>1, ReloadCalls
  <2>3. home'[k] = None => home[k] = None
    BY HomeKept
  <2>4. /\ <<x.w, k>> \in excused => <<x.w, k>> \in excused'
        /\ <<x.w, x.a>> \in doubt => <<x.w, x.a>> \in doubt'
    BY <1>b, <2>2, WhyKept
  <2>5. ASSUME <<x.w, x.a>> \notin doubt', x.kind = "send", x.at = "send" PROVE x.c = at'[x.a]
    <3>1. x.c = at[x.a] /\ <<x.w, x.a>> \notin doubt
      BY <1>a, <2>1, <2>4, <2>5, <1>b DEF Sends
    <3>2. ASSUME NEW j \in Calls, OnPage(j, x.w, x.a), Pending(j), call[j].at = "read" PROVE FALSE
      <4>1. Mine(j, x.w, x.a) /\ OnPage(k, x.w, x.a)
        BY <1>a, <2>1, <3>2 DEF Mine, OnPage, Open
      <4>2. Agreed(x.w, x.a)
        BY <1>b, <3>1 DEF Pointers
      <4> QED
        BY <1>a, <2>5, <3>2, <4>1, <4>2 DEF Agreed, Mine, OnPage, Open
    <3> QED
      BY <1>b, <2>5, <3>1, <3>2, AtKept
  <2>6. /\ x.kind = "send" /\ <<x.w, x.a>> \notin doubt /\ x.at = "routed" => x.saw = x.c
        /\ x.at = "stored" /\ home[k] = None => <<x.w, k>> \in excused
    BY <1>a, <1>b, <2>1 DEF Sends
  <2> QED
    BY <1>1, <2>3, <2>4, <2>5, <2>6
<1> HIDE DEF Goal
<1>2. ASSUME NEW u \in Windows, NEW b \in Agents, NEW t \in Texts,
             \/ CreateNewSession(k, u, b, t)
             \/ \E c \in Convs : AttachSession(k, u, b, c, t)
      PROVE  Goal
  <2>1. \E kind \in {"new", "attach"}, s \in {"create", "attach"} :
          \E c : Start(k, kind, u, b, c, t, s)
    BY <1>2 DEF CreateNewSession, AttachSession
  <2>2. call'[k].at \in {"create", "attach"}
    BY <2>1 DEF Start, Sound, CallType
  <2> QED
    BY <1>0, <1>a, <2>2
<1>3. ASSUME NEW u \in Windows, NEW b \in Agents, NEW t \in Texts, SendMessage(k, u, b, t)
      PROVE  Goal
  <2>1. PICK c : c = Conversation(view[u], b)
    OBVIOUS
  <2>2. PICK s \in {"create", "send"} :
          Start(k, "send", u, b, c, t, s) /\ Ready(u) /\ (s = "send" <=> c # None)
    BY <1>3, <2>1 DEF SendMessage
  <2>3. /\ y.at = s /\ y.c = c /\ y.w = u /\ y.a = b /\ at' = at
        /\ \/ OpenFor(u, b) = {} /\ doubt' = doubt
           \/ <<u, b>> \in doubt'
    BY <1>a, <2>2 DEF Start, Sound, CallType, server
  <2>4. ASSUME <<u, b>> \notin doubt', s = "send" PROVE c = at[b]
    <3>1. OpenFor(u, b) = {} /\ Agreed(u, b)
      BY <2>3, <2>4 DEF Pointers
    <3>2. \A j \in Calls : ~ OnPage(j, u, b)
      BY <3>1 DEF OpenFor, OnPage, Open
    <3>3. view[u].points[b] = Base(u, b)
      BY <2>2, <3>1, <3>2 DEF Agreed, Ready
    <3> QED
      BY <2>1, <2>2, <2>4, <3>3 DEF Conversation, Base
  <2> QED
    BY <2>3, <2>4 DEF Goal
<1>4. CASE \/ CreateConversation(k) \/ ReadAttachment(k) \/ CommitAttachment(k)
           \/ RefuseMessage(k) \/ ShowCreated(k)
  <2>1. \E s \in {"created", "attached", "read", "refused", "attach"} :
          \/ To(k, s)
          \/ \E o : call' = [call EXCEPT ![k].at = s, ![k].c = o]
          \/ \E o : call' = [call EXCEPT ![k].at = s, ![k].saw = o]
    BY <1>4 DEF CreateConversation, ReadAttachment, CommitAttachment, RefuseMessage, ShowCreated
  <2>2. call'[k].at \in {"created", "attached", "read", "refused", "attach"}
    BY <2>1, CallFields DEF To, Sound, CallType, Chains
  <2> QED
    BY <1>0, <1>a, <2>2
<1>5. CASE RouteMessage(k)
  <2>1. /\ y.at = "routed" /\ y.saw = at[x.a] /\ y.w = x.w /\ y.a = x.a /\ y.c = x.c
        /\ y.kind = x.kind /\ y.page = x.page /\ x.at = "send"
    <3>1. "routed" \in Stages
      BY DEF Stages
    <3>2. call' = [call EXCEPT ![k].at = "routed", ![k].saw = at[call[k].a]] /\ call[k].at = "send"
      BY <1>5 DEF RouteMessage
    <3>3. PICK z \in Chains :
             /\ Turns(k, z) /\ z.at = "routed" /\ z.saw = at[call[k].a]
             /\ z.kind = call[k].kind /\ z.w = call[k].w /\ z.a = call[k].a /\ z.c = call[k].c
             /\ z.text = call[k].text /\ z.page = call[k].page
      BY <3>1, <3>2, SeeTurns
    <3> QED
      BY <1>a, <3>2, <3>3 DEF Turns
  <2>2. doubt' = doubt
    BY <1>5 DEF RouteMessage, why
  <2>3. x.page /\ (x.kind = "send" /\ <<x.w, x.a>> \notin doubt => x.c = at[x.a])
    BY <1>a, <1>b, <2>1 DEF Sends
  <2> QED
    BY <2>1, <2>2, <2>3 DEF Goal
<1>6. CASE StoreMessage(k) \/ SkipDuplicate(k)
  <2>1. To(k, "stored") /\ call'[k].at = "stored" /\ call'[k].w = call[k].w
    <3>1. "stored" \in Stages
      BY DEF Stages
    <3>2. To(k, "stored")
      BY <1>6, StoreParts DEF SkipDuplicate
    <3> QED
      BY <3>1, <3>2, ToTurns DEF Turns, Sound
  <2>2. CASE StoreMessage(k)
    <3>1. PICK c \in Convs : home' = [home EXCEPT ![k] = c]
      BY <2>2, StoreParts
    <3>2. home'[k] = c /\ c # None
      BY <3>1, ConversationAssumption DEF Sound, ServerType, ConversationAssumption
    <3> QED
      BY <1>a, <2>1, <3>2 DEF Goal
  <2>3. CASE SkipDuplicate(k)
    <3>1. <<call[k].w, k>> \in excused'
      BY <2>3 DEF SkipDuplicate
    <3> QED
      BY <1>a, <2>1, <3>1 DEF Goal
  <2> QED
    BY <1>6, <2>2, <2>3
<1>7. CASE ShowAttached(k)
  <2>1. /\ call[k].at = "attached" /\ call[k].page /\ at' = at /\ doubt' = doubt
        /\ Finish(k) \/ To(k, "send")
    BY <1>7 DEF ShowAttached, Answered, server, why
  <2>2. ~ Finish(k)
    BY EndTurns DEF Turns, Sound
  <2>3. y.at = "send" /\ y.w = x.w /\ y.a = x.a /\ y.c = x.c
    <3>1. "send" \in Stages
      BY DEF Stages
    <3> QED
      BY <1>a, <2>1, <2>2, <3>1, ToTurns DEF Turns, Sound
  <2>4. <<x.w, x.a>> \notin doubt => x.c = at[x.a]
    BY <1>a, <1>b, <2>1 DEF Pointers, Agreed, Follows, OnPage
  <2> QED
    BY <2>1, <2>3, <2>4 DEF Goal
<1>8. CASE ShowSent(k) \/ Fail(k)
  <2>1. Finish(k) \/ call' = [call EXCEPT ![k].page = FALSE]
    BY <1>8 DEF ShowSent, Fail, Finish
  <2>2. ~ call'[k].page
    BY <2>1, EndTurns, LeaveTurns DEF Turns, Sound
  <2> QED
    BY <2>2
<1>9. ASSUME NEW u \in Windows, Reload(u) PROVE Goal
  <2>1. /\ y.at = x.at /\ y.kind = x.kind /\ y.c = x.c /\ y.saw = x.saw /\ y.w = x.w /\ y.a = x.a
        /\ x.page /\ x.w # u
    BY <1>a, <1>9, ReloadCalls
  <2>2. /\ home' = home /\ at' = at
        /\ doubt' = {z \in doubt : z[1] # u} /\ excused' = {z \in excused : z[1] # u}
    BY <1>9 DEF Reload, server
  <2>3. /\ x.kind = "send" /\ <<x.w, x.a>> \notin doubt =>
             /\ x.at = "send" => x.c = at[x.a]
             /\ x.at = "routed" => x.saw = x.c
        /\ x.at = "stored" /\ home[k] = None => <<x.w, k>> \in excused
    BY <1>a, <1>b, <2>1 DEF Sends
  <2> QED
    BY <2>1, <2>2, <2>3 DEF Goal
<1> QED
  BY <1>1, <1>2, <1>3, <1>4, <1>5, <1>6, <1>7, <1>8, <1>9, <1>a, CallMoves

LEMMA MarkedStep ==
  ASSUME Sound, Pointers, Marked, [Next]_vars
  PROVE  Marked'
<1>1. \A k \in Calls : Sends(k)'
  BY SendsStep
<1>2. \A w \in Windows, k \in Calls : <<w, k>> \in excused' => call'[k].at # "idle"
  BY ExcusesBegun
<1>3. \A w \in Windows, k \in Calls, c \in Convs :
        Shows(w, k, "temp", c)' => call'[k].at # "idle" /\ Ready(w)'
  BY TempsBegun
<1> QED
  BY <1>1, <1>2, <1>3 DEF Marked

\* What takes a temporary message away is the message itself, when the window hears of it.  A call
\* is awaited by its window as long as that may come, and nothing has shown the message before.
Awaited(w, k) ==
  /\ call[k].w = w /\ got[w][k] = 0
  /\ \/ /\ call[k].page /\ call[k].kind = "send"
        /\ call[k].at \in {"send", "routed", "stored", "refused"}
     \/ call[k].at = "done" /\ home[k] # None
  /\ \A d \in Convs : ~ Shows(w, k, "user", d)

\* It comes to the conversation that holds it, or that the call has, when the window is right.
Bound(w, k, c) ==
  \/ <<w, call[k].a>> \in doubt
  \/ home[k] # None /\ home[k] = c
  \/ home[k] = None /\ call[k].c = c

Alive(w, k, c) == Awaited(w, k) /\ Bound(w, k, c)
Alives(w, c, t) == {k \in Calls : call[k].text = t /\ Alive(w, k, c)}
Ghosts(w, c, t) == {k \in Calls : call[k].text = t /\ Shows(w, k, "temp", c)}
Sure(w, t) == \A k \in Calls : call[k].text = t => <<w, k>> \notin excused

\* A temporary message is one that is awaited, or another with its text is instead.
NoMore(w, c, t) == Sure(w, t) => Cardinality(Ghosts(w, c, t)) <= Cardinality(Alives(w, c, t))
Counted == \A w \in Windows, c \in Convs, t \in Texts : NoMore(w, c, t)

\* A user message is shown from the event on that tells of it.
LEMMA UsersKept ==
  ASSUME Sound, [Next]_vars, NEW w \in Windows, NEW k \in Calls, NEW d \in Convs, Ready(w),
         Shows(w, k, "user", d)', got'[w][k] = 0
  PROVE  Shows(w, k, "user", d)
<1>1. ASSUME NEW j \in Calls, NEW u \in Windows, NEW b \in Agents, NEW t \in Texts,
             \/ CreateNewSession(j, u, b, t) \/ SendMessage(j, u, b, t)
             \/ \E c \in Convs : AttachSession(j, u, b, c, t)
      PROVE  Shows(w, k, "user", d)
  BY <1>1, EntriesKept
<1>2. ASSUME NEW j \in Calls,
             \/ CreateConversation(j) \/ ReadAttachment(j) \/ CommitAttachment(j)
             \/ RouteMessage(j) \/ StoreMessage(j) \/ SkipDuplicate(j) \/ RefuseMessage(j)
             \/ Stream(j) \/ StoreReply(j)
             \/ ShowCreated(j) \/ ShowAttached(j) \/ ShowSent(j) \/ Fail(j)
      PROVE  Shows(w, k, "user", d)
  BY <1>2, EntriesKept
<1>3. ASSUME NEW u \in Windows,
             \/ FetchAgents(u) \/ Install(u) \/ JoinRoom(u)
             \/ \E a \in Agents : ClearConversation(u, a)
      PROVE  Shows(w, k, "user", d)
  BY <1>3, EntriesKept
<1>4. ASSUME NEW u \in Windows, FetchConversations(u) PROVE Shows(w, k, "user", d)
  <2>1. u # w
    BY <1>4 DEF FetchConversations, Fetched, Ready
  <2> QED
    BY <1>4, <2>1, FetchConversationsView DEF Shows
<1>5. ASSUME NEW u \in Windows, Reload(u) PROVE Shows(w, k, "user", d)
  BY <1>5, ReloadView DEF Shows
<1>6. ASSUME NEW u \in Windows, NEW j \in Calls, Receive(u, j) PROVE Shows(w, k, "user", d)
  <2>1. ~ (w = u /\ k = j)
    <3>1. got[u][j] \in 0 .. 3 /\ got' = [got EXCEPT ![u][j] = got[u][j] + 1]
      BY <1>6, ToldHome DEF Receive
    <3>2. got'[u][j] = got[u][j] + 1
      BY <3>1 DEF Sound, EventType
    <3> QED
      BY <3>1, <3>2
  <2> QED
    BY <1>6, <2>1, ReceiveShows
<1>7. CASE UNCHANGED vars
  BY <1>7 DEF vars, window, Shows
<1> QED
  BY <1>1, <1>2, <1>3, <1>4, <1>5, <1>6, <1>7 DEF Next

\* A call that is awaited is awaited until its message comes, or the window is excused from it.
LEMMA AliveKept ==
  ASSUME Sound, Marked, [Next]_vars, NEW w \in Windows, NEW k \in Calls, NEW c \in Convs,
         Ready(w), ~ Reload(w), Alive(w, k, c), got'[w][k] = 0, <<w, k>> \notin excused'
  PROVE  Alive(w, k, c)' /\ call'[k].text = call[k].text
<1>a. PICK x, y : x = call[k] /\ y = call'[k]
  OBVIOUS
<1>b. /\ x.w = w /\ x.a \in Agents /\ x.c \in Convs \cup {None} /\ x.saw \in Convs \cup {None}
      /\ x.at \in {"send", "routed", "stored", "refused", "done"}
      /\ \/ /\ x.page /\ x.kind = "send" /\ x.at \in {"send", "routed", "stored", "refused"}
         \/ x.at = "done" /\ home[k] # None
      /\ home[k] # None => x.at \in {"stored", "done"}
  BY <1>a, CallFields DEF Alive, Awaited, Sound, Begun
<1>c. \A d \in Convs : ~ Shows(w, k, "user", d)'
  BY UsersKept DEF Alive, Awaited
<1>d. y.at # "idle" /\ y.w = w /\ y.a = x.a /\ y.text = x.text
  BY <1>a, <1>b, CallsKept
<1>e. \/ <<w, x.a>> \in doubt
      \/ home[k] # None /\ home[k] = c
      \/ home[k] = None /\ x.c = c
  BY <1>a DEF Alive, Bound
<1>f. <<w, x.a>> \in doubt => <<w, x.a>> \in doubt'
  BY <1>b, WhyKept
<1>g. /\ x.page /\ x.kind = "send" /\ <<w, x.a>> \notin doubt /\ x.at = "routed" => x.saw = x.c
      /\ x.page /\ x.at = "stored" /\ home[k] = None => <<w, k>> \in excused
  BY <1>a, <1>b DEF Marked, Sends
<1> DEFINE Goal ==
      /\ \/ y.page /\ y.kind = "send" /\ y.at \in {"send", "routed", "stored", "refused"}
         \/ y.at = "done" /\ home'[k] # None
      /\ \/ <<w, x.a>> \in doubt'
         \/ home'[k] # None /\ home'[k] = c
         \/ home'[k] = None /\ y.c = c
<1> SUFFICES Goal
  BY <1>a, <1>c, <1>d DEF Alive, Awaited, Bound
<1>1. ASSUME home'[k] = home[k], y.c = x.c, y.kind = x.kind, y.page = x.page \/ (y.page <=> x.page),
             y.at = x.at \/ (x.at # "done" /\ y.at \in {"send", "routed", "stored", "refused"})
      PROVE  Goal
  BY <1>1, <1>b, <1>e, <1>f
<1> HIDE DEF Goal
<1>2. CASE StoreMessage(k)
  <2>1. x.at = "routed" /\ To(k, "stored")
    BY <1>2, <1>a, StoreParts
  <2>2. PICK d \in Convs : home' = [home EXCEPT ![k] = d] /\ (d = x.saw \/ x.saw = None)
    BY <1>2, <1>a, StoreParts
  <2>3. home'[k] = d /\ d # None
    BY <2>2, ConversationAssumption DEF Sound, ServerType, ConversationAssumption
  <2>4. y.page = x.page /\ y.kind = x.kind /\ y.at = "stored"
    <3>1. "stored" \in Stages
      BY DEF Stages
    <3> QED
      BY <1>a, <2>1, <3>1, ToTurns DEF Turns, Sound
  <2>5. home[k] = None
    BY <1>b, <2>1
  <2>6. ASSUME <<w, x.a>> \notin doubt PROVE d = c
    <3>1. x.c = c /\ x.saw = x.c
      BY <1>b, <1>e, <1>g, <2>1, <2>5, <2>6
    <3>2. c # None
      BY ConversationAssumption DEF ConversationAssumption
    <3> QED
      BY <2>2, <3>1, <3>2
  <2> QED
    BY <1>b, <1>f, <2>1, <2>3, <2>4, <2>6 DEF Goal
<1>h. home'[k] = home[k] \/ StoreMessage(k)
  BY HomeKept
<1>3. CASE y = x
  BY <1>1, <1>2, <1>3, <1>h
<1>4. ASSUME NEW u \in Windows, NEW b \in Agents, NEW t \in Texts,
             \/ CreateNewSession(k, u, b, t) \/ SendMessage(k, u, b, t)
             \/ \E d \in Convs : AttachSession(k, u, b, d, t)
      PROVE  FALSE
  BY <1>4, <1>a, <1>b, ClickBegins
<1>5. ASSUME \/ CreateConversation(k) \/ ReadAttachment(k) \/ CommitAttachment(k)
             \/ ShowCreated(k) \/ ShowAttached(k)
      PROVE  FALSE
  BY <1>5, <1>a, <1>b DEF CreateConversation, ReadAttachment, CommitAttachment, ShowCreated,
     ShowAttached, Answered
<1>6. CASE RouteMessage(k)
  <2>1. "routed" \in Stages
    BY DEF Stages
  <2>2. /\ call' = [call EXCEPT ![k].at = "routed", ![k].saw = at[call[k].a]]
        /\ call[k].at = "send" /\ home' = home
    BY <1>6 DEF RouteMessage, server
  <2>3. PICK z \in Chains :
           /\ Turns(k, z) /\ z.at = "routed" /\ z.saw = at[call[k].a]
           /\ z.kind = call[k].kind /\ z.w = call[k].w /\ z.a = call[k].a /\ z.c = call[k].c
           /\ z.text = call[k].text /\ z.page = call[k].page
    BY <2>1, <2>2, SeeTurns
  <2> QED
    BY <1>1, <1>a, <2>2, <2>3 DEF Turns
<1>7. CASE RefuseMessage(k)
  <2>1. To(k, "refused") /\ home' = home /\ x.at = "routed"
    BY <1>7, <1>a DEF RefuseMessage, server
  <2>2. "refused" \in Stages
    BY DEF Stages
  <2>3. y.at = "refused" /\ y.c = x.c /\ y.kind = x.kind /\ y.page = x.page
    BY <1>a, <2>1, <2>2, ToTurns DEF Turns, Sound
  <2> QED
    BY <1>1, <2>1, <2>3
<1>8. CASE SkipDuplicate(k) \/ Fail(k)
  <2>1. <<call[k].w, k>> \in excused'
    BY <1>8, FailView DEF SkipDuplicate
  <2> QED
    BY <1>a, <1>b, <2>1
<1>9. CASE ShowSent(k)
  <2>1. x.at = "stored" /\ x.page /\ Finish(k) /\ home' = home /\ excused' = excused
    BY <1>9, <1>a DEF ShowSent, Answered, server, why
  <2>2. y.at = "done"
    BY <1>a, <2>1, EndTurns DEF Turns, Sound
  <2>3. home[k] # None
    BY <1>g, <2>1
  <2> QED
    BY <1>e, <1>f, <2>1, <2>2, <2>3 DEF Goal
<1>10. ASSUME NEW u \in Windows, Reload(u) PROVE Goal
  <2>1. /\ y.at = x.at /\ y.kind = x.kind /\ y.c = x.c /\ u # w
        /\ y.page <=> x.page /\ x.w # u
    BY <1>10, <1>a, ReloadCalls
  <2>2. home' = home
    BY <1>10 DEF Reload, server
  <2> QED
    BY <1>1, <1>b, <2>1, <2>2
<1> QED
  BY <1>2, <1>3, <1>4, <1>5, <1>6, <1>7, <1>8, <1>9, <1>10, <1>a, CallMoves

\* A temporary message is shown together with the call that will take it away.
LEMMA NewGhost ==
  ASSUME Sound, Pointers, Places, Marked, [Next]_vars, NEW w \in Windows, NEW k \in Calls,
         NEW c \in Convs, Shows(w, k, "temp", c)', ~ Shows(w, k, "temp", c), <<w, k>> \notin excused'
  PROVE  Alive(w, k, c)' /\ ~ Alive(w, k, c)
<1>a. PICK x, y : x = call[k] /\ y = call'[k]
  OBVIOUS
<1>b. c # None
  BY ConversationAssumption DEF ConversationAssumption
<1>1. ASSUME x.at \in {"idle", "attached"}, y.at = "send", y.page, y.kind = "send", y.c = c,
             y.w = w, home' = home, got' = got
      PROVE  Alive(w, k, c)' /\ ~ Alive(w, k, c)
  <2>1. home[k] = None
    BY <1>1, <1>a DEF Sound, Begun
  <2>2. got[w][k] = 0
    BY <2>1, ToldHome
  <2>3. ~ Alive(w, k, c)
    BY <1>1, <1>a, <2>1 DEF Alive, Awaited
  <2>4. \A d \in Convs : ~ Shows(w, k, "user", d)'
    <3>1. Placed(w, k)'
      BY PlacesStep DEF Places
    <3>2. home'[k] \notin Convs
      BY <1>1, <2>1, ConversationAssumption DEF ConversationAssumption
    <3> QED
      BY <3>1, <3>2 DEF Placed
  <2> QED
    BY <1>1, <1>a, <2>1, <2>2, <2>3, <2>4 DEF Alive, Awaited, Bound
<1>2. ASSUME NEW a \in Agents, NEW t \in Texts, SendMessage(k, w, a, t),
             c = Conversation(view[w], a)
      PROVE  Alive(w, k, c)' /\ ~ Alive(w, k, c)
  <2>1. Start(k, "send", w, a, c, t, "send")
    BY <1>2, <1>b DEF SendMessage
  <2>2. x.at = "idle" /\ home' = home /\ got' = got
    BY <1>a, <2>1 DEF Start, server
  <2>3. y.at = "send" /\ y.page /\ y.kind = "send" /\ y.c = c /\ y.w = w
    BY <1>a, <2>1 DEF Start, Sound, CallType
  <2> QED
    BY <1>1, <2>2, <2>3
<1>3. ASSUME ShowAttached(k), call[k].kind = "send", w = call[k].w, c = call[k].c
      PROVE  Alive(w, k, c)' /\ ~ Alive(w, k, c)
  <2>1. /\ x.at = "attached" /\ x.page /\ To(k, "send") /\ home' = home /\ got' = got
    BY <1>3, <1>a DEF ShowAttached, Answered, server
  <2>2. "send" \in Stages
    BY DEF Stages
  <2>3. PICK z \in Chains :
           /\ Turns(k, z) /\ z.at = "send" /\ z.kind = call[k].kind /\ z.w = call[k].w
           /\ z.c = call[k].c /\ z.page = call[k].page
    BY <2>1, <2>2, ToTurns DEF Sound
  <2>4. y.at = "send" /\ y.page = x.page /\ y.kind = x.kind /\ y.c = x.c /\ y.w = x.w
    BY <1>a, <2>3 DEF Turns
  <2> QED
    BY <1>1, <1>3, <1>a, <2>1, <2>4
<1> QED
  BY <1>2, <1>3, TempsKept

\* Sets of calls are finite.
LEMMA SomeCalls ==
  ASSUME NEW S \in SUBSET Calls
  PROVE  IsFiniteSet(S) /\ Cardinality(S) \in Nat
<1>1. IsFiniteSet(Calls)
  BY FS_Interval, ConversationAssumption DEF Calls, ConversationAssumption
<1>2. IsFiniteSet(S)
  BY <1>1, FS_Subset
<1> QED
  BY <1>2, FS_CardinalityType

LEMMA FewerCalls ==
  ASSUME NEW S \in SUBSET Calls, NEW T \in SUBSET S
  PROVE  Cardinality(T) <= Cardinality(S)
BY SomeCalls, FS_Subset

\* What is added to the one is added to the other.
LEMMA CountGrow ==
  ASSUME NEW G \in SUBSET Calls, NEW A \in SUBSET Calls, NEW H \in SUBSET Calls,
         NEW B \in SUBSET Calls, A \subseteq B, H \ G \subseteq B \ A,
         Cardinality(G) <= Cardinality(A)
  PROVE  Cardinality(H) <= Cardinality(B)
<1>1. PICK N \in SUBSET Calls : N = H \ G
  OBVIOUS
<1>2. /\ Cardinality(G) \in Nat /\ Cardinality(A) \in Nat /\ Cardinality(N) \in Nat
      /\ Cardinality(H) \in Nat /\ Cardinality(B) \in Nat /\ Cardinality(G \cap N) \in Nat
      /\ IsFiniteSet(G) /\ IsFiniteSet(A) /\ IsFiniteSet(N)
  BY SomeCalls
<1>3. Cardinality(G \cup N) = Cardinality(G) + Cardinality(N) - Cardinality(G \cap N)
  BY <1>2, FS_Union
<1>4. Cardinality(A \cup N) = Cardinality(A) + Cardinality(N)
  <2>1. A \cap N = {}
    BY <1>1
  <2>2. Cardinality(A \cup N) = Cardinality(A) + Cardinality(N) - Cardinality(A \cap N)
    BY <1>2, FS_Union
  <2>3. Cardinality(A \cap N) = 0
    BY <2>1, FS_EmptySet
  <2> QED
    BY <1>2, <2>2, <2>3
<1>5. Cardinality(H) <= Cardinality(G \cup N)
  BY <1>1, FewerCalls
<1>6. Cardinality(A \cup N) <= Cardinality(B)
  BY <1>1, FewerCalls
<1> QED
  BY <1>2, <1>3, <1>4, <1>5, <1>6

\* One is taken from each.
LEMMA CountDrop ==
  ASSUME NEW G \in SUBSET Calls, NEW A \in SUBSET Calls, NEW H \in SUBSET Calls,
         NEW B \in SUBSET Calls, NEW i \in G, NEW j \in A, H \subseteq G \ {i}, A \ {j} \subseteq B,
         Cardinality(G) <= Cardinality(A)
  PROVE  Cardinality(H) <= Cardinality(B)
<1>1. /\ Cardinality(G) \in Nat /\ Cardinality(A) \in Nat /\ Cardinality(H) \in Nat
      /\ Cardinality(B) \in Nat /\ IsFiniteSet(G) /\ IsFiniteSet(A)
  BY SomeCalls
<1>2. Cardinality(G \ {i}) = Cardinality(G) - 1
  BY <1>1, FS_RemoveElement
<1>3. Cardinality(A \ {j}) = Cardinality(A) - 1
  BY <1>1, FS_RemoveElement
<1>4. Cardinality(H) <= Cardinality(G \ {i})
  BY FewerCalls
<1>5. Cardinality(A \ {j}) <= Cardinality(B)
  BY FewerCalls
<1> QED
  BY <1>1, <1>2, <1>3, <1>4, <1>5

LEMMA NoGhost ==
  ASSUME NEW w \in Windows, NEW c \in Convs, NEW t \in Texts, Ghosts(w, c, t) = {}
  PROVE  NoMore(w, c, t)
<1>1. Alives(w, c, t) \in SUBSET Calls
  BY DEF Alives
<1>2. Cardinality(Alives(w, c, t)) \in Nat /\ Cardinality(Ghosts(w, c, t)) = 0
  BY <1>1, SomeCalls, FS_EmptySet
<1> QED
  BY <1>2 DEF NoMore

LEMMA CountedInit == Init => Counted
<1> SUFFICES ASSUME Init, NEW w \in Windows, NEW c \in Convs, NEW t \in Texts
             PROVE  NoMore(w, c, t)
  BY DEF Counted
<1>1. Sound /\ view[w].shown[c] = Stored(c)
  BY SoundInit, StoredView DEF Init, Sound
<1>2. Ghosts(w, c, t) = {}
  BY <1>1 DEF Ghosts, Shows, Stored
<1> QED
  BY <1>2, NoGhost

\* The event of a message that is awaited takes a temporary message away, if there is one.
LEMMA ReceiveTakes ==
  ASSUME Sound, Pointers, NEW w \in Windows, NEW j \in Calls, NEW c \in Convs, NEW t \in Texts,
         Receive(w, j), Alive(w, j, c), <<w, j>> \notin excused', call[j].text = t
  PROVE  \/ Ghosts(w, c, t)' = {}
         \/ \E i \in Ghosts(w, c, t) : Ghosts(w, c, t)' \subseteq Ghosts(w, c, t) \ {i}
<1>a. PICK a \in Agents : a = call[j].a
  BY CallFields DEF Sound
<1>b. PICK S, T : S = view[w].shown[c] /\ T = view'[w].shown[c]
  OBVIOUS
<1>1. /\ Here(w) /\ got[w][j] < sent[j] /\ call' = call
      /\ <<w, a>> \notin doubt \cup cleared /\ at[a] = home[j] /\ OpenFor(w, a) \ {j} = {}
  BY <1>a DEF Receive
<1>2. got[w][j] = 0 /\ sent[j] > 0
  BY <1>1, ToldHome DEF Alive, Awaited
<1>3. Conversation(view[w], a) = home[j] /\ home[j] # None
  BY <1>a, <1>1, <1>2, RightConversation
<1>4. home[j] = c
  BY <1>a, <1>1, <1>3 DEF Alive, Bound
<1>5. Placing(view[w], view'[w], c, j)
  BY <1>a, <1>2, <1>3, <1>4, ReceiveView
<1>6. <<j, "user">> \notin S
  BY <1>b DEF Alive, Awaited, Shows
<1>7. S \subseteq Entries
  BY <1>b DEF Sound, WindowType, Views
<1>8. /\ Ghosts(w, c, t) = {k \in Calls : call[k].text = t /\ <<k, "temp">> \in S}
      /\ Ghosts(w, c, t)' = {k \in Calls : call[k].text = t /\ <<k, "temp">> \in T}
  BY <1>b, <1>1 DEF Ghosts, Shows
<1>9. \A e \in S : e \in Temps(view[w], c, j) <=> e[2] = "temp" /\ call[e[1]].text = t
  BY <1>b DEF Temps, Alike
<1>10. CASE Temps(view[w], c, j) = {} /\ T = S \cup {<<j, "user">>}
  <2>1. ASSUME NEW k \in Calls, call[k].text = t, <<k, "temp">> \in T PROVE FALSE
    <3>1. <<k, "temp">> \in S
      BY <1>10, <2>1
    <3> QED
      BY <1>9, <1>10, <2>1, <3>1
  <2> QED
    BY <1>8, <2>1
<1>11. ASSUME NEW e \in Temps(view[w], c, j), T = (S \ {e}) \cup {<<j, "user">>}
       PROVE  \E i \in Ghosts(w, c, t) : Ghosts(w, c, t)' \subseteq Ghosts(w, c, t) \ {i}
  <2>1. e \in S
    BY <1>b, <1>11 DEF Temps
  <2>2. PICK i \in Calls : e = <<i, "temp">>
    BY <1>7, <1>9, <1>11, <2>1 DEF Entries
  <2>3. call[i].text = t
    BY <1>9, <1>11, <2>1, <2>2
  <2>4. i \in Ghosts(w, c, t)
    BY <1>8, <2>1, <2>2, <2>3
  <2>5. \A k \in Calls : <<k, "temp">> \in T => <<k, "temp">> \in S /\ k # i
    BY <1>11, <2>2
  <2> QED
    BY <1>8, <2>4, <2>5
<1> QED
  BY <1>b, <1>5, <1>6, <1>10, <1>11 DEF Placing

LEMMA CountedStep ==
  ASSUME Sound, Pointers, Places, Marked, Counted, [Next]_vars
  PROVE  Counted'
<1> SUFFICES ASSUME NEW w \in Windows, NEW c \in Convs, NEW t \in Texts, Sure(w, t)'
             PROVE  Cardinality(Ghosts(w, c, t)') <= Cardinality(Alives(w, c, t)')
  BY DEF Counted, NoMore
<1>a. PICK G \in SUBSET Calls, A \in SUBSET Calls, H \in SUBSET Calls, B \in SUBSET Calls :
        /\ G = Ghosts(w, c, t) /\ A = Alives(w, c, t)
        /\ H = Ghosts(w, c, t)' /\ B = Alives(w, c, t)'
  BY DEF Ghosts, Alives
<1>b. \A k \in Calls : call'[k].text = t => <<w, k>> \notin excused'
  BY DEF Sure
<1>1. H = {} => Cardinality(H) <= Cardinality(B)
  BY SomeCalls, FS_EmptySet
<1>2. CASE Reload(w)
  <2>1. H = {}
    BY <1>2, <1>a, ReloadView DEF Ghosts, Shows
  <2> QED
    BY <1>1, <1>a, <2>1
<1>3. CASE ~ Ready(w) /\ ~ Reload(w)
  <2>1. ASSUME NEW k \in Calls, Shows(w, k, "temp", c)' PROVE FALSE
    <3>1. ~ Shows(w, k, "temp", c)
      BY <1>3 DEF Marked
    <3>2. \A a \in Agents, s \in Texts : ~ SendMessage(k, w, a, s)
      BY <1>3 DEF SendMessage
    <3>3. ~ (ShowAttached(k) /\ w = call[k].w)
      BY <1>3 DEF ShowAttached, Answered, Sound, Paged
    <3> QED
      BY <2>1, <3>1, <3>2, <3>3, TempsKept
  <2>2. H = {}
    BY <1>a, <2>1 DEF Ghosts
  <2> QED
    BY <1>1, <1>a, <2>2
<1>4. CASE Ready(w) /\ ~ Reload(w)
  <2>1. ASSUME NEW k \in Calls, call[k].text = t, call[k].at # "idle"
        PROVE  call'[k].text = t /\ <<w, k>> \notin excused'
    BY <1>b, <2>1, CallsKept
  <2>2. Cardinality(G) <= Cardinality(A)
    <3>1. ASSUME NEW k \in Calls, call[k].text = t, <<w, k>> \in excused PROVE FALSE
      <4>1. call[k].at # "idle"
        BY <3>1 DEF Marked
      <4> QED
        BY <1>4, <2>1, <3>1, <4>1, WhyKept
    <3>2. Sure(w, t)
      BY <3>1 DEF Sure
    <3> QED
      BY <1>a, <3>2 DEF Counted, NoMore
  <2>3. ASSUME NEW k \in A, got'[w][k] = 0 PROVE k \in B
    <3>1. k \in Calls /\ call[k].text = t /\ Alive(w, k, c)
      BY <1>a, <2>3 DEF Alives
    <3>2. call[k].at # "idle"
      BY <3>1 DEF Alive, Awaited
    <3>3. call'[k].text = t /\ <<w, k>> \notin excused'
      BY <2>1, <3>1, <3>2
    <3>4. Alive(w, k, c)'
      BY <1>4, <2>3, <3>1, <3>3, AliveKept
    <3> QED
      BY <1>a, <3>1, <3>3, <3>4 DEF Alives
  <2>4. ASSUME NEW k \in H \ G PROVE k \in B \ A
    <3>1. k \in Calls /\ call'[k].text = t /\ Shows(w, k, "temp", c)' /\ <<w, k>> \notin excused'
      BY <1>a, <1>b, <2>4 DEF Ghosts
    <3>2. ~ Shows(w, k, "temp", c)
      <4>1. SUFFICES ASSUME Shows(w, k, "temp", c) PROVE FALSE
        OBVIOUS
      <4>2. call[k].at # "idle"
        BY <3>1, <4>1 DEF Marked
      <4>3. call[k].text = t
        BY <3>1, <4>2, CallsKept
      <4> QED
        BY <1>a, <2>4, <3>1, <4>1, <4>3 DEF Ghosts
    <3>3. Alive(w, k, c)' /\ ~ Alive(w, k, c)
      BY <3>1, <3>2, NewGhost
    <3> QED
      BY <1>a, <3>1, <3>3 DEF Alives
  <2>5. ASSUME A \subseteq B PROVE Cardinality(H) <= Cardinality(B)
    BY <2>2, <2>4, <2>5, CountGrow
  <2>6. \A k \in A : got[w][k] = 0
    BY <1>a DEF Alives, Alive, Awaited
  <2>7. CASE got'[w] = got[w]
    BY <1>a, <2>3, <2>5, <2>6, <2>7
  <2>8. ASSUME NEW j \in Calls, Receive(w, j) PROVE Cardinality(H) <= Cardinality(B)
    <3>1. \A k \in Calls \ {j} : got'[w][k] = got[w][k]
      BY <2>8 DEF Receive, Sound, EventType
    <3>2. A \ {j} \subseteq B
      BY <2>3, <2>6, <3>1
    <3>3. CASE j \notin A
      BY <2>5, <3>2, <3>3
    <3>4. CASE j \in A
      <4>1. call[j].text = t /\ Alive(w, j, c)
        BY <1>a, <3>4 DEF Alives
      <4>2. <<w, j>> \notin excused'
        BY <2>1, <4>1 DEF Alive, Awaited
      <4>3. H = {} \/ \E i \in G : H \subseteq G \ {i}
        BY <1>a, <2>8, <4>1, <4>2, ReceiveTakes
      <4>4. ASSUME NEW i \in G, H \subseteq G \ {i} PROVE Cardinality(H) <= Cardinality(B)
        BY <2>2, <3>2, <3>4, <4>4, CountDrop
      <4> QED
        BY <1>1, <4>3, <4>4
    <3> QED
      BY <3>3, <3>4
  <2>9. CASE JoinRoom(w)
    <3>1. ASSUME NEW k \in A, sent[k] > 0 PROVE FALSE
      <4>1. k \in Calls /\ call[k].text = t /\ Alive(w, k, c)
        BY <1>a, <3>1 DEF Alives
      <4>2. <<w, k>> \notin excused'
        BY <2>1, <4>1 DEF Alive, Awaited
      <4>3. Has(view[w], k)
        BY <2>9, <3>1, <4>1, <4>2 DEF JoinRoom
      <4>4. home[k] \in Convs
        BY <3>1, <4>1, ToldHome DEF Sound, ServerType
      <4> QED
        BY <4>1, <4>3, <4>4 DEF Has, Alive, Awaited, Shows
    <3>2. ASSUME NEW k \in A PROVE got'[w][k] = 0
      <4>1. sent[k] = 0
        BY <3>1, <3>2, ToldHome
      <4> QED
        BY <2>9, <4>1 DEF JoinRoom, Sound, EventType
    <3>3. A \subseteq B
      BY <2>3, <3>2
    <3> QED
      BY <1>a, <2>5, <3>3
  <2> QED
    BY <1>4, <1>a, <2>7, <2>8, <2>9, ReadyKept
<1> QED
  BY <1>2, <1>3, <1>4

LEMMA CountedAlways == Spec => [](Sound /\ Pointers /\ Places /\ Marked /\ Counted)
<1>1. Init => Sound /\ Pointers /\ Places /\ Marked /\ Counted
  BY SoundInit, PointersInit, PlacesInit, MarkedInit, CountedInit
<1>2. Sound /\ Pointers /\ Places /\ Marked /\ Counted /\ [Next]_vars
        => (Sound /\ Pointers /\ Places /\ Marked /\ Counted)'
  BY SoundStep, PointersStep, PlacesStep, MarkedStep, CountedStep
<1> QED
  BY <1>1, <1>2, PTL DEF Spec

\* When every request has been answered and every event has come, a window shows a temporary
\* message only if it is excused for a message of its text (that failed, crossed another, was told
\* before the window joined the room, or came after a /clear): addConversationMessage() replaces
\* any temporary message of the same text, and which one does not matter for how many are left.
THEOREM NoGhostsLeft == Spec => []NoGhosts
<1>1. Sound /\ Counted => NoGhosts
  <2> SUFFICES ASSUME Sound, Counted, Rest, NEW w \in Windows, NEW c \in Convs,
                      NEW e \in view[w].shown[c], e[2] = "temp",
                      \A k \in Calls : ~ (Alike(e[1], k) /\ <<w, k>> \in excused)
               PROVE  FALSE
    BY DEF NoGhosts
  <2>1. PICK i \in Calls : e = <<i, "temp">>
    BY DEF Sound, WindowType, Views, Entries
  <2>2. PICK t \in Texts : t = call[i].text
    BY CallFields DEF Sound
  <2>3. Sure(w, t)
    BY <2>1, <2>2 DEF Sure, Alike
  <2>4. Alives(w, c, t) = {}
    <3>1. SUFFICES ASSUME NEW k \in Calls, Alive(w, k, c) PROVE FALSE
      BY DEF Alives
    <3>2. got[w][k] = 0 /\ ~ call[k].page
      BY <3>1 DEF Alive, Awaited, Rest, Open
    <3>3. home[k] # None
      BY <3>1, <3>2 DEF Alive, Awaited
    <3> QED
      BY <3>2, <3>3 DEF Rest
  <2>5. i \in Ghosts(w, c, t)
    BY <2>1, <2>2 DEF Ghosts, Shows
  <2>6. Ghosts(w, c, t) \in SUBSET Calls
    BY DEF Ghosts
  <2>7. Cardinality(Ghosts(w, c, t)) = 0
    <3>1. Cardinality(Ghosts(w, c, t)) \in Nat
      BY <2>6, SomeCalls
    <3>2. Cardinality(Ghosts(w, c, t)) <= Cardinality(Alives(w, c, t))
      BY <2>3 DEF Counted, NoMore
    <3>3. Cardinality(Alives(w, c, t)) = 0
      BY <2>4, FS_EmptySet
    <3> QED
      BY <3>1, <3>2, <3>3
  <2> QED
    BY <2>5, <2>6, <2>7, SomeCalls, FS_EmptySet
<1> QED
  BY <1>1, CountedAlways, PTL

=============================================================================
