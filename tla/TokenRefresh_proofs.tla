-------------------------- MODULE TokenRefresh_proofs --------------------------
(***************************************************************************)
(* What holds of the tabs of a browser for any number of tabs, requests    *)
(* and pairs of tokens: types, that a sign-out holds, that no request      *)
(* waits for a refresh nobody makes, that the token in the cookies counts, *)
(* and what sets off the alarm.                                            *)
(***************************************************************************)
EXTENDS TokenRefresh, TLAPS

CallTables == [Tabs -> [Calls -> CallStates]]
FlightTables == [Tabs -> [Kinds -> Flights]]
Causes == {"twice", "lost", "error"}

ServerType ==
  /\ issued \in Pairs /\ expired \in Pairs /\ revoked \in Pairs /\ rotated \subseteq Pairs
  /\ adrift \subseteq Flights
StoreType == jar \in Pairs /\ store \in [Tabs -> Stores] /\ saved \in Stores
HistoryType ==
  alarm \in BOOLEAN /\ causes \subseteq Causes /\ ended \in BOOLEAN /\ late \subseteq Tabs \X Kinds

LEMMA TypeParts ==
  LET Parts == /\ ServerType /\ StoreType /\ HistoryType
               /\ call \in CallTables /\ flight \in FlightTables
  IN  (TypeOK <=> Parts) /\ (Parts' => TypeOK')
BY DEF TypeOK, ServerType, StoreType, HistoryType, CallTables, FlightTables, Causes

LEMMA Numbers == 0 \in Pairs /\ 1 \in Pairs /\ \A p \in Pairs : p < MaxPairs => p + 1 \in Pairs
BY TokenAssumption DEF TokenAssumption, Pairs

LEMMA Empty ==
  NoCall \in CallStates /\ NoFlight \in Flights /\ Refusal \in Flights /\ SignedOut \in Stores
BY Numbers DEF NoCall, NoFlight, Refusal, SignedOut, CallStates, Flights, Stores

\* The tokens a tab attaches to a request and presents to a refresh are pairs.
LEMMA TokenType ==
  ASSUME jar \in Pairs, NEW p \in Pairs
  PROVE  Attached(p) \in Pairs /\ Presented(p) \in Pairs /\ Refresh(p) \in Flights /\ Tokens(p) \in Pairs
<1>1. Attached(p) \in Pairs /\ Presented(p) \in Pairs
  BY DEF Attached, Presented
<1>2. Tokens(p) \in Pairs
  BY Numbers DEF Tokens
<1> QED
  BY <1>1, <1>2, Numbers DEF Refresh, Flights

LEMMA CauseType ==
  /\ \A e \in BOOLEAN : Noted(e) \subseteq Causes
  /\ \A p : Risk(p) \subseteq Causes
  /\ \A f : Dropped(f) \subseteq Causes
BY DEF Noted, Risk, Dropped, Causes

LEMMA ErrorType == RedisErrors \subseteq BOOLEAN
BY DEF RedisErrors

\* What the server says of a refresh, and what it does with one that it rotates.
LEMMA VerdictType ==
  ASSUME NEW f, NEW error \in BOOLEAN, NEW verdict \in Verdicts(f, error)
  PROVE  /\ verdict \in {"refused", "stolen", "checked"}
         /\ verdict = "checked" => f.jti # 0 /\ ~error /\ ~Dead(f.jti)
         /\ verdict = "stolen" => f.jti # 0 /\ (error \/ Dead(f.jti))
         /\ error => verdict = "stolen"
<1> HIDE DEF Dead
<1> QED
  BY DEF Verdicts

LEMMA JudgeType ==
  ASSUME TypeOK, NEW error \in RedisErrors, NEW verdict, Judge(verdict, error)
  PROVE  /\ issued' \in Pairs /\ expired' \in Pairs /\ revoked' \in Pairs /\ rotated' \subseteq Pairs
         /\ StoreType' /\ call' \in CallTables /\ HistoryType'
<1>1. issued \in Pairs /\ revoked \in Pairs
  BY DEF TypeOK
<1>2. revoked' \in Pairs
  BY <1>1 DEF Judge
<1>3. causes' \subseteq Causes /\ alarm' \in BOOLEAN
  BY CauseType, ErrorType DEF Judge, TypeOK, Causes
<1> QED
  BY <1>2, <1>3 DEF Judge, TypeOK, StoreType, CallTables, HistoryType

LEMMA ReplaceType ==
  ASSUME TypeOK, NEW jti \in Pairs, NEW dropped \in SUBSET Causes, Replace(jti, dropped)
  PROVE  /\ issued' \in Pairs /\ expired' \in Pairs /\ revoked' \in Pairs /\ rotated' \subseteq Pairs
         /\ issued' = issued + 1
         /\ StoreType' /\ call' \in CallTables /\ HistoryType'
<1>1. issued' = issued + 1 /\ issued' \in Pairs
  BY Numbers DEF Replace, TypeOK
<1>2. PICK error \in RedisErrors :
        /\ rotated' = IF error THEN rotated ELSE rotated \cup {jti}
        /\ causes' = causes \cup Noted(error) \cup dropped
  BY DEF Replace
<1>3. rotated' \subseteq Pairs /\ causes' \subseteq Causes
  BY <1>2, CauseType, ErrorType DEF TypeOK, Causes
<1> QED
  BY <1>1, <1>3 DEF Replace, TypeOK, StoreType, CallTables, HistoryType

\* Refreshes that are given up leave refreshes adrift that are among them.
LEMMA GiveUpMoves ==
  ASSUME NEW fs, GiveUp(fs)
  PROVE  \A f \in adrift' :
           f \in adrift \/ (f \in fs /\ f.at \in {"sent", "checked"} /\ f.jti # 0)
BY DEF GiveUp

LEMMA CallMove ==
  ASSUME call \in CallTables, NEW t \in Tabs, NEW c \in Calls, NEW x \in CallStates,
         call' = [call EXCEPT ![t][c] = x]
  PROVE  call' \in CallTables
BY DEF CallTables

LEMMA CallsMove ==
  ASSUME call \in CallTables, NEW t \in Tabs, NEW x \in [Calls -> CallStates],
         call' = [call EXCEPT ![t] = x]
  PROVE  call' \in CallTables
BY DEF CallTables

LEMMA FlightMove ==
  ASSUME flight \in FlightTables, NEW t \in Tabs, NEW k \in Kinds, NEW f \in Flights,
         flight' = [flight EXCEPT ![t][k] = f]
  PROVE  flight' \in FlightTables
BY DEF FlightTables

LEMMA StoreMove ==
  ASSUME StoreType, NEW t \in Tabs, NEW s \in Stores, SetStore(t, s), jar' \in Pairs
  PROVE  StoreType'
BY DEF StoreType, SetStore

-----------------------------------------------------------------------------
(* Types.                                                                  *)

LEMMA InitType == Init => TypeOK
<1> SUFFICES ASSUME Init PROVE TypeOK
  OBVIOUS
<1>1. saved \in Stores
  BY Numbers DEF Init, Stores
<1>2. ServerType /\ HistoryType
  BY Numbers DEF Init, ServerType, HistoryType
<1>3. StoreType
  BY <1>1, Numbers DEF Init, StoreType
<1>4. call \in CallTables /\ flight \in FlightTables
  BY Empty DEF Init, CallTables, FlightTables
<1> QED
  BY <1>2, <1>3, <1>4, TypeParts

\* The steps of requests keep the types.
LEMMA CallStep == ASSUME TypeOK, NEW t \in Tabs, CallNext(t) PROVE TypeOK'
<1>0. ServerType /\ StoreType /\ call \in CallTables /\ flight \in FlightTables /\ HistoryType
  BY TypeParts
<1>s. store[t] \in Stores /\ store[t].tokens \in Pairs /\ jar \in Pairs
  BY <1>0 DEF StoreType, Stores
<1> SUFFICES ASSUME NEW c \in Calls, Answer(t, c) \/ Refused(t, c) \/ RefusedAgain(t, c) \/ Fail(t, c)
             PROVE  TypeOK'
  BY DEF CallNext
<1>1. CASE Answer(t, c)
  <2>1. call' \in CallTables
    BY <1>0, <1>1, CallMove, Empty DEF Answer
  <2>2. StoreType'
    <3>1. CASE c = Me
      <4>1. [store[t] EXCEPT !.user = TRUE] \in Stores
        BY <1>s DEF Stores
      <4> QED
        BY <1>0, <1>1, <1>s, <3>1, <4>1, StoreMove DEF Answer
    <3>2. CASE c # Me
      BY <1>0, <1>1, <3>2 DEF Answer, StoreType
    <3> QED
      BY <3>1, <3>2
  <2>3. ServerType' /\ flight' \in FlightTables /\ HistoryType'
    BY <1>0, <1>1 DEF Answer, server, history, ServerType, HistoryType
  <2> QED
    BY <2>1, <2>2, <2>3, TypeParts
<1>2. CASE Refused(t, c)
  <2>1. call' \in CallTables
    <3>1. [at |-> "waiting", pair |-> 0] \in CallStates
      BY Numbers DEF CallStates
    <3> QED
      BY <1>0, <1>2, <3>1, CallMove DEF Refused
  <2>2. flight' \in FlightTables
    <3>1. SharedRefresh(t) \in Flights /\ "auto" \in Kinds
      BY <1>0, <1>s, TokenType DEF SharedRefresh, FlightTables, Kinds
    <3> QED
      BY <1>0, <1>2, <3>1, FlightMove DEF Refused
  <2>3. HistoryType'
    <3>1. PICK error \in RedisErrors :
            causes' = causes \cup Noted(error) \cup
                      (IF flight[t]["auto"].at # "none" THEN {} ELSE Risk(store[t].tokens))
      BY <1>2 DEF Refused
    <3>2. causes' \subseteq Causes
      BY <1>0, <3>1, CauseType, ErrorType DEF HistoryType
    <3> QED
      BY <1>0, <1>2, <3>2 DEF Refused, HistoryType
  <2>4. ServerType' /\ StoreType'
    BY <1>0, <1>2 DEF Refused, server, ServerType, StoreType
  <2> QED
    BY <2>1, <2>2, <2>3, <2>4, TypeParts
<1>3. CASE RefusedAgain(t, c)
  <2>1. call' \in CallTables
    BY <1>0, <1>3, CallMove, Empty DEF RefusedAgain
  <2>2. StoreType'
    BY <1>0, <1>3, <1>s, StoreMove, Empty DEF RefusedAgain
  <2>3. ServerType' /\ flight' \in FlightTables /\ HistoryType'
    BY <1>0, <1>3 DEF RefusedAgain, server, history, ServerType, HistoryType
  <2> QED
    BY <2>1, <2>2, <2>3, TypeParts
<1>4. CASE Fail(t, c)
  <2>1. call' \in CallTables
    BY <1>0, <1>4, CallMove, Empty DEF Fail
  <2>2. ServerType' /\ flight' \in FlightTables /\ HistoryType' /\ StoreType'
    BY <1>0, <1>4 DEF Fail, server, history, ServerType, HistoryType, StoreType
  <2> QED
    BY <2>1, <2>2, TypeParts
<1> QED
  BY <1>1, <1>2, <1>3, <1>4

\* The steps of refreshes keep the types.
LEMMA RefreshStep == ASSUME TypeOK, NEW t \in Tabs, RefreshNext(t) PROVE TypeOK'
<1>0. ServerType /\ StoreType /\ call \in CallTables /\ flight \in FlightTables /\ HistoryType
  BY TypeParts
<1>s. store[t] \in Stores /\ store[t].tokens \in Pairs /\ jar \in Pairs
  BY <1>0 DEF StoreType, Stores
<1> SUFFICES ASSUME NEW k \in Kinds,
                    CheckRefresh(t, k) \/ Rotate(t, k) \/ Refreshed(t, k) \/ RefreshFailed(t, k)
             PROVE  TypeOK'
  BY DEF RefreshNext
<1>f. flight[t][k] \in Flights
  BY <1>0 DEF FlightTables
<1>1. CASE CheckRefresh(t, k)
  <2>1. PICK error \in RedisErrors : \E verdict \in Verdicts(flight[t][k], error) :
          /\ flight' = [flight EXCEPT ![t][k] =
                          IF verdict = "checked" THEN [@ EXCEPT !.at = "checked"] ELSE Refusal]
          /\ Judge(verdict, error)
    BY <1>1 DEF CheckRefresh
  <2>2. PICK verdict \in Verdicts(flight[t][k], error) :
          /\ flight' = [flight EXCEPT ![t][k] =
                          IF verdict = "checked" THEN [@ EXCEPT !.at = "checked"] ELSE Refusal]
          /\ Judge(verdict, error)
    BY <2>1
  <2>3. flight' \in FlightTables
    <3> DEFINE f == IF verdict = "checked" THEN [flight[t][k] EXCEPT !.at = "checked"] ELSE Refusal
    <3>1. f \in Flights
      BY <1>f, Empty DEF Flights
    <3>2. flight' = [flight EXCEPT ![t][k] = f]
      BY <2>2
    <3> HIDE DEF f
    <3> QED
      BY <1>0, <3>1, <3>2, FlightMove
  <2>4. ServerType' /\ StoreType' /\ call' \in CallTables /\ HistoryType'
    BY <1>0, <1>1, <2>2, JudgeType DEF CheckRefresh, ServerType
  <2> QED
    BY <2>3, <2>4, TypeParts
<1>2. CASE Rotate(t, k)
  <2>1. flight[t][k].jti \in Pairs
    BY <1>f DEF Flights
  <2>2. /\ issued' \in Pairs /\ issued' = issued + 1 /\ ServerType'
        /\ StoreType' /\ call' \in CallTables /\ HistoryType'
    <3>1. {} \in SUBSET Causes /\ Replace(flight[t][k].jti, {}) /\ adrift' = adrift
      BY <1>2 DEF Rotate
    <3> QED
      BY <1>0, <2>1, <3>1, ReplaceType DEF ServerType
  <2>3. flight' \in FlightTables
    <3>1. [flight[t][k] EXCEPT !.at = "rotated", !.new = issued'] \in Flights
      BY <1>f, <2>2 DEF Flights
    <3>2. flight' = [flight EXCEPT ![t][k] = [flight[t][k] EXCEPT !.at = "rotated", !.new = issued']]
      BY <1>0, <1>2, <2>2 DEF Rotate, FlightTables
    <3> QED
      BY <1>0, <3>1, <3>2, FlightMove
  <2> QED
    BY <2>2, <2>3, TypeParts
<1>3. CASE Refreshed(t, k)
  <2> DEFINE p == flight[t][k].new
             calls == [c \in Calls |->
                        IF k = "auto" /\ call[t][c].at = "waiting" THEN [at |-> "resent", pair |-> p]
                        ELSE IF k = "init" /\ c = Me THEN [at |-> "sent", pair |-> p]
                        ELSE call[t][c]]
  <2>1. p \in Pairs
    BY <1>f DEF Flights
  <2>2. call' \in CallTables
    <3>1. calls \in [Calls -> CallStates]
      BY <1>0, <2>1 DEF CallTables, CallStates
    <3>2. call' = [call EXCEPT ![t] = calls]
      BY <1>3 DEF Refreshed
    <3> QED
      BY <1>0, <3>1, <3>2, CallsMove
  <2>3. StoreType'
    <3>1. [store[t] EXCEPT !.tokens = Tokens(p)] \in Stores
      BY <1>s, <2>1, TokenType DEF Stores
    <3>2. SetStore(t, [store[t] EXCEPT !.tokens = Tokens(p)]) /\ jar' = p
      BY <1>3 DEF Refreshed, SetCookies
    <3> QED
      BY <1>0, <2>1, <3>1, <3>2, StoreMove
  <2>4. flight' \in FlightTables
    BY <1>0, <1>3, FlightMove, Empty DEF Refreshed
  <2>5. ServerType' /\ HistoryType'
    BY <1>0, <1>3 DEF Refreshed, server, ServerType, HistoryType
  <2> QED
    BY <2>2, <2>3, <2>4, <2>5, TypeParts
<1>4. CASE RefreshFailed(t, k)
  <2>1. StoreType' /\ jar' = jar
    <3>1. jar' = jar
      BY <1>4 DEF RefreshFailed
    <3>2. SetStore(t, SignedOut) \/ UNCHANGED <<store, saved>>
      BY <1>4 DEF RefreshFailed
    <3>3. CASE SetStore(t, SignedOut)
      BY <1>0, <1>s, <3>1, <3>3, StoreMove, Empty
    <3>4. CASE UNCHANGED <<store, saved>>
      BY <1>0, <3>1, <3>4 DEF StoreType
    <3> QED
      BY <3>2, <3>3, <3>4
  <2>2. call' \in CallTables
    <3> DEFINE a == Attached(store'[t].tokens)
               calls == [c \in Calls |-> IF k = "init" /\ c = Me THEN [at |-> "sent", pair |-> a]
                                         ELSE Rejected(k, call[t][c])]
    <3>1. a \in Pairs
      <4>1. store'[t].tokens \in Pairs
        BY <2>1 DEF StoreType, Stores
      <4> QED
        BY <1>s, <4>1, TokenType
    <3>2. [at |-> "sent", pair |-> a] \in CallStates
      BY <3>1 DEF CallStates
    <3>3. \A r \in CallStates : Rejected(k, r) \in CallStates
      BY Empty DEF Rejected
    <3>4. call' = [call EXCEPT ![t] = calls]
      BY <1>4 DEF RefreshFailed
    <3> HIDE DEF a
    <3>5. calls \in [Calls -> CallStates]
      BY <1>0, <3>2, <3>3 DEF CallTables
    <3> QED
      BY <1>0, <3>4, <3>5, CallsMove
  <2>3. flight' \in FlightTables
    BY <1>0, <1>4, FlightMove, Empty DEF RefreshFailed
  <2>4. ServerType'
    <3>1. adrift' \subseteq Flights
      BY <1>0, <1>4, <1>f, GiveUpMoves DEF RefreshFailed, ServerType
    <3> QED
      BY <1>0, <1>4, <3>1 DEF RefreshFailed, server, ServerType
  <2>5. HistoryType'
    BY <1>0, <1>4, CauseType DEF RefreshFailed, HistoryType
  <2> QED
    BY <2>1, <2>2, <2>3, <2>4, <2>5, TypeParts
<1> QED
  BY <1>1, <1>2, <1>3, <1>4

\* So do those of refreshes nobody waits for.
LEMMA AdriftStep == ASSUME TypeOK, AdriftNext PROVE TypeOK'
<1>0. ServerType /\ flight \in FlightTables
  BY TypeParts
<1>1. PICK f \in adrift : CheckAdrift(f) \/ RotateAdrift(f)
  BY DEF AdriftNext
<1>2. f \in Flights /\ f.jti \in Pairs
  BY <1>0 DEF ServerType, Flights
<1>3. CASE CheckAdrift(f)
  <2>1. PICK error \in RedisErrors : \E verdict \in Verdicts(f, error) :
          /\ adrift' = (adrift \ {f}) \cup
                       (IF verdict = "checked" THEN {[f EXCEPT !.at = "checked"]} ELSE {})
          /\ Judge(verdict, error)
    BY <1>3 DEF CheckAdrift
  <2>2. [f EXCEPT !.at = "checked"] \in Flights
    BY <1>2 DEF Flights
  <2>3. adrift' \subseteq Flights
    BY <1>0, <2>1, <2>2 DEF ServerType
  <2>4. flight' \in FlightTables
    BY <1>0, <1>3 DEF CheckAdrift
  <2>5. ServerType' /\ StoreType' /\ call' \in CallTables /\ HistoryType'
    BY <2>1, <2>3, JudgeType DEF ServerType
  <2> QED
    BY <2>4, <2>5, TypeParts
<1>4. CASE RotateAdrift(f)
  <2>1. {"lost"} \in SUBSET Causes /\ Replace(f.jti, {"lost"})
    BY <1>4 DEF RotateAdrift, Causes
  <2>2. adrift' \subseteq Flights /\ flight' \in FlightTables
    BY <1>0, <1>4 DEF RotateAdrift, ServerType
  <2>3. ServerType' /\ StoreType' /\ call' \in CallTables /\ HistoryType'
    BY <1>2, <2>1, <2>2, ReplaceType DEF ServerType
  <2> QED
    BY <2>2, <2>3, TypeParts
<1> QED
  BY <1>1, <1>3, <1>4

\* The steps of the user keep the types.
LEMMA UserStep == ASSUME TypeOK, NEW t \in Tabs, UserNext(t) PROVE TypeOK'
<1>0. ServerType /\ StoreType /\ call \in CallTables /\ flight \in FlightTables /\ HistoryType
  BY TypeParts
<1>s. store[t] \in Stores /\ store[t].tokens \in Pairs /\ jar \in Pairs
  BY <1>0 DEF StoreType, Stores
<1>1. CASE Load(t)
  <2>0. saved \in Stores /\ saved.tokens \in Pairs
    BY <1>0 DEF StoreType, Stores
  <2>1. StoreType'
    BY <1>0, <1>1 DEF Load, StoreType
  <2>2. PICK refresh \in BOOLEAN, ask \in BOOLEAN :
          /\ call' = [call EXCEPT ![t] = [c \in Calls |->
                       IF ask /\ c = Me THEN [at |-> "sent", pair |-> Attached(saved.tokens)]
                                        ELSE NoCall]]
          /\ flight' = [flight EXCEPT ![t] = [auto |-> NoFlight,
                         init |-> IF refresh THEN Refresh(saved.tokens) ELSE NoFlight]]
          /\ causes' = causes \cup (UNION {Dropped(flight[t][k]) : k \in Kinds})
                              \cup (IF refresh THEN Risk(saved.tokens) ELSE {})
    BY <1>1 DEF Load
  <2>3. call' \in CallTables
    <3>1. [at |-> "sent", pair |-> Attached(saved.tokens)] \in CallStates
      BY <1>s, <2>0, TokenType DEF CallStates
    <3>2. [c \in Calls |-> IF ask /\ c = Me THEN [at |-> "sent", pair |-> Attached(saved.tokens)]
                                           ELSE NoCall] \in [Calls -> CallStates]
      BY <3>1, Empty
    <3> QED
      BY <1>0, <2>2, <3>2, CallsMove
  <2>4. flight' \in FlightTables
    <3>1. PICK f \in Flights : flight' = [flight EXCEPT ![t] = [auto |-> NoFlight, init |-> f]]
      BY <1>s, <2>0, <2>2, TokenType, Empty
    <3>2. [auto |-> NoFlight, init |-> f] \in [Kinds -> Flights]
      BY Empty DEF Kinds
    <3> QED
      BY <1>0, <3>1, <3>2 DEF FlightTables
  <2>5. HistoryType'
    <3> DEFINE lost == UNION {Dropped(flight[t][k]) : k \in Kinds}
               risk == IF refresh THEN Risk(saved.tokens) ELSE {}
    <3>1. lost \subseteq Causes
      <4> SUFFICES ASSUME NEW x \in lost PROVE x \in Causes
        OBVIOUS
      <4>1. PICK k \in Kinds : x \in Dropped(flight[t][k])
        OBVIOUS
      <4> QED
        BY <4>1, CauseType
    <3>2. risk \subseteq Causes
      BY CauseType
    <3>3. causes' = causes \cup lost \cup risk
      BY <2>2
    <3> HIDE DEF lost, risk
    <3>4. causes' \subseteq Causes
      BY <1>0, <3>1, <3>2, <3>3 DEF HistoryType
    <3> QED
      BY <1>0, <1>1, <3>4 DEF Load, HistoryType
  <2>6. ServerType'
    <3>1. \A f \in {flight[t][k] : k \in Kinds} : f \in Flights
      BY <1>0 DEF FlightTables
    <3>2. adrift' \subseteq Flights
      BY <1>0, <1>1, <3>1, GiveUpMoves DEF Load, ServerType
    <3> QED
      BY <1>0, <1>1, <3>2 DEF Load, server, ServerType
  <2> QED
    BY <2>1, <2>3, <2>4, <2>5, <2>6, TypeParts
<1>2. CASE Login(t)
  <2>1. issued' \in Pairs /\ issued + 1 \in Pairs
    BY <1>0, <1>2, Numbers DEF Login, ServerType
  <2>2. StoreType'
    <3>1. [user |-> TRUE, tokens |-> Tokens(issued + 1)] \in Stores
      BY <1>s, <2>1, TokenType DEF Stores
    <3>2. SetStore(t, [user |-> TRUE, tokens |-> Tokens(issued + 1)]) /\ jar' = issued + 1
      BY <1>2 DEF Login, SetCookies
    <3> QED
      BY <1>0, <2>1, <3>1, <3>2, StoreMove
  <2>3. ServerType' /\ call' \in CallTables /\ flight' \in FlightTables /\ HistoryType'
    BY <1>0, <1>2, <2>1 DEF Login, ServerType, HistoryType
  <2> QED
    BY <2>2, <2>3, TypeParts
<1>3. CASE ClearCookies(t)
  <2>1. StoreType'
    BY <1>0, <1>3, Numbers DEF ClearCookies, StoreType
  <2>2. ServerType' /\ call' \in CallTables /\ flight' \in FlightTables /\ HistoryType'
    BY <1>0, <1>3 DEF ClearCookies, server, history, ServerType, HistoryType
  <2> QED
    BY <2>1, <2>2, TypeParts
<1>5. CASE ClearStore(t)
  <2>1. StoreType'
    <3>1. SetStore(t, SignedOut) /\ jar' \in Pairs
      BY <1>5, <1>s DEF ClearStore, LogoutStore
    <3> QED
      BY <1>0, <3>1, StoreMove, Empty
  <2>2. HistoryType'
    BY <1>0, <1>5 DEF ClearStore, HistoryType
  <2>3. ServerType' /\ call' \in CallTables /\ flight' \in FlightTables
    BY <1>0, <1>5 DEF ClearStore, server, ServerType
  <2> QED
    BY <2>1, <2>2, <2>3, TypeParts
<1>4. ASSUME NEW c \in Calls, Request(t, c) PROVE TypeOK'
  <2>1. [at |-> "sent", pair |-> Attached(store[t].tokens)] \in CallStates
    BY <1>s, TokenType DEF CallStates
  <2>2. call' \in CallTables
    BY <1>0, <1>4, <2>1, CallMove DEF Request
  <2>3. ServerType' /\ StoreType' /\ flight' \in FlightTables /\ HistoryType'
    BY <1>0, <1>4 DEF Request, server, history, ServerType, StoreType, HistoryType
  <2> QED
    BY <2>2, <2>3, TypeParts
<1> QED
  BY <1>1, <1>2, <1>3, <1>4, <1>5 DEF UserNext

LEMMA TypeStep == TypeOK /\ [Next]_vars => TypeOK'
<1> SUFFICES ASSUME TypeOK, [Next]_vars PROVE TypeOK'
  OBVIOUS
<1>0. ServerType /\ StoreType /\ call \in CallTables /\ flight \in FlightTables /\ HistoryType
  BY TypeParts
<1>1. CASE Expire
  <2>1. expired' \in Pairs
    BY <1>0, <1>1, TokenAssumption DEF Expire, ServerType, Pairs, TokenAssumption
  <2> QED
    BY <1>0, <1>1, <2>1, TypeParts DEF Expire, ServerType, StoreType, HistoryType, client, history
<1>2. CASE UNCHANGED vars
  BY <1>0, <1>2, TypeParts DEF vars, server, client, history, ServerType, StoreType, HistoryType
<1> QED
  BY <1>1, <1>2, CallStep, RefreshStep, AdriftStep, UserStep DEF Next

\* Requests, refreshes, stores and cookies keep their types.
THEOREM TypeCorrect == Spec => []TypeOK
  BY InitType, TypeStep, PTL DEF Spec

-----------------------------------------------------------------------------
(* A sign-out holds.                                                       *)

\* A refresh that can bring nothing: the server refused it or will, for it presents no token.
Harmless(f) == f.at \in {"none", "refused"} \/ (f.at = "sent" /\ f.jti = 0)

Quiet ==
  /\ jar = 0 /\ saved.tokens = 0 /\ \A t \in Tabs : store[t].tokens = 0
  /\ \A t \in Tabs, k \in Kinds : Harmless(flight[t][k]) \/ <<t, k>> \in late

SignOutInv == TypeOK /\ (ended => Quiet)

\* A store that is replaced by one without tokens, cookies and refreshes kept.
LEMMA StoreQuiet ==
  ASSUME TypeOK, Quiet, NEW t \in Tabs, NEW s \in Stores, s.tokens = 0, SetStore(t, s), jar' = jar
  PROVE  jar' = 0 /\ saved'.tokens = 0 /\ \A u \in Tabs : store'[u].tokens = 0
BY DEF TypeOK, Quiet, SetStore

LEMMA FlightQuiet ==
  ASSUME TypeOK, Quiet, NEW t \in Tabs, NEW k \in Kinds, NEW f \in Flights, Harmless(f),
         flight' = [flight EXCEPT ![t][k] = f], late \ {<<t, k>>} \subseteq late'
  PROVE  \A u \in Tabs, j \in Kinds : Harmless(flight'[u][j]) \/ <<u, j>> \in late'
BY DEF TypeOK, Quiet

\* The last sign-out leaves tokens in no cookie and no store, and every refresh under way is late.
LEMMA ClearsAll == ASSUME TypeOK, ended', NEW t \in Tabs, ClearStore(t) PROVE Quiet'
<1>1. /\ jar' = 0 /\ flight' = flight /\ \A u \in Tabs \ {t} : store[u].tokens = 0
      /\ late' = {w \in Tabs \X Kinds : UnderWay(flight[w[1]][w[2]])}
  BY DEF ClearStore
<1>2. saved'.tokens = 0 /\ \A u \in Tabs : store'[u].tokens = 0
  <2>1. store' = [store EXCEPT ![t] = SignedOut] /\ saved' = SignedOut
    BY DEF ClearStore, LogoutStore, SetStore
  <2> QED
    BY <1>1, <2>1 DEF SignedOut, TypeOK
<1>3. ASSUME NEW u \in Tabs, NEW k \in Kinds, <<u, k>> \notin late'
      PROVE  Harmless(flight'[u][k])
  <2>1. ~UnderWay(flight[u][k])
    BY <1>1, <1>3
  <2>2. flight[u][k].at \in {"none", "sent", "checked", "rotated", "refused"}
    BY DEF TypeOK, Flights
  <2> QED
    BY <1>1, <2>1, <2>2 DEF UnderWay, Harmless
<1> QED
  BY <1>1, <1>2, <1>3 DEF Quiet

\* With no token but in the refreshes that are late, a step brings none, but for a sign-in and
\* the answer to one of them.
LEMMA QuietStep == ASSUME TypeOK, Quiet, ended, [Next]_vars, ended' PROVE Quiet'
<1>0. /\ jar = 0 /\ saved.tokens = 0 /\ \A t \in Tabs : store[t].tokens = 0
      /\ \A t \in Tabs, k \in Kinds : Harmless(flight[t][k]) \/ <<t, k>> \in late
      /\ store \in [Tabs -> Stores] /\ saved \in Stores /\ flight \in FlightTables
  BY DEF TypeOK, Quiet, FlightTables
<1>n. /\ SignedOut.tokens = 0 /\ Harmless(NoFlight) /\ Harmless(Refusal)
      /\ SignedOut \in Stores /\ NoFlight \in Flights /\ Refusal \in Flights
  BY Empty DEF SignedOut, NoFlight, Refusal, Harmless
<1>r. Refresh(0) \in Flights /\ Harmless(Refresh(0))
  BY <1>0, Numbers DEF Refresh, Presented, Flights, Harmless
<1>1. ASSUME NEW t \in Tabs, NEW c \in Calls, Answer(t, c) PROVE Quiet'
  <2>1. CASE c = Me
    <3>1. [store[t] EXCEPT !.user = TRUE] \in Stores
      BY <1>0 DEF Stores
    <3>2. [store[t] EXCEPT !.user = TRUE].tokens = 0
      BY <1>0 DEF Stores
    <3> QED
      BY <1>0, <1>1, <2>1, <3>1, <3>2, StoreQuiet DEF Answer, Quiet, history
  <2>2. CASE c # Me
    BY <1>0, <1>1, <2>2 DEF Answer, Quiet, history
  <2> QED
    BY <2>1, <2>2
<1>2. ASSUME NEW t \in Tabs, NEW c \in Calls, Refused(t, c) PROVE Quiet'
  <2>0. UNCHANGED <<jar, store, saved, late>>
        /\ flight' = [flight EXCEPT ![t]["auto"] = SharedRefresh(t)] /\ "auto" \in Kinds
    BY <1>2 DEF Refused, Kinds
  <2>1. CASE flight[t]["auto"].at # "none"
    <3>1. flight' = flight
      BY <1>0, <2>0, <2>1 DEF SharedRefresh, FlightTables
    <3> QED
      BY <1>0, <2>0, <3>1 DEF Quiet
  <2>2. CASE flight[t]["auto"].at = "none"
    <3>1. SharedRefresh(t) \in Flights /\ Harmless(SharedRefresh(t))
      BY <1>0, <1>r, <2>2 DEF SharedRefresh
    <3>2. \A u \in Tabs, j \in Kinds : Harmless(flight'[u][j]) \/ <<u, j>> \in late'
      BY <2>0, <3>1, FlightQuiet
    <3> QED
      BY <1>0, <2>0, <3>2 DEF Quiet
  <2> QED
    BY <2>1, <2>2
<1>3. ASSUME NEW t \in Tabs, NEW c \in Calls, RefusedAgain(t, c) PROVE Quiet'
  BY <1>0, <1>3, <1>n, StoreQuiet DEF RefusedAgain, Quiet, history
<1>4. ASSUME NEW t \in Tabs, NEW k \in Kinds, CheckRefresh(t, k) PROVE Quiet'
  <2>1. PICK error \in RedisErrors, verdict \in {"refused", "stolen", "checked"} :
          /\ verdict \in Verdicts(flight[t][k], error)
          /\ flight' = [flight EXCEPT ![t][k] =
                          IF verdict = "checked" THEN [@ EXCEPT !.at = "checked"] ELSE Refusal]
          /\ Judge(verdict, error)
    BY <1>4, VerdictType, ErrorType DEF CheckRefresh
  <2>2. flight[t][k] \in Flights /\ flight[t][k].at = "sent"
    BY <1>0, <1>4 DEF CheckRefresh, FlightTables
  <2>3. UNCHANGED <<jar, store, saved, late>>
    BY <2>1 DEF Judge
  <2>4. CASE verdict # "checked"
    <3>1. flight' = [flight EXCEPT ![t][k] = Refusal]
      BY <2>1, <2>4
    <3>2. \A u \in Tabs, j \in Kinds : Harmless(flight'[u][j]) \/ <<u, j>> \in late'
      BY <1>n, <2>3, <3>1, FlightQuiet
    <3> QED
      BY <1>0, <2>3, <3>2 DEF Quiet
  <2>5. CASE verdict = "checked"
    <3>1. flight[t][k].jti # 0
      BY <2>1, <2>5, VerdictType, ErrorType
    <3>2. <<t, k>> \in late
      BY <1>0, <2>2, <3>1 DEF Harmless
    <3>3. \A u \in Tabs, j \in Kinds : u # t \/ j # k => flight'[u][j] = flight[u][j]
      BY <1>0, <2>1 DEF FlightTables
    <3> QED
      BY <1>0, <2>3, <3>2, <3>3 DEF Quiet
  <2> QED
    BY <2>4, <2>5
<1>5. ASSUME NEW t \in Tabs, NEW k \in Kinds, Rotate(t, k) PROVE Quiet'
  <2>1. UNCHANGED <<jar, store, saved, late>> /\ flight[t][k].at = "checked"
        /\ flight' = [flight EXCEPT ![t][k].at = "rotated", ![t][k].new = issued + 1]
    BY <1>5 DEF Rotate, Replace
  <2>2. <<t, k>> \in late
    BY <1>0, <2>1 DEF Harmless
  <2>3. \A u \in Tabs, j \in Kinds : u # t \/ j # k => flight'[u][j] = flight[u][j]
    BY <1>0, <2>1 DEF FlightTables
  <2> QED
    BY <1>0, <2>1, <2>2, <2>3 DEF Quiet
<1>6. ASSUME NEW t \in Tabs, NEW k \in Kinds, Refreshed(t, k) PROVE FALSE
  BY <1>0, <1>6 DEF Refreshed, Harmless
<1>7. ASSUME NEW t \in Tabs, NEW k \in Kinds, RefreshFailed(t, k) PROVE Quiet'
  <2>1. \A u \in Tabs, j \in Kinds : Harmless(flight'[u][j]) \/ <<u, j>> \in late'
    BY <1>7, <1>n, FlightQuiet DEF RefreshFailed
  <2>2. jar' = 0 /\ saved'.tokens = 0 /\ \A u \in Tabs : store'[u].tokens = 0
    <3>1. jar' = jar /\ (SetStore(t, SignedOut) \/ UNCHANGED <<store, saved>>)
      BY <1>7 DEF RefreshFailed
    <3> QED
      BY <1>0, <1>n, <3>1, StoreQuiet
  <2> QED
    BY <2>1, <2>2 DEF Quiet
<1>8. ASSUME NEW t \in Tabs, Load(t) PROVE Quiet'
  <2>1. flight' = [flight EXCEPT ![t] = [auto |-> NoFlight, init |-> NoFlight]]
    BY <1>0, <1>8 DEF Load
  <2>2. late' = late \ ({t} \X Kinds)
    BY <1>8 DEF Load
  <2>3. ASSUME NEW u \in Tabs, NEW j \in Kinds
        PROVE  Harmless(flight'[u][j]) \/ <<u, j>> \in late'
    <3>1. CASE u = t
      <4>1. flight'[t][j] = NoFlight
        BY <1>0, <2>1 DEF FlightTables, Kinds
      <4> QED
        BY <1>n, <3>1, <4>1
    <3>2. CASE u # t
      <4>1. flight'[u] = flight[u] /\ (<<u, j>> \in late => <<u, j>> \in late')
        BY <1>0, <2>1, <2>2, <3>2 DEF FlightTables
      <4> QED
        BY <1>0, <4>1
    <3> QED
      BY <3>1, <3>2
  <2>4. jar' = jar /\ saved' = saved /\ store' = [store EXCEPT ![t] = saved]
    BY <1>8 DEF Load
  <2> QED
    BY <1>0, <2>3, <2>4 DEF Quiet
<1>9. ASSUME NEW t \in Tabs, ClearCookies(t) PROVE Quiet'
  BY <1>0, <1>9 DEF ClearCookies, Quiet, history
<1>10. ASSUME NEW t \in Tabs, NEW c \in Calls, Fail(t, c) \/ Request(t, c) PROVE Quiet'
  BY <1>0, <1>10 DEF Fail, Request, Quiet, history
<1>11. ASSUME NEW t \in Tabs, Login(t) PROVE FALSE
  BY <1>11 DEF Login
<1>12. ASSUME Expire \/ UNCHANGED vars PROVE Quiet'
  BY <1>0, <1>12 DEF Expire, vars, client, history, Quiet
<1>13. ASSUME AdriftNext PROVE Quiet'
  <2>1. UNCHANGED <<jar, store, saved, flight, late>>
    BY <1>13 DEF AdriftNext, CheckAdrift, RotateAdrift, Judge, Replace
  <2> QED
    BY <1>0, <2>1 DEF Quiet
<1>14. ASSUME NEW t \in Tabs, ClearStore(t) PROVE Quiet'
  BY <1>14, ClearsAll
<1> QED
  BY <1>1, <1>2, <1>3, <1>4, <1>5, <1>6, <1>7, <1>8, <1>9, <1>10, <1>11, <1>12, <1>13, <1>14
     DEF Next, CallNext, RefreshNext, UserNext

\* Only the sign-out of the last tab with tokens sets "ended".
LEMMA EndedStep == ASSUME TypeOK, ~ended, [Next]_vars, ended' PROVE Quiet'
<1>1. ASSUME NEW t \in Tabs, CallNext(t) PROVE UNCHANGED ended
  BY <1>1 DEF CallNext, Answer, Refused, RefusedAgain, Fail, history
<1>2. ASSUME NEW t \in Tabs, RefreshNext(t) PROVE ended' => ended
  <2>1. PICK k \in Kinds : \/ CheckRefresh(t, k) \/ Rotate(t, k)
                           \/ Refreshed(t, k) \/ RefreshFailed(t, k)
    BY <1>2 DEF RefreshNext
  <2>2. CheckRefresh(t, k) \/ Rotate(t, k) => UNCHANGED ended
    BY DEF CheckRefresh, Rotate, Judge, Replace
  <2>3. Refreshed(t, k) \/ RefreshFailed(t, k) => (ended' => ended)
    BY DEF Refreshed, RefreshFailed
  <2> QED
    BY <2>1, <2>2, <2>3
<1>3. ASSUME NEW t \in Tabs, UserNext(t), ~ClearStore(t) PROVE ended' => ended
  BY <1>3 DEF UserNext, Load, Login, Request, ClearCookies, history
<1>4. Expire \/ UNCHANGED vars => UNCHANGED ended
  BY DEF Expire, vars, history
<1>5. AdriftNext => UNCHANGED ended
  BY DEF AdriftNext, CheckAdrift, RotateAdrift, Judge, Replace
<1>6. PICK t \in Tabs : ClearStore(t)
  BY <1>1, <1>2, <1>3, <1>4, <1>5 DEF Next
<1> QED
  BY <1>6, ClearsAll

\* Once the last tab has cleared its store and the cookies are gone, no tab, open request, page
\* load or new refresh brings tokens back, for any number of tabs: only the answer to a refresh
\* that was under way then does, which logout() neither waits for nor calls off.
THEOREM NothingSignsBackIn == Spec => []SignOutHolds
<1>1. Init => SignOutInv
  BY InitType DEF Init, SignOutInv
<1>2. SignOutInv /\ [Next]_vars => SignOutInv'
  BY TypeStep, QuietStep, EndedStep DEF SignOutInv
<1>3. SignOutInv => SignOutHolds
  BY DEF SignOutInv, Quiet, SignOutHolds
<1> QED
  BY <1>1, <1>2, <1>3, PTL DEF Spec

-----------------------------------------------------------------------------
(* Nobody waits for a refresh that nobody makes.                           *)

LEMMA WaiterStep ==
  ASSUME TypeOK, WaiterHasRefresh, [Next]_vars, NEW u \in Tabs, NEW d \in Calls,
         call'[u][d].at = "waiting"
  PROVE  flight'[u]["auto"].at # "none"
<1>0. /\ call[u][d].at = "waiting" => flight[u]["auto"].at # "none"
      /\ call \in CallTables /\ flight \in FlightTables /\ "auto" \in Kinds
  BY DEF WaiterHasRefresh, TypeOK, CallTables, FlightTables, Kinds
<1>1. ASSUME NEW t \in Tabs, NEW c \in Calls, Answer(t, c) \/ RefusedAgain(t, c) \/ Fail(t, c)
      PROVE  flight'[u]["auto"].at # "none"
  <2>1. flight' = flight /\ call' = [call EXCEPT ![t][c] = NoCall]
    BY <1>1 DEF Answer, RefusedAgain, Fail
  <2> QED
    BY <1>0, <2>1 DEF CallTables, NoCall
<1>2. ASSUME NEW t \in Tabs, NEW c \in Calls, Refused(t, c) PROVE flight'[u]["auto"].at # "none"
  <2>1. SharedRefresh(t).at # "none"
    BY DEF SharedRefresh, Refresh
  <2>2. CASE u = t
    BY <1>0, <1>2, <2>1, <2>2 DEF Refused, FlightTables
  <2>3. CASE u # t
    BY <1>0, <1>2, <2>3 DEF Refused, CallTables, FlightTables
  <2> QED
    BY <2>2, <2>3
<1>3. ASSUME NEW t \in Tabs, NEW k \in Kinds, CheckRefresh(t, k) \/ Rotate(t, k)
      PROVE  flight'[u]["auto"].at # "none"
  <2>1. call' = call
    BY <1>3 DEF CheckRefresh, Rotate, Judge, Replace
  <2>2. flight'[u]["auto"].at \in {flight[u]["auto"].at, "refused", "checked", "rotated"}
    <3>1. CASE CheckRefresh(t, k)
      <4>1. PICK f \in Flights :
              f.at \in {"checked", "refused"} /\ flight' = [flight EXCEPT ![t][k] = f]
        <5>1. [flight[t][k] EXCEPT !.at = "checked"] \in Flights
              /\ [flight[t][k] EXCEPT !.at = "checked"].at = "checked"
          BY <1>0 DEF FlightTables, Flights
        <5>2. \/ flight' = [flight EXCEPT ![t][k] = [flight[t][k] EXCEPT !.at = "checked"]]
              \/ flight' = [flight EXCEPT ![t][k] = Refusal]
          BY <3>1 DEF CheckRefresh
        <5> QED
          BY <5>1, <5>2, Empty DEF Refusal
      <4> QED
        BY <1>0, <4>1 DEF FlightTables
    <3>2. CASE Rotate(t, k)
      BY <1>0, <3>2 DEF Rotate, FlightTables, Flights
    <3> QED
      BY <1>3, <3>1, <3>2
  <2> QED
    BY <1>0, <2>1, <2>2
<1>4. ASSUME NEW t \in Tabs, NEW k \in Kinds, Refreshed(t, k) \/ RefreshFailed(t, k)
      PROVE  flight'[u]["auto"].at # "none"
  <2>1. flight' = [flight EXCEPT ![t][k] = NoFlight]
    BY <1>4 DEF Refreshed, RefreshFailed
  <2>2. CASE u # t
    <3>1. call'[u] = call[u]
      BY <1>0, <1>4, <2>2 DEF Refreshed, RefreshFailed, CallTables
    <3> QED
      BY <1>0, <2>1, <2>2, <3>1 DEF FlightTables
  <2>3. CASE u = t /\ k = "auto"
    <3>1. call'[u][d].at # "waiting"
      <4>1. CASE Refreshed(t, k)
        BY <1>0, <2>3, <4>1 DEF Refreshed, CallTables
      <4>2. CASE RefreshFailed(t, k)
        BY <1>0, <2>3, <4>2 DEF RefreshFailed, Rejected, NoCall, CallTables
      <4> QED
        BY <1>4, <4>1, <4>2
    <3> QED
      BY <3>1
  <2>4. CASE u = t /\ k # "auto"
    <3>1. call'[u][d].at = "waiting" => call[u][d].at = "waiting"
      <4>1. CASE Refreshed(t, k)
        BY <1>0, <2>4, <4>1 DEF Refreshed, CallTables
      <4>2. CASE RefreshFailed(t, k)
        BY <1>0, <2>4, <4>2 DEF RefreshFailed, Rejected, CallTables
      <4> QED
        BY <1>4, <4>1, <4>2
    <3>2. flight'[u]["auto"] = flight[u]["auto"]
      BY <1>0, <2>1, <2>4 DEF FlightTables
    <3> QED
      BY <1>0, <3>1, <3>2
  <2> QED
    BY <2>2, <2>3, <2>4
<1>5. ASSUME NEW t \in Tabs, Load(t) PROVE flight'[u]["auto"].at # "none"
  <2>1. CASE u = t
    BY <1>0, <1>5, <2>1 DEF Load, CallTables, NoCall
  <2>2. CASE u # t
    BY <1>0, <1>5, <2>2 DEF Load, CallTables, FlightTables
  <2> QED
    BY <2>1, <2>2
<1>6. ASSUME NEW t \in Tabs, NEW c \in Calls, Request(t, c) PROVE flight'[u]["auto"].at # "none"
  BY <1>0, <1>6 DEF Request, CallTables
<1>7. ASSUME UNCHANGED <<call, flight>> PROVE flight'[u]["auto"].at # "none"
  BY <1>0, <1>7
<1>8. ASSUME \/ Expire \/ UNCHANGED vars
             \/ \E t \in Tabs : Login(t) \/ ClearCookies(t) \/ ClearStore(t)
             \/ AdriftNext
      PROVE  UNCHANGED <<call, flight>>
  <2>1. AdriftNext => UNCHANGED <<call, flight>>
    BY DEF AdriftNext, CheckAdrift, RotateAdrift, Judge, Replace
  <2> QED
    BY <1>8, <2>1 DEF Expire, vars, client, Login, ClearCookies, ClearStore
<1> QED
  BY <1>1, <1>2, <1>3, <1>4, <1>5, <1>6, <1>7, <1>8 DEF Next, CallNext, RefreshNext, UserNext

\* A request waits only while its tab has a refresh under way, for any number of tabs and
\* requests and whatever is lost, loaded or signed out in between.
THEOREM NobodyIsLeftWaiting == Spec => []WaiterHasRefresh
<1>1. Init => WaiterHasRefresh
  BY DEF Init, WaiterHasRefresh, NoCall
<1>2. TypeOK /\ WaiterHasRefresh /\ [Next]_vars => WaiterHasRefresh'
  BY WaiterStep DEF WaiterHasRefresh
<1> QED
  BY <1>1, <1>2, TypeCorrect, PTL DEF Spec

-----------------------------------------------------------------------------
(***************************************************************************)
(* The refresh token in the cookies counts, unless what will replace it is *)
(* under way, for any number of tabs, requests and pairs of tokens.  The   *)
(* pair of a rotation whose answer has not come is known to nobody: no     *)
(* cookie, store or refresh holds it, so that nothing can rotate it before *)
(* its answer puts it in the cookies.  And a token that comes twice, which *)
(* signs the user out everywhere, has a cause.                             *)
(***************************************************************************)

Rotating(t, k) == flight[t][k].at = "rotated"

\* Pair p is, or was, where a refresh can find it.
Seen(p) ==
  \/ p \in {0, jar, saved.tokens} \/ p \in rotated
  \/ \E t \in Tabs : store[t].tokens = p
  \/ \E t \in Tabs, k \in Kinds : flight[t][k].jti = p
  \/ \E f \in adrift : f.jti = p

\* No pair is seen before it is issued, nor that of a rotation before its answer has come.
Fresh ==
  /\ \A p \in Pairs : Seen(p) => p <= issued
  /\ \A t \in Tabs, k \in Kinds : Rotating(t, k) =>
       /\ flight[t][k].new <= issued
       /\ ~Seen(flight[t][k].new)
       /\ \A u \in Tabs, j \in Kinds :
            Rotating(u, j) /\ flight[u][j].new = flight[t][k].new => u = t /\ j = k

\* What passed the check presented a token, and so did what the server may still check:
\* refresh_token() refuses none.
Presents ==
  /\ 0 \notin rotated
  /\ \A f \in adrift : f.jti # 0
  /\ \A t \in Tabs, k \in Kinds : flight[t][k].at \in {"checked", "rotated"} => flight[t][k].jti # 0

Hurt == alarm \/ "lost" \in causes
\* A rotated token in the cookies is one whose rotation is still to be answered.
Replaced ==
  jar \in rotated => Hurt \/ \E t \in Tabs, k \in Kinds : Rotating(t, k) /\ flight[t][k].jti = jar

CookieInv == Fresh /\ Presents /\ Replaced /\ (~alarm => revoked = 0)

\* A step that issues and rotates nothing, puts no pair where it was not, and gives up no
\* rotation without noting it.
Harmful == alarm' \/ "lost" \in causes'
Plain ==
  /\ issued' = issued /\ rotated' = rotated /\ jar' \in {0, jar}
  /\ (Hurt => Harmful) /\ (alarm => alarm') /\ (revoked' = revoked \/ alarm')
  /\ \A p \in Pairs : Seen(p)' => Seen(p)
  /\ \A f \in adrift' : f.jti # 0
  /\ \A t \in Tabs, k \in Kinds :
       /\ Rotating(t, k)' => Rotating(t, k) /\ flight'[t][k] = flight[t][k]
       /\ Rotating(t, k) => Rotating(t, k)' \/ Harmful
       /\ flight'[t][k].at = "checked" => flight'[t][k].jti # 0

LEMMA PlainStep ==
  ASSUME TypeOK, CookieInv, Plain PROVE CookieInv'
<1>1. \A t \in Tabs, k \in Kinds : flight[t][k].new \in Pairs
  BY DEF TypeOK, Flights
<1>2. Fresh'
  <2>1. \A p \in Pairs : Seen(p)' => p <= issued'
    BY DEF Plain, CookieInv, Fresh
  <2>2. ASSUME NEW t \in Tabs, NEW k \in Kinds, Rotating(t, k)'
        PROVE  /\ flight'[t][k].new <= issued'
               /\ ~Seen(flight[t][k].new)'
               /\ \A u \in Tabs, j \in Kinds :
                    Rotating(u, j)' /\ flight'[u][j].new = flight'[t][k].new => u = t /\ j = k
    <3>1. Rotating(t, k) /\ flight'[t][k] = flight[t][k]
      BY <2>2 DEF Plain
    <3>2. PICK n \in Pairs : n = flight[t][k].new
      BY <1>1
    <3>3. n <= issued /\ ~Seen(n)
      BY <3>1, <3>2 DEF CookieInv, Fresh
    <3>4. ~Seen(n)'
      BY <3>3 DEF Plain
    <3>5. ~Seen(flight[t][k].new)'
      BY <3>1, <3>2, <3>4 DEF Seen
    <3>6. ASSUME NEW u \in Tabs, NEW j \in Kinds, Rotating(u, j)',
                 flight'[u][j].new = flight'[t][k].new
          PROVE  u = t /\ j = k
      <4>1. Rotating(u, j) /\ flight'[u][j] = flight[u][j]
        BY <3>6 DEF Plain
      <4> QED
        BY <3>1, <3>6, <4>1 DEF CookieInv, Fresh
    <3> QED
      BY <3>1, <3>2, <3>3, <3>5, <3>6 DEF Plain
  <2> QED
    BY <2>1, <2>2 DEF Fresh
<1>3. Presents'
  BY DEF Plain, CookieInv, Presents, Rotating
<1>4. Replaced'
  <2>1. CASE Harmful
    BY <2>1 DEF Replaced, Hurt, Harmful
  <2>2. CASE ~Harmful
    <3>1. jar' \in rotated' => jar' = jar /\ jar \in rotated
      BY DEF Plain, CookieInv, Presents
    <3>2. ASSUME jar \in rotated
          PROVE  \E t \in Tabs, k \in Kinds : Rotating(t, k)' /\ flight'[t][k].jti = jar
      <4>1. PICK t \in Tabs, k \in Kinds : Rotating(t, k) /\ flight[t][k].jti = jar
        BY <2>2, <3>2 DEF Plain, CookieInv, Replaced
      <4>2. Rotating(t, k)' /\ flight'[t][k] = flight[t][k]
        BY <2>2, <4>1 DEF Plain
      <4> QED
        BY <4>1, <4>2
    <3> QED
      BY <3>1, <3>2 DEF Replaced
  <2> QED
    BY <2>1, <2>2
<1>5. ~alarm' => revoked' = 0
  BY DEF Plain, CookieInv
<1> QED
  BY <1>2, <1>3, <1>4, <1>5 DEF CookieInv

\* Plain steps by what they change.
LEMMA PlainFlight ==
  ASSUME TypeOK, Presents, UNCHANGED <<issued, expired, rotated, jar>>,
         NEW t \in Tabs, NEW k \in Kinds, NEW f \in Flights,
         flight' = [flight EXCEPT ![t][k] = f],
         Seen(f.jti), f.at # "rotated", f.at = "checked" => f.jti # 0,
         Rotating(t, k) => Harmful,
         \A p \in Pairs : p \in {saved'.tokens} \cup {store'[u].tokens : u \in Tabs} => Seen(p),
         \A g \in adrift' : Seen(g.jti) /\ g.jti # 0,
         Hurt => Harmful, alarm => alarm', revoked' = revoked \/ alarm'
  PROVE  Plain
<1>1. flight \in [Tabs -> [Kinds -> Flights]]
  BY DEF TypeOK
<1>2. flight'[t][k] = f /\ \A u \in Tabs, j \in Kinds : u # t \/ j # k => flight'[u][j] = flight[u][j]
  BY <1>1
<1>3. \A p \in Pairs : Seen(p)' => Seen(p)
  <2> SUFFICES ASSUME NEW p \in Pairs, Seen(p)' PROVE Seen(p)
    OBVIOUS
  <2>1. CASE \E u \in Tabs, j \in Kinds : flight'[u][j].jti = p
    <3>1. PICK u \in Tabs, j \in Kinds : flight'[u][j].jti = p
      BY <2>1
    <3>2. flight'[u][j] = flight[u][j] \/ flight'[u][j] = f
      BY <1>2
    <3>3. CASE flight'[u][j] = flight[u][j]
      BY <3>1, <3>3 DEF Seen
    <3>4. CASE flight'[u][j] = f
      BY <3>1, <3>4
    <3> QED
      BY <3>2, <3>3, <3>4
  <2>2. CASE p \in {0, jar} \cup rotated
    BY <2>2 DEF Seen
  <2>3. CASE p = saved'.tokens \/ \E u \in Tabs : store'[u].tokens = p
    BY <2>3
  <2>4. CASE \E g \in adrift' : g.jti = p
    BY <2>4
  <2> QED
    BY <2>1, <2>2, <2>3, <2>4 DEF Seen
<1>4. \A u \in Tabs, j \in Kinds :
       /\ Rotating(u, j)' => Rotating(u, j) /\ flight'[u][j] = flight[u][j]
       /\ Rotating(u, j) => Rotating(u, j)' \/ Harmful
       /\ flight'[u][j].at = "checked" => flight'[u][j].jti # 0
  BY <1>2 DEF Rotating, Presents
<1> QED
  BY <1>3, <1>4 DEF Plain

\* Nothing but the stores, whose tokens are seen, and the jar, which may be emptied.
LEMMA PlainStores ==
  ASSUME TypeOK, Presents, UNCHANGED <<issued, rotated, revoked, flight, adrift, alarm>>, jar' \in {0, jar},
         causes \subseteq causes',
         \A p \in Pairs : p \in {saved'.tokens} \cup {store'[u].tokens : u \in Tabs} => Seen(p)
  PROVE  Plain
<1>1. \A p \in Pairs : Seen(p)' => Seen(p)
  BY DEF Seen
<1>2. \A u \in Tabs, j \in Kinds :
       /\ Rotating(u, j)' => Rotating(u, j) /\ flight'[u][j] = flight[u][j]
       /\ Rotating(u, j) => Rotating(u, j)' \/ Harmful
       /\ flight'[u][j].at = "checked" => flight'[u][j].jti # 0
  BY DEF Rotating, Presents
<1> QED
  BY <1>1, <1>2 DEF Plain, Presents, Hurt, Harmful

\* What is adrift is seen, and so is what is given up.
LEMMA DriftKept ==
  ASSUME Presents
  PROVE  /\ adrift' = adrift => \A g \in adrift' : Seen(g.jti) /\ g.jti # 0
         /\ \A t \in Tabs : GiveUp({flight[t][k] : k \in Kinds}) =>
              \A g \in adrift' : Seen(g.jti) /\ g.jti # 0
         /\ \A t \in Tabs, k \in Kinds : GiveUp({flight[t][k]}) =>
              \A g \in adrift' : Seen(g.jti) /\ g.jti # 0
<1>1. \A g \in adrift : Seen(g.jti) /\ g.jti # 0
  BY DEF Seen, Presents
<1>2. \A t \in Tabs, k \in Kinds : Seen(flight[t][k].jti)
  BY DEF Seen
<1>3. ASSUME NEW t \in Tabs, GiveUp({flight[t][k] : k \in Kinds}), NEW g \in adrift'
      PROVE  Seen(g.jti) /\ g.jti # 0
  BY <1>1, <1>2, <1>3, GiveUpMoves
<1>4. ASSUME NEW t \in Tabs, NEW k \in Kinds, GiveUp({flight[t][k]}), NEW g \in adrift'
      PROVE  Seen(g.jti) /\ g.jti # 0
  BY <1>1, <1>2, <1>4, GiveUpMoves
<1> QED
  BY <1>1, <1>3, <1>4

\* The stores as they were, or one of them signed out.
LEMMA StoresKept ==
  ASSUME TypeOK
  PROVE  /\ UNCHANGED <<store, saved>> =>
              \A p \in Pairs : p \in {saved'.tokens} \cup {store'[u].tokens : u \in Tabs} => Seen(p)
         /\ \A t \in Tabs, s \in Stores : SetStore(t, s) /\ Seen(s.tokens) =>
              \A p \in Pairs : p \in {saved'.tokens} \cup {store'[u].tokens : u \in Tabs} => Seen(p)
<1>1. store \in [Tabs -> Stores]
  BY DEF TypeOK
<1>2. \A t \in Tabs : Seen(store[t].tokens)
  BY DEF Seen
<1>3. Seen(saved.tokens)
  BY DEF Seen
<1>4. UNCHANGED <<store, saved>> =>
        \A p \in Pairs : p \in {saved'.tokens} \cup {store'[u].tokens : u \in Tabs} => Seen(p)
  BY <1>2, <1>3
<1>5. ASSUME NEW t \in Tabs, NEW s \in Stores, SetStore(t, s), Seen(s.tokens), NEW p \in Pairs,
             p \in {saved'.tokens} \cup {store'[u].tokens : u \in Tabs}
      PROVE  Seen(p)
  <2>1. saved' = s /\ \A u \in Tabs : store'[u] = s \/ store'[u] = store[u]
    BY <1>1, <1>5 DEF SetStore
  <2> QED
    BY <1>2, <1>5, <2>1
<1> QED
  BY <1>4, <1>5

-----------------------------------------------------------------------------

LEMMA CookieCalls ==
  ASSUME TypeOK, CookieInv, NEW t \in Tabs, NEW c \in Calls,
         \/ Answer(t, c) \/ Refused(t, c) \/ RefusedAgain(t, c) \/ Fail(t, c) \/ Request(t, c)
  PROVE  CookieInv'
<1>0. store[t] \in Stores /\ Presents /\ Seen(store[t].tokens) /\ Seen(0) /\ jar \in Pairs
  BY DEF TypeOK, CookieInv, Seen
<1>1. CASE Answer(t, c)
  <2>1. UNCHANGED <<store, saved>> \/ SetStore(t, [store[t] EXCEPT !.user = TRUE])
    BY <1>1 DEF Answer
  <2>2. [store[t] EXCEPT !.user = TRUE] \in Stores /\ Seen([store[t] EXCEPT !.user = TRUE].tokens)
    BY <1>0 DEF Stores
  <2>3. \A p \in Pairs : p \in {saved'.tokens} \cup {store'[u].tokens : u \in Tabs} => Seen(p)
    BY <2>1, <2>2, StoresKept
  <2> QED
    BY <1>0, <1>1, <2>3, PlainStores, PlainStep DEF Answer, server, history
<1>2. CASE Refused(t, c)
  <2> DEFINE f == SharedRefresh(t)
  <2>1. /\ UNCHANGED <<server, jar, store, saved, adrift, alarm>> /\ flight' = [flight EXCEPT ![t]["auto"] = f]
        /\ causes \subseteq causes'
    BY <1>2 DEF Refused
  <2>2. "auto" \in Kinds /\ f \in Flights
    BY <1>0, TokenType DEF SharedRefresh, TypeOK, Kinds, Stores
  <2>3. CASE flight[t]["auto"].at # "none"
    <3>1. flight' = flight
      BY <2>1, <2>3 DEF SharedRefresh, TypeOK
    <3>2. \A p \in Pairs : p \in {saved'.tokens} \cup {store'[u].tokens : u \in Tabs} => Seen(p)
      BY <2>1, StoresKept
    <3> QED
      BY <1>0, <2>1, <3>1, <3>2, PlainStores, PlainStep DEF server
  <2>4. CASE flight[t]["auto"].at = "none"
    <3>1. f.at = "sent" /\ Seen(f.jti)
      BY <1>0, <2>4 DEF SharedRefresh, Refresh, Presented, Seen
    <3>2. \A p \in Pairs : p \in {saved'.tokens} \cup {store'[u].tokens : u \in Tabs} => Seen(p)
      BY <2>1, StoresKept
    <3>3. ~Rotating(t, "auto")
      BY <2>4 DEF Rotating
    <3>4. (Hurt => Harmful) /\ (alarm => alarm') /\ revoked' = revoked
          /\ UNCHANGED <<issued, expired, rotated, jar>>
      BY <2>1 DEF Hurt, Harmful, server
    <3> HIDE DEF f
    <3>5. Plain
      BY <1>0, <2>1, <2>2, <3>1, <3>2, <3>3, <3>4, DriftKept, PlainFlight
    <3> QED
      BY <3>5, PlainStep
  <2> QED
    BY <2>3, <2>4
<1>3. CASE RefusedAgain(t, c)
  <2>1. \A p \in Pairs : p \in {saved'.tokens} \cup {store'[u].tokens : u \in Tabs} => Seen(p)
    BY <1>0, <1>3, Empty, StoresKept DEF RefusedAgain, SignedOut
  <2> QED
    BY <1>0, <1>3, <2>1, PlainStores, PlainStep DEF RefusedAgain, server, history
<1>4. CASE Fail(t, c) \/ Request(t, c)
  <2>1. \A p \in Pairs : p \in {saved'.tokens} \cup {store'[u].tokens : u \in Tabs} => Seen(p)
    BY <1>4, StoresKept DEF Fail, Request
  <2> QED
    BY <1>0, <1>4, <2>1, PlainStores, PlainStep DEF Fail, Request, server, history
<1> QED
  BY <1>1, <1>2, <1>3, <1>4

\* The answers of the server and what a tab does with them, but for a new pair.
LEMMA CookieRefreshes ==
  ASSUME TypeOK, CookieInv, NEW t \in Tabs, NEW k \in Kinds,
         CheckRefresh(t, k) \/ RefreshFailed(t, k)
  PROVE  CookieInv'
<1>0. /\ Presents /\ Seen(0) /\ flight[t][k] \in Flights
      /\ flight \in [Tabs -> [Kinds -> Flights]]
  BY DEF TypeOK, CookieInv, Seen
<1>1. CASE CheckRefresh(t, k)
  <2>1. PICK error \in RedisErrors, verdict \in {"refused", "stolen", "checked"} :
          /\ verdict \in Verdicts(flight[t][k], error)
          /\ flight' = [flight EXCEPT ![t][k] =
                          IF verdict = "checked" THEN [@ EXCEPT !.at = "checked"] ELSE Refusal]
          /\ Judge(verdict, error)
    BY <1>1, VerdictType, ErrorType DEF CheckRefresh
  <2> DEFINE f == IF verdict = "checked" THEN [flight[t][k] EXCEPT !.at = "checked"] ELSE Refusal
  <2>2. flight' = [flight EXCEPT ![t][k] = f]
    BY <2>1
  <2>3. /\ f \in Flights /\ f.at \in {"checked", "refused"} /\ f.jti \in {0, flight[t][k].jti}
        /\ f.at = "checked" => f.jti = flight[t][k].jti /\ verdict = "checked"
    BY <1>0, Empty DEF Flights, Refusal
  <2>4. Seen(f.jti)
    BY <1>0, <2>3 DEF Seen
  <2>5. UNCHANGED <<issued, expired, rotated, jar, store, saved>> /\ adrift' = adrift
    BY <1>1, <2>1 DEF Judge, CheckRefresh
  <2>6. \A p \in Pairs : p \in {saved'.tokens} \cup {store'[u].tokens : u \in Tabs} => Seen(p)
    BY <2>5, StoresKept
  <2>7. (Hurt => Harmful) /\ (alarm => alarm') /\ (revoked' = revoked \/ alarm')
    BY <2>1 DEF Hurt, Harmful, Judge
  <2>8. ~Rotating(t, k) /\ f.at # "rotated"
    BY <1>1, <2>3 DEF Rotating, CheckRefresh
  <2>9. f.at = "checked" => f.jti # 0
    BY <2>1, <2>3, VerdictType, ErrorType
  <2> HIDE DEF f
  <2>10. Plain
    BY <1>0, <2>2, <2>3, <2>4, <2>5, <2>6, <2>7, <2>8, <2>9, DriftKept, PlainFlight
  <2> QED
    BY <2>10, PlainStep
<1>2. CASE RefreshFailed(t, k)
  <2>1. /\ flight' = [flight EXCEPT ![t][k] = NoFlight]
        /\ SetStore(t, SignedOut) \/ UNCHANGED <<store, saved>>
        /\ causes' = causes \cup Dropped(flight[t][k])
        /\ GiveUp({flight[t][k]})
        /\ UNCHANGED <<server, jar, alarm>>
    BY <1>2 DEF RefreshFailed
  <2>2. \A p \in Pairs : p \in {saved'.tokens} \cup {store'[u].tokens : u \in Tabs} => Seen(p)
    BY <1>0, <2>1, Empty, StoresKept DEF SignedOut
  <2>3. /\ Seen(NoFlight.jti) /\ NoFlight.at # "rotated" /\ NoFlight.at # "checked"
        /\ NoFlight \in Flights
    BY <1>0, Empty DEF NoFlight
  <2>4. Rotating(t, k) => Harmful
    BY <2>1 DEF Rotating, Dropped, Harmful
  <2>5. (Hurt => Harmful) /\ (alarm => alarm') /\ revoked' = revoked
        /\ UNCHANGED <<issued, expired, rotated, jar>>
    BY <2>1 DEF Hurt, Harmful, server
  <2>6. Plain
    BY <1>0, <2>1, <2>2, <2>3, <2>4, <2>5, DriftKept, PlainFlight
  <2> QED
    BY <2>6, PlainStep
<1> QED
  BY <1>1, <1>2

\* A rotation issues a pair that nobody has, and makes the one it rotates die: if that
\* is the cookie's, the rotation itself is what will replace it.
LEMMA CookieRotates ==
  ASSUME TypeOK, CookieInv, NEW t \in Tabs, NEW k \in Kinds, Rotate(t, k)
  PROVE  CookieInv'
<1> DEFINE f == [flight[t][k] EXCEPT !.at = "rotated", !.new = issued + 1]
<1>1. PICK error \in RedisErrors :
        /\ rotated' = IF error THEN rotated ELSE rotated \cup {flight[t][k].jti}
        /\ causes' = causes \cup Noted(error) \cup {}
  BY DEF Rotate, Replace
<1>2. /\ flight[t][k] \in Flights /\ flight \in [Tabs -> [Kinds -> Flights]]
      /\ issued \in Nat /\ issued + 1 \in Pairs /\ 0 \in Pairs
  BY Numbers, TokenAssumption DEF Rotate, Replace, TypeOK, Pairs, TokenAssumption
<1>3. /\ flight' = [flight EXCEPT ![t][k] = f] /\ issued' = issued + 1
      /\ UNCHANGED <<expired, revoked, jar, store, saved, call, adrift, alarm, ended>>
  BY <1>2 DEF Rotate, Replace
<1>4. f.at = "rotated" /\ f.new = issued + 1 /\ f.jti = flight[t][k].jti /\ f.jti # 0
  BY <1>2 DEF Flights, Rotate, CookieInv, Presents
<1>5. flight'[t][k] = f /\ \A u \in Tabs, j \in Kinds : u # t \/ j # k => flight'[u][j] = flight[u][j]
  BY <1>2, <1>3
<1> HIDE DEF f
<1>6. \A u \in Tabs, j \in Kinds : flight'[u][j].jti = flight[u][j].jti
  BY <1>4, <1>5
<1>7. \A p \in Pairs : Seen(p)' => Seen(p)
  BY <1>1, <1>3, <1>6 DEF Seen
<1>8. Fresh'
  <2>1. \A p \in Pairs : Seen(p)' => p <= issued'
    BY <1>2, <1>3, <1>7 DEF CookieInv, Fresh, Pairs
  <2>2. ~Seen(issued + 1)
    BY <1>2 DEF CookieInv, Fresh
  <2>3. PICK n \in Pairs : n = issued + 1
    BY <1>2
  <2>4. ASSUME NEW u \in Tabs, NEW j \in Kinds, Rotating(u, j)'
        PROVE  /\ flight'[u][j].new <= issued' /\ flight'[u][j].new \in Pairs
               /\ ~Seen(flight[u][j].new)'
               /\ flight'[u][j].new = n => u = t /\ j = k
               /\ u # t \/ j # k => Rotating(u, j) /\ flight'[u][j] = flight[u][j]
    <3>1. CASE u = t /\ j = k
      <4>1. flight'[u][j].new = n /\ ~Seen(n)'
        BY <1>4, <1>5, <1>7, <2>2, <2>3, <3>1
      <4> QED
        BY <1>2, <1>3, <2>3, <3>1, <4>1 DEF Seen
    <3>2. CASE u # t \/ j # k
      <4>1. flight'[u][j] = flight[u][j] /\ Rotating(u, j)
        BY <1>5, <2>4, <3>2 DEF Rotating
      <4>2. PICK m \in Pairs : m = flight[u][j].new
        BY DEF TypeOK, Flights
      <4>3. m <= issued /\ ~Seen(m)
        BY <4>1, <4>2 DEF CookieInv, Fresh
      <4>4. ~Seen(m)'
        BY <1>7, <4>3
      <4>5. ~Seen(flight[u][j].new)'
        BY <4>1, <4>2, <4>4 DEF Seen
      <4>6. m <= issued + 1 /\ m # issued + 1
        BY <1>2, <4>3 DEF Pairs
      <4> QED
        BY <1>3, <2>3, <3>2, <4>1, <4>2, <4>5, <4>6
    <3> QED
      BY <3>1, <3>2
  <2>5. ASSUME NEW u \in Tabs, NEW j \in Kinds, Rotating(u, j)',
               NEW v \in Tabs, NEW i \in Kinds, Rotating(v, i)',
               flight'[v][i].new = flight'[u][j].new
        PROVE  v = u /\ i = j
    <3>1. flight'[t][k].new = n
      BY <1>4, <1>5, <2>3
    <3>2. CASE u = t /\ j = k
      BY <2>4, <2>5, <3>1, <3>2
    <3>3. CASE v = t /\ i = k
      BY <2>4, <2>5, <3>1, <3>3
    <3>4. CASE (u # t \/ j # k) /\ (v # t \/ i # k)
      BY <2>4, <2>5, <3>4 DEF CookieInv, Fresh
    <3> QED
      BY <3>2, <3>3, <3>4
  <2> QED
    BY <2>1, <2>4, <2>5 DEF Fresh
<1>9. Presents'
  BY <1>1, <1>3, <1>4, <1>5 DEF CookieInv, Presents
<1>10. Replaced'
  <2>1. Hurt => Hurt'
    BY <1>1, <1>3 DEF Hurt
  <2>2. CASE jar \in rotated
    <3>1. CASE \E u \in Tabs, j \in Kinds : Rotating(u, j) /\ flight[u][j].jti = jar
      <4>1. PICK u \in Tabs, j \in Kinds : Rotating(u, j) /\ flight[u][j].jti = jar
        BY <3>1
      <4>2. Rotating(u, j)' /\ flight'[u][j].jti = jar
        BY <1>4, <1>5, <1>6, <4>1 DEF Rotating
      <4> QED
        BY <1>3, <4>2 DEF Replaced
    <3>2. CASE Hurt
      BY <2>1, <3>2 DEF Replaced
    <3> QED
      BY <2>2, <3>1, <3>2 DEF CookieInv, Replaced
  <2>3. CASE jar \notin rotated
    <3>1. jar' \in rotated' => f.jti = jar
      BY <1>1, <1>3, <1>4, <2>3
    <3>2. Rotating(t, k)' /\ flight'[t][k].jti = f.jti
      BY <1>4, <1>5 DEF Rotating
    <3> QED
      BY <1>3, <3>1, <3>2 DEF Replaced
  <2> QED
    BY <2>2, <2>3
<1> QED
  BY <1>3, <1>8, <1>9, <1>10 DEF CookieInv

\* A rotation for a tab that no longer listens brings a pair that nobody ever has.
LEMMA CookieDrifts ==
  ASSUME TypeOK, CookieInv, AdriftNext PROVE CookieInv'
<1>1. PICK f \in adrift : CheckAdrift(f) \/ RotateAdrift(f)
  BY DEF AdriftNext
<1>2. f \in Flights /\ f.jti \in Pairs /\ f.jti # 0 /\ Seen(f.jti) /\ Presents
  BY DEF TypeOK, Flights, CookieInv, Presents, Seen
<1>3. ASSUME NEW p \in Pairs, Seen(p)',
             \A g \in adrift' : Seen(g.jti),
             \A q \in rotated' : Seen(q),
             UNCHANGED <<jar, store, saved, flight>>
      PROVE  Seen(p)
  <2>1. CASE \E g \in adrift' : g.jti = p
    BY <1>3, <2>1
  <2>2. CASE p \in rotated'
    BY <1>3, <2>2
  <2>3. CASE \/ p \in {0, jar, saved.tokens}
             \/ \E t \in Tabs : store[t].tokens = p
             \/ \E t \in Tabs, k \in Kinds : flight[t][k].jti = p
    BY <2>3 DEF Seen
  <2> QED
    BY <1>3, <2>1, <2>2, <2>3 DEF Seen
<1>4. \A q \in rotated : Seen(q)
  BY DEF Seen
<1>5. \A g \in adrift : Seen(g.jti) /\ g.jti # 0
  BY <1>2 DEF Seen, Presents
<1>6. CASE CheckAdrift(f)
  <2>1. PICK error \in RedisErrors, verdict \in {"refused", "stolen", "checked"} :
          /\ adrift' = (adrift \ {f}) \cup
                       (IF verdict = "checked" THEN {[f EXCEPT !.at = "checked"]} ELSE {})
          /\ Judge(verdict, error)
    BY <1>6, VerdictType, ErrorType DEF CheckAdrift
  <2>2. [f EXCEPT !.at = "checked"].jti = f.jti
    BY <1>2 DEF Flights
  <2>3. \A g \in adrift' : Seen(g.jti) /\ g.jti # 0
    BY <1>2, <1>5, <2>1, <2>2
  <2>4. UNCHANGED <<issued, rotated, jar, store, saved, flight>>
    BY <1>6, <2>1 DEF CheckAdrift, Judge
  <2>5. \A p \in Pairs : Seen(p)' => Seen(p)
    BY <1>3, <1>4, <2>3, <2>4
  <2>6. (Hurt => Harmful) /\ (alarm => alarm') /\ (revoked' = revoked \/ alarm')
    BY <2>1 DEF Hurt, Harmful, Judge
  <2>7. \A u \in Tabs, j \in Kinds :
         /\ Rotating(u, j)' => Rotating(u, j) /\ flight'[u][j] = flight[u][j]
         /\ Rotating(u, j) => Rotating(u, j)' \/ Harmful
         /\ flight'[u][j].at = "checked" => flight'[u][j].jti # 0
    BY <1>2, <2>4 DEF Rotating, Presents
  <2>8. Plain
    BY <2>3, <2>4, <2>5, <2>6, <2>7 DEF Plain
  <2> QED
    BY <2>8, PlainStep
<1>7. CASE RotateAdrift(f)
  <2>1. /\ issued' = issued + 1 /\ rotated' \subseteq rotated \cup {f.jti} /\ rotated \subseteq rotated'
        /\ "lost" \in causes' /\ adrift' \subseteq adrift
        /\ UNCHANGED <<revoked, jar, store, saved, flight, alarm>>
    BY <1>7 DEF RotateAdrift, Replace
  <2>2. \A p \in Pairs : Seen(p)' => Seen(p)
    BY <1>2, <1>3, <1>4, <1>5, <2>1
  <2>3. issued \in Nat /\ Pairs \subseteq Nat
    BY DEF TypeOK, Pairs
  <2>4. Fresh'
    <3>1. \A p \in Pairs : Seen(p)' => p <= issued'
      BY <2>1, <2>2, <2>3 DEF CookieInv, Fresh
    <3>2. ASSUME NEW t \in Tabs, NEW k \in Kinds, Rotating(t, k)'
          PROVE  /\ flight'[t][k].new <= issued' /\ ~Seen(flight[t][k].new)'
                 /\ \A u \in Tabs, j \in Kinds :
                      Rotating(u, j)' /\ flight'[u][j].new = flight'[t][k].new => u = t /\ j = k
      <4>1. PICK n \in Pairs : n = flight[t][k].new
        BY DEF TypeOK, Flights
      <4>2. Rotating(t, k)
        BY <2>1, <3>2 DEF Rotating
      <4>3. n <= issued /\ ~Seen(n)
        BY <4>1, <4>2 DEF CookieInv, Fresh
      <4>4. ~Seen(n)'
        BY <2>2, <4>3
      <4>5. flight'[t][k].new <= issued'
        BY <2>1, <2>3, <4>1, <4>3
      <4>6. ~Seen(flight[t][k].new)'
        BY <2>1, <4>1, <4>4 DEF Seen
      <4>7. \A u \in Tabs, j \in Kinds :
              Rotating(u, j)' /\ flight'[u][j].new = flight'[t][k].new => u = t /\ j = k
        BY <2>1, <4>2 DEF CookieInv, Fresh, Rotating
      <4> QED
        BY <4>5, <4>6, <4>7
    <3> QED
      BY <3>1, <3>2 DEF Fresh
  <2>5. Presents' /\ Replaced'
    BY <1>2, <2>1 DEF Presents, Replaced, Hurt
  <2>6. ~alarm' => revoked' = 0
    BY <2>1 DEF CookieInv
  <2> QED
    BY <2>4, <2>5, <2>6 DEF CookieInv
<1> QED
  BY <1>1, <1>6, <1>7

\* The pair that comes with an answer was with nobody: the cookie it becomes counts.
LEMMA CookieArrives ==
  ASSUME TypeOK, CookieInv, NEW t \in Tabs, NEW k \in Kinds, Refreshed(t, k)
  PROVE  CookieInv'
<1>1. PICK n \in Pairs : n = flight[t][k].new
  BY DEF TypeOK, Flights
<1>2. /\ Rotating(t, k) /\ jar' = n /\ flight' = [flight EXCEPT ![t][k] = NoFlight]
      /\ SetStore(t, [store[t] EXCEPT !.tokens = Tokens(n)])
      /\ UNCHANGED <<server, adrift, alarm, causes>>
  BY <1>1 DEF Refreshed, SetCookies, Rotating
<1>3. n <= issued /\ ~Seen(n) /\ n \notin rotated /\ n # 0
  BY <1>1, <1>2 DEF CookieInv, Fresh, Seen
<1>4. /\ flight'[t][k] = NoFlight
      /\ \A u \in Tabs, j \in Kinds : u # t \/ j # k => flight'[u][j] = flight[u][j]
  BY <1>2 DEF TypeOK
<1>5. ~Rotating(t, k)'
  BY <1>4 DEF Rotating, NoFlight
<1>6. \A p \in Pairs : Seen(p)' => Seen(p) \/ p = n
  <2> SUFFICES ASSUME NEW p \in Pairs, Seen(p)', p # n PROVE Seen(p)
    OBVIOUS
  <2>1. saved'.tokens \in {0, n} /\ \A u \in Tabs : store'[u].tokens \in {0, n, store[u].tokens}
    BY <1>2 DEF SetStore, Tokens, TypeOK, Stores
  <2>2. \A u \in Tabs, j \in Kinds : flight'[u][j].jti \in {0, flight[u][j].jti}
    BY <1>4 DEF NoFlight
  <2> QED
    BY <1>2, <2>1, <2>2 DEF Seen, server
<1>7. \A u \in Tabs, j \in Kinds : Rotating(u, j)' =>
        /\ Rotating(u, j) /\ flight'[u][j] = flight[u][j] /\ flight[u][j].new # n
  <2> SUFFICES ASSUME NEW u \in Tabs, NEW j \in Kinds, Rotating(u, j)'
               PROVE  Rotating(u, j) /\ flight'[u][j] = flight[u][j] /\ flight[u][j].new # n
    OBVIOUS
  <2>1. u # t \/ j # k
    BY <1>5
  <2>2. Rotating(u, j) /\ flight'[u][j] = flight[u][j]
    BY <1>4, <2>1 DEF Rotating
  <2> QED
    BY <1>1, <1>2, <2>1, <2>2 DEF CookieInv, Fresh
<1>8. Fresh'
  <2>1. \A p \in Pairs : Seen(p)' => p <= issued'
    BY <1>2, <1>3, <1>6 DEF CookieInv, Fresh, server
  <2>2. ASSUME NEW u \in Tabs, NEW j \in Kinds, Rotating(u, j)'
        PROVE  flight'[u][j].new <= issued' /\ ~Seen(flight[u][j].new)'
    <3>1. PICK m \in Pairs : m = flight[u][j].new
      BY DEF TypeOK, Flights
    <3>2. m <= issued /\ ~Seen(m) /\ m # n
      BY <1>7, <2>2, <3>1 DEF CookieInv, Fresh
    <3>3. ~Seen(m)' /\ flight'[u][j].new = m
      BY <1>6, <1>7, <2>2, <3>1, <3>2
    <3> QED
      BY <1>2, <3>2, <3>3 DEF Seen, server
  <2>3. ASSUME NEW u \in Tabs, NEW j \in Kinds, Rotating(u, j)',
               NEW v \in Tabs, NEW i \in Kinds, Rotating(v, i)',
               flight'[v][i].new = flight'[u][j].new
        PROVE  v = u /\ i = j
    BY <1>7, <2>3 DEF CookieInv, Fresh
  <2> QED
    BY <2>1, <2>2, <2>3 DEF Fresh
<1>9. Presents'
  BY <1>2, <1>4 DEF CookieInv, Presents, NoFlight, server
<1>10. Replaced'
  BY <1>2, <1>3 DEF Replaced, server
<1> QED
  BY <1>2, <1>8, <1>9, <1>10 DEF CookieInv, server

\* The pair of a sign-in is new as well.
LEMMA CookieSignsIn ==
  ASSUME TypeOK, CookieInv, NEW t \in Tabs, Login(t) PROVE CookieInv'
<1>1. PICK n \in Pairs : n = issued + 1
  BY Numbers DEF Login, TypeOK
<1>2. /\ issued' = n /\ jar' = n /\ SetStore(t, [user |-> TRUE, tokens |-> Tokens(n)])
      /\ UNCHANGED <<expired, revoked, rotated, call, flight, adrift, alarm, causes>>
  BY <1>1 DEF Login, SetCookies
<1>3. issued \in Nat /\ n \in Nat /\ Pairs \subseteq Nat
  BY <1>1 DEF TypeOK, Pairs
<1>4. n \notin rotated
  BY <1>1, <1>3 DEF CookieInv, Fresh, Seen
<1>5. \A p \in Pairs : Seen(p)' => Seen(p) \/ p = n
  <2> SUFFICES ASSUME NEW p \in Pairs, Seen(p)', p # n PROVE Seen(p)
    OBVIOUS
  <2>1. saved'.tokens \in {0, n} /\ \A u \in Tabs : store'[u].tokens \in {0, n, store[u].tokens}
    BY <1>2 DEF SetStore, Tokens, TypeOK
  <2> QED
    BY <1>2, <2>1 DEF Seen
<1>6. Fresh'
  <2>1. \A p \in Pairs : Seen(p)' => p <= issued'
    BY <1>1, <1>2, <1>3, <1>5 DEF CookieInv, Fresh
  <2>2. ASSUME NEW u \in Tabs, NEW j \in Kinds, Rotating(u, j)'
        PROVE  flight'[u][j].new <= issued' /\ ~Seen(flight[u][j].new)'
    <3>1. PICK m \in Pairs : m = flight[u][j].new
      BY DEF TypeOK, Flights
    <3>2. m <= issued /\ ~Seen(m) /\ m # n /\ m <= n
      <4>1. Rotating(u, j)
        BY <1>2, <2>2 DEF Rotating
      <4>2. m <= issued /\ ~Seen(m)
        BY <3>1, <4>1 DEF CookieInv, Fresh
      <4> QED
        BY <1>1, <1>3, <4>2
    <3>3. ~Seen(m)' /\ flight'[u][j].new = m
      BY <1>2, <1>5, <3>1, <3>2
    <3> QED
      BY <1>2, <3>2, <3>3 DEF Seen
  <2>3. ASSUME NEW u \in Tabs, NEW j \in Kinds, Rotating(u, j)',
               NEW v \in Tabs, NEW i \in Kinds, Rotating(v, i)',
               flight'[v][i].new = flight'[u][j].new
        PROVE  v = u /\ i = j
    BY <1>2, <2>3 DEF CookieInv, Fresh, Rotating
  <2> QED
    BY <2>1, <2>2, <2>3 DEF Fresh
<1>7. Presents' /\ Replaced'
  BY <1>2, <1>4 DEF CookieInv, Presents, Replaced
<1> QED
  BY <1>2, <1>6, <1>7 DEF CookieInv

\* A page that loads drops its refreshes, whatever they were about to bring, and may begin
\* one that presents what the cookies or local storage hold.
LEMMA CookieLoads ==
  ASSUME TypeOK, CookieInv, NEW t \in Tabs, Load(t) PROVE CookieInv'
<1>0. /\ Seen(0) /\ Seen(jar) /\ Seen(saved.tokens) /\ \A u \in Tabs : Seen(store[u].tokens)
      /\ flight \in [Tabs -> [Kinds -> Flights]] /\ store \in [Tabs -> Stores]
  BY DEF TypeOK, Seen
<1>1. PICK refresh \in BOOLEAN :
        /\ flight' = [flight EXCEPT ![t] = [auto |-> NoFlight,
                       init |-> IF refresh THEN Refresh(saved.tokens) ELSE NoFlight]]
        /\ causes' = causes \cup (UNION {Dropped(flight[t][k]) : k \in Kinds})
                            \cup (IF refresh THEN Risk(saved.tokens) ELSE {})
  BY DEF Load
<1>2. store' = [store EXCEPT ![t] = saved] /\ UNCHANGED <<server, jar, saved, alarm, ended>>
  BY DEF Load
<1>3. \A k \in Kinds : Seen(flight'[t][k].jti) /\ flight'[t][k].at \in {"none", "sent"}
  BY <1>0, <1>1 DEF Kinds, NoFlight, Refresh, Presented
<1>4. \A u \in Tabs \ {t} : flight'[u] = flight[u]
  BY <1>0, <1>1
<1>d. \A g \in adrift' : Seen(g.jti) /\ g.jti # 0
  BY DriftKept DEF Load, CookieInv
<1>5. \A p \in Pairs : Seen(p)' => Seen(p)
  <2> SUFFICES ASSUME NEW p \in Pairs, Seen(p)' PROVE Seen(p)
    OBVIOUS
  <2>1. CASE \E u \in Tabs, k \in Kinds : flight'[u][k].jti = p
    <3>1. PICK u \in Tabs, k \in Kinds : flight'[u][k].jti = p
      BY <2>1
    <3>2. CASE u = t
      BY <1>3, <3>1, <3>2
    <3>3. CASE u # t
      BY <1>4, <3>1, <3>3 DEF Seen
    <3> QED
      BY <3>2, <3>3
  <2>2. CASE \E u \in Tabs : store'[u].tokens = p
    BY <1>0, <1>2, <2>2
  <2>3. CASE p \in {0, jar, saved.tokens} \/ p \in rotated
    BY <2>3 DEF Seen
  <2>4. CASE \E g \in adrift' : g.jti = p
    BY <1>d, <2>4
  <2> QED
    BY <1>2, <2>1, <2>2, <2>3, <2>4 DEF Seen, server
<1>6. \A k \in Kinds : Rotating(t, k) => Harmful
  <2> SUFFICES ASSUME NEW k \in Kinds, Rotating(t, k) PROVE "lost" \in causes'
    BY DEF Harmful
  <2>1. "lost" \in Dropped(flight[t][k])
    BY DEF Rotating, Dropped
  <2> QED
    BY <1>1, <2>1
<1>7. \A u \in Tabs, k \in Kinds :
       /\ Rotating(u, k)' => Rotating(u, k) /\ flight'[u][k] = flight[u][k]
       /\ Rotating(u, k) => Rotating(u, k)' \/ Harmful
       /\ flight'[u][k].at = "checked" => flight'[u][k].jti # 0
  <2>1. ASSUME NEW k \in Kinds
        PROVE  ~Rotating(t, k)' /\ (Rotating(t, k) => Harmful) /\ flight'[t][k].at # "checked"
    BY <1>3, <1>6 DEF Rotating
  <2>2. ASSUME NEW u \in Tabs \ {t}, NEW k \in Kinds
        PROVE  /\ flight'[u][k] = flight[u][k] /\ (Rotating(u, k)' <=> Rotating(u, k))
               /\ flight'[u][k].at = "checked" => flight'[u][k].jti # 0
    BY <1>4 DEF CookieInv, Presents, Rotating
  <2> QED
    BY <2>1, <2>2
<1>8. (Hurt => Harmful) /\ (alarm => alarm') /\ revoked' = revoked
  BY <1>1, <1>2 DEF Hurt, Harmful, server
<1>9. Plain
  BY <1>2, <1>d, <1>5, <1>7, <1>8 DEF Plain, server
<1> QED
  BY <1>9, PlainStep

LEMMA CookieStep == TypeOK /\ CookieInv /\ [Next]_vars => CookieInv'
<1> SUFFICES ASSUME TypeOK, CookieInv, [Next]_vars PROVE CookieInv'
  OBVIOUS
<1>0. Presents /\ Seen(0)
  BY DEF CookieInv, Seen
<1>1. ASSUME NEW t \in Tabs, ClearCookies(t) \/ ClearStore(t) PROVE CookieInv'
  <2>1. UNCHANGED <<store, saved>> \/ SetStore(t, SignedOut)
    BY <1>1 DEF ClearCookies, ClearStore, LogoutStore
  <2>2. \A p \in Pairs : p \in {saved'.tokens} \cup {store'[u].tokens : u \in Tabs} => Seen(p)
    BY <1>0, <2>1, Empty, StoresKept DEF SignedOut
  <2> QED
    BY <1>0, <1>1, <2>2, PlainStores, PlainStep DEF ClearCookies, ClearStore, server, history
<1>2. ASSUME Expire \/ UNCHANGED vars PROVE CookieInv'
  <2>1. UNCHANGED <<issued, rotated, revoked, jar, store, saved, flight, adrift, alarm, causes>>
    BY <1>2 DEF Expire, vars, server, client, history
  <2>2. \A p \in Pairs : p \in {saved'.tokens} \cup {store'[u].tokens : u \in Tabs} => Seen(p)
    BY <2>1, StoresKept
  <2> QED
    BY <1>0, <2>1, <2>2, PlainStores, PlainStep
<1>3. ASSUME NEW t \in Tabs, CallNext(t) PROVE CookieInv'
  BY <1>3, CookieCalls DEF CallNext
<1>4. ASSUME NEW t \in Tabs, RefreshNext(t) PROVE CookieInv'
  BY <1>4, CookieRefreshes, CookieRotates, CookieArrives DEF RefreshNext
<1>5. ASSUME NEW t \in Tabs, UserNext(t) PROVE CookieInv'
  BY <1>1, <1>5, CookieCalls, CookieSignsIn, CookieLoads DEF UserNext
<1> QED
  BY <1>2, <1>3, <1>4, <1>5, CookieDrifts DEF Next

LEMMA CookieInit == Init => CookieInv
<1> SUFFICES ASSUME Init PROVE CookieInv
  OBVIOUS
<1>1. \A t \in Tabs, k \in Kinds : flight[t][k] = NoFlight
  BY DEF Init
<1>2. \A t \in Tabs : store[t].tokens \in {0, 1}
  BY DEF Init
<1>3. \A p \in Pairs : Seen(p) => p <= issued
  <2> SUFFICES ASSUME NEW p \in Pairs, Seen(p) PROVE p \in {0, 1}
    BY DEF Init, Pairs
  <2> QED
    BY <1>1, <1>2 DEF Init, Seen, NoFlight
<1> QED
  BY <1>1, <1>3 DEF Init, CookieInv, Fresh, Presents, Replaced, Rotating, NoFlight

\* The cookies hold a refresh token that no longer counts only while the rotation that will
\* replace it is under way, after a rotation whose answer nobody got, of a refresh its tab had
\* given up among them, or after every token was revoked, for any number of tabs, requests and
\* pairs.
THEOREM CookiesRecover == Spec => []StaleCookieIsTransient
<1>1. Init => CookieInv
  BY CookieInit
<1>2. TypeOK /\ CookieInv => StaleCookieIsTransient
  <2> SUFFICES ASSUME TypeOK, CookieInv, Dead(jar), ~alarm, "lost" \notin causes
               PROVE  \E f \in Live : f.at = "rotated" /\ f.jti = jar
    BY DEF StaleCookieIsTransient
  <2>1. jar \in rotated
    BY DEF Dead, CookieInv
  <2>2. PICK t \in Tabs, k \in Kinds : Rotating(t, k) /\ flight[t][k].jti = jar
    BY <2>1 DEF CookieInv, Replaced, Hurt
  <2>3. flight[t][k] \in UNION {{flight[u][j] : j \in Kinds} : u \in Tabs}
    OBVIOUS
  <2>4. flight[t][k] \in Live
    BY <2>2, <2>3 DEF Live, UnderWay, Rotating
  <2> QED
    BY <2>2, <2>4 DEF Rotating
<1> QED
  BY <1>1, <1>2, CookieStep, TypeCorrect, PTL DEF Spec

-----------------------------------------------------------------------------
(* The alarm.  While nothing has gone wrong, no two refreshes present one  *)
(* token, given up or not, and what a refresh presents was not rotated.    *)

InFlight(t, k) == flight[t][k].at \in {"sent", "checked", "rotated"}

Alone ==
  /\ ~alarm
  /\ \A t \in Tabs, k \in Kinds :
       flight[t][k].at \in {"sent", "checked"} => flight[t][k].jti \notin rotated
  /\ \A t, u \in Tabs, k, j \in Kinds :
       InFlight(t, k) /\ InFlight(u, j) /\ flight[t][k].jti = flight[u][j].jti
         /\ flight[t][k].jti # 0 => t = u /\ k = j
  /\ \A f \in adrift :
       /\ f.jti \notin rotated
       /\ \A t \in Tabs, k \in Kinds : InFlight(t, k) => flight[t][k].jti # f.jti
       /\ \A g \in adrift : g.jti = f.jti => g = f
AloneInv == causes = {} => Alone

\* A refresh that begins without a risk presents a token that counts and that no other
\* refresh has.
LEMMA BeginsAlone ==
  ASSUME CookieInv, AloneInv, causes = {}, NEW tokens, Risk(tokens) = {}
  PROVE  /\ Refresh(tokens).jti \notin rotated
         /\ \A t \in Tabs, k \in Kinds : InFlight(t, k) => flight[t][k].jti # Refresh(tokens).jti
         /\ \A f \in adrift : f.jti # Refresh(tokens).jti
<1>1. Refresh(tokens).jti = Presented(tokens)
  BY DEF Refresh
<1>2. ~(\E f \in Live \cup adrift : f.jti = Presented(tokens)) /\ ~(jar = 0 /\ tokens # 0)
  BY DEF Risk
<1>3. ASSUME NEW t \in Tabs, NEW k \in Kinds, InFlight(t, k)
      PROVE  flight[t][k].jti # Presented(tokens)
  <2>1. flight[t][k] \in UNION {{flight[u][j] : j \in Kinds} : u \in Tabs}
    OBVIOUS
  <2>2. flight[t][k] \in Live
    BY <1>3, <2>1 DEF Live, UnderWay, InFlight
  <2> QED
    BY <1>2, <2>2
<1>4. Presented(tokens) \notin rotated
  <2>1. CASE jar = 0
    BY <1>2, <2>1 DEF Presented, CookieInv, Presents
  <2>2. CASE jar # 0
    <3>1. Presented(tokens) = jar
      BY <2>2 DEF Presented
    <3>2. ~Hurt
      BY DEF Hurt, AloneInv, Alone
    <3>3. jar \in rotated => \E t \in Tabs, k \in Kinds : Rotating(t, k) /\ flight[t][k].jti = jar
      BY <3>2 DEF CookieInv, Replaced
    <3> QED
      BY <1>3, <3>1, <3>3 DEF Rotating, InFlight
  <2> QED
    BY <2>1, <2>2
<1> QED
  BY <1>1, <1>2, <1>3, <1>4

\* Some refreshes go, of which some are given up, and one may begin.
GivenUp(f, t, k) ==
  /\ f = flight[t][k] /\ f.at \in {"sent", "checked"} /\ f.jti # 0
  /\ flight'[t][k].jti # f.jti

LEMMA StaysAlone ==
  ASSUME Alone, rotated' = rotated, alarm' = alarm, NEW t \in Tabs, NEW k \in Kinds,
         \A u \in Tabs, j \in Kinds : u # t \/ j # k =>
           flight'[u][j] = flight[u][j] \/ flight'[u][j] = NoFlight,
         \/ flight'[t][k] = flight[t][k] \/ ~InFlight(t, k)'
         \/ /\ flight'[t][k].jti \notin rotated
            /\ \A u \in Tabs, j \in Kinds :
                 (u # t \/ j # k) /\ InFlight(u, j) => flight[u][j].jti # flight'[t][k].jti
            /\ \A f \in adrift : f.jti # flight'[t][k].jti,
         \A f \in adrift' : f \in adrift \/ \E u \in Tabs, j \in Kinds : GivenUp(f, u, j)
  PROVE  Alone'
<1>1. ASSUME NEW u \in Tabs, NEW j \in Kinds, InFlight(u, j)'
      PROVE  \/ flight'[u][j] = flight[u][j] /\ InFlight(u, j)
             \/ /\ u = t /\ j = k /\ flight'[t][k].jti \notin rotated
                /\ \A v \in Tabs, i \in Kinds :
                     (v # t \/ i # k) /\ InFlight(v, i) => flight[v][i].jti # flight'[t][k].jti
                /\ \A f \in adrift : f.jti # flight'[t][k].jti
  BY <1>1 DEF InFlight, NoFlight
<1>2. \A u \in Tabs, j \in Kinds :
        flight'[u][j].at \in {"sent", "checked"} => flight'[u][j].jti \notin rotated'
  <2> SUFFICES ASSUME NEW u \in Tabs, NEW j \in Kinds, flight'[u][j].at \in {"sent", "checked"}
               PROVE  flight'[u][j].jti \notin rotated
    OBVIOUS
  <2>1. InFlight(u, j)'
    BY DEF InFlight
  <2> QED
    BY <1>1, <2>1 DEF Alone
<1>3. ASSUME NEW u \in Tabs, NEW v \in Tabs, NEW j \in Kinds, NEW i \in Kinds,
             InFlight(u, j)', InFlight(v, i)', flight'[u][j].jti = flight'[v][i].jti,
             flight'[u][j].jti # 0
      PROVE  u = v /\ j = i
  BY <1>1, <1>3 DEF Alone
<1>4. ASSUME NEW f \in adrift', NEW u \in Tabs, NEW j \in Kinds, InFlight(u, j)'
      PROVE  flight'[u][j].jti # f.jti
  <2>1. CASE f \in adrift
    BY <1>1, <1>4, <2>1 DEF Alone
  <2>2. CASE \E v \in Tabs, i \in Kinds : GivenUp(f, v, i)
    <3>1. PICK v \in Tabs, i \in Kinds : GivenUp(f, v, i)
      BY <2>2
    <3>2. InFlight(v, i) /\ f = flight[v][i] /\ f.jti # 0 /\ flight'[v][i].jti # f.jti
      BY <3>1 DEF GivenUp, InFlight
    <3>3. CASE flight'[u][j] = flight[u][j] /\ InFlight(u, j)
      BY <3>2, <3>3 DEF Alone
    <3>4. CASE ~(flight'[u][j] = flight[u][j] /\ InFlight(u, j))
      BY <1>1, <1>4, <3>2, <3>4
    <3> QED
      BY <3>3, <3>4
  <2> QED
    BY <2>1, <2>2
<1>5. ASSUME NEW f \in adrift', NEW g \in adrift', g.jti = f.jti PROVE g = f
  <2>1. \A h \in adrift' : h \in adrift \/
          \E v \in Tabs, i \in Kinds : h = flight[v][i] /\ InFlight(v, i) /\ h.jti # 0
    BY DEF GivenUp, InFlight
  <2> QED
    BY <1>5, <2>1 DEF Alone
<1>6. \A f \in adrift' : f.jti \notin rotated'
  BY DEF Alone, GivenUp
<1> QED
  BY <1>2, <1>3, <1>4, <1>5, <1>6 DEF Alone

LEMMA AloneStep ==
  TypeOK /\ CookieInv /\ AloneInv /\ [Next]_vars => AloneInv'
<1> SUFFICES ASSUME TypeOK, CookieInv, AloneInv, [Next]_vars, causes' = {} PROVE Alone'
  BY DEF AloneInv
<1>0. /\ causes = {} => Alone
      /\ flight \in [Tabs -> [Kinds -> Flights]] /\ Kinds = {"auto", "init"}
  BY DEF AloneInv, TypeOK, Kinds
<1>1. ASSUME UNCHANGED <<rotated, flight, adrift, alarm, causes>> PROVE Alone'
  BY <1>0, <1>1 DEF Alone, InFlight
<1>2. ASSUME NEW t \in Tabs, NEW c \in Calls, Refused(t, c) PROVE Alone'
  <2>1. /\ causes = {} /\ (flight[t]["auto"].at = "none" => Risk(store[t].tokens) = {})
        /\ flight' = [flight EXCEPT ![t]["auto"] = SharedRefresh(t)]
        /\ UNCHANGED <<rotated, adrift, alarm, causes>>
    BY <1>2 DEF Refused, server
  <2>2. CASE flight[t]["auto"].at # "none"
    <3>1. flight' = flight
      BY <1>0, <2>1, <2>2 DEF SharedRefresh
    <3> QED
      BY <1>1, <2>1, <3>1
  <2>3. CASE flight[t]["auto"].at = "none"
    <3>1. flight'[t]["auto"] = Refresh(store[t].tokens)
      BY <1>0, <2>1, <2>3 DEF SharedRefresh
    <3>2. /\ flight'[t]["auto"].jti \notin rotated
          /\ \A u \in Tabs, j \in Kinds : InFlight(u, j) => flight[u][j].jti # flight'[t]["auto"].jti
          /\ \A f \in adrift : f.jti # flight'[t]["auto"].jti
      BY <2>1, <2>3, <3>1, BeginsAlone
    <3>3. \A u \in Tabs, j \in Kinds : u # t \/ j # "auto" => flight'[u][j] = flight[u][j]
      BY <1>0, <2>1
    <3> QED
      BY <1>0, <2>1, <3>2, <3>3, StaysAlone
  <2> QED
    BY <2>2, <2>3
<1>3. ASSUME NEW t \in Tabs, NEW k \in Kinds, CheckRefresh(t, k) PROVE Alone'
  <2>1. PICK error \in RedisErrors, verdict \in {"refused", "stolen", "checked"} :
          /\ verdict \in Verdicts(flight[t][k], error)
          /\ flight' = [flight EXCEPT ![t][k] =
                          IF verdict = "checked" THEN [@ EXCEPT !.at = "checked"] ELSE Refusal]
          /\ Judge(verdict, error)
    BY <1>3, VerdictType, ErrorType DEF CheckRefresh
  <2>2. flight[t][k].at = "sent" /\ UNCHANGED <<rotated, adrift>>
        /\ alarm' = (alarm \/ verdict = "stolen") /\ causes' = causes \cup Noted(error)
    BY <1>3, <2>1 DEF CheckRefresh, Judge
  <2>3. causes = {} /\ error = FALSE
    BY <2>2, ErrorType DEF Noted
  <2>4. Alone
    BY <1>0, <2>3
  <2>5. ~Dead(flight[t][k].jti)
    BY <2>2, <2>4 DEF Dead, Alone, CookieInv
  <2>6. verdict # "stolen" /\ (verdict = "checked" => flight[t][k].jti # 0)
    BY <2>1, <2>3, <2>5, VerdictType
  <2>7. alarm' = alarm
    BY <2>2, <2>4, <2>6 DEF TypeOK, Alone
  <2>8. \A u \in Tabs, j \in Kinds : u # t \/ j # k => flight'[u][j] = flight[u][j]
    BY <1>0, <2>1
  <2>9. CASE verdict = "refused"
    <3>1. ~InFlight(t, k)'
      BY <1>0, <2>1, <2>9 DEF InFlight, Refusal
    <3> QED
      BY <2>2, <2>4, <2>7, <2>8, <3>1, StaysAlone
  <2>10. CASE verdict = "checked"
    <3>1. flight'[t][k].jti = flight[t][k].jti
      BY <1>0, <2>1, <2>10 DEF Flights
    <3>2. /\ flight[t][k].jti \notin rotated
          /\ \A u \in Tabs, j \in Kinds : (u # t \/ j # k) /\ InFlight(u, j) =>
               flight[u][j].jti # flight[t][k].jti
          /\ \A f \in adrift : f.jti # flight[t][k].jti
      BY <2>2, <2>4, <2>6, <2>10 DEF Alone, InFlight
    <3> QED
      BY <2>2, <2>4, <2>7, <2>8, <3>1, <3>2, StaysAlone
  <2> QED
    BY <2>6, <2>9, <2>10
<1>4. ASSUME NEW t \in Tabs, NEW k \in Kinds, Rotate(t, k) PROVE Alone'
  <2>1. /\ flight[t][k].at = "checked" /\ alarm' = alarm /\ causes \subseteq causes'
        /\ rotated' \subseteq rotated \cup {flight[t][k].jti}
        /\ flight' = [flight EXCEPT ![t][k].at = "rotated", ![t][k].new = issued + 1]
        /\ adrift' = adrift
    BY <1>4 DEF Rotate, Replace
  <2>2. Alone
    BY <1>0, <2>1
  <2>3. /\ flight'[t][k].at = "rotated" /\ flight'[t][k].jti = flight[t][k].jti
        /\ \A u \in Tabs, j \in Kinds : u # t \/ j # k => flight'[u][j] = flight[u][j]
    BY <1>0, <2>1 DEF Flights
  <2>4. flight[t][k].jti # 0 /\ InFlight(t, k)
    BY <2>1 DEF CookieInv, Presents, InFlight
  <2>5. \A u \in Tabs, j \in Kinds : (u # t \/ j # k) /\ InFlight(u, j) =>
          flight[u][j].jti # flight[t][k].jti
    BY <2>2, <2>4 DEF Alone
  <2>6. \A u \in Tabs, j \in Kinds :
          flight'[u][j].at \in {"sent", "checked"} => flight'[u][j].jti \notin rotated'
    <3> SUFFICES ASSUME NEW u \in Tabs, NEW j \in Kinds, flight'[u][j].at \in {"sent", "checked"}
                 PROVE  flight'[u][j].jti \notin rotated'
      OBVIOUS
    <3>1. (u # t \/ j # k) /\ flight'[u][j] = flight[u][j]
      BY <2>3
    <3>2. InFlight(u, j) /\ flight[u][j].jti \notin rotated
      BY <2>2, <3>1 DEF Alone, InFlight
    <3> QED
      BY <2>1, <2>5, <3>1, <3>2
  <2>7. \A u \in Tabs, j \in Kinds :
          flight'[u][j].jti = flight[u][j].jti /\ (InFlight(u, j)' => InFlight(u, j))
    BY <2>3, <2>4 DEF InFlight
  <2>8. ASSUME NEW u \in Tabs, NEW j \in Kinds, NEW v \in Tabs, NEW i \in Kinds,
               InFlight(u, j)', InFlight(v, i)', flight'[u][j].jti = flight'[v][i].jti,
               flight'[u][j].jti # 0
        PROVE  u = v /\ j = i
    BY <2>2, <2>7, <2>8 DEF Alone
  <2>9. ASSUME NEW f \in adrift'
        PROVE  /\ f.jti \notin rotated'
               /\ \A u \in Tabs, j \in Kinds : InFlight(u, j)' => flight'[u][j].jti # f.jti
               /\ \A g \in adrift' : g.jti = f.jti => g = f
    <3>1. /\ f.jti \notin rotated /\ f.jti # flight[t][k].jti
          /\ \A u \in Tabs, j \in Kinds : InFlight(u, j) => flight[u][j].jti # f.jti
          /\ \A g \in adrift' : g.jti = f.jti => g = f
      BY <2>1, <2>2, <2>4 DEF Alone
    <3>2. f.jti \notin rotated'
      BY <2>1, <3>1
    <3> QED
      BY <2>7, <3>1, <3>2
  <2> QED
    BY <2>1, <2>2, <2>6, <2>8, <2>9 DEF Alone
<1>5. ASSUME NEW t \in Tabs, NEW k \in Kinds, Refreshed(t, k) \/ RefreshFailed(t, k) PROVE Alone'
  <2>1. /\ flight' = [flight EXCEPT ![t][k] = NoFlight] /\ UNCHANGED <<rotated, alarm>>
        /\ causes \subseteq causes' /\ (adrift' = adrift \/ GiveUp({flight[t][k]}))
    BY <1>5 DEF Refreshed, RefreshFailed, server
  <2>2. ~InFlight(t, k)' /\ \A u \in Tabs, j \in Kinds : u # t \/ j # k => flight'[u][j] = flight[u][j]
    BY <1>0, <2>1 DEF InFlight, NoFlight
  <2>3. \A f \in adrift' : f \in adrift \/ GivenUp(f, t, k)
    <3>1. flight'[t][k].jti = 0
      BY <1>0, <2>1 DEF NoFlight
    <3> QED
      BY <2>1, <3>1, GiveUpMoves DEF GivenUp
  <2> QED
    BY <1>0, <2>1, <2>2, <2>3, StaysAlone
<1>6. ASSUME NEW t \in Tabs, Load(t) PROVE Alone'
  <2>1. PICK refresh \in BOOLEAN :
          /\ flight' = [flight EXCEPT ![t] = [auto |-> NoFlight,
                         init |-> IF refresh THEN Refresh(saved.tokens) ELSE NoFlight]]
          /\ causes \subseteq causes'
          /\ refresh => Risk(saved.tokens) \subseteq causes'
          /\ UNCHANGED <<rotated, alarm>>
          /\ GiveUp({flight[t][k] : k \in Kinds})
    BY <1>6 DEF Load, server
  <2>2. causes = {} /\ (refresh => Risk(saved.tokens) = {})
    BY <2>1
  <2>3. /\ flight'[t]["auto"] = NoFlight
        /\ flight'[t]["init"] = IF refresh THEN Refresh(saved.tokens) ELSE NoFlight
        /\ \A u \in Tabs \ {t} : flight'[u] = flight[u]
    BY <1>0, <2>1
  <2>4. \A u \in Tabs, j \in Kinds : u # t \/ j # "init" =>
          flight'[u][j] = flight[u][j] \/ flight'[u][j] = NoFlight
    BY <1>0, <2>3
  <2>5. CASE refresh
    <3>1. /\ flight'[t]["init"].jti \notin rotated
          /\ \A u \in Tabs, j \in Kinds : InFlight(u, j) => flight[u][j].jti # flight'[t]["init"].jti
          /\ \A f \in adrift : f.jti # flight'[t]["init"].jti
      BY <2>2, <2>3, <2>5, BeginsAlone
    <3>2. \A f \in adrift' : f \in adrift \/ \E j \in Kinds : GivenUp(f, t, j)
      <4> SUFFICES ASSUME NEW f \in adrift', f \notin adrift PROVE \E j \in Kinds : GivenUp(f, t, j)
        OBVIOUS
      <4>1. PICK j \in Kinds : f = flight[t][j] /\ f.at \in {"sent", "checked"} /\ f.jti # 0
        BY <2>1, GiveUpMoves
      <4>2. flight'[t][j].jti # f.jti
        <5>1. CASE j = "auto"
          BY <2>3, <4>1, <5>1 DEF NoFlight
        <5>2. CASE j = "init"
          BY <3>1, <4>1, <5>2 DEF InFlight
        <5> QED
          BY <1>0, <5>1, <5>2
      <4> QED
        BY <4>1, <4>2 DEF GivenUp
    <3> QED
      BY <1>0, <2>1, <2>2, <2>4, <3>1, <3>2, StaysAlone
  <2>6. CASE ~refresh
    <3>1. ~InFlight(t, "init")'
      BY <2>3, <2>6 DEF InFlight, NoFlight
    <3>2. \A f \in adrift' : f \in adrift \/ \E j \in Kinds : GivenUp(f, t, j)
      <4>1. \A j \in Kinds : flight'[t][j].jti = 0
        BY <1>0, <2>3, <2>6 DEF NoFlight
      <4> QED
        BY <2>1, <4>1, GiveUpMoves DEF GivenUp
    <3> QED
      BY <1>0, <2>1, <2>2, <2>4, <3>1, <3>2, StaysAlone
  <2> QED
    BY <2>5, <2>6
<1>7. ASSUME NEW t \in Tabs, NEW c \in Calls,
             Answer(t, c) \/ RefusedAgain(t, c) \/ Fail(t, c) \/ Request(t, c)
      PROVE  Alone'
  BY <1>1, <1>7 DEF Answer, RefusedAgain, Fail, Request, server, history
<1>8. ASSUME NEW t \in Tabs, Login(t) \/ ClearCookies(t) \/ ClearStore(t) PROVE Alone'
  BY <1>1, <1>8 DEF Login, ClearCookies, ClearStore, server, history
<1>9. ASSUME Expire \/ UNCHANGED vars PROVE Alone'
  BY <1>1, <1>9 DEF Expire, vars, server, client, history
<1>10. ASSUME NEW f \in adrift, CheckAdrift(f) PROVE Alone'
  <2>1. PICK error \in RedisErrors, verdict \in {"refused", "stolen", "checked"} :
          /\ verdict \in Verdicts(f, error)
          /\ adrift' = (adrift \ {f}) \cup
                       (IF verdict = "checked" THEN {[f EXCEPT !.at = "checked"]} ELSE {})
          /\ Judge(verdict, error)
    BY <1>10, VerdictType, ErrorType DEF CheckAdrift
  <2>2. /\ UNCHANGED <<rotated, flight>>
        /\ alarm' = (alarm \/ verdict = "stolen") /\ causes' = causes \cup Noted(error)
    BY <1>10, <2>1 DEF CheckAdrift, Judge
  <2>3. causes = {} /\ error = FALSE
    BY <2>2, ErrorType DEF Noted
  <2>4. Alone
    BY <1>0, <2>3
  <2>5. ~Dead(f.jti)
    BY <2>4 DEF Dead, Alone, CookieInv
  <2>6. verdict # "stolen"
    BY <2>1, <2>3, <2>5, VerdictType
  <2>7. [f EXCEPT !.at = "checked"].jti = f.jti
    BY DEF TypeOK, Flights
  <2>8. \A g \in adrift' : g \in adrift \ {f} \/ (g = [f EXCEPT !.at = "checked"] /\ g.jti = f.jti)
    BY <2>1, <2>7
  <2>9. ASSUME NEW g \in adrift'
        PROVE  /\ g.jti \notin rotated'
               /\ \A u \in Tabs, j \in Kinds : InFlight(u, j)' => flight'[u][j].jti # g.jti
    BY <2>2, <2>4, <2>8 DEF Alone, InFlight
  <2>10. ASSUME NEW g \in adrift', NEW h \in adrift', h.jti = g.jti PROVE h = g
    BY <2>4, <2>8, <2>10 DEF Alone
  <2>11. ~alarm' /\ \A u \in Tabs, j \in Kinds : InFlight(u, j)' <=> InFlight(u, j)
    BY <2>2, <2>4, <2>6 DEF Alone, InFlight
  <2>12. \A u \in Tabs, j \in Kinds :
           flight'[u][j].at \in {"sent", "checked"} => flight'[u][j].jti \notin rotated'
    BY <2>2, <2>4 DEF Alone
  <2>13. \A u, v \in Tabs, j, i \in Kinds :
           InFlight(u, j)' /\ InFlight(v, i)' /\ flight'[u][j].jti = flight'[v][i].jti
             /\ flight'[u][j].jti # 0 => u = v /\ j = i
    BY <2>2, <2>4, <2>11 DEF Alone
  <2> QED
    BY <2>9, <2>10, <2>11, <2>12, <2>13 DEF Alone
<1>11. ASSUME NEW f \in adrift, RotateAdrift(f) PROVE FALSE
  BY <1>11 DEF RotateAdrift, Replace
<1> QED
  BY <1>2, <1>3, <1>4, <1>5, <1>6, <1>7, <1>8, <1>9, <1>10, <1>11
     DEF Next, CallNext, RefreshNext, AdriftNext, UserNext

\* refresh_token() signs a user out of every device for a token that comes twice only after
\* a refresh that presented what another one had under way or was given up with, or what only
\* the memory of a tab still held, after a rotation whose answer nobody got, or after an error
\* of Redis, for any number of tabs and requests, and whatever becomes of a refresh that a page
\* load or a failing network gives up before the server has handled it.
THEOREM AlarmIsExplained == Spec => []AlarmHasCause
<1>1. Init => CookieInv /\ AloneInv
  BY CookieInit DEF Init, AloneInv, Alone, InFlight, NoFlight
<1>2. AloneInv => AlarmHasCause
  BY DEF AloneInv, Alone, AlarmHasCause
<1> QED
  BY <1>1, <1>2, AloneStep, CookieStep, TypeCorrect, PTL DEF Spec
=============================================================================
