---------------------------- MODULE OipesProofs -----------------------------
(***************************************************************************)
(* Proofs about OipesToken, for any life time, margin, poll interval and   *)
(* latency that fit together, and any time that the service grants: its    *)
(* types, and that a process whose requests are answered in time has never *)
(* a token that has lapsed, by its own clock or by that of the service.    *)
(***************************************************************************)
EXTENDS OipesToken, SequenceTheorems, TLAPS

\* refresh_token is never set, so neither the token in memory nor the one in the
\* file has a refresh string, and the file never has three words.
NoRefresh == ~auth_token.refresh /\ ~Parses(store)

\* No request is under way, or it is just beginning, outside of http_request.
NoWait == pc \in {"load", "sleep", "dead"} => wait = 0

\* What is left of the token, phase by phase: how much of it has gone since it
\* was new, or since the last look at it, is at most the time of the request
\* under way and of the sleep so far.
Budget ==
  served =>
    /\ pc = "register" => auth_token.is_valid /\ left >= LIFETIME - wait
    /\ pc = "sleep" => auth_token.is_valid /\ left >= MARGIN - (POLL - nap)
    /\ pc = "renew" => auth_token.is_valid /\ left >= MARGIN - POLL - wait

\* The service has counted a token on its way for no longer than the request takes.
Transit ==
  issued => Authenticating /\ (served => fresh >= GRANT - wait)

\* The service's clock is behind the client's by no more than a request takes and
\* the client assumes too much.
Gap ==
  served /\ pc \in {"register", "sleep", "renew"} =>
    auth_token.access /\ granted + MaxLatency + LIFETIME >= left + GRANT

Inv == TypeOK /\ NoRefresh /\ NoWait /\ Budget /\ Transit /\ Gap

----------------------------------------------------------------------------
(* Lemmas *)

Words == {"access", "refresh", "expires"}
Token == [access : BOOLEAN, refresh : BOOLEAN, is_valid : BOOLEAN]

\* What save_token writes of a token without a refresh string is not what
\* load_token accepts, and neither is the beginning of it that a crash leaves.
LEMMA SavedWords ==
  ASSUME NEW t \in Token, ~t.refresh
  PROVE  /\ Saved(t) \in Seq(Words)
         /\ Len(Saved(t)) <= 2
         /\ \A n \in 0 .. 1 : /\ SubSeq(Saved(t), 1, n) \in Seq(Words)
                             /\ Len(SubSeq(Saved(t), 1, n)) <= 1
  <1>. DEFINE a == IF t.access THEN <<"access">> ELSE << >>
              r == IF t.refresh THEN <<"refresh">> ELSE << >>
              e == <<"expires">>
  <1>1. a \in Seq(Words) /\ Len(a) <= 1
    <2>1. CASE t.access
      BY <2>1 DEF Words
    <2>2. CASE ~t.access
      BY <2>2, EmptySeq
    <2>. QED  BY <2>1, <2>2
  <1>2. r \in Seq(Words) /\ Len(r) = 0
    BY DEF Words
  <1>3. e \in Seq(Words) /\ Len(e) = 1
    BY DEF Words
  <1>4. Saved(t) = (a \o r) \o e
    BY DEF Saved
  <1>. HIDE DEF a, r, e
  <1>5. a \o r \in Seq(Words) /\ Len(a \o r) = Len(a) + Len(r)
    BY <1>1, <1>2, ConcatProperties
  <1>6. (a \o r) \o e \in Seq(Words) /\ Len((a \o r) \o e) = Len(a \o r) + Len(e)
    BY <1>3, <1>5, ConcatProperties
  <1>7. Len(a) \in Nat
    BY <1>1, LenProperties
  <1>8. Saved(t) \in Seq(Words) /\ Len(Saved(t)) \in 1 .. 2 /\ Len(Saved(t)) <= 2
    BY <1>1, <1>2, <1>3, <1>4, <1>5, <1>6, <1>7
  <1>9. ASSUME NEW n \in 0 .. 1
        PROVE  /\ SubSeq(Saved(t), 1, n) \in Seq(Words)
               /\ Len(SubSeq(Saved(t), 1, n)) <= 1
    BY <1>8, SubSeqProperties
  <1>. QED  BY <1>8, <1>9, Zenon

\* No time gets out of range as a second passes, and none loses more than one.
LEMMA LaterTimes ==
  ASSUME NEW m \in Nat, NEW t \in Past .. m
  PROVE  Later(t) \in Past .. m /\ Later(t) >= t - 1 /\ (t > 0 => Later(t) = t - 1)
  BY DEF Later, Past

\* The gap of a token when it arrives, and after a second by both clocks.
LEMMA GapOnArrival ==
  ASSUME NEW h \in Int, NEW w \in 0 .. MaxLatency, h >= GRANT - w
  PROVE  h + MaxLatency + LIFETIME >= LIFETIME + GRANT
  <1>1. LIFETIME \in Int /\ GRANT \in Int /\ MaxLatency \in Int
    BY TimingAssumption
  <1>. QED  BY <1>1

LEMMA GapLater ==
  ASSUME NEW l \in Int, NEW g \in Int, NEW h \in Int,
         g + MaxLatency + LIFETIME >= l + GRANT, h >= g - 1
  PROVE  h + MaxLatency + LIFETIME >= (l - 1) + GRANT
  <1>1. LIFETIME \in Int /\ GRANT \in Int /\ MaxLatency \in Int
    BY TimingAssumption
  <1>. QED  BY <1>1

\* The parts of TypeOK: the flags, the times and the file.
Flags ==
  /\ pc \in {"load", "authenticate", "register", "sleep", "renew", "dead"}
  /\ auth_token \in Token
  /\ response \in BOOLEAN
  /\ served \in BOOLEAN /\ reused \in BOOLEAN /\ issued \in BOOLEAN
Clocks ==
  /\ left \in Times /\ store_left \in Times
  /\ fresh \in Grants /\ granted \in Grants
  /\ nap \in 0 .. POLL
  /\ wait \in 0 .. MaxLatency
Stored == store \in Seq(Words) /\ Len(store) <= 3

\* TypeOK is its parts, before and after a step.
LEMMA TypeParts ==
  /\ TypeOK <=> Flags /\ Clocks /\ Stored
  /\ TypeOK' <=> Flags' /\ Clocks' /\ Stored'
  BY Zenon DEF TypeOK, Flags, Clocks, Stored, Words, Token

----------------------------------------------------------------------------
(* The invariant *)

\* Inv holds when the first process starts: no token, no file, no request.
LEMMA InvInit == Init => Inv
  <1>. SUFFICES ASSUME Init PROVE Inv
    OBVIOUS
  <1>1. TypeOK
    <2>1. Flags
      BY Zenon DEF Init, Flags, NoToken, Token
    <2>2. Clocks
      BY TimingAssumption DEF Init, Clocks, Times, Grants, Past
    <2>3. Stored
      BY EmptySeq DEF Init, Stored
    <2>. QED  BY <2>1, <2>2, <2>3, TypeParts
  <1>2. NoRefresh /\ NoWait /\ Budget /\ Transit /\ Gap
    BY EmptySeq DEF Init, NoToken, Past, NoRefresh, Parses, NoWait, Budget, Transit, Gap
  <1>. QED  BY <1>1, <1>2 DEF Inv

\* Accepting a token, from an answer or from the remains of one, leaves a token of
\* the right kind and, saved or not, a file that load_token does not accept.
LEMMA AcceptSaves ==
  ASSUME TypeOK, NoRefresh,
         NEW access \in BOOLEAN, Accept(access), Save(auth_token')
  PROVE  /\ auth_token' \in Token /\ auth_token'.is_valid /\ auth_token'.access = access
         /\ left' = LIFETIME
         /\ store' \in Seq(Words) /\ Len(store') <= 3
         /\ store_left' \in Times
         /\ NoRefresh'
  <1>1. /\ auth_token' \in Token /\ auth_token'.is_valid /\ ~auth_token'.refresh
        /\ auth_token'.access = access
    BY DEF Accept, TypeOK, NoRefresh, Token
  <1>2. left' = LIFETIME
    BY DEF Accept
  <1>3. /\ store' \in Seq(Words) /\ Len(store') <= 3 /\ Len(store') # 3
        /\ store_left' \in Times
    <2>1. CASE store' = Saved(auth_token') /\ store_left' = LIFETIME
      <3>1. Saved(auth_token') \in Seq(Words) /\ Len(Saved(auth_token')) <= 2
        BY <1>1, SavedWords
      <3>2. Len(Saved(auth_token')) \in Nat
        BY <3>1, LenProperties
      <3>3. LIFETIME \in Times
        BY TimingAssumption DEF Times, Past
      <3>4. Len(Saved(auth_token')) <= 3 /\ Len(Saved(auth_token')) # 3
        BY <3>1, <3>2
      <3>. QED  BY <2>1, <3>1, <3>3, <3>4, Zenon
    <2>2. CASE UNCHANGED file
      BY <2>2 DEF file, TypeOK, NoRefresh, Parses, Words
    <2>. QED  BY <2>1, <2>2 DEF Save
  <1>. QED  BY <1>1, <1>2, <1>3 DEF NoRefresh, Parses

\* Every step of the client, the service, the clock and the crashes keeps Inv.
LEMMA InvStep == Inv /\ [Next]_vars => Inv'
  <1>. SUFFICES ASSUME Inv, [Next]_vars PROVE Inv'
    OBVIOUS
  <1>. USE TimingAssumption
  <1>t. LIFETIME \in Times /\ Past \in Times /\ GRANT \in Grants /\ Past \in Grants
    BY DEF Times, Grants, Past
  <1>1. CASE Load
    <2>1. /\ auth_token' = NoToken /\ left' = Past /\ pc' = "authenticate"
          /\ UNCHANGED <<nap, file, response, service, ghosts>>
      BY <1>1 DEF Load, Inv, NoRefresh, NoToken
    <2>2. TypeOK'
      BY <1>t, <2>1 DEF Inv, TypeOK, NoToken, file, service, ghosts
    <2>3. NoRefresh' /\ NoWait' /\ Budget' /\ Gap'
      BY <2>1 DEF Inv, NoRefresh, Parses, NoWait, Budget, Gap, NoToken, file, ghosts
    <2>4. Transit'
      BY <1>1, <2>1 DEF Load, Inv, Transit, Authenticating, service
    <2>. QED  BY <2>2, <2>3, <2>4 DEF Inv
  <1>2. CASE Register
    <2>1. TypeOK'
      BY <1>2 DEF Register, Inv, TypeOK, file, service
    <2>2. NoRefresh' /\ NoWait' /\ Transit' /\ Gap'
      BY <1>2 DEF Register, Inv, NoRefresh, Parses, NoWait, Transit, Authenticating, Gap,
                 file, service
    <2>3. Budget'
      BY <1>2 DEF Register, Inv, TypeOK, Budget, Times, Past
    <2>. QED  BY <2>1, <2>2, <2>3 DEF Inv
  <1>3. CASE Wake
    <2>1. TypeOK'
      BY <1>3 DEF Wake, Inv, TypeOK, file, service, ghosts
    <2>2. NoRefresh' /\ NoWait' /\ Transit' /\ Gap'
      BY <1>3 DEF Wake, Inv, NoRefresh, Parses, NoWait, Transit, Authenticating, Gap,
                 file, service, ghosts
    <2>3. Budget'
      BY <1>3 DEF Wake, IsExpiring, Inv, TypeOK, NoWait, Budget, Times, Past, ghosts
    <2>. QED  BY <2>1, <2>2, <2>3 DEF Inv
  <1>4. CASE Answer
    <2>1. PICK access \in BOOLEAN : Accept(access) /\ served' = (served /\ access)
      BY <1>4 DEF Answer
    <2>2. /\ auth_token' \in Token /\ auth_token'.is_valid /\ auth_token'.access = access
          /\ left' = LIFETIME
          /\ store' \in Seq(Words) /\ Len(store') <= 3
          /\ store_left' \in Times
          /\ NoRefresh'
      BY <1>4, <2>1, AcceptSaves DEF Answer, Inv
    <2>3. TypeOK'
      <3>1. Flags'
        <4>1. served' \in BOOLEAN
          BY <2>1
        <4>. QED  BY <1>4, <2>2, <4>1, TypeParts, Zenon DEF Answer, Return, Inv, Flags
      <3>2. Clocks'
        BY <1>4, <2>2, <1>t, TypeParts DEF Answer, Return, Inv, Clocks
      <3>3. Stored'
        BY <1>4, <2>2, TypeParts DEF Answer, Return, Inv, Stored
      <3>. QED  BY <3>1, <3>2, <3>3, TypeParts
    <2>4. NoWait' /\ Transit'
      BY <1>4 DEF Answer, Return, NoWait, Transit
    <2>5. Budget'
      BY <1>4, <2>2 DEF Answer, Authenticating, Return, Budget
    <2>6. Gap'
      <3>. SUFFICES ASSUME served'
                    PROVE  auth_token'.access /\ granted' + MaxLatency + LIFETIME >= left' + GRANT
        BY DEF Gap
      <3>1. served /\ access
        BY <2>1
      <3>2. granted' >= GRANT - wait
        BY <1>4, <3>1 DEF Answer, Inv, Transit
      <3>3. granted' \in Int /\ wait \in 0 .. MaxLatency
        BY <1>4 DEF Answer, Inv, TypeOK, Grants, Past
      <3>4. left' = LIFETIME
        BY <2>2
      <3>5. granted' + MaxLatency + LIFETIME >= left' + GRANT
        BY <3>2, <3>3, <3>4, GapOnArrival
      <3>6. auth_token'.access
        BY <2>2, <3>1
      <3>. QED  BY <3>5, <3>6
    <2>. QED  BY <2>2, <2>3, <2>4, <2>5, <2>6 DEF Inv
  <1>5. CASE Malformed
    <2>1. TypeOK'
      <3>1. Flags'
        BY <1>5, TypeParts, Zenon DEF Malformed, Return, file, Inv, Flags
      <3>2. Clocks'
        BY <1>5, <1>t, TypeParts DEF Malformed, Return, file, Inv, Clocks
      <3>3. Stored'
        BY <1>5, TypeParts DEF Malformed, Return, file, Inv, Stored
      <3>. QED  BY <3>1, <3>2, <3>3, TypeParts
    <2>2. NoRefresh' /\ NoWait' /\ Transit' /\ Budget' /\ Gap'
      BY <1>5 DEF Malformed, Return, Inv, NoRefresh, Parses, NoWait, Transit, Budget,
                 Gap, file
    <2>. QED  BY <2>1, <2>2 DEF Inv
  <1>6. CASE Silence
    <2>1. CASE Accept(auth_token.access) /\ Save(auth_token') /\ reused' = TRUE
      <3>1. auth_token.access \in BOOLEAN
        BY DEF Inv, TypeOK
      <3>2. /\ auth_token' \in Token /\ auth_token'.is_valid
            /\ left' = LIFETIME
            /\ store' \in Seq(Words) /\ Len(store') <= 3
            /\ store_left' \in Times
            /\ NoRefresh'
        BY <2>1, <3>1, AcceptSaves DEF Inv
      <3>3. TypeOK'
        <4>1. Flags'
          BY <1>6, <2>1, <3>2, TypeParts, Zenon DEF Silence, Return, Inv, Flags
        <4>2. Clocks'
          BY <1>6, <2>1, <3>2, <1>t, TypeParts DEF Silence, Return, Inv, Clocks
        <4>3. Stored'
          BY <1>6, <2>1, <3>2, TypeParts DEF Silence, Return, Inv, Stored
        <4>. QED  BY <4>1, <4>2, <4>3, TypeParts
      <3>4. NoWait' /\ Transit' /\ Budget' /\ Gap'
        BY <1>6, <2>1 DEF Silence, Return, NoWait, Transit, Budget, Gap
      <3>. QED  BY <3>2, <3>3, <3>4 DEF Inv
    <2>2. CASE UNCHANGED <<auth_token, left, file, reused>>
      <3>1. TypeOK'
        <4>1. Flags'
          BY <1>6, <2>2, TypeParts, Zenon DEF Silence, Return, file, Inv, Flags
        <4>2. Clocks'
          BY <1>6, <2>2, <1>t, TypeParts DEF Silence, Return, file, Inv, Clocks
        <4>3. Stored'
          BY <1>6, <2>2, TypeParts DEF Silence, Return, file, Inv, Stored
        <4>. QED  BY <4>1, <4>2, <4>3, TypeParts
      <3>2. NoRefresh' /\ NoWait' /\ Transit' /\ Budget' /\ Gap'
        BY <1>6, <2>2 DEF Silence, Return, Inv, NoRefresh, Parses, NoWait, Transit,
                         Budget, Gap, file
      <3>. QED  BY <3>1, <3>2 DEF Inv
    <2>. QED  BY <1>6, <2>1, <2>2 DEF Silence
  <1>7. CASE Fail
    <2>1. TypeOK'
      <3>1. Flags'
        BY <1>7, TypeParts, Zenon DEF Fail, Return, file, Inv, Flags
      <3>2. Clocks'
        BY <1>7, <1>t, TypeParts DEF Fail, Return, file, Inv, Clocks
      <3>3. Stored'
        BY <1>7, TypeParts DEF Fail, Return, file, Inv, Stored
      <3>. QED  BY <3>1, <3>2, <3>3, TypeParts
    <2>2. NoRefresh' /\ NoWait' /\ Transit' /\ Budget' /\ Gap'
      BY <1>7 DEF Fail, Return, Inv, NoRefresh, Parses, NoWait, Transit, Budget, Gap,
                 file
    <2>. QED  BY <2>1, <2>2 DEF Inv
  <1>8. CASE Crash
    <2>1. TypeOK'
      <3>1. Flags'
        BY <1>8, TypeParts, Zenon DEF Crash, Die, file, Inv, Flags, NoToken, Token
      <3>2. Clocks'
        BY <1>8, <1>t, TypeParts DEF Crash, Die, file, Inv, Clocks
      <3>3. Stored'
        BY <1>8, TypeParts DEF Crash, Die, file, Inv, Stored
      <3>. QED  BY <3>1, <3>2, <3>3, TypeParts
    <2>2. NoRefresh' /\ NoWait' /\ Budget' /\ Transit' /\ Gap'
      BY <1>8 DEF Crash, Die, NoToken, Inv, NoRefresh, Parses, NoWait, Budget, Transit,
                 Gap, file
    <2>. QED  BY <2>1, <2>2 DEF Inv
  <1>9. CASE CrashInSave
    <2>1. PICK access \in BOOLEAN, n \in 0 .. 1 :
            store' = SubSeq(Saved([auth_token EXCEPT !.access = access]), 1, n)
      BY <1>9 DEF CrashInSave
    <2>. DEFINE t == [auth_token EXCEPT !.access = access]
    <2>2. t \in Token /\ ~t.refresh
      BY DEF Inv, TypeOK, NoRefresh, Token
    <2>. HIDE DEF t
    <2>3. SubSeq(Saved(t), 1, n) \in Seq(Words) /\ Len(SubSeq(Saved(t), 1, n)) <= 1
      BY <2>2, SavedWords
    <2>4. store' \in Seq(Words) /\ Len(store') <= 1
      BY <2>1, <2>3 DEF t
    <2>5. Len(store') \in Nat
      BY <2>4, LenProperties
    <2>6. TypeOK'
      <3>1. Flags'
        BY <1>9, <2>4, <2>5, TypeParts, Zenon DEF CrashInSave, Die, Inv, Flags, NoToken, Token
      <3>2. Clocks'
        BY <1>9, <2>4, <2>5, <1>t, TypeParts DEF CrashInSave, Die, Inv, Clocks
      <3>3. Stored'
        BY <1>9, <2>4, <2>5, TypeParts DEF CrashInSave, Die, Inv, Stored
      <3>. QED  BY <3>1, <3>2, <3>3, TypeParts
    <2>7. NoRefresh' /\ NoWait' /\ Budget' /\ Transit' /\ Gap'
      BY <1>9, <2>4, <2>5 DEF CrashInSave, Die, NoToken, NoRefresh, Parses, NoWait,
                             Budget, Transit, Gap
    <2>. QED  BY <2>6, <2>7 DEF Inv
  <1>10. CASE Restart
    <2>1. TypeOK'
      BY <1>10 DEF Restart, Inv, TypeOK, file, service
    <2>2. NoRefresh' /\ NoWait' /\ Transit' /\ Budget' /\ Gap'
      BY <1>10 DEF Restart, Inv, NoRefresh, Parses, NoWait, Transit, Authenticating,
                  Budget, Gap, file, service
    <2>. QED  BY <2>1, <2>2 DEF Inv
  <1>11. CASE Tick
    <2>1. /\ left' \in Times /\ store_left' \in Times
          /\ fresh' \in Grants /\ granted' \in Grants
          /\ left' >= left - 1 /\ (left > 0 => left' = left - 1)
          /\ fresh' >= fresh - 1 /\ granted' >= granted - 1
      BY <1>11, LaterTimes DEF Tick, Inv, TypeOK, Times, Grants
    <2>2. TypeOK'
      BY <1>11, <2>1 DEF Tick, Inv, TypeOK
    <2>3. NoRefresh'
      BY <1>11, <2>1 DEF Tick, Inv, NoRefresh, Parses
    <2>4. NoWait'
      BY <1>11 DEF Tick, Requesting, Inv, NoWait
    <2>5. Budget'
      <3>. SUFFICES ASSUME served' PROVE Budget'
        BY DEF Budget
      <3>1. served /\ ~(Requesting /\ wait = MaxLatency)
        BY <1>11, Zenon DEF Tick
      <3>2. CASE pc = "register"
        BY <1>11, <2>1, <3>1, <3>2 DEF Tick, Requesting, Inv, TypeOK, Budget, Times, Past
      <3>3. CASE pc = "sleep"
        BY <1>11, <2>1, <3>1, <3>3 DEF Tick, Requesting, Inv, TypeOK, Budget, Times, Past
      <3>4. CASE pc = "renew"
        BY <1>11, <2>1, <3>1, <3>4 DEF Tick, Requesting, Inv, TypeOK, Budget, Times, Past
      <3>5. CASE pc \notin {"register", "sleep", "renew"}
        BY <1>11, <3>5 DEF Tick, Budget
      <3>. QED  BY <3>2, <3>3, <3>4, <3>5
    <2>6. Transit'
      <3>. SUFFICES ASSUME issued' PROVE Transit'
        BY DEF Transit
      <3>1. issued /\ Authenticating /\ Authenticating' /\ Requesting
        BY <1>11 DEF Tick, Inv, Transit, Authenticating, Requesting
      <3>2. ASSUME served' PROVE fresh' >= GRANT - wait'
        <4>1. served /\ wait # MaxLatency
          BY <1>11, <3>1, <3>2, Zenon DEF Tick
        <4>2. fresh >= GRANT - wait /\ wait' = wait + 1
          BY <1>11, <3>1, <4>1 DEF Tick, Inv, TypeOK, Transit
        <4>. QED  BY <2>1, <4>2 DEF Inv, TypeOK, Grants, Past
      <3>. QED  BY <3>1, <3>2 DEF Transit
    <2>7. Gap'
      <3>. SUFFICES ASSUME served', pc \in {"register", "sleep", "renew"} PROVE Gap'
        BY <1>11 DEF Tick, Gap
      <3>1. served
        BY <1>11, Zenon DEF Tick
      <3>2. left > 0
        BY <3>1 DEF Inv, TypeOK, Budget, Times, Past
      <3>3. auth_token.access /\ granted + MaxLatency + LIFETIME >= left + GRANT
        BY <3>1 DEF Inv, Gap
      <3>4. /\ left \in Int /\ granted \in Int /\ granted' \in Int
            /\ left' = left - 1 /\ granted' >= granted - 1
        BY <2>1, <3>2 DEF Inv, TypeOK, Times, Grants, Past
      <3>5. granted' + MaxLatency + LIFETIME >= left' + GRANT
        <4>1. granted + MaxLatency + LIFETIME >= left + GRANT
          BY <3>3
        <4>2. granted' + MaxLatency + LIFETIME >= (left - 1) + GRANT
          BY <3>4, <4>1, GapLater
        <4>. QED  BY <3>4, <4>2
      <3>. QED  BY <1>11, <3>3, <3>5 DEF Tick, Gap
    <2>. QED  BY <2>2, <2>3, <2>4, <2>5, <2>6, <2>7 DEF Inv
  <1>12. CASE Issue
    <2>1. TypeOK'
      <3>1. Flags'
        BY <1>12, TypeParts, Zenon DEF Issue, file, ghosts, Inv, Flags
      <3>2. Clocks'
        BY <1>12, <1>t, TypeParts DEF Issue, file, ghosts, Inv, Clocks
      <3>3. Stored'
        BY <1>12, TypeParts DEF Issue, file, Inv, Stored
      <3>. QED  BY <3>1, <3>2, <3>3, TypeParts
    <2>2. NoRefresh' /\ NoWait' /\ Budget' /\ Gap'
      BY <1>12 DEF Issue, Inv, NoRefresh, Parses, NoWait, Budget, Gap, file, ghosts
    <2>3. Transit'
      BY <1>12 DEF Issue, Inv, TypeOK, Transit, Authenticating, ghosts
    <2>. QED  BY <2>1, <2>2, <2>3 DEF Inv
  <1>13. CASE UNCHANGED vars
    BY <1>13 DEF vars, file, service, ghosts, Inv, TypeOK, NoRefresh, Parses, NoWait,
                Budget, Transit, Authenticating, Gap
  <1>. QED
    BY <1>1, <1>2, <1>3, <1>4, <1>5, <1>6, <1>7, <1>8, <1>9, <1>10, <1>11, <1>12,
       <1>13
    DEF Next, Network

\* Inv holds in every reachable state.
LEMMA Invariance == Spec => []Inv
  BY InvInit, InvStep, PTL DEF Spec

----------------------------------------------------------------------------
(* Theorems *)

\* Every time stays within the life of a token, the file never has more than three
\* words, and sleep and requests stay within their bounds.
THEOREM TypeCorrect == Spec => []TypeOK
  <1>1. Inv => TypeOK
    BY DEF Inv
  <1>. QED  BY <1>1, Invariance, PTL

\* oipes_client's renewal is early enough for every life time, margin, poll
\* interval and latency with POLL + MaxLatency < MARGIN: a process whose requests
\* were all answered in time never holds an expired token.
THEOREM TokenNeverLapses == Spec => []NeverLapses
  <1>1. Inv => NeverLapses
    BY TimingAssumption DEF Inv, TypeOK, Budget, NeverLapses, Times, Past
  <1>. QED  BY <1>1, Invariance, PTL

\* Nor does it hold one that the service has ceased to honour, although it counts
\* LIFETIME from when it reads the answer: for every time that the service grants
\* and every latency with POLL + 2 * MaxLatency + LIFETIME < MARGIN + GRANT.
THEOREM TokenIsHonoured == Spec => []HonouredWhileServed
  <1>1. Inv => HonouredWhileServed
    BY TimingAssumption DEF Inv, TypeOK, Budget, Gap, HonouredWhileServed, Times, Grants, Past
  <1>. QED  BY <1>1, Invariance, PTL

\* refresh_token is never set, so whatever was saved, and however often, no start
\* of the client takes a token from the file.
THEOREM FileIsNeverLoaded == Spec => []~Parses(store)
  <1>1. Inv => ~Parses(store)
    BY DEF Inv, NoRefresh
  <1>. QED  BY <1>1, Invariance, PTL
=============================================================================
