-------------------------- MODULE TokenStoreProofs --------------------------
(***************************************************************************)
(* The token store keeps its types, its file and its single flights, for   *)
(* every set of accounts and goroutines, whatever fails and crashes.       *)
(***************************************************************************)
EXTENDS TokenStore, SequenceTheorems, TLAPS

(* What SingleFlight needs to be inductive: the registered flight of an    *)
(* account and its leader know each other, and a flight is marked done     *)
(* only by a leader that has nothing left but to remove it.                *)
FlightsOK ==
    /\ \A c \in Caller :
         callers[c].pc \in Leading =>
           inflight[callers[c].acc.id] =
             [leader |-> c, done |-> callers[c].pc = "remove"]
    /\ \A a \in Account :
         inflight[a] # NoFlight =>
           /\ callers[inflight[a].leader].pc \in Leading
           /\ callers[inflight[a].leader].acc.id = a
    /\ \A c \in Caller :
         callers[c].pc = "wait" =>
           /\ inflight[callers[c].acc.id] # NoFlight
           /\ ~inflight[callers[c].acc.id].done

Inv == TypeOK /\ FlightsOK /\ FileIsMemory

-----------------------------------------------------------------------------
(* The list.                                                               *)

LEMMA IdleType == Idle \in CallerState /\ Idle.pc = "idle"
BY StoreAssumption DEF Idle, CallerState, PC, Blank, AccountToken, NoToken

LEMMA CurrentInList ==
    ASSUME TypeOK, NEW a, Listed(a)
    PROVE  /\ Index(a) \in 1 .. Len(data)
           /\ Current(a).id = a
           /\ Current(a) \in AccountToken
<1>1. Index(a) \in DOMAIN data /\ data[Index(a)].id = a
  BY DEF Listed, Index
<1>2. QED
  BY <1>1 DEF TypeOK, Current

LEMMA ReplacedType ==
    ASSUME TypeOK, NEW i \in 1 .. Len(data), NEW t \in AccountToken
    PROVE  [data EXCEPT ![i] = t] \in Seq(AccountToken)
BY ExceptSeq DEF TypeOK

LEMMA MergedType ==
    ASSUME TypeOK, NEW a \in Account, NEW token \in Nat
    PROVE  Merged(a, token) \in AccountToken
<1>1. Listed(a) => Current(a).refresh \in Nat /\ Current(a).proxy \in Proxy
  BY CurrentInList DEF AccountToken
<1>2. QED
  BY <1>1, StoreAssumption DEF Merged, AccountToken

LEMMA UpsertedType ==
    ASSUME TypeOK, NEW a \in Account, NEW token \in Nat
    PROVE  Upserted(a, token) \in Seq(AccountToken)
<1>1. Merged(a, token) \in AccountToken
  BY MergedType
<1>2. CASE Listed(a)
  BY <1>1, <1>2, CurrentInList, ReplacedType DEF Upserted
<1>3. CASE ~Listed(a)
  BY <1>1, <1>3, AppendProperties DEF Upserted, TypeOK
<1>4. QED
  BY <1>2, <1>3

LEMMA WithoutType ==
    ASSUME TypeOK, NEW a
    PROVE  Without(a) \in Seq(AccountToken)
<1>1. CASE Listed(a)
  <2>1. Index(a) \in 1 .. Len(data) /\ data \in Seq(AccountToken)
    BY <1>1, CurrentInList DEF TypeOK
  <2>2. /\ SubSeq(data, 1, Index(a) - 1) \in Seq(AccountToken)
        /\ SubSeq(data, Index(a) + 1, Len(data)) \in Seq(AccountToken)
    BY <2>1, SubSeqProperties
  <2>3. QED
    BY <1>1, <2>2, ConcatProperties DEF Without
<1>2. CASE ~Listed(a)
  BY <1>2 DEF Without, TypeOK
<1>3. QED
  BY <1>1, <1>2

LEMMA PublishKeeps ==
    ASSUME TypeOK, FileIsMemory,
           NEW next \in Seq(AccountToken), NEW ok \in BOOLEAN, Publish(next, ok)
    PROVE  /\ data' \in Seq(AccountToken) /\ file' \in Seq(AccountToken)
           /\ FileIsMemory'
BY DEF Publish, TypeOK, FileIsMemory

LEMMA SavedIsBoolean == Saved \subseteq BOOLEAN
BY StoreAssumption DEF Saved

LEMMA AtJoinType ==
    ASSUME TypeOK, NEW acc \in AccountToken
    PROVE  AtJoin(acc) \in AccountToken /\ AtJoin(acc).id = acc.id
BY CurrentInList DEF AtJoin

-----------------------------------------------------------------------------
(* The flights.                                                            *)

(* A goroutine that leads no flight, and will not, moves.                  *)
LEMMA OutsiderMoves ==
    ASSUME TypeOK, FlightsOK, NEW c \in Caller, NEW st \in CallerState,
           callers[c].pc \notin Leading, st.pc \notin Leading,
           st.pc = "wait" => /\ inflight[st.acc.id] # NoFlight
                             /\ ~inflight[st.acc.id].done,
           Become(c, st), UNCHANGED inflight
    PROVE  FlightsOK'
<1>1. callers' = [callers EXCEPT ![c] = st] /\ inflight' = inflight
  BY DEF Become
<1>2. /\ callers'[c] = st
      /\ \A d \in Caller \ {c} : callers'[d] = callers[d]
  BY <1>1 DEF TypeOK
<1>3. ASSUME NEW d \in Caller, callers'[d].pc \in Leading
      PROVE  inflight'[callers'[d].acc.id] =
               [leader |-> d, done |-> callers'[d].pc = "remove"]
  BY <1>1, <1>2, <1>3, ZenonT(60) DEF FlightsOK
<1>4. ASSUME NEW a \in Account, inflight'[a] # NoFlight
      PROVE  /\ callers'[inflight'[a].leader].pc \in Leading
             /\ callers'[inflight'[a].leader].acc.id = a
  <2> DEFINE d == inflight[a].leader
  <2>1. /\ d \in Caller
        /\ callers[d].pc \in Leading
        /\ callers[d].acc.id = a
    BY <1>1, <1>4 DEF FlightsOK, TypeOK, Flight
  <2>2. callers'[d].pc \in Leading /\ callers'[d].acc.id = a
    BY <1>2, <2>1
  <2>3. QED
    BY <1>1, <2>2
<1>5. ASSUME NEW d \in Caller, callers'[d].pc = "wait"
      PROVE  /\ inflight'[callers'[d].acc.id] # NoFlight
             /\ ~inflight'[callers'[d].acc.id].done
  BY <1>1, <1>2, <1>5 DEF FlightsOK
<1>6. QED
  BY <1>3, <1>4, <1>5 DEF FlightsOK

(* A leader goes on, and has not yet closed its flight.                    *)
LEMMA LeaderGoesOn ==
    ASSUME TypeOK, FlightsOK, NEW c \in Caller, NEW st \in CallerState,
           callers[c].pc \in Leading \ {"remove"},
           st.pc \in Leading \ {"remove"},
           st.acc.id = callers[c].acc.id,
           Become(c, st), UNCHANGED inflight
    PROVE  FlightsOK'
<1>1. callers' = [callers EXCEPT ![c] = st] /\ inflight' = inflight
  BY DEF Become
<1>2. /\ callers'[c] = st
      /\ \A d \in Caller \ {c} : callers'[d] = callers[d]
  BY <1>1 DEF TypeOK
<1>3. ASSUME NEW d \in Caller, callers'[d].pc \in Leading
      PROVE  inflight'[callers'[d].acc.id] =
               [leader |-> d, done |-> callers'[d].pc = "remove"]
  BY <1>1, <1>2, <1>3 DEF FlightsOK, Leading
<1>4. ASSUME NEW a \in Account, inflight'[a] # NoFlight
      PROVE  /\ callers'[inflight'[a].leader].pc \in Leading
             /\ callers'[inflight'[a].leader].acc.id = a
  <2> DEFINE d == inflight[a].leader
  <2>1. /\ d \in Caller
        /\ callers[d].pc \in Leading
        /\ callers[d].acc.id = a
    BY <1>1, <1>4 DEF FlightsOK, TypeOK, Flight
  <2>2. callers'[d].pc \in Leading /\ callers'[d].acc.id = a
    BY <1>2, <2>1
  <2>3. QED
    BY <1>1, <2>2
<1>5. ASSUME NEW d \in Caller, callers'[d].pc = "wait"
      PROVE  /\ inflight'[callers'[d].acc.id] # NoFlight
             /\ ~inflight'[callers'[d].acc.id].done
  BY <1>1, <1>2, <1>5 DEF FlightsOK, Leading
<1>6. QED
  BY <1>3, <1>4, <1>5 DEF FlightsOK

LEMMA FlightsUntouched ==
    ASSUME FlightsOK, UNCHANGED <<callers, inflight>>
    PROVE  FlightsOK'
BY DEF FlightsOK

LEMMA GotoType ==
    ASSUME TypeOK, NEW c \in Caller, NEW pc \in PC
    PROVE  /\ [callers[c] EXCEPT !.pc = pc] \in CallerState
           /\ [callers[c] EXCEPT !.pc = pc].pc = pc
           /\ [callers[c] EXCEPT !.pc = pc].acc = callers[c].acc
BY DEF TypeOK, CallerState

LEMMA BecomeType ==
    ASSUME TypeOK, NEW c \in Caller, NEW st \in CallerState, Become(c, st)
    PROVE  callers' \in [Caller -> CallerState]
BY DEF TypeOK, Become

LEMMA CallerType ==
    ASSUME TypeOK, NEW c \in Caller
    PROVE  /\ callers[c] \in CallerState
           /\ callers[c].acc \in AccountToken
           /\ callers[c].acc.id \in Account
           /\ callers[c].acc.refresh \in Nat
           /\ callers[c].token \in Nat
BY DEF TypeOK, CallerState, AccountToken

(* Writing an account back at its place.                                   *)
LEMMA WriteBackKeeps ==
    ASSUME TypeOK, FileIsMemory, NEW acc \in AccountToken, NEW ok \in BOOLEAN,
           IF Listed(acc.id) THEN Publish([data EXCEPT ![Index(acc.id)] = acc], ok)
           ELSE UNCHANGED <<data, file>>
    PROVE  /\ data' \in Seq(AccountToken) /\ file' \in Seq(AccountToken)
           /\ FileIsMemory'
<1>1. CASE Listed(acc.id)
  <2>1. [data EXCEPT ![Index(acc.id)] = acc] \in Seq(AccountToken)
    BY <1>1, CurrentInList, ReplacedType
  <2>2. QED
    BY <1>1, <2>1, PublishKeeps
<1>2. CASE ~Listed(acc.id)
  BY <1>2 DEF TypeOK, FileIsMemory
<1>3. QED
  BY <1>1, <1>2

-----------------------------------------------------------------------------
(* EnsureValid.                                                            *)

LEMMA GetKeeps ==
    ASSUME Inv, NEW c \in Caller, NEW a \in Account, Get(c, a)
    PROVE  Inv'
<1> DEFINE st == [pc |-> IF Current(a).refresh = NoToken THEN "expire" ELSE "join",
                  acc |-> Current(a), token |-> NoToken]
<1>1. CASE Listed(a) /\ ~Current(a).fresh
  <2>1. Become(c, st)
    BY <1>1 DEF Get
  <2>2. st \in CallerState /\ st.pc \notin Leading \union {"wait"}
    BY <1>1, CurrentInList DEF Inv, CallerState, PC, Leading, NoToken
  <2>3. callers[c].pc \notin Leading
    BY DEF Get, Leading
  <2>4. FlightsOK'
    BY <2>1, <2>2, <2>3, OutsiderMoves DEF Inv, Get
  <2>5. TypeOK'
    BY <2>1, <2>2, BecomeType DEF Inv, TypeOK, Get
  <2>6. QED
    BY <2>4, <2>5 DEF Inv, Get, FileIsMemory
<1>2. CASE ~(Listed(a) /\ ~Current(a).fresh)
  <2>1. UNCHANGED vars
    BY <1>2 DEF Get, vars
  <2>2. QED
    BY <2>1, FlightsUntouched DEF Inv, TypeOK, FileIsMemory, vars
<1>3. QED
  BY <1>1, <1>2

LEMMA ExpireKeeps ==
    ASSUME Inv, NEW c \in Caller, Expire(c)
    PROVE  Inv'
<1>1. callers[c].acc \in AccountToken
  BY CallerType DEF Inv
<1>2. data' \in Seq(AccountToken) /\ file' \in Seq(AccountToken) /\ FileIsMemory'
  BY <1>1, WriteBackKeeps, SavedIsBoolean DEF Inv, Expire
<1>3. Become(c, Idle) /\ callers[c].pc \notin Leading /\ Idle.pc \notin Leading \union {"wait"}
  BY IdleType DEF Expire, Leading
<1>4. FlightsOK'
  BY <1>3, IdleType, OutsiderMoves DEF Inv, Expire
<1>5. TypeOK'
  BY <1>2, <1>3, IdleType, BecomeType DEF Inv, TypeOK, Expire
<1>6. QED
  BY <1>2, <1>4, <1>5 DEF Inv

LEMMA JoinKeeps ==
    ASSUME Inv, NEW c \in Caller, Join(c)
    PROVE  Inv'
<1> DEFINE acc  == AtJoin(callers[c].acc)
           a    == acc.id
           wait == [callers[c] EXCEPT !.pc = "wait", !.acc = acc]
           lead == [callers[c] EXCEPT !.pc = "redeem", !.acc = acc]
<1>1. acc \in AccountToken /\ a \in Account
  BY CallerType, AtJoinType DEF Inv, AccountToken
<1>2. /\ wait \in CallerState /\ wait.pc = "wait" /\ wait.acc = acc
      /\ lead \in CallerState /\ lead.pc = "redeem" /\ lead.acc = acc
  BY <1>1, CallerType DEF Inv, CallerState, PC
<1>3. callers[c].pc = "join" /\ UNCHANGED <<data, file, backoff, endpoint, budget>>
  BY DEF Join
<1>4. CASE Become(c, Idle) /\ UNCHANGED inflight
  <2>1. callers[c].pc \notin Leading /\ Idle.pc \notin Leading \union {"wait"}
    BY <1>3, IdleType DEF Leading
  <2>2. FlightsOK'
    BY <1>4, <2>1, IdleType, OutsiderMoves DEF Inv
  <2>3. TypeOK'
    BY <1>3, <1>4, IdleType, BecomeType DEF Inv, TypeOK
  <2>4. QED
    BY <1>3, <2>2, <2>3 DEF Inv, FileIsMemory
<1>5. CASE /\ ~Clear(a) /\ ~inflight[a].done
           /\ Become(c, wait) /\ UNCHANGED inflight
  <2>1. callers[c].pc \notin Leading /\ wait.pc \notin Leading
    BY <1>2, <1>3 DEF Leading
  <2>2. FlightsOK'
    BY <1>2, <1>5, <2>1, OutsiderMoves DEF Inv, Clear
  <2>3. TypeOK'
    BY <1>2, <1>3, <1>5, BecomeType DEF Inv, TypeOK
  <2>4. QED
    BY <1>3, <2>2, <2>3 DEF Inv, FileIsMemory
<1>6. CASE /\ Clear(a)
           /\ inflight' = [inflight EXCEPT ![a] = [leader |-> c, done |-> FALSE]]
           /\ Become(c, lead)
  <2>1. FlightsOK'
    <3>1. /\ callers'[c] = lead
          /\ \A d \in Caller \ {c} : callers'[d] = callers[d]
      BY <1>6 DEF Inv, TypeOK, Become
    <3>2. /\ inflight'[a] = [leader |-> c, done |-> FALSE]
          /\ \A b \in Account \ {a} : inflight'[b] = inflight[b]
      BY <1>1, <1>6 DEF Inv, TypeOK
    <3>3. inflight[a] = NoFlight
      BY <1>6 DEF Clear
    <3>4. ASSUME NEW d \in Caller \ {c}, callers[d].pc \in Leading \union {"wait"}
          PROVE  callers[d].acc.id \in Account \ {a}
      <4>1. inflight[callers[d].acc.id] # NoFlight
        <5>1. CASE callers[d].pc \in Leading
          <6>1. inflight[callers[d].acc.id] =
                  [leader |-> d, done |-> callers[d].pc = "remove"]
            BY <5>1 DEF Inv, FlightsOK
          <6>2. inflight[callers[d].acc.id].leader = d
            BY <6>1
          <6>3. QED
            BY <6>2, StoreAssumption DEF NoFlight
        <5>2. CASE callers[d].pc = "wait"
          BY <5>2 DEF Inv, FlightsOK
        <5>3. QED
          BY <3>4, <5>1, <5>2
      <4>2. QED
        BY <3>3, <4>1, CallerType DEF Inv
    <3>5. ASSUME NEW d \in Caller, callers'[d].pc \in Leading
          PROVE  inflight'[callers'[d].acc.id] =
                   [leader |-> d, done |-> callers'[d].pc = "remove"]
      <4>1. CASE d = c
        BY <1>2, <3>1, <3>2, <4>1
      <4>2. CASE d # c
        <5>1. callers'[d] = callers[d]
          BY <3>1, <4>2
        <5>2. callers[d].pc \in Leading /\ callers[d].acc.id \in Account \ {a}
          BY <3>4, <3>5, <4>2, <5>1
        <5>3. inflight[callers[d].acc.id] =
                [leader |-> d, done |-> callers[d].pc = "remove"]
          BY <5>2 DEF Inv, FlightsOK
        <5>4. inflight'[callers[d].acc.id] = inflight[callers[d].acc.id]
          BY <3>2, <5>2
        <5>5. QED
          BY <5>1, <5>3, <5>4, Zenon
      <4>3. QED
        BY <4>1, <4>2
    <3>6. ASSUME NEW b \in Account, inflight'[b] # NoFlight
          PROVE  /\ callers'[inflight'[b].leader].pc \in Leading
                 /\ callers'[inflight'[b].leader].acc.id = b
      <4>1. CASE b = a
        <5>1. inflight'[b].leader = c
          BY <3>2, <4>1
        <5>2. callers'[c].pc \in Leading /\ callers'[c].acc.id = b
          BY <1>2, <3>1, <4>1 DEF Leading
        <5>3. QED
          BY <5>1, <5>2
      <4>2. CASE b # a
        <5>1. /\ inflight[b].leader \in Caller
              /\ callers[inflight[b].leader].pc \in Leading
              /\ callers[inflight[b].leader].acc.id = b
          BY <3>2, <3>6, <4>2 DEF Inv, TypeOK, FlightsOK, Flight
        <5>2. inflight[b].leader # c
          BY <1>3, <5>1 DEF Leading
        <5>3. QED
          BY <3>1, <3>2, <4>2, <5>1, <5>2
      <4>3. QED
        BY <4>1, <4>2
    <3>7. ASSUME NEW d \in Caller, callers'[d].pc = "wait"
          PROVE  /\ inflight'[callers'[d].acc.id] # NoFlight
                 /\ ~inflight'[callers'[d].acc.id].done
      <4>1. d # c /\ callers'[d] = callers[d]
        BY <1>2, <3>1, <3>7
      <4>2. callers[d].pc = "wait" /\ callers[d].acc.id \in Account \ {a}
        BY <3>4, <3>7, <4>1
      <4>3. QED
        BY <3>2, <4>1, <4>2 DEF Inv, FlightsOK
    <3>8. QED
      BY <3>5, <3>6, <3>7 DEF FlightsOK
  <2>2. inflight' \in [Account -> Flight \union {NoFlight}]
    BY <1>1, <1>6 DEF Inv, TypeOK, Flight
  <2>3. TypeOK'
    BY <1>2, <1>3, <1>6, <2>2, BecomeType DEF Inv, TypeOK
  <2>4. QED
    BY <1>3, <2>1, <2>3 DEF Inv, FileIsMemory
<1>7. QED
  BY <1>4, <1>5, <1>6 DEF Join

LEMMA ProxyFailsKeeps ==
    ASSUME Inv, NEW c \in Caller, ProxyFails(c)
    PROVE  Inv'
<1> DEFINE st == [callers[c] EXCEPT !.pc = "close"]
<1>1. st \in CallerState /\ st.pc = "close" /\ st.acc = callers[c].acc
  BY GotoType DEF Inv, PC
<1>2. Become(c, st)
  BY DEF ProxyFails, Goto
<1>3. FlightsOK'
  BY <1>1, <1>2, LeaderGoesOn DEF Inv, ProxyFails, Leading
<1>4. TypeOK'
  BY <1>1, <1>2, BecomeType DEF Inv, TypeOK, ProxyFails
<1>5. QED
  BY <1>3, <1>4 DEF Inv, FileIsMemory, ProxyFails

LEMMA EndpointFields ==
    ASSUME TypeOK
    PROVE  /\ endpoint.issued \in Nat
           /\ endpoint.spent \subseteq Nat /\ endpoint.replaced \subseteq Nat
           /\ endpoint.chosen \in [Account -> Proxy]
BY DEF TypeOK, Endpoint

LEMMA EndpointType ==
    ASSUME TypeOK
    PROVE  /\ \A i \in Nat, s \in SUBSET Nat :
                [endpoint EXCEPT !.issued = i, !.spent = s] \in Endpoint
           /\ \A i \in Nat : [endpoint EXCEPT !.issued = i] \in Endpoint
           /\ \A s \in SUBSET Nat : [endpoint EXCEPT !.spent = s] \in Endpoint
           /\ \A s \in SUBSET Nat : [endpoint EXCEPT !.replaced = s] \in Endpoint
<1>1. endpoint \in [issued : Nat, spent : SUBSET Nat, replaced : SUBSET Nat,
                     chosen : [Account -> Proxy]]
  BY DEF TypeOK, Endpoint
<1>2. QED
  BY <1>1 DEF Endpoint

LEMMA RedeemKeeps ==
    ASSUME Inv, NEW c \in Caller, Redeem(c)
    PROVE  Inv'
<1> DEFINE kept    == [callers[c] EXCEPT !.pc = "upsert"]
           rotated == [callers[c] EXCEPT !.pc = "upsert", !.token = endpoint.issued + 1]
<1>1. /\ kept \in CallerState /\ kept.pc = "upsert" /\ kept.acc = callers[c].acc
      /\ rotated \in CallerState /\ rotated.pc = "upsert"
      /\ rotated.acc = callers[c].acc
  <2>1. endpoint.issued + 1 \in Nat /\ callers[c] \in CallerState
    BY CallerType, EndpointFields DEF Inv
  <2>2. QED
    BY <2>1 DEF CallerState, PC
<1>2. PICK st \in {kept, rotated} : Become(c, st)
  BY DEF Redeem
<1>3. FlightsOK'
  BY <1>1, <1>2, LeaderGoesOn DEF Inv, Redeem, Leading
<1>4. endpoint' \in Endpoint
  <2>1. CASE UNCHANGED endpoint
    BY <2>1 DEF Inv, TypeOK
  <2>2. CASE endpoint' = [endpoint EXCEPT !.issued = endpoint.issued + 1,
                                          !.spent = endpoint.spent \union
                                                      {callers[c].acc.refresh}]
    <3>1. /\ endpoint.issued + 1 \in Nat
          /\ endpoint.spent \union {callers[c].acc.refresh} \in SUBSET Nat
      BY CallerType, EndpointFields DEF Inv
    <3>2. QED
      BY <2>2, <3>1, EndpointType DEF Inv
  <2>3. QED
    BY <2>1, <2>2 DEF Redeem
<1>5. callers' \in [Caller -> CallerState]
  BY <1>1, <1>2, BecomeType DEF Inv
<1>6. QED
  BY <1>3, <1>4, <1>5 DEF Inv, TypeOK, FileIsMemory, Redeem

LEMMA RedeemFailsKeeps ==
    ASSUME Inv, NEW c \in Caller, RedeemFails(c)
    PROVE  Inv'
<1> DEFINE acc == callers[c].acc
           st  == [callers[c] EXCEPT !.pc = "close"]
<1>1. st \in CallerState /\ st.pc = "close" /\ st.acc = acc
  BY GotoType DEF Inv, PC
<1>2. Become(c, st)
  BY DEF RedeemFails, Goto
<1>3. FlightsOK'
  BY <1>1, <1>2, LeaderGoesOn DEF Inv, RedeemFails, Leading
<1>4. data' \in Seq(AccountToken) /\ file' \in Seq(AccountToken) /\ FileIsMemory'
  BY CallerType, WriteBackKeeps, SavedIsBoolean DEF Inv, RedeemFails
<1>5. endpoint' \in Endpoint
  <2>1. PICK s \in SUBSET Nat : endpoint' = [endpoint EXCEPT !.spent = s]
    BY CallerType, EndpointFields DEF Inv, RedeemFails
  <2>2. QED
    BY <2>1, EndpointType DEF Inv
<1>6. backoff' \subseteq Account
  BY CallerType DEF Inv, TypeOK, RedeemFails
<1>7. callers' \in [Caller -> CallerState]
  BY <1>1, <1>2, BecomeType DEF Inv
<1>8. QED
  BY <1>3, <1>4, <1>5, <1>6, <1>7 DEF Inv, TypeOK, RedeemFails

LEMMA UpsertKeeps ==
    ASSUME Inv, NEW c \in Caller, Upsert(c)
    PROVE  Inv'
<1> DEFINE acc == callers[c].acc
           st  == [callers[c] EXCEPT !.pc = "forgive"]
<1>1. st \in CallerState /\ st.pc = "forgive" /\ st.acc = acc
  BY GotoType DEF Inv, PC
<1>2. Become(c, st)
  BY DEF Upsert, Goto
<1>3. FlightsOK'
  BY <1>1, <1>2, LeaderGoesOn DEF Inv, Upsert, Leading
<1>4. data' \in Seq(AccountToken) /\ file' \in Seq(AccountToken) /\ FileIsMemory'
  BY CallerType, UpsertedType, PublishKeeps, SavedIsBoolean DEF Inv, Upsert
<1>5. endpoint' \in Endpoint
  <2>1. PICK s \in SUBSET Nat : endpoint' = [endpoint EXCEPT !.replaced = s]
    BY CallerType, EndpointFields DEF Inv, Upsert
  <2>2. QED
    BY <2>1, EndpointType DEF Inv
<1>6. callers' \in [Caller -> CallerState]
  BY <1>1, <1>2, BecomeType DEF Inv
<1>7. QED
  BY <1>3, <1>4, <1>5, <1>6 DEF Inv, TypeOK, Upsert

LEMMA ForgiveKeeps ==
    ASSUME Inv, NEW c \in Caller, Forgive(c)
    PROVE  Inv'
<1> DEFINE st == [callers[c] EXCEPT !.pc = "close"]
<1>1. st \in CallerState /\ st.pc = "close" /\ st.acc = callers[c].acc
  BY GotoType DEF Inv, PC
<1>2. Become(c, st)
  BY DEF Forgive, Goto
<1>3. FlightsOK'
  BY <1>1, <1>2, LeaderGoesOn DEF Inv, Forgive, Leading
<1>4. callers' \in [Caller -> CallerState]
  BY <1>1, <1>2, BecomeType DEF Inv
<1>5. QED
  BY <1>3, <1>4 DEF Inv, TypeOK, FileIsMemory, Forgive

(* Closing wakes every waiter of the account, so none is left behind by    *)
(* the removal of the flight.                                              *)
LEMMA CloseKeeps ==
    ASSUME Inv, NEW c \in Caller, Close(c)
    PROVE  Inv'
<1> DEFINE a  == callers[c].acc.id
           st == [callers[c] EXCEPT !.pc = "remove"]
<1>1. st \in CallerState /\ st.pc = "remove" /\ st.acc = callers[c].acc
  BY GotoType DEF Inv, PC
<1>2. a \in Account /\ inflight[a] = [leader |-> c, done |-> FALSE]
  BY CallerType DEF Inv, Close, FlightsOK, Leading
<1>3. /\ inflight'[a] = [leader |-> c, done |-> TRUE]
      /\ \A b \in Account \ {a} : inflight'[b] = inflight[b]
      /\ inflight' \in [Account -> Flight \union {NoFlight}]
  BY <1>2 DEF Inv, TypeOK, Close, Flight
<1>4. /\ callers'[c] = st
      /\ \A d \in Caller \ {c} :
           callers'[d] = IF callers[d].pc = "wait" /\ callers[d].acc.id = a
                         THEN Idle ELSE callers[d]
  BY DEF Close, Woken
<1>5. callers' \in [Caller -> CallerState]
  <2>1. callers' = Woken(c)
    BY DEF Close
  <2>2. \A d \in Caller : callers[d] \in CallerState
    BY DEF Inv, TypeOK
  <2>3. QED
    BY <1>1, <2>1, <2>2, IdleType DEF Woken
<1>6. ASSUME NEW d \in Caller \ {c}, callers'[d].pc \in Leading \union {"wait"}
      PROVE  callers'[d] = callers[d] /\ callers[d].acc.id \in Account \ {a}
  <2>1. callers'[d] = callers[d]
    BY <1>4, <1>6, IdleType DEF Leading
  <2>2. CASE callers[d].pc = "wait"
    BY <1>4, <1>6, <2>1, <2>2, IdleType, CallerType DEF Inv
  <2>3. CASE callers[d].pc \in Leading
    <3>1. inflight[callers[d].acc.id] =
            [leader |-> d, done |-> callers[d].pc = "remove"]
      BY <2>3 DEF Inv, FlightsOK
    <3>2. inflight[callers[d].acc.id].leader = d
      BY <3>1
    <3>3. inflight[a].leader = c
      BY <1>2
    <3>4. QED
      BY <2>1, <3>2, <3>3, CallerType DEF Inv
  <2>4. QED
    BY <1>6, <2>1, <2>2, <2>3
<1>7. ASSUME NEW d \in Caller, callers'[d].pc \in Leading
      PROVE  inflight'[callers'[d].acc.id] =
               [leader |-> d, done |-> callers'[d].pc = "remove"]
  <2>1. CASE d = c
    BY <1>1, <1>3, <1>4, <2>1
  <2>2. CASE d # c
    <3>1. callers'[d] = callers[d] /\ callers[d].acc.id \in Account \ {a}
      BY <1>6, <1>7, <2>2
    <3>2. inflight[callers[d].acc.id] =
            [leader |-> d, done |-> callers[d].pc = "remove"]
      BY <1>7, <3>1 DEF Inv, FlightsOK
    <3>3. inflight'[callers[d].acc.id] = inflight[callers[d].acc.id]
      BY <1>3, <3>1
    <3>4. QED
      BY <3>1, <3>2, <3>3, Zenon
  <2>3. QED
    BY <2>1, <2>2
<1>8. ASSUME NEW b \in Account, inflight'[b] # NoFlight
      PROVE  /\ callers'[inflight'[b].leader].pc \in Leading
             /\ callers'[inflight'[b].leader].acc.id = b
  <2>1. CASE b = a
    <3>1. inflight'[b].leader = c
      BY <1>3, <2>1
    <3>2. QED
      BY <1>1, <1>4, <2>1, <3>1, ZenonT(60) DEF Leading
  <2>2. CASE b # a
    <3>1. inflight'[b] = inflight[b]
      BY <1>3, <2>2
    <3>2. /\ inflight[b].leader \in Caller
          /\ callers[inflight[b].leader].pc \in Leading
          /\ callers[inflight[b].leader].acc.id = b
      BY <1>8, <3>1 DEF Inv, TypeOK, FlightsOK, Flight
    <3>3. inflight[b].leader # c
      BY <2>2, <3>2
    <3>4. callers'[inflight[b].leader] = callers[inflight[b].leader]
      BY <1>4, <3>2, <3>3 DEF Leading
    <3>5. QED
      BY <3>1, <3>2, <3>4
  <2>3. QED
    BY <2>1, <2>2
<1>9. ASSUME NEW d \in Caller, callers'[d].pc = "wait"
      PROVE  /\ inflight'[callers'[d].acc.id] # NoFlight
             /\ ~inflight'[callers'[d].acc.id].done
  <2>1. d # c
    BY <1>1, <1>4, <1>9
  <2>2. callers'[d] = callers[d] /\ callers[d].acc.id \in Account \ {a}
    BY <1>6, <1>9, <2>1
  <2>3. QED
    BY <1>3, <1>9, <2>2 DEF Inv, FlightsOK
<1>10. FlightsOK'
  BY <1>7, <1>8, <1>9 DEF FlightsOK
<1>11. QED
  BY <1>3, <1>5, <1>10 DEF Inv, TypeOK, FileIsMemory, Close

LEMMA RemoveKeeps ==
    ASSUME Inv, NEW c \in Caller, Remove(c)
    PROVE  Inv'
<1> DEFINE a == callers[c].acc.id
<1>1. a \in Account /\ inflight[a] = [leader |-> c, done |-> TRUE]
  BY CallerType DEF Inv, Remove, FlightsOK, Leading
<1>2. /\ inflight'[a] = NoFlight
      /\ \A b \in Account \ {a} : inflight'[b] = inflight[b]
      /\ inflight' \in [Account -> Flight \union {NoFlight}]
  BY <1>1 DEF Inv, TypeOK, Remove
<1>3. /\ callers'[c] = Idle
      /\ \A d \in Caller \ {c} : callers'[d] = callers[d]
  BY DEF Inv, TypeOK, Remove, Become
<1>4. ASSUME NEW d \in Caller, callers'[d].pc \in Leading \union {"wait"}
      PROVE  /\ d # c /\ callers'[d] = callers[d]
             /\ callers[d].acc.id \in Account \ {a}
  <2>1. d # c /\ callers'[d] = callers[d]
    BY <1>3, <1>4, IdleType DEF Leading
  <2>2. CASE callers[d].pc = "wait"
    <3>1. ~inflight[callers[d].acc.id].done
      BY <2>2 DEF Inv, FlightsOK
    <3>2. inflight[a].done
      BY <1>1
    <3>3. QED
      BY <2>1, <3>1, <3>2, CallerType DEF Inv
  <2>3. CASE callers[d].pc \in Leading
    <3>1. inflight[callers[d].acc.id] =
            [leader |-> d, done |-> callers[d].pc = "remove"]
      BY <2>3 DEF Inv, FlightsOK
    <3>2. inflight[callers[d].acc.id].leader = d
      BY <3>1
    <3>3. inflight[a].leader = c
      BY <1>1
    <3>4. QED
      BY <2>1, <3>2, <3>3, CallerType DEF Inv
  <2>4. QED
    BY <1>4, <2>1, <2>2, <2>3
<1>5. ASSUME NEW d \in Caller, callers'[d].pc \in Leading
      PROVE  inflight'[callers'[d].acc.id] =
               [leader |-> d, done |-> callers'[d].pc = "remove"]
  <2>1. callers'[d] = callers[d] /\ callers[d].acc.id \in Account \ {a}
    BY <1>4, <1>5
  <2>2. inflight[callers[d].acc.id] =
          [leader |-> d, done |-> callers[d].pc = "remove"]
    BY <1>5, <2>1 DEF Inv, FlightsOK
  <2>3. inflight'[callers[d].acc.id] = inflight[callers[d].acc.id]
    BY <1>2, <2>1
  <2>4. QED
    BY <2>1, <2>2, <2>3, Zenon
<1>6. ASSUME NEW b \in Account, inflight'[b] # NoFlight
      PROVE  /\ callers'[inflight'[b].leader].pc \in Leading
             /\ callers'[inflight'[b].leader].acc.id = b
  <2>1. b # a /\ inflight'[b] = inflight[b]
    BY <1>2, <1>6
  <2>2. /\ inflight[b].leader \in Caller
        /\ callers[inflight[b].leader].pc \in Leading
        /\ callers[inflight[b].leader].acc.id = b
    BY <1>6, <2>1 DEF Inv, TypeOK, FlightsOK, Flight
  <2>3. inflight[b].leader # c
    BY <2>1, <2>2
  <2>4. QED
    BY <1>3, <2>1, <2>2, <2>3
<1>7. ASSUME NEW d \in Caller, callers'[d].pc = "wait"
      PROVE  /\ inflight'[callers'[d].acc.id] # NoFlight
             /\ ~inflight'[callers'[d].acc.id].done
  BY <1>2, <1>4, <1>7 DEF Inv, FlightsOK
<1>8. FlightsOK'
  BY <1>5, <1>6, <1>7 DEF FlightsOK
<1>9. callers' \in [Caller -> CallerState]
  BY IdleType, BecomeType DEF Inv, Remove
<1>10. QED
  BY <1>2, <1>8, <1>9 DEF Inv, TypeOK, FileIsMemory, Remove

-----------------------------------------------------------------------------
(* The administrator, time and crashes.                                    *)

LEMMA LoginKeeps ==
    ASSUME Inv, NEW a \in Account, Login(a)
    PROVE  Inv'
<1>1. PICK ok \in Saved, token \in {NoToken, endpoint.issued + 1} :
         /\ Publish(Upserted(a, token), ok)
         /\ endpoint' = [endpoint EXCEPT !.issued = IF token = NoToken THEN @ ELSE token]
  BY DEF Login
<1>2. token \in Nat /\ ok \in BOOLEAN
  BY EndpointFields, SavedIsBoolean DEF Inv, NoToken
<1>3. data' \in Seq(AccountToken) /\ file' \in Seq(AccountToken) /\ FileIsMemory'
  BY <1>1, <1>2, UpsertedType, PublishKeeps DEF Inv
<1>4. endpoint' \in Endpoint
  <2>1. PICK i \in Nat : endpoint' = [endpoint EXCEPT !.issued = i]
    BY <1>1, <1>2, EndpointFields DEF Inv
  <2>2. QED
    BY <2>1, EndpointType DEF Inv
<1>5. budget' \in Budget
  <2>1. /\ budget \in Budget /\ budget.logins > 0
        /\ budget' = [budget EXCEPT !.logins = @ - 1]
    BY DEF Inv, TypeOK, Login
  <2>2. QED
    BY <2>1 DEF Budget
<1>6. FlightsOK'
  BY FlightsUntouched DEF Inv, Login
<1>7. QED
  BY <1>3, <1>4, <1>5, <1>6 DEF Inv, TypeOK, Login

LEMMA ChosenType ==
    ASSUME TypeOK, NEW a \in Account, NEW p \in Proxy
    PROVE  [endpoint EXCEPT !.chosen[a] = p] \in Endpoint
BY DEF TypeOK, Endpoint

LEMMA SetProxyKeeps ==
    ASSUME Inv, NEW a \in Account, NEW p \in Proxy, SetProxy(a, p)
    PROVE  Inv'
<1>1. PICK ok \in Saved :
         /\ Publish([data EXCEPT ![Index(a)].proxy = p], ok)
         /\ endpoint' = [endpoint EXCEPT !.chosen[a] = IF ok THEN p ELSE @]
  BY DEF SetProxy
<1>2. [data EXCEPT ![Index(a)].proxy = p] \in Seq(AccountToken)
  <2>1. /\ Index(a) \in 1 .. Len(data)
        /\ data[Index(a)] \in AccountToken
    BY CurrentInList DEF Inv, SetProxy, Current
  <2>2. [data[Index(a)] EXCEPT !.proxy = p] \in AccountToken
    BY <2>1 DEF AccountToken
  <2>3. [data EXCEPT ![Index(a)] = [data[Index(a)] EXCEPT !.proxy = p]]
          \in Seq(AccountToken)
    BY <2>1, <2>2, ReplacedType DEF Inv
  <2>4. QED
    BY <2>3
<1>3. data' \in Seq(AccountToken) /\ file' \in Seq(AccountToken) /\ FileIsMemory'
  BY <1>1, <1>2, PublishKeeps, SavedIsBoolean DEF Inv
<1>4. endpoint' \in Endpoint
  <2>1. PICK q \in Proxy : endpoint' = [endpoint EXCEPT !.chosen[a] = q]
    BY <1>1, EndpointFields DEF Inv
  <2>2. QED
    BY <2>1, ChosenType DEF Inv
<1>5. budget' \in Budget
  <2>1. /\ budget \in Budget /\ budget.proxies > 0
        /\ budget' = [budget EXCEPT !.proxies = @ - 1]
    BY DEF Inv, TypeOK, SetProxy
  <2>2. QED
    BY <2>1 DEF Budget
<1>6. FlightsOK'
  BY FlightsUntouched DEF Inv, SetProxy
<1>7. QED
  BY <1>3, <1>4, <1>5, <1>6 DEF Inv, TypeOK, SetProxy

LEMMA DeleteKeeps ==
    ASSUME Inv, NEW a \in Account, Delete(a)
    PROVE  Inv'
<1>1. PICK ok \in Saved :
         /\ Publish(Without(a), ok)
         /\ endpoint' = [endpoint EXCEPT !.chosen[a] = IF ok THEN Direct ELSE @]
  BY DEF Delete
<1>2. data' \in Seq(AccountToken) /\ file' \in Seq(AccountToken) /\ FileIsMemory'
  BY <1>1, WithoutType, PublishKeeps, SavedIsBoolean DEF Inv
<1>3. endpoint' \in Endpoint
  <2>1. PICK q \in Proxy : endpoint' = [endpoint EXCEPT !.chosen[a] = q]
    BY <1>1, EndpointFields, StoreAssumption DEF Inv
  <2>2. QED
    BY <2>1, ChosenType DEF Inv
<1>4. budget' \in Budget
  <2>1. /\ budget \in Budget /\ budget.deletes > 0
        /\ budget' = [budget EXCEPT !.deletes = @ - 1]
    BY DEF Inv, TypeOK, Delete
  <2>2. QED
    BY <2>1 DEF Budget
<1>5. FlightsOK'
  BY FlightsUntouched DEF Inv, Delete
<1>6. QED
  BY <1>2, <1>3, <1>4, <1>5 DEF Inv, TypeOK, Delete

LEMMA GoStaleKeeps ==
    ASSUME Inv, NEW i \in DOMAIN data, GoStale(i)
    PROVE  Inv'
<1>1. [data EXCEPT ![i].fresh = FALSE] \in Seq(AccountToken)
  <2>1. i \in 1 .. Len(data) /\ data[i] \in AccountToken
    BY DEF Inv, TypeOK
  <2>2. [data[i] EXCEPT !.fresh = FALSE] \in AccountToken
    BY <2>1 DEF AccountToken
  <2>3. [data EXCEPT ![i] = [data[i] EXCEPT !.fresh = FALSE]] \in Seq(AccountToken)
    BY <2>1, <2>2, ReplacedType DEF Inv
  <2>4. QED
    BY <2>3
<1>2. data' = [data EXCEPT ![i].fresh = FALSE] /\ file' = data'
  BY DEF Inv, FileIsMemory, GoStale
<1>3. budget' \in Budget
  <2>1. /\ budget \in Budget /\ budget.stale > 0
        /\ budget' = [budget EXCEPT !.stale = @ - 1]
    BY DEF Inv, TypeOK, GoStale
  <2>2. QED
    BY <2>1 DEF Budget
<1>4. FlightsOK'
  BY FlightsUntouched DEF Inv, GoStale
<1>5. QED
  BY <1>1, <1>2, <1>3, <1>4 DEF Inv, TypeOK, FileIsMemory, GoStale

LEMMA BackoffEndsKeeps ==
    ASSUME Inv, NEW a \in Account, BackoffEnds(a)
    PROVE  Inv'
<1>1. FlightsOK'
  BY FlightsUntouched DEF Inv, BackoffEnds
<1>2. QED
  BY <1>1 DEF Inv, TypeOK, FileIsMemory, BackoffEnds

LEMMA NobodyFlies ==
    ASSUME callers = [c \in Caller |-> Idle], inflight = [a \in Account |-> NoFlight]
    PROVE  FlightsOK
BY IdleType DEF FlightsOK, Leading

LEMMA RestartKeeps ==
    ASSUME Inv, Restart
    PROVE  Inv'
<1>1. FlightsOK'
  BY IdleType DEF Restart, FlightsOK, Leading
<1>2. budget' \in Budget
  <2>1. /\ budget \in Budget /\ budget.crashes > 0
        /\ budget' = [budget EXCEPT !.crashes = @ - 1]
    BY DEF Inv, TypeOK, Restart
  <2>2. QED
    BY <2>1 DEF Budget
<1>3. callers' \in [Caller -> CallerState] /\ inflight' \in [Account -> Flight \union {NoFlight}]
  BY IdleType DEF Restart
<1>4. QED
  BY <1>1, <1>2, <1>3 DEF Inv, TypeOK, FileIsMemory, Restart

LEMMA InitKeeps == Init => Inv
<1> SUFFICES ASSUME Init PROVE Inv
  OBVIOUS
<1>1. FlightsOK
  BY NobodyFlies DEF Init
<1>2. callers \in [Caller -> CallerState]
  BY IdleType DEF Init
<1>3. data \in Seq(AccountToken) /\ file \in Seq(AccountToken) /\ FileIsMemory
  BY DEF Init, FileIsMemory
<1>4. endpoint \in Endpoint
  BY StoreAssumption DEF Init, Endpoint
<1>5. budget \in Budget
  BY StoreAssumption DEF Init, Budget
<1>6. QED
  BY <1>1, <1>2, <1>3, <1>4, <1>5 DEF Inv, TypeOK, Init

LEMMA NextKeeps == Inv /\ [Next]_vars => Inv'
<1> SUFFICES ASSUME Inv, [Next]_vars PROVE Inv'
  OBVIOUS
<1>1. CASE \E c \in Caller, a \in Account : Get(c, a)
  BY <1>1, GetKeeps
<1>2. CASE \E c \in Caller : CallerStep(c)
  BY <1>2, ExpireKeeps, JoinKeeps, ProxyFailsKeeps, RedeemKeeps, RedeemFailsKeeps,
     UpsertKeeps, ForgiveKeeps, CloseKeeps, RemoveKeeps DEF CallerStep
<1>3. CASE \E a \in Account : Login(a) \/ Delete(a) \/ BackoffEnds(a)
  BY <1>3, LoginKeeps, DeleteKeeps, BackoffEndsKeeps
<1>4. CASE \E a \in Account, p \in Proxy : SetProxy(a, p)
  BY <1>4, SetProxyKeeps
<1>5. CASE \E i \in DOMAIN data : GoStale(i)
  BY <1>5, GoStaleKeeps
<1>6. CASE Restart
  BY <1>6, RestartKeeps
<1>7. CASE UNCHANGED vars
  BY <1>7, FlightsUntouched DEF Inv, TypeOK, FileIsMemory, vars
<1>8. QED
  BY <1>1, <1>2, <1>3, <1>4, <1>5, <1>6, <1>7 DEF Next

LEMMA Invariance == Spec => []Inv
BY InitKeeps, NextKeeps, PTL DEF Spec

(* Whatever fails and crashes, every variable of the store keeps its type. *)
THEOREM TokenTypesAreKept == Spec => []TypeOK
BY Invariance, PTL DEF Inv

(* The file is what is in memory after every save, failed or not, so that  *)
(* OpenStore after a crash finds the accounts the store had.               *)
THEOREM FileAndMemoryAgree == Spec => []FileIsMemory
BY Invariance, PTL DEF Inv

LEMMA FlightsAreSingle == Inv => SingleFlight
<1> SUFFICES ASSUME Inv PROVE SingleFlight
  OBVIOUS
<1>1. ASSUME NEW c \in Caller, NEW d \in Caller, NEW a \in Account,
             Leads(c, a), Leads(d, a)
      PROVE  c = d
  <2>1. /\ inflight[a] = [leader |-> c, done |-> callers[c].pc = "remove"]
        /\ inflight[a] = [leader |-> d, done |-> callers[d].pc = "remove"]
    BY <1>1, SMTT(30) DEF Inv, FlightsOK, Leads
  <2>2. inflight[a].leader = c /\ inflight[a].leader = d
    BY <2>1
  <2>3. QED
    BY <2>2
<1>2. ASSUME NEW c \in Caller, callers[c].pc = "wait"
      PROVE  \E d \in Caller : Leads(d, callers[c].acc.id) /\ callers[d].pc # "remove"
  <2> DEFINE a == callers[c].acc.id
             d == inflight[a].leader
  <2>1. a \in Account /\ inflight[a] # NoFlight /\ ~inflight[a].done
    BY <1>2, CallerType DEF Inv, FlightsOK
  <2>2. d \in Caller /\ callers[d].pc \in Leading /\ callers[d].acc.id = a
    BY <2>1, SMTT(30) DEF Inv, TypeOK, FlightsOK, Flight
  <2>3. inflight[a] = [leader |-> d, done |-> callers[d].pc = "remove"]
    BY <2>2 DEF Inv, FlightsOK
  <2>4. inflight[a].done = (callers[d].pc = "remove")
    BY <2>3
  <2>5. QED
    BY <2>1, <2>2, <2>4 DEF Leads
<1>3. QED
  BY <1>1, <1>2 DEF SingleFlight

(* refreshInflight redeems for one goroutine per account at a time, and    *)
(* every waiter has a leader that has yet to close its flight.             *)
THEOREM OneFlightPerAccount == Spec => []SingleFlight
BY Invariance, FlightsAreSingle, PTL

-----------------------------------------------------------------------------
(* The order of the list.                                                  *)

LEMMA IdsType ==
    ASSUME NEW list \in Seq(AccountToken)
    PROVE  /\ Ids(list) \in Seq(Account)
           /\ Len(Ids(list)) = Len(list)
           /\ \A i \in 1 .. Len(list) : Ids(list)[i] = list[i].id
<1>1. Ids(list) = [i \in 1 .. Len(list) |-> list[i].id]
  BY DEF Ids
<1>2. \A i \in 1 .. Len(list) : list[i].id \in Account
  <2>1. \A i \in 1 .. Len(list) : list[i] \in AccountToken
    OBVIOUS
  <2>2. QED
    BY <2>1 DEF AccountToken
<1>3. QED
  BY <1>1, <1>2

LEMMA ReplacedIds ==
    ASSUME TypeOK, NEW i \in 1 .. Len(data), NEW t \in AccountToken,
           t.id = data[i].id
    PROVE  Ids([data EXCEPT ![i] = t]) = Ids(data)
<1>1. data \in Seq(AccountToken)
  BY DEF TypeOK
<1> DEFINE next == [data EXCEPT ![i] = t]
<1>2. /\ next \in Seq(AccountToken) /\ Len(next) = Len(data)
      /\ \A j \in 1 .. Len(data) : next[j].id = data[j].id
  BY <1>1, ExceptSeq
<1>3. /\ Ids(next) \in Seq(Account) /\ Len(Ids(next)) = Len(data)
      /\ \A j \in 1 .. Len(data) : Ids(next)[j] = next[j].id
  BY <1>2, IdsType
<1>4. /\ Ids(data) \in Seq(Account) /\ Len(Ids(data)) = Len(data)
      /\ \A j \in 1 .. Len(data) : Ids(data)[j] = data[j].id
  BY <1>1, IdsType
<1>5. \A j \in 1 .. Len(data) : Ids(next)[j] = Ids(data)[j]
  BY <1>2, <1>3, <1>4
<1>6. QED
  BY <1>3, <1>4, <1>5, SeqEqual

LEMMA AppendedIds ==
    ASSUME TypeOK, NEW t \in AccountToken
    PROVE  Ids(Append(data, t)) = Append(Ids(data), t.id)
<1>1. data \in Seq(AccountToken) /\ t.id \in Account
  BY DEF TypeOK, AccountToken
<1> DEFINE next == Append(data, t)
           ids  == Append(Ids(data), t.id)
<1>2. /\ next \in Seq(AccountToken) /\ Len(next) = Len(data) + 1
      /\ \A j \in 1 .. Len(data) : next[j] = data[j]
      /\ next[Len(data) + 1] = t
  BY <1>1, AppendProperties
<1>3. /\ Ids(data) \in Seq(Account) /\ Len(Ids(data)) = Len(data)
      /\ \A j \in 1 .. Len(data) : Ids(data)[j] = data[j].id
  BY <1>1, IdsType
<1>4. /\ ids \in Seq(Account) /\ Len(ids) = Len(data) + 1
      /\ \A j \in 1 .. Len(data) : ids[j] = data[j].id
      /\ ids[Len(data) + 1] = t.id
  BY <1>1, <1>3, AppendProperties
<1>5. /\ Ids(next) \in Seq(Account) /\ Len(Ids(next)) = Len(data) + 1
      /\ \A j \in 1 .. Len(data) + 1 : Ids(next)[j] = next[j].id
  BY <1>2, IdsType
<1>6. \A j \in 1 .. Len(data) + 1 : Ids(next)[j] = ids[j]
  BY <1>1, <1>2, <1>4, <1>5
<1>7. QED
  BY <1>4, <1>5, <1>6, SeqEqual

LEMMA RemovedIds ==
    ASSUME TypeOK, NEW i \in 1 .. Len(data)
    PROVE  Ids(SubSeq(data, 1, i - 1) \o SubSeq(data, i + 1, Len(data)))
             = SubSeq(Ids(data), 1, i - 1) \o SubSeq(Ids(data), i + 1, Len(data))
<1>1. data \in Seq(AccountToken) /\ Len(data) \in Nat /\ i \in Int
  BY DEF TypeOK
<1>2. /\ Ids(data) \in Seq(Account) /\ Len(Ids(data)) = Len(data)
      /\ \A j \in 1 .. Len(data) : Ids(data)[j] = data[j].id
  BY <1>1, IdsType
<1> DEFINE l1 == SubSeq(data, 1, i - 1)
           l2 == SubSeq(data, i + 1, Len(data))
           d1 == SubSeq(Ids(data), 1, i - 1)
           d2 == SubSeq(Ids(data), i + 1, Len(data))
           n  == Len(data) - i
<1>3. /\ l1 \in Seq(AccountToken) /\ Len(l1) = i - 1
      /\ \A j \in 1 .. i - 1 : l1[j] = data[j]
  <2>1. \A j \in 1 .. i - 1 : data[j] \in AccountToken
    BY <1>1
  <2>2. QED
    BY <1>1, <2>1, SubSeqProperties
<1>4. /\ l2 \in Seq(AccountToken) /\ Len(l2) = n
      /\ \A j \in 1 .. n : l2[j] = data[i + j]
  <2>1. \A j \in i + 1 .. Len(data) : data[j] \in AccountToken
    BY <1>1
  <2>2. QED
    BY <1>1, <2>1, SubSeqProperties
<1>5. /\ d1 \in Seq(Account) /\ Len(d1) = i - 1
      /\ \A j \in 1 .. i - 1 : d1[j] = Ids(data)[j]
  <2>1. \A j \in 1 .. i - 1 : Ids(data)[j] \in Account
    BY <1>1, <1>2
  <2>2. QED
    BY <1>1, <2>1, SubSeqProperties
<1>6. /\ d2 \in Seq(Account) /\ Len(d2) = n
      /\ \A j \in 1 .. n : d2[j] = Ids(data)[i + j]
  <2>1. \A j \in i + 1 .. Len(data) : Ids(data)[j] \in Account
    BY <1>1, <1>2
  <2>2. QED
    BY <1>1, <2>1, SubSeqProperties
<1> HIDE DEF l1, l2, d1, d2
<1>7. /\ l1 \o l2 \in Seq(AccountToken) /\ Len(l1 \o l2) = Len(data) - 1
      /\ \A j \in 1 .. Len(data) - 1 :
           (l1 \o l2)[j] = IF j <= i - 1 THEN l1[j] ELSE l2[j - (i - 1)]
  <2>1. Len(l1) + Len(l2) = Len(data) - 1
    BY <1>1, <1>3, <1>4
  <2>2. /\ l1 \o l2 \in Seq(AccountToken)
        /\ Len(l1 \o l2) = Len(l1) + Len(l2)
        /\ \A j \in 1 .. Len(l1) + Len(l2) :
             (l1 \o l2)[j] = IF j <= Len(l1) THEN l1[j] ELSE l2[j - Len(l1)]
    BY <1>3, <1>4, ConcatProperties, Zenon
  <2>3. QED
    BY <1>3, <1>4, <2>1, <2>2
<1>8. /\ d1 \o d2 \in Seq(Account) /\ Len(d1 \o d2) = Len(data) - 1
      /\ \A j \in 1 .. Len(data) - 1 :
           (d1 \o d2)[j] = IF j <= i - 1 THEN d1[j] ELSE d2[j - (i - 1)]
  <2>1. Len(d1) + Len(d2) = Len(data) - 1
    BY <1>1, <1>5, <1>6
  <2>2. /\ d1 \o d2 \in Seq(Account)
        /\ Len(d1 \o d2) = Len(d1) + Len(d2)
        /\ \A j \in 1 .. Len(d1) + Len(d2) :
             (d1 \o d2)[j] = IF j <= Len(d1) THEN d1[j] ELSE d2[j - Len(d1)]
    BY <1>5, <1>6, ConcatProperties, Zenon
  <2>3. QED
    BY <1>5, <1>6, <2>1, <2>2
<1>9. /\ Ids(l1 \o l2) \in Seq(Account) /\ Len(Ids(l1 \o l2)) = Len(data) - 1
      /\ \A j \in 1 .. Len(data) - 1 : Ids(l1 \o l2)[j] = (l1 \o l2)[j].id
  BY <1>7, IdsType
<1>10. ASSUME NEW j \in 1 .. Len(data) - 1
       PROVE  Ids(l1 \o l2)[j] = (d1 \o d2)[j]
  <2>1. CASE j <= i - 1
    <3>1. j \in 1 .. i - 1 /\ j \in 1 .. Len(data)
      BY <1>1, <2>1
    <3>2. Ids(l1 \o l2)[j] = l1[j].id /\ (d1 \o d2)[j] = d1[j]
      BY <1>7, <1>8, <1>9, <2>1
    <3>3. QED
      BY <1>2, <1>3, <1>5, <3>1, <3>2
  <2>2. CASE ~(j <= i - 1)
    <3>1. /\ j - (i - 1) \in 1 .. n
          /\ i + (j - (i - 1)) \in 1 .. Len(data)
      BY <1>1, <2>2
    <3>2. /\ Ids(l1 \o l2)[j] = l2[j - (i - 1)].id
          /\ (d1 \o d2)[j] = d2[j - (i - 1)]
      BY <1>7, <1>8, <1>9, <2>2
    <3>3. QED
      BY <1>2, <1>4, <1>6, <3>1, <3>2
  <2>3. QED
    BY <2>1, <2>2
<1>11. Ids(l1 \o l2) = d1 \o d2
  BY <1>8, <1>9, <1>10, SeqEqual
<1>12. QED
  BY <1>11 DEF l1, l2, d1, d2

LEMMA PublishMoves ==
    ASSUME NEW next, NEW ok \in BOOLEAN, Publish(next, ok),
           data' = next => MovesByOne
    PROVE  MovesByOne
BY DEF Publish, MovesByOne

LEMMA WriteBackMoves ==
    ASSUME TypeOK, NEW acc \in AccountToken, NEW ok \in BOOLEAN,
           IF Listed(acc.id) THEN Publish([data EXCEPT ![Index(acc.id)] = acc], ok)
           ELSE UNCHANGED <<data, file>>
    PROVE  MovesByOne
<1>1. CASE Listed(acc.id)
  <2>1. Ids([data EXCEPT ![Index(acc.id)] = acc]) = Ids(data)
    BY <1>1, CurrentInList, ReplacedIds DEF Current
  <2>2. QED
    BY <1>1, <2>1, PublishMoves DEF MovesByOne
<1>2. CASE ~Listed(acc.id)
  BY <1>2 DEF MovesByOne
<1>3. QED
  BY <1>1, <1>2

LEMMA UpsertMoves ==
    ASSUME TypeOK, NEW a \in Account, NEW token \in Nat, NEW ok \in BOOLEAN,
           Publish(Upserted(a, token), ok)
    PROVE  MovesByOne
<1>1. Merged(a, token) \in AccountToken /\ Merged(a, token).id = a
  BY MergedType DEF Merged
<1>2. CASE Listed(a)
  <2>1. Ids([data EXCEPT ![Index(a)] = Merged(a, token)]) = Ids(data)
    BY <1>1, <1>2, CurrentInList, ReplacedIds DEF Current
  <2>2. QED
    BY <1>2, <2>1, PublishMoves DEF Upserted, MovesByOne
<1>3. CASE ~Listed(a)
  <2>1. Ids(Append(data, Merged(a, token))) = Append(Ids(data), a)
    BY <1>1, AppendedIds
  <2>2. ASSUME data' = Append(data, Merged(a, token))
        PROVE  MovesByOne
    <3>1. ~Listed(a) /\ Ids(data') = Append(Ids(data), a)
      BY <1>3, <2>1, <2>2, Zenon
    <3>2. QED
      BY <3>1 DEF MovesByOne
  <2>3. QED
    BY <1>3, <2>2, PublishMoves DEF Upserted
<1>4. QED
  BY <1>2, <1>3

LEMMA DeleteMoves ==
    ASSUME TypeOK, NEW a \in Account, NEW ok \in BOOLEAN, Publish(Without(a), ok)
    PROVE  MovesByOne
<1>1. CASE Listed(a)
  <2>1. Index(a) \in 1 .. Len(data) /\ Index(a) \in DOMAIN data
    BY <1>1, CurrentInList DEF TypeOK
  <2>2. Ids(Without(a)) =
          SubSeq(Ids(data), 1, Index(a) - 1) \o SubSeq(Ids(data), Index(a) + 1, Len(data))
    BY <1>1, <2>1, RemovedIds DEF Without
  <2>3. QED
    BY <2>1, <2>2, PublishMoves DEF MovesByOne
<1>2. CASE ~Listed(a)
  BY <1>2, PublishMoves DEF Without, MovesByOne
<1>3. QED
  BY <1>1, <1>2

LEMMA NextMoves == Inv /\ [Next]_vars => [MovesByOne]_vars
<1> SUFFICES ASSUME Inv, Next PROVE MovesByOne
  BY DEF Inv
<1>1. CASE data' = data
  BY <1>1 DEF MovesByOne
<1>2. ASSUME NEW c \in Caller, Expire(c) \/ RedeemFails(c)
      PROVE  MovesByOne
  <2> DEFINE acc == callers[c].acc
  <2>1. PICK ok \in Saved :
           IF Listed(acc.id) THEN Publish([data EXCEPT ![Index(acc.id)] = acc], ok)
           ELSE UNCHANGED <<data, file>>
    BY <1>2 DEF Expire, RedeemFails
  <2>2. ok \in BOOLEAN /\ acc \in AccountToken
    BY CallerType, SavedIsBoolean DEF Inv
  <2>3. QED
    BY <2>1, <2>2, WriteBackMoves DEF Inv
<1>3. ASSUME NEW c \in Caller, Upsert(c)
      PROVE  MovesByOne
  BY <1>3, CallerType, UpsertMoves, SavedIsBoolean DEF Inv, Upsert
<1>4. ASSUME NEW a \in Account, Login(a)
      PROVE  MovesByOne
  <2>1. PICK ok \in Saved, token \in {NoToken, endpoint.issued + 1} :
           Publish(Upserted(a, token), ok)
    BY <1>4 DEF Login
  <2>2. token \in Nat
    BY EndpointFields DEF Inv, NoToken
  <2>3. QED
    BY <2>1, <2>2, UpsertMoves, SavedIsBoolean DEF Inv
<1>5. ASSUME NEW a \in Account, Delete(a)
      PROVE  MovesByOne
  BY <1>5, DeleteMoves, SavedIsBoolean DEF Inv, Delete
<1>6. ASSUME NEW a \in Account, NEW p \in Proxy, SetProxy(a, p)
      PROVE  MovesByOne
  <2>1. /\ Index(a) \in 1 .. Len(data)
        /\ data[Index(a)] \in AccountToken
    BY <1>6, CurrentInList DEF Inv, SetProxy, Current
  <2>2. /\ [data[Index(a)] EXCEPT !.proxy = p] \in AccountToken
        /\ [data[Index(a)] EXCEPT !.proxy = p].id = data[Index(a)].id
    BY <2>1 DEF AccountToken
  <2>3. Ids([data EXCEPT ![Index(a)] = [data[Index(a)] EXCEPT !.proxy = p]]) = Ids(data)
    BY <2>1, <2>2, ReplacedIds DEF Inv
  <2>4. \E ok \in BOOLEAN :
          Publish([data EXCEPT ![Index(a)] = [data[Index(a)] EXCEPT !.proxy = p]], ok)
    BY <1>6, SavedIsBoolean DEF SetProxy
  <2>5. QED
    BY <2>3, <2>4, PublishMoves DEF MovesByOne
<1>7. ASSUME NEW i \in DOMAIN data, GoStale(i)
      PROVE  MovesByOne
  <2>1. i \in 1 .. Len(data) /\ data[i] \in AccountToken
    BY DEF Inv, TypeOK
  <2>2. /\ [data[i] EXCEPT !.fresh = FALSE] \in AccountToken
        /\ [data[i] EXCEPT !.fresh = FALSE].id = data[i].id
    BY <2>1 DEF AccountToken
  <2>3. Ids([data EXCEPT ![i] = [data[i] EXCEPT !.fresh = FALSE]]) = Ids(data)
    BY <2>1, <2>2, ReplacedIds DEF Inv
  <2>4. QED
    BY <1>7, <2>3 DEF GoStale, MovesByOne
<1>8. CASE Restart
  BY <1>1, <1>8 DEF Inv, FileIsMemory, Restart
<1>9. ASSUME NEW c \in Caller, CallerStep(c)
      PROVE  MovesByOne
  <2>1. CASE Expire(c) \/ RedeemFails(c) \/ Upsert(c)
    BY <2>1, <1>2, <1>3
  <2>2. CASE Join(c) \/ ProxyFails(c) \/ Redeem(c) \/ Forgive(c) \/ Close(c) \/ Remove(c)
    BY <1>1, <2>2 DEF Join, ProxyFails, Redeem, Forgive, Close, Remove
  <2>3. QED
    BY <1>9, <2>1, <2>2 DEF CallerStep
<1>10. ASSUME NEW c \in Caller, NEW a \in Account, Get(c, a)
       PROVE  MovesByOne
  BY <1>1, <1>10 DEF Get
<1>11. ASSUME NEW a \in Account, BackoffEnds(a)
       PROVE  MovesByOne
  BY <1>1, <1>11 DEF BackoffEnds
<1>12. QED
  BY <1>4, <1>5, <1>6, <1>7, <1>8, <1>9, <1>10, <1>11 DEF Next

(* No step of the store, a late refresh or a failed save included, reorders *)
(* or duplicates the accounts of the list the router rotates over.         *)
THEOREM AccountsKeepTheirOrder == Spec => ListMovesByOne
BY Invariance, NextMoves, PTL DEF ListMovesByOne, Spec

-----------------------------------------------------------------------------
(***************************************************************************)
(* Rotation of tokens: a refresh token that was replaced is not redeemed   *)
(* a second time, as long as no account is deleted.                        *)
(*                                                                         *)
(* Every token belongs to the account it was issued for.  The flight of an *)
(* account is the only one that can replace its token, and while it does,  *)
(* the list is the only other place that holds a token of the account.     *)
(***************************************************************************)

NoneDeleted == budget.deletes = MaxDeletes

(* Token t may stand for account a, as the endpoint is; owner says whom a   *)
(* token was issued for.                                                    *)
Fits(owner, e, a, t) ==
    t = NoToken \/ (t \in 1 .. e.issued /\ owner[t] = a /\ t \notin e.replaced)

ListedIn(list, a) == \E i \in DOMAIN list : list[i].id = a

ListFits(owner, list, e) ==
    /\ \A i, j \in DOMAIN list : list[i].id = list[j].id => i = j
    /\ \A i \in DOMAIN list : Fits(owner, e, list[i].id, list[i].refresh)

StateFits(owner, list, e, st) ==
    /\ st.pc # "idle" => ListedIn(list, st.acc.id)
    /\ st.pc = "expire" => st.acc.refresh = NoToken
    /\ st.pc \in {"join", "redeem"} => st.token = NoToken
    /\ st.pc \in {"redeem", "upsert"} => Fits(owner, e, st.acc.id, st.acc.refresh)
    /\ st.pc = "upsert" => /\ st.acc.refresh # NoToken
                           /\ Fits(owner, e, st.acc.id, st.token)
                           /\ st.token = NoToken \/ st.acc.refresh < st.token

RotationOK(owner) ==
    /\ endpoint.replaced \subseteq 1 .. endpoint.issued
    /\ ListFits(owner, data, endpoint)
    /\ \A c \in Caller : StateFits(owner, data, endpoint, callers[c])

Owners == [Nat -> Account]

Rotation == NoneDeleted => \E owner \in Owners : RotationOK(owner)

(* The list gets token t for account a, and is otherwise as it was.        *)
Rewrites(a, t) ==
    /\ \A i \in DOMAIN data : i \in DOMAIN data' /\ data'[i].id = data[i].id
    /\ \A i, j \in DOMAIN data' : data'[i].id = data'[j].id => i = j
    /\ \A i \in DOMAIN data' :
         \/ data'[i].id = a /\ data'[i].refresh = t
         \/ /\ i \in DOMAIN data /\ data'[i].id # a
            /\ data'[i].id = data[i].id /\ data'[i].refresh = data[i].refresh

-----------------------------------------------------------------------------
(* Changes of the list.                                                      *)

LEMMA EntryRewrites ==
    ASSUME TypeOK, NEW owner, ListFits(owner, data, endpoint), NEW i \in 1 .. Len(data), NEW t \in AccountToken,
           t.id = data[i].id, data' = [data EXCEPT ![i] = t]
    PROVE  Rewrites(t.id, t.refresh)
<1>1. data \in Seq(AccountToken) /\ i \in DOMAIN data
  BY DEF TypeOK
<1>2. /\ DOMAIN data' = DOMAIN data /\ data'[i] = t
      /\ \A j \in DOMAIN data : j # i => data'[j] = data[j]
  BY <1>1
<1>3. \A j \in DOMAIN data : data[j].id = t.id => j = i
  BY <1>1 DEF ListFits
<1>4. \A j \in DOMAIN data : data'[j].id = data[j].id
  BY <1>2
<1>5. \A j, k \in DOMAIN data' : data'[j].id = data'[k].id => j = k
  BY <1>2, <1>4 DEF ListFits
<1>6. QED
  BY <1>2, <1>3, <1>4, <1>5 DEF Rewrites

LEMMA UpsertRewrites ==
    ASSUME TypeOK, NEW owner, ListFits(owner, data, endpoint), NEW a \in Account, NEW token \in Nat,
           data' = Upserted(a, token)
    PROVE  Rewrites(a, Merged(a, token).refresh)
<1> DEFINE m == Merged(a, token)
<1>1. m \in AccountToken /\ m.id = a
  BY MergedType DEF Merged
<1>2. CASE Listed(a)
  BY <1>1, <1>2, CurrentInList, EntryRewrites DEF Upserted, Current
<1>3. CASE ~Listed(a)
  <2>1. data \in Seq(AccountToken) /\ data' = Append(data, m)
    BY <1>3 DEF TypeOK, Upserted
  <2> HIDE DEF m
  <2>2. /\ DOMAIN data = 1 .. Len(data) /\ DOMAIN data' = 1 .. Len(data) + 1
        /\ Len(data) \in Nat
        /\ \A i \in 1 .. Len(data) : data'[i] = data[i]
        /\ data'[Len(data) + 1] = m
    BY <1>1, <2>1, AppendProperties
  <2>3. \A i \in DOMAIN data : data[i].id # a
    BY <1>3 DEF Listed
  <2>4. \A i \in DOMAIN data : i \in DOMAIN data' /\ data'[i].id = data[i].id
    BY <2>2
  <2>5. \A i \in DOMAIN data' : i \in DOMAIN data \/ i = Len(data) + 1
    BY <2>2
  <2>6. \A i, j \in DOMAIN data' : data'[i].id = data'[j].id => i = j
    BY <1>1, <2>2, <2>3, <2>4, <2>5 DEF ListFits
  <2>7. \A i \in DOMAIN data' :
           \/ data'[i].id = a /\ data'[i].refresh = m.refresh
           \/ /\ i \in DOMAIN data /\ data'[i].id # a
              /\ data'[i].id = data[i].id /\ data'[i].refresh = data[i].refresh
    BY <1>1, <2>2, <2>3, <2>5
  <2>8. QED
    BY <2>4, <2>6, <2>7 DEF Rewrites, m
<1>4. QED
  BY <1>2, <1>3

(* The account of a goroutine that is under way stays in the list.          *)
LEMMA ListedStays ==
    ASSUME NEW a, NEW t, Rewrites(a, t) \/ data' = data, NEW b, ListedIn(data, b)
    PROVE  ListedIn(data', b)
BY DEF Rewrites, ListedIn

-----------------------------------------------------------------------------
(* Steps that replace no token.                                              *)

(* next is owner, or knows one token more.                                   *)
Extends(next, owner) ==
    /\ endpoint.issued <= endpoint'.issued /\ endpoint'.issued \in Nat
    /\ endpoint'.replaced = endpoint.replaced
    /\ \A t \in 1 .. endpoint.issued : next[t] = owner[t]

LEMMA FitsStays ==
    ASSUME TypeOK, NEW owner, NEW next, Extends(next, owner),
           NEW b, NEW u, Fits(owner, endpoint, b, u)
    PROVE  Fits(next, endpoint', b, u)
BY EndpointFields DEF Fits, Extends

LEMMA RotationStays ==
    ASSUME TypeOK, NEW owner, NEW next, RotationOK(owner), Extends(next, owner),
           NEW a, NEW t,
           data' = data \/ (Rewrites(a, t) /\ Fits(next, endpoint', a, t)),
           \A d \in Caller :
              callers'[d] = callers[d] \/ StateFits(next, data', endpoint', callers'[d])
    PROVE  RotationOK(next)'
<1>1. endpoint.issued \in Nat
  BY EndpointFields
<1>2. endpoint'.replaced \subseteq 1 .. endpoint'.issued
  BY <1>1 DEF RotationOK, Extends
<1>3. \A i, j \in DOMAIN data' : data'[i].id = data'[j].id => i = j
  BY DEF Rewrites, RotationOK, ListFits
<1>4. ASSUME NEW i \in DOMAIN data'
      PROVE  Fits(next, endpoint', data'[i].id, data'[i].refresh)
  <2>1. CASE i \in DOMAIN data /\ data'[i].id = data[i].id /\ data'[i].refresh = data[i].refresh
    <3>1. Fits(owner, endpoint, data[i].id, data[i].refresh)
      BY <2>1 DEF RotationOK, ListFits
    <3>2. QED
      BY <2>1, <3>1, FitsStays
  <2>2. CASE Fits(next, endpoint', a, t) /\ data'[i].id = a /\ data'[i].refresh = t
    BY <2>2
  <2>3. QED
    BY <2>1, <2>2 DEF Rewrites
<1>5. ASSUME NEW d \in Caller
      PROVE  StateFits(next, data', endpoint', callers'[d])
  <2>1. CASE callers'[d] = callers[d]
    <3> DEFINE st == callers[d]
    <3>1. StateFits(owner, data, endpoint, st)
      BY DEF RotationOK
    <3>2. st.pc # "idle" => ListedIn(data', st.acc.id)
      BY <3>1, ListedStays DEF StateFits
    <3>3. st.pc \in {"redeem", "upsert"} => Fits(next, endpoint', st.acc.id, st.acc.refresh)
      BY <3>1, FitsStays DEF StateFits
    <3>4. st.pc = "upsert" => Fits(next, endpoint', st.acc.id, st.token)
      BY <3>1, FitsStays DEF StateFits
    <3>5. StateFits(next, data', endpoint', st)
      BY <3>1, <3>2, <3>3, <3>4 DEF StateFits
    <3>6. QED
      BY <2>1, <3>5
  <2>2. QED
    BY <2>1
<1>6. QED
  BY <1>2, <1>3, <1>4, <1>5 DEF RotationOK, ListFits

LEMMA SameOwners ==
    ASSUME TypeOK, NEW owner,
           endpoint'.issued = endpoint.issued, endpoint'.replaced = endpoint.replaced
    PROVE  Extends(owner, owner)
BY EndpointFields DEF Extends

(* Only one goroutine's state changes.                                       *)
LEMMA OneMoves ==
    ASSUME TypeOK, NEW owner, NEW next, RotationOK(owner), Extends(next, owner),
           NEW a, NEW t,
           data' = data \/ (Rewrites(a, t) /\ Fits(next, endpoint', a, t)),
           NEW c \in Caller, NEW st, Become(c, st), StateFits(next, data', endpoint', st)
    PROVE  RotationOK(next)'
<1>1. callers'[c] = st /\ \A d \in Caller \ {c} : callers'[d] = callers[d]
  BY DEF TypeOK, Become
<1>2. \A d \in Caller :
         callers'[d] = callers[d] \/ StateFits(next, data', endpoint', callers'[d])
  BY <1>1
<1>3. QED
  BY <1>2, RotationStays

LEMMA OnlyCallersMove ==
    ASSUME TypeOK, NEW owner, RotationOK(owner), NEW c \in Caller, NEW st, Become(c, st),
           StateFits(owner, data, endpoint, st), UNCHANGED <<data, endpoint>>
    PROVE  RotationOK(owner)'
<1>1. Extends(owner, owner)
  BY SameOwners
<1>2. QED
  BY <1>1, OneMoves

LEMMA IdleFits ==
    ASSUME NEW owner, NEW list, NEW e
    PROVE  StateFits(owner, list, e, Idle)
BY IdleType DEF StateFits

(* Past the upsert, only the account's place in the list matters.            *)
LEMMA LateFits ==
    ASSUME NEW owner, NEW list, NEW e, NEW st,
           st.pc \in {"forgive", "close", "remove", "wait"}, ListedIn(list, st.acc.id)
    PROVE  StateFits(owner, list, e, st)
BY DEF StateFits

(* A list of unique accounts knows one entry of each.                        *)
LEMMA CurrentFits ==
    ASSUME TypeOK, NEW owner, RotationOK(owner), NEW a, Listed(a)
    PROVE  Fits(owner, endpoint, a, Current(a).refresh) /\ ListedIn(data, a)
BY CurrentInList DEF RotationOK, ListFits, Current, Listed, ListedIn

-----------------------------------------------------------------------------
(* EnsureValid.                                                              *)

LEMMA GetRotates ==
    ASSUME TypeOK, NEW owner, RotationOK(owner), NEW c \in Caller, NEW a, Get(c, a)
    PROVE  RotationOK(owner)'
<1> DEFINE st == [pc |-> IF Current(a).refresh = NoToken THEN "expire" ELSE "join",
                  acc |-> Current(a), token |-> NoToken]
<1>1. CASE Listed(a) /\ ~Current(a).fresh
  <2>1. StateFits(owner, data, endpoint, st)
    BY <1>1, CurrentInList, CurrentFits DEF StateFits
  <2>2. Become(c, st) /\ UNCHANGED <<data, endpoint>>
    BY <1>1 DEF Get
  <2>3. QED
    BY <2>1, <2>2, OnlyCallersMove
<1>2. CASE ~(Listed(a) /\ ~Current(a).fresh)
  BY <1>2 DEF Get, RotationOK
<1>3. QED
  BY <1>1, <1>2

(* An account is written back at its place, by the goroutine that holds it.  *)
LEMMA WriteBackRewrites ==
    ASSUME TypeOK, NEW owner, RotationOK(owner), NEW acc \in AccountToken, NEW ok,
           IF Listed(acc.id) THEN Publish([data EXCEPT ![Index(acc.id)] = acc], ok)
           ELSE UNCHANGED <<data, file>>
    PROVE  data' = data \/ Rewrites(acc.id, acc.refresh)
<1>1. CASE Listed(acc.id) /\ data' = [data EXCEPT ![Index(acc.id)] = acc]
  BY <1>1, CurrentInList, EntryRewrites DEF Current, RotationOK
<1>2. QED
  BY <1>1 DEF Publish

LEMMA ExpireRotates ==
    ASSUME TypeOK, NEW owner, RotationOK(owner), NEW c \in Caller, Expire(c)
    PROVE  RotationOK(owner)'
<1> DEFINE acc == callers[c].acc
<1>1. acc \in AccountToken /\ acc.refresh = NoToken
  BY CallerType DEF Expire, RotationOK, StateFits
<1>2. data' = data \/ Rewrites(acc.id, acc.refresh)
  BY <1>1, WriteBackRewrites DEF Expire
<1>3. Fits(owner, endpoint', acc.id, acc.refresh)
  BY <1>1 DEF Fits
<1>4. Extends(owner, owner)
  BY SameOwners DEF Expire
<1>5. Become(c, Idle) /\ StateFits(owner, data', endpoint', Idle)
  BY IdleFits DEF Expire
<1>6. QED
  BY <1>2, <1>3, <1>4, <1>5, OneMoves

LEMMA JoinRotates ==
    ASSUME TypeOK, NEW owner, RotationOK(owner), NEW c \in Caller, Join(c)
    PROVE  RotationOK(owner)'
<1> DEFINE old  == callers[c].acc
           acc  == AtJoin(old)
           wait == [callers[c] EXCEPT !.pc = "wait", !.acc = acc]
           lead == [callers[c] EXCEPT !.pc = "redeem", !.acc = acc]
<1>1. UNCHANGED <<data, endpoint>> /\ \E st \in {Idle, wait, lead} : Become(c, st)
  BY DEF Join
<1>2. ListedIn(data, old.id) /\ callers[c].token = NoToken
  BY DEF Join, RotationOK, StateFits
<1>3. Listed(old.id) /\ acc = Current(old.id) /\ acc.id = old.id
  BY <1>2, CurrentInList DEF Listed, ListedIn, AtJoin
<1>4. Fits(owner, endpoint, acc.id, acc.refresh) /\ ListedIn(data, acc.id)
  BY <1>3, CurrentFits
<1>5. /\ wait.pc = "wait" /\ wait.acc = acc
      /\ lead.pc = "redeem" /\ lead.acc = acc /\ lead.token = NoToken
  BY <1>2, CallerType DEF CallerState
<1>6. \A st \in {Idle, wait, lead} : StateFits(owner, data, endpoint, st)
  BY <1>4, <1>5, IdleFits DEF StateFits
<1>7. QED
  BY <1>1, <1>6, OnlyCallersMove

(* The goroutine goes on to a later step of its flight.                      *)
LEMMA GotoFits ==
    ASSUME TypeOK, NEW owner, RotationOK(owner), NEW c \in Caller, callers[c].pc # "idle",
           NEW pc \in {"forgive", "close", "remove"}, NEW e, NEW list,
           ListedIn(data, callers[c].acc.id) => ListedIn(list, callers[c].acc.id)
    PROVE  StateFits(owner, list, e, [callers[c] EXCEPT !.pc = pc])
<1> DEFINE st == [callers[c] EXCEPT !.pc = pc]
<1>1. ListedIn(list, callers[c].acc.id)
  BY DEF RotationOK, StateFits
<1>2. st.pc = pc /\ st.acc = callers[c].acc
  BY GotoType DEF PC
<1> HIDE DEF st
<1>3. StateFits(owner, list, e, st)
  BY <1>1, <1>2 DEF StateFits
<1>4. QED
  BY <1>3 DEF st

LEMMA ProxyFailsRotates ==
    ASSUME TypeOK, NEW owner, RotationOK(owner), NEW c \in Caller, ProxyFails(c)
    PROVE  RotationOK(owner)'
<1>1. StateFits(owner, data, endpoint, [callers[c] EXCEPT !.pc = "close"])
  BY GotoFits DEF ProxyFails
<1>2. QED
  BY <1>1, OnlyCallersMove DEF ProxyFails, Goto

LEMMA ForgiveRotates ==
    ASSUME TypeOK, NEW owner, RotationOK(owner), NEW c \in Caller, Forgive(c)
    PROVE  RotationOK(owner)'
<1>1. StateFits(owner, data, endpoint, [callers[c] EXCEPT !.pc = "close"])
  BY GotoFits DEF Forgive
<1>2. QED
  BY <1>1, OnlyCallersMove DEF Forgive, Goto

LEMMA CloseRotates ==
    ASSUME TypeOK, NEW owner, RotationOK(owner), NEW c \in Caller, Close(c)
    PROVE  RotationOK(owner)'
<1>1. Extends(owner, owner)
  BY SameOwners DEF Close
<1>2. StateFits(owner, data', endpoint', [callers[c] EXCEPT !.pc = "remove"])
  BY GotoFits DEF Close
<1>3. StateFits(owner, data', endpoint', Idle)
  BY IdleFits
<1>4. \A d \in Caller : \/ callers'[d] = callers[d]
                        \/ callers'[d] = [callers[c] EXCEPT !.pc = "remove"]
                        \/ callers'[d] = Idle
  BY DEF Close, Woken
<1>5. \A d \in Caller :
         callers'[d] = callers[d] \/ StateFits(owner, data', endpoint', callers'[d])
  BY <1>2, <1>3, <1>4, Zenon
<1>6. data' = data
  BY DEF Close
<1>7. QED
  BY <1>1, <1>5, <1>6, RotationStays

LEMMA RemoveRotates ==
    ASSUME TypeOK, NEW owner, RotationOK(owner), NEW c \in Caller, Remove(c)
    PROVE  RotationOK(owner)'
BY IdleFits, OnlyCallersMove DEF Remove

(* The endpoint accepts the account's token, and may give another one.       *)
LEMMA RedeemRotates ==
    ASSUME TypeOK, NEW owner \in Owners, RotationOK(owner), NEW c \in Caller, Redeem(c)
    PROVE  \E next \in Owners : RotationOK(next)'
<1> DEFINE acc     == callers[c].acc
           n       == endpoint.issued + 1
           kept    == [callers[c] EXCEPT !.pc = "upsert"]
           rotated == [callers[c] EXCEPT !.pc = "upsert", !.token = n]
<1>1. /\ callers[c].pc = "redeem" /\ acc.refresh # NoToken
      /\ callers[c].token = NoToken /\ ListedIn(data, acc.id)
      /\ Fits(owner, endpoint, acc.id, acc.refresh)
  BY DEF Redeem, RotationOK, StateFits
<1>2. /\ kept.pc = "upsert" /\ kept.acc = acc /\ kept.token = NoToken
      /\ rotated.pc = "upsert" /\ rotated.acc = acc /\ rotated.token = n
  BY <1>1, CallerType DEF CallerState
<1>3. endpoint.issued \in Nat /\ acc.id \in Account /\ endpoint.replaced \subseteq 1 .. endpoint.issued
  BY CallerType, EndpointFields DEF RotationOK
<1>4. data' = data
  BY DEF Redeem
<1>5. CASE Become(c, kept) /\ UNCHANGED endpoint
  <2>1. StateFits(owner, data, endpoint, kept)
    BY <1>1, <1>2 DEF StateFits, Fits
  <2>2. QED
    BY <1>4, <1>5, <2>1, OnlyCallersMove
<1>6. CASE Become(c, rotated) /\ endpoint' = [endpoint EXCEPT !.issued = n,
                                   !.spent = endpoint.spent \union {acc.refresh}]
  <2>1. endpoint'.issued = n /\ endpoint'.replaced = endpoint.replaced
    BY <1>6 DEF TypeOK, Endpoint
  <2>2. PICK next \in Owners :
           next[n] = acc.id /\ \A t \in 1 .. endpoint.issued : next[t] = owner[t]
    <3>1. [owner EXCEPT ![n] = acc.id] \in Owners
      BY <1>3 DEF Owners
    <3>2. /\ [owner EXCEPT ![n] = acc.id][n] = acc.id
          /\ \A t \in 1 .. endpoint.issued : [owner EXCEPT ![n] = acc.id][t] = owner[t]
      BY <1>3 DEF Owners
    <3>3. QED
      BY <3>1, <3>2
  <2>3. Extends(next, owner)
    BY <1>3, <2>1, <2>2 DEF Extends
  <2>4. Fits(next, endpoint', acc.id, acc.refresh)
    BY <1>1, <2>3, FitsStays
  <2>5. Fits(next, endpoint', acc.id, n)
    BY <1>3, <2>1, <2>2 DEF Fits
  <2>6. acc.refresh < n
    BY <1>1, <1>3 DEF Fits
  <2>7. StateFits(next, data', endpoint', rotated)
    BY <1>1, <1>2, <1>4, <2>4, <2>5, <2>6 DEF StateFits
  <2>8. RotationOK(next)'
    BY <1>4, <1>6, <2>3, <2>7, OneMoves
  <2>9. QED
    BY <2>8
<1>7. QED
  BY <1>5, <1>6 DEF Redeem

LEMMA RedeemFailsRotates ==
    ASSUME TypeOK, NEW owner, RotationOK(owner), NEW c \in Caller, RedeemFails(c)
    PROVE  RotationOK(owner)'
<1> DEFINE acc == callers[c].acc
           st  == [callers[c] EXCEPT !.pc = "close"]
<1>1. acc \in AccountToken /\ Fits(owner, endpoint, acc.id, acc.refresh) /\ ListedIn(data, acc.id)
  BY CallerType DEF RedeemFails, RotationOK, StateFits
<1>2. endpoint'.issued = endpoint.issued /\ endpoint'.replaced = endpoint.replaced
  <2>1. \E s : endpoint' = [endpoint EXCEPT !.spent = s]
    BY DEF RedeemFails
  <2>2. QED
    BY <2>1 DEF TypeOK, Endpoint
<1>3. Extends(owner, owner) /\ Fits(owner, endpoint', acc.id, acc.refresh)
  BY <1>1, <1>2, SameOwners, FitsStays
<1>4. data' = data \/ Rewrites(acc.id, acc.refresh)
  BY <1>1, WriteBackRewrites DEF RedeemFails
<1>5. ListedIn(data', acc.id)
  BY <1>1, <1>4, ListedStays
<1>6. StateFits(owner, data', endpoint', st)
  BY <1>5, GotoFits DEF RedeemFails
<1>7. Become(c, st)
  BY DEF RedeemFails, Goto
<1>8. QED
  BY <1>3, <1>4, <1>6, <1>7, OneMoves

(* The new token is saved: the old one was the account's, and since the     *)
(* goroutine leads the account's only flight, nobody else still holds it.   *)
LEMMA ReplacedRotates ==
    ASSUME TypeOK, SingleFlight, NEW owner, RotationOK(owner),
           NEW c \in Caller, callers[c].pc = "upsert", callers[c].token # NoToken,
           Rewrites(callers[c].acc.id, callers[c].token),
           endpoint'.issued = endpoint.issued,
           endpoint'.replaced = endpoint.replaced \union {callers[c].acc.refresh},
           Become(c, [callers[c] EXCEPT !.pc = "forgive"])
    PROVE  RotationOK(owner)'
<1> DEFINE acc   == callers[c].acc
           token == callers[c].token
           st    == [callers[c] EXCEPT !.pc = "forgive"]
<1>1. /\ acc.refresh # NoToken /\ acc.refresh < token /\ acc.refresh \in Nat /\ token \in Nat
      /\ Fits(owner, endpoint, acc.id, acc.refresh) /\ Fits(owner, endpoint, acc.id, token)
      /\ ListedIn(data, acc.id)
  BY CallerType DEF RotationOK, StateFits
<1>2. Fits(owner, endpoint', acc.id, token)
  BY <1>1 DEF Fits
<1>3. ASSUME NEW b, NEW u, b # acc.id, Fits(owner, endpoint, b, u)
      PROVE  Fits(owner, endpoint', b, u)
  BY <1>1, <1>3 DEF Fits
<1>4. endpoint'.replaced \subseteq 1 .. endpoint'.issued
  BY <1>1 DEF Fits, RotationOK
<1>5. \A i, j \in DOMAIN data' : data'[i].id = data'[j].id => i = j
  BY DEF Rewrites
<1>6. ASSUME NEW i \in DOMAIN data'
      PROVE  Fits(owner, endpoint', data'[i].id, data'[i].refresh)
  <2>1. CASE i \in DOMAIN data /\ data'[i].id # acc.id /\ data'[i].id = data[i].id
             /\ data'[i].refresh = data[i].refresh
    <3>1. Fits(owner, endpoint, data[i].id, data[i].refresh)
      BY <2>1 DEF RotationOK, ListFits
    <3>2. QED
      BY <2>1, <3>1, <1>3
  <2>2. CASE data'[i].id = acc.id /\ data'[i].refresh = token
    BY <1>2, <2>2
  <2>3. QED
    BY <2>1, <2>2 DEF Rewrites
<1>7. callers'[c] = st /\ \A d \in Caller \ {c} : callers'[d] = callers[d]
  BY DEF TypeOK, Become
<1>8. StateFits(owner, data', endpoint', st)
  BY GotoFits, ListedStays
<1>9. ASSUME NEW d \in Caller \ {c}
      PROVE  StateFits(owner, data', endpoint', callers[d])
  <2> DEFINE s == callers[d]
  <2>1. StateFits(owner, data, endpoint, s)
    BY DEF RotationOK
  <2>2. s.pc # "idle" => ListedIn(data', s.acc.id)
    BY <2>1, ListedStays DEF StateFits
  <2>3. s.pc \in {"redeem", "upsert"} => s.acc.id # acc.id
    BY CallerType DEF SingleFlight, Leads, Leading
  <2>4. s.pc \in {"redeem", "upsert"} => Fits(owner, endpoint', s.acc.id, s.acc.refresh)
    BY <1>3, <2>1, <2>3 DEF StateFits
  <2>5. s.pc = "upsert" => Fits(owner, endpoint', s.acc.id, s.token)
    BY <1>3, <2>1, <2>3 DEF StateFits
  <2>6. QED
    BY <2>1, <2>2, <2>4, <2>5 DEF StateFits
<1>10. \A d \in Caller : StateFits(owner, data', endpoint', callers'[d])
  BY <1>7, <1>8, <1>9
<1>11. QED
  BY <1>4, <1>5, <1>6, <1>10 DEF RotationOK, ListFits

LEMMA UpsertRotates ==
    ASSUME TypeOK, SingleFlight, NEW owner, RotationOK(owner), NEW c \in Caller, Upsert(c)
    PROVE  RotationOK(owner)'
<1> DEFINE acc   == callers[c].acc
           token == callers[c].token
           st    == [callers[c] EXCEPT !.pc = "forgive"]
<1>1. PICK ok \in Saved :
         /\ Publish(Upserted(acc.id, token), ok)
         /\ endpoint' = [endpoint EXCEPT
               !.replaced = IF ok /\ token # NoToken THEN @ \union {acc.refresh} ELSE @]
  BY DEF Upsert
<1>2. acc.id \in Account /\ token \in Nat /\ ok \in BOOLEAN
  BY CallerType, SavedIsBoolean
<1>3. callers[c].pc = "upsert" /\ Become(c, st)
  BY DEF Upsert, Goto
<1>4. endpoint'.issued = endpoint.issued
  BY <1>1 DEF TypeOK, Endpoint
<1>5. Listed(acc.id) /\ ListedIn(data, acc.id)
  BY <1>3 DEF RotationOK, StateFits, Listed, ListedIn
<1>6. ok => Rewrites(acc.id, Merged(acc.id, token).refresh)
  BY <1>1, <1>2, UpsertRewrites DEF Publish, RotationOK
<1>7. Merged(acc.id, token).refresh = IF token = NoToken THEN Current(acc.id).refresh ELSE token
  BY <1>5 DEF Merged
<1>8. CASE ok /\ token # NoToken
  <2>1. endpoint'.replaced = endpoint.replaced \union {acc.refresh}
    BY <1>1, <1>8 DEF TypeOK, Endpoint
  <2>2. QED
    BY <1>3, <1>4, <1>6, <1>7, <1>8, <2>1, ReplacedRotates
<1>9. CASE ~(ok /\ token # NoToken)
  <2> DEFINE r == Current(acc.id).refresh
  <2>1. endpoint'.replaced = endpoint.replaced
    BY <1>1, <1>9 DEF TypeOK, Endpoint
  <2>2. Extends(owner, owner)
    BY <1>4, <2>1, SameOwners
  <2>3. Fits(owner, endpoint', acc.id, r)
    BY <1>5, <2>2, CurrentFits, FitsStays
  <2>4. data' = data \/ Rewrites(acc.id, r)
    BY <1>1, <1>6, <1>7, <1>9 DEF Publish
  <2>5. StateFits(owner, data', endpoint', st)
    BY <1>3, <2>4, GotoFits, ListedStays
  <2>6. QED
    BY <1>3, <2>2, <2>3, <2>4, <2>5, OneMoves
<1>10. QED
  BY <1>8, <1>9

-----------------------------------------------------------------------------
(* The administrator, time and crashes.                                      *)

(* Goroutines stay as they are, and an entry may change.                     *)
LEMMA OnlyTheListMoves ==
    ASSUME TypeOK, NEW owner, NEW next, RotationOK(owner), Extends(next, owner),
           callers' = callers, NEW a, NEW t,
           data' = data \/ (Rewrites(a, t) /\ Fits(next, endpoint', a, t))
    PROVE  RotationOK(next)'
<1>1. \A d \in Caller :
         callers'[d] = callers[d] \/ StateFits(next, data', endpoint', callers'[d])
  OBVIOUS
<1>2. QED
  BY <1>1, RotationStays

LEMMA LoginRotates ==
    ASSUME TypeOK, NEW owner \in Owners, RotationOK(owner), NEW a \in Account, Login(a)
    PROVE  \E next \in Owners : RotationOK(next)'
<1> DEFINE n == endpoint.issued + 1
<1>1. PICK ok \in Saved, token \in {NoToken, n} :
         /\ Publish(Upserted(a, token), ok)
         /\ endpoint' = [endpoint EXCEPT !.issued = IF token = NoToken THEN @ ELSE token]
  BY DEF Login
<1>2. /\ endpoint.issued \in Nat /\ token \in Nat /\ n # NoToken /\ callers' = callers
      /\ endpoint.replaced \subseteq 1 .. endpoint.issued
  BY EndpointFields DEF NoToken, Login, RotationOK
<1>3. /\ endpoint'.issued = IF token = NoToken THEN endpoint.issued ELSE n
      /\ endpoint'.replaced = endpoint.replaced
  BY <1>1 DEF TypeOK, Endpoint
<1>4. PICK next \in Owners :
         next[n] = a /\ \A t \in 1 .. endpoint.issued : next[t] = owner[t]
  <2>1. [owner EXCEPT ![n] = a] \in Owners
    BY <1>2 DEF Owners
  <2>2. /\ [owner EXCEPT ![n] = a][n] = a
        /\ \A t \in 1 .. endpoint.issued : [owner EXCEPT ![n] = a][t] = owner[t]
    BY <1>2 DEF Owners
  <2>3. QED
    BY <2>1, <2>2
<1>5. Extends(next, owner)
  BY <1>2, <1>3, <1>4 DEF Extends
<1> DEFINE m == Merged(a, token)
<1>6. m.refresh = IF token = NoToken /\ Listed(a) THEN Current(a).refresh ELSE token
  BY DEF Merged
<1>7. Fits(next, endpoint', a, m.refresh)
  <2>1. CASE token = NoToken /\ Listed(a)
    BY <1>5, <1>6, <2>1, CurrentFits, FitsStays
  <2>2. CASE token = NoToken /\ ~Listed(a)
    BY <1>6, <2>2 DEF Fits
  <2>3. CASE token = n /\ token # NoToken
    BY <1>2, <1>3, <1>4, <1>6, <2>3 DEF Fits
  <2>4. QED
    BY <1>2, <2>1, <2>2, <2>3
<1>8. data' = data \/ Rewrites(a, m.refresh)
  BY <1>1, <1>2, UpsertRewrites DEF Publish, RotationOK
<1> HIDE DEF m
<1>9. RotationOK(next)'
  BY <1>2, <1>5, <1>7, <1>8, OnlyTheListMoves
<1>10. QED
  BY <1>9

(* An entry changes in something else than its token.                        *)
LEMMA EntryTouched ==
    ASSUME TypeOK, NEW owner, RotationOK(owner), Extends(owner, owner), callers' = callers,
           NEW i \in DOMAIN data, NEW e \in AccountToken,
           e.id = data[i].id, e.refresh = data[i].refresh,
           data' = data \/ data' = [data EXCEPT ![i] = e]
    PROVE  RotationOK(owner)'
<1>1. i \in 1 .. Len(data) /\ Fits(owner, endpoint', e.id, e.refresh)
  BY FitsStays DEF TypeOK, RotationOK, ListFits
<1>2. data' = data \/ Rewrites(e.id, e.refresh)
  BY <1>1, EntryRewrites DEF RotationOK
<1>3. QED
  BY <1>1, <1>2, OnlyTheListMoves

LEMMA SetProxyRotates ==
    ASSUME TypeOK, NEW owner, RotationOK(owner), NEW a \in Account, NEW p \in Proxy, SetProxy(a, p)
    PROVE  RotationOK(owner)'
<1> DEFINE i == Index(a)
           e == [data[i] EXCEPT !.proxy = p]
<1>1. PICK ok \in Saved :
         /\ Publish([data EXCEPT ![i].proxy = p], ok)
         /\ endpoint' = [endpoint EXCEPT !.chosen[a] = IF ok THEN p ELSE @]
  BY DEF SetProxy
<1>2. endpoint'.issued = endpoint.issued /\ endpoint'.replaced = endpoint.replaced
  BY <1>1 DEF TypeOK, Endpoint
<1>3. i \in DOMAIN data /\ data[i] \in AccountToken
  BY CurrentInList DEF SetProxy, TypeOK, Current
<1>4. e \in AccountToken /\ e.id = data[i].id /\ e.refresh = data[i].refresh
  BY <1>3 DEF AccountToken
<1>5. data' = data \/ data' = [data EXCEPT ![i] = e]
  BY <1>1 DEF Publish
<1>6. Extends(owner, owner) /\ callers' = callers
  BY <1>2, SameOwners DEF SetProxy
<1> HIDE DEF e, i
<1>7. QED
  BY <1>3, <1>4, <1>5, <1>6, EntryTouched

LEMMA GoStaleRotates ==
    ASSUME TypeOK, NEW owner, RotationOK(owner), NEW i \in DOMAIN data, GoStale(i)
    PROVE  RotationOK(owner)'
<1> DEFINE e == [data[i] EXCEPT !.fresh = FALSE]
<1>1. data[i] \in AccountToken
  BY DEF TypeOK
<1>2. e \in AccountToken /\ e.id = data[i].id /\ e.refresh = data[i].refresh
  BY <1>1 DEF AccountToken
<1>3. data' = [data EXCEPT ![i] = e]
  BY DEF GoStale
<1>4. Extends(owner, owner) /\ callers' = callers
  BY SameOwners DEF GoStale
<1> HIDE DEF e
<1>5. QED
  BY <1>2, <1>3, <1>4, EntryTouched

LEMMA RestartRotates ==
    ASSUME TypeOK, FileIsMemory, NEW owner, RotationOK(owner), Restart
    PROVE  RotationOK(owner)'
<1>1. data' = data /\ Extends(owner, owner)
  BY SameOwners DEF Restart, FileIsMemory
<1>2. \A d \in Caller :
         callers'[d] = callers[d] \/ StateFits(owner, data', endpoint', callers'[d])
  BY IdleFits DEF Restart
<1>3. QED
  BY <1>1, <1>2, RotationStays

-----------------------------------------------------------------------------
(* Every step, as long as nobody deletes an account.                         *)

RInv == Inv /\ budget.deletes <= MaxDeletes /\ Rotation

LEMMA InitRotates == Init => RInv
<1> SUFFICES ASSUME Init PROVE RInv
  OBVIOUS
<1>1. Inv /\ budget.deletes <= MaxDeletes
  BY InitKeeps, StoreAssumption DEF Init
<1>2. PICK owner : owner \in Owners
  <2>1. PICK a \in Account : TRUE
    BY StoreAssumption
  <2>2. [t \in Nat |-> a] \in Owners
    BY DEF Owners
  <2>3. QED
    BY <2>2
<1>3. endpoint.replaced = {} /\ DOMAIN data = {} /\ \A c \in Caller : callers[c] = Idle
  BY DEF Init
<1>4. ListFits(owner, data, endpoint)
  BY <1>3 DEF ListFits
<1>5. \A c \in Caller : StateFits(owner, data, endpoint, callers[c])
  BY <1>3, IdleFits
<1>6. RotationOK(owner)
  BY <1>3, <1>4, <1>5 DEF RotationOK
<1>7. QED
  BY <1>1, <1>2, <1>6 DEF RInv, Rotation

LEMMA DeletesCounted ==
    ASSUME TypeOK, [Next]_vars
    PROVE  \/ budget'.deletes = budget.deletes
           \/ /\ budget'.deletes = budget.deletes - 1
              /\ \E a \in Account : Delete(a)
<1> USE DEF TypeOK, Budget
<1>1. CASE \E c \in Caller, a \in Account : Get(c, a)
  BY <1>1 DEF Get
<1>2. CASE \E c \in Caller : CallerStep(c)
  <2>1. budget' = budget
    BY <1>2 DEF CallerStep, Expire, Join, ProxyFails, Redeem, RedeemFails, Upsert, Forgive,
       Close, Remove
  <2>2. QED
    BY <2>1
<1>3. CASE \E a \in Account : Login(a)
  BY <1>3 DEF Login
<1>4. CASE \E a \in Account : Delete(a)
  BY <1>4 DEF Delete
<1>5. CASE \E a \in Account : BackoffEnds(a)
  BY <1>5 DEF BackoffEnds
<1>6. CASE \E a \in Account, p \in Proxy : SetProxy(a, p)
  BY <1>6 DEF SetProxy
<1>7. CASE \E i \in DOMAIN data : GoStale(i)
  BY <1>7 DEF GoStale
<1>8. CASE Restart
  BY <1>8 DEF Restart
<1>9. CASE UNCHANGED vars
  BY <1>9 DEF vars
<1>10. QED
  BY <1>1, <1>2, <1>3, <1>4, <1>5, <1>6, <1>7, <1>8, <1>9 DEF Next

LEMMA StepRotates ==
    ASSUME Inv, NEW owner \in Owners, RotationOK(owner), [Next]_vars,
           ~\E a \in Account : Delete(a)
    PROVE  \E next \in Owners : RotationOK(next)'
<1>1. TypeOK /\ FileIsMemory /\ SingleFlight
  BY FlightsAreSingle DEF Inv
<1>2. CASE \E c \in Caller, a \in Account : Get(c, a)
  BY <1>1, <1>2, GetRotates
<1>3. CASE \E c \in Caller : CallerStep(c)
  <2>1. PICK c \in Caller : CallerStep(c)
    BY <1>3
  <2>2. CASE Redeem(c)
    BY <1>1, <2>2, RedeemRotates
  <2>3. CASE ~Redeem(c)
    <3>1. RotationOK(owner)'
      BY <1>1, <2>1, <2>3, ExpireRotates, JoinRotates, ProxyFailsRotates, RedeemFailsRotates,
         UpsertRotates, ForgiveRotates, CloseRotates, RemoveRotates DEF CallerStep
    <3>2. QED
      BY <3>1
  <2>4. QED
    BY <2>2, <2>3
<1>4. CASE \E a \in Account : Login(a)
  BY <1>1, <1>4, LoginRotates
<1>5. CASE \/ \E a \in Account : BackoffEnds(a)
           \/ UNCHANGED vars
  <2>1. UNCHANGED <<data, callers, endpoint>>
    BY <1>5 DEF BackoffEnds, vars
  <2>2. RotationOK(owner)'
    BY <2>1 DEF RotationOK
  <2>3. QED
    BY <2>2
<1>6. CASE \E a \in Account, p \in Proxy : SetProxy(a, p)
  BY <1>1, <1>6, SetProxyRotates
<1>7. CASE \E i \in DOMAIN data : GoStale(i)
  BY <1>1, <1>7, GoStaleRotates
<1>8. CASE Restart
  BY <1>1, <1>8, RestartRotates
<1>9. QED
  BY <1>2, <1>3, <1>4, <1>5, <1>6, <1>7, <1>8 DEF Next

LEMMA NextRotates == RInv /\ [Next]_vars => RInv'
<1> SUFFICES ASSUME RInv, [Next]_vars PROVE RInv'
  OBVIOUS
<1>1. Inv /\ Inv'
  BY NextKeeps DEF RInv
<1>2. /\ budget.deletes \in Nat /\ MaxDeletes \in Nat /\ budget.deletes <= MaxDeletes
      /\ \/ budget'.deletes = budget.deletes
         \/ budget'.deletes = budget.deletes - 1 /\ \E a \in Account : Delete(a)
  BY <1>1, DeletesCounted, StoreAssumption DEF RInv, Inv, TypeOK, Budget
<1>3. budget'.deletes <= MaxDeletes
  BY <1>2
<1>4. ASSUME NoneDeleted'
      PROVE  \E next \in Owners : RotationOK(next)'
  <2>1. budget'.deletes = MaxDeletes
    BY <1>4 DEF NoneDeleted
  <2>2. NoneDeleted
    BY <1>2, <2>1 DEF NoneDeleted
  <2>3. PICK owner \in Owners : RotationOK(owner)
    BY <2>2 DEF RInv, Rotation
  <2>4. CASE \E a \in Account : Delete(a)
    <3>1. budget.deletes > 0 /\ budget'.deletes = budget.deletes - 1
      BY <1>1, <2>4 DEF Delete, Inv, TypeOK, Budget
    <3>2. QED
      BY <1>2, <2>1, <3>1
  <2>5. CASE ~\E a \in Account : Delete(a)
    BY <1>1, <2>3, <2>5, StepRotates
  <2>6. QED
    BY <2>4, <2>5
<1>5. Rotation'
  BY <1>4 DEF Rotation, Owners
<1>6. QED
  BY <1>1, <1>3, <1>5 DEF RInv

LEMMA RotationSuffices == RInv => NoReplacedTokenIsRedeemed
BY DEF RInv, Rotation, NoneDeleted, RotationOK, StateFits, Fits, NoReplacedTokenIsRedeemed,
   NoToken

(* refreshInflight, the re-read under the lock and the merge of Upsert      *)
(* together keep a one-time refresh token from a second redemption, by any  *)
(* number of goroutines and after any crash, until an account is deleted.   *)
THEOREM ReplacedTokensStayUnused == Spec => []NoReplacedTokenIsRedeemed
<1>1. Spec => []RInv
  BY InitRotates, NextRotates, PTL DEF Spec
<1>2. QED
  BY <1>1, RotationSuffices, PTL

=============================================================================
