----------------------- MODULE AccountRequestsProofs -----------------------
(***************************************************************************)
(* The account router and the requests that drive it.                      *)
(*                                                                         *)
(* First, facts about the critical sections of the router, for every set   *)
(* of accounts, every list and every outcome of the writes: what they      *)
(* return has its type, and takes the route forward (Forward below).       *)
(* Then, for every set of handlers, whatever fails and whenever the        *)
(* process crashes: the variables keep their types, the router with its    *)
(* handlers implements SingleActiveAccount, and calls are leased. Last,     *)
(* what the route file holds, and which account a rotation leaves.          *)
(***************************************************************************)
EXTENDS AccountRequests, SequenceTheorems, WellFoundedInduction, TLAPS

Key(R) == [holder |-> R.activeAccountID, epoch |-> R.generation]
Rec(R) == [holder |-> R.file.activeAccountID, epoch |-> R.file.generation]

(* The route changed hands durably in a new generation, or it did not and  *)
(* the file is as old or as new as the route.                              *)
Forward(R, S) ==
    \/ Key(S) = Key(R) /\ Rec(S) \in {Rec(R), Key(R)}
    \/ S.generation > R.generation /\ Rec(S) = Key(S)

Vacated(R) == [R EXCEPT !.activeAccountID = NoAccount]

(* The same, after the last account may have left.                         *)
Step(R, S) == Forward(R, S) \/ Forward(Vacated(R), S)

(* What ensureActiveAccountLocked leaves behind when it succeeds.          *)
Settled(R, list) ==
    IF list = <<>> THEN R.activeAccountID = NoAccount
    ELSE Listed(list, R.activeAccountID)

-----------------------------------------------------------------------------
(* Lists of accounts.                                                      *)

LEMMA IndexInList ==
    ASSUME NEW list \in Seq(Account), NEW id, Listed(list, id)
    PROVE  /\ IndexByID(list, id) \in 1 .. Len(list)
           /\ list[IndexByID(list, id)] = id
           /\ id \in Account
           /\ Len(list) \in Nat \ {0}
<1>1. \E i \in DOMAIN list : list[i] = id
  BY DEF Listed
<1>2. IndexByID(list, id) \in DOMAIN list /\ list[IndexByID(list, id)] = id
  BY <1>1 DEF IndexByID
<1>3. QED
  BY <1>2

LEMMA SuccessorInList ==
    ASSUME NEW list \in Seq(Account), NEW id, Listed(list, id), NEW k \in Nat
    PROVE  Successor(list, id, k) \in Account
<1>1. /\ IndexByID(list, id) \in 1 .. Len(list)
      /\ Len(list) \in Nat \ {0}
  BY IndexInList
<1>2. ((IndexByID(list, id) - 1 + k) % Len(list)) + 1 \in 1 .. Len(list)
  BY <1>1
<1>3. QED
  BY <1>2 DEF Successor

LEMMA WithoutIsList ==
    ASSUME NEW list \in Seq(Account), NEW id
    PROVE  Without(list, id) \in Seq(Account)
<1>1. CASE ~Listed(list, id)
  BY <1>1 DEF Without
<1>2. CASE Listed(list, id)
  <2> DEFINE i == IndexByID(list, id)
  <2>1. i \in 1 .. Len(list)
    BY <1>2, IndexInList
  <2> HIDE DEF i
  <2>2. SubSeq(list, 1, i - 1) \in Seq(Account)
    <3>1. \A j \in 1 .. i - 1 : list[j] \in Account
      BY <2>1
    <3>2. QED
      BY <2>1, <3>1, SubSeqProperties
  <2>3. SubSeq(list, i + 1, Len(list)) \in Seq(Account)
    <3>1. \A j \in i + 1 .. Len(list) : list[j] \in Account
      BY <2>1
    <3>2. QED
      BY <2>1, <3>1, SubSeqProperties
  <2>4. SubSeq(list, 1, i - 1) \o SubSeq(list, i + 1, Len(list)) \in Seq(Account)
    BY <2>2, <2>3, ConcatProperties
  <2>5. QED
    BY <1>2, <2>4 DEF Without, i
<1>3. QED
  BY <1>1, <1>2

(* A nonempty set of naturals has a least element.                         *)
LEMMA LeastExists ==
    ASSUME NEW S, S \subseteq Nat, S # {}
    PROVE  \E k \in S : \A j \in S : k <= j
<1>1. \E k \in S : \A j \in S : ~(<<j, k>> \in OpToRel(<, Nat))
  BY NatLessThanWellFounded, WFMin
<1>2. PICK k \in S : \A j \in S : ~(<<j, k>> \in OpToRel(<, Nat))
  BY <1>1
<1>3. ASSUME NEW j \in S PROVE k <= j
  <2>1. ~(<<j, k>> \in OpToRel(<, Nat))
    BY <1>2
  <2>2. ~(j < k)
    BY <2>1 DEF OpToRel
  <2>3. QED
    BY <2>2
<1>4. QED
  BY <1>3

LEMMA FirstAvailableInList ==
    ASSUME NEW R, NEW list \in Seq(Account), NEW id, Listed(list, id),
           AvailableOffsets(R, list, id) # {}
    PROVE  FirstAvailable(R, list, id) \in Account
<1> DEFINE S == AvailableOffsets(R, list, id)
           k == CHOOSE i \in S : \A j \in S : i <= j
<1>1. S \subseteq Nat
  BY IndexInList DEF AvailableOffsets
<1>2. k \in S
  BY <1>1, LeastExists
<1>3. Successor(list, id, k) \in Account
  BY <1>1, <1>2, SuccessorInList
<1>4. QED
  BY <1>3 DEF FirstAvailable

-----------------------------------------------------------------------------
(* Health.                                                                 *)

LEMMA NewHealthType == NewHealth \in Health
  BY DEF NewHealth, Health, NoDeadline

LEMMA ExtendDeadlineType ==
    ASSUME NEW d \in [Account -> Nat], NEW a, NEW until \in Nat
    PROVE  ExtendDeadline(d, a, until) \in [Account -> Nat]
  BY DEF ExtendDeadline

LEMMA RecordAccountFailureHealthType ==
    ASSUME NEW h \in Health, NEW a \in Account, NEW kind, NEW t \in Nat
    PROVE  RecordAccountFailureHealth(h, a, kind, t) \in Health
<1> USE RestAssumption
<1>1. \A until \in Nat : MarkCooldown(h, a, until) \in Health
  BY ExtendDeadlineType DEF MarkCooldown, Health
<1>2. \A until \in Nat : MarkTransient(h, a, until) \in Health
  BY ExtendDeadlineType DEF MarkTransient, Health
<1>3. MarkAuthFail(h, a) \in Health
  BY DEF MarkAuthFail, Health
<1>4. QED
  BY <1>1, <1>2, <1>3 DEF RecordAccountFailureHealth

LEMMA MarkSuccessType ==
    ASSUME NEW h \in Health, NEW a \in Account, NEW t \in Nat
    PROVE  MarkSuccess(h, a, t) \in Health
<1>1. \A d \in [Account -> Nat] : DropExpired(d, a, t) \in [Account -> Nat]
  BY DEF DropExpired, NoDeadline
<1>2. QED
  BY <1>1 DEF MarkSuccess, Health

LEMMA ClearAuthFailureType ==
    ASSUME NEW h \in Health, NEW a
    PROVE  ClearAuthFailure(h, a) \in Health
  BY DEF ClearAuthFailure, Health

LEMMA LiveHealthType ==
    ASSUME NEW h \in Health, NEW t \in Nat
    PROVE  LiveHealth(h, t) \in Health
<1>1. \A d \in [Account -> Nat] : Unexpired(d, t) \in [Account -> Nat]
  BY DEF Unexpired, NoDeadline
<1>2. QED
  BY <1>1 DEF LiveHealth, Health

-----------------------------------------------------------------------------
(* Steps of the route.                                                     *)

LEMMA ForwardReflexive == \A R : Forward(R, R)
  BY DEF Forward

LEMMA ForwardTransitive ==
    ASSUME NEW R \in Route, NEW S \in Route, NEW T \in Route,
           Forward(R, S), Forward(S, T)
    PROVE  Forward(R, T)
<1>1. /\ R.generation \in Nat /\ S.generation \in Nat /\ T.generation \in Nat
  BY DEF Route
<1>2. CASE Key(S) = Key(R) /\ Key(T) = Key(S)
  BY <1>1, <1>2 DEF Forward
<1>3. CASE Key(S) = Key(R) /\ Key(T) # Key(S)
  <2>1. S.generation = R.generation
    BY <1>3 DEF Key
  <2>2. QED
    BY <1>1, <1>3, <2>1 DEF Forward
<1>4. CASE Key(S) # Key(R) /\ Key(T) = Key(S)
  <2>1. T.generation = S.generation
    BY <1>4 DEF Key
  <2>2. QED
    BY <1>1, <1>4, <2>1 DEF Forward
<1>5. CASE Key(S) # Key(R) /\ Key(T) # Key(S)
  BY <1>1, <1>5 DEF Forward
<1>6. QED
  BY <1>2, <1>3, <1>4, <1>5

LEMMA VacatedType ==
    ASSUME NEW R \in Route
    PROVE  Vacated(R) \in Route
  BY DEF Vacated, Route, MaybeAccount

LEMMA StepThenForward ==
    ASSUME NEW R \in Route, NEW S \in Route, NEW T \in Route,
           Step(R, S), Forward(S, T)
    PROVE  Step(R, T)
  BY ForwardTransitive, VacatedType DEF Step

(* Health, the shared circuit and the history of writes do not count.      *)
LEMMA SameRouteForward ==
    ASSUME NEW R, NEW S, NEW T, S.activeAccountID = T.activeAccountID,
           S.generation = T.generation, S.file = T.file, Forward(R, S)
    PROVE  Forward(R, T)
  BY DEF Forward, Key, Rec

LEMMA PersistActiveAccountType ==
    ASSUME NEW R \in Route, NEW ok \in BOOLEAN, now \in Nat
    PROVE  /\ PersistActiveAccount(R, ok) \in Route
           /\ Forward(R, PersistActiveAccount(R, ok))
           /\ Key(PersistActiveAccount(R, ok)) = Key(R)
<1>1. LiveHealth(R.health, now) \in Health
  BY LiveHealthType DEF Route
<1>2. PersistActiveAccount(R, ok) \in Route
  BY <1>1 DEF PersistActiveAccount, Route, RouteFile
<1>3. Key(PersistActiveAccount(R, ok)) = Key(R)
  BY DEF PersistActiveAccount, Key, Route
<1>4. Rec(PersistActiveAccount(R, ok)) \in {Rec(R), Key(R)}
  BY DEF PersistActiveAccount, Key, Rec, Route, RouteFile
<1>5. QED
  BY <1>2, <1>3, <1>4 DEF Forward

LEMMA ActivateAccountType ==
    ASSUME NEW R \in Route, NEW id \in MaybeAccount, NEW ok \in BOOLEAN, now \in Nat
    PROVE  LET a == ActivateAccount(R, id, ok)
           IN  /\ a.route \in Route /\ a.ok \in BOOLEAN
               /\ Forward(R, a.route)
               /\ a.ok => a.route.activeAccountID = id
<1> DEFINE moved == [R EXCEPT !.activeAccountID = id, !.generation = @ + 1]
           a == ActivateAccount(R, id, ok)
<1>1. CASE id = R.activeAccountID
  BY <1>1, ForwardReflexive DEF ActivateAccount
<1>2. CASE id # R.activeAccountID /\ ~ok
  <2>1. a = [route |-> PersistActiveAccount(R, ok), ok |-> ok]
    BY <1>2 DEF ActivateAccount
  <2>2. QED
    BY <1>2, <2>1, PersistActiveAccountType
<1>3. CASE id # R.activeAccountID /\ ok
  <2>1. a = [route |-> PersistActiveAccount(moved, ok), ok |-> ok]
    BY <1>3 DEF ActivateAccount
  <2>2. moved \in Route
    <3>1. R.generation + 1 \in Nat
      BY DEF Route
    <3>2. [R EXCEPT !.activeAccountID = id] \in Route
      BY DEF Route
    <3>3. QED
      BY <3>1, <3>2 DEF Route
  <2>3. moved.activeAccountID = id /\ moved.generation = R.generation + 1
    BY DEF Route
  <2>4. Rec(PersistActiveAccount(moved, ok)) = Key(moved)
    BY <1>3, <2>2 DEF PersistActiveAccount, Rec, Key, Route
  <2>5. /\ Key(PersistActiveAccount(moved, ok)) = Key(moved)
        /\ PersistActiveAccount(moved, ok) \in Route
    BY <2>2, PersistActiveAccountType
  <2>6. /\ PersistActiveAccount(moved, ok).generation = R.generation + 1
        /\ PersistActiveAccount(moved, ok).activeAccountID = id
    BY <2>3, <2>5 DEF Key
  <2>7. Forward(R, PersistActiveAccount(moved, ok))
    BY <2>4, <2>5, <2>6 DEF Forward, Route
  <2>8. QED
    BY <2>1, <2>5, <2>6, <2>7
<1>4. QED
  BY <1>1, <1>2, <1>3

-----------------------------------------------------------------------------
(* The helpers that hold accountRouteMu.                                   *)

LEMMA EnsureActiveAccountType ==
    ASSUME NEW R \in Route, NEW list \in Seq(Account), NEW ok \in BOOLEAN, now \in Nat
    PROVE  LET e == EnsureActiveAccount(R, list, ok)
           IN  /\ e.route \in Route /\ e.ok \in BOOLEAN
               /\ Step(R, e.route)
               /\ Settled(R, list) => Forward(R, e.route)
               /\ e.ok => Settled(e.route, list)
<1> DEFINE e == EnsureActiveAccount(R, list, ok)
           id == IF Listed(list, R.activeAccountID) THEN R.activeAccountID ELSE list[1]
<1>1. CASE list = <<>>
  <2>1. e = [route |-> Vacated(R), ok |-> TRUE]
    BY <1>1 DEF EnsureActiveAccount, Vacated
  <2>2. Vacated(R).activeAccountID = NoAccount
    BY DEF Vacated, Route
  <2>3. R.activeAccountID = NoAccount => Vacated(R) = R
    BY DEF Vacated, Route
  <2>4. e.route = Vacated(R) /\ e.ok = TRUE
    BY <2>1
  <2>5. Step(R, Vacated(R)) /\ Settled(Vacated(R), list)
    BY <1>1, <2>2, ForwardReflexive DEF Step, Settled
  <2>6. Settled(R, list) => Forward(R, Vacated(R))
    BY <1>1, <2>3, ForwardReflexive DEF Settled
  <2>7. QED
    BY <2>4, <2>5, <2>6, VacatedType
<1>2. CASE list # <<>>
  <2>1. e = ActivateAccount(R, id, ok)
    BY <1>2 DEF EnsureActiveAccount
  <2>2. 1 \in DOMAIN list /\ list[1] \in Account
    BY <1>2
  <2>3. id \in MaybeAccount
    BY <2>2 DEF Route, MaybeAccount
  <2>4. Listed(list, id)
    BY <2>2 DEF Listed
  <2> HIDE DEF id
  <2>5. /\ e.route \in Route /\ e.ok \in BOOLEAN
        /\ Forward(R, e.route)
        /\ e.ok => e.route.activeAccountID = id
    BY <2>1, <2>3, ActivateAccountType
  <2>6. QED
    BY <1>2, <2>4, <2>5 DEF Step, Settled
<1>3. QED
  BY <1>1, <1>2

LEMMA AdvanceActiveAccountType ==
    ASSUME NEW R \in Route, NEW id, NEW list \in Seq(Account), NEW w \in Writes, now \in Nat
    PROVE  LET adv == AdvanceActiveAccount(R, id, list, w)
           IN  /\ adv.route \in Route /\ adv.advanced \in BOOLEAN /\ adv.ok \in BOOLEAN
               /\ Step(R, adv.route)
               /\ Settled(R, list) => Forward(R, adv.route)
<1> DEFINE e    == EnsureActiveAccount(R, list, w.ensure)
           held == \/ ~e.ok \/ e.route.activeAccountID # id
                   \/ AvailableOffsets(e.route, list, id) = {}
           next == FirstAvailable(e.route, list, id)
           a    == ActivateAccount(e.route, next, w.save)
           adv  == AdvanceActiveAccount(R, id, list, w)
<1>1. w.ensure \in BOOLEAN /\ w.save \in BOOLEAN
  BY DEF Writes
<1>2. /\ e.route \in Route /\ e.ok \in BOOLEAN
      /\ Step(R, e.route)
      /\ Settled(R, list) => Forward(R, e.route)
      /\ e.ok => Settled(e.route, list)
  BY <1>1, EnsureActiveAccountType
<1>3. CASE held
  <2>1. adv = [route |-> e.route, advanced |-> FALSE, ok |-> e.ok]
    BY <1>3 DEF AdvanceActiveAccount
  <2>2. QED
    BY <1>2, <2>1
<1>4. CASE ~held
  <2>1. adv = [route |-> a.route, advanced |-> a.ok, ok |-> a.ok]
    BY <1>4 DEF AdvanceActiveAccount
  <2>2. list # <<>>
    BY <1>4 DEF AvailableOffsets
  <2>3. Listed(list, id)
    BY <1>2, <1>4, <2>2 DEF Settled
  <2>4. next \in MaybeAccount
    BY <1>4, <2>3, FirstAvailableInList DEF MaybeAccount
  <2>5. a.route \in Route /\ a.ok \in BOOLEAN /\ Forward(e.route, a.route)
    BY <1>1, <1>2, <2>4, ActivateAccountType
  <2>6. Step(R, a.route)
    BY <1>2, <2>5, StepThenForward
  <2>7. Settled(R, list) => Forward(R, a.route)
    BY <1>2, <2>5, ForwardTransitive
  <2>8. QED
    BY <2>1, <2>5, <2>6, <2>7
<1>5. QED
  BY <1>3, <1>4

(* What changes neither the active account, its generation nor the file.   *)
SameIdentity(R, S) ==
    /\ S.activeAccountID = R.activeAccountID
    /\ S.generation = R.generation
    /\ S.file = R.file

LEMMA SameIdentityStep ==
    ASSUME NEW R \in Route, NEW S \in Route, NEW T \in Route, SameIdentity(R, S)
    PROVE  /\ Forward(R, S)
           /\ Step(S, T) => Step(R, T)
           /\ Forward(S, T) => Forward(R, T)
           /\ \A list : Settled(R, list) => Settled(S, list)
<1>1. Forward(R, S)
  BY DEF SameIdentity, Forward, Key, Rec
<1>2. Forward(S, T) => Forward(R, T)
  BY <1>1, ForwardTransitive
<1>3. SameIdentity(Vacated(R), Vacated(S))
  BY DEF SameIdentity, Vacated, Route
<1>4. Forward(Vacated(R), Vacated(S))
  BY <1>3 DEF SameIdentity, Forward, Key, Rec
<1>5. Forward(Vacated(S), T) => Forward(Vacated(R), T)
  BY <1>4, VacatedType, ForwardTransitive
<1>6. QED
  BY <1>1, <1>2, <1>5 DEF Step, SameIdentity, Settled

LEMMA RecordFailureType ==
    ASSUME NEW R \in Route, NEW id \in Account, NEW kind, now \in Nat
    PROVE  RecordFailure(R, id, kind) \in Route /\ SameIdentity(R, RecordFailure(R, id, kind))
<1>1. RecordAccountFailureHealth(R.health, id, kind, now) \in Health
  BY RecordAccountFailureHealthType DEF Route
<1>2. QED
  BY <1>1 DEF RecordFailure, Route, SameIdentity

LEMMA ObserveSharedFailureType ==
    ASSUME NEW R \in Route, NEW id \in Account, NEW kind, now \in Nat
    PROVE  LET o == ObserveSharedFailure(R, id, kind)
           IN  o.route \in Route /\ SameIdentity(R, o.route)
<1> DEFINE recent == [a \in Account |->
                        IF now - R.sharedFailureAccounts[a] > SharedWindow
                        THEN NeverObserved ELSE R.sharedFailureAccounts[a]]
           seen   == [recent EXCEPT ![id] = now]
           opened == \E a \in Account \ {id} : seen[a] # NeverObserved
           until  == IF opened /\ now + CircuitRest > R.upstreamCircuitUntil
                     THEN now + CircuitRest ELSE R.upstreamCircuitUntil
           o      == ObserveSharedFailure(R, id, kind)
<1>1. CASE ~IsSharedUpstreamFailure(kind)
  <2>1. o.route = R
    BY <1>1 DEF ObserveSharedFailure
  <2>2. QED
    BY <2>1 DEF SameIdentity
<1>2. CASE IsSharedUpstreamFailure(kind)
  <2>1. recent \in [Account -> Nat]
    BY DEF Route, NeverObserved
  <2>2. seen \in [Account -> Nat]
    BY <2>1
  <2> HIDE DEF seen, recent
  <2>3. until \in Nat
    BY RouterAssumption DEF Route
  <2>4. o.route = [R EXCEPT !.sharedFailureAccounts = seen, !.upstreamCircuitUntil = until]
    BY <1>2 DEF ObserveSharedFailure, seen, recent
  <2> HIDE DEF until, o
  <2>5. [R EXCEPT !.sharedFailureAccounts = seen] \in Route
    BY <2>2 DEF Route
  <2>6. o.route \in Route
    BY <2>3, <2>4, <2>5 DEF Route
  <2>7. SameIdentity(R, o.route)
    BY <2>4 DEF Route, SameIdentity
  <2>8. QED
    BY <2>6, <2>7 DEF o
<1>3. QED
  BY <1>1, <1>2

LEMMA RecordAndObserveType ==
    ASSUME NEW R \in Route, NEW id \in Account, NEW kind, now \in Nat
    PROVE  LET o == ObserveSharedFailure(RecordFailure(R, id, kind), id, kind)
           IN  o.route \in Route /\ SameIdentity(R, o.route)
  BY RecordFailureType, ObserveSharedFailureType DEF SameIdentity

-----------------------------------------------------------------------------
(* Whole critical sections.                                                *)

LEMMA RecordFailureWithoutAdvanceType ==
    ASSUME NEW R \in Route, NEW id \in Account, NEW kind, NEW w \in Writes, now \in Nat
    PROVE  LET S == RecordFailureWithoutAdvance(R, id, kind, w)
           IN  S \in Route /\ Forward(R, S)
<1> DEFINE o == ObserveSharedFailure(RecordFailure(R, id, kind), id, kind).route
<1>1. o \in Route /\ SameIdentity(R, o)
  BY RecordAndObserveType
<1>2. w.save \in BOOLEAN
  BY DEF Writes
<1> HIDE DEF o
<1>3. PersistActiveAccount(o, w.save) \in Route /\ Forward(o, PersistActiveAccount(o, w.save))
  BY <1>1, <1>2, PersistActiveAccountType
<1>4. QED
  BY <1>1, <1>3, SameIdentityStep DEF RecordFailureWithoutAdvance, o

LEMMA MarkAccountFailureType ==
    ASSUME NEW R \in Route, NEW list \in Seq(Account), NEW id \in Account, NEW kind,
           NEW w \in Writes, now \in Nat
    PROVE  LET m == MarkAccountFailure(R, list, id, kind, w)
           IN  m.route \in Route /\ m.advanced \in BOOLEAN /\ Step(R, m.route)
<1> DEFINE o    == ObserveSharedFailure(RecordFailure(R, id, kind), id, kind)
           adv  == AdvanceActiveAccount(o.route, id, list, w)
           m    == MarkAccountFailure(R, list, id, kind, w)
           held == ~IsUpstreamAccountFailure(kind) \/ o.opened \/ CircuitOpen(o.route)
<1>1. o.route \in Route /\ SameIdentity(R, o.route)
  BY RecordAndObserveType
<1>2. w.save \in BOOLEAN
  BY DEF Writes
<1>3. CASE held
  <2>1. m = [route |-> PersistActiveAccount(o.route, w.save), advanced |-> FALSE]
    BY <1>3 DEF MarkAccountFailure
  <2>2. /\ PersistActiveAccount(o.route, w.save) \in Route
        /\ Forward(o.route, PersistActiveAccount(o.route, w.save))
    BY <1>1, <1>2, PersistActiveAccountType
  <2>3. Forward(R, PersistActiveAccount(o.route, w.save))
    BY <1>1, <2>2, SameIdentityStep
  <2>4. QED
    BY <2>1, <2>2, <2>3 DEF Step
<1>4. CASE ~held
  <2>1. m = [route    |-> IF adv.ok /\ ~adv.advanced
                          THEN PersistActiveAccount(adv.route, w.save) ELSE adv.route,
             advanced |-> adv.advanced]
    BY <1>4 DEF MarkAccountFailure
  <2>2. adv.route \in Route /\ adv.advanced \in BOOLEAN /\ Step(o.route, adv.route)
    BY <1>1, AdvanceActiveAccountType
  <2>3. Step(R, adv.route)
    BY <1>1, <2>2, SameIdentityStep
  <2>4. /\ PersistActiveAccount(adv.route, w.save) \in Route
        /\ Forward(adv.route, PersistActiveAccount(adv.route, w.save))
    BY <1>2, <2>2, PersistActiveAccountType
  <2>5. Step(R, PersistActiveAccount(adv.route, w.save))
    BY <2>2, <2>3, <2>4, StepThenForward
  <2>6. QED
    BY <2>1, <2>2, <2>3, <2>4, <2>5
<1>5. QED
  BY <1>3, <1>4

LEMMA MarkAccountSuccessType ==
    ASSUME NEW R \in Route, NEW list \in Seq(Account), NEW id \in Account,
           NEW w \in Writes, now \in Nat
    PROVE  LET S == MarkAccountSuccess(R, list, id, w)
           IN  S \in Route /\ Step(R, S)
<1> DEFINE e == EnsureActiveAccount(R, list, w.ensure)
           T == [e.route EXCEPT !.health = MarkSuccess(@, id, now)]
<1>1. w.ensure \in BOOLEAN
  BY DEF Writes
<1>2. e.route \in Route /\ Step(R, e.route)
  BY <1>1, EnsureActiveAccountType
<1>3. MarkSuccess(e.route.health, id, now) \in Health
  BY <1>2, MarkSuccessType DEF Route
<1>4. T \in Route /\ SameIdentity(e.route, T)
  BY <1>2, <1>3 DEF Route, SameIdentity
<1>5. Step(R, T)
  BY <1>2, <1>4, SameIdentityStep, StepThenForward
<1>6. MarkAccountSuccess(R, list, id, w) \in {T, e.route}
  BY DEF MarkAccountSuccess
<1>7. QED
  BY <1>2, <1>4, <1>5, <1>6

LEMMA RetireType ==
    ASSUME NEW R \in Route, NEW list \in Seq(Account), NEW id \in Account, NEW kind,
           NEW w \in Writes, NEW again \in BOOLEAN, now \in Nat, Settled(R, list)
    PROVE  /\ LET v == RetireAfterValidation(R, list, id, kind, w)
              IN  v.route \in Route /\ v.advanced \in BOOLEAN /\ Forward(R, v.route)
           /\ LET S == RetireAfterRefresh(R, list, id, kind, w, again)
              IN  S \in Route /\ Forward(R, S)
<1> DEFINE F   == RecordFailure(R, id, kind)
           adv == AdvanceActiveAccount(F, id, list, w)
<1>1. w.save \in BOOLEAN
  BY DEF Writes
<1>2. F \in Route /\ SameIdentity(R, F)
  BY RecordFailureType
<1>3. Settled(F, list)
  BY <1>2, SameIdentityStep
<1> HIDE DEF F
<1>4. adv.route \in Route /\ adv.advanced \in BOOLEAN /\ Forward(F, adv.route)
  BY <1>2, <1>3, AdvanceActiveAccountType
<1>5. Forward(R, adv.route)
  BY <1>2, <1>4, SameIdentityStep
<1>6. ASSUME NEW ok \in BOOLEAN
      PROVE  /\ PersistActiveAccount(adv.route, ok) \in Route
             /\ Forward(R, PersistActiveAccount(adv.route, ok))
  <2>1. /\ PersistActiveAccount(adv.route, ok) \in Route
        /\ Forward(adv.route, PersistActiveAccount(adv.route, ok))
    BY <1>4, PersistActiveAccountType
  <2>2. QED
    BY <1>4, <1>5, <2>1, ForwardTransitive
<1>7. RetireAfterValidation(R, list, id, kind, w)
        = [route    |-> IF adv.ok /\ ~adv.advanced
                        THEN PersistActiveAccount(adv.route, w.save) ELSE adv.route,
           advanced |-> adv.advanced]
  BY DEF RetireAfterValidation, F
<1>8. RetireAfterRefresh(R, list, id, kind, w, again)
        \in {adv.route, PersistActiveAccount(adv.route, again)}
  BY DEF RetireAfterRefresh, F
<1>9. QED
  BY <1>1, <1>4, <1>5, <1>6, <1>7, <1>8

LEMMA ActivateNeighbourType ==
    ASSUME NEW R \in Route, NEW before \in Seq(Account), NEW after \in Seq(Account),
           NEW id \in Account, NEW ok \in BOOLEAN, now \in Nat, Settled(R, before)
    PROVE  LET S == ActivateNeighbour(R, before, after, id, ok)
           IN  S \in Route /\ Forward(R, S)
<1> DEFINE i    == IndexByID(before, id)
           next == IF after = <<>> THEN NoAccount ELSE after[((i - 1) % Len(after)) + 1]
<1>1. CASE id # R.activeAccountID
  BY <1>1, ForwardReflexive DEF ActivateNeighbour
<1>2. CASE id = R.activeAccountID
  <2>1. Listed(before, id)
    BY <1>2, RouterAssumption DEF Settled
  <2>2. i \in 1 .. Len(before)
    BY <2>1, IndexInList
  <2> HIDE DEF i
  <2>3. next \in MaybeAccount
    <3>1. CASE after = <<>>
      BY <3>1 DEF MaybeAccount
    <3>2. CASE after # <<>>
      <4>1. Len(after) \in Nat \ {0} /\ Len(before) \in Nat
        BY <3>2
      <4>2. ((i - 1) % Len(after)) + 1 \in 1 .. Len(after)
        BY <2>2, <4>1
      <4>3. QED
        BY <3>2, <4>2 DEF MaybeAccount
    <3>3. QED
      BY <3>1, <3>2
  <2> HIDE DEF next
  <2>4. /\ ActivateAccount(R, next, ok).route \in Route
        /\ Forward(R, ActivateAccount(R, next, ok).route)
    BY <2>3, ActivateAccountType
  <2>5. QED
    BY <1>2, <2>4 DEF ActivateNeighbour, next, i
<1>3. QED
  BY <1>1, <1>2

(* The route a restart begins with, before it looks at the account list.   *)
Reread(file) ==
    [activeAccountID       |-> file.activeAccountID,
     generation            |-> file.generation,
     health                |-> LiveHealth(file.health, now),
     sharedFailureAccounts |-> [a \in Account |-> NeverObserved],
     upstreamCircuitUntil  |-> 0,
     file                  |-> file,
     unsaved               |-> FALSE]

LEMMA InitializeAccountRouterType ==
    ASSUME NEW file \in RouteFile, NEW list \in Seq(Account), now \in Nat
    PROVE  LET S == InitializeAccountRouter(file, list)
           IN  S \in Route /\ Reread(file) \in Route /\ Step(Reread(file), S)
<1>1. LiveHealth(file.health, now) \in Health
  BY LiveHealthType DEF RouteFile
<1>2. Reread(file) \in Route
  BY <1>1 DEF Reread, Route, RouteFile, NeverObserved
<1>3. InitializeAccountRouter(file, list) = EnsureActiveAccount(Reread(file), list, TRUE).route
  BY DEF InitializeAccountRouter, Reread
<1>4. QED
  BY <1>2, <1>3, EnsureActiveAccountType

-----------------------------------------------------------------------------
(* The requests.                                                           *)

(* The locals a handler reads at its program counter have been assigned.   *)
HandlerOK(h) ==
    /\ h.pc \in Resolving \union {"release_old", "lease_next"} => h.target \in Account
    /\ h.pc \in {"start", "call", "mark", "release_old", "lease_next",
                 "terminal", "success"} => h.account \in Account

LocalsOK ==
    /\ \A r \in Request : HandlerOK(req[r])
    /\ admin.pc # "idle" => admin.target \in Account

(* The inductive invariant.                                                *)
Inv == TypeOK /\ LocalsOK

(* What every step of the system does to the route, but a restart.         *)
RouteStep == route' \in Route /\ Step(route, route')

(* What a lease or a snapshot taken in this step says.                     *)
Current == [account |-> route'.activeAccountID, generation |-> route'.generation]

-----------------------------------------------------------------------------
(* The frame of a step.                                                    *)

LEMMA StepIsReroute ==
    ASSUME route \in Route, RouteStep
    PROVE  Promise!Reroute(route.activeAccountID, route.generation, Rec(route))
<1>1. /\ route.generation \in Nat /\ route'.generation \in Nat
      /\ route'.activeAccountID \in Account \union {NoAccount}
  BY DEF RouteStep, Route, MaybeAccount
<1>2. CASE Forward(route, route')
  BY <1>1, <1>2 DEF Forward, Key, Rec, Promise!Reroute, Promise!Holder
<1>3. CASE Forward(Vacated(route), route')
  <2>1. /\ Vacated(route).activeAccountID = NoAccount
        /\ Vacated(route).generation = route.generation
        /\ Vacated(route).file = route.file
    BY DEF Vacated, Route
  <2>2. QED
    BY <1>1, <1>3, <2>1 DEF Forward, Key, Rec, Promise!Reroute, Promise!Holder
<1>4. QED
  BY <1>2, <1>3 DEF RouteStep, Step

LEMMA OneChange ==
    ASSUME NEW S, NEW F, NEW G, F = [c \in S |-> F[c]], G = [c \in S |-> G[c]],
           NEW s \in S, NEW v, G[s] = v, \A c \in S : c # s => G[c] = F[c]
    PROVE  G = [F EXCEPT ![s] = v]
<1>1. DOMAIN F = S /\ DOMAIN G = S
  OBVIOUS
<1>2. [F EXCEPT ![s] = v] = [c \in S |-> IF c = s THEN v ELSE F[c]]
  BY <1>1
<1>3. \A c \in S : G[c] = IF c = s THEN v ELSE F[c]
  OBVIOUS
<1>4. QED
  BY <1>1, <1>2, <1>3

LEMMA GrantsDomain ==
    /\ Grants = [c \in Client |-> Grants[c]]
    /\ Grants' = [c \in Client |-> Grants'[c]]
  BY DEF Grants

LEMMA OneGrantSettles ==
    ASSUME NEW c \in Client, NEW v \in {Grants[c], NoLease, Current},
           v = Grants[c] \/ v = NoLease \/ route'.activeAccountID \in Account,
           Grants' = [Grants EXCEPT ![c] = v]
    PROVE  Promise!Settle
<1>1. CASE v = Grants[c]
  <2>1. Grants' = Grants
    BY <1>1, GrantsDomain
  <2>2. QED
    BY <2>1 DEF Promise!Settle
<1>2. CASE v = NoLease
  BY <1>2 DEF Promise!Settle, Promise!None, NoLease
<1>3. CASE v = Current /\ route'.activeAccountID \in Account
  BY <1>3, RouterAssumption DEF Promise!Settle, Current
<1>4. QED
  BY <1>1, <1>2, <1>3

(* A handler's step touches its own locals and its own lease, and takes or *)
(* drops at most one of a lease and a snapshot.                            *)
LEMMA HandlerMoves ==
    ASSUME Inv, NEW r \in Request, NEW h \in Handler, HandlerOK(h),
           NEW l \in Lease \union {NoLease},
           req' = [req EXCEPT ![r] = h],
           leases' = [leases EXCEPT ![r] = l],
           now' = now, admin' = admin,
           accounts' \in Seq(Account), budget' \in Budget, RouteStep,
           \/ l = leases[r] /\ SnapshotOf(h) \in {SnapshotOf(req[r]), NoLease}
           \/ /\ l = leases[r] /\ SnapshotOf(h) = Current
              /\ route'.activeAccountID \in Account
           \/ SnapshotOf(h) = SnapshotOf(req[r]) /\ l \in {leases[r], NoLease}
           \/ /\ SnapshotOf(h) = SnapshotOf(req[r]) /\ l = Current
              /\ route'.activeAccountID \in Account
    PROVE  Inv' /\ Promise!Settle
<1> USE RequestAssumption
<1>1. TypeOK'
  BY DEF Inv, TypeOK, RouteStep
<1>2. LocalsOK'
  BY DEF Inv, TypeOK, LocalsOK
<1>3. /\ <<r, "lease">> \in Client /\ <<r, "snapshot">> \in Client
      /\ Grants[<<r, "lease">>] = leases[r]
      /\ Grants[<<r, "snapshot">>] = SnapshotOf(req[r])
  BY DEF Client, Grants
<1>4. Grants'[<<r, "lease">>] = l /\ Grants'[<<r, "snapshot">>] = SnapshotOf(h)
  BY <1>3 DEF Grants, Inv, TypeOK
<1>5. ASSUME NEW c \in Client, c # <<r, "lease">>, c # <<r, "snapshot">>
      PROVE  Grants'[c] = Grants[c]
  BY <1>5 DEF Grants, Client, Inv, TypeOK
<1>6. Inv'
  BY <1>1, <1>2 DEF Inv
<1>7. CASE l = leases[r]
  <2>1. Grants'[<<r, "lease">>] = Grants[<<r, "lease">>]
    BY <1>3, <1>4, <1>7
  <2>2. Grants' = [Grants EXCEPT ![<<r, "snapshot">>] = SnapshotOf(h)]
    BY <1>3, <1>4, <1>5, <2>1, GrantsDomain, OneChange
  <2>3. /\ SnapshotOf(h) \in {Grants[<<r, "snapshot">>], NoLease, Current}
        /\ SnapshotOf(h) = Grants[<<r, "snapshot">>] \/ SnapshotOf(h) = NoLease
              \/ route'.activeAccountID \in Account
    BY <1>3
  <2>4. Promise!Settle
    BY <1>3, <2>2, <2>3, OneGrantSettles
  <2>5. QED
    BY <1>6, <2>4
<1>8. CASE l # leases[r]
  <2>1. Grants'[<<r, "snapshot">>] = Grants[<<r, "snapshot">>]
    BY <1>3, <1>4, <1>8
  <2>2. Grants' = [Grants EXCEPT ![<<r, "lease">>] = l]
    BY <1>3, <1>4, <1>5, <2>1, GrantsDomain, OneChange
  <2>3. /\ l \in {Grants[<<r, "lease">>], NoLease, Current}
        /\ l = Grants[<<r, "lease">>] \/ l = NoLease \/ route'.activeAccountID \in Account
    BY <1>3, <1>8
  <2>4. Promise!Settle
    BY <1>3, <2>2, <2>3, OneGrantSettles
  <2>5. QED
    BY <1>6, <2>4
<1>9. QED
  BY <1>7, <1>8

(* What is shown of every step but a restart.                              *)
Good == Inv' /\ RouteStep /\ Promise!Settle

LEMMA HandlerGoes ==
    ASSUME Inv, NEW r \in Request, NEW h \in Handler, HandlerOK(h),
           Become(r, h), UNCHANGED <<now, admin, leases>>,
           accounts' \in Seq(Account), budget' \in Budget, RouteStep,
           \/ SnapshotOf(h) \in {SnapshotOf(req[r]), NoLease}
           \/ SnapshotOf(h) = Current /\ route'.activeAccountID \in Account
    PROVE  Good
<1>1. leases[r] \in Lease \union {NoLease} /\ leases' = [leases EXCEPT ![r] = leases[r]]
  BY DEF Inv, TypeOK
<1>2. req' = [req EXCEPT ![r] = h]
  BY DEF Become
<1>3. QED
  BY <1>1, <1>2, HandlerMoves DEF Good

LEMMA ContinueType ==
    ASSUME Inv, NEW r \in Request, NEW pc \in PC
    PROVE  /\ Continue(r, pc) \in Handler
           /\ Continue(r, pc).pc = pc
           /\ Continue(r, pc).account = req[r].account
           /\ Continue(r, pc).target = NoAccount
           /\ Continue(r, pc).moves = req[r].moves
<1>1. req[r] \in Handler
  BY DEF Inv, TypeOK
<1>2. NoAccount \in MaybeAccount /\ "ok" \in Outcome
  BY DEF MaybeAccount, Outcome
<1>3. QED
  BY <1>1, <1>2 DEF Continue, Handler

(* A handler goes on at pc, and has perhaps moved the pointer.             *)
LEMMA Goes ==
    ASSUME Inv, NEW r \in Request,
           NEW pc \in PC \ (Resolving \union {"release_old", "lease_next"}),
           pc \in {"start", "call", "mark", "terminal", "success"}
              => req[r].account \in Account,
           Goto(r, pc) \/ \E advanced \in BOOLEAN : GotoAfterMove(r, pc, advanced),
           UNCHANGED <<now, admin, leases>>,
           accounts' \in Seq(Account), budget' \in Budget, RouteStep
    PROVE  Good
<1> DEFINE c == Continue(r, pc)
<1>1. c \in Handler /\ c.pc = pc /\ c.account = req[r].account
  BY ContinueType
<1>2. PICK n \in {c.moves, c.moves + 1} : Become(r, [c EXCEPT !.moves = n])
  <2>1. c = [c EXCEPT !.moves = c.moves]
    BY <1>1 DEF Handler
  <2>2. QED
    BY <2>1 DEF Goto, GotoAfterMove
<1> DEFINE h == [c EXCEPT !.moves = n]
<1>3. n \in Nat
  BY <1>1 DEF Handler
<1> HIDE DEF c
<1>4. h \in Handler /\ h.pc = pc /\ h.account = req[r].account
  BY <1>1, <1>3 DEF Handler
<1> HIDE DEF h
<1>5. HandlerOK(h) /\ SnapshotOf(h) = NoLease
  BY <1>4 DEF HandlerOK, SnapshotOf
<1>6. Become(r, h)
  BY <1>2 DEF h
<1>7. QED
  BY <1>4, <1>5, <1>6, HandlerGoes

LEMMA EnsuredType ==
    ASSUME Inv, NEW w \in SomeWrites
    PROVE  /\ w \in Writes /\ w.save \in BOOLEAN
           /\ Ensured(w).route \in Route /\ Ensured(w).ok \in BOOLEAN
           /\ Step(route, Ensured(w).route)
           /\ Ensured(w).ok => Settled(Ensured(w).route, accounts)
<1>1. w \in Writes
  BY DEF SomeWrites, Writes
<1>2. w.ensure \in BOOLEAN /\ w.save \in BOOLEAN
  BY <1>1 DEF Writes
<1>3. route \in Route /\ accounts \in Seq(Account) /\ now \in Nat
  BY DEF Inv, TypeOK
<1>4. QED
  BY <1>1, <1>2, <1>3, EnsureActiveAccountType DEF Ensured

(* A section that goes on from the ensured route.                          *)
LEMMA EnsuredThenForward ==
    ASSUME Inv, NEW w \in SomeWrites, NEW S \in Route, Forward(Ensured(w).route, S)
    PROVE  Step(route, S)
<1>1. route \in Route
  BY DEF Inv, TypeOK
<1>2. QED
  BY <1>1, EnsuredType, StepThenForward

-----------------------------------------------------------------------------
(* Preflight.                                                              *)

LEMMA ArriveGood ==
    ASSUME Inv, NEW r \in Request, Arrive(r)
    PROVE  Good
<1> DEFINE h == [IdleHandler EXCEPT !.pc = "resolve"]
<1>1. h \in Handler /\ h.pc = "resolve"
  BY DEF IdleHandler, Handler, PC, MaybeAccount, Outcome
<1>2. HandlerOK(h) /\ SnapshotOf(h) = NoLease
  BY <1>1 DEF HandlerOK, SnapshotOf, Resolving
<1>3. RouteStep /\ accounts' \in Seq(Account) /\ budget' \in Budget
  BY ForwardReflexive DEF Arrive, RouteStep, Step, Inv, TypeOK
<1>4. Become(r, h) /\ UNCHANGED <<now, admin, leases>>
  BY DEF Arrive
<1>5. QED
  BY <1>1, <1>2, <1>3, <1>4, HandlerGoes

LEMMA SnapshotGood ==
    ASSUME Inv, NEW r \in Request, NEW pc \in Resolving,
           Snapshot(r, pc, route'), route'.activeAccountID \in Account,
           UNCHANGED <<now, admin, leases>>,
           accounts' \in Seq(Account), budget' \in Budget, RouteStep,
           req[r].pc \in {"resolve", "retry"}
    PROVE  Good
<1> DEFINE h == [req[r] EXCEPT !.pc = pc, !.target = route'.activeAccountID,
                               !.generation = route'.generation]
<1>1. req[r] \in Handler /\ route'.generation \in Nat
  BY DEF Inv, TypeOK, RouteStep, Route
<1>2. pc \in PC
  BY DEF PC, Resolving
<1>3. /\ h \in Handler /\ h.pc = pc /\ h.target = route'.activeAccountID
      /\ h.generation = route'.generation
  BY <1>1, <1>2 DEF Handler, MaybeAccount
<1>4. Become(r, h)
  BY DEF Snapshot
<1> HIDE DEF h
<1>5. HandlerOK(h) /\ SnapshotOf(h) = Current
  BY <1>3 DEF HandlerOK, SnapshotOf, Resolving, Current
<1>6. QED
  BY <1>3, <1>4, <1>5, HandlerGoes

LEMMA ResolveGood ==
    ASSUME Inv, NEW r \in Request, Resolve(r)
    PROVE  Good
<1>1. PICK w \in SomeWrites :
         LET e   == Ensured(w)
             adv == AdvanceActiveAccount(e.route, e.route.activeAccountID, accounts, w)
         IN  \/ route' = e.route /\ Goto(r, "retry")
             \/ /\ Resolvable(e)
                /\ route' = adv.route
                /\ GotoAfterMove(r, "retry", adv.advanced)
             \/ /\ Resolvable(e)
                /\ route' = e.route
                /\ Snapshot(r, "validate", e.route)
  BY DEF Resolve
<1> DEFINE e   == Ensured(w)
           adv == AdvanceActiveAccount(e.route, e.route.activeAccountID, accounts, w)
<1>2. /\ UNCHANGED <<now, admin, leases>> /\ req[r].pc = "resolve"
      /\ accounts' \in Seq(Account) /\ budget' \in Budget
      /\ accounts \in Seq(Account) /\ now \in Nat
  BY DEF Resolve, Inv, TypeOK
<1>3. /\ w \in Writes /\ e.route \in Route /\ Step(route, e.route)
      /\ e.ok => Settled(e.route, accounts)
  BY EnsuredType
<1>4. "retry" \in PC \ (Resolving \union {"release_old", "lease_next"})
  BY DEF PC, Resolving
<1>5. CASE route' = e.route /\ Goto(r, "retry")
  <2>1. RouteStep
    BY <1>3, <1>5 DEF RouteStep
  <2>2. QED
    BY <1>2, <1>4, <1>5, <2>1, Goes
<1>6. CASE Resolvable(e) /\ route' = adv.route /\ GotoAfterMove(r, "retry", adv.advanced)
  <2>1. adv.route \in Route /\ adv.advanced \in BOOLEAN /\ Forward(e.route, adv.route)
    BY <1>2, <1>3, <1>6, AdvanceActiveAccountType DEF Resolvable
  <2>2. RouteStep
    BY <1>6, <2>1, EnsuredThenForward DEF RouteStep
  <2>3. QED
    BY <1>2, <1>4, <1>6, <2>1, <2>2, Goes
<1>7. CASE Resolvable(e) /\ route' = e.route /\ Snapshot(r, "validate", e.route)
  <2>1. RouteStep
    BY <1>3, <1>7 DEF RouteStep
  <2>2. route'.activeAccountID \in Account
    BY <1>3, <1>7 DEF Resolvable, Route, MaybeAccount
  <2>3. Snapshot(r, "validate", route') /\ "validate" \in Resolving
    BY <1>7 DEF Resolving
  <2>4. QED
    BY <1>2, <2>1, <2>2, <2>3, SnapshotGood
<1>8. QED
  BY <1>1, <1>5, <1>6, <1>7

LEMMA EnsureValidType ==
    ASSUME Inv, NEW target \in Account, NEW outcome, EnsureValid(target, outcome)
    PROVE  accounts' \in Seq(Account) /\ budget' \in Budget
<1>1. accounts \in Seq(Account) /\ budget \in Budget
  BY DEF Inv, TypeOK
<1>2. SpendFailure => budget' \in Budget
  BY <1>1 DEF SpendFailure, Budget
<1>3. Append(accounts, target) \in Seq(Account)
  BY <1>1
<1>4. QED
  BY <1>1, <1>2, <1>3 DEF EnsureValid

LEMMA ValidateGood ==
    ASSUME Inv, NEW r \in Request, Validate(r)
    PROVE  Good
<1>1. PICK outcome \in Outcome :
         /\ EnsureValid(req[r].target, outcome)
         /\ Become(r, [req[r] EXCEPT
                !.pc = IF req[r].pc = "validate" THEN "confirm" ELSE "reconfirm",
                !.valid = outcome])
  BY DEF Validate
<1> DEFINE pc == IF req[r].pc = "validate" THEN "confirm" ELSE "reconfirm"
           h  == [req[r] EXCEPT !.pc = pc, !.valid = outcome]
<1>2. /\ req[r] \in Handler /\ HandlerOK(req[r])
      /\ req[r].pc \in Resolving
  BY DEF Inv, TypeOK, LocalsOK, Validate, Resolving
<1>3. req[r].target \in Account
  BY <1>2 DEF HandlerOK
<1>4. accounts' \in Seq(Account) /\ budget' \in Budget
  BY <1>1, <1>3, EnsureValidType
<1>5. pc \in PC /\ pc \in Resolving
  BY DEF PC, Resolving
<1> HIDE DEF pc
<1>6. h \in Handler /\ h.pc = pc /\ h.target = req[r].target
        /\ h.generation = req[r].generation
  BY <1>2, <1>5 DEF Handler
<1>7. Become(r, h)
  BY <1>1 DEF pc
<1> HIDE DEF h
<1>8. SnapshotOf(h) = SnapshotOf(req[r])
  BY <1>2, <1>5, <1>6 DEF SnapshotOf
<1>9. HandlerOK(h)
  BY <1>3, <1>5, <1>6 DEF HandlerOK, Resolving
<1>10. RouteStep /\ UNCHANGED <<now, admin, leases>>
  BY ForwardReflexive DEF Validate, RouteStep, Step, Inv, TypeOK
<1>11. QED
  BY <1>4, <1>6, <1>7, <1>8, <1>9, <1>10, HandlerGoes

LEMMA ResolvedGood ==
    ASSUME Inv, NEW r \in Request, req[r].pc \in Resolving,
           NEW afterRetry \in BOOLEAN, Resolved(r, afterRetry),
           UNCHANGED <<now, admin, leases>>,
           accounts' \in Seq(Account), budget' \in Budget, RouteStep
    PROVE  Good
<1>1. "release" \in PC \ (Resolving \union {"release_old", "lease_next"})
  BY DEF PC, Resolving
<1>2. CASE Goto(r, "release")
  BY <1>1, <1>2, Goes
<1>3. CASE \E otherBinding \in BOOLEAN :
             Become(r, [Continue(r, "start") EXCEPT
                          !.account = req[r].target,
                          !.switched = afterRetry \/ otherBinding])
  <2>1. PICK switched \in BOOLEAN :
          Become(r, [Continue(r, "start") EXCEPT !.account = req[r].target,
                                                 !.switched = switched])
    BY <1>3
  <2> DEFINE c == Continue(r, "start")
             h == [c EXCEPT !.account = req[r].target, !.switched = switched]
  <2>2. c \in Handler /\ c.pc = "start"
    BY ContinueType DEF PC
  <2>3. req[r].target \in Account
    BY DEF Inv, LocalsOK, HandlerOK
  <2> HIDE DEF c
  <2>4. h \in Handler /\ h.pc = "start" /\ h.account = req[r].target
    BY <2>2, <2>3 DEF Handler, MaybeAccount
  <2>5. Become(r, h)
    BY <2>1 DEF c
  <2> HIDE DEF h
  <2>6. HandlerOK(h) /\ SnapshotOf(h) = NoLease
    BY <2>3, <2>4 DEF HandlerOK, SnapshotOf, Resolving
  <2>7. QED
    BY <2>4, <2>5, <2>6, HandlerGoes
<1>4. QED
  BY <1>2, <1>3 DEF Resolved

LEMMA ConfirmGood ==
    ASSUME Inv, NEW r \in Request, Confirm(r)
    PROVE  Good
<1>1. PICK w \in SomeWrites :
         LET e    == Ensured(w)
             fail == RetireAfterValidation(e.route, accounts, req[r].target,
                                           req[r].valid, w)
         IN  \/ route' = e.route /\ Goto(r, "retry")
             \/ /\ SameRoute(e, req[r])
                /\ route' = fail.route
                /\ GotoAfterMove(r, "retry", fail.advanced)
             \/ route' = e.route /\ Resolved(r, FALSE)
  BY DEF Confirm
<1> DEFINE e    == Ensured(w)
           fail == RetireAfterValidation(e.route, accounts, req[r].target, req[r].valid, w)
<1>2. /\ UNCHANGED <<now, admin, leases>> /\ req[r].pc \in Resolving
      /\ accounts' \in Seq(Account) /\ budget' \in Budget
      /\ accounts \in Seq(Account) /\ now \in Nat
  BY DEF Confirm, Resolving, Inv, TypeOK
<1>3. req[r].target \in Account
  BY <1>2 DEF Inv, LocalsOK, HandlerOK
<1>4. /\ w \in Writes /\ e.route \in Route /\ Step(route, e.route)
      /\ e.ok => Settled(e.route, accounts)
  BY EnsuredType
<1>5. "retry" \in PC \ (Resolving \union {"release_old", "lease_next"})
  BY DEF PC, Resolving
<1>6. CASE route' = e.route /\ (Goto(r, "retry") \/ Resolved(r, FALSE))
  <2>1. RouteStep
    BY <1>4, <1>6 DEF RouteStep
  <2>2. QED
    BY <1>2, <1>5, <1>6, <2>1, Goes, ResolvedGood
<1>7. CASE /\ SameRoute(e, req[r]) /\ route' = fail.route
           /\ GotoAfterMove(r, "retry", fail.advanced)
  <2>1. Settled(e.route, accounts)
    BY <1>4, <1>7 DEF SameRoute
  <2>2. fail.route \in Route /\ fail.advanced \in BOOLEAN /\ Forward(e.route, fail.route)
    BY <1>2, <1>3, <1>4, <2>1, RetireType
  <2>3. RouteStep
    BY <1>7, <2>2, EnsuredThenForward DEF RouteStep
  <2>4. QED
    BY <1>2, <1>5, <1>7, <2>2, <2>3, Goes
<1>8. QED
  BY <1>1, <1>6, <1>7

-----------------------------------------------------------------------------
(* The retry, and the successor of a failover.                             *)

LEMMA RetryFailedGood ==
    ASSUME Inv, NEW r \in Request, RetryFailed(r), UNCHANGED <<now, admin, leases>>,
           accounts' \in Seq(Account), budget' \in Budget, RouteStep
    PROVE  Good
<1> DEFINE pc == IF InFailover(r) THEN "terminal" ELSE "release"
<1>1. pc \in PC \ (Resolving \union {"release_old", "lease_next"})
  BY DEF PC, Resolving
<1>2. pc \in {"start", "call", "mark", "terminal", "success"} => req[r].account \in Account
  BY DEF InFailover, Inv, TypeOK, Handler, MaybeAccount
<1>3. Goto(r, pc)
  BY DEF RetryFailed
<1> HIDE DEF pc
<1>4. QED
  BY <1>1, <1>2, <1>3, Goes

LEMMA RetryGood ==
    ASSUME Inv, NEW r \in Request, Retry(r)
    PROVE  Good
<1>1. PICK w \in SomeWrites :
         LET e == Ensured(w)
         IN  \/ route' = e.route /\ RetryFailed(r)
             \/ route' = PersistActiveAccount(e.route, w.save) /\ RetryFailed(r)
             \/ /\ Resolvable(e)
                /\ route' = e.route
                /\ Snapshot(r, "revalidate", e.route)
  BY DEF Retry
<1> DEFINE e == Ensured(w)
<1>2. /\ UNCHANGED <<now, admin, leases>> /\ req[r].pc = "retry" /\ now \in Nat
      /\ accounts' \in Seq(Account) /\ budget' \in Budget
  BY DEF Retry, Inv, TypeOK
<1>3. w.save \in BOOLEAN /\ e.route \in Route /\ Step(route, e.route)
  BY EnsuredType
<1>4. CASE route' = e.route /\ RetryFailed(r)
  <2>1. RouteStep
    BY <1>3, <1>4 DEF RouteStep
  <2>2. QED
    BY <1>2, <1>4, <2>1, RetryFailedGood
<1>5. CASE route' = PersistActiveAccount(e.route, w.save) /\ RetryFailed(r)
  <2>1. /\ PersistActiveAccount(e.route, w.save) \in Route
        /\ Forward(e.route, PersistActiveAccount(e.route, w.save))
    BY <1>2, <1>3, PersistActiveAccountType
  <2>2. RouteStep
    BY <1>5, <2>1, EnsuredThenForward DEF RouteStep
  <2>3. QED
    BY <1>2, <1>5, <2>2, RetryFailedGood
<1>6. CASE Resolvable(e) /\ route' = e.route /\ Snapshot(r, "revalidate", e.route)
  <2>1. RouteStep
    BY <1>3, <1>6 DEF RouteStep
  <2>2. route'.activeAccountID \in Account
    BY <1>3, <1>6 DEF Resolvable, Route, MaybeAccount
  <2>3. Snapshot(r, "revalidate", route') /\ "revalidate" \in Resolving
    BY <1>6 DEF Resolving
  <2>4. QED
    BY <1>2, <2>1, <2>2, <2>3, SnapshotGood
<1>7. QED
  BY <1>1, <1>4, <1>5, <1>6

LEMMA SwitchToGood ==
    ASSUME Inv, NEW r \in Request, NEW target \in Account, SwitchTo(r, target),
           InFailover(r), UNCHANGED <<now, admin, leases>>,
           accounts' \in Seq(Account), budget' \in Budget, RouteStep
    PROVE  Good
<1>1. req[r].account \in Account
  BY DEF InFailover, Inv, TypeOK, Handler, MaybeAccount
<1>2. CASE r \in Agents
  <2> DEFINE c == Continue(r, "release_old")
             h == [c EXCEPT !.target = target]
  <2>1. c \in Handler /\ c.pc = "release_old" /\ c.account = req[r].account
    BY ContinueType DEF PC
  <2>2. Become(r, h)
    BY <1>2 DEF SwitchTo
  <2> HIDE DEF c
  <2>3. h \in Handler /\ h.pc = "release_old" /\ h.account = req[r].account
          /\ h.target = target
    BY <2>1 DEF Handler, MaybeAccount
  <2> HIDE DEF h
  <2>4. HandlerOK(h) /\ SnapshotOf(h) = NoLease
    BY <1>1, <2>3 DEF HandlerOK, SnapshotOf, Resolving
  <2>5. QED
    BY <2>2, <2>3, <2>4, HandlerGoes
<1>3. CASE r \notin Agents
  <2> DEFINE c == Continue(r, "start")
             h == [c EXCEPT !.account = target, !.switched = TRUE]
  <2>1. c \in Handler /\ c.pc = "start"
    BY ContinueType DEF PC
  <2>2. Become(r, h)
    BY <1>3 DEF SwitchTo
  <2> HIDE DEF c
  <2>3. h \in Handler /\ h.pc = "start" /\ h.account = target
    BY <2>1 DEF Handler, MaybeAccount
  <2> HIDE DEF h
  <2>4. HandlerOK(h) /\ SnapshotOf(h) = NoLease
    BY <2>3 DEF HandlerOK, SnapshotOf, Resolving
  <2>5. QED
    BY <2>2, <2>3, <2>4, HandlerGoes
<1>4. QED
  BY <1>2, <1>3

LEMMA ReconfirmGood ==
    ASSUME Inv, NEW r \in Request, Reconfirm(r)
    PROVE  Good
<1>1. PICK w \in SomeWrites :
         LET e == Ensured(w)
             p == PersistActiveAccount(
                      RecordFailure(e.route, req[r].target, req[r].valid), w.save)
         IN  \/ route' = e.route /\ RetryFailed(r)
             \/ route' = p /\ RetryFailed(r)
             \/ route' = e.route /\ Resolved(r, TRUE)
             \/ route' = e.route /\ InFailover(r) /\ SwitchTo(r, req[r].target)
  BY DEF Reconfirm
<1> DEFINE e == Ensured(w)
           f == RecordFailure(e.route, req[r].target, req[r].valid)
<1>2. /\ UNCHANGED <<now, admin, leases>> /\ req[r].pc \in Resolving /\ now \in Nat
      /\ accounts' \in Seq(Account) /\ budget' \in Budget
  BY DEF Reconfirm, Resolving, Inv, TypeOK
<1>3. req[r].target \in Account
  BY <1>2 DEF Inv, LocalsOK, HandlerOK
<1>4. w.save \in BOOLEAN /\ e.route \in Route /\ Step(route, e.route)
  BY EnsuredType
<1>5. CASE route' = e.route
  <2>1. RouteStep
    BY <1>4, <1>5 DEF RouteStep
  <2>2. \/ RetryFailed(r) \/ Resolved(r, TRUE)
        \/ InFailover(r) /\ SwitchTo(r, req[r].target)
    BY <1>1
  <2>3. QED
    BY <1>2, <1>3, <1>5, <2>1, <2>2, RetryFailedGood, ResolvedGood, SwitchToGood
<1>6. CASE route' = PersistActiveAccount(f, w.save) /\ RetryFailed(r)
  <2>1. f \in Route /\ SameIdentity(e.route, f)
    BY <1>2, <1>3, <1>4, RecordFailureType
  <2> HIDE DEF f
  <2>2. PersistActiveAccount(f, w.save) \in Route /\ Forward(f, PersistActiveAccount(f, w.save))
    BY <1>2, <1>4, <2>1, PersistActiveAccountType
  <2>3. Forward(e.route, PersistActiveAccount(f, w.save))
    BY <1>4, <2>1, <2>2, SameIdentityStep
  <2>4. RouteStep
    BY <1>6, <2>2, <2>3, EnsuredThenForward DEF RouteStep
  <2>5. QED
    BY <1>2, <1>6, <2>4, RetryFailedGood
<1>7. QED
  BY <1>1, <1>5, <1>6

-----------------------------------------------------------------------------
(* Upstream calls.                                                         *)

(* A handler that is not resolving goes on, and its lease is minted for    *)
(* the active account, given up, or kept.                                  *)
LEMMA LeaseGoes ==
    ASSUME Inv, NEW r \in Request, NEW h \in Handler, HandlerOK(h), Become(r, h),
           req[r].pc \notin Resolving, h.pc \notin Resolving,
           UNCHANGED <<now, admin>>,
           accounts' \in Seq(Account), budget' \in Budget, RouteStep,
           \/ UNCHANGED leases
           \/ Release(r)
           \/ /\ leases' = [leases EXCEPT ![r] = Current]
              /\ route'.activeAccountID \in Account
    PROVE  Good
<1>1. SnapshotOf(h) = NoLease /\ SnapshotOf(req[r]) = NoLease
  BY DEF SnapshotOf
<1>2. req' = [req EXCEPT ![r] = h]
  BY DEF Become
<1>3. CASE UNCHANGED leases
  BY <1>1, <1>3, HandlerGoes
<1>4. CASE Release(r)
  <2>1. leases' = [leases EXCEPT ![r] = NoLease]
    BY <1>4 DEF Release
  <2>2. QED
    BY <1>1, <1>2, <2>1, HandlerMoves DEF Good
<1>5. CASE leases' = [leases EXCEPT ![r] = Current] /\ route'.activeAccountID \in Account
  <2>1. Current \in Lease
    BY <1>5 DEF Current, Lease, RouteStep, Route
  <2>2. QED
    BY <1>1, <1>2, <1>5, <2>1, HandlerMoves DEF Good
<1>6. QED
  BY <1>3, <1>4, <1>5

LEMMA CallPC ==
    "call" \notin Resolving /\ "start" \notin Resolving /\ "lease_next" \notin Resolving
      /\ "release_old" \notin Resolving /\ "release" \notin Resolving
  BY DEF Resolving

LEMMA ContinueOK ==
    ASSUME Inv, NEW r \in Request, req[r].account \in Account,
           NEW pc \in PC \ (Resolving \union {"release_old", "lease_next"})
    PROVE  HandlerOK(Continue(r, pc)) /\ Continue(r, pc).pc \notin Resolving
  BY ContinueType DEF HandlerOK

LEMMA CallFailedGood ==
    ASSUME Inv, NEW r \in Request, NEW kind \in FailureKind, NEW visible \in BOOLEAN,
           CallFailed(r, kind, visible), req[r].pc \notin Resolving,
           req[r].account \in Account, UNCHANGED <<now, admin>>,
           accounts' \in Seq(Account), budget' \in Budget, RouteStep,
           UNCHANGED leases \/ Release(r)
    PROVE  Good
<1> DEFINE pc == IF IsUpstreamAccountFailure(kind) /\ ~req[r].switched /\ ~visible
                 THEN "mark" ELSE "terminal"
           c  == Continue(r, pc)
           h  == [c EXCEPT !.error = kind]
<1>1. pc \in PC \ (Resolving \union {"release_old", "lease_next"})
  BY DEF PC, Resolving
<1>2. Become(r, h)
  BY DEF CallFailed
<1> HIDE DEF pc
<1>3. c \in Handler /\ HandlerOK(c) /\ c.pc \notin Resolving
  BY <1>1, ContinueType, ContinueOK
<1> HIDE DEF c
<1>4. h \in Handler /\ h.pc = c.pc /\ h.account = c.account /\ h.target = c.target
  BY <1>3 DEF Handler, Outcome
<1> HIDE DEF h
<1>5. HandlerOK(h) /\ h.pc \notin Resolving
  BY <1>3, <1>4 DEF HandlerOK
<1>6. QED
  BY <1>2, <1>4, <1>5, LeaseGoes

(* A lease is minted for the active account.                               *)
LEMMA MintGood ==
    ASSUME Inv, NEW r \in Request, NEW e, NEW account \in Account,
           NEW h \in Handler, HandlerOK(h), Become(r, h),
           req[r].pc \notin Resolving, h.pc \notin Resolving,
           Mintable(e, account), Mint(r, e, account), route' = e.route,
           UNCHANGED <<now, admin>>,
           accounts' \in Seq(Account), budget' \in Budget, RouteStep
    PROVE  Good
<1>1. route'.activeAccountID = account
  BY DEF Mintable
<1>2. leases' = [leases EXCEPT ![r] = Current]
  BY <1>1 DEF Mint, Current
<1>3. QED
  BY <1>1, <1>2, LeaseGoes

LEMMA BeginGood ==
    ASSUME Inv, NEW r \in Request, Begin(r)
    PROVE  Good
<1>1. PICK w \in SomeWrites :
         LET e == Ensured(w)
         IN  /\ route' = e.route
             /\ \/ /\ Mintable(e, req[r].account)
                   /\ Mint(r, e, req[r].account)
                   /\ Goto(r, "call")
                \/ Goto(r, "release") /\ UNCHANGED leases
                \/ CallFailed(r, "inactive", FALSE) /\ UNCHANGED leases
  BY DEF Begin
<1> DEFINE e == Ensured(w)
<1>2. /\ UNCHANGED <<now, admin>> /\ req[r].pc = "start"
      /\ accounts' \in Seq(Account) /\ budget' \in Budget
  BY DEF Begin, Inv, TypeOK
<1>3. req[r].pc \notin Resolving
  BY <1>2, CallPC
<1>4. req[r].account \in Account
  BY <1>2 DEF Inv, LocalsOK, HandlerOK
<1>5. RouteStep
  BY <1>1, EnsuredType DEF RouteStep
<1>6. {"call", "release"} \subseteq PC \ (Resolving \union {"release_old", "lease_next"})
  BY DEF PC, Resolving
<1>7. CASE /\ Mintable(e, req[r].account) /\ Mint(r, e, req[r].account) /\ Goto(r, "call")
  <2>1. /\ Continue(r, "call") \in Handler /\ HandlerOK(Continue(r, "call"))
        /\ Continue(r, "call").pc \notin Resolving
    BY <1>4, <1>6, ContinueType, ContinueOK
  <2>2. Become(r, Continue(r, "call")) /\ route' = e.route
    BY <1>1, <1>7 DEF Goto
  <2>3. QED
    BY <1>2, <1>3, <1>4, <1>5, <1>7, <2>1, <2>2, MintGood
<1>8. CASE Goto(r, "release") /\ UNCHANGED leases
  BY <1>2, <1>5, <1>6, <1>8, Goes
<1>9. CASE CallFailed(r, "inactive", FALSE) /\ UNCHANGED leases
  <2>1. "inactive" \in FailureKind
    BY DEF FailureKind
  <2>2. QED
    BY <1>2, <1>3, <1>4, <1>5, <1>9, <2>1, CallFailedGood
<1>10. QED
  BY <1>1, <1>7, <1>8, <1>9

LEMMA CallEndsGood ==
    ASSUME Inv, NEW r \in Request, CallSucceeds(r) \/ CallAborted(r)
    PROVE  Good
<1>1. /\ UNCHANGED <<now, admin>> /\ req[r].pc = "call"
      /\ accounts' \in Seq(Account) /\ budget' \in Budget
      /\ UNCHANGED leases \/ Release(r)
  BY DEF CallSucceeds, CallAborted, EndCall, Inv, TypeOK
<1>2. req[r].account \in Account /\ req[r].pc \notin Resolving
  BY <1>1, CallPC DEF Inv, LocalsOK, HandlerOK
<1>3. RouteStep
  BY ForwardReflexive DEF CallSucceeds, CallAborted, RouteStep, Step, Inv, TypeOK
<1>4. PICK pc \in {"success", "release"} : Goto(r, pc)
  BY DEF CallSucceeds, CallAborted
<1>5. pc \in PC \ (Resolving \union {"release_old", "lease_next"})
  BY DEF PC, Resolving
<1>6. /\ Continue(r, pc) \in Handler /\ HandlerOK(Continue(r, pc))
      /\ Continue(r, pc).pc \notin Resolving
  BY <1>2, <1>5, ContinueType, ContinueOK
<1>7. QED
  BY <1>1, <1>2, <1>3, <1>4, <1>6, LeaseGoes DEF Goto

LEMMA CallFailsGood ==
    ASSUME Inv, NEW r \in Request, CallFails(r)
    PROVE  Good
<1>1. /\ UNCHANGED <<now, admin>> /\ req[r].pc = "call"
      /\ accounts' \in Seq(Account)
      /\ (UNCHANGED leases \/ Release(r))
  BY DEF CallFails, EndCall, Inv, TypeOK
<1>2. budget' \in Budget
  BY DEF CallFails, SpendFailure, Budget, Inv, TypeOK
<1>3. req[r].account \in Account /\ req[r].pc \notin Resolving
  BY <1>1, CallPC DEF Inv, LocalsOK, HandlerOK
<1>4. RouteStep
  BY ForwardReflexive DEF CallFails, RouteStep, Step, Inv, TypeOK
<1>5. PICK kind \in CallFailures, visible \in BOOLEAN : CallFailed(r, kind, visible)
  BY DEF CallFails
<1>6. kind \in FailureKind
  BY RequestAssumption
<1>7. QED
  BY <1>1, <1>2, <1>3, <1>4, <1>5, <1>6, CallFailedGood

LEMMA ContinuationFailsGood ==
    ASSUME Inv, NEW r \in Request, ContinuationFails(r)
    PROVE  Good
<1>1. PICK kind \in CallFailures, w \in SomeWrites :
         route' = RecordFailureWithoutAdvance(route, req[r].account, kind, w)
  BY DEF ContinuationFails
<1>2. /\ UNCHANGED <<now, admin, leases>> /\ req[r].pc = "call" /\ now \in Nat
      /\ accounts' \in Seq(Account) /\ route \in Route
  BY DEF ContinuationFails, Inv, TypeOK
<1>3. budget' \in Budget
  BY DEF ContinuationFails, SpendFailure, Budget, Inv, TypeOK
<1>4. req[r].account \in Account
  BY <1>2 DEF Inv, LocalsOK, HandlerOK
<1>5. RouteStep
  BY <1>1, <1>2, <1>4, EnsuredType, RecordFailureWithoutAdvanceType DEF RouteStep, Step
<1>6. "success" \in PC \ (Resolving \union {"release_old", "lease_next"}) /\ Goto(r, "success")
  BY DEF PC, Resolving, ContinuationFails
<1>7. QED
  BY <1>2, <1>3, <1>4, <1>5, <1>6, Goes

-----------------------------------------------------------------------------
(* Failover and the end of a request.                                      *)

LEMMA FailoverGood ==
    ASSUME Inv, NEW r \in Request, Failover(r)
    PROVE  Good
<1>1. PICK w \in SomeWrites :
         LET m == MarkAccountFailure(route, accounts, req[r].account, req[r].error, w)
         IN  /\ route' = m.route
             /\ GotoAfterMove(r, IF m.advanced THEN "retry" ELSE "terminal", m.advanced)
  BY DEF Failover
<1> DEFINE m == MarkAccountFailure(route, accounts, req[r].account, req[r].error, w)
<1>2. /\ UNCHANGED <<now, admin, leases>> /\ req[r].pc = "mark"
      /\ accounts' \in Seq(Account) /\ budget' \in Budget
      /\ accounts \in Seq(Account) /\ now \in Nat /\ route \in Route
  BY DEF Failover, Inv, TypeOK
<1>3. req[r].account \in Account
  BY <1>2 DEF Inv, LocalsOK, HandlerOK
<1>4. m.route \in Route /\ m.advanced \in BOOLEAN /\ Step(route, m.route)
  BY <1>2, <1>3, EnsuredType, MarkAccountFailureType
<1>5. RouteStep
  BY <1>1, <1>4 DEF RouteStep
<1>6. {"retry", "terminal"} \subseteq PC \ (Resolving \union {"release_old", "lease_next"})
  BY DEF PC, Resolving
<1>7. QED
  BY <1>1, <1>2, <1>3, <1>4, <1>5, <1>6, Goes

LEMMA ReleaseOldGood ==
    ASSUME Inv, NEW r \in Request, ReleaseOld(r)
    PROVE  Good
<1> DEFINE h == [req[r] EXCEPT !.pc = "lease_next"]
<1>1. req[r] \in Handler /\ HandlerOK(req[r]) /\ req[r].pc = "release_old"
  BY DEF ReleaseOld, Inv, TypeOK, LocalsOK
<1>2. /\ h \in Handler /\ h.pc = "lease_next" /\ h.account = req[r].account
      /\ h.target = req[r].target
  BY <1>1 DEF Handler, PC
<1>3. Become(r, h) /\ Release(r) /\ UNCHANGED <<now, admin>>
  BY DEF ReleaseOld
<1> HIDE DEF h
<1>4. HandlerOK(h)
  BY <1>1, <1>2 DEF HandlerOK
<1>5. RouteStep /\ accounts' \in Seq(Account) /\ budget' \in Budget
  BY ForwardReflexive DEF ReleaseOld, RouteStep, Step, Inv, TypeOK
<1>6. QED
  BY <1>1, <1>2, <1>3, <1>4, <1>5, CallPC, LeaseGoes

LEMMA LeaseNextGood ==
    ASSUME Inv, NEW r \in Request, LeaseNext(r)
    PROVE  Good
<1>1. PICK w \in SomeWrites :
         LET e == Ensured(w)
         IN  /\ route' = e.route
             /\ \/ /\ Mintable(e, req[r].target)
                   /\ Mint(r, e, req[r].target)
                   /\ Become(r, [Continue(r, "call") EXCEPT
                                   !.account = req[r].target, !.switched = TRUE])
                \/ Goto(r, "release") /\ UNCHANGED leases
  BY DEF LeaseNext
<1> DEFINE e == Ensured(w)
           c == Continue(r, "call")
           h == [c EXCEPT !.account = req[r].target, !.switched = TRUE]
<1>2. /\ UNCHANGED <<now, admin>> /\ req[r].pc = "lease_next"
      /\ accounts' \in Seq(Account) /\ budget' \in Budget
  BY DEF LeaseNext, Inv, TypeOK
<1>3. /\ req[r].pc \notin Resolving
      /\ req[r].target \in Account
  BY <1>2, CallPC DEF Inv, LocalsOK, HandlerOK
<1>4. RouteStep
  BY <1>1, EnsuredType DEF RouteStep
<1>5. CASE Mintable(e, req[r].target) /\ Mint(r, e, req[r].target) /\ Become(r, h)
  <2>1. c \in Handler /\ c.pc = "call"
    BY ContinueType DEF PC
  <2> HIDE DEF c
  <2>2. h \in Handler /\ h.pc = "call" /\ h.account = req[r].target
    BY <1>3, <2>1 DEF Handler, MaybeAccount
  <2> HIDE DEF h
  <2>3. HandlerOK(h) /\ h.pc \notin Resolving
    BY <1>3, <2>2, CallPC DEF HandlerOK, Resolving
  <2>4. route' = e.route
    BY <1>1
  <2>5. QED
    BY <1>2, <1>3, <1>4, <1>5, <2>2, <2>3, <2>4, MintGood
<1>6. CASE Goto(r, "release") /\ UNCHANGED leases
  <2>1. "release" \in PC \ (Resolving \union {"release_old", "lease_next"})
    BY DEF PC, Resolving
  <2>2. QED
    BY <1>2, <1>4, <1>6, <2>1, Goes
<1>7. QED
  BY <1>1, <1>5, <1>6

LEMMA TerminalGood ==
    ASSUME Inv, NEW r \in Request, Terminal(r)
    PROVE  Good
<1>1. PICK w \in SomeWrites :
         LET m == MarkAccountFailure(route, accounts, req[r].account, req[r].error, w)
             q == RecordFailureWithoutAdvance(route, req[r].account, req[r].error, w)
         IN  \/ route' = q /\ Goto(r, "release")
             \/ route' = m.route /\ GotoAfterMove(r, "release", m.advanced)
  BY DEF Terminal
<1> DEFINE m == MarkAccountFailure(route, accounts, req[r].account, req[r].error, w)
           q == RecordFailureWithoutAdvance(route, req[r].account, req[r].error, w)
<1>2. /\ UNCHANGED <<now, admin, leases>> /\ req[r].pc = "terminal"
      /\ accounts' \in Seq(Account) /\ budget' \in Budget
      /\ accounts \in Seq(Account) /\ now \in Nat /\ route \in Route
  BY DEF Terminal, Inv, TypeOK
<1>3. req[r].account \in Account
  BY <1>2 DEF Inv, LocalsOK, HandlerOK
<1>4. m.route \in Route /\ m.advanced \in BOOLEAN /\ Step(route, m.route)
  BY <1>2, <1>3, EnsuredType, MarkAccountFailureType
<1>5. q \in Route /\ Step(route, q)
  BY <1>2, <1>3, EnsuredType, RecordFailureWithoutAdvanceType DEF Step
<1>6. RouteStep
  BY <1>1, <1>4, <1>5 DEF RouteStep
<1>7. "release" \in PC \ (Resolving \union {"release_old", "lease_next"})
  BY DEF PC, Resolving
<1>8. QED
  BY <1>1, <1>2, <1>4, <1>6, <1>7, Goes

LEMMA IgnoreFailureGood ==
    ASSUME Inv, NEW r \in Request, IgnoreFailure(r)
    PROVE  Good
<1>1. PICK pc \in {"call", "release"} : Goto(r, pc)
  BY DEF IgnoreFailure
<1>2. pc \in PC \ (Resolving \union {"release_old", "lease_next"})
  BY DEF PC, Resolving
<1>3. RouteStep /\ accounts' \in Seq(Account) /\ budget' \in Budget
  BY ForwardReflexive DEF IgnoreFailure, RouteStep, Step, Inv, TypeOK
<1>4. UNCHANGED <<now, admin, leases>> /\ req[r].account \in Account
  BY DEF IgnoreFailure, Inv, LocalsOK, HandlerOK
<1>5. QED
  BY <1>1, <1>2, <1>3, <1>4, Goes

LEMMA SucceedGood ==
    ASSUME Inv, NEW r \in Request, Succeed(r)
    PROVE  Good
<1>1. PICK w \in SomeWrites :
         route' = MarkAccountSuccess(route, accounts, req[r].account, w)
  BY DEF Succeed
<1>2. /\ UNCHANGED <<now, admin, leases>> /\ req[r].pc = "success" /\ Goto(r, "release")
      /\ accounts' \in Seq(Account) /\ budget' \in Budget
      /\ accounts \in Seq(Account) /\ now \in Nat /\ route \in Route
  BY DEF Succeed, Inv, TypeOK
<1>3. req[r].account \in Account
  BY <1>2 DEF Inv, LocalsOK, HandlerOK
<1>4. RouteStep
  BY <1>1, <1>2, <1>3, EnsuredType, MarkAccountSuccessType DEF RouteStep
<1>5. "release" \in PC \ (Resolving \union {"release_old", "lease_next"})
  BY DEF PC, Resolving
<1>6. QED
  BY <1>2, <1>4, <1>5, Goes

LEMMA FinishGood ==
    ASSUME Inv, NEW r \in Request, Finish(r)
    PROVE  Good
<1>1. IdleHandler \in Handler /\ IdleHandler.pc = "idle"
  BY DEF IdleHandler, Handler, PC, MaybeAccount, Outcome
<1>2. HandlerOK(IdleHandler) /\ IdleHandler.pc \notin Resolving
  BY <1>1 DEF HandlerOK, Resolving
<1>3. RouteStep /\ accounts' \in Seq(Account) /\ budget' \in Budget
  BY ForwardReflexive DEF Finish, RouteStep, Step, Inv, TypeOK
<1>4. /\ req[r].pc = "release" /\ Become(r, IdleHandler) /\ Release(r)
      /\ UNCHANGED <<now, admin>>
  BY DEF Finish
<1>5. QED
  BY <1>1, <1>2, <1>3, <1>4, CallPC, LeaseGoes

LEMMA HandlerStepGood ==
    ASSUME Inv, NEW r \in Request, HandlerStep(r)
    PROVE  Good
  BY ResolveGood, ValidateGood, ConfirmGood, RetryGood, ReconfirmGood, BeginGood,
     CallEndsGood, CallFailsGood, ContinuationFailsGood, FailoverGood, ReleaseOldGood,
     LeaseNextGood, TerminalGood, IgnoreFailureGood, SucceedGood, FinishGood
     DEF HandlerStep

-----------------------------------------------------------------------------
(* Administration.                                                         *)

LEMMA AdminGoes ==
    ASSUME Inv, NEW a \in Admin, a.pc # "idle" => a.target \in Account, admin' = a,
           UNCHANGED <<req, leases>>, now' \in Nat,
           accounts' \in Seq(Account), budget' \in Budget, RouteStep,
           \/ SnapshotOf(a) \in {SnapshotOf(admin), NoLease}
           \/ SnapshotOf(a) = Current /\ route'.activeAccountID \in Account
    PROVE  Good
<1> USE RequestAssumption
<1> DEFINE c == <<Administrator, "snapshot">>
<1>1. Inv'
  BY DEF Inv, TypeOK, LocalsOK, RouteStep
<1>2. c \in Client /\ Grants[c] = SnapshotOf(admin) /\ Grants'[c] = SnapshotOf(a)
  BY DEF Client, Grants
<1>3. ASSUME NEW d \in Client, d # c PROVE Grants'[d] = Grants[d]
  BY <1>3 DEF Grants, Client
<1> HIDE DEF c
<1>4. Grants' = [Grants EXCEPT ![c] = SnapshotOf(a)]
  BY <1>2, <1>3, GrantsDomain, OneChange
<1>5. Promise!Settle
  BY <1>2, <1>4, OneGrantSettles
<1>6. QED
  BY <1>1, <1>5 DEF Good

(* The administrator's handler ends, or waits to begin.                    *)
LEMMA AdminRests ==
    ASSUME Inv, admin' = IdleAdmin \/ UNCHANGED admin,
           UNCHANGED <<req, leases>>, now' \in Nat,
           accounts' \in Seq(Account), budget' \in Budget, RouteStep
    PROVE  Good
<1>1. CASE admin' = IdleAdmin
  <2>1. IdleAdmin \in Admin /\ IdleAdmin.pc = "idle"
    BY DEF IdleAdmin, Admin, AdminPC, MaybeAccount, Outcome
  <2>2. SnapshotOf(IdleAdmin) = NoLease
    BY <2>1 DEF SnapshotOf, Resolving
  <2>3. QED
    BY <1>1, <2>1, <2>2, AdminGoes
<1>2. CASE UNCHANGED admin
  <2>1. admin \in Admin /\ (admin.pc # "idle" => admin.target \in Account)
    BY DEF Inv, TypeOK, LocalsOK
  <2>2. QED
    BY <1>2, <2>1, AdminGoes
<1>3. QED
  BY <1>1, <1>2

LEMMA SpendAdminType ==
    ASSUME Inv, SpendAdmin
    PROVE  budget' \in Budget /\ admin.pc = "idle" /\ SnapshotOf(admin) = NoLease
<1>1. budget \in Budget
  BY DEF Inv, TypeOK
<1>2. budget' \in Budget
  BY <1>1 DEF SpendAdmin, Budget
<1>3. admin.pc = "idle"
  BY DEF SpendAdmin
<1>4. QED
  BY <1>2, <1>3 DEF SnapshotOf, Resolving

LEMMA DeleteAccountGood ==
    ASSUME Inv, NEW id \in Account, DeleteAccount(id)
    PROVE  Good
<1> DEFINE after == Without(accounts, id)
<1>1. PICK w \in SomeWrites :
         \/ /\ Ensured(w).ok /\ accounts' = after
            /\ route' = ActivateNeighbour(Ensured(w).route, accounts, after, id, w.save)
         \/ accounts' = accounts /\ route' = Ensured(w).route
  BY DEF DeleteAccount
<1>2. /\ UNCHANGED <<now, req, leases, admin>> /\ budget' \in Budget
      /\ accounts \in Seq(Account) /\ now \in Nat
  BY SpendAdminType DEF DeleteAccount, Inv, TypeOK
<1>3. after \in Seq(Account)
  BY <1>2, WithoutIsList
<1> HIDE DEF after
<1> DEFINE e == Ensured(w).route
<1>4. /\ w.save \in BOOLEAN /\ e \in Route /\ Step(route, e)
      /\ Ensured(w).ok => Settled(e, accounts)
  BY EnsuredType
<1>5. CASE /\ Ensured(w).ok /\ accounts' = after
           /\ route' = ActivateNeighbour(e, accounts, after, id, w.save)
  <2>1. route' \in Route /\ Forward(e, route')
    BY <1>2, <1>3, <1>4, <1>5, ActivateNeighbourType
  <2>2. RouteStep
    BY <2>1, EnsuredThenForward DEF RouteStep
  <2>3. QED
    BY <1>2, <1>3, <1>5, <2>2, AdminRests
<1>6. CASE accounts' = accounts /\ route' = e
  <2>1. RouteStep
    BY <1>4, <1>6 DEF RouteStep
  <2>2. QED
    BY <1>2, <1>6, <2>1, AdminRests
<1>7. QED
  BY <1>1, <1>5, <1>6

LEMMA LoginGood ==
    ASSUME Inv, NEW id \in Account, Login(id)
    PROVE  Good
<1> DEFINE a == [admin EXCEPT !.pc = "clear", !.target = id]
<1>1. admin \in Admin /\ accounts \in Seq(Account) /\ now \in Nat
  BY DEF Inv, TypeOK
<1>2. a \in Admin /\ a.pc = "clear" /\ a.target = id
  BY <1>1 DEF Admin, AdminPC, MaybeAccount
<1>3. admin' = a /\ UNCHANGED <<route, now, req, leases>> /\ budget' \in Budget
  BY SpendAdminType DEF Login
<1>4. accounts' \in Seq(Account)
  BY <1>1 DEF Login
<1>5. RouteStep
  BY <1>3, ForwardReflexive DEF RouteStep, Step, Inv, TypeOK
<1> HIDE DEF a
<1>6. SnapshotOf(a) = NoLease
  BY <1>2 DEF SnapshotOf, Resolving
<1>7. QED
  BY <1>1, <1>2, <1>3, <1>4, <1>5, <1>6, AdminGoes

LEMMA ClearAuthFailureGood ==
    ASSUME Inv, ClearAuthFailureAfterLogin
    PROVE  Good
<1> DEFINE cleared == [route EXCEPT !.health = ClearAuthFailure(@, admin.target)]
           a       == [admin EXCEPT !.pc = "sync"]
<1>1. PICK w \in SomeWrites :
         /\ route' = PersistActiveAccount(cleared, w.save)
         /\ admin' = IF w.save THEN a ELSE IdleAdmin
  BY DEF ClearAuthFailureAfterLogin
<1>2. /\ UNCHANGED <<now, req, leases>> /\ accounts' \in Seq(Account)
      /\ budget' \in Budget /\ route \in Route /\ now \in Nat
  BY DEF ClearAuthFailureAfterLogin, Inv, TypeOK
<1>3. /\ admin \in Admin /\ admin.pc = "clear" /\ admin.target \in Account
  BY DEF ClearAuthFailureAfterLogin, Inv, TypeOK, LocalsOK
<1>4. a \in Admin /\ a.pc = "sync" /\ a.target \in Account
  BY <1>3 DEF Admin, AdminPC
<1>5. ClearAuthFailure(route.health, admin.target) \in Health
  BY <1>2, ClearAuthFailureType DEF Route
<1>6. cleared \in Route /\ SameIdentity(route, cleared)
  BY <1>2, <1>5 DEF Route, SameIdentity
<1> HIDE DEF cleared, a
<1>7. route' \in Route /\ Forward(cleared, route')
  BY <1>1, <1>2, <1>6, EnsuredType, PersistActiveAccountType
<1>8. RouteStep
  BY <1>2, <1>6, <1>7, SameIdentityStep DEF RouteStep, Step
<1>9. SnapshotOf(a) = NoLease
  BY <1>4 DEF SnapshotOf, Resolving
<1>10. CASE admin' = a
  BY <1>2, <1>4, <1>8, <1>9, <1>10, AdminGoes
<1>11. CASE admin' = IdleAdmin
  BY <1>2, <1>8, <1>11, AdminRests
<1>12. QED
  BY <1>1, <1>10, <1>11

LEMMA SyncActiveAccountGood ==
    ASSUME Inv, SyncActiveAccount \/ ReadActiveAccount
    PROVE  Good
<1>1. PICK w \in SomeWrites : route' = Ensured(w).route
  BY DEF SyncActiveAccount, ReadActiveAccount
<1>2. RouteStep
  BY <1>1, EnsuredType DEF RouteStep
<1>3. /\ UNCHANGED <<now, req, leases>> /\ now' \in Nat
      /\ accounts' \in Seq(Account) /\ budget' \in Budget
      /\ admin' = IdleAdmin \/ UNCHANGED admin
  BY DEF SyncActiveAccount, ReadActiveAccount, Inv, TypeOK
<1>4. QED
  BY <1>2, <1>3, AdminRests

LEMMA BeginRefreshGood ==
    ASSUME Inv, NEW id \in Account, BeginRefresh(id)
    PROVE  Good
<1>1. PICK w \in SomeWrites :
         /\ route' = Ensured(w).route
         /\ \/ /\ Ensured(w).route.activeAccountID = id
               /\ admin' = [admin EXCEPT !.pc = "validate", !.target = id,
                                         !.generation = Ensured(w).route.generation]
            \/ UNCHANGED admin
  BY DEF BeginRefresh
<1> DEFINE a == [admin EXCEPT !.pc = "validate", !.target = id,
                              !.generation = route'.generation]
<1>2. RouteStep
  BY <1>1, EnsuredType DEF RouteStep
<1>3. /\ UNCHANGED <<now, req, leases>> /\ now' \in Nat
      /\ accounts' \in Seq(Account) /\ budget' \in Budget
  BY SpendAdminType DEF BeginRefresh, Inv, TypeOK
<1>4. CASE route'.activeAccountID = id /\ admin' = a
  <2>1. admin \in Admin /\ route'.generation \in Nat
    BY <1>2 DEF Inv, TypeOK, RouteStep, Route
  <2>2. /\ a \in Admin /\ a.pc = "validate" /\ a.target = id
        /\ a.generation = route'.generation
    BY <2>1 DEF Admin, AdminPC, MaybeAccount
  <2> HIDE DEF a
  <2>3. SnapshotOf(a) = Current
    BY <1>4, <2>2 DEF SnapshotOf, Resolving, Current
  <2>4. QED
    BY <1>2, <1>3, <1>4, <2>2, <2>3, AdminGoes
<1>5. CASE UNCHANGED admin
  BY <1>2, <1>3, <1>5, AdminRests
<1>6. QED
  BY <1>1, <1>4, <1>5

LEMMA ValidateRefreshGood ==
    ASSUME Inv, ValidateRefresh
    PROVE  Good
<1>1. PICK outcome \in Outcome :
         /\ EnsureValid(admin.target, outcome)
         /\ admin' = [admin EXCEPT !.pc = "confirm", !.valid = outcome]
  BY DEF ValidateRefresh
<1> DEFINE a == [admin EXCEPT !.pc = "confirm", !.valid = outcome]
<1>2. /\ admin \in Admin /\ admin.pc = "validate" /\ admin.target \in Account
  BY DEF ValidateRefresh, Inv, TypeOK, LocalsOK
<1>3. /\ a \in Admin /\ a.pc = "confirm" /\ a.target = admin.target
      /\ a.generation = admin.generation
  BY <1>2 DEF Admin, AdminPC
<1>4. admin' = a
  BY <1>1
<1> HIDE DEF a
<1>5. accounts' \in Seq(Account) /\ budget' \in Budget
  BY <1>1, <1>2, EnsureValidType
<1>6. SnapshotOf(a) = SnapshotOf(admin)
  BY <1>2, <1>3 DEF SnapshotOf, Resolving
<1>7. RouteStep /\ UNCHANGED <<now, req, leases>> /\ now' \in Nat
  BY ForwardReflexive DEF ValidateRefresh, RouteStep, Step, Inv, TypeOK
<1>8. QED
  BY <1>2, <1>3, <1>4, <1>5, <1>6, <1>7, AdminGoes

LEMMA ConfirmRefreshGood ==
    ASSUME Inv, ConfirmRefresh
    PROVE  Good
<1>1. PICK w \in SomeWrites :
         LET e == Ensured(w)
         IN  \/ route' = e.route
             \/ /\ e.ok
                /\ \E again \in SomeWrites :
                     route' = RetireAfterRefresh(e.route, accounts, admin.target,
                                                 admin.valid, w, again.save)
             \/ route' = PersistActiveAccount(
                    [e.route EXCEPT !.health = ClearAuthFailure(@, admin.target)], w.save)
  BY DEF ConfirmRefresh, SameRoute
<1>2. /\ UNCHANGED <<now, req, leases>> /\ admin' = IdleAdmin
      /\ accounts' \in Seq(Account) /\ accounts \in Seq(Account)
      /\ budget' \in Budget /\ now \in Nat /\ now' \in Nat
  BY DEF ConfirmRefresh, Inv, TypeOK
<1>3. admin.target \in Account
  BY DEF ConfirmRefresh, Inv, LocalsOK
<1> DEFINE e       == Ensured(w)
           cleared == [e.route EXCEPT !.health = ClearAuthFailure(@, admin.target)]
<1>4. /\ w \in Writes /\ w.save \in BOOLEAN
      /\ e.route \in Route /\ Step(route, e.route)
      /\ e.ok => Settled(e.route, accounts)
  BY EnsuredType
<1>5. RouteStep
  <2>1. CASE route' = e.route
    BY <1>4, <2>1 DEF RouteStep
  <2>2. CASE e.ok /\ \E again \in SomeWrites :
                route' = RetireAfterRefresh(e.route, accounts, admin.target,
                                            admin.valid, w, again.save)
    <3>1. PICK again \in SomeWrites :
             route' = RetireAfterRefresh(e.route, accounts, admin.target,
                                         admin.valid, w, again.save)
      BY <2>2
    <3>2. again.save \in BOOLEAN
      BY EnsuredType
    <3>3. route' \in Route /\ Forward(e.route, route')
      BY <1>2, <1>3, <1>4, <2>2, <3>1, <3>2, RetireType
    <3>4. QED
      BY <3>3, EnsuredThenForward DEF RouteStep
  <2>3. CASE route' = PersistActiveAccount(cleared, w.save)
    <3>1. ClearAuthFailure(e.route.health, admin.target) \in Health
      BY <1>4, ClearAuthFailureType DEF Route
    <3> HIDE DEF e
    <3>2. cleared \in Route /\ SameIdentity(e.route, cleared)
      BY <1>4, <3>1 DEF Route, SameIdentity
    <3> HIDE DEF cleared
    <3>3. route' \in Route /\ Forward(cleared, route')
      BY <1>2, <1>4, <2>3, <3>2, PersistActiveAccountType
    <3>4. Forward(e.route, route')
      BY <1>4, <3>2, <3>3, SameIdentityStep
    <3>5. QED
      BY <3>3, <3>4, EnsuredThenForward DEF RouteStep, e
  <2>4. QED
    BY <1>1, <2>1, <2>2, <2>3
<1>6. QED
  BY <1>2, <1>5, AdminRests

LEMMA AdminStepGood ==
    ASSUME Inv, AdminStep
    PROVE  Good
  BY DeleteAccountGood, LoginGood, ClearAuthFailureGood, SyncActiveAccountGood,
     BeginRefreshGood, ValidateRefreshGood, ConfirmRefreshGood DEF AdminStep

-----------------------------------------------------------------------------
(* The environment.                                                        *)

LEMMA TickGood ==
    ASSUME Inv, Tick
    PROVE  Good
<1>1. RouteStep
  BY ForwardReflexive DEF Tick, RouteStep, Step, Inv, TypeOK
<1>2. /\ UNCHANGED <<req, leases>> /\ now' \in Nat /\ UNCHANGED admin
      /\ accounts' \in Seq(Account) /\ budget' \in Budget
  BY DEF Tick, Inv, TypeOK
<1>3. QED
  BY <1>1, <1>2, AdminRests

LEMMA IdleType ==
    /\ [r \in Request |-> IdleHandler] \in [Request -> Handler]
    /\ IdleAdmin \in Admin
    /\ HandlerOK(IdleHandler) /\ IdleAdmin.pc = "idle"
    /\ SnapshotOf(IdleHandler) = NoLease /\ SnapshotOf(IdleAdmin) = NoLease
<1>1. /\ IdleHandler \in Handler /\ IdleHandler.pc = "idle"
      /\ IdleAdmin \in Admin /\ IdleAdmin.pc = "idle"
  BY DEF IdleHandler, Handler, PC, IdleAdmin, Admin, AdminPC, MaybeAccount, Outcome
<1>2. QED
  BY <1>1 DEF HandlerOK, SnapshotOf, Resolving

(* The process forgets everything but its files.                           *)
LEMMA RestartGood ==
    ASSUME Inv, Restart
    PROVE  Inv' /\ Promise!Crash
<1>1. /\ route \in Route /\ accounts \in Seq(Account) /\ now \in Nat
      /\ budget \in Budget
  BY DEF Inv, TypeOK
<1>2. /\ req' = [r \in Request |-> IdleHandler] /\ leases' = [r \in Request |-> NoLease]
      /\ admin' = IdleAdmin /\ UNCHANGED <<accounts, now>>
      /\ route' = InitializeAccountRouter(route.file, accounts)
  BY DEF Restart
<1>3. budget' \in Budget
  BY <1>1 DEF Restart, Budget
<1> DEFINE R == Reread(route.file)
<1>4. route.file \in RouteFile
  BY <1>1 DEF Route
<1>5. R \in Route /\ route' \in Route /\ Step(R, route')
  BY <1>1, <1>2, <1>4, InitializeAccountRouterType
<1>6. Inv'
  BY <1>1, <1>2, <1>3, <1>5, IdleType DEF Inv, TypeOK, LocalsOK
<1>7. /\ R.activeAccountID = route.file.activeAccountID
      /\ R.generation = route.file.generation /\ R.file = route.file
  BY DEF Reread
<1> HIDE DEF R
<1>8. Promise!Reroute(route.file.activeAccountID, route.file.generation, Rec(route))
  <2>1. /\ R.generation \in Nat /\ route'.generation \in Nat
        /\ route'.activeAccountID \in Account \union {NoAccount}
    BY <1>5 DEF Route, MaybeAccount
  <2>2. CASE Forward(R, route')
    BY <1>7, <2>1, <2>2 DEF Forward, Key, Rec, Promise!Reroute, Promise!Holder
  <2>3. CASE Forward(Vacated(R), route')
    <3>1. /\ Vacated(R).activeAccountID = NoAccount
          /\ Vacated(R).generation = R.generation /\ Vacated(R).file = R.file
      BY <1>5 DEF Vacated, Route
    <3>2. QED
      BY <1>7, <2>1, <2>3, <3>1 DEF Forward, Key, Rec, Promise!Reroute, Promise!Holder
  <2>4. QED
    BY <1>5, <2>2, <2>3 DEF Step
<1>9. Grants' = [c \in Client |-> NoLease]
  BY <1>2, IdleType DEF Grants, Client
<1>10. QED
  BY <1>6, <1>8, <1>9 DEF Promise!Crash, Promise!None, NoLease, Rec

-----------------------------------------------------------------------------
(* The theorems.                                                           *)

LEMMA InitGood == Init => Inv /\ Promise!Init
<1> SUFFICES ASSUME Init PROVE Inv /\ Promise!Init
  OBVIOUS
<1> USE RequestAssumption
<1> DEFINE R == Reread(NoFile)
<1>1. /\ now \in Nat /\ accounts \in Seq(Account)
      /\ route = InitializeAccountRouter(NoFile, accounts)
  BY DEF Init
<1>2. NoFile \in RouteFile
  BY NewHealthType DEF NoFile, RouteFile, MaybeAccount
<1>3. R \in Route /\ route \in Route /\ Step(R, route)
  BY <1>1, <1>2, InitializeAccountRouterType
<1>4. budget \in Budget
  BY DEF Init, Budget
<1>5. Inv
  BY <1>1, <1>3, <1>4, IdleType DEF Init, Inv, TypeOK, LocalsOK
<1>6. Key(R) = Rec(R) /\ Key(Vacated(R)) = Key(R) /\ Rec(Vacated(R)) = Rec(R)
  BY <1>3 DEF Reread, NoFile, Key, Rec, Vacated, Route
<1> HIDE DEF R
<1>7. Rec(route) = Key(route)
  BY <1>3, <1>6 DEF Step, Forward
<1>8. Grants = [c \in Client |-> NoLease]
  BY IdleType DEF Init, Grants, Client
<1>9. route.activeAccountID \in Account \union {NoAccount} /\ route.generation \in Nat
  BY <1>3 DEF Route, MaybeAccount
<1>10. QED
  BY <1>5, <1>7, <1>8, <1>9 DEF Promise!Init, Promise!Holder, Promise!None, NoLease, Key, Rec

(* Every step keeps the invariant and is a step, or a stutter, of the      *)
(* abstract router.                                                        *)
LEMMA StepGood == Inv /\ [Next]_vars => Inv' /\ [Promise!Next]_(Promise!vars)
<1> SUFFICES ASSUME Inv, [Next]_vars
             PROVE  Inv' /\ [Promise!Next]_(Promise!vars)
  OBVIOUS
<1>1. CASE Restart
  BY <1>1, RestartGood DEF Promise!Next
<1>2. CASE UNCHANGED vars
  <2>1. Inv'
    BY <1>2 DEF vars, Inv, TypeOK, LocalsOK
  <2>2. Grants' = Grants
    BY <1>2 DEF vars, Grants
  <2>3. QED
    BY <1>2, <2>1, <2>2 DEF vars, Promise!vars
<1>3. CASE Good
  <2>1. route \in Route
    BY DEF Inv, TypeOK
  <2>2. Promise!Reroute(route.activeAccountID, route.generation, Rec(route))
    BY <1>3, <2>1, StepIsReroute DEF Good
  <2>3. QED
    BY <1>3, <2>2 DEF Good, Promise!Next, Rec
<1>4. QED
  BY <1>1, <1>2, <1>3, ArriveGood, HandlerStepGood, AdminStepGood,
     SyncActiveAccountGood, TickGood DEF Next

LEMMA SpecKeepsInv == Spec => []Inv
<1>1. Init => Inv
  BY InitGood
<1>2. Inv /\ [Next]_vars => Inv'
  BY StepGood
<1>3. QED
  BY <1>1, <1>2, PTL DEF Spec

(* The state of the router, of its file and of every handler keeps its     *)
(* type whatever happens.                                                  *)
THEOREM TypesAreKept == Spec => []TypeOK
<1>1. Inv => TypeOK
  BY DEF Inv
<1>2. QED
  BY <1>1, SpecKeepsInv, PTL

(* Handlers that interleave at every unlock, failing writes, deletions,    *)
(* logins and crashes included, the router is a single active account      *)
(* whose generations are never reused.                                     *)
THEOREM RouterKeepsItsPromise == Spec => ImplementsSingleActiveAccount
<1>1. Init => Promise!Init
  BY InitGood
<1>2. Inv /\ [Next]_vars => [Promise!Next]_(Promise!vars)
  BY StepGood
<1>3. QED
  BY <1>1, <1>2, SpecKeepsInv, PTL DEF Spec, ImplementsSingleActiveAccount, Promise!Spec

(* The promise is safe by itself: the record never falls behind by an      *)
(* epoch, which is what makes the restart after a crash safe.              *)
LEMMA PromiseStartsSafe == Promise!Init => Promise!IInv
  BY DEF Promise!Init, Promise!IInv, Promise!TypeOK, Promise!EpochNamesOneAccount, Rec

LEMMA RerouteIsSafe ==
    ASSUME NEW h \in Promise!Holder, NEW e \in Nat,
           NEW rec \in [holder : Promise!Holder, epoch : Nat], rec.epoch = e,
           Promise!Reroute(h, e, rec)
    PROVE  /\ route'.activeAccountID \in Promise!Holder /\ route'.generation \in Nat
           /\ Rec(route)' \in [holder : Promise!Holder, epoch : Nat] /\ Rec(route)'.epoch = route'.generation
           /\ route'.generation >= e
           /\ route'.generation = e => route'.activeAccountID \in {h, NoAccount}
  BY DEF Promise!Reroute, Promise!Holder, Rec

LEMMA PromiseStaysSafe ==
    Promise!IInv /\ [Promise!Next]_(Promise!vars) =>
        Promise!IInv' /\ route'.generation >= route.generation
<1> SUFFICES ASSUME Promise!IInv, [Promise!Next]_(Promise!vars)
             PROVE  Promise!IInv' /\ route'.generation >= route.generation
  OBVIOUS
<1>1. CASE Promise!Reroute(route.activeAccountID, route.generation, Rec(route)) /\ Promise!Settle
  <2>1. /\ route'.activeAccountID \in Promise!Holder /\ route'.generation \in Nat
        /\ Rec(route)' \in [holder : Promise!Holder, epoch : Nat] /\ Rec(route)'.epoch = route'.generation
        /\ route'.generation >= route.generation
        /\ route'.generation = route.generation => route'.activeAccountID \in {route.activeAccountID, NoAccount}
    BY <1>1, RerouteIsSafe DEF Promise!IInv, Promise!TypeOK, Rec
  <2>2. Grants \in [Client -> Promise!Grant \union {Promise!None}]
    BY DEF Promise!IInv, Promise!TypeOK, Rec
  <2>3. Grants' \in [Client -> Promise!Grant \union {Promise!None}]
    BY <1>1, <2>1, <2>2 DEF Promise!Settle, Promise!Grant, Promise!Holder, Rec
  <2> DEFINE New == [account |-> route'.activeAccountID, generation |-> route'.generation]
  <2>4. ASSUME NEW c \in Client
        PROVE  Grants'[c] \in {Grants[c], Promise!None}
                  \/ (route'.activeAccountID # NoAccount /\ Grants'[c] = New)
    BY <1>1, <2>2 DEF Promise!Settle
  <2>5. ASSUME NEW c \in Client, Grants'[c] # Promise!None
        PROVE  /\ Grants'[c].generation \in Nat /\ Grants'[c].generation <= route'.generation
               /\ (Grants'[c].generation = route'.generation /\ route'.activeAccountID # NoAccount)
                     => Grants'[c].account = route'.activeAccountID
    <3>1. CASE Grants'[c] = Grants[c]
      <4>1. Grants[c] \in Promise!Grant
        BY <2>2, <2>5, <3>1
      <4>2. /\ Grants[c].generation \in Nat /\ Grants[c].generation <= route.generation
            /\ (Grants[c].generation = route.generation /\ route.activeAccountID # NoAccount)
                  => Grants[c].account = route.activeAccountID
        BY <2>5, <3>1, <4>1 DEF Promise!IInv, Promise!EpochNamesOneAccount, Promise!Grant
      <4>3. route.generation \in Nat
        BY DEF Promise!IInv, Promise!TypeOK, Rec
      <4>4. QED
        BY <2>1, <3>1, <4>2, <4>3
    <3>2. CASE Grants'[c] = New
      BY <2>1, <3>2
    <3>3. QED
      BY <2>4, <2>5, <3>1, <3>2
  <2>6. ASSUME NEW c \in Client, NEW d \in Client,
               Grants'[c] # Promise!None, Grants'[d] # Promise!None,
               Grants'[c].generation = Grants'[d].generation
        PROVE  Grants'[c].account = Grants'[d].account
    BY <2>1, <2>2, <2>4, <2>5, <2>6 DEF Promise!IInv, Promise!EpochNamesOneAccount, Promise!Grant
  <2>7. Promise!EpochNamesOneAccount'
    BY <2>5, <2>6 DEF Promise!EpochNamesOneAccount, Rec
  <2>8. QED
    BY <2>1, <2>3, <2>7 DEF Promise!IInv, Promise!TypeOK, Rec
<1>2. CASE Promise!Crash
  <2>1. /\ route'.activeAccountID \in Promise!Holder /\ route'.generation \in Nat
        /\ Rec(route)' \in [holder : Promise!Holder, epoch : Nat] /\ Rec(route)'.epoch = route'.generation
        /\ route'.generation >= route.generation
    BY <1>2, RerouteIsSafe DEF Promise!Crash, Promise!IInv, Promise!TypeOK, Rec
  <2>2. Grants' = [c \in Client |-> Promise!None]
    BY <1>2 DEF Promise!Crash
  <2>3. QED
    BY <2>1, <2>2 DEF Promise!IInv, Promise!TypeOK, Promise!EpochNamesOneAccount, Rec
<1>3. CASE UNCHANGED Promise!vars
  BY <1>3 DEF Promise!vars, Promise!IInv, Promise!TypeOK, Promise!EpochNamesOneAccount, Rec
<1>4. QED
  BY <1>1, <1>2, <1>3 DEF Promise!Next, Rec

LEMMA PromiseIsSafe == Spec => []Promise!IInv
<1>1. Promise!Init => Promise!IInv
  BY PromiseStartsSafe
<1>2. Promise!IInv /\ [Promise!Next]_(Promise!vars) => Promise!IInv'
  BY PromiseStaysSafe
<1>3. QED
  BY <1>1, <1>2, RouterKeepsItsPromise, PTL DEF ImplementsSingleActiveAccount, Promise!Spec

(* Hence no two leases or snapshots of one generation name different       *)
(* accounts, and none of the current generation names an account that is   *)
(* not the active one.                                                     *)
THEOREM GenerationsNameOneAccount == Spec => []EpochNamesOneAccount
<1>1. Promise!IInv => EpochNamesOneAccount
  BY DEF Promise!IInv, EpochNamesOneAccount
<1>2. QED
  BY <1>1, PromiseIsSafe, PTL

(* No rotation, no failed write of the route file and no crash takes the   *)
(* router back to an earlier generation, so that whatever a lease or a     *)
(* snapshot remembers of one stays distinguishable from the present.       *)
THEOREM GenerationsDoNotFallBack == Spec => Promise!EpochNeverFallsBack
<1>1. Promise!IInv /\ [Promise!Next]_(Promise!vars)
         => [(route.generation)' >= route.generation]_(Promise!vars)
  BY PromiseStaysSafe
<1>2. QED
  BY <1>1, PromiseIsSafe, RouterKeepsItsPromise, PTL
     DEF ImplementsSingleActiveAccount, Promise!Spec, Promise!EpochNeverFallsBack

-----------------------------------------------------------------------------
(***************************************************************************)
(* Calls and leases: every upstream call runs under its own handler's      *)
(* lease of the account it will charge.                                    *)
(***************************************************************************)

(* Where a handler holds no lease, or one that is about to be given up.    *)
Unbound == {"idle", "start", "lease_next", "release"}
Bound   == PC \ Unbound

(* A turn that has an account keeps that account's lease from its first    *)
(* call to its end, through failures, the search for a successor and the   *)
(* calls that follow an ignored failure.                                   *)
Covered(r, h, l) ==
    /\ h.pc = "call" => l.account = h.account
    /\ h.pc = "idle" => l = NoLease
    /\ (r \in Agents /\ h.account # NoAccount /\ h.pc \in Bound) => l.account = h.account

LeasesOK == \A r \in Request : Covered(r, req[r], leases[r])

LInv == Inv /\ LeasesOK

-----------------------------------------------------------------------------
(* One handler moves.                                                      *)

LEMMA OneHandlerCovered ==
    ASSUME LInv, NEW r \in Request, NEW h, Become(r, h), Covered(r, h, leases'[r]),
           \A s \in Request \ {r} : leases'[s] = leases[s]
    PROVE  LeasesOK'
<1>1. req'[r] = h /\ \A s \in Request \ {r} : req'[s] = req[s]
  BY DEF LInv, Inv, TypeOK, Become
<1>2. ASSUME NEW s \in Request
      PROVE  Covered(s, req'[s], leases'[s])
  <2>1. CASE s = r
    BY <1>1, <2>1
  <2>2. CASE s # r
    BY <1>1, <2>2 DEF LInv, LeasesOK
  <2>3. QED
    BY <2>1, <2>2
<1>3. QED
  BY <1>2 DEF LeasesOK

(* The lease stays with the handler.                                       *)
LEMMA LeaseKept ==
    ASSUME LInv, NEW r \in Request, NEW h, Become(r, h), UNCHANGED leases,
           \/ h.pc \in {"start", "lease_next", "release"}
           \/ /\ h.pc \in Bound \ {"call"} /\ req[r].pc \in Bound
              /\ h.account = req[r].account
           \/ h.pc \in Bound \ {"call"} /\ (h.account = NoAccount \/ r \notin Agents)
           \/ /\ h.pc = "call" /\ req[r].pc \in Bound /\ r \in Agents
              /\ h.account = req[r].account /\ h.account # NoAccount
    PROVE  LeasesOK'
<1>1. Covered(r, req[r], leases[r])
  BY DEF LInv, LeasesOK
<1>2. Covered(r, h, leases[r])
  BY <1>1 DEF Covered, Bound, Unbound, PC
<1>3. QED
  BY <1>2, OneHandlerCovered

LEMMA MovesTo ==
    ASSUME LInv, NEW r \in Request, NEW pc \in PC,
           Goto(r, pc) \/ \E advanced : GotoAfterMove(r, pc, advanced)
    PROVE  \E h : Become(r, h) /\ h.pc = pc /\ h.account = req[r].account
<1> DEFINE c == Continue(r, pc)
<1>1. c \in Handler /\ c.pc = pc /\ c.account = req[r].account
  BY ContinueType DEF LInv
<1>2. CASE Goto(r, pc)
  BY <1>1, <1>2 DEF Goto
<1>3. ASSUME NEW advanced, GotoAfterMove(r, pc, advanced)
      PROVE  \E h : Become(r, h) /\ h.pc = pc /\ h.account = req[r].account
  <2> DEFINE h == [c EXCEPT !.moves = IF advanced THEN @ + 1 ELSE @]
  <2>1. Become(r, h)
    BY <1>3 DEF GotoAfterMove
  <2> HIDE DEF c
  <2>2. h.pc = pc /\ h.account = req[r].account
    BY <1>1 DEF Handler
  <2>3. QED
    BY <2>1, <2>2
<1>4. QED
  BY <1>2, <1>3

(* A handler goes on, keeps its account and its lease, and makes no call.  *)
LEMMA GoesOn ==
    ASSUME LInv, NEW r \in Request, NEW pc \in PC,
           Goto(r, pc) \/ \E advanced : GotoAfterMove(r, pc, advanced),
           UNCHANGED leases,
           pc = "release" \/ (pc \in Bound \ {"call"} /\ req[r].pc \in Bound)
    PROVE  LeasesOK'
BY MovesTo, LeaseKept

LEMMA TakesSnapshot ==
    ASSUME LInv, NEW r \in Request, NEW pc \in Bound \ {"call"}, NEW R, Snapshot(r, pc, R),
           UNCHANGED leases, req[r].pc \in Bound
    PROVE  LeasesOK'
<1> DEFINE h == [req[r] EXCEPT !.pc = pc, !.target = R.activeAccountID,
                               !.generation = R.generation]
<1>1. Become(r, h)
  BY DEF Snapshot
<1>2. h.pc = pc /\ h.account = req[r].account
  BY DEF LInv, Inv, TypeOK, Handler
<1> HIDE DEF h
<1>3. QED
  BY <1>1, <1>2, LeaseKept

-----------------------------------------------------------------------------
(* Preflight.                                                              *)

LEMMA PCs == Bound = {"resolve", "validate", "confirm", "retry", "revalidate", "reconfirm",
                      "call", "mark", "release_old", "terminal", "success"}
BY DEF Bound, Unbound, PC

LEMMA ArriveCovered ==
    ASSUME LInv, NEW r \in Request, Arrive(r)
    PROVE  LeasesOK'
<1> DEFINE h == [IdleHandler EXCEPT !.pc = "resolve"]
<1>1. Become(r, h) /\ UNCHANGED leases
  BY DEF Arrive
<1>2. h.pc = "resolve" /\ h.account = NoAccount
  BY DEF IdleHandler
<1> HIDE DEF h
<1>3. QED
  BY <1>1, <1>2, PCs, LeaseKept

LEMMA ResolveCovered ==
    ASSUME LInv, NEW r \in Request, Resolve(r)
    PROVE  LeasesOK'
<1>1. UNCHANGED leases /\ req[r].pc \in Bound
  BY PCs DEF Resolve
<1>2. CASE Goto(r, "retry") \/ \E advanced : GotoAfterMove(r, "retry", advanced)
  BY <1>1, <1>2, PCs, GoesOn DEF PC
<1>3. CASE \E R : Snapshot(r, "validate", R)
  BY <1>1, <1>3, PCs, TakesSnapshot
<1>4. QED
  BY <1>2, <1>3 DEF Resolve

LEMMA ValidateCovered ==
    ASSUME LInv, NEW r \in Request, Validate(r)
    PROVE  LeasesOK'
<1>1. PICK outcome \in Outcome :
         Become(r, [req[r] EXCEPT
             !.pc = IF req[r].pc = "validate" THEN "confirm" ELSE "reconfirm",
             !.valid = outcome])
  BY DEF Validate
<1> DEFINE pc == IF req[r].pc = "validate" THEN "confirm" ELSE "reconfirm"
           h  == [req[r] EXCEPT !.pc = pc, !.valid = outcome]
<1>2. h.pc \in {"confirm", "reconfirm"} /\ h.account = req[r].account
  BY DEF LInv, Inv, TypeOK, Handler
<1>3. Become(r, h) /\ UNCHANGED leases /\ req[r].pc \in {"validate", "revalidate"}
  BY <1>1 DEF Validate
<1> HIDE DEF h
<1>4. QED
  BY <1>2, <1>3, PCs, LeaseKept

LEMMA ResolvedCovered ==
    ASSUME LInv, NEW r \in Request, NEW again, Resolved(r, again), UNCHANGED leases
    PROVE  LeasesOK'
<1>1. CASE Goto(r, "release")
  BY <1>1, GoesOn DEF PC
<1>2. ASSUME NEW otherBinding \in BOOLEAN,
             Become(r, [Continue(r, "start") EXCEPT !.account = req[r].target,
                                                    !.switched = again \/ otherBinding])
      PROVE  LeasesOK'
  <2> DEFINE c == Continue(r, "start")
             h == [c EXCEPT !.account = req[r].target, !.switched = again \/ otherBinding]
  <2>1. c \in Handler /\ c.pc = "start"
    BY ContinueType DEF LInv, PC
  <2>2. Become(r, h)
    BY <1>2
  <2> HIDE DEF c
  <2>3. h.pc = "start"
    BY <2>1 DEF Handler
  <2> HIDE DEF h
  <2>4. QED
    BY <2>2, <2>3, LeaseKept
<1>3. QED
  BY <1>1, <1>2 DEF Resolved

LEMMA ConfirmCovered ==
    ASSUME LInv, NEW r \in Request, Confirm(r)
    PROVE  LeasesOK'
<1>1. UNCHANGED leases /\ req[r].pc \in Bound
  BY PCs DEF Confirm
<1>2. CASE Goto(r, "retry") \/ \E advanced : GotoAfterMove(r, "retry", advanced)
  BY <1>1, <1>2, PCs, GoesOn DEF PC
<1>3. CASE Resolved(r, FALSE)
  BY <1>1, <1>3, ResolvedCovered
<1>4. QED
  BY <1>2, <1>3 DEF Confirm

LEMMA RetryFailedCovered ==
    ASSUME LInv, NEW r \in Request, req[r].pc \in Bound, RetryFailed(r), UNCHANGED leases
    PROVE  LeasesOK'
<1>1. Goto(r, "terminal") \/ Goto(r, "release")
  BY DEF RetryFailed
<1>2. QED
  BY <1>1, PCs, GoesOn DEF PC

LEMMA RetryCovered ==
    ASSUME LInv, NEW r \in Request, Retry(r)
    PROVE  LeasesOK'
<1>1. UNCHANGED leases /\ req[r].pc \in Bound
  BY PCs DEF Retry
<1>2. CASE \E R : Snapshot(r, "revalidate", R)
  BY <1>1, <1>2, PCs, TakesSnapshot
<1>3. QED
  BY <1>1, <1>2, RetryFailedCovered DEF Retry

LEMMA SwitchToCovered ==
    ASSUME LInv, NEW r \in Request, req[r].pc \in Bound, SwitchTo(r, req[r].target),
           UNCHANGED leases
    PROVE  LeasesOK'
<1>1. CASE r \in Agents
  <2> DEFINE c == Continue(r, "release_old")
             h == [c EXCEPT !.target = req[r].target]
  <2>1. c \in Handler /\ c.pc = "release_old" /\ c.account = req[r].account
    BY ContinueType DEF LInv, PC
  <2>2. Become(r, h)
    BY <1>1 DEF SwitchTo
  <2> HIDE DEF c
  <2>3. h.pc = "release_old" /\ h.account = req[r].account
    BY <2>1 DEF Handler
  <2> HIDE DEF h
  <2>4. QED
    BY <2>2, <2>3, PCs, LeaseKept
<1>2. CASE r \notin Agents
  <2> DEFINE c == Continue(r, "start")
             h == [c EXCEPT !.account = req[r].target, !.switched = TRUE]
  <2>1. c \in Handler /\ c.pc = "start"
    BY ContinueType DEF LInv, PC
  <2>2. Become(r, h)
    BY <1>2 DEF SwitchTo
  <2> HIDE DEF c
  <2>3. h.pc = "start"
    BY <2>1 DEF Handler
  <2> HIDE DEF h
  <2>4. QED
    BY <2>2, <2>3, LeaseKept
<1>3. QED
  BY <1>1, <1>2

LEMMA ReconfirmCovered ==
    ASSUME LInv, NEW r \in Request, Reconfirm(r)
    PROVE  LeasesOK'
<1>1. UNCHANGED leases /\ req[r].pc \in Bound
  BY PCs DEF Reconfirm
<1>2. RetryFailed(r) \/ Resolved(r, TRUE) \/ SwitchTo(r, req[r].target)
  BY DEF Reconfirm
<1>3. QED
  BY <1>1, <1>2, RetryFailedCovered, ResolvedCovered, SwitchToCovered

-----------------------------------------------------------------------------
(* Calls and their leases.                                                 *)

LEMMA LeaseMoves ==
    ASSUME LInv, NEW r \in Request, NEW h, Become(r, h), NEW l,
           leases' = [leases EXCEPT ![r] = l], Covered(r, h, l)
    PROVE  LeasesOK'
<1>1. leases'[r] = l /\ \A s \in Request \ {r} : leases'[s] = leases[s]
  BY DEF LInv, Inv, TypeOK
<1>2. QED
  BY <1>1, OneHandlerCovered

(* The call's own lease is given up, or the turn keeps its lease.          *)
LEMMA CallEndsCovered ==
    ASSUME LInv, NEW r \in Request, NEW h, Become(r, h), EndCall(r),
           req[r].pc \in Bound, h.account = req[r].account,
           h.pc = "release" \/ h.pc \in Bound \ {"call"}
    PROVE  LeasesOK'
<1>1. CASE r \in Agents
  BY <1>1, LeaseKept DEF EndCall
<1>2. CASE r \notin Agents
  <2>1. leases' = [leases EXCEPT ![r] = NoLease]
    BY <1>2 DEF EndCall, Release
  <2>2. Covered(r, h, NoLease)
    BY <1>2, PCs DEF Covered
  <2>3. QED
    BY <2>1, <2>2, LeaseMoves
<1>3. QED
  BY <1>1, <1>2

LEMMA CallFailedMoves ==
    ASSUME LInv, NEW r \in Request, NEW kind, NEW visible, CallFailed(r, kind, visible)
    PROVE  \E h : Become(r, h) /\ h.pc \in {"mark", "terminal"} /\ h.account = req[r].account
<1> DEFINE pc == IF IsUpstreamAccountFailure(kind) /\ ~req[r].switched /\ ~visible
                 THEN "mark" ELSE "terminal"
           c  == Continue(r, pc)
           h  == [c EXCEPT !.error = kind]
<1>1. c \in Handler /\ c.pc \in {"mark", "terminal"} /\ c.account = req[r].account
  <2>1. pc \in PC /\ pc \in {"mark", "terminal"}
    BY DEF PC
  <2> HIDE DEF pc
  <2>2. QED
    BY <2>1, ContinueType DEF LInv
<1>2. Become(r, h)
  BY DEF CallFailed
<1> HIDE DEF c
<1>3. h.pc \in {"mark", "terminal"} /\ h.account = req[r].account
  BY <1>1 DEF Handler
<1> HIDE DEF h
<1>4. QED
  BY <1>2, <1>3

LEMMA BeginCovered ==
    ASSUME LInv, NEW r \in Request, Begin(r)
    PROVE  LeasesOK'
<1>1. PICK w \in SomeWrites :
         LET e == Ensured(w)
         IN  \/ Mint(r, e, req[r].account) /\ Goto(r, "call")
             \/ Goto(r, "release") /\ UNCHANGED leases
             \/ /\ r \notin Agents /\ CallFailed(r, "inactive", FALSE)
                /\ UNCHANGED leases
  BY DEF Begin
<1> DEFINE e == Ensured(w)
<1>2. CASE Mint(r, e, req[r].account) /\ Goto(r, "call")
  <2> DEFINE l == [account |-> req[r].account, generation |-> e.route.generation]
  <2>1. leases' = [leases EXCEPT ![r] = l]
    BY <1>2 DEF Mint
  <2>2. PICK h : Become(r, h) /\ h.pc = "call" /\ h.account = req[r].account
    BY <1>2, MovesTo DEF PC
  <2>3. l.account = req[r].account
    OBVIOUS
  <2> HIDE DEF l
  <2>4. Covered(r, h, l)
    BY <2>2, <2>3 DEF Covered
  <2>5. QED
    BY <2>1, <2>2, <2>4, LeaseMoves
<1>3. CASE Goto(r, "release") /\ UNCHANGED leases
  BY <1>3, GoesOn DEF PC
<1>4. CASE r \notin Agents /\ CallFailed(r, "inactive", FALSE) /\ UNCHANGED leases
  <2>1. PICK h : Become(r, h) /\ h.pc \in {"mark", "terminal"}
    BY <1>4, CallFailedMoves
  <2>2. QED
    BY <1>4, <2>1, PCs, LeaseKept
<1>5. QED
  BY <1>1, <1>2, <1>3, <1>4

LEMMA CallsEndCovered ==
    ASSUME LInv, NEW r \in Request, CallSucceeds(r) \/ CallAborted(r) \/ CallFails(r)
    PROVE  LeasesOK'
<1>1. req[r].pc \in Bound /\ EndCall(r)
  BY PCs DEF CallSucceeds, CallAborted, CallFails
<1>2. CASE CallSucceeds(r)
  <2>1. PICK h : Become(r, h) /\ h.pc = "success" /\ h.account = req[r].account
    BY <1>2, MovesTo DEF CallSucceeds, PC
  <2>2. QED
    BY <1>1, <2>1, PCs, CallEndsCovered
<1>3. CASE CallAborted(r)
  <2>1. PICK h : Become(r, h) /\ h.pc = "release" /\ h.account = req[r].account
    BY <1>3, MovesTo DEF CallAborted, PC
  <2>2. QED
    BY <1>1, <2>1, PCs, CallEndsCovered
<1>4. CASE CallFails(r)
  <2>1. PICK h : Become(r, h) /\ h.pc \in {"mark", "terminal"} /\ h.account = req[r].account
    BY <1>4, CallFailedMoves DEF CallFails
  <2>2. QED
    BY <1>1, <2>1, PCs, CallEndsCovered
<1>5. QED
  BY <1>2, <1>3, <1>4

(* Failures, and the search for a successor, leave the lease alone.        *)
LEMMA FailuresCovered ==
    ASSUME LInv, NEW r \in Request,
           ContinuationFails(r) \/ Failover(r) \/ Terminal(r) \/ Succeed(r)
    PROVE  LeasesOK'
<1>1. req[r].pc \in Bound /\ UNCHANGED leases
  BY PCs DEF ContinuationFails, Failover, Terminal, Succeed
<1>2. \E pc \in {"success", "retry", "terminal", "release"} :
         Goto(r, pc) \/ \E advanced : GotoAfterMove(r, pc, advanced)
  BY DEF ContinuationFails, Failover, Terminal, Succeed
<1>3. QED
  BY <1>1, <1>2, PCs, GoesOn DEF PC

LEMMA IgnoreFailureCovered ==
    ASSUME LInv, NEW r \in Request, IgnoreFailure(r)
    PROVE  LeasesOK'
<1>1. /\ req[r].pc = "terminal" /\ r \in Agents /\ UNCHANGED leases
      /\ req[r].account # NoAccount
  BY RouterAssumption DEF IgnoreFailure, LInv, Inv, LocalsOK, HandlerOK
<1>2. CASE Goto(r, "release")
  BY <1>1, <1>2, GoesOn DEF PC
<1>3. CASE Goto(r, "call")
  <2>1. PICK h : Become(r, h) /\ h.pc = "call" /\ h.account = req[r].account
    BY <1>3, MovesTo DEF PC
  <2>2. QED
    BY <1>1, <2>1, PCs, LeaseKept
<1>4. QED
  BY <1>2, <1>3 DEF IgnoreFailure

(* The turn's lease moves with it to the successor.                        *)
LEMMA ReleaseOldCovered ==
    ASSUME LInv, NEW r \in Request, ReleaseOld(r)
    PROVE  LeasesOK'
<1> DEFINE h == [req[r] EXCEPT !.pc = "lease_next"]
<1>1. Become(r, h) /\ leases' = [leases EXCEPT ![r] = NoLease]
  BY DEF ReleaseOld, Release
<1>2. h.pc = "lease_next"
  BY DEF LInv, Inv, TypeOK, Handler
<1> HIDE DEF h
<1>3. Covered(r, h, NoLease)
  BY <1>2, PCs DEF Covered
<1>4. QED
  BY <1>1, <1>3, LeaseMoves

LEMMA LeaseNextCovered ==
    ASSUME LInv, NEW r \in Request, LeaseNext(r)
    PROVE  LeasesOK'
<1> DEFINE c == Continue(r, "call")
           h == [c EXCEPT !.account = req[r].target, !.switched = TRUE]
<1>1. PICK w \in SomeWrites :
         \/ Mint(r, Ensured(w), req[r].target) /\ Become(r, h)
         \/ Goto(r, "release") /\ UNCHANGED leases
  BY DEF LeaseNext
<1>2. CASE Mint(r, Ensured(w), req[r].target) /\ Become(r, h)
  <2> DEFINE l == [account |-> req[r].target, generation |-> Ensured(w).route.generation]
  <2>1. leases' = [leases EXCEPT ![r] = l] /\ l.account = req[r].target
    BY <1>2 DEF Mint
  <2>2. c \in Handler /\ c.pc = "call"
    BY ContinueType DEF LInv, PC
  <2> HIDE DEF l, c
  <2>3. h.pc = "call" /\ h.account = req[r].target
    BY <2>2 DEF Handler
  <2> HIDE DEF h
  <2>4. Covered(r, h, l)
    BY <2>1, <2>3 DEF Covered
  <2>5. QED
    BY <1>2, <2>1, <2>4, LeaseMoves
<1>3. CASE Goto(r, "release") /\ UNCHANGED leases
  BY <1>3, GoesOn DEF PC
<1>4. QED
  BY <1>1, <1>2, <1>3

LEMMA FinishCovered ==
    ASSUME LInv, NEW r \in Request, Finish(r)
    PROVE  LeasesOK'
<1>1. Become(r, IdleHandler) /\ leases' = [leases EXCEPT ![r] = NoLease]
  BY DEF Finish, Release
<1>2. Covered(r, IdleHandler, NoLease)
  BY PCs DEF Covered, IdleHandler
<1>3. QED
  BY <1>1, <1>2, LeaseMoves

-----------------------------------------------------------------------------
(* Every step.                                                             *)

LEMMA InitCovered == Init => LeasesOK
BY PCs DEF Init, LeasesOK, Covered, IdleHandler

LEMMA StepCovered ==
    ASSUME LInv, [Next]_vars
    PROVE  LeasesOK'
<1>2. CASE \E r \in Request : Arrive(r) \/ HandlerStep(r)
  BY <1>2, ArriveCovered, ResolveCovered, ValidateCovered, ConfirmCovered, RetryCovered,
     ReconfirmCovered, BeginCovered, CallsEndCovered, FailuresCovered, IgnoreFailureCovered,
     ReleaseOldCovered, LeaseNextCovered, FinishCovered DEF HandlerStep
<1>3. CASE AdminStep \/ ReadActiveAccount \/ Tick \/ UNCHANGED vars
  <2>1. req' = req /\ leases' = leases
    BY <1>3 DEF AdminStep, DeleteAccount, Login, BeginRefresh, ClearAuthFailureAfterLogin,
       SyncActiveAccount, ValidateRefresh, ConfirmRefresh, ReadActiveAccount, Tick, vars
  <2>2. \A r \in Request : Covered(r, req[r], leases[r])
    BY DEF LInv, LeasesOK
  <2>3. \A r \in Request : Covered(r, req'[r], leases'[r])
    BY <2>1, <2>2
  <2>4. QED
    BY <2>3, SMTT(30) DEF LeasesOK
<1>4. CASE Restart
  <2>1. \A r \in Request : req'[r] = IdleHandler /\ leases'[r] = NoLease
    BY <1>4 DEF Restart
  <2>2. \A r : Covered(r, IdleHandler, NoLease)
    BY PCs DEF Covered, IdleHandler
  <2>3. QED
    BY <2>1, <2>2 DEF LeasesOK
<1>5. QED
  BY <1>2, <1>3, <1>4 DEF Next

LEMMA NextCovered == LInv /\ [Next]_vars => LInv'
<1>1. Inv /\ [Next]_vars => Inv'
  BY StepGood
<1>2. QED
  BY <1>1, StepCovered DEF LInv

(* beginActiveAccountRequest, activateNextAccount and the releases of the  *)
(* handlers keep every upstream call under its handler's own lease, and no *)
(* handler that has answered holds one, however the handlers, failures and *)
(* crashes interleave.                                                     *)
THEOREM EveryCallIsLeased == Spec => []CallsAreLeased
<1>1. Init => LInv
  BY InitGood, InitCovered DEF LInv
<1>2. LInv => CallsAreLeased
  BY DEF LInv, LeasesOK, Covered, CallsAreLeased
<1>3. QED
  BY <1>1, <1>2, NextCovered, PTL DEF Spec

-----------------------------------------------------------------------------
(* What the router knows of the accounts survives failed writes, deletions *)
(* and crashes; and a rotation reaches every account of the list.          *)

(* An account is stored once.                                              *)
Distinct(list) == \A i, j \in DOMAIN list : list[i] = list[j] => i = j

(* RouteIsDurable of a route at time t.                                    *)
InStep(R) == R.file.generation = R.generation

OnFile(R, t) ==
    /\ LiveHealth(R.file.health, t) = LiveHealth(R.health, t)
    /\ R.activeAccountID \in {R.file.activeAccountID, NoAccount}

Durable(R, t) == InStep(R) /\ (~R.unsaved => OnFile(R, t))

(* No unexpired rest is shortened and no authentication failure forgotten. *)
LongerRests(c, d, t) == \A a \in Account : c[a] > t => d[a] >= c[a]

Keeps(h, g, t) ==
    /\ LongerRests(h.cooldown, g.cooldown, t)
    /\ LongerRests(h.transient, g.transient, t)
    /\ h.authFail \subseteq g.authFail

-----------------------------------------------------------------------------
(* Health.                                                                 *)

LEMMA KeepsReflexive ==
    ASSUME NEW h \in Health, NEW t
    PROVE  Keeps(h, h, t)
BY DEF Keeps, LongerRests, Health

LEMMA KeepsTransitive ==
    ASSUME NEW h \in Health, NEW g \in Health, NEW k \in Health, NEW t \in Nat,
           Keeps(h, g, t), Keeps(g, k, t)
    PROVE  Keeps(h, k, t)
<1>1. ASSUME NEW c \in [Account -> Nat], NEW d \in [Account -> Nat], NEW e \in [Account -> Nat],
             LongerRests(c, d, t), LongerRests(d, e, t)
      PROVE  LongerRests(c, e, t)
  BY <1>1 DEF LongerRests
<1>2. QED
  BY <1>1 DEF Keeps, Health

LEMMA FailureKeeps ==
    ASSUME NEW h \in Health, NEW a \in Account, NEW kind, NEW t \in Nat
    PROVE  Keeps(h, RecordAccountFailureHealth(h, a, kind, t), t)
<1> USE RestAssumption
<1>1. ASSUME NEW d \in [Account -> Nat], NEW until \in Nat
      PROVE  LongerRests(d, ExtendDeadline(d, a, until), t)
  BY DEF LongerRests, ExtendDeadline
<1>2. \A d \in [Account -> Nat] : LongerRests(d, d, t)
  BY DEF LongerRests
<1>3. ASSUME NEW until \in Nat
      PROVE  Keeps(h, MarkCooldown(h, a, until), t) /\ Keeps(h, MarkTransient(h, a, until), t)
  BY <1>1, <1>2 DEF Keeps, Health, MarkCooldown, MarkTransient
<1>4. Keeps(h, MarkAuthFail(h, a), t)
  BY <1>2 DEF Keeps, Health, MarkAuthFail
<1>5. QED
  BY <1>3, <1>4 DEF RecordAccountFailureHealth

LEMMA SuccessKeeps ==
    ASSUME NEW h \in Health, NEW a \in Account, NEW t \in Nat
    PROVE  /\ Keeps(h, MarkSuccess(h, a, t), t)
           /\ LiveHealth(MarkSuccess(h, a, t), t) = LiveHealth(h, t)
<1>1. ASSUME NEW d \in [Account -> Nat]
      PROVE  /\ LongerRests(d, DropExpired(d, a, t), t)
             /\ Unexpired(DropExpired(d, a, t), t) = Unexpired(d, t)
  BY DEF LongerRests, DropExpired, Unexpired, NoDeadline
<1>2. /\ MarkSuccess(h, a, t).cooldown = DropExpired(h.cooldown, a, t)
      /\ MarkSuccess(h, a, t).transient = DropExpired(h.transient, a, t)
      /\ MarkSuccess(h, a, t).authFail = h.authFail
      /\ h.cooldown \in [Account -> Nat] /\ h.transient \in [Account -> Nat]
  BY DEF MarkSuccess, Health
<1>3. QED
  BY <1>1, <1>2 DEF Keeps, LiveHealth

LEMMA LiveHealthFacts ==
    ASSUME NEW h \in Health, NEW g \in Health, NEW t \in Nat, NEW u \in Nat, t <= u,
           LiveHealth(g, t) = LiveHealth(h, t)
    PROVE  /\ LiveHealth(g, u) = LiveHealth(h, u)
           /\ LiveHealth(LiveHealth(h, t), t) = LiveHealth(h, t)
           /\ Keeps(h, LiveHealth(h, t), t)
<1>1. ASSUME NEW d \in [Account -> Nat], NEW c \in [Account -> Nat]
      PROVE  /\ Unexpired(c, t) = Unexpired(d, t) => Unexpired(c, u) = Unexpired(d, u)
             /\ Unexpired(Unexpired(d, t), t) = Unexpired(d, t)
             /\ LongerRests(d, Unexpired(d, t), t)
  <2>1. Unexpired(Unexpired(d, t), t) = Unexpired(d, t) /\ LongerRests(d, Unexpired(d, t), t)
    BY DEF LongerRests, Unexpired, NoDeadline
  <2>2. ASSUME Unexpired(c, t) = Unexpired(d, t), NEW a \in Account
        PROVE  (IF c[a] <= u THEN NoDeadline ELSE c[a]) = (IF d[a] <= u THEN NoDeadline ELSE d[a])
    <3>1. (IF c[a] <= t THEN NoDeadline ELSE c[a]) = (IF d[a] <= t THEN NoDeadline ELSE d[a])
      BY <2>2 DEF Unexpired
    <3>2. QED
      BY <3>1 DEF NoDeadline
  <2>3. QED
    BY <2>1, <2>2 DEF Unexpired
<1>2. /\ h.cooldown \in [Account -> Nat] /\ h.transient \in [Account -> Nat]
      /\ g.cooldown \in [Account -> Nat] /\ g.transient \in [Account -> Nat]
  BY DEF Health
<1>3. /\ Unexpired(g.cooldown, t) = Unexpired(h.cooldown, t)
      /\ Unexpired(g.transient, t) = Unexpired(h.transient, t)
      /\ g.authFail = h.authFail
  BY DEF LiveHealth
<1>4. QED
  BY <1>1, <1>2, <1>3 DEF LiveHealth, Keeps

-----------------------------------------------------------------------------
(* The ring of accounts.                                                   *)

LEMMA SmallMod ==
    ASSUME NEW n \in Nat, n > 0, NEW x \in Nat, x < n
    PROVE  x % n = x /\ (x + n) % n = x
<1>1. x % n = x
  BY SMT
<1>2. (x + n) % n = x
  BY SMT
<1>3. QED
  BY <1>1, <1>2

LEMMA SuccessorListed ==
    ASSUME NEW list \in Seq(Account), NEW id, Listed(list, id), NEW k \in Nat
    PROVE  Listed(list, Successor(list, id, k))
<1>1. /\ IndexByID(list, id) \in 1 .. Len(list) /\ Len(list) \in Nat \ {0}
      /\ DOMAIN list = 1 .. Len(list)
  BY IndexInList
<1>2. ((IndexByID(list, id) - 1 + k) % Len(list)) + 1 \in 1 .. Len(list)
  BY <1>1
<1>3. QED
  BY <1>1, <1>2 DEF Successor, Listed

(* A rotation by less than a turn leaves its account.                      *)
LEMMA SuccessorLeaves ==
    ASSUME NEW list \in Seq(Account), Distinct(list), NEW id, Listed(list, id),
           NEW k \in 1 .. Len(list) - 1
    PROVE  Successor(list, id, k) # id
<1> DEFINE i == IndexByID(list, id)
           n == Len(list)
           x == i - 1 + k
<1>1. i \in 1 .. n /\ list[i] = id /\ n \in Nat /\ n > 0
  BY IndexInList
<1> HIDE DEF i, n
<1>2. k \in 1 .. n - 1
  BY DEF n
<1>3. x % n # i - 1 /\ x % n \in 0 .. n - 1
  <2>1. CASE x < n
    <3>1. x % n = x
      BY <1>1, <1>2, <2>1, SmallMod
    <3>2. QED
      BY <1>1, <1>2, <2>1, <3>1
  <2>2. CASE x >= n
    <3>1. x - n \in Nat /\ x - n < n /\ (x - n) + n = x
      BY <1>1, <1>2, <2>2
    <3>2. ((x - n) + n) % n = x - n
      BY <1>1, <3>1, SmallMod
    <3>3. QED
      BY <1>1, <1>2, <3>1, <3>2
  <2>3. QED
    BY <1>1, <1>2, <2>1, <2>2
<1>4. (x % n) + 1 \in DOMAIN list /\ (x % n) + 1 # i /\ i \in DOMAIN list
  BY <1>1, <1>3 DEF n
<1>5. list[(x % n) + 1] # id
  BY <1>1, <1>4 DEF Distinct
<1>6. QED
  BY <1>5 DEF Successor, i, n

LEMMA FirstAvailableLeaves ==
    ASSUME NEW R, NEW list \in Seq(Account), Distinct(list), NEW id, Listed(list, id),
           AvailableOffsets(R, list, id) # {}
    PROVE  FirstAvailable(R, list, id) # id
<1> DEFINE S == AvailableOffsets(R, list, id)
           k == CHOOSE i \in S : \A j \in S : i <= j
<1>1. S \subseteq Nat /\ S \subseteq 1 .. Len(list) - 1
  BY IndexInList DEF AvailableOffsets
<1>2. k \in S
  BY <1>1, LeastExists
<1>3. Successor(list, id, k) # id
  BY <1>1, <1>2, SuccessorLeaves
<1>4. QED
  BY <1>3 DEF FirstAvailable

-----------------------------------------------------------------------------
(* The helpers that hold accountRouteMu: the health is as it was, and the  *)
(* route is durable if it was, if a write failed, or if it was written.    *)

LEMMA PersistDurable ==
    ASSUME NEW R \in Route, NEW ok \in BOOLEAN, InStep(R) \/ ok, now \in Nat
    PROVE  LET P == PersistActiveAccount(R, ok)
           IN  P.health = R.health /\ Durable(P, now)
<1> DEFINE P == PersistActiveAccount(R, ok)
           file == [activeAccountID |-> R.activeAccountID, generation |-> R.generation,
                    health |-> LiveHealth(R.health, now)]
<1>1. R.health \in Health
  BY DEF Route
<1>2. CASE ok
  <2>1. P = [R EXCEPT !.unsaved = FALSE, !.file = file]
    BY <1>2 DEF PersistActiveAccount
  <2>2. /\ P.health = R.health /\ P.file = file /\ P.generation = R.generation
        /\ P.activeAccountID = R.activeAccountID
    BY <2>1 DEF Route
  <2>3. LiveHealth(file.health, now) = LiveHealth(R.health, now)
    BY <1>1, LiveHealthFacts
  <2>4. QED
    BY <2>2, <2>3 DEF Durable, InStep, OnFile
<1>3. CASE ~ok
  <2>1. P = [R EXCEPT !.unsaved = TRUE]
    BY <1>3 DEF PersistActiveAccount
  <2>2. /\ P.health = R.health /\ P.file = R.file /\ P.generation = R.generation
        /\ P.unsaved = TRUE
    BY <2>1 DEF Route
  <2>3. QED
    BY <1>3, <2>2 DEF Durable, InStep
<1>4. QED
  BY <1>2, <1>3

LEMMA ActivateDurable ==
    ASSUME NEW R \in Route, InStep(R), NEW id \in MaybeAccount, NEW ok \in BOOLEAN, now \in Nat
    PROVE  LET a == ActivateAccount(R, id, ok)
           IN  /\ a.route.health = R.health /\ InStep(a.route)
               /\ (Durable(R, now) \/ id # R.activeAccountID \/ ~a.ok) => Durable(a.route, now)
<1> DEFINE moved == [R EXCEPT !.activeAccountID = id, !.generation = @ + 1]
           a == ActivateAccount(R, id, ok)
<1>1. CASE id = R.activeAccountID
  <2>1. a = [route |-> R, ok |-> TRUE]
    BY <1>1 DEF ActivateAccount
  <2>2. a.route = R /\ a.ok = TRUE
    BY <2>1
  <2>3. QED
    BY <1>1, <2>2
<1>2. CASE id # R.activeAccountID /\ ~ok
  <2>1. a.route = PersistActiveAccount(R, ok)
    BY <1>2 DEF ActivateAccount
  <2>2. PersistActiveAccount(R, ok).health = R.health /\ Durable(PersistActiveAccount(R, ok), now)
    BY PersistDurable
  <2>3. QED
    BY <2>1, <2>2 DEF Durable
<1>3. CASE id # R.activeAccountID /\ ok
  <2>1. a.route = PersistActiveAccount(moved, ok)
    BY <1>3 DEF ActivateAccount
  <2>2. moved \in Route /\ moved.health = R.health
    <3>1. R.generation + 1 \in Nat
      BY DEF Route
    <3>2. [R EXCEPT !.activeAccountID = id] \in Route
      BY DEF Route
    <3>3. QED
      BY <3>1, <3>2 DEF Route
  <2> HIDE DEF moved
  <2>3. /\ PersistActiveAccount(moved, ok).health = moved.health
        /\ Durable(PersistActiveAccount(moved, ok), now)
    BY <1>3, <2>2, PersistDurable
  <2>4. QED
    BY <2>1, <2>2, <2>3 DEF Durable
<1>4. QED
  BY <1>1, <1>2, <1>3

LEMMA EnsureDurable ==
    ASSUME NEW R \in Route, InStep(R), NEW list \in Seq(Account), NEW ok \in BOOLEAN, now \in Nat
    PROVE  LET e == EnsureActiveAccount(R, list, ok)
           IN  /\ e.route.health = R.health /\ InStep(e.route)
               /\ Durable(R, now) \/ ~e.ok => Durable(e.route, now)
<1> DEFINE e == EnsureActiveAccount(R, list, ok)
           id == IF Listed(list, R.activeAccountID) THEN R.activeAccountID ELSE list[1]
<1>1. CASE list = <<>>
  <2>1. e = [route |-> Vacated(R), ok |-> TRUE]
    BY <1>1 DEF EnsureActiveAccount, Vacated
  <2>2. e.route = Vacated(R) /\ e.ok = TRUE
    BY <2>1
  <2>3. /\ Vacated(R).health = R.health /\ Vacated(R).file = R.file
        /\ Vacated(R).generation = R.generation /\ Vacated(R).unsaved = R.unsaved
        /\ Vacated(R).activeAccountID = NoAccount
    BY DEF Vacated, Route
  <2>4. QED
    BY <2>2, <2>3 DEF Durable, InStep, OnFile
<1>2. CASE list # <<>>
  <2>1. e = ActivateAccount(R, id, ok)
    BY <1>2 DEF EnsureActiveAccount
  <2>2. id \in MaybeAccount
    BY <1>2 DEF Route, MaybeAccount
  <2> HIDE DEF id
  <2>3. QED
    BY <2>1, <2>2, ActivateDurable
<1>3. QED
  BY <1>1, <1>2

LEMMA AdvanceDurable ==
    ASSUME NEW R \in Route, InStep(R), NEW id, NEW list \in Seq(Account), Distinct(list),
           NEW w \in Writes, now \in Nat
    PROVE  LET adv == AdvanceActiveAccount(R, id, list, w)
           IN  /\ adv.route.health = R.health /\ InStep(adv.route)
               /\ Durable(R, now) \/ ~adv.ok \/ adv.advanced => Durable(adv.route, now)
<1> DEFINE e    == EnsureActiveAccount(R, list, w.ensure)
           held == \/ ~e.ok \/ e.route.activeAccountID # id
                   \/ AvailableOffsets(e.route, list, id) = {}
           next == FirstAvailable(e.route, list, id)
           a    == ActivateAccount(e.route, next, w.save)
           adv  == AdvanceActiveAccount(R, id, list, w)
<1>1. w.ensure \in BOOLEAN /\ w.save \in BOOLEAN
  BY DEF Writes
<1>2. /\ e.route \in Route /\ e.ok \in BOOLEAN /\ e.route.health = R.health /\ InStep(e.route)
      /\ Durable(R, now) \/ ~e.ok => Durable(e.route, now)
      /\ e.ok => Settled(e.route, list)
  BY <1>1, EnsureActiveAccountType, EnsureDurable
<1>3. CASE held
  <2>1. adv.route = e.route /\ adv.advanced = FALSE /\ adv.ok = e.ok
    BY <1>3 DEF AdvanceActiveAccount
  <2>2. QED
    BY <1>2, <2>1
<1>4. CASE ~held
  <2>1. adv.route = a.route
    BY <1>4 DEF AdvanceActiveAccount
  <2>2. list # <<>>
    BY <1>4 DEF AvailableOffsets
  <2>3. Listed(list, id)
    BY <1>2, <1>4, <2>2 DEF Settled
  <2>4. next \in MaybeAccount /\ next # id /\ id = e.route.activeAccountID
    BY <1>4, <2>3, FirstAvailableInList, FirstAvailableLeaves DEF MaybeAccount
  <2>5. a.route.health = e.route.health /\ Durable(a.route, now)
    BY <1>1, <1>2, <2>4, ActivateDurable
  <2>6. QED
    BY <1>2, <2>1, <2>5 DEF Durable
<1>5. QED
  BY <1>3, <1>4

-----------------------------------------------------------------------------
(* Whole critical sections.                                                *)

(* What a section makes of a route: it is durable, and every rest is kept. *)
Sound(R, S) == Durable(S, now) /\ Keeps(R.health, S.health, now)

LEMMA RecordKeeps ==
    ASSUME NEW R \in Route, InStep(R), NEW id \in Account, NEW kind, now \in Nat
    PROVE  LET F == RecordFailure(R, id, kind)
               o == ObserveSharedFailure(F, id, kind)
           IN  /\ F \in Route /\ InStep(F) /\ Keeps(R.health, F.health, now)
               /\ o.route \in Route /\ InStep(o.route) /\ Keeps(R.health, o.route.health, now)
<1> DEFINE F == RecordFailure(R, id, kind)
           o == ObserveSharedFailure(F, id, kind)
<1>1. F \in Route /\ SameIdentity(R, F)
  BY RecordFailureType
<1>2. F.health = RecordAccountFailureHealth(R.health, id, kind, now)
  BY DEF RecordFailure, Route
<1>3. Keeps(R.health, F.health, now) /\ InStep(F)
  BY <1>1, <1>2, FailureKeeps DEF Route, InStep, SameIdentity
<1> HIDE DEF F
<1>4. o.route \in Route /\ SameIdentity(F, o.route)
  BY <1>1, ObserveSharedFailureType
<1>5. o.route.health = F.health
  BY <1>1 DEF ObserveSharedFailure, Route
<1>6. InStep(o.route)
  BY <1>3, <1>4 DEF InStep, SameIdentity
<1>7. QED
  BY <1>1, <1>3, <1>4, <1>5, <1>6 DEF F

LEMMA RecordFailureWithoutAdvanceSound ==
    ASSUME NEW R \in Route, InStep(R), NEW id \in Account, NEW kind, NEW w \in Writes, now \in Nat
    PROVE  Sound(R, RecordFailureWithoutAdvance(R, id, kind, w))
<1> DEFINE o == ObserveSharedFailure(RecordFailure(R, id, kind), id, kind).route
<1>1. o \in Route /\ InStep(o) /\ Keeps(R.health, o.health, now) /\ w.save \in BOOLEAN
  BY RecordKeeps DEF Writes
<1>2. RecordFailureWithoutAdvance(R, id, kind, w) = PersistActiveAccount(o, w.save)
  BY DEF RecordFailureWithoutAdvance
<1> HIDE DEF o
<1>3. QED
  BY <1>1, <1>2, PersistDurable DEF Sound

(* The failure was noted, and the rotation was tried: what is not written  *)
(* by the rotation is written after it.                                    *)
LEMMA RotatedSound ==
    ASSUME NEW R \in Route, NEW F \in Route, InStep(F), Keeps(R.health, F.health, now),
           NEW id, NEW list \in Seq(Account), Distinct(list), NEW w \in Writes, now \in Nat,
           NEW again \in BOOLEAN
    PROVE  LET adv == AdvanceActiveAccount(F, id, list, w)
           IN  /\ Sound(R, PersistActiveAccount(adv.route, again))
               /\ ~(adv.ok /\ ~adv.advanced) => Sound(R, adv.route)
<1> DEFINE adv == AdvanceActiveAccount(F, id, list, w)
<1>1. /\ adv.route \in Route /\ adv.route.health = F.health /\ InStep(adv.route)
      /\ ~adv.ok \/ adv.advanced => Durable(adv.route, now)
      /\ adv.ok \in BOOLEAN /\ adv.advanced \in BOOLEAN
  BY AdvanceActiveAccountType, AdvanceDurable
<1> HIDE DEF adv
<1>2. /\ PersistActiveAccount(adv.route, again).health = F.health
      /\ Durable(PersistActiveAccount(adv.route, again), now)
  BY <1>1, PersistDurable
<1>3. QED
  BY <1>1, <1>2 DEF Sound, adv

LEMMA MarkAccountFailureSound ==
    ASSUME NEW R \in Route, InStep(R), NEW list \in Seq(Account), Distinct(list),
           NEW id \in Account, NEW kind, NEW w \in Writes, now \in Nat
    PROVE  Sound(R, MarkAccountFailure(R, list, id, kind, w).route)
<1> DEFINE o    == ObserveSharedFailure(RecordFailure(R, id, kind), id, kind)
           adv  == AdvanceActiveAccount(o.route, id, list, w)
           m    == MarkAccountFailure(R, list, id, kind, w)
           held == ~IsUpstreamAccountFailure(kind) \/ o.opened \/ CircuitOpen(o.route)
<1>1. o.route \in Route /\ InStep(o.route) /\ Keeps(R.health, o.route.health, now)
  BY RecordKeeps
<1>2. w.save \in BOOLEAN
  BY DEF Writes
<1>3. CASE held
  <2>1. m.route = PersistActiveAccount(o.route, w.save)
    BY <1>3 DEF MarkAccountFailure
  <2>2. QED
    BY <1>1, <1>2, <2>1, PersistDurable DEF Sound
<1>4. CASE ~held
  <2>1. m.route = IF adv.ok /\ ~adv.advanced
                  THEN PersistActiveAccount(adv.route, w.save) ELSE adv.route
    BY <1>4 DEF MarkAccountFailure
  <2>2. QED
    BY <1>1, <1>2, <2>1, RotatedSound
<1>5. QED
  BY <1>3, <1>4

LEMMA RetireSound ==
    ASSUME NEW R \in Route, InStep(R), NEW list \in Seq(Account), Distinct(list),
           NEW id \in Account, NEW kind, NEW w \in Writes, NEW again \in BOOLEAN, now \in Nat
    PROVE  /\ Sound(R, RetireAfterValidation(R, list, id, kind, w).route)
           /\ Sound(R, RetireAfterRefresh(R, list, id, kind, w, again))
<1> DEFINE F   == RecordFailure(R, id, kind)
           adv == AdvanceActiveAccount(F, id, list, w)
<1>1. F \in Route /\ InStep(F) /\ Keeps(R.health, F.health, now) /\ w.save \in BOOLEAN
  BY RecordKeeps DEF Writes
<1>2. /\ RetireAfterValidation(R, list, id, kind, w).route
            = IF adv.ok /\ ~adv.advanced
              THEN PersistActiveAccount(adv.route, w.save) ELSE adv.route
      /\ RetireAfterRefresh(R, list, id, kind, w, again)
            = IF adv.advanced THEN adv.route ELSE PersistActiveAccount(adv.route, again)
  BY DEF RetireAfterValidation, RetireAfterRefresh
<1> HIDE DEF F
<1>3. QED
  BY <1>1, <1>2, RotatedSound

LEMMA MarkAccountSuccessSound ==
    ASSUME NEW R \in Route, Durable(R, now), NEW list \in Seq(Account), NEW id \in Account,
           NEW w \in Writes, now \in Nat
    PROVE  Sound(R, MarkAccountSuccess(R, list, id, w))
<1> DEFINE e == EnsureActiveAccount(R, list, w.ensure)
           T == [e.route EXCEPT !.health = MarkSuccess(@, id, now)]
<1>1. w.ensure \in BOOLEAN /\ InStep(R)
  BY DEF Writes, Durable
<1>2. e.route \in Route /\ e.route.health = R.health /\ Durable(e.route, now)
  BY <1>1, EnsureActiveAccountType, EnsureDurable
<1> DEFINE E == e.route
<1>3. E \in Route /\ E.health = R.health /\ Durable(E, now) /\ E.health \in Health
  BY <1>2 DEF Route
<1>4. MarkAccountSuccess(R, list, id, w) \in {[E EXCEPT !.health = MarkSuccess(E.health, id, now)], E}
  BY DEF MarkAccountSuccess
<1> HIDE DEF E
<1> DEFINE M == [E EXCEPT !.health = MarkSuccess(E.health, id, now)]
<1>5. /\ M.health = MarkSuccess(E.health, id, now) /\ M.file = E.file
      /\ M.generation = E.generation /\ M.unsaved = E.unsaved
      /\ M.activeAccountID = E.activeAccountID
  BY <1>3 DEF Route
<1> HIDE DEF M
<1>6. Durable(M, now) /\ Keeps(R.health, M.health, now)
  BY <1>3, <1>5, SuccessKeeps DEF Durable, InStep, OnFile
<1>7. Keeps(R.health, E.health, now)
  BY <1>3, KeepsReflexive
<1>8. QED
  BY <1>3, <1>4, <1>6, <1>7 DEF Sound, M

LEMMA ActivateNeighbourSound ==
    ASSUME NEW R \in Route, Durable(R, now), NEW before \in Seq(Account),
           NEW after \in Seq(Account), NEW id \in Account, NEW ok \in BOOLEAN, now \in Nat,
           Settled(R, before)
    PROVE  Sound(R, ActivateNeighbour(R, before, after, id, ok))
<1> DEFINE i    == IndexByID(before, id)
           next == IF after = <<>> THEN NoAccount ELSE after[((i - 1) % Len(after)) + 1]
<1>1. Keeps(R.health, R.health, now) /\ InStep(R)
  BY KeepsReflexive DEF Route, Durable
<1>2. CASE id # R.activeAccountID
  BY <1>1, <1>2 DEF ActivateNeighbour, Sound
<1>3. CASE id = R.activeAccountID
  <2>1. Listed(before, id)
    BY <1>3, RouterAssumption DEF Settled
  <2>2. i \in 1 .. Len(before)
    BY <2>1, IndexInList
  <2> HIDE DEF i
  <2>3. next \in MaybeAccount
    <3>1. CASE after = <<>>
      BY <3>1 DEF MaybeAccount
    <3>2. CASE after # <<>>
      <4>1. Len(after) \in Nat \ {0} /\ Len(before) \in Nat
        BY <3>2
      <4>2. ((i - 1) % Len(after)) + 1 \in 1 .. Len(after)
        BY <2>2, <4>1
      <4>3. QED
        BY <3>2, <4>2 DEF MaybeAccount
    <3>3. QED
      BY <3>1, <3>2
  <2> HIDE DEF next
  <2>4. /\ ActivateAccount(R, next, ok).route.health = R.health
        /\ Durable(ActivateAccount(R, next, ok).route, now)
    BY <1>1, <2>3, ActivateDurable
  <2>5. QED
    BY <1>1, <1>3, <2>4 DEF ActivateNeighbour, Sound, next, i
<1>4. QED
  BY <1>2, <1>3

(* The route of a restart knows what the file knew.                        *)
LEMMA InitializeDurable ==
    ASSUME NEW file \in RouteFile, NEW list \in Seq(Account), now \in Nat
    PROVE  LET S == InitializeAccountRouter(file, list)
           IN  S.health = LiveHealth(file.health, now) /\ Durable(S, now)
<1> DEFINE R == Reread(file)
<1>1. R \in Route
  BY InitializeAccountRouterType
<1>2. /\ R.health = LiveHealth(file.health, now) /\ R.file = file
      /\ R.generation = file.generation /\ R.activeAccountID = file.activeAccountID
  BY DEF Reread
<1>3. LiveHealth(LiveHealth(file.health, now), now) = LiveHealth(file.health, now)
  BY LiveHealthFacts DEF RouteFile
<1>4. Durable(R, now) /\ InStep(R)
  BY <1>2, <1>3 DEF Durable, InStep, OnFile
<1>5. InitializeAccountRouter(file, list) = EnsureActiveAccount(R, list, TRUE).route
  BY DEF InitializeAccountRouter, Reread
<1> HIDE DEF R
<1>6. QED
  BY <1>1, <1>2, <1>4, <1>5, EnsureDurable

-----------------------------------------------------------------------------
(* The list of accounts.                                                   *)

LEMMA AppendDistinct ==
    ASSUME NEW list \in Seq(Account), Distinct(list), NEW id \in Account, ~Listed(list, id)
    PROVE  Distinct(Append(list, id))
<1>1. /\ DOMAIN Append(list, id) = 1 .. Len(list) + 1 /\ DOMAIN list = 1 .. Len(list)
      /\ Len(list) \in Nat
      /\ \A i \in 1 .. Len(list) : Append(list, id)[i] = list[i]
      /\ Append(list, id)[Len(list) + 1] = id
  BY AppendProperties
<1>2. \A i \in DOMAIN list : list[i] # id
  BY DEF Listed
<1>3. QED
  BY <1>1, <1>2 DEF Distinct

LEMMA WithoutDistinct ==
    ASSUME NEW list \in Seq(Account), Distinct(list), NEW id
    PROVE  Distinct(Without(list, id))
<1>1. CASE ~Listed(list, id)
  BY <1>1 DEF Without
<1>2. CASE Listed(list, id)
  <2> DEFINE i == IndexByID(list, id)
             n == Len(list)
             s == SubSeq(list, 1, i - 1)
             t == SubSeq(list, i + 1, n)
  <2>1. i \in 1 .. n /\ n \in Nat /\ DOMAIN list = 1 .. n
    BY <1>2, IndexInList
  <2> HIDE DEF i
  <2>2. s \in Seq(Account) /\ Len(s) = i - 1 /\ \A j \in 1 .. i - 1 : s[j] = list[j]
    <3>1. \A j \in 1 .. i - 1 : list[j] \in Account
      BY <2>1
    <3>2. QED
      BY <2>1, <3>1, SubSeqProperties
  <2>3. t \in Seq(Account) /\ Len(t) = n - i /\ \A j \in 1 .. n - i : t[j] = list[i + j]
    <3> DEFINE m == i + 1
    <3>1. m \in Int /\ n \in Int /\ \A j \in m .. n : list[j] \in Account
      BY <2>1
    <3>2. t = SubSeq(list, m, n)
      OBVIOUS
    <3> HIDE DEF m, n, t
    <3>3. /\ t \in Seq(Account)
          /\ Len(t) = IF m <= n THEN n - m + 1 ELSE 0
          /\ \A j \in 1 .. n - m + 1 : t[j] = list[m + j - 1]
      BY <3>1, <3>2, SubSeqProperties
    <3>4. ASSUME NEW j \in 1 .. n - i PROVE t[j] = list[i + j]
      <4>1. j \in 1 .. n - m + 1 /\ m + j - 1 = i + j
        BY <2>1 DEF m
      <4>2. QED
        BY <3>3, <4>1
    <3>5. Len(t) = n - i
      BY <2>1, <3>3 DEF m
    <3>6. QED
      BY <3>3, <3>4, <3>5
  <2> HIDE DEF s, t, n
  <2>4. /\ s \o t \in Seq(Account) /\ Len(s \o t) = Len(s) + Len(t)
        /\ \A j \in 1 .. Len(s) + Len(t) :
             (s \o t)[j] = IF j <= Len(s) THEN s[j] ELSE t[j - Len(s)]
    BY <2>2, <2>3, ConcatProperties, Zenon
  <2>5. Distinct(s \o t)
    <3> DEFINE at(j) == IF j < i THEN j ELSE j + 1
    <3>1. DOMAIN (s \o t) = 1 .. n - 1
      BY <2>1, <2>2, <2>3, <2>4
    <3>2. ASSUME NEW j \in 1 .. n - 1
          PROVE  at(j) \in DOMAIN list /\ (s \o t)[j] = list[at(j)]
      <4>1. j \in 1 .. Len(s) + Len(t)
        BY <2>1, <2>2, <2>3
      <4>2. (s \o t)[j] = IF j <= i - 1 THEN s[j] ELSE t[j - (i - 1)]
        BY <2>2, <2>4, <4>1
      <4>3. CASE j < i
        BY <2>1, <2>2, <4>2, <4>3
      <4>4. CASE ~(j < i)
        <5>1. (s \o t)[j] = t[j - (i - 1)] /\ j - (i - 1) \in 1 .. n - i
          BY <2>1, <4>2, <4>4
        <5>2. t[j - (i - 1)] = list[i + (j - (i - 1))] /\ i + (j - (i - 1)) = j + 1
          BY <2>1, <2>3, <5>1
        <5>3. QED
          BY <2>1, <4>4, <5>1, <5>2
      <4>5. QED
        BY <4>3, <4>4
    <3>3. ASSUME NEW j \in 1 .. n - 1, NEW k \in 1 .. n - 1, at(j) = at(k)
          PROVE  j = k
      BY <2>1, <3>3
    <3> HIDE DEF at
    <3>4. ASSUME NEW j \in 1 .. n - 1, NEW k \in 1 .. n - 1, (s \o t)[j] = (s \o t)[k]
          PROVE  j = k
      <4>1. at(j) = at(k)
        BY <3>2, <3>4 DEF Distinct
      <4>2. QED
        BY <3>3, <4>1
    <3>5. QED
      BY <3>1, <3>4 DEF Distinct
  <2>6. Without(list, id) = s \o t
    BY <1>2 DEF Without, s, t, n, i
  <2>7. QED
    BY <2>5, <2>6
<1>3. QED
  BY <1>1, <1>2

-----------------------------------------------------------------------------
(* The steps that keep accounts and clock: most leave the route sound, a   *)
(* renewed credential lifts the authentication failure of its account.     *)

(* The inductive invariant.                                                *)
DInv == Inv /\ Distinct(accounts) /\ Durable(route, now)

Calm == UNCHANGED <<accounts, now>> /\ Sound(route, route')

Renews ==
    /\ UNCHANGED <<accounts, now>> /\ CredentialRenewed(admin.target)
    /\ Durable(route', now)
    /\ Keeps(ClearAuthFailure(route.health, admin.target), route'.health, now)

LEMMA Stays ==
    ASSUME DInv
    PROVE  Sound(route, route)
BY KeepsReflexive DEF DInv, Inv, TypeOK, Route, Sound

LEMMA EnsuredSound ==
    ASSUME DInv, NEW w \in SomeWrites
    PROVE  /\ w \in Writes /\ w.save \in BOOLEAN /\ now \in Nat /\ accounts \in Seq(Account)
           /\ Ensured(w).route \in Route /\ Ensured(w).route.health = route.health
           /\ Durable(Ensured(w).route, now) /\ InStep(Ensured(w).route)
           /\ Sound(route, Ensured(w).route)
           /\ Ensured(w).ok => Settled(Ensured(w).route, accounts)
<1>1. /\ now \in Nat /\ accounts \in Seq(Account) /\ route \in Route /\ InStep(route)
      /\ route.health \in Health
  BY DEF DInv, Inv, TypeOK, Route, Durable
<1>2. /\ w \in Writes /\ w.save \in BOOLEAN /\ Ensured(w).route \in Route
      /\ Ensured(w).ok => Settled(Ensured(w).route, accounts)
  BY EnsuredType DEF DInv
<1>3. w.ensure \in BOOLEAN
  BY <1>2 DEF Writes
<1>4. Ensured(w).route.health = route.health /\ Durable(Ensured(w).route, now)
  BY <1>1, <1>3, EnsureDurable DEF DInv, Ensured
<1>5. Keeps(route.health, Ensured(w).route.health, now)
  BY <1>1, <1>4, KeepsReflexive
<1>6. QED
  BY <1>1, <1>2, <1>4, <1>5 DEF Sound, Durable

(* What follows an ensure inherits what the ensure kept.                   *)
LEMMA AfterEnsure ==
    ASSUME NEW E, E.health = route.health, NEW S, Sound(E, S)
    PROVE  Sound(route, S)
BY DEF Sound

LEMMA QuietCalm ==
    ASSUME DInv, UNCHANGED <<accounts, now>>, route' = route
    PROVE  Calm
BY Stays DEF Calm

LEMMA EnsureCalm ==
    ASSUME DInv, UNCHANGED <<accounts, now>>, NEW w \in SomeWrites, route' = Ensured(w).route
    PROVE  Calm
BY EnsuredSound DEF Calm

LEMMA ResolveCalm ==
    ASSUME DInv, NEW r \in Request, Resolve(r)
    PROVE  Calm
<1>1. UNCHANGED <<accounts, now>>
  BY DEF Resolve
<1>2. PICK w \in SomeWrites :
         LET e   == Ensured(w)
             adv == AdvanceActiveAccount(e.route, e.route.activeAccountID, accounts, w)
         IN  route' = e.route \/ route' = adv.route
  BY DEF Resolve
<1> DEFINE e   == Ensured(w)
           adv == AdvanceActiveAccount(e.route, e.route.activeAccountID, accounts, w)
<1>3. CASE route' = e.route
  BY <1>1, <1>3, EnsureCalm
<1>4. CASE route' = adv.route
  <2>1. Distinct(accounts)
    BY DEF DInv
  <2>2. adv.route.health = e.route.health /\ Durable(adv.route, now)
    BY <2>1, EnsuredSound, AdvanceDurable
  <2>3. Keeps(route.health, adv.route.health, now)
    BY <2>2, EnsuredSound DEF Sound
  <2>4. QED
    BY <1>1, <1>4, <2>2, <2>3 DEF Calm, Sound
<1>5. QED
  BY <1>2, <1>3, <1>4

LEMMA ConfirmCalm ==
    ASSUME DInv, NEW r \in Request, Confirm(r)
    PROVE  Calm
<1>1. UNCHANGED <<accounts, now>> /\ req[r].target \in Account /\ Distinct(accounts)
  BY DEF Confirm, DInv, Inv, LocalsOK, HandlerOK, Resolving
<1>2. PICK w \in SomeWrites :
         LET e == Ensured(w)
         IN  \/ route' = e.route
             \/ route' = RetireAfterValidation(e.route, accounts, req[r].target,
                                               req[r].valid, w).route
  BY DEF Confirm
<1>3. CASE route' = Ensured(w).route
  BY <1>1, <1>3, EnsureCalm
<1>4. CASE route' = RetireAfterValidation(Ensured(w).route, accounts, req[r].target,
                                          req[r].valid, w).route
  <2>1. Sound(Ensured(w).route, route')
    BY <1>1, <1>4, EnsuredSound, RetireSound
  <2>2. QED
    BY <1>1, <2>1, EnsuredSound, AfterEnsure DEF Calm
<1>5. QED
  BY <1>2, <1>3, <1>4

LEMMA PersistCalm ==
    ASSUME DInv, UNCHANGED <<accounts, now>>, NEW w \in SomeWrites, NEW F \in Route, InStep(F),
           Keeps(route.health, F.health, now), route' = PersistActiveAccount(F, w.save)
    PROVE  Calm
<1>1. w.save \in BOOLEAN /\ now \in Nat
  BY EnsuredSound
<1>2. PersistActiveAccount(F, w.save).health = F.health
      /\ Durable(PersistActiveAccount(F, w.save), now)
  BY <1>1, PersistDurable
<1>3. QED
  BY <1>2 DEF Calm, Sound

LEMMA RetryCalm ==
    ASSUME DInv, NEW r \in Request, Retry(r)
    PROVE  Calm
<1>1. UNCHANGED <<accounts, now>>
  BY DEF Retry
<1>2. PICK w \in SomeWrites :
         \/ route' = Ensured(w).route
         \/ route' = PersistActiveAccount(Ensured(w).route, w.save)
  BY DEF Retry
<1>3. Keeps(route.health, Ensured(w).route.health, now)
  BY EnsuredSound DEF Sound
<1>4. QED
  BY <1>1, <1>2, <1>3, EnsuredSound, EnsureCalm, PersistCalm

LEMMA ReconfirmCalm ==
    ASSUME DInv, NEW r \in Request, Reconfirm(r)
    PROVE  Calm
<1>1. UNCHANGED <<accounts, now>> /\ req[r].target \in Account
  BY DEF Reconfirm, DInv, Inv, LocalsOK, HandlerOK, Resolving
<1>2. PICK w \in SomeWrites :
         \/ route' = Ensured(w).route
         \/ route' = PersistActiveAccount(
                        RecordFailure(Ensured(w).route, req[r].target, req[r].valid), w.save)
  BY DEF Reconfirm
<1> DEFINE F == RecordFailure(Ensured(w).route, req[r].target, req[r].valid)
<1>3. F \in Route /\ InStep(F) /\ Keeps(Ensured(w).route.health, F.health, now)
  BY <1>1, EnsuredSound, RecordKeeps
<1>4. Keeps(route.health, F.health, now)
  BY <1>3, EnsuredSound
<1> HIDE DEF F
<1>5. CASE route' = PersistActiveAccount(F, w.save)
  BY <1>1, <1>3, <1>4, <1>5, PersistCalm
<1>6. QED
  BY <1>1, <1>2, <1>5, EnsureCalm DEF F

LEMMA LeasesCalm ==
    ASSUME DInv, NEW r \in Request, Begin(r) \/ LeaseNext(r)
    PROVE  Calm
<1>1. \E w \in SomeWrites : route' = Ensured(w).route
  BY DEF Begin, LeaseNext
<1>2. UNCHANGED <<accounts, now>>
  BY DEF Begin, LeaseNext
<1>3. QED
  BY <1>1, <1>2, EnsureCalm

(* The failure of a call is charged to the handler's own account.          *)
LEMMA ChargeCalm ==
    ASSUME DInv, NEW r \in Request,
           ContinuationFails(r) \/ Failover(r) \/ Terminal(r) \/ Succeed(r)
    PROVE  Calm
<1>1. UNCHANGED <<accounts, now>>
  BY DEF ContinuationFails, Failover, Terminal, Succeed
<1>2. req[r].account \in Account
  BY DEF ContinuationFails, Failover, Terminal, Succeed, DInv, Inv, LocalsOK, HandlerOK
<1>3. /\ route \in Route /\ InStep(route) /\ now \in Nat /\ accounts \in Seq(Account)
      /\ Distinct(accounts) /\ Durable(route, now)
  BY DEF DInv, Inv, TypeOK, Durable
<1>4. PICK w \in SomeWrites : \E kind :
         \/ route' = RecordFailureWithoutAdvance(route, req[r].account, kind, w)
         \/ route' = MarkAccountFailure(route, accounts, req[r].account, kind, w).route
         \/ route' = MarkAccountSuccess(route, accounts, req[r].account, w)
  BY DEF ContinuationFails, Failover, Terminal, Succeed
<1>5. w \in Writes
  BY EnsuredSound
<1>6. PICK kind :
         \/ route' = RecordFailureWithoutAdvance(route, req[r].account, kind, w)
         \/ route' = MarkAccountFailure(route, accounts, req[r].account, kind, w).route
         \/ route' = MarkAccountSuccess(route, accounts, req[r].account, w)
  BY <1>4
<1>7. QED
  BY <1>1, <1>2, <1>3, <1>5, <1>6, RecordFailureWithoutAdvanceSound,
     MarkAccountFailureSound, MarkAccountSuccessSound DEF Calm

LEMMA HandlerCalm ==
    ASSUME DInv, NEW r \in Request, Arrive(r) \/ HandlerStep(r), ~Validate(r)
    PROVE  Calm
<1>1. CASE \/ Arrive(r) \/ CallSucceeds(r) \/ CallAborted(r) \/ CallFails(r)
           \/ ReleaseOld(r) \/ IgnoreFailure(r) \/ Finish(r)
  BY <1>1, QuietCalm DEF Arrive, CallSucceeds, CallAborted, CallFails, ReleaseOld,
     IgnoreFailure, Finish
<1>2. QED
  BY <1>1, ResolveCalm, ConfirmCalm, RetryCalm, ReconfirmCalm, LeasesCalm, ChargeCalm
     DEF HandlerStep

LEMMA ReadsCalm ==
    ASSUME DInv, \/ SyncActiveAccount \/ ReadActiveAccount
                 \/ \E id \in Account : BeginRefresh(id)
    PROVE  Calm
<1>1. \E w \in SomeWrites : route' = Ensured(w).route
  BY DEF SyncActiveAccount, ReadActiveAccount, BeginRefresh
<1>2. UNCHANGED <<accounts, now>>
  BY DEF SyncActiveAccount, ReadActiveAccount, BeginRefresh
<1>3. QED
  BY <1>1, <1>2, EnsureCalm

LEMMA ClearedSound ==
    ASSUME DInv, UNCHANGED <<accounts, now>>, NEW E \in Route, InStep(E),
           E.health = route.health, NEW w \in SomeWrites, CredentialRenewed(admin.target),
           route' = PersistActiveAccount(
                      [E EXCEPT !.health = ClearAuthFailure(@, admin.target)], w.save)
    PROVE  Renews
<1> DEFINE F == [E EXCEPT !.health = ClearAuthFailure(@, admin.target)]
<1>1. E.health \in Health /\ ClearAuthFailure(E.health, admin.target) \in Health
  BY ClearAuthFailureType DEF Route
<1>2. /\ F \in Route /\ F.health = ClearAuthFailure(route.health, admin.target)
      /\ F.generation = E.generation /\ F.file = E.file
  BY <1>1 DEF Route
<1>3. route' = PersistActiveAccount(F, w.save)
  OBVIOUS
<1> HIDE DEF F
<1>4. InStep(F) /\ F.health \in Health /\ w.save \in BOOLEAN /\ now \in Nat
  BY <1>2, EnsuredSound DEF InStep, Route
<1>5. /\ PersistActiveAccount(F, w.save).health = F.health
      /\ Durable(PersistActiveAccount(F, w.save), now)
  BY <1>2, <1>4, PersistDurable
<1>6. Keeps(F.health, F.health, now)
  BY <1>4, KeepsReflexive
<1>7. QED
  BY <1>2, <1>3, <1>5, <1>6 DEF Renews

LEMMA ClearRenews ==
    ASSUME DInv, ClearAuthFailureAfterLogin
    PROVE  Renews
<1>1. PICK w \in SomeWrites :
         route' = PersistActiveAccount(
                    [route EXCEPT !.health = ClearAuthFailure(@, admin.target)], w.save)
  BY DEF ClearAuthFailureAfterLogin
<1>2. UNCHANGED <<accounts, now>> /\ CredentialRenewed(admin.target)
  BY DEF ClearAuthFailureAfterLogin, CredentialRenewed
<1>3. route \in Route /\ InStep(route)
  BY DEF DInv, Inv, TypeOK, Durable
<1>4. QED
  BY <1>1, <1>2, <1>3, ClearedSound

LEMMA ConfirmRefreshSound ==
    ASSUME DInv, ConfirmRefresh
    PROVE  Calm \/ Renews
<1>1. PICK w \in SomeWrites :
         \/ route' = Ensured(w).route
         \/ \E again \in SomeWrites :
              route' = RetireAfterRefresh(Ensured(w).route, accounts, admin.target,
                                          admin.valid, w, again.save)
         \/ route' = PersistActiveAccount(
              [Ensured(w).route EXCEPT !.health = ClearAuthFailure(@, admin.target)], w.save)
  BY DEF ConfirmRefresh
<1>2. /\ UNCHANGED <<accounts, now>> /\ CredentialRenewed(admin.target)
      /\ admin.target \in Account /\ Distinct(accounts)
  BY DEF ConfirmRefresh, CredentialRenewed, DInv, Inv, LocalsOK
<1>3. CASE route' = Ensured(w).route
  BY <1>2, <1>3, EnsureCalm
<1>4. CASE \E again \in SomeWrites :
             route' = RetireAfterRefresh(Ensured(w).route, accounts, admin.target,
                                         admin.valid, w, again.save)
  <2>1. PICK again \in SomeWrites :
          route' = RetireAfterRefresh(Ensured(w).route, accounts, admin.target,
                                      admin.valid, w, again.save)
    BY <1>4
  <2>2. Sound(Ensured(w).route, route')
    BY <1>2, <2>1, EnsuredSound, RetireSound
  <2>3. QED
    BY <1>2, <2>2, EnsuredSound, AfterEnsure DEF Calm
<1>5. CASE route' = PersistActiveAccount(
             [Ensured(w).route EXCEPT !.health = ClearAuthFailure(@, admin.target)], w.save)
  BY <1>2, <1>5, EnsuredSound, ClearedSound
<1>6. QED
  BY <1>1, <1>3, <1>4, <1>5

-----------------------------------------------------------------------------
(* The steps that change the list of accounts.                             *)

LEMMA ValidateLists ==
    ASSUME DInv, (\E r \in Request : Validate(r)) \/ ValidateRefresh
    PROVE  route' = route /\ now' = now /\ Distinct(accounts')
<1>1. PICK target \in Account : \E outcome : EnsureValid(target, outcome)
  BY DEF Validate, ValidateRefresh, DInv, Inv, LocalsOK, HandlerOK, Resolving
<1>2. accounts \in Seq(Account) /\ Distinct(accounts)
  BY DEF DInv, Inv, TypeOK
<1>3. \/ accounts' = accounts
      \/ accounts' = Append(accounts, target) /\ ~Listed(accounts, target)
  BY <1>1 DEF EnsureValid
<1>4. Distinct(accounts')
  BY <1>2, <1>3, AppendDistinct
<1>5. QED
  BY <1>4, ZenonT(60) DEF Validate, ValidateRefresh

LEMMA LoginLists ==
    ASSUME DInv, NEW id \in Account, Login(id)
    PROVE  route' = route /\ now' = now /\ Distinct(accounts')
<1>1. accounts \in Seq(Account) /\ Distinct(accounts)
  BY DEF DInv, Inv, TypeOK
<1>2. \/ accounts' = accounts
      \/ accounts' = Append(accounts, id) /\ ~Listed(accounts, id)
  BY DEF Login
<1>3. QED
  BY <1>1, <1>2, AppendDistinct DEF Login

LEMMA DeleteAccountLists ==
    ASSUME DInv, NEW id \in Account, DeleteAccount(id)
    PROVE  Sound(route, route') /\ now' = now /\ Distinct(accounts')
<1> DEFINE after == Without(accounts, id)
<1>1. PICK w \in SomeWrites :
         \/ /\ Ensured(w).ok /\ accounts' = after
            /\ route' = ActivateNeighbour(Ensured(w).route, accounts, after, id, w.save)
         \/ accounts' = accounts /\ route' = Ensured(w).route
  BY DEF DeleteAccount
<1>2. accounts \in Seq(Account) /\ Distinct(accounts) /\ now' = now
  BY DEF DeleteAccount, DInv, Inv, TypeOK
<1>3. after \in Seq(Account) /\ Distinct(after)
  BY <1>2, WithoutIsList, WithoutDistinct
<1> HIDE DEF after
<1>4. CASE accounts' = accounts /\ route' = Ensured(w).route
  BY <1>2, <1>4, EnsuredSound
<1>5. CASE /\ Ensured(w).ok /\ accounts' = after
           /\ route' = ActivateNeighbour(Ensured(w).route, accounts, after, id, w.save)
  <2>1. Sound(Ensured(w).route, route')
    BY <1>3, <1>5, EnsuredSound, ActivateNeighbourSound
  <2>2. QED
    BY <1>2, <1>3, <1>5, <2>1, EnsuredSound, AfterEnsure
<1>6. QED
  BY <1>1, <1>4, <1>5

-----------------------------------------------------------------------------
(* Time and crashes.                                                       *)

LEMMA TickDurable ==
    ASSUME DInv, Tick
    PROVE  route' = route /\ accounts' = accounts /\ Durable(route, now')
<1>1. /\ route \in Route /\ route.health \in Health /\ route.file.health \in Health
      /\ now \in Nat /\ now' = now + 1 /\ Durable(route, now)
  BY DEF Tick, DInv, Inv, TypeOK, Route, RouteFile
<1>2. ~route.unsaved => LiveHealth(route.file.health, now') = LiveHealth(route.health, now')
  BY <1>1, LiveHealthFacts DEF Durable, OnFile
<1>3. QED
  BY <1>1, <1>2 DEF Tick, Durable, OnFile

LEMMA RestartSound ==
    ASSUME DInv, Restart
    PROVE  /\ UNCHANGED <<accounts, now>> /\ Durable(route', now)
           /\ ~route.unsaved => Keeps(route.health, route'.health, now)
<1>1. /\ route \in Route /\ route.health \in Health /\ route.file.health \in Health
      /\ now \in Nat /\ accounts \in Seq(Account) /\ Durable(route, now)
      /\ route.file \in RouteFile
  BY DEF DInv, Inv, TypeOK, Route, RouteFile
<1>2. /\ UNCHANGED <<accounts, now>>
      /\ route' = InitializeAccountRouter(route.file, accounts)
  BY DEF Restart
<1>3. route'.health = LiveHealth(route.file.health, now) /\ Durable(route', now)
  BY <1>1, <1>2, InitializeDurable
<1>4. ASSUME ~route.unsaved
      PROVE  Keeps(route.health, route'.health, now)
  <2>1. route'.health = LiveHealth(route.health, now)
    BY <1>1, <1>3, <1>4 DEF Durable, OnFile
  <2>2. QED
    BY <1>1, <2>1, LiveHealthFacts
<1>5. QED
  BY <1>2, <1>3, <1>4

-----------------------------------------------------------------------------
(* The theorems.                                                           *)

(* What RestsAreKept asks of a step.                                       *)
RestsKept ==
    ~(route.unsaved /\ budget'.crashes < budget.crashes) =>
      \A a \in Account :
        /\ route.health.cooldown[a] > now' =>
              route'.health.cooldown[a] >= route.health.cooldown[a]
        /\ route.health.transient[a] > now' =>
              route'.health.transient[a] >= route.health.transient[a]
        /\ (a \in route.health.authFail /\ ~CredentialRenewed(a)) =>
              a \in route'.health.authFail

LEMMA KeepsRests ==
    ASSUME DInv, now' = now, Keeps(route.health, route'.health, now)
    PROVE  RestsKept
BY DEF RestsKept, Keeps, LongerRests

LEMMA SameRests ==
    ASSUME DInv, route' = route
    PROVE  RestsKept
<1>1. \A a \in Account : route.health.cooldown[a] \in Nat /\ route.health.transient[a] \in Nat
  BY DEF DInv, Inv, TypeOK, Route, Health
<1>2. QED
  BY <1>1 DEF RestsKept

LEMMA RenewsRests ==
    ASSUME DInv, Renews
    PROVE  RestsKept
<1> DEFINE h == ClearAuthFailure(route.health, admin.target)
<1>1. /\ h.cooldown = route.health.cooldown /\ h.transient = route.health.transient
      /\ h.authFail = route.health.authFail \ {admin.target}
  BY DEF ClearAuthFailure, DInv, Inv, TypeOK, Route, Health
<1>2. Keeps(h, route'.health, now) /\ now' = now
  BY DEF Renews
<1> HIDE DEF h
<1>3. \A a \in Account : ~CredentialRenewed(a) => a # admin.target
  BY DEF Renews
<1>4. QED
  BY <1>1, <1>2, <1>3 DEF RestsKept, Keeps, LongerRests

LEMMA StepSound ==
    ASSUME DInv, [Next]_vars
    PROVE  RestsKept /\ Distinct(accounts') /\ Durable(route', now')
<1>1. CASE Calm
  BY <1>1, KeepsRests DEF Calm, Sound, DInv
<1>2. CASE Renews
  BY <1>2, RenewsRests DEF Renews, DInv
<1>3. CASE route' = route /\ now' = now /\ Distinct(accounts')
  BY <1>3, SameRests DEF DInv
<1>4. CASE \E r \in Request : Arrive(r) \/ HandlerStep(r)
  <2>1. PICK r \in Request : Arrive(r) \/ HandlerStep(r)
    BY <1>4
  <2>2. CASE Validate(r)
    BY <1>3, <2>2, ValidateLists
  <2>3. CASE ~Validate(r)
    BY <1>1, <2>1, <2>3, HandlerCalm
  <2>4. QED
    BY <2>2, <2>3
<1>5. CASE \E id \in Account : DeleteAccount(id)
  <2>1. Sound(route, route') /\ now' = now /\ Distinct(accounts')
    BY <1>5, DeleteAccountLists
  <2>2. QED
    BY <2>1, KeepsRests DEF Sound
<1>6. CASE (\E id \in Account : Login(id)) \/ ValidateRefresh
  BY <1>3, <1>6, LoginLists, ValidateLists
<1>7. CASE \/ SyncActiveAccount \/ ReadActiveAccount
           \/ \E id \in Account : BeginRefresh(id)
  BY <1>1, <1>7, ReadsCalm
<1>8. CASE ClearAuthFailureAfterLogin \/ ConfirmRefresh
  BY <1>1, <1>2, <1>8, ClearRenews, ConfirmRefreshSound
<1>9. CASE Tick
  <2>1. route' = route /\ accounts' = accounts /\ Durable(route, now')
    BY <1>9, TickDurable
  <2>2. QED
    BY <2>1, SameRests DEF DInv
<1>10. CASE Restart
  <2>1. /\ UNCHANGED <<accounts, now>> /\ Durable(route', now)
        /\ ~route.unsaved => Keeps(route.health, route'.health, now)
    BY <1>10, RestartSound
  <2>2. budget'.crashes < budget.crashes
    BY <1>10 DEF Restart, DInv, Inv, TypeOK, Budget
  <2>3. RestsKept
    BY <2>1, <2>2, KeepsRests DEF RestsKept
  <2>4. QED
    BY <2>1, <2>3 DEF DInv
<1>11. CASE UNCHANGED vars
  BY <1>3, <1>11 DEF vars, DInv
<1>12. QED
  BY <1>4, <1>5, <1>6, <1>7, <1>8, <1>9, <1>10, <1>11 DEF Next, AdminStep

LEMMA NextDurable == DInv /\ [Next]_vars => DInv'
<1>1. Inv /\ [Next]_vars => Inv'
  BY StepGood
<1>2. QED
  BY <1>1, StepSound DEF DInv

LEMMA InitDurable == Init => DInv
<1> SUFFICES ASSUME Init PROVE DInv
  OBVIOUS
<1>1. Inv
  BY InitGood
<1>2. NoFile \in RouteFile
  BY NewHealthType DEF NoFile, RouteFile, MaybeAccount
<1>3. /\ accounts \in Seq(Account) /\ now \in Nat
      /\ route = InitializeAccountRouter(NoFile, accounts)
  BY <1>1 DEF Init, Inv, TypeOK
<1>4. Durable(route, now)
  BY <1>2, <1>3, InitializeDurable
<1>5. Distinct(accounts)
  BY AccountsAreDistinct DEF Init, Distinct
<1>6. QED
  BY <1>1, <1>4, <1>5 DEF DInv

LEMMA SpecKeepsDInv == Spec => []DInv
<1>1. QED
  BY InitDurable, NextDurable, PTL DEF Spec

(* Whatever writes of the route file fail (persistActiveAccountLocked),    *)
(* the file never runs ahead of the route or behind it, and unless its     *)
(* last write failed it holds every unexpired rest, every authentication   *)
(* failure and the account a restart resumes.                              *)
THEOREM HealthIsOnFile == Spec => []RouteIsDurable
<1>1. DInv => RouteIsDurable
  BY DEF DInv, Durable, InStep, OnFile, RouteIsDurable
<1>2. QED
  BY <1>1, SpecKeepsDInv, PTL

(* No late success, milder failure, deletion, refresh or restart shortens  *)
(* an unexpired rest, and only a renewed credential lifts an               *)
(* authentication failure (markAccountResult, recordAccountFailure,        *)
(* initializeAccountRouter).                                               *)
THEOREM RestsOutliveEverything == Spec => RestsAreKept
<1>1. DInv /\ [Next]_vars => [RestsKept]_vars
  BY StepSound
<1>2. QED
  BY <1>1, SpecKeepsDInv, PTL DEF Spec, RestsAreKept, RestsKept

LEMMA OthersAreSuccessors ==
    ASSUME NEW list \in Seq(Account), NEW id, Listed(list, id),
           NEW a \in Account, a # id, Listed(list, a)
    PROVE  \E k \in 1 .. Len(list) - 1 : Successor(list, id, k) = a
<1> DEFINE i == IndexByID(list, id)
           j == IndexByID(list, a)
           n == Len(list)
           k == IF j > i THEN j - i ELSE j - i + n
<1>1. /\ i \in 1 .. n /\ list[i] = id /\ j \in 1 .. n /\ list[j] = a
      /\ n \in Nat /\ n > 0
  BY IndexInList
<1>2. i # j
  BY <1>1
<1> HIDE DEF i, j, n
<1>3. k \in 1 .. n - 1
  BY <1>1, <1>2
<1>4. (i - 1 + k) % n = j - 1
  <2>1. j - 1 \in Nat /\ j - 1 < n
    BY <1>1
  <2>2. (j - 1) % n = j - 1 /\ ((j - 1) + n) % n = j - 1
    BY <1>1, <2>1, SmallMod
  <2>3. i - 1 + k = j - 1 \/ i - 1 + k = (j - 1) + n
    BY <1>1
  <2>4. QED
    BY <2>2, <2>3
<1>5. list[((i - 1 + k) % n) + 1] = a
  BY <1>1, <1>4
<1>6. Successor(list, id, k) = a
  BY <1>5 DEF Successor, i, n
<1>7. QED
  BY <1>3, <1>6 DEF n

(* nextAvailableAccountLocked goes once around the ring: whatever was      *)
(* deleted or appended, every other available account is a candidate, and  *)
(* the active one is not.                                                  *)
THEOREM EveryAccountIsReached == Spec => []RotationReachesEveryAccount
<1>1. ASSUME DInv, Listed(accounts, route.activeAccountID)
      PROVE  {Successor(accounts, route.activeAccountID, k) :
                 k \in AvailableOffsets(route, accounts, route.activeAccountID)}
             = {a \in Account \ {route.activeAccountID} :
                   Listed(accounts, a) /\ Available(route.health, a, now)}
  <2> DEFINE id   == route.activeAccountID
             ks   == AvailableOffsets(route, accounts, id)
             next == {Successor(accounts, id, k) : k \in ks}
             rest == {a \in Account \ {id} :
                        Listed(accounts, a) /\ Available(route.health, a, now)}
  <2>1. accounts \in Seq(Account) /\ Distinct(accounts)
    BY <1>1 DEF DInv, Inv, TypeOK
  <2>2. ASSUME NEW k \in ks
        PROVE  Successor(accounts, id, k) \in rest
    <3>1. k \in 1 .. Len(accounts) - 1 /\ Available(route.health, Successor(accounts, id, k), now)
      BY <2>2 DEF AvailableOffsets
    <3>2. k \in Nat
      BY <2>1, <3>1
    <3>3. Successor(accounts, id, k) # id /\ Successor(accounts, id, k) \in Account
      BY <1>1, <2>1, <3>1, <3>2, SuccessorLeaves, SuccessorInList
    <3>4. Listed(accounts, Successor(accounts, id, k))
      BY <1>1, <2>1, <3>2, SuccessorListed
    <3>5. QED
      BY <3>1, <3>3, <3>4
  <2>3. ASSUME NEW a \in rest
        PROVE  a \in next
    <3>1. PICK k \in 1 .. Len(accounts) - 1 : Successor(accounts, id, k) = a
      BY <1>1, <2>1, OthersAreSuccessors
    <3>2. k \in ks
      BY <3>1 DEF AvailableOffsets
    <3>3. QED
      BY <3>1, <3>2
  <2>4. QED
    BY <2>2, <2>3
<1>2. DInv => RotationReachesEveryAccount
  BY <1>1 DEF RotationReachesEveryAccount
<1>3. QED
  BY <1>2, SpecKeepsDInv, PTL

-----------------------------------------------------------------------------
(* Whom a failure takes the route from, and whom it is given to.           *)

(* A rest that was charged for a failure is not over at once.              *)
LEMMA FailureRests ==
    ASSUME NEW h \in Health, NEW a \in Account, NEW kind, kind # "rate_elapsed", NEW t \in Nat
    PROVE  ~Available(RecordAccountFailureHealth(h, a, kind, t), a, t)
<1> USE RestAssumption, RestsLast
<1>1. ASSUME NEW d \in [Account -> Nat], NEW until \in Nat, until > t
      PROVE  ExtendDeadline(d, a, until)[a] > t
  BY <1>1 DEF ExtendDeadline
<1>2. ASSUME NEW until \in Nat, until > t
      PROVE  ~Available(MarkCooldown(h, a, until), a, t) /\ ~Available(MarkTransient(h, a, until), a, t)
  <2>1. /\ MarkCooldown(h, a, until).cooldown = ExtendDeadline(h.cooldown, a, until)
        /\ MarkTransient(h, a, until).transient = ExtendDeadline(h.transient, a, until)
        /\ h.cooldown \in [Account -> Nat] /\ h.transient \in [Account -> Nat]
    BY DEF MarkCooldown, MarkTransient, Health
  <2>2. /\ ExtendDeadline(h.cooldown, a, until)[a] > t
        /\ ExtendDeadline(h.transient, a, until)[a] > t
    BY <1>1, <1>2, <2>1
  <2>3. /\ ExtendDeadline(h.cooldown, a, until)[a] \in Nat
        /\ ExtendDeadline(h.transient, a, until)[a] \in Nat
    BY <1>2, <2>1 DEF ExtendDeadline
  <2>4. QED
    BY <2>1, <2>2, <2>3 DEF Available
<1>3. ~Available(MarkAuthFail(h, a), a, t)
  BY DEF MarkAuthFail, Available, Health
<1>4. /\ t + PolicyRest \in Nat /\ t + PolicyRest > t /\ t + QuotaRest \in Nat /\ t + QuotaRest > t
      /\ t + RateRest \in Nat /\ t + RateRest > t
      /\ t + TransientRest \in Nat /\ t + TransientRest > t
  OBVIOUS
<1>5. QED
  BY <1>2, <1>3, <1>4 DEF RecordAccountFailureHealth

LEMMA CircuitStays ==
    ASSUME NEW R \in Route
    PROVE  /\ \A ok : /\ PersistActiveAccount(R, ok).upstreamCircuitUntil = R.upstreamCircuitUntil
                      /\ PersistActiveAccount(R, ok).activeAccountID = R.activeAccountID
           /\ \A id, ok : ActivateAccount(R, id, ok).route.upstreamCircuitUntil = R.upstreamCircuitUntil
<1>1. ASSUME NEW S, NEW ok, S.upstreamCircuitUntil = R.upstreamCircuitUntil,
             DOMAIN S = DOMAIN R
      PROVE  /\ PersistActiveAccount(S, ok).upstreamCircuitUntil = R.upstreamCircuitUntil
             /\ PersistActiveAccount(S, ok).activeAccountID = S.activeAccountID
  BY <1>1 DEF PersistActiveAccount, Route
<1>2. ASSUME NEW id, NEW ok
      PROVE  ActivateAccount(R, id, ok).route.upstreamCircuitUntil = R.upstreamCircuitUntil
  <2> DEFINE moved == [R EXCEPT !.activeAccountID = id, !.generation = @ + 1]
  <2>1. moved.upstreamCircuitUntil = R.upstreamCircuitUntil /\ DOMAIN moved = DOMAIN R
    BY DEF Route
  <2>2. \/ ActivateAccount(R, id, ok).route = R
        \/ ActivateAccount(R, id, ok).route = PersistActiveAccount(moved, ok)
        \/ ActivateAccount(R, id, ok).route = PersistActiveAccount(R, ok)
    BY DEF ActivateAccount
  <2> HIDE DEF moved
  <2>3. QED
    BY <1>1, <2>1, <2>2
<1>3. QED
  BY <1>1, <1>2

LEMMA EnsureStays ==
    ASSUME NEW R \in Route, NEW list \in Seq(Account), NEW ok
    PROVE  LET e == EnsureActiveAccount(R, list, ok)
           IN  /\ e.route.upstreamCircuitUntil = R.upstreamCircuitUntil
               /\ Listed(list, R.activeAccountID) => e.route.activeAccountID = R.activeAccountID
<1> DEFINE e  == EnsureActiveAccount(R, list, ok)
           id == IF Listed(list, R.activeAccountID) THEN R.activeAccountID ELSE list[1]
<1>1. CASE list = <<>>
  <2>1. e = [route |-> [R EXCEPT !.activeAccountID = NoAccount], ok |-> TRUE]
    BY <1>1 DEF EnsureActiveAccount
  <2>2. e.route.upstreamCircuitUntil = R.upstreamCircuitUntil
    BY <2>1 DEF Route
  <2>3. ~Listed(list, R.activeAccountID)
    BY <1>1 DEF Listed
  <2>4. QED
    BY <2>2, <2>3
<1>2. CASE list # <<>>
  <2>1. e = ActivateAccount(R, id, ok)
    BY <1>2 DEF EnsureActiveAccount
  <2>2. Listed(list, R.activeAccountID) => e.route = R
    BY <2>1 DEF ActivateAccount
  <2> HIDE DEF e, id
  <2>3. e.route.upstreamCircuitUntil = R.upstreamCircuitUntil
    BY <2>1, CircuitStays
  <2>4. QED
    BY <2>2, <2>3 DEF e
<1>3. QED
  BY <1>1, <1>2

LEMMA FirstAvailableIsAvailable ==
    ASSUME NEW R, NEW list \in Seq(Account), NEW id, Listed(list, id),
           AvailableOffsets(R, list, id) # {}
    PROVE  /\ Available(R.health, FirstAvailable(R, list, id), now)
           /\ Listed(list, FirstAvailable(R, list, id))
<1> DEFINE S == AvailableOffsets(R, list, id)
           k == CHOOSE i \in S : \A j \in S : i <= j
<1>1. S \subseteq Nat
  BY IndexInList DEF AvailableOffsets
<1>2. k \in S
  BY <1>1, LeastExists
<1>3. k \in Nat /\ Available(R.health, Successor(list, id, k), now)
  BY <1>1, <1>2 DEF AvailableOffsets
<1>4. Listed(list, Successor(list, id, k))
  BY <1>3, SuccessorListed
<1>5. QED
  BY <1>3, <1>4 DEF FirstAvailable

(* Who wins the swap gives the route from the account that failed to one   *)
(* that may be used.                                                       *)
LEMMA AdvanceLeaves ==
    ASSUME NEW R \in Route, InStep(R), NEW id, NEW list \in Seq(Account), Distinct(list),
           NEW w \in Writes, now \in Nat
    PROVE  LET adv == AdvanceActiveAccount(R, id, list, w)
           IN  /\ adv.route.upstreamCircuitUntil = R.upstreamCircuitUntil
               /\ adv.route.health = R.health
               /\ adv.advanced =>
                     /\ adv.route.activeAccountID # id
                     /\ Listed(list, adv.route.activeAccountID)
                     /\ Available(adv.route.health, adv.route.activeAccountID, now)
                     /\ Listed(list, R.activeAccountID) => id = R.activeAccountID
<1> DEFINE e    == EnsureActiveAccount(R, list, w.ensure)
           held == \/ ~e.ok \/ e.route.activeAccountID # id
                   \/ AvailableOffsets(e.route, list, id) = {}
           next == FirstAvailable(e.route, list, id)
           a    == ActivateAccount(e.route, next, w.save)
           adv  == AdvanceActiveAccount(R, id, list, w)
<1>1. w.ensure \in BOOLEAN /\ w.save \in BOOLEAN
  BY DEF Writes
<1>2. /\ e.route \in Route /\ e.ok \in BOOLEAN
      /\ e.ok => Settled(e.route, list)
  BY <1>1, EnsureActiveAccountType
<1>7. /\ e.route.upstreamCircuitUntil = R.upstreamCircuitUntil
      /\ Listed(list, R.activeAccountID) => e.route.activeAccountID = R.activeAccountID
  BY <1>1, EnsureStays
<1>8. a.route.upstreamCircuitUntil = e.route.upstreamCircuitUntil
  <2> DEFINE E == e.route
  <2>1. E \in Route
    BY <1>2
  <2> HIDE DEF E
  <2>2. ActivateAccount(E, next, w.save).route.upstreamCircuitUntil = E.upstreamCircuitUntil
    BY <2>1, CircuitStays
  <2>3. QED
    BY <2>2 DEF E
<1>3. adv.route.health = R.health
  BY AdvanceDurable
<1>4. CASE held
  <2>1. adv.route = e.route /\ adv.advanced = FALSE
    BY <1>4 DEF AdvanceActiveAccount
  <2>2. QED
    BY <1>3, <1>7, <2>1
<1>5. CASE ~held
  <2>1. adv.route = a.route /\ adv.advanced = a.ok
    BY <1>5 DEF AdvanceActiveAccount
  <2>2. e.ok /\ e.route.activeAccountID = id /\ AvailableOffsets(e.route, list, id) # {}
    BY <1>5
  <2>3. list # <<>>
    BY <2>2 DEF AvailableOffsets
  <2>4. Listed(list, id)
    BY <1>2, <1>5, <2>3 DEF Settled
  <2>5. /\ next \in MaybeAccount /\ next # id /\ Listed(list, next)
        /\ Available(e.route.health, next, now)
    BY <2>2, <2>4, FirstAvailableInList, FirstAvailableLeaves, FirstAvailableIsAvailable DEF MaybeAccount
  <2>6. a.ok => a.route.activeAccountID = next
    BY <1>1, <1>2, <2>5, ActivateAccountType
  <2>7. a.route.upstreamCircuitUntil = R.upstreamCircuitUntil
    BY <1>7, <1>8
  <2>8. e.route.health = R.health
    BY <1>1, EnsureDurable
  <2> HIDE DEF e, a, next, adv
  <2>9. adv.route.upstreamCircuitUntil = R.upstreamCircuitUntil
    BY <2>1, <2>7
  <2>10. adv.advanced =>
           /\ adv.route.activeAccountID = next
           /\ Available(adv.route.health, next, now)
    BY <1>3, <2>1, <2>5, <2>6, <2>8
  <2>11. QED
    BY <1>3, <1>7, <2>2, <2>5, <2>9, <2>10 DEF adv
<1>6. QED
  BY <1>4, <1>5

(* The rotation that follows a failure of `id' or a resting account.       *)
LEMMA RotationLeaves ==
    ASSUME NEW R \in Route, NEW F \in Route, InStep(F), NEW list \in Seq(Account), Distinct(list),
           Listed(list, R.activeAccountID) => F.activeAccountID = R.activeAccountID,
           NEW id, NEW w \in Writes, now \in Nat,
           AdvanceActiveAccount(F, id, list, w).advanced
    PROVE  LET S == AdvanceActiveAccount(F, id, list, w).route
           IN  /\ S.activeAccountID # R.activeAccountID
               /\ Available(S.health, S.activeAccountID, now)
               /\ Listed(list, R.activeAccountID) /\ ~Available(F.health, id, now) =>
                     ~Available(S.health, R.activeAccountID, now)
<1> DEFINE S == AdvanceActiveAccount(F, id, list, w).route
<1>1. /\ S.health = F.health /\ S.activeAccountID # id
      /\ Listed(list, S.activeAccountID)
      /\ Available(S.health, S.activeAccountID, now)
      /\ Listed(list, F.activeAccountID) => id = F.activeAccountID
  BY AdvanceLeaves
<1> HIDE DEF S
<1>2. Listed(list, R.activeAccountID) => id = R.activeAccountID
  BY <1>1
<1>3. S.activeAccountID # R.activeAccountID
  BY <1>1, <1>2
<1>4. QED
  BY <1>1, <1>2, <1>3 DEF S

(* What a recorded failure leaves alone, and what it charges.              *)
LEMMA RecordedFailure ==
    ASSUME NEW R \in Route, InStep(R), NEW id \in Account, NEW kind, now \in Nat
    PROVE  LET F == RecordFailure(R, id, kind)
               o == ObserveSharedFailure(F, id, kind).route
           IN  /\ F \in Route /\ InStep(F) /\ F.activeAccountID = R.activeAccountID
               /\ o \in Route /\ InStep(o) /\ o.activeAccountID = R.activeAccountID
               /\ kind # "rate_elapsed" => /\ ~Available(F.health, id, now)
                                           /\ ~Available(o.health, id, now)
<1> DEFINE F == RecordFailure(R, id, kind)
           o == ObserveSharedFailure(F, id, kind).route
<1>1. F \in Route /\ InStep(F) /\ o \in Route /\ InStep(o)
  BY RecordKeeps
<1>2. F.activeAccountID = R.activeAccountID
  BY RecordFailureType DEF SameIdentity
<1>3. F.health = RecordAccountFailureHealth(R.health, id, kind, now) /\ R.health \in Health
  BY DEF RecordFailure, Route
<1>4. kind # "rate_elapsed" => ~Available(F.health, id, now)
  BY <1>3, FailureRests
<1> HIDE DEF F
<1>5. o.activeAccountID = F.activeAccountID
  BY <1>1, ObserveSharedFailureType DEF SameIdentity
<1>6. o.health = F.health
  BY <1>1 DEF ObserveSharedFailure, Route
<1>7. QED
  BY <1>1, <1>2, <1>4, <1>5, <1>6 DEF F

(* What OnlyRestingAccountsAreLeft asks of the handler r that moved.       *)
LeavesForRest(r) ==
    /\ route.activeAccountID # route'.activeAccountID
    /\ ActiveAvailable(route')
    /\ Listed(accounts, route.activeAccountID) /\ ~RestIsOver(req[r]) =>
          ~Available(route'.health, route.activeAccountID, now)

LEMMA StartsInStep ==
    ASSUME DInv
    PROVE  /\ route \in Route /\ InStep(route) /\ now \in Nat /\ accounts \in Seq(Account)
           /\ Distinct(accounts)
           /\ \A r \in Request : req[r] \in Handler /\ req[r].moves \in Nat
BY DEF DInv, Inv, TypeOK, Durable, Handler

(* A handler that keeps its locals has moved nothing.                      *)
LEMMA MovesOf ==
    ASSUME DInv, NEW r \in Request
    PROVE  /\ \A h : Become(r, h) => req'[r] = h
           /\ \A pc : Goto(r, pc) => req'[r].moves = req[r].moves
           /\ \A pc, R : Snapshot(r, pc, R) => req'[r].moves = req[r].moves
           /\ \A pc, m : GotoAfterMove(r, pc, m) /\ ~m => req'[r].moves = req[r].moves
<1>1. req[r] \in Handler /\ \A h : Become(r, h) => req'[r] = h
  BY DEF Become, DInv, Inv, TypeOK
<1>2. ASSUME NEW pc, Goto(r, pc) PROVE req'[r].moves = req[r].moves
  <2>1. Continue(r, pc).moves = req[r].moves
    BY <1>1 DEF Continue, Handler
  <2>2. QED
    BY <1>1, <1>2, <2>1 DEF Goto
<1>3. ASSUME NEW pc, NEW m, GotoAfterMove(r, pc, m), ~m PROVE req'[r].moves = req[r].moves
  <2> DEFINE h == [Continue(r, pc) EXCEPT !.moves = IF m THEN @ + 1 ELSE @]
  <2>1. h.moves = req[r].moves
    BY <1>1, <1>3 DEF Continue, Handler
  <2>2. Become(r, h)
    BY <1>3 DEF GotoAfterMove
  <2> HIDE DEF h
  <2>3. QED
    BY <1>1, <2>1, <2>2
<1>4. ASSUME NEW pc, NEW R, Snapshot(r, pc, R) PROVE req'[r].moves = req[r].moves
  <2> DEFINE h == [req[r] EXCEPT !.pc = pc, !.target = R.activeAccountID,
                                 !.generation = R.generation]
  <2>1. h.moves = req[r].moves
    BY <1>1 DEF Handler
  <2>2. Become(r, h)
    BY <1>4 DEF Snapshot
  <2> HIDE DEF h
  <2>3. QED
    BY <1>1, <2>1, <2>2
<1>5. QED
  BY <1>1, <1>2, <1>3, <1>4

LEMMA ResolveLeaves ==
    ASSUME DInv, NEW r \in Request, Resolve(r), req'[r].moves > req[r].moves
    PROVE  LeavesForRest(r)
<1>1. PICK w \in SomeWrites :
         LET e   == Ensured(w)
             adv == AdvanceActiveAccount(e.route, e.route.activeAccountID, accounts, w)
         IN  \/ Goto(r, "retry")
             \/ /\ ~ActiveAvailable(e.route) /\ route' = adv.route
                /\ GotoAfterMove(r, "retry", adv.advanced)
             \/ Snapshot(r, "validate", e.route)
  BY DEF Resolve
<1> DEFINE E   == Ensured(w).route
           adv == AdvanceActiveAccount(E, E.activeAccountID, accounts, w)
<1>2. /\ E \in Route /\ InStep(E) /\ w \in Writes
      /\ Listed(accounts, route.activeAccountID) => E.activeAccountID = route.activeAccountID
  <2>1. w.ensure \in BOOLEAN
    BY EnsuredSound DEF Writes
  <2>2. QED
    BY <2>1, EnsuredSound, StartsInStep, EnsureStays DEF Ensured
<1>3. req'[r].moves # req[r].moves
  BY StartsInStep
<1>4. ~Available(E.health, E.activeAccountID, now) /\ route' = adv.route /\ adv.advanced
  BY <1>1, <1>3, MovesOf DEF ActiveAvailable
<1> HIDE DEF E
<1>6. /\ adv.route.activeAccountID # route.activeAccountID
      /\ Available(adv.route.health, adv.route.activeAccountID, now)
      /\ Listed(accounts, route.activeAccountID) =>
            ~Available(adv.route.health, route.activeAccountID, now)
  BY <1>2, <1>4, StartsInStep, RotationLeaves
<1> HIDE DEF adv
<1>7. QED
  BY <1>4, <1>6 DEF LeavesForRest, ActiveAvailable

LEMMA ConfirmLeaves ==
    ASSUME DInv, NEW r \in Request, Confirm(r), req'[r].moves > req[r].moves
    PROVE  LeavesForRest(r)
<1> DEFINE target == req[r].target
           kind   == req[r].valid
<1>1. req[r].pc = "confirm" /\ target \in Account
  BY DEF Confirm, DInv, Inv, LocalsOK, HandlerOK, Resolving
<1>2. PICK w \in SomeWrites :
         LET e    == Ensured(w)
             fail == RetireAfterValidation(e.route, accounts, target, kind, w)
         IN  \/ Goto(r, "retry")
             \/ /\ route' = fail.route
                /\ GotoAfterMove(r, "retry", fail.advanced)
             \/ Resolved(r, FALSE)
  BY DEF Confirm
<1>3. ~Resolved(r, FALSE) /\ ~Goto(r, "retry")
  <2>1. req'[r].moves # req[r].moves
    BY StartsInStep
  <2>2. ASSUME NEW s, Become(r, [Continue(r, "start") EXCEPT !.account = target, !.switched = s])
        PROVE  FALSE
    <3> DEFINE h == [Continue(r, "start") EXCEPT !.account = target, !.switched = s]
    <3>1. h.moves = req[r].moves
      BY StartsInStep DEF Continue, Handler
    <3>2. Become(r, h)
      BY <2>2
    <3> HIDE DEF h
    <3>3. QED
      BY <2>1, <3>1, <3>2, MovesOf
  <2>3. ~Goto(r, "retry") /\ ~Goto(r, "release")
    BY <2>1, MovesOf
  <2>4. QED
    BY <2>2, <2>3 DEF Resolved
<1> DEFINE E   == Ensured(w).route
           F   == RecordFailure(E, target, kind)
           adv == AdvanceActiveAccount(F, target, accounts, w)
<1>4. /\ E \in Route /\ InStep(E) /\ w \in Writes
      /\ Listed(accounts, route.activeAccountID) => E.activeAccountID = route.activeAccountID
  <2>1. w.ensure \in BOOLEAN
    BY EnsuredSound DEF Writes
  <2>2. QED
    BY <2>1, EnsuredSound, StartsInStep, EnsureStays DEF Ensured
<1>5. adv.advanced /\ route' = adv.route
  <2> DEFINE fail == RetireAfterValidation(E, accounts, target, kind, w)
  <2>1. req'[r].moves # req[r].moves
    BY StartsInStep
  <2>2. route' = fail.route /\ GotoAfterMove(r, "retry", fail.advanced)
    BY <1>2, <1>3
  <2>3. route' = fail.route /\ fail.advanced
    <3> HIDE DEF fail
    <3>1. QED
      BY <2>1, <2>2, MovesOf
  <2>4. /\ fail.advanced = adv.advanced
        /\ fail.route = IF adv.ok /\ ~adv.advanced
                        THEN PersistActiveAccount(adv.route, w.save) ELSE adv.route
    BY DEF RetireAfterValidation
  <2> HIDE DEF fail, adv
  <2>5. QED
    BY <2>3, <2>4
<1> HIDE DEF E
<1>6. /\ F \in Route /\ InStep(F) /\ F.activeAccountID = E.activeAccountID
      /\ kind # "rate_elapsed" => ~Available(F.health, target, now)
  BY <1>1, <1>4, StartsInStep, RecordedFailure
<1> HIDE DEF F, target, kind
<1>7. Listed(accounts, route.activeAccountID) => F.activeAccountID = route.activeAccountID
  BY <1>4, <1>6
<1>8. /\ adv.route.activeAccountID # route.activeAccountID
      /\ Available(adv.route.health, adv.route.activeAccountID, now)
      /\ Listed(accounts, route.activeAccountID) /\ ~Available(F.health, target, now) =>
            ~Available(adv.route.health, route.activeAccountID, now)
  BY <1>4, <1>5, <1>6, <1>7, StartsInStep, RotationLeaves
<1>9. ~RestIsOver(req[r]) => ~Available(F.health, target, now)
  BY <1>1, <1>6 DEF RestIsOver, kind
<1> HIDE DEF adv
<1>10. QED
  BY <1>5, <1>8, <1>9 DEF LeavesForRest, ActiveAvailable

(* The failure of a call.  In an outage of the upstream nobody moves.      *)
LEMMA MarkLeaves ==
    ASSUME DInv, NEW r \in Request, req[r].pc \in Charging, req[r].account \in Account,
           NEW w \in Writes,
           NEW m, m = MarkAccountFailure(route, accounts, req[r].account, req[r].error, w),
           route' = m.route, UNCHANGED now
    PROVE  /\ m.advanced => LeavesForRest(r)
           /\ CircuitOpen(route') => route'.activeAccountID = route.activeAccountID
<1> DEFINE id   == req[r].account
           kind == req[r].error
           o    == ObserveSharedFailure(RecordFailure(route, id, kind), id, kind)
           O    == o.route
           held == ~IsUpstreamAccountFailure(kind) \/ o.opened \/ CircuitOpen(O)
           adv  == AdvanceActiveAccount(O, id, accounts, w)
<1>1. /\ O \in Route /\ InStep(O) /\ O.activeAccountID = route.activeAccountID
      /\ kind # "rate_elapsed" => ~Available(O.health, id, now)
  BY StartsInStep, RecordedFailure
<1>2. CASE held
  <2>1. m.route = PersistActiveAccount(O, w.save) /\ ~m.advanced
    BY <1>2 DEF MarkAccountFailure
  <2> HIDE DEF O
  <2>2. PersistActiveAccount(O, w.save).activeAccountID = O.activeAccountID
    BY <1>1, CircuitStays
  <2>3. QED
    BY <1>1, <2>1, <2>2, SMTT(30)
<1>3. CASE ~held
  <2>1. /\ m.route = IF adv.ok /\ ~adv.advanced
                     THEN PersistActiveAccount(adv.route, w.save) ELSE adv.route
        /\ m.advanced = adv.advanced
    BY <1>3 DEF MarkAccountFailure
  <2>2. ~CircuitOpen(O)
    BY <1>3
  <2> HIDE DEF O, held, id, kind
  <2>3. adv.route \in Route /\ adv.route.upstreamCircuitUntil = O.upstreamCircuitUntil
    BY <1>1, StartsInStep, AdvanceActiveAccountType, AdvanceLeaves
  <2>4. ~CircuitOpen(route')
    <3> DEFINE A == adv.route
    <3>1. A \in Route /\ A.upstreamCircuitUntil = O.upstreamCircuitUntil
          /\ route' \in {A, PersistActiveAccount(A, w.save)}
      BY <2>1, <2>3
    <3> HIDE DEF A
    <3>2. route'.upstreamCircuitUntil = O.upstreamCircuitUntil
      BY <3>1, CircuitStays
    <3>3. QED
      BY <2>2, <3>2 DEF CircuitOpen
  <2>5. ASSUME m.advanced
        PROVE  LeavesForRest(r)
    <3>1. adv.advanced /\ route' = adv.route
      BY <2>1, <2>5
    <3>2. /\ adv.route.activeAccountID # route.activeAccountID
          /\ Available(adv.route.health, adv.route.activeAccountID, now)
          /\ Listed(accounts, route.activeAccountID) /\ ~Available(O.health, id, now) =>
                ~Available(adv.route.health, route.activeAccountID, now)
      BY <1>1, <3>1, StartsInStep, RotationLeaves
    <3>3. ~RestIsOver(req[r]) => ~Available(O.health, id, now)
      BY <1>1 DEF RestIsOver, kind
    <3> HIDE DEF adv
    <3>4. QED
      BY <3>1, <3>2, <3>3 DEF LeavesForRest, ActiveAvailable
  <2>6. QED
    BY <2>4, <2>5
<1>4. QED
  BY <1>2, <1>3

(* What OutageHoldsTheRoute asks of the handler r.                         *)
HeldInOutage(r) ==
    req[r].pc \in Charging /\ req'[r] # req[r] /\ CircuitOpen(route')
        => route'.activeAccountID = route.activeAccountID

(* The two steps that charge a failed call and may move the pointer.       *)
LEMMA ChargeLeaves ==
    ASSUME DInv, NEW r \in Request, Failover(r) \/ Terminal(r)
    PROVE  /\ req'[r].moves > req[r].moves => LeavesForRest(r)
           /\ HeldInOutage(r)
<1> DEFINE id   == req[r].account
           kind == req[r].error
<1>1. req[r].pc \in Charging /\ id \in Account /\ now' = now
  BY DEF Failover, Terminal, Charging, DInv, Inv, LocalsOK, HandlerOK
<1>2. PICK w \in SomeWrites :
        \/ /\ route' = RecordFailureWithoutAdvance(route, id, kind, w)
           /\ Goto(r, "release")
        \/ LET m == MarkAccountFailure(route, accounts, id, kind, w)
           IN  /\ route' = m.route
               /\ \E pc : GotoAfterMove(r, pc, m.advanced)
  BY DEF Failover, Terminal
<1>3. w \in Writes
  BY EnsuredSound
<1>4. CASE /\ route' = RecordFailureWithoutAdvance(route, id, kind, w)
           /\ Goto(r, "release")
  <2> DEFINE O == ObserveSharedFailure(RecordFailure(route, id, kind), id, kind).route
  <2>1. O \in Route /\ O.activeAccountID = route.activeAccountID
    BY <1>1, StartsInStep, RecordedFailure
  <2>2. route' = PersistActiveAccount(O, w.save)
    BY <1>4 DEF RecordFailureWithoutAdvance
  <2> HIDE DEF O
  <2>3. route'.activeAccountID = route.activeAccountID
    BY <2>1, <2>2, CircuitStays
  <2>4. req'[r].moves = req[r].moves /\ req[r].moves \in Nat
    BY <1>4, MovesOf, StartsInStep
  <2>5. QED
    BY <2>3, <2>4 DEF HeldInOutage
<1>5. CASE LET m == MarkAccountFailure(route, accounts, id, kind, w)
           IN  /\ route' = m.route
               /\ \E pc : GotoAfterMove(r, pc, m.advanced)
  <2> DEFINE m == MarkAccountFailure(route, accounts, id, kind, w)
  <2>1. route' = m.route
    BY <1>5
  <2>2. PICK pc : GotoAfterMove(r, pc, m.advanced)
    BY <1>5
  <2>3. /\ m.advanced => LeavesForRest(r)
        /\ CircuitOpen(route') => route'.activeAccountID = route.activeAccountID
    BY <1>1, <1>3, <2>1, MarkLeaves
  <2> HIDE DEF m
  <2>4. ~m.advanced => req'[r].moves = req[r].moves
    BY <2>2, MovesOf
  <2>5. req[r].moves \in Nat
    BY StartsInStep
  <2>6. QED
    BY <2>3, <2>4, <2>5 DEF HeldInOutage
<1>6. QED
  BY <1>2, <1>4, <1>5

(* The other steps of a handler do not count as moves.                     *)
LEMMA OthersStay ==
    ASSUME DInv, NEW r \in Request, Arrive(r) \/ HandlerStep(r),
           ~Resolve(r), ~Confirm(r), ~Failover(r), ~Terminal(r)
    PROVE  req'[r].moves <= req[r].moves
<1> DEFINE M == req[r].moves
<1>1. M \in Nat /\ req[r] \in Handler /\ \A h : Become(r, h) => req'[r] = h
  BY StartsInStep, MovesOf
<1>2. ASSUME NEW h, Become(r, h), h.moves <= M PROVE req'[r].moves <= M
  BY <1>1, <1>2
<1>3. ASSUME NEW pc, Goto(r, pc) PROVE req'[r].moves <= M
  BY <1>1, <1>3, MovesOf
<1>4. ASSUME NEW pc, NEW R, Snapshot(r, pc, R) PROVE req'[r].moves <= M
  BY <1>1, <1>4, MovesOf
<1>5. ASSUME NEW pc, NEW a, NEW s, NEW e, NEW v, NEW t
      PROVE  /\ [IdleHandler EXCEPT !.pc = pc].moves <= M /\ IdleHandler.moves <= M
             /\ [Continue(r, pc) EXCEPT !.account = a, !.switched = s].moves <= M
             /\ [Continue(r, pc) EXCEPT !.error = e].moves <= M
             /\ [Continue(r, pc) EXCEPT !.target = t].moves <= M
             /\ [req[r] EXCEPT !.pc = pc, !.valid = v].moves <= M
             /\ [req[r] EXCEPT !.pc = pc].moves <= M
  BY <1>1 DEF Continue, Handler, IdleHandler
<1>6. ASSUME NEW s, Resolved(r, s) PROVE req'[r].moves <= M
  BY <1>2, <1>3, <1>5, <1>6 DEF Resolved
<1>7. ASSUME NEW t, SwitchTo(r, t) PROVE req'[r].moves <= M
  BY <1>2, <1>5, <1>7 DEF SwitchTo
<1>8. ASSUME NEW kind, NEW v, CallFailed(r, kind, v) PROVE req'[r].moves <= M
  BY <1>2, <1>5, <1>8 DEF CallFailed
<1>9. ASSUME Arrive(r) \/ Validate(r) \/ ReleaseOld(r) \/ Finish(r) PROVE req'[r].moves <= M
  BY <1>2, <1>5, <1>9 DEF Arrive, Validate, ReleaseOld, Finish
<1>10. ASSUME Retry(r) PROVE req'[r].moves <= M
  BY <1>3, <1>4, <1>10 DEF Retry, RetryFailed
<1>11. ASSUME Reconfirm(r) PROVE req'[r].moves <= M
  BY <1>3, <1>6, <1>7, <1>11 DEF Reconfirm, RetryFailed
<1>12. ASSUME Begin(r) \/ CallSucceeds(r) \/ CallAborted(r) \/ CallFails(r)
       PROVE  req'[r].moves <= M
  BY <1>3, <1>8, <1>12 DEF Begin, CallSucceeds, CallAborted, CallFails
<1>13. ASSUME ContinuationFails(r) \/ IgnoreFailure(r) \/ Succeed(r)
       PROVE  req'[r].moves <= M
  BY <1>3, <1>13 DEF ContinuationFails, IgnoreFailure, Succeed
<1>14. ASSUME LeaseNext(r) PROVE req'[r].moves <= M
  BY <1>2, <1>3, <1>5, <1>14 DEF LeaseNext
<1>15. QED
  BY <1>9, <1>10, <1>11, <1>12, <1>13, <1>14 DEF HandlerStep

(* A handler changes its own locals only.                                  *)
LEMMA OwnLocals ==
    ASSUME DInv, NEW s \in Request, Arrive(s) \/ HandlerStep(s), NEW r \in Request, r # s
    PROVE  req'[r] = req[r]
<1>1. ASSUME NEW h, Become(s, h) PROVE req'[r] = req[r]
  BY <1>1 DEF Become, DInv, Inv, TypeOK
<1>2. ASSUME NEW pc, Goto(s, pc) PROVE req'[r] = req[r]
  BY <1>1, <1>2 DEF Goto
<1>3. ASSUME NEW pc, NEW m, GotoAfterMove(s, pc, m) PROVE req'[r] = req[r]
  BY <1>1, <1>3 DEF GotoAfterMove
<1>4. ASSUME NEW pc, NEW R, Snapshot(s, pc, R) PROVE req'[r] = req[r]
  BY <1>1, <1>4 DEF Snapshot
<1>5. ASSUME NEW b, Resolved(s, b) PROVE req'[r] = req[r]
  BY <1>1, <1>2, <1>5 DEF Resolved
<1>6. ASSUME NEW t, SwitchTo(s, t) PROVE req'[r] = req[r]
  BY <1>1, <1>6 DEF SwitchTo
<1>7. ASSUME NEW kind, NEW v, CallFailed(s, kind, v) PROVE req'[r] = req[r]
  BY <1>1, <1>7, SMTT(30) DEF CallFailed
<1>8. ASSUME \/ Arrive(s) \/ Resolve(s) \/ Validate(s) \/ Confirm(s) \/ Retry(s)
             \/ Reconfirm(s)
      PROVE  req'[r] = req[r]
  BY <1>1, <1>2, <1>3, <1>4, <1>5, <1>6, <1>8
     DEF Arrive, Resolve, Validate, Confirm, Retry, RetryFailed, Reconfirm
<1>9. ASSUME Begin(s) \/ CallSucceeds(s) \/ CallAborted(s) \/ CallFails(s)
      PROVE  req'[r] = req[r]
  BY <1>2, <1>7, <1>9 DEF Begin, CallSucceeds, CallAborted, CallFails
<1>10. ASSUME \/ ContinuationFails(s) \/ IgnoreFailure(s) \/ Succeed(s) \/ Finish(s)
              \/ Failover(s) \/ Terminal(s) \/ ReleaseOld(s) \/ LeaseNext(s)
       PROVE  req'[r] = req[r]
  BY <1>1, <1>2, <1>3, <1>10
     DEF ContinuationFails, IgnoreFailure, Succeed, Finish, Failover, Terminal, ReleaseOld,
         LeaseNext
<1>11. QED
  BY <1>8, <1>9, <1>10 DEF HandlerStep

(* The circuit is closed after a restart.                                  *)
LEMMA RestartCloses ==
    ASSUME DInv, Restart
    PROVE  ~CircuitOpen(route')
<1> DEFINE R == Reread(route.file)
<1>1. route.file \in RouteFile /\ now \in Nat /\ accounts \in Seq(Account)
  BY DEF DInv, Inv, TypeOK, Route
<1>2. R \in Route
  BY <1>1, InitializeAccountRouterType
<1>3. route' = EnsureActiveAccount(R, accounts, TRUE).route
  BY DEF Restart, InitializeAccountRouter, Reread
<1>4. R.upstreamCircuitUntil = 0
  BY DEF Reread
<1> HIDE DEF R
<1>5. route'.upstreamCircuitUntil = 0
  BY <1>1, <1>2, <1>3, <1>4, EnsureStays, ZenonT(60)
<1>6. QED
  BY <1>1, <1>5 DEF CircuitOpen

LEMMA StepLeaves ==
    ASSUME DInv, [Next]_vars, NEW r \in Request
    PROVE  /\ req'[r].moves > req[r].moves => LeavesForRest(r)
           /\ HeldInOutage(r)
<1>1. req[r].moves \in Nat
  BY StartsInStep
<1>2. CASE req'[r] = req[r]
  BY <1>1, <1>2 DEF HeldInOutage
<1>3. CASE Arrive(r) \/ HandlerStep(r)
  <2>1. CASE Resolve(r) \/ Confirm(r)
    <3>1. HeldInOutage(r)
      BY <2>1 DEF Resolve, Confirm, HeldInOutage, Charging
    <3>2. QED
      BY <2>1, <3>1, ResolveLeaves, ConfirmLeaves
  <2>2. CASE Failover(r) \/ Terminal(r)
    BY <2>2, ChargeLeaves
  <2>3. CASE ~Resolve(r) /\ ~Confirm(r) /\ ~Failover(r) /\ ~Terminal(r)
    <3>1. req'[r].moves <= req[r].moves
      BY <1>3, <2>3, OthersStay
    <3>2. ~(req'[r].moves > req[r].moves)
      <4>1. req'[r].moves \in Nat
        <5>1. Inv'
          BY NextDurable DEF DInv
        <5>2. QED
          BY <5>1 DEF Inv, TypeOK, Handler
      <4>2. QED
        BY <1>1, <3>1, <4>1
    <3>3. HeldInOutage(r)
      <4>1. CASE IgnoreFailure(r)
        BY <4>1 DEF IgnoreFailure, HeldInOutage
      <4>2. CASE ~IgnoreFailure(r)
        <5>1. req[r].pc \notin Charging
          BY <1>3, <2>3, <4>2
             DEF HandlerStep, Arrive, Validate, Retry, Reconfirm, Begin, CallSucceeds,
                 CallAborted, CallFails, ContinuationFails, ReleaseOld, LeaseNext, Succeed,
                 Finish, Charging
        <5>2. QED
          BY <5>1, SMTT(30) DEF HeldInOutage
      <4>3. QED
        BY <4>1, <4>2
    <3>4. QED
      BY <3>2, <3>3
  <2>4. QED
    BY <2>1, <2>2, <2>3
<1>4. CASE Restart
  <2>1. req'[r].moves = 0
    BY <1>4 DEF Restart, IdleHandler
  <2>2. QED
    BY <1>1, <1>4, <2>1, RestartCloses DEF HeldInOutage
<1>5. CASE AdminStep \/ ReadActiveAccount \/ Tick \/ UNCHANGED vars
  <2>1. req' = req
    BY <1>5 DEF AdminStep, DeleteAccount, Login, BeginRefresh, ClearAuthFailureAfterLogin,
       SyncActiveAccount, ValidateRefresh, ConfirmRefresh, ReadActiveAccount, Tick, vars
  <2>2. QED
    BY <1>2, <2>1, SMTT(30)
<1>6. ASSUME NEW s \in Request, s # r, Arrive(s) \/ HandlerStep(s)
      PROVE  req'[r] = req[r]
  BY <1>6, OwnLocals
<1>7. QED
  BY <1>2, <1>3, <1>4, <1>5, <1>6 DEF Next

(* A pointer that a request moves (advanceActiveAccountLocked, wherever it *)
(* is called from) leaves an account that rests from now on, and goes to   *)
(* one that may be used: requests that failed together on one account do   *)
(* not stampede the pool.  The one exception is a failure whose rest is    *)
(* over before it is recorded, a 429 with a Retry-After in the past.       *)
THEOREM MovesLeaveRestingAccounts == Spec => OnlyRestingAccountsAreLeft
<1> DEFINE P == \A r \in Request : req'[r].moves > req[r].moves =>
                   /\ route.activeAccountID # route'.activeAccountID
                   /\ ActiveAvailable(route')
                   /\ Listed(accounts, route.activeAccountID) /\ ~RestIsOver(req[r]) =>
                         ~Available(route'.health, route.activeAccountID, now)
<1>1. DInv /\ [Next]_vars => [P]_vars
  BY StepLeaves DEF LeavesForRest
<1>2. QED
  BY <1>1, SpecKeepsDInv, PTL DEF Spec, OnlyRestingAccountsAreLeft

(* While the shared circuit is open (observeSharedFailureLocked), and by   *)
(* the failure that opens it, no charged failure moves the active account: *)
(* an outage that several accounts report does not burn through the pool.  *)
THEOREM OutagesMoveNobody == Spec => OutageHoldsTheRoute
<1> DEFINE P == \A r \in Request :
                   req[r].pc \in Charging /\ req'[r] # req[r] /\ CircuitOpen(route')
                   => route'.activeAccountID = route.activeAccountID
<1>1. DInv /\ [Next]_vars => [P]_vars
  BY StepLeaves DEF HeldInOutage
<1>2. QED
  BY <1>1, SpecKeepsDInv, PTL DEF Spec, OutageHoldsTheRoute

=============================================================================
