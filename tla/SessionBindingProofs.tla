------------------------ MODULE SessionBindingProofs ------------------------
(***************************************************************************)
(* Sessions stay with their account and its conversations, and what the    *)
(* active account binds stays bound, for every set of accounts, requests   *)
(* and session keys, whatever fails, moves the route and crashes.          *)
(*                                                                         *)
(* The invariant is one of single turns (TurnOK) and single sessions       *)
(* (SessionOK) against the route and the owners of the conversations: both  *)
(* survive a later route and an owner for a new conversation, so an action *)
(* has to be looked at only for the turn and the session it changes.       *)
(***************************************************************************)
EXTENDS SessionBinding, WellFoundedInduction, TLAPS

(* Conversation v, if there is one, was opened by account a.               *)
Owns(o, v, a) == v # NoConversation => v \in DOMAIN o /\ o[v] = a

TurnOK(h, R, o) ==
    /\ h \in TurnState
    /\ h.pc \in {"lease", "call"} => h.account \in Account
    /\ h.pc = "resolve" => Owns(o, h.conversation, h.bound)
    /\ h.pc \in {"lease", "call", "existing", "version", "write"}
         => Owns(o, h.conversation, h.account)
    /\ h.pc = "write" =>
         /\ h.generation <= R.generation
         /\ h.authoritative /\ h.generation = R.generation
              => R.active \in {h.account, NoAccount}

SessionOK(v, R, o) ==
    /\ v \in Binding
    /\ Owns(o, v.conversation, v.account)
    /\ v.generation <= R.generation

OwnersOK ==
    /\ DOMAIN owner \subseteq Conversation \ {NoConversation}
    /\ \A v \in DOMAIN owner : owner[v] \in Account

Shape ==
    /\ route \in Route /\ budget \in Budget
    /\ accounts \subseteq Account /\ cleanup \subseteq Account
    /\ DOMAIN turn = Turn /\ turn = [r \in Turn |-> turn[r]]
    /\ DOMAIN sessions \subseteq Key
    /\ OwnersOK

IInv ==
    /\ Shape
    /\ \A r \in Turn : TurnOK(turn[r], route, owner)
    /\ \A k \in DOMAIN sessions : SessionOK(sessions[k], route, owner)

-----------------------------------------------------------------------------
(* Later routes, more owners.                                              *)

(* What moving the route, or vacating it, makes of a route.                *)
Later(R, Q) ==
    \/ Q.generation > R.generation
    \/ Q.generation = R.generation /\ Q.active \in {R.active, NoAccount}

Grows(o, p) == \A v \in DOMAIN o : v \in DOMAIN p /\ p[v] = o[v]

LEMMA OwnsGrows ==
    ASSUME NEW o, NEW p, Grows(o, p), NEW v, NEW a, Owns(o, v, a)
    PROVE  Owns(p, v, a)
BY DEF Owns, Grows

LEMMA TurnStaysOK ==
    ASSUME NEW h, NEW R \in Route, NEW Q \in Route, NEW o, NEW p,
           TurnOK(h, R, o), Later(R, Q), Grows(o, p)
    PROVE  TurnOK(h, Q, p)
<1>1. h \in TurnState /\ h.generation \in Nat /\ R.generation \in Nat /\ Q.generation \in Nat
  BY DEF TurnOK, TurnState, Route
<1>2. h.pc = "write" =>
         /\ h.generation <= Q.generation
         /\ h.authoritative /\ h.generation = Q.generation
              => Q.active \in {h.account, NoAccount}
  BY <1>1 DEF TurnOK, Later
<1>3. QED
  BY <1>1, <1>2, OwnsGrows DEF TurnOK

LEMMA SessionStaysOK ==
    ASSUME NEW v, NEW R \in Route, NEW Q \in Route, NEW o, NEW p,
           SessionOK(v, R, o), R.generation <= Q.generation, Grows(o, p)
    PROVE  SessionOK(v, Q, p)
<1>1. v.generation \in Nat /\ R.generation \in Nat /\ Q.generation \in Nat
  BY DEF SessionOK, Binding, Route
<1>2. QED
  BY <1>1, OwnsGrows DEF SessionOK

LEMMA LaterIsNotLess ==
    ASSUME NEW R \in Route, NEW Q \in Route, Later(R, Q)
    PROVE  R.generation <= Q.generation
BY DEF Later, Route

LEMMA NothingChanges ==
    ASSUME NEW R, NEW o
    PROVE  Later(R, R) /\ Grows(o, o)
BY DEF Later, Grows

(* One turn moves on; the route may move and a conversation be opened.     *)
LEMMA OneTurnMoves ==
    ASSUME IInv, NEW r \in Turn, NEW h, Become(r, h), Shape', UNCHANGED sessions,
           Later(route, route'), Grows(owner, owner'), TurnOK(h, route', owner')
    PROVE  IInv'
<1>1. route \in Route /\ route' \in Route
  BY DEF IInv, Shape
<1>2. ASSUME NEW s \in Turn PROVE TurnOK(turn'[s], route', owner')
  <2>1. CASE s = r
    BY <2>1 DEF IInv, Shape, Become
  <2>2. CASE s # r
    <3>1. turn'[s] = turn[s] /\ TurnOK(turn[s], route, owner)
      BY <2>2 DEF IInv, Shape, Become
    <3>2. QED
      BY <1>1, <3>1, TurnStaysOK
  <2>3. QED
    BY <2>1, <2>2
<1>3. ASSUME NEW k \in DOMAIN sessions' PROVE SessionOK(sessions'[k], route', owner')
  BY <1>1, LaterIsNotLess, SessionStaysOK DEF IInv
<1>4. QED
  BY <1>2, <1>3 DEF IInv

(* The same when the turn touches nothing else.                            *)
LEMMA OneTurnMovesAlone ==
    ASSUME IInv, NEW r \in Turn, NEW h, Become(r, h),
           UNCHANGED <<route, accounts, sessions, cleanup, owner, budget>>,
           TurnOK(h, route, owner)
    PROVE  IInv'
<1>1. Shape'
  BY DEF IInv, Shape, Become, OwnersOK
<1>2. Later(route, route') /\ Grows(owner, owner')
  BY NothingChanges
<1>3. QED
  BY <1>1, <1>2, OneTurnMoves

LEMMA IdleOK ==
    ASSUME NEW R, NEW o
    PROVE  TurnOK(Idle, R, o)
<1>1. (CHOOSE k \in Key : TRUE) \in Key
  BY BindingAssumption
<1>2. Idle \in TurnState /\ Idle.pc = "idle"
  BY <1>1, BindingAssumption DEF Idle, TurnState, PC, AnyAccount, Conversation, NoConversation
<1>3. QED
  BY <1>2 DEF TurnOK
-----------------------------------------------------------------------------
(* A turn, up to the end of its call.                                      *)

LEMMA TurnTypes ==
    ASSUME IInv, NEW r \in Turn
    PROVE  turn[r] \in TurnState /\ TurnOK(turn[r], route, owner)
BY DEF IInv, TurnOK

LEMMA BoundAccountOK ==
    ASSUME IInv, NEW k \in Key
    PROVE  /\ BoundAccount(k) \in AnyAccount
           /\ Bound(k) => SessionOK(sessions[k], route, owner)
BY DEF IInv, Bound, BoundAccount, SessionOK, Binding, AnyAccount

LEMMA MovedOK ==
    ASSUME NEW h \in TurnState, NEW a \in AnyAccount
    PROVE  /\ Moved(h, a) \in TurnState
           /\ Moved(h, a).account = a /\ Moved(h, a).pc = h.pc
           /\ Moved(h, a).conversation = NoConversation
<1>1. NoConversation \in Conversation
  BY BindingAssumption DEF Conversation, NoConversation
<1>2. QED
  BY <1>1 DEF Moved, TurnState

LEMMA LoadOK ==
    ASSUME IInv, NEW r \in Turn, Load(r)
    PROVE  IInv'
<1>1. PICK k \in Key, w \in Key, e \in AnyAccount :
        LET bound == IF e = NoAccount THEN BoundAccount(k) ELSE e
        IN  /\ Become(r, [Idle EXCEPT
                  !.pc = "resolve", !.key = w, !.bound = bound, !.explicit = e # NoAccount,
                  !.conversation =
                     IF Bound(k) /\ bound # NoAccount /\ bound = sessions[k].account
                     THEN sessions[k].conversation ELSE NoConversation])
            /\ UNCHANGED <<route, accounts, sessions, cleanup, owner, budget>>
  BY ZenonT(60) DEF Load
<1> DEFINE bound == IF e = NoAccount THEN BoundAccount(k) ELSE e
           v == IF Bound(k) /\ bound # NoAccount /\ bound = sessions[k].account
                THEN sessions[k].conversation ELSE NoConversation
           h == [Idle EXCEPT !.pc = "resolve", !.key = w, !.bound = bound,
                             !.explicit = e # NoAccount, !.conversation = v]
<1>2. bound \in AnyAccount
  BY BoundAccountOK
<1>3. v \in Conversation /\ Owns(owner, v, bound)
  BY BoundAccountOK, BindingAssumption
     DEF SessionOK, Binding, Owns, Conversation, NoConversation
<1>4. Idle \in TurnState
  BY IdleOK DEF TurnOK
<1>5. h \in TurnState /\ h.pc = "resolve" /\ h.conversation = v /\ h.bound = bound
  BY <1>2, <1>3, <1>4, ZenonT(60) DEF TurnState, PC
<1>6. TurnOK(h, route, owner)
  BY <1>3, <1>5 DEF TurnOK
<1>7. QED
  BY <1>1, <1>6, OneTurnMovesAlone

LEMMA ResolveOK ==
    ASSUME IInv, NEW r \in Turn, Resolve(r)
    PROVE  IInv'
<1> DEFINE h == turn[r]
           a == route.active
<1>1. h \in TurnState /\ TurnOK(h, route, owner) /\ h.pc = "resolve"
  BY TurnTypes DEF Resolve
<1>2. a \in AnyAccount
  BY DEF IInv, Shape, Route
<1>3. UNCHANGED <<route, accounts, sessions, cleanup, owner, budget>>
  BY DEF Resolve
<1>4. CASE Become(r, Idle)
  BY <1>3, <1>4, IdleOK, OneTurnMovesAlone
<1>5. CASE /\ Routable
           /\ Become(r, [Moved(h, a) EXCEPT !.pc = "lease"])
  <2> DEFINE g == [Moved(h, a) EXCEPT !.pc = "lease"]
  <2>1. g \in TurnState /\ g.pc = "lease" /\ g.account = a /\ g.conversation = NoConversation
    BY <1>1, <1>2, MovedOK DEF TurnState, PC
  <2>2. TurnOK(g, route, owner)
    BY <2>1, <1>2, <1>5 DEF TurnOK, Owns, Routable, AnyAccount
  <2>3. QED
    BY <1>3, <1>5, <2>2, OneTurnMovesAlone
<1>6. CASE /\ Routable /\ ~(h.bound # NoAccount /\ h.bound # a)
           /\ Become(r, [h EXCEPT !.account = a, !.pc = "lease"])
  <2> DEFINE g == [h EXCEPT !.account = a, !.pc = "lease"]
  <2>1. g \in TurnState /\ g.pc = "lease" /\ g.account = a /\ g.conversation = h.conversation
    BY <1>1, <1>2 DEF TurnState, PC
  <2>2. Owns(owner, h.conversation, h.bound)
    BY <1>1 DEF TurnOK
  <2>3. h.bound = NoAccount => h.conversation = NoConversation
    BY <2>2, BindingAssumption DEF Owns, IInv, Shape, OwnersOK
  <2>4. Owns(owner, h.conversation, a)
    BY <2>2, <2>3, <1>6 DEF Owns
  <2>5. TurnOK(g, route, owner)
    BY <2>1, <2>4, <1>2, <1>6 DEF TurnOK, Routable, AnyAccount
  <2>6. QED
    BY <1>3, <1>6, <2>5, OneTurnMovesAlone
<1>7. QED
  BY <1>4, <1>5, <1>6 DEF Resolve

LEMMA LeaseOK ==
    ASSUME IInv, NEW r \in Turn, Lease(r)
    PROVE  IInv'
<1> DEFINE h == turn[r]
           g == [h EXCEPT !.pc = "call", !.leased = route.generation]
<1>1. h \in TurnState /\ TurnOK(h, route, owner) /\ h.pc = "lease"
  BY TurnTypes DEF Lease
<1>2. route.generation \in Nat
  BY DEF IInv, Shape, Route
<1>3. TurnOK(g, route, owner)
  BY <1>1, <1>2 DEF TurnOK, TurnState, PC
<1>4. QED
  BY <1>3, IdleOK, OneTurnMovesAlone DEF Lease

LEMMA PersistOK ==
    ASSUME NEW h \in TurnState, NEW a \in AnyAccount, NEW v \in Conversation,
           NEW clear \in BOOLEAN, NEW rotate \in BOOLEAN, NEW R, NEW o, Owns(o, v, a)
    PROVE  TurnOK(Persist(h, a, v, clear, rotate), R, o)
<1>1. Idle \in TurnState
  BY IdleOK DEF TurnOK
<1>2. /\ Persist(h, a, v, clear, rotate) \in TurnState
      /\ Persist(h, a, v, clear, rotate).pc = "existing"
      /\ Persist(h, a, v, clear, rotate).account = a
      /\ Persist(h, a, v, clear, rotate).conversation = v
  BY <1>1, ZenonT(60) DEF Persist, TurnState, PC
<1>3. QED
  BY <1>2 DEF TurnOK

LEMMA AnswerOK ==
    ASSUME IInv, NEW r \in Turn, Answer(r)
    PROVE  IInv'
<1> DEFINE h == turn[r]
<1>1. h \in TurnState /\ TurnOK(h, route, owner) /\ h.pc = "call"
  BY TurnTypes DEF Answer
<1>2. h.account \in Account /\ Owns(owner, h.conversation, h.account)
  BY <1>1 DEF TurnOK
<1>3. PICK rotate \in BOOLEAN, v \in Conversation \ {NoConversation} :
        /\ IF h.conversation # NoConversation
           THEN v = h.conversation /\ UNCHANGED owner
           ELSE /\ 1 .. v - 1 = DOMAIN owner
                /\ owner' = With(owner, v, h.account)
        /\ Become(r, Persist(h, h.account, v, FALSE, rotate))
  BY DEF Answer
<1>4. UNCHANGED <<route, accounts, sessions, cleanup, budget>>
  BY DEF Answer
<1>5. /\ OwnersOK' /\ Grows(owner, owner') /\ Owns(owner', v, h.account)
  <2>1. CASE h.conversation # NoConversation
    BY <1>2, <1>3, <2>1, NothingChanges DEF OwnersOK, IInv, Shape
  <2>2. CASE h.conversation = NoConversation
    <3>1. v \notin DOMAIN owner
      BY <1>3, <2>2 DEF Conversation
    <3>2. QED
      BY <1>2, <1>3, <2>2, <3>1 DEF With, Grows, Owns, OwnersOK, IInv, Shape
  <2>3. QED
    BY <2>1, <2>2
<1>6. Shape'
  BY <1>3, <1>4, <1>5 DEF IInv, Shape, Become
<1>7. TurnOK(Persist(h, h.account, v, FALSE, rotate), route', owner')
  BY <1>1, <1>2, <1>5, PersistOK DEF AnyAccount
<1>8. QED
  BY <1>3, <1>4, <1>5, <1>6, <1>7, NothingChanges, OneTurnMoves

LEMMA ChooseToolOK ==
    ASSUME IInv, NEW r \in Turn, ChooseTool(r)
    PROVE  IInv'
<1> DEFINE h == turn[r]
           g == Persist(h, h.bound, NoConversation, h.switched, FALSE)
<1>1. h \in TurnState /\ h.bound \in AnyAccount /\ h.switched \in BOOLEAN
  BY TurnTypes DEF TurnState
<1>2. NoConversation \in Conversation /\ Owns(owner, NoConversation, h.bound)
  BY BindingAssumption DEF Conversation, NoConversation, Owns
<1>3. TurnOK(g, route, owner)
  BY <1>1, <1>2, PersistOK
<1>4. QED
  BY <1>3, OneTurnMovesAlone DEF ChooseTool

LEMMA MoveIsLater ==
    ASSUME IInv, NEW a \in accounts, MoveTo(a)
    PROVE  route' \in Route /\ budget' \in Budget /\ Later(route, route')
BY DEF MoveTo, IInv, Shape, Route, Budget, Later, AnyAccount

LEMMA FailOK ==
    ASSUME IInv, NEW r \in Turn, Fail(r)
    PROVE  IInv'
<1> DEFINE h == turn[r]
           g == [h EXCEPT !.pc = "next"]
<1>1. h \in TurnState
  BY TurnTypes
<1>2. UNCHANGED <<accounts, sessions, cleanup, owner>>
  BY DEF Fail
<1>3. CASE Become(r, Idle) /\ UNCHANGED <<route, budget>>
  BY <1>2, <1>3, IdleOK, OneTurnMovesAlone
<1>4. ASSUME NEW a \in accounts, MoveTo(a), Become(r, g)
      PROVE  IInv'
  <2>1. route' \in Route /\ budget' \in Budget /\ Later(route, route')
    BY <1>4, MoveIsLater
  <2>2. Shape'
    BY <1>2, <1>4, <2>1 DEF IInv, Shape, Become, OwnersOK
  <2>3. g \in TurnState /\ g.pc = "next"
    BY <1>1 DEF TurnState, PC
  <2>4. TurnOK(g, route', owner')
    BY <2>3 DEF TurnOK
  <2>5. QED
    BY <1>2, <1>4, <2>1, <2>2, <2>4, NothingChanges, OneTurnMoves
<1>5. QED
  BY <1>3, <1>4 DEF Fail

LEMMA FollowOK ==
    ASSUME IInv, NEW r \in Turn, Follow(r)
    PROVE  IInv'
<1> DEFINE a == route.active
           g == [Moved(turn[r], a) EXCEPT !.pc = "lease"]
<1>1. turn[r] \in TurnState /\ a \in AnyAccount
  BY TurnTypes DEF IInv, Shape, Route
<1>2. CASE Become(r, Idle)
  BY <1>2, IdleOK, OneTurnMovesAlone DEF Follow
<1>3. CASE Routable /\ Become(r, g)
  <2>1. g \in TurnState /\ g.pc = "lease" /\ g.account = a /\ g.conversation = NoConversation
    BY <1>1, MovedOK DEF TurnState, PC
  <2>2. TurnOK(g, route, owner)
    BY <1>1, <1>3, <2>1 DEF TurnOK, Owns, Routable, AnyAccount
  <2>3. QED
    BY <1>3, <2>2, OneTurnMovesAlone DEF Follow
<1>4. QED
  BY <1>2, <1>3 DEF Follow

-----------------------------------------------------------------------------
(* persistSession.                                                         *)

LEMMA ReadExistingOK ==
    ASSUME IInv, NEW r \in Turn, ReadExisting(r)
    PROVE  IInv'
<1> DEFINE h == turn[r]
           keep == ~h.clear /\ h.conversation = NoConversation
                     /\ Bound(h.key) /\ BoundAccount(h.key) = h.account
           v == IF h.rotate THEN NoConversation
                ELSE IF keep THEN sessions[h.key].conversation ELSE h.conversation
           g == [h EXCEPT !.pc = "version", !.conversation = v]
<1>1. h \in TurnState /\ TurnOK(h, route, owner) /\ h.pc = "existing"
  BY TurnTypes DEF ReadExisting
<1>2. h.key \in Key /\ h.conversation \in Conversation
  BY <1>1 DEF TurnState
<1>3. v \in Conversation /\ Owns(owner, v, h.account)
  <2>1. NoConversation \in Conversation /\ Owns(owner, NoConversation, h.account)
    BY BindingAssumption DEF Conversation, NoConversation, Owns
  <2>2. Owns(owner, h.conversation, h.account)
    BY <1>1 DEF TurnOK
  <2>3. keep => /\ sessions[h.key].conversation \in Conversation
                /\ Owns(owner, sessions[h.key].conversation, h.account)
    BY <1>2, BoundAccountOK DEF SessionOK, Binding, BoundAccount
  <2>4. QED
    BY <1>2, <2>1, <2>2, <2>3
<1>4. g \in TurnState /\ g.pc = "version" /\ g.conversation = v /\ g.account = h.account
  BY <1>1, <1>3 DEF TurnState, PC
<1>5. TurnOK(g, route, owner)
  BY <1>3, <1>4 DEF TurnOK
<1>6. Become(r, g)
  BY DEF ReadExisting
<1>7. QED
  BY <1>5, <1>6, OneTurnMovesAlone DEF ReadExisting

LEMMA ReadVersionOK ==
    ASSUME IInv, NEW r \in Turn, ReadVersion(r)
    PROVE  IInv'
<1> DEFINE h == turn[r]
           g == [h EXCEPT !.pc = "write", !.generation = route.generation,
                          !.authoritative = h.account # NoAccount /\ h.account = route.active]
<1>1. h \in TurnState /\ TurnOK(h, route, owner) /\ h.pc = "version"
  BY TurnTypes DEF ReadVersion
<1>2. route.generation \in Nat
  BY DEF IInv, Shape, Route
<1>3. /\ g \in TurnState /\ g.pc = "write" /\ g.account = h.account
      /\ g.conversation = h.conversation /\ g.generation = route.generation
      /\ g.authoritative => h.account = route.active
  BY <1>1, <1>2 DEF TurnState, PC
<1>4. TurnOK(g, route, owner)
  BY <1>1, <1>2, <1>3 DEF TurnOK
<1>5. Become(r, g)
  BY DEF ReadVersion
<1>6. QED
  BY <1>4, <1>5, OneTurnMovesAlone DEF ReadVersion

LEMMA WriteOK ==
    ASSUME IInv, NEW r \in Turn, Write(r)
    PROVE  IInv'
<1> DEFINE h == turn[r]
           v == [account |-> h.account, conversation |-> h.conversation,
                 generation |-> h.generation]
<1>1. h \in TurnState /\ TurnOK(h, route, owner) /\ h.pc = "write"
  BY TurnTypes DEF Write
<1>2. Become(r, Idle) /\ UNCHANGED <<route, accounts, cleanup, owner, budget>>
  BY DEF Write
<1>3. v \in Binding /\ SessionOK(v, route, owner) /\ h.key \in Key
  BY <1>1 DEF TurnOK, TurnState, SessionOK, Binding
<1>4. CASE UNCHANGED sessions
  BY <1>2, <1>4, IdleOK, OneTurnMovesAlone
<1>5. CASE sessions' = With(sessions, h.key, v)
  <2>1. /\ DOMAIN sessions' = DOMAIN sessions \union {h.key}
        /\ \A k \in DOMAIN sessions' :
              sessions'[k] = IF k = h.key THEN v ELSE sessions[k]
    BY <1>5 DEF With
  <2>2. Shape'
    BY <1>2, <1>3, <2>1 DEF IInv, Shape, Become, OwnersOK
  <2>3. \A k \in DOMAIN sessions' : SessionOK(sessions'[k], route', owner')
    BY <1>2, <1>3, <2>1 DEF IInv
  <2>4. ASSUME NEW s \in Turn PROVE TurnOK(turn'[s], route', owner')
    BY <1>2, IdleOK DEF IInv, Shape, Become
  <2>5. QED
    BY <2>2, <2>3, <2>4 DEF IInv
<1>6. QED
  BY <1>4, <1>5 DEF Write
-----------------------------------------------------------------------------
(* The route, the administrator and crashes.                               *)

(* Only the route moves, or only sessions go, or an account.               *)
LEMMA RouteMoves ==
    ASSUME IInv, Shape', UNCHANGED <<turn, owner>>, Later(route, route'),
           DOMAIN sessions' \subseteq DOMAIN sessions,
           \A k \in DOMAIN sessions' : sessions'[k] = sessions[k]
    PROVE  IInv'
<1>1. route \in Route /\ route' \in Route
  BY DEF IInv, Shape
<1>2. Grows(owner, owner')
  BY NothingChanges
<1>3. ASSUME NEW r \in Turn PROVE TurnOK(turn'[r], route', owner')
  BY <1>1, <1>2, TurnStaysOK DEF IInv
<1>4. ASSUME NEW k \in DOMAIN sessions' PROVE SessionOK(sessions'[k], route', owner')
  BY <1>1, <1>2, LaterIsNotLess, SessionStaysOK DEF IInv
<1>5. QED
  BY <1>3, <1>4 DEF IInv

LEMMA RotateOK ==
    ASSUME IInv, NEW a \in Account, Rotate(a)
    PROVE  IInv'
<1>1. route' \in Route /\ budget' \in Budget /\ Later(route, route')
  BY MoveIsLater DEF Rotate
<1>2. UNCHANGED <<accounts, sessions, turn, cleanup, owner>>
  BY DEF Rotate
<1>3. Shape'
  BY <1>1, <1>2 DEF IInv, Shape, OwnersOK
<1>4. QED
  BY <1>1, <1>2, <1>3, RouteMoves

LEMMA DeleteAccountOK ==
    ASSUME IInv, NEW a \in Account, DeleteAccount(a)
    PROVE  IInv'
<1>1. accounts' \subseteq Account /\ cleanup' \subseteq Account /\ budget' \in Budget
  BY DEF DeleteAccount, IInv, Shape, Budget
<1>2. UNCHANGED <<sessions, turn, owner>>
  BY DEF DeleteAccount
<1>3. route' \in Route /\ Later(route, route')
  <2>1. route \in Route
    BY DEF IInv, Shape
  <2>2. CASE UNCHANGED route
    BY <2>1, <2>2, NothingChanges
  <2>3. ASSUME NEW b \in Successors(accounts'),
               route' = [active |-> b, generation |-> route.generation + 1]
        PROVE  route' \in Route /\ Later(route, route')
    BY <1>1, <2>1, <2>3 DEF Successors, Route, AnyAccount, Later
  <2>4. CASE route' = [route EXCEPT !.active = NoAccount]
    BY <2>1, <2>4 DEF Route, AnyAccount, Later
  <2>5. QED
    BY <2>2, <2>3, <2>4 DEF DeleteAccount
<1>4. Shape'
  BY <1>1, <1>2, <1>3 DEF IInv, Shape, OwnersOK
<1>5. QED
  BY <1>2, <1>3, <1>4, RouteMoves

LEMMA SessionsLeave ==
    ASSUME NEW S, sessions' = Only(sessions, S)
    PROVE  /\ DOMAIN sessions' \subseteq DOMAIN sessions
           /\ \A k \in DOMAIN sessions' : sessions'[k] = sessions[k]
BY DEF Only

LEMMA DeleteByAccountOK ==
    ASSUME IInv, NEW a \in Account, DeleteByAccount(a)
    PROVE  IInv'
<1>1. UNCHANGED <<route, accounts, turn, owner, budget>> /\ cleanup' = cleanup \ {a}
  BY DEF DeleteByAccount
<1>2. /\ DOMAIN sessions' \subseteq DOMAIN sessions
      /\ \A k \in DOMAIN sessions' : sessions'[k] = sessions[k]
  BY SessionsLeave DEF DeleteByAccount
<1>3. Shape'
  BY <1>1, <1>2 DEF IInv, Shape, OwnersOK
<1>4. QED
  BY <1>1, <1>2, <1>3, NothingChanges, RouteMoves

LEMMA DeleteSessionOK ==
    ASSUME IInv, NEW k \in Key, DeleteSession(k)
    PROVE  IInv'
<1>1. UNCHANGED <<route, accounts, turn, cleanup, owner>> /\ budget' \in Budget
  BY DEF DeleteSession, IInv, Shape, Budget
<1>2. /\ DOMAIN sessions' \subseteq DOMAIN sessions
      /\ \A j \in DOMAIN sessions' : sessions'[j] = sessions[j]
  BY SessionsLeave DEF DeleteSession
<1>3. Shape'
  BY <1>1, <1>2 DEF IInv, Shape, OwnersOK
<1>4. QED
  BY <1>1, <1>2, <1>3, NothingChanges, RouteMoves

(* A bounded nonempty set of naturals has a greatest element.              *)
LEMMA GreatestExists ==
    ASSUME NEW S, S \subseteq Nat, S # {}, NEW n \in Nat, \A x \in S : x <= n
    PROVE  \E g \in S : \A x \in S : x <= g
<1> DEFINE T == {n - x : x \in S}
<1>1. T \subseteq Nat /\ T # {}
  <2>1. \A x \in S : n - x \in Nat
    OBVIOUS
  <2>2. QED
    BY <2>1
<1>2. PICK k \in T : \A j \in T : ~(<<j, k>> \in OpToRel(<, Nat))
  BY <1>1, NatLessThanWellFounded, WFMin
<1>3. PICK g \in S : k = n - g
  OBVIOUS
<1>4. ASSUME NEW x \in S PROVE x <= g
  <2>1. n - x \in T
    OBVIOUS
  <2>2. ~(<<n - x, k>> \in OpToRel(<, Nat))
    BY <1>2, <2>1
  <2>3. ~(n - x < k)
    BY <1>1, <2>1, <2>2 DEF OpToRel
  <2>4. QED
    BY <1>3, <2>3
<1>5. QED
  BY <1>4

(* What the boot takes from the sessions is no less than any of them.      *)
LEMMA FloorIsHighest ==
    ASSUME IInv
    PROVE  /\ Floor \in Nat
           /\ \A k \in DOMAIN sessions : sessions[k].generation <= Floor
<1>1. Generations \subseteq Nat /\ \A x \in Generations : x <= route.generation
  BY DEF IInv, SessionOK, Binding, Generations
<1>2. route.generation \in Nat
  BY DEF IInv, Shape, Route
<1>3. CASE Generations = {}
  BY <1>3 DEF Floor, Generations
<1>4. CASE Generations # {}
  <2>1. \E g \in Generations : \A x \in Generations : x <= g
    BY <1>1, <1>2, <1>4, GreatestExists
  <2>2. Floor \in Generations /\ \A x \in Generations : x <= Floor
    BY <1>4, <2>1 DEF Floor
  <2>3. QED
    BY <1>1, <2>2 DEF Generations
<1>5. QED
  BY <1>3, <1>4

LEMMA RestartOK ==
    ASSUME IInv, Restart
    PROVE  IInv'
<1>1. UNCHANGED <<accounts, sessions, owner>> /\ turn' = [r \in Turn |-> Idle] /\ cleanup' = {}
  BY DEF Restart
<1>2. budget' \in Budget
  BY DEF Restart, IInv, Shape, Budget
<1>3. /\ route' \in Route
      /\ \A k \in DOMAIN sessions : sessions[k].generation <= route'.generation
  <2>1. Floor \in Nat /\ \A k \in DOMAIN sessions : sessions[k].generation <= Floor
    BY FloorIsHighest
  <2>2. \A k \in DOMAIN sessions :
           sessions[k].generation \in Nat /\ sessions[k].generation <= route.generation
    BY DEF IInv, SessionOK, Binding
  <2>3. route \in Route /\ accounts \subseteq Account
    BY DEF IInv, Shape
  <2>4. CASE UNCHANGED route
    BY <2>2, <2>3, <2>4
  <2>5. CASE route' = [route EXCEPT !.generation = Floor]
    BY <2>1, <2>3, <2>5 DEF Route
  <2>6. ASSUME NEW a \in accounts, route' = [active |-> a, generation |-> Floor + 1]
        PROVE  /\ route' \in Route
               /\ \A k \in DOMAIN sessions : sessions[k].generation <= route'.generation
    BY <2>1, <2>2, <2>3, <2>6 DEF Route, AnyAccount
  <2>7. CASE route' = [active |-> NoAccount, generation |-> Floor]
    BY <2>1, <2>7 DEF Route, AnyAccount
  <2>8. QED
    BY <2>4, <2>5, <2>6, <2>7 DEF Restart
<1>4. Shape'
  BY <1>1, <1>2, <1>3 DEF IInv, Shape, OwnersOK
<1>5. \A r \in Turn : TurnOK(turn'[r], route', owner')
  BY <1>1, IdleOK
<1>6. \A k \in DOMAIN sessions' : SessionOK(sessions'[k], route', owner')
  BY <1>1, <1>3 DEF IInv, SessionOK
<1>7. QED
  BY <1>4, <1>5, <1>6 DEF IInv

-----------------------------------------------------------------------------
(* The theorems.                                                           *)

LEMMA InitOK == Init => IInv
<1> SUFFICES ASSUME Init PROVE IInv
  OBVIOUS
<1>1. DOMAIN sessions = {} /\ DOMAIN owner = {}
  BY DEF Init
<1>2. turn = [r \in Turn |-> Idle] /\ accounts = Account /\ cleanup = {}
  BY DEF Init
<1>3. route \in Route /\ budget \in Budget
  BY BindingAssumption DEF Init, Route, AnyAccount, Budget
<1>4. Shape
  BY <1>1, <1>2, <1>3 DEF Shape, OwnersOK
<1>5. \A r \in Turn : TurnOK(turn[r], route, owner)
  BY <1>2, IdleOK
<1>6. QED
  BY <1>1, <1>4, <1>5 DEF IInv

LEMMA StepOK == IInv /\ [Next]_vars => IInv'
<1> SUFFICES ASSUME IInv, [Next]_vars PROVE IInv'
  OBVIOUS
<1>1. ASSUME NEW r \in Turn, Load(r) \/ TurnStep(r) PROVE IInv'
  BY <1>1, LoadOK, ResolveOK, LeaseOK, AnswerOK, ChooseToolOK, FailOK, FollowOK,
     ReadExistingOK, ReadVersionOK, WriteOK DEF TurnStep
<1>2. ASSUME NEW a \in Account, Rotate(a) \/ DeleteAccount(a) \/ DeleteByAccount(a) PROVE IInv'
  BY <1>2, RotateOK, DeleteAccountOK, DeleteByAccountOK
<1>3. ASSUME NEW k \in Key, DeleteSession(k) PROVE IInv'
  BY <1>3, DeleteSessionOK
<1>4. CASE Restart
  BY <1>4, RestartOK
<1>5. CASE UNCHANGED vars
  BY <1>5 DEF vars, IInv, Shape, OwnersOK
<1>6. QED
  BY <1>1, <1>2, <1>3, <1>4, <1>5 DEF Next

LEMMA IInvHolds == Spec => []IInv
BY InitOK, StepOK, PTL DEF Spec

(* The variables keep their types.                                         *)
THEOREM BindingTypesAreKept == Spec => []TypeOK
<1>1. IInv => TypeOK
  <2> SUFFICES ASSUME IInv PROVE TypeOK
    OBVIOUS
  <2>1. turn \in [Turn -> TurnState]
    BY DEF IInv, Shape, TurnOK
  <2>2. \A k \in DOMAIN sessions : sessions[k] \in Binding
    BY DEF IInv, SessionOK
  <2>3. QED
    BY <2>1, <2>2 DEF IInv, Shape, OwnersOK, TypeOK
<1>2. QED
  BY <1>1, IInvHolds, PTL

(* No account is sent into another's conversation and no session stores    *)
(* one (openaiChat).                                                       *)
THEOREM ConversationsStayWithTheirAccount == Spec => []NoForeignConversation
<1>1. IInv => NoForeignConversation
  BY DEF IInv, TurnOK, SessionOK, Owns, NoForeignConversation
<1>2. QED
  BY <1>1, IInvHolds, PTL

(* A write of the active account is not refused as stale (upsertBinding).  *)
THEOREM ActiveWritesCount == Spec => []ActiveWritesAreAccepted
<1>1. IInv => ActiveWritesAreAccepted
  <2> SUFFICES ASSUME IInv, NEW r \in Turn, turn[r].pc = "write", turn[r].authoritative,
                      turn[r].generation = route.generation, Refused(turn[r])
               PROVE  FALSE
    BY DEF ActiveWritesAreAccepted
  <2>1. Bound(turn[r].key) /\ sessions[turn[r].key].generation > route.generation
    BY DEF Refused, Stale
  <2>2. sessions[turn[r].key].generation \in Nat /\ route.generation \in Nat
        /\ sessions[turn[r].key].generation <= route.generation
    BY <2>1 DEF IInv, SessionOK, Binding, Bound, Shape, Route
  <2>3. QED
    BY <2>1, <2>2
<1>2. QED
  BY <1>1, IInvHolds, PTL

(* Only a write changes a session that stays, and only its own.            *)
LEMMA WhoChangesSessions ==
    ASSUME IInv, [Next]_vars, NEW k \in DOMAIN sessions \intersect DOMAIN sessions',
           sessions'[k] # sessions[k]
    PROVE  \E r \in Turn :
              /\ turn[r].pc = "write" /\ turn[r].key = k /\ ~Refused(turn[r])
              /\ sessions'[k] = [account |-> turn[r].account,
                                 conversation |-> turn[r].conversation,
                                 generation |-> turn[r].generation]
              /\ UNCHANGED route
<1>1. ASSUME NEW r \in Turn, Write(r)
      PROVE  /\ turn[r].pc = "write" /\ turn[r].key = k /\ ~Refused(turn[r])
             /\ sessions'[k] = [account |-> turn[r].account,
                                conversation |-> turn[r].conversation,
                                generation |-> turn[r].generation]
             /\ UNCHANGED route
  BY <1>1, SMTT(30) DEF Write, With
<1>2. ASSUME NEW r \in Turn, Load(r) \/ (TurnStep(r) /\ ~Write(r))
      PROVE  UNCHANGED sessions
  BY <1>2 DEF Load, TurnStep, Resolve, Lease, Answer, ChooseTool, Fail, Follow,
              ReadExisting, ReadVersion
<1>3. ASSUME NEW a \in Account, Rotate(a) \/ DeleteAccount(a)
      PROVE  UNCHANGED sessions
  BY <1>3 DEF Rotate, DeleteAccount
<1>4. ASSUME NEW a \in Account, DeleteByAccount(a)
      PROVE  sessions'[k] = sessions[k]
  BY <1>4, SessionsLeave DEF DeleteByAccount
<1>5. ASSUME NEW j \in Key, DeleteSession(j)
      PROVE  sessions'[k] = sessions[k]
  BY <1>5, SessionsLeave DEF DeleteSession
<1>6. Restart => UNCHANGED sessions
  BY DEF Restart
<1>7. UNCHANGED vars => UNCHANGED sessions
  BY DEF vars
<1>8. QED
  BY <1>1, <1>2, <1>3, <1>4, <1>5, <1>6, <1>7 DEF Next, TurnStep

(* What the active account has committed in the current generation stays   *)
(* bound to it (upsertBinding).                                            *)
THEOREM CurrentBindingsStay == Spec => CurrentBindingIsKept
<1> DEFINE Kept == \A k \in DOMAIN sessions \intersect DOMAIN sessions' :
                      (/\ route.active # NoAccount
                       /\ sessions[k].account = route.active
                       /\ sessions[k].generation = route.generation)
                      => sessions'[k].account = sessions[k].account
<1>1. IInv /\ [Next]_vars => Kept
  <2> SUFFICES ASSUME IInv, [Next]_vars, NEW k \in DOMAIN sessions \intersect DOMAIN sessions',
                      route.active # NoAccount, sessions[k].account = route.active,
                      sessions[k].generation = route.generation,
                      sessions'[k].account # sessions[k].account
               PROVE  FALSE
    OBVIOUS
  <2>1. PICK r \in Turn :
              /\ turn[r].pc = "write" /\ turn[r].key = k /\ ~Refused(turn[r])
              /\ sessions'[k] = [account |-> turn[r].account,
                                 conversation |-> turn[r].conversation,
                                 generation |-> turn[r].generation]
    BY WhoChangesSessions
  <2>2. turn[r].generation \in Nat /\ route.generation \in Nat
        /\ turn[r].generation <= route.generation
    BY <2>1 DEF IInv, TurnOK, TurnState, Shape, Route
  <2>3. ~(sessions[k].generation > turn[r].generation)
    BY <2>1 DEF Refused, Stale, Bound
  <2>4. turn[r].generation = route.generation
    BY <2>2, <2>3
  <2>5. turn[r].account # route.active
    BY <2>1
  <2>6. turn[r].authoritative
    BY <2>1, <2>4, <2>5 DEF Refused, Stale, Bound
  <2>7. QED
    BY <2>1, <2>4, <2>5, <2>6 DEF IInv, TurnOK
<1>2. QED
  BY <1>1, IInvHolds, PTL DEF Spec, CurrentBindingIsKept

(* A late writer of an earlier route does not undo what a later one stored *)
(* (upsertBinding).                                                        *)
THEOREM BindingsOnlyAdvance == Spec => BindingsDoNotFallBack
<1> DEFINE Kept == \A k \in DOMAIN sessions \intersect DOMAIN sessions' :
                      sessions'[k].generation >= sessions[k].generation
<1>1. IInv /\ [Next]_vars => Kept
  <2> SUFFICES ASSUME IInv, [Next]_vars, NEW k \in DOMAIN sessions \intersect DOMAIN sessions'
               PROVE  sessions'[k].generation >= sessions[k].generation
    OBVIOUS
  <2>1. sessions[k].generation \in Nat
    BY DEF IInv, SessionOK, Binding
  <2>2. CASE sessions'[k] = sessions[k]
    BY <2>1, <2>2
  <2>3. CASE sessions'[k] # sessions[k]
    <3>1. PICK r \in Turn :
              /\ turn[r].pc = "write" /\ turn[r].key = k /\ ~Refused(turn[r])
              /\ sessions'[k] = [account |-> turn[r].account,
                                 conversation |-> turn[r].conversation,
                                 generation |-> turn[r].generation]
      BY <2>3, WhoChangesSessions
    <3>2. turn[r].generation \in Nat
      BY DEF IInv, TurnOK, TurnState
    <3>3. ~(sessions[k].generation > turn[r].generation)
      BY <3>1 DEF Refused, Stale, Bound
    <3>4. QED
      BY <2>1, <3>1, <3>2, <3>3
  <2>4. QED
    BY <2>2, <2>3
<1>2. QED
  BY <1>1, IInvHolds, PTL DEF Spec, BindingsDoNotFallBack

=============================================================================
