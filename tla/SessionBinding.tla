--------------------------- MODULE SessionBinding ---------------------------
(***************************************************************************)
(* Which Microsoft account and which upstream conversation a client's      *)
(* session is bound to (server.go persistSession, sessions.go).            *)
(*                                                                         *)
(* The route is the one SingleActiveAccount promises: a holder, and a      *)
(* generation that no rotation and no crash uses twice.  A turn reads the  *)
(* binding, resolves the active account, calls it, and writes the binding  *)
(* back in three critical sections: it reads the old binding, then the     *)
(* route's version, and then stores.  The store's limits are not reached,  *)
(* clients do not bring conversation IDs of their own, and accounts only   *)
(* leave: what a login adds is a move of the route like any other.         *)
(***************************************************************************)
EXTENDS Naturals, FiniteSets

CONSTANTS
    Account,            \* account IDs
    NoAccount,          \* the empty ID
    Turn,               \* request goroutines
    Agents,             \* those that run openaiChat
    Key,                \* session keys
    SavesFail,          \* whether writes of the session file may fail
    MaxMoves,           \* bound on changes of the route
    MaxConversations,   \* bound on upstream conversations
    MaxDeletes,         \* bound on deletions of accounts and of sessions
    MaxCrashes          \* bound on crashes

ASSUME BindingAssumption ==
    /\ NoAccount \notin Account /\ Key # {}
    /\ Agents \subseteq Turn
    /\ SavesFail \in BOOLEAN
    /\ MaxMoves \in Nat /\ MaxConversations \in Nat
    /\ MaxDeletes \in Nat /\ MaxCrashes \in Nat

VARIABLES
    route,      \* activeAccountID and activeAccountGeneration, as on disk
    accounts,   \* the accounts of the token store
    sessions,   \* the session store: Key -> Binding, on those that are bound
    turn,       \* the local state of each request
    cleanup,    \* accounts deleted from the token store, not yet from the sessions
    owner,      \* history: whose conversation is whose
    budget      \* what is left of the bounds

vars == <<route, accounts, sessions, turn, cleanup, owner, budget>>

AnyAccount == Account \union {NoAccount}
NoConversation == 0
Conversation == 0 .. MaxConversations

Route   == [active : AnyAccount, generation : Nat]
Binding == [account : AnyAccount, conversation : Conversation, generation : Nat]

PC == {"idle", "resolve", "lease", "call", "next", "existing", "version", "write"}

(* key            the session key that is written (persistKey)              *)
(* bound          activeAccountID: the account of the session, or the      *)
(*                client's choice if explicit                              *)
(* account        the resolved account; when persisting, the one to store  *)
(* conversation   the upstream conversation                                *)
(* leased         the route's generation when the lease was taken          *)
(* clear, rotate  persistSession's reasons not to keep a conversation      *)
(* generation, authoritative   what accountRouteVersion returned           *)
TurnState ==
    [pc : PC, key : Key, bound : AnyAccount, explicit : BOOLEAN,
     account : AnyAccount, conversation : Conversation, switched : BOOLEAN,
     leased : Nat, clear : BOOLEAN, rotate : BOOLEAN,
     generation : Nat, authoritative : BOOLEAN]

Budget == [moves : Nat, deletes : Nat, crashes : Nat]

Bound(k) == k \in DOMAIN sessions
BoundAccount(k) == IF Bound(k) THEN sessions[k].account ELSE NoAccount

TypeOK ==
    /\ route \in Route
    /\ accounts \subseteq Account /\ cleanup \subseteq Account
    /\ DOMAIN sessions \subseteq Key
    /\ \A k \in DOMAIN sessions : sessions[k] \in Binding
    /\ turn \in [Turn -> TurnState]
    /\ DOMAIN owner \subseteq Conversation \ {NoConversation}
    /\ \A v \in DOMAIN owner : owner[v] \in Account
    /\ budget \in Budget

Idle == [pc |-> "idle", key |-> CHOOSE k \in Key : TRUE, bound |-> NoAccount,
         explicit |-> FALSE, account |-> NoAccount, conversation |-> NoConversation,
         switched |-> FALSE, leased |-> 0, clear |-> FALSE, rotate |-> FALSE,
         generation |-> 0, authoritative |-> FALSE]

Init ==
    /\ accounts = Account
    /\ route \in [active : Account, generation : {1}]
    /\ sessions = <<>> /\ owner = <<>>
    /\ turn = [r \in Turn |-> Idle]
    /\ cleanup = {}
    /\ budget = [moves |-> MaxMoves, deletes |-> MaxDeletes, crashes |-> MaxCrashes]

With(f, x, v) == [y \in DOMAIN f \union {x} |-> IF y = x THEN v ELSE f[y]]
Only(f, S) == [y \in DOMAIN f \intersect S |-> f[y]]

Become(r, state) == turn' = [turn EXCEPT ![r] = state]

-----------------------------------------------------------------------------
(* The route.                                                              *)

(* activateAccountLocked.                                                  *)
MoveTo(a) ==
    /\ budget.moves > 0
    /\ budget' = [budget EXCEPT !.moves = @ - 1]
    /\ route' = [active |-> a, generation |-> route.generation + 1]

(* Another request, or the administrator, changes the active account.      *)
Rotate(a) ==
    /\ a \in accounts \ {route.active}
    /\ MoveTo(a)
    /\ UNCHANGED <<accounts, sessions, turn, cleanup, owner>>

-----------------------------------------------------------------------------
(* A turn.                                                                 *)

(* The client names the account explicitly, or e = NoAccount.  Upstream    *)
(* conversations are account-owned, so one is only loaded for its account. *)
Load(r) ==
    \E k, w \in Key, e \in AnyAccount :
        LET bound == IF e = NoAccount THEN BoundAccount(k) ELSE e
        IN  /\ turn[r].pc = "idle"
            /\ r \notin Agents => w = k
            /\ Become(r, [Idle EXCEPT
                  !.pc = "resolve", !.key = w, !.bound = bound, !.explicit = e # NoAccount,
                  !.conversation =
                     IF Bound(k) /\ bound # NoAccount /\ bound = sessions[k].account
                     THEN sessions[k].conversation ELSE NoConversation])
            /\ UNCHANGED <<route, accounts, sessions, cleanup, owner, budget>>

(* Slip: the turn is moved, but goes on with its conversation.             *)
MovedInPlace(h, a) == [h EXCEPT !.account = a, !.bound = a, !.switched = TRUE]

(* The turn goes on under another account, in a new conversation.          *)
Moved(h, a) ==
    [h EXCEPT !.account = a, !.bound = a, !.switched = TRUE,
              !.conversation = NoConversation]

(* Slip: nobody looks whether there is an active account.                  *)
AnyRoute == TRUE

(* errNoActiveAccount otherwise.                                           *)
Routable == route.active # NoAccount

(* resolveRequestAccount.  retried: the first account failed validation.   *)
Resolve(r) ==
    LET h == turn[r]
        a == route.active
    IN  /\ h.pc = "resolve"
        /\ \/ Become(r, Idle)
           \/ \E retried \in BOOLEAN :
                LET other == h.bound # NoAccount /\ h.bound # a
                IN  /\ Routable
                    /\ ~(other /\ h.explicit)
                    /\ Become(r, IF retried \/ other
                                 THEN [Moved(h, a) EXCEPT !.pc = "lease"]
                                 ELSE [h EXCEPT !.account = a, !.pc = "lease"])
        /\ UNCHANGED <<route, accounts, sessions, cleanup, owner, budget>>

(* beginActiveAccountRequest, or the lease of a single call.               *)
Lease(r) ==
    /\ turn[r].pc = "lease"
    /\ Become(r, IF turn[r].account = route.active
                 THEN [turn[r] EXCEPT !.pc = "call", !.leased = route.generation]
                 ELSE Idle)
    /\ UNCHANGED <<route, accounts, sessions, cleanup, owner, budget>>

(* What persistSession is called with; the rest of the turn is over.       *)
Persist(h, account, conversation, clear, rotate) ==
    [Idle EXCEPT !.pc = "existing", !.key = h.key, !.leased = h.leased,
        !.account = account, !.conversation = conversation,
        !.clear = clear, !.rotate = rotate]

(* The upstream answers in the turn's conversation, or opens a new one.    *)
(* rotate: the conversation is almost full.  An answer has a conversation, *)
(* so that clearing it because the output was cut changes nothing.         *)
Answer(r) ==
    LET h == turn[r]
    IN  /\ h.pc = "call"
        /\ \E rotate \in BOOLEAN, v \in Conversation \ {NoConversation} :
             /\ IF h.conversation # NoConversation
                THEN v = h.conversation /\ UNCHANGED owner
                ELSE /\ 1 .. v - 1 = DOMAIN owner
                     /\ owner' = With(owner, v, h.account)
             /\ Become(r, Persist(h, h.account, v, FALSE, rotate))
        /\ UNCHANGED <<route, accounts, sessions, cleanup, budget>>

(* The tool router chose a call: its conversation is thrown away, and the  *)
(* session stays with the account it was bound to (activeAccountID).       *)
ChooseTool(r) ==
    /\ turn[r].pc = "call" /\ r \in Agents
    /\ Become(r, Persist(turn[r], turn[r].bound, NoConversation, turn[r].switched, FALSE))
    /\ UNCHANGED <<route, accounts, sessions, cleanup, owner, budget>>

(* The turn fails, or its failure moves the route and it follows.          *)
Fail(r) ==
    LET h == turn[r]
    IN  /\ h.pc = "call"
        /\ \/ Become(r, Idle) /\ UNCHANGED <<route, budget>>
           \/ /\ ~h.explicit /\ ~h.switched /\ h.account = route.active
              /\ \E a \in accounts \ {route.active} : MoveTo(a)
              /\ Become(r, [h EXCEPT !.pc = "next"])
        /\ UNCHANGED <<accounts, sessions, cleanup, owner>>

Follow(r) ==
    /\ turn[r].pc = "next"
    /\ \/ Become(r, Idle)
       \/ /\ Routable
          /\ Become(r, [Moved(turn[r], route.active) EXCEPT !.pc = "lease"])
    /\ UNCHANGED <<route, accounts, sessions, cleanup, owner, budget>>

-----------------------------------------------------------------------------
(* persistSession.                                                         *)

(* An empty result keeps the conversation of the session, if it is the     *)
(* account's; one that is almost full is dropped.                          *)
ReadExisting(r) ==
    LET h    == turn[r]
        keep == ~h.clear /\ h.conversation = NoConversation
                  /\ Bound(h.key) /\ BoundAccount(h.key) = h.account
    IN  /\ h.pc = "existing"
        /\ Become(r, [h EXCEPT !.pc = "version",
              !.conversation = IF h.rotate THEN NoConversation
                               ELSE IF keep THEN sessions[h.key].conversation ELSE @])
        /\ UNCHANGED <<route, accounts, sessions, cleanup, owner, budget>>

(* accountRouteVersion.                                                    *)
ReadVersion(r) ==
    LET h == turn[r]
    IN  /\ h.pc = "version"
        /\ Become(r, [h EXCEPT !.pc = "write", !.generation = route.generation,
              !.authoritative = h.account # NoAccount /\ h.account = route.active])
        /\ UNCHANGED <<route, accounts, sessions, cleanup, owner, budget>>

(* Slips: only the account is compared; only the generation is.            *)
StaleAccount(current, h) ==
    /\ current.generation = h.generation /\ current.account # NoAccount
    /\ current.account # h.account /\ ~h.authoritative

StaleGeneration(current, h) == current.generation > h.generation

(* What upsertBinding refuses to overwrite.                                *)
Stale(current, h) ==
    \/ current.generation > h.generation
    \/ /\ current.generation = h.generation
       /\ current.account # NoAccount /\ current.account # h.account
       /\ ~h.authoritative

Refused(h) == Bound(h.key) /\ Stale(sessions[h.key], h)

(* upsertBinding; a failed write leaves the session as it was.             *)
Write(r) ==
    LET h == turn[r]
        v == [account |-> h.account, conversation |-> h.conversation,
              generation |-> h.generation]
    IN  /\ h.pc = "write"
        /\ \/ ~Refused(h) /\ sessions' = With(sessions, h.key, v)
           \/ (Refused(h) \/ SavesFail) /\ UNCHANGED sessions
        /\ Become(r, Idle)
        /\ UNCHANGED <<route, accounts, cleanup, owner, budget>>

-----------------------------------------------------------------------------
(* The administrator, and crashes.                                         *)

Without(a) == {k \in DOMAIN sessions : sessions[k].account # a}

(* Whom a route without its account goes to.                               *)
Successors(S) == IF S = {} THEN {NoAccount} ELSE S

(* deleteAccount, first half: the account leaves the token store, and the  *)
(* route its account.  When the route file cannot be written, the next     *)
(* ensure moves the route, or vacates it in memory if nobody is left.      *)
DeleteAccount(a) ==
    /\ budget.deletes > 0 /\ a \in accounts
    /\ accounts' = accounts \ {a}
    /\ cleanup' = cleanup \union {a}
    /\ budget' = [budget EXCEPT !.deletes = @ - 1]
    /\ IF route.active # a THEN UNCHANGED route
       ELSE \/ \E b \in Successors(accounts') :
                 route' = [active |-> b, generation |-> route.generation + 1]
            \/ /\ SavesFail /\ accounts' = {}
               /\ route' = [route EXCEPT !.active = NoAccount]
    /\ UNCHANGED <<sessions, turn, owner>>

(* Second half: its sessions are deleted; it may fail, and the             *)
(* administrator is told.                                                  *)
DeleteByAccount(a) ==
    /\ a \in cleanup
    /\ \/ sessions' = Only(sessions, Without(a)) /\ cleanup' = cleanup \ {a}
       \/ SavesFail /\ UNCHANGED sessions /\ cleanup' = cleanup \ {a}
    /\ UNCHANGED <<route, accounts, turn, owner, budget>>

(* A session is deleted, by the administrator or because it expired.       *)
DeleteSession(k) ==
    /\ budget.deletes > 0 /\ Bound(k)
    /\ budget' = [budget EXCEPT !.deletes = @ - 1]
    /\ sessions' = Only(sessions, Key \ {k})
    /\ UNCHANGED <<route, accounts, turn, cleanup, owner>>

Generations == {sessions[k].generation : k \in DOMAIN sessions}

(* Slip: the boot does not look at the sessions.                           *)
NoFloor == 0

(* maxRouteGeneration.                                                     *)
Floor == IF Generations = {} THEN 0
         ELSE CHOOSE g \in Generations : \A x \in Generations : x <= g

(* A crash and a boot.  The route file may be lost, or have been written   *)
(* by a build that did not keep generations.                               *)
Restart ==
    /\ budget.crashes > 0
    /\ budget' = [budget EXCEPT !.crashes = @ - 1]
    /\ \/ UNCHANGED route
       \/ route' = [route EXCEPT !.generation = Floor]
       \/ \E a \in accounts : route' = [active |-> a, generation |-> Floor + 1]
       \/ accounts = {} /\ route' = [active |-> NoAccount, generation |-> Floor]
    /\ turn' = [r \in Turn |-> Idle]
    /\ cleanup' = {}
    /\ UNCHANGED <<accounts, sessions, owner>>

-----------------------------------------------------------------------------

TurnStep(r) ==
    \/ Resolve(r) \/ Lease(r) \/ Answer(r) \/ ChooseTool(r) \/ Fail(r) \/ Follow(r)
    \/ ReadExisting(r) \/ ReadVersion(r) \/ Write(r)

Next ==
    \/ \E r \in Turn : Load(r) \/ TurnStep(r)
    \/ \E a \in Account : Rotate(a) \/ DeleteAccount(a) \/ DeleteByAccount(a)
    \/ \E k \in Key : DeleteSession(k)
    \/ Restart

Spec == Init /\ [][Next]_vars

-----------------------------------------------------------------------------
(* Properties.                                                             *)

(* Upstream conversations are account-owned: no account is ever sent into  *)
(* a conversation of another, and no session stores one, however turns,    *)
(* failovers, bindings and deletions interleave (server.go openaiChat).    *)
NoForeignConversation ==
    /\ \A r \in Turn :
         (turn[r].pc = "call" /\ turn[r].conversation # NoConversation)
         => owner[turn[r].conversation] = turn[r].account
    /\ \A k \in DOMAIN sessions :
         sessions[k].conversation # NoConversation
         => owner[sessions[k].conversation] = sessions[k].account

(* What the active account has committed in the current generation is not  *)
(* overwritten by a request that drains under another account, whenever    *)
(* that one read the route (sessions.go upsertBinding).                    *)
CurrentBindingIsKept ==
    [][\A k \in DOMAIN sessions \intersect DOMAIN sessions' :
          (/\ route.active # NoAccount
           /\ sessions[k].account = route.active
           /\ sessions[k].generation = route.generation)
          => sessions'[k].account = sessions[k].account]_vars

(* A binding's generation never falls back: late writers of an earlier     *)
(* route cannot undo what a later one has stored.                          *)
BindingsDoNotFallBack ==
    [][\A k \in DOMAIN sessions \intersect DOMAIN sessions' :
          sessions'[k].generation >= sessions[k].generation]_vars

(* A write of the active account is not refused as stale, not even after a *)
(* boot that found no generation on disk (account_router.go                *)
(* initializeAccountRouter: "a restart cannot make a legitimate            *)
(* active-account write look stale").                                      *)
ActiveWritesAreAccepted ==
    \A r \in Turn :
        (turn[r].pc = "write" /\ turn[r].authoritative
           /\ turn[r].generation = route.generation)
        => ~Refused(turn[r])

-----------------------------------------------------------------------------
(* What a comment of the code says, and the code does not do.              *)

(* sessions.go:530-531: "prevents a draining request from an older account *)
(* generation from overwriting the binding already committed by the new    *)
(* active account".                                                        *)
DrainingTurnsDoNotOverwrite ==
    [][\A r \in Turn :
          LET h == turn[r] IN
          (/\ h.pc = "write" /\ Bound(h.key) /\ h.account # route.active
           /\ sessions[h.key].account = route.active
           /\ sessions[h.key].generation > h.leased)
          => Bound(h.key)' /\ sessions'[h.key] = sessions[h.key]]_vars

=============================================================================
