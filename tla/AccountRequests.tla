-------------------------- MODULE AccountRequests --------------------------
(***************************************************************************)
(* The request handlers, the account administration and the process life   *)
(* cycle that drive the router (internal/web/server.go, account_router.go).*)
(*                                                                         *)
(* A handler is a goroutine.  Between two critical sections of the router  *)
(* it holds no lock, so each of its steps is one critical section, or one  *)
(* event outside any (a token validation, the end of an upstream call).    *)
(* Requests in Agents are turns of openaiChat, which own one lease for all *)
(* their upstream calls; the others are chatOnce, chatStream and           *)
(* imageGenerations, which take a lease for each call.                     *)
(***************************************************************************)
EXTENDS AccountRouter

CONSTANTS
    Request,             \* request handler slots, reused for ever
    Agents,              \* those that run openaiChat
    Administrator,       \* the handler of the account administration
    InitialAccounts,     \* the token store at the first start
    CallFailures,        \* kinds of failure an upstream call may end with
    ValidationFailures,  \* kinds of failure EnsureValid may end with
    RouteWriteFails,     \* whether writes of the route file may fail
    MaxFailures,         \* bound on failed calls and validations
    MaxAdmin,            \* bound on administrative operations
    MaxCrashes,          \* bound on crashes of the process
    MaxTime              \* bound on the clock

ASSUME RequestAssumption ==
    /\ Agents \subseteq Request
    /\ Administrator \notin Request
    /\ InitialAccounts \in Seq(Account)
    /\ CallFailures \subseteq FailureKind \ {"inactive"}
    /\ ValidationFailures \subseteq FailureKind \ {"inactive"}
    /\ RouteWriteFails \in BOOLEAN
    /\ MaxFailures \in Nat /\ MaxAdmin \in Nat
    /\ MaxCrashes \in Nat /\ MaxTime \in Nat \ {0}

(* The token store holds an account once.                                  *)
ASSUME AccountsAreDistinct ==
    \A i, j \in DOMAIN InitialAccounts : InitialAccounts[i] = InitialAccounts[j] => i = j

VARIABLES
    req,      \* the local state of each handler
    leases,   \* activeAccountLeases, by the handler that registered the lease
    admin,    \* the local state of the administrator's handler
    budget    \* what is left of the bounds

vars == <<accounts, route, now, req, leases, admin, budget>>

Lease == [account : Account, generation : Nat]
NoLease == [account |-> NoAccount, generation |-> 0]

Outcome == FailureKind \union {"ok"}

PC == {"idle", "resolve", "validate", "confirm",
       "retry", "revalidate", "reconfirm",
       "start", "call", "mark", "release_old", "lease_next",
       "terminal", "success", "release"}

(* account  acc.ID, NoAccount until the preflight has resolved one         *)
(* target, generation, valid   the locals of resolveActiveAccount: the     *)
(*          snapshot taken before EnsureValid, and what that returned      *)
(* error    how the request's last upstream call ended                     *)
(* switched accountSwitched: no further failover                           *)
(* moves    history: how often this request has moved the pointer          *)
Handler == [pc : PC, account : MaybeAccount, target : MaybeAccount,
            generation : Nat, valid : Outcome, error : Outcome,
            switched : BOOLEAN, moves : Nat]

IdleHandler == [pc |-> "idle", account |-> NoAccount, target |-> NoAccount,
                generation |-> 0, valid |-> "ok", error |-> "ok",
                switched |-> FALSE, moves |-> 0]

AdminPC == {"idle", "clear", "sync", "validate", "confirm"}
Admin == [pc : AdminPC, target : MaybeAccount, generation : Nat, valid : Outcome]
IdleAdmin == [pc |-> "idle", target |-> NoAccount, generation |-> 0, valid |-> "ok"]

Budget == [failures : Nat, admin : Nat, crashes : Nat]

TypeOK ==
    /\ accounts \in Seq(Account)
    /\ route \in Route
    /\ now \in Nat
    /\ req \in [Request -> Handler]
    /\ leases \in [Request -> Lease \union {NoLease}]
    /\ admin \in Admin
    /\ budget \in Budget

Init ==
    /\ accounts = InitialAccounts
    /\ now = 1
    /\ route = InitializeAccountRouter(NoFile, InitialAccounts)
    /\ req = [r \in Request |-> IdleHandler]
    /\ leases = [r \in Request |-> NoLease]
    /\ admin = IdleAdmin
    /\ budget = [failures |-> MaxFailures, admin |-> MaxAdmin, crashes |-> MaxCrashes]

-----------------------------------------------------------------------------

SomeWrites == IF RouteWriteFails THEN Writes
              ELSE [ensure : {TRUE}, save : {TRUE}]

Ensured(w) == EnsureActiveAccount(route, accounts, w.ensure)

(* The handler's next local state.                                         *)
Become(r, handler) == req' = [req EXCEPT ![r] = handler]

(* Continue at pc; the locals of a resolve that ended are out of scope.    *)
Continue(r, pc) ==
    [req[r] EXCEPT !.pc = pc, !.target = NoAccount, !.generation = 0, !.valid = "ok"]

Goto(r, pc) == Become(r, Continue(r, pc))

GotoAfterMove(r, pc, advanced) ==
    Become(r, [Continue(r, pc) EXCEPT !.moves = IF advanced THEN @ + 1 ELSE @])

Snapshot(r, pc, R) ==
    Become(r, [req[r] EXCEPT !.pc = pc, !.target = R.activeAccountID,
                             !.generation = R.generation])

SpendFailure ==
    /\ budget.failures > 0
    /\ budget' = [budget EXCEPT !.failures = @ - 1]

Release(r) == leases' = [leases EXCEPT ![r] = NoLease]

(* The active account, if the ensure succeeded and there is one.           *)
Resolvable(e) == e.ok /\ e.route.activeAccountID # NoAccount /\ ~CircuitOpen(e.route)
ActiveAvailable(R) == Available(R.health, R.activeAccountID, now)

(* The route is the one a handler saw before it dropped the lock.          *)
SameRoute(e, h) ==
    /\ e.ok
    /\ e.route.activeAccountID = h.target
    /\ e.route.generation = h.generation

-----------------------------------------------------------------------------
(* Preflight: resolveRequestAccount.                                       *)

Arrive(r) ==
    /\ req[r].pc = "idle"
    /\ Become(r, [IdleHandler EXCEPT !.pc = "resolve"])
    /\ UNCHANGED <<accounts, route, now, leases, admin, budget>>

(* First section of resolveActiveAccount: an unavailable active account is *)
(* retired at once, and this attempt fails all the same.                   *)
Resolve(r) ==
    /\ req[r].pc = "resolve"
    /\ \E w \in SomeWrites :
         LET e   == Ensured(w)
             adv == AdvanceActiveAccount(e.route, e.route.activeAccountID, accounts, w)
         IN  \/ /\ ~Resolvable(e)
                /\ route' = e.route
                /\ Goto(r, "retry")
             \/ /\ Resolvable(e) /\ ~ActiveAvailable(e.route)
                /\ route' = adv.route
                /\ GotoAfterMove(r, "retry", adv.advanced)
             \/ /\ Resolvable(e) /\ ActiveAvailable(e.route)
                /\ route' = e.route
                /\ Snapshot(r, "validate", e.route)
    /\ UNCHANGED <<accounts, now, leases, admin, budget>>

(* EnsureValid runs without the router lock.  An account deleted before it *)
(* starts is not found; one deleted while a refresh is under way is put    *)
(* back by the Upsert that publishes the new token.                        *)
EnsureValid(target, outcome) ==
    \/ /\ outcome = "ok"
       /\ accounts' = IF Listed(accounts, target) THEN accounts
                      ELSE Append(accounts, target)
       /\ UNCHANGED budget
    \/ /\ outcome \in ValidationFailures
       /\ SpendFailure
       /\ UNCHANGED accounts
    \/ /\ outcome = "route" /\ ~Listed(accounts, target)
       /\ UNCHANGED <<accounts, budget>>

Validate(r) ==
    /\ req[r].pc \in {"validate", "revalidate"}
    /\ \E outcome \in Outcome :
         /\ EnsureValid(req[r].target, outcome)
         /\ Become(r, [req[r] EXCEPT
                !.pc = IF req[r].pc = "validate" THEN "confirm" ELSE "reconfirm",
                !.valid = outcome])
    /\ UNCHANGED <<route, now, leases, admin>>

(* The resolved account becomes the request's own.  A local rejection (an  *)
(* explicit accountId that is not the active one, a prompt over the limit, *)
(* an account without oid/tid) ends the request; a session bound to        *)
(* another account counts as a switch.                                     *)
Resolved(r, afterRetry) ==
    \/ Goto(r, "release")
    \/ \E otherBinding \in BOOLEAN :
         Become(r, [Continue(r, "start") EXCEPT
                        !.account = req[r].target,
                        !.switched = afterRetry \/ otherBinding])

(* Second section of resolveActiveAccount.                                 *)
Confirm(r) ==
    /\ req[r].pc = "confirm"
    /\ \E w \in SomeWrites :
         LET e    == Ensured(w)
             fail == RetireAfterValidation(e.route, accounts, req[r].target,
                                           req[r].valid, w)
         IN  \/ /\ ~SameRoute(e, req[r])
                /\ route' = e.route
                /\ Goto(r, "retry")
             \/ /\ SameRoute(e, req[r]) /\ req[r].valid # "ok"
                /\ route' = fail.route
                /\ GotoAfterMove(r, "retry", fail.advanced)
             \/ /\ SameRoute(e, req[r]) /\ req[r].valid = "ok"
                /\ route' = e.route
                /\ Resolved(r, FALSE)
    /\ UNCHANGED <<accounts, now, leases, admin, budget>>

-----------------------------------------------------------------------------
(* resolveActiveAccountWithoutAdvance: the retry of the preflight, and     *)
(* nextHealthyAccount during a failover.                                   *)

InFailover(r) == req[r].account # NoAccount

(* Slip: an attempt without a usable account is repeated.                  *)
RetryAgain(r) == Goto(r, "retry")

(* A preflight that fails twice answers the client with an error; a        *)
(* failover without a usable successor falls back to the first failure.    *)
RetryFailed(r) == Goto(r, IF InFailover(r) THEN "terminal" ELSE "release")

Retry(r) ==
    /\ req[r].pc = "retry"
    /\ \E w \in SomeWrites :
         LET e == Ensured(w)
         IN  \/ /\ ~Resolvable(e)
                /\ route' = e.route
                /\ RetryFailed(r)
             \/ /\ Resolvable(e) /\ ~ActiveAvailable(e.route)
                /\ route' = PersistActiveAccount(e.route, w.save)
                /\ RetryFailed(r)
             \/ /\ Resolvable(e) /\ ActiveAvailable(e.route)
                /\ route' = e.route
                /\ Snapshot(r, "revalidate", e.route)
    /\ UNCHANGED <<accounts, now, leases, admin, budget>>

(* Slip: a turn keeps the lease of the account it leaves.                  *)
SwitchInPlace(r, target) ==
    Become(r, [Continue(r, IF r \in Agents THEN "call" ELSE "start")
                  EXCEPT !.account = target, !.switched = TRUE])

(* A turn moves its lease in two steps; a single call only its account.    *)
SwitchTo(r, target) ==
    IF r \in Agents
    THEN Become(r, [Continue(r, "release_old") EXCEPT !.target = target])
    ELSE Become(r, [Continue(r, "start") EXCEPT !.account = target, !.switched = TRUE])

(* Second section.  In a failover an account without oid/tid is unusable.  *)
Reconfirm(r) ==
    /\ req[r].pc = "reconfirm"
    /\ \E w \in SomeWrites :
         LET e == Ensured(w)
         IN  \/ /\ ~SameRoute(e, req[r])
                /\ route' = e.route
                /\ RetryFailed(r)
             \/ /\ SameRoute(e, req[r]) /\ req[r].valid # "ok"
                /\ route' = PersistActiveAccount(
                               RecordFailure(e.route, req[r].target, req[r].valid), w.save)
                /\ RetryFailed(r)
             \/ /\ SameRoute(e, req[r]) /\ req[r].valid = "ok"
                /\ route' = e.route
                /\ \/ ~InFailover(r) /\ Resolved(r, TRUE)
                   \/ InFailover(r) /\ RetryFailed(r)
                   \/ InFailover(r) /\ SwitchTo(r, req[r].target)
    /\ UNCHANGED <<accounts, now, leases, admin, budget>>

-----------------------------------------------------------------------------
(* Upstream calls under a lease.                                           *)

(* shouldFailoverAccount: one failover per request, none once output is    *)
(* visible, none for a failure that does not blame the account.            *)
CallFailed(r, kind, visible) ==
    Become(r, [Continue(r, IF /\ IsUpstreamAccountFailure(kind)
                              /\ ~req[r].switched /\ ~visible
                           THEN "mark" ELSE "terminal") EXCEPT !.error = kind])

(* A lease is minted only for the account that is active now.              *)
Mint(r, e, account) ==
    leases' = [leases EXCEPT ![r] = [account |-> account,
                                     generation |-> e.route.generation]]

Mintable(e, account) == e.ok /\ e.route.activeAccountID = account

(* beginActiveAccountRequest for a turn, beginActiveAccountCall for a      *)
(* single call.  A turn that lost the race answers 409; a single call      *)
(* hands the refusal to its caller as the error of the call.               *)
Begin(r) ==
    /\ req[r].pc = "start"
    /\ \E w \in SomeWrites :
         LET e == Ensured(w)
         IN  /\ route' = e.route
             /\ \/ /\ Mintable(e, req[r].account)
                   /\ Mint(r, e, req[r].account)
                   /\ Goto(r, "call")
                \/ /\ ~Mintable(e, req[r].account) /\ r \in Agents
                   /\ Goto(r, "release")
                   /\ UNCHANGED leases
                \/ /\ ~Mintable(e, req[r].account) /\ r \notin Agents
                   /\ CallFailed(r, "inactive", FALSE)
                   /\ UNCHANGED leases
    /\ UNCHANGED <<accounts, now, admin, budget>>

(* The lease of a single call ends with the call.                          *)
EndCall(r) == IF r \in Agents THEN UNCHANGED leases ELSE Release(r)

CallSucceeds(r) ==
    /\ req[r].pc = "call"
    /\ Goto(r, "success")
    /\ EndCall(r)
    /\ UNCHANGED <<accounts, route, now, admin, budget>>

(* Client cancellation, the request's deadline or a failed write to the    *)
(* client: no account is to blame and nothing is recorded.                 *)
CallAborted(r) ==
    /\ req[r].pc = "call"
    /\ Goto(r, "release")
    /\ EndCall(r)
    /\ UNCHANGED <<accounts, route, now, admin, budget>>

CallFails(r) ==
    /\ req[r].pc = "call"
    /\ SpendFailure
    /\ \E kind \in CallFailures, visible \in BOOLEAN : CallFailed(r, kind, visible)
    /\ EndCall(r)
    /\ UNCHANGED <<accounts, route, now, admin>>

(* A failed continuation of an answer that is already visible is recorded  *)
(* and the turn still succeeds.                                            *)
ContinuationFails(r) ==
    /\ req[r].pc = "call" /\ r \in Agents
    /\ SpendFailure
    /\ \E kind \in CallFailures, w \in SomeWrites :
         route' = RecordFailureWithoutAdvance(route, req[r].account, kind, w)
    /\ Goto(r, "success")
    /\ UNCHANGED <<accounts, now, leases, admin>>

-----------------------------------------------------------------------------
(* Failover and the end of the request.                                    *)

(* activateNextAccount: the caller that wins the swap may replay.          *)
Failover(r) ==
    /\ req[r].pc = "mark"
    /\ \E w \in SomeWrites :
         LET m == MarkAccountFailure(route, accounts, req[r].account, req[r].error, w)
         IN  /\ route' = m.route
             /\ GotoAfterMove(r, IF m.advanced THEN "retry" ELSE "terminal", m.advanced)
    /\ UNCHANGED <<accounts, now, leases, admin, budget>>

(* The turn's lease moves with it: the old one is given up first.          *)
ReleaseOld(r) ==
    /\ req[r].pc = "release_old"
    /\ Release(r)
    /\ Become(r, [req[r] EXCEPT !.pc = "lease_next"])
    /\ UNCHANGED <<accounts, route, now, admin, budget>>

(* When the successor is not active any more, the turn is left with the    *)
(* cancelled context of its old lease and ends without recording anything. *)
LeaseNext(r) ==
    /\ req[r].pc = "lease_next"
    /\ \E w \in SomeWrites :
         LET e == Ensured(w)
         IN  /\ route' = e.route
             /\ \/ /\ Mintable(e, req[r].target)
                   /\ Mint(r, e, req[r].target)
                   /\ Become(r, [Continue(r, "call") EXCEPT
                                   !.account = req[r].target, !.switched = TRUE])
                \/ /\ ~Mintable(e, req[r].target)
                   /\ Goto(r, "release")
                   /\ UNCHANGED leases
    /\ UNCHANGED <<accounts, now, admin, budget>>

(* markTerminalFailure.                                                    *)
Terminal(r) ==
    /\ req[r].pc = "terminal"
    /\ \E w \in SomeWrites :
         LET m == MarkAccountFailure(route, accounts, req[r].account, req[r].error, w)
         IN  IF req[r].switched
             THEN /\ route' = RecordFailureWithoutAdvance(
                                route, req[r].account, req[r].error, w)
                  /\ Goto(r, "release")
             ELSE /\ route' = m.route
                  /\ GotoAfterMove(r, "release", m.advanced)
    /\ UNCHANGED <<accounts, now, leases, admin, budget>>

(* A failed call of the tool router is not marked when the turn does not   *)
(* stream, and a failed repair or constrained retry is ignored: the turn   *)
(* ends, or goes on with its next call.                                    *)
IgnoreFailure(r) ==
    /\ req[r].pc = "terminal" /\ r \in Agents
    /\ \E pc \in {"call", "release"} : Goto(r, pc)
    /\ UNCHANGED <<accounts, route, now, leases, admin, budget>>

Succeed(r) ==
    /\ req[r].pc = "success"
    /\ \E w \in SomeWrites :
         route' = MarkAccountSuccess(route, accounts, req[r].account, w)
    /\ Goto(r, "release")
    /\ UNCHANGED <<accounts, now, leases, admin, budget>>

Finish(r) ==
    /\ req[r].pc = "release"
    /\ Release(r)
    /\ Become(r, IdleHandler)
    /\ UNCHANGED <<accounts, route, now, admin, budget>>

-----------------------------------------------------------------------------
(* Administration, one operation at a time.                                *)

SpendAdmin ==
    /\ admin.pc = "idle" /\ budget.admin > 0
    /\ budget' = [budget EXCEPT !.admin = @ - 1]

(* deleteAccountToken: the store's write and the route's write are two     *)
(* writes, and the second may fail after the first.                        *)
DeleteAccount(id) ==
    /\ SpendAdmin
    /\ \E w \in SomeWrites, stored \in BOOLEAN :
         LET e     == Ensured(w)
             after == Without(accounts, id)
         IN  IF e.ok /\ stored
             THEN /\ accounts' = after
                  /\ route' = ActivateNeighbour(e.route, accounts, after, id, w.save)
             ELSE /\ accounts' = accounts
                  /\ route' = e.route
    /\ UNCHANGED <<now, req, leases, admin>>

(* callbackPKCE: the new credential is stored, the auth pin is cleared and *)
(* the route is synchronised in three separate critical sections.          *)
Login(id) ==
    /\ SpendAdmin
    /\ accounts' = IF Listed(accounts, id) THEN accounts ELSE Append(accounts, id)
    /\ admin' = [admin EXCEPT !.pc = "clear", !.target = id]
    /\ UNCHANGED <<route, now, req, leases>>

ClearAuthFailureAfterLogin ==
    /\ admin.pc = "clear"
    /\ \E w \in SomeWrites :
         /\ route' = PersistActiveAccount(
                       [route EXCEPT !.health = ClearAuthFailure(@, admin.target)], w.save)
         /\ admin' = IF w.save THEN [admin EXCEPT !.pc = "sync"] ELSE IdleAdmin
    /\ UNCHANGED <<accounts, now, req, leases, budget>>

SyncActiveAccount ==
    /\ admin.pc = "sync"
    /\ \E w \in SomeWrites : route' = Ensured(w).route
    /\ admin' = IdleAdmin
    /\ UNCHANGED <<accounts, now, req, leases, budget>>

(* refreshActiveAccount, around EnsureValid.                               *)
BeginRefresh(id) ==
    /\ SpendAdmin
    /\ \E w \in SomeWrites :
         LET e == Ensured(w)
         IN  /\ route' = e.route
             /\ admin' = IF e.ok /\ e.route.activeAccountID = id
                         THEN [admin EXCEPT !.pc = "validate", !.target = id,
                                            !.generation = e.route.generation]
                         ELSE admin
    /\ UNCHANGED <<accounts, now, req, leases>>

ValidateRefresh ==
    /\ admin.pc = "validate"
    /\ \E outcome \in Outcome :
         /\ EnsureValid(admin.target, outcome)
         /\ admin' = [admin EXCEPT !.pc = "confirm", !.valid = outcome]
    /\ UNCHANGED <<route, now, req, leases>>

ConfirmRefresh ==
    /\ admin.pc = "confirm"
    /\ \E w \in SomeWrites :
         LET e == Ensured(w)
         IN  \/ /\ ~SameRoute(e, admin)
                /\ route' = e.route
             \/ /\ SameRoute(e, admin) /\ admin.valid # "ok"
                /\ \E again \in SomeWrites :
                     route' = RetireAfterRefresh(e.route, accounts, admin.target,
                                                 admin.valid, w, again.save)
             \/ /\ SameRoute(e, admin) /\ admin.valid = "ok"
                /\ route' = PersistActiveAccount(
                       [e.route EXCEPT !.health = ClearAuthFailure(@, admin.target)],
                       w.save)
    /\ admin' = IdleAdmin
    /\ UNCHANGED <<accounts, now, req, leases, budget>>

(* currentActiveAccountID and accountRouteVersion, from any handler.       *)
ReadActiveAccount ==
    /\ \E w \in SomeWrites : route' = Ensured(w).route
    /\ UNCHANGED <<accounts, now, req, leases, admin, budget>>

-----------------------------------------------------------------------------
(* The environment.                                                        *)

Tick ==
    /\ now < MaxTime
    /\ now' = now + 1
    /\ UNCHANGED <<accounts, route, req, leases, admin, budget>>

(* The process dies and starts again: handlers and leases are gone, the    *)
(* router is rebuilt from its file and the token store.                    *)
Restart ==
    /\ budget.crashes > 0
    /\ budget' = [budget EXCEPT !.crashes = @ - 1]
    /\ route' = InitializeAccountRouter(route.file, accounts)
    /\ req' = [r \in Request |-> IdleHandler]
    /\ leases' = [r \in Request |-> NoLease]
    /\ admin' = IdleAdmin
    /\ UNCHANGED <<accounts, now>>

(* What a handler does once a request is there.                            *)
HandlerStep(r) ==
    \/ Resolve(r) \/ Validate(r) \/ Confirm(r) \/ Retry(r) \/ Reconfirm(r)
    \/ Begin(r) \/ CallSucceeds(r) \/ CallAborted(r) \/ CallFails(r)
    \/ ContinuationFails(r) \/ Failover(r) \/ ReleaseOld(r) \/ LeaseNext(r)
    \/ Terminal(r) \/ IgnoreFailure(r) \/ Succeed(r) \/ Finish(r)

AdminStep ==
    \/ \E id \in Account : DeleteAccount(id) \/ Login(id) \/ BeginRefresh(id)
    \/ ClearAuthFailureAfterLogin \/ SyncActiveAccount
    \/ ValidateRefresh \/ ConfirmRefresh

Next ==
    \/ \E r \in Request : Arrive(r) \/ HandlerStep(r)
    \/ AdminStep
    \/ ReadActiveAccount
    \/ Tick
    \/ Restart

Spec == Init /\ [][Next]_vars

(* Weak fairness of a handler's steps, with what enables them written out: *)
(* a handler has a step unless it is idle.  A handler that runs gets its   *)
(* turn, and an upstream call ends, because its context has a deadline.  A *)
(* validation has none (a direct account redeems its token with an HTTP    *)
(* client without timeout): that it ends is the environment's part.        *)
AtEndpoint(r) == req[r].pc \in {"validate", "revalidate"}

Served(r) ==
    <>[](req[r].pc # "idle" /\ ~AtEndpoint(r)) => []<><<HandlerStep(r)>>_vars
EndpointAnswers(r) == <>[]AtEndpoint(r) => []<><<HandlerStep(r)>>_vars
Demand(r) == <>[](req[r].pc = "idle") => []<><<Arrive(r)>>_vars

FairSpec == Spec /\ \A r \in Request : Served(r) /\ EndpointAnswers(r)

(* Requests keep coming as well.                                           *)
BusySpec == FairSpec /\ \A r \in Request : Demand(r)

-----------------------------------------------------------------------------
(* Properties.                                                             *)

Resolving == {"validate", "confirm", "revalidate", "reconfirm"}

(* Whoever remembers a generation: the leases, and the snapshots of the    *)
(* resolves and of the refresh that are under way.                         *)
Client == (Request \union {Administrator}) \X {"lease", "snapshot"}

SnapshotOf(h) ==
    IF h.pc \in Resolving THEN [account |-> h.target, generation |-> h.generation]
    ELSE NoLease

Grants ==
    [c \in Client |->
        IF c[2] = "lease"
        THEN IF c[1] \in Request THEN leases[c[1]] ELSE NoLease
        ELSE IF c[1] \in Request THEN SnapshotOf(req[c[1]]) ELSE SnapshotOf(admin)]

Promise == INSTANCE SingleActiveAccount WITH
    holder <- route.activeAccountID,
    epoch  <- route.generation,
    record <- [holder |-> route.file.activeAccountID,
               epoch  |-> route.file.generation],
    grants <- Grants

(* The router and the handlers keep the promise of a single active account *)
(* (account_router.go): a lease or a snapshot is only ever taken of the    *)
(* account that is active then, under the generation of that moment, and   *)
(* no rotation, failed write, deletion or crash uses a generation twice.   *)
ImplementsSingleActiveAccount == Promise!Spec

(* A generation names one account: leases and snapshots of one generation  *)
(* agree, and those of the current one name the active account.  It is     *)
(* what lets a handler that compares generations trust what it read before *)
(* it let go of the lock.                                                  *)
EpochNamesOneAccount == Promise!EpochNamesOneAccount

(* An upstream call runs under its own handler's lease, for the account    *)
(* the handler will charge with the outcome, also after a failover; and a  *)
(* handler that has answered holds no lease.                               *)
CallsAreLeased ==
    \A r \in Request :
        /\ req[r].pc = "call" => leases[r].account = req[r].account
        /\ req[r].pc = "idle" => leases[r] = NoLease

(* What the router knows of the accounts survives a crash: unless the last *)
(* write of the route file failed, the file holds every unexpired rest and *)
(* every authentication failure, and the account a restart will resume.    *)
RouteIsDurable ==
    /\ route.file.generation = route.generation
    /\ ~route.unsaved =>
          /\ LiveHealth(route.file.health, now) = LiveHealth(route.health, now)
          /\ route.activeAccountID \in {route.file.activeAccountID, NoAccount}

(* The credential of a was renewed: a login, or a refresh by hand.         *)
CredentialRenewed(a) == admin.target = a /\ admin.pc \in {"clear", "confirm"}

(* No step forgets why an account rests.  A late success, a milder later   *)
(* failure or a restart never shortens an unexpired rest, and only a       *)
(* renewed credential lifts an authentication failure.  (A restart may     *)
(* forget what a failed write left unsaved.)                               *)
RestsAreKept ==
    [][~(route.unsaved /\ budget'.crashes < budget.crashes) =>
          \A a \in Account :
            /\ route.health.cooldown[a] > now' =>
                  route'.health.cooldown[a] >= route.health.cooldown[a]
            /\ route.health.transient[a] > now' =>
                  route'.health.transient[a] >= route.health.transient[a]
            /\ (a \in route.health.authFail /\ ~CredentialRenewed(a)) =>
                  a \in route'.health.authFail]_vars

Charging == {"mark", "terminal"}

(* The failure that a handler is about to charge to its account is a 429   *)
(* whose Retry-After is over already.                                      *)
RestIsOver(h) ==
    \/ h.pc \in Charging /\ h.error = "rate_elapsed"
    \/ h.pc = "confirm" /\ h.valid = "rate_elapsed"

(* A failed call moves the pointer only off an account that rests now, and *)
(* only to one that may be used: concurrent failures of one account cannot *)
(* stampede the pool.                                                      *)
OnlyRestingAccountsAreLeft ==
    [][\A r \in Request : req'[r].moves > req[r].moves =>
          /\ route.activeAccountID # route'.activeAccountID
          /\ ActiveAvailable(route')
          /\ Listed(accounts, route.activeAccountID) /\ ~RestIsOver(req[r]) =>
                ~Available(route'.health, route.activeAccountID, now)]_vars

(* An outage that reaches two accounts does not burn through the pool: the *)
(* failure that opens the shared circuit, and those that are reported      *)
(* while it is open, leave the active account where it is.                 *)
OutageHoldsTheRoute ==
    [][\A r \in Request :
          req[r].pc \in Charging /\ req'[r] # req[r] /\ CircuitOpen(route')
          => route'.activeAccountID = route.activeAccountID]_vars

(* Every other account is a candidate of a rotation, wherever the active   *)
(* one stands in the list and whatever was deleted or appended since.      *)
RotationReachesEveryAccount ==
    Listed(accounts, route.activeAccountID) =>
        {Successor(accounts, route.activeAccountID, k) :
            k \in AvailableOffsets(route, accounts, route.activeAccountID)}
        = {a \in Account \ {route.activeAccountID} :
              Listed(accounts, a) /\ Available(route.health, a, now)}

(* Every request ends and gives up its lease, whatever fails under it.     *)
RequestsFinish ==
    \A r \in Request : req[r].pc # "idle" ~> (req[r].pc = "idle" /\ leases[r] = NoLease)

(* The active account rests although another one is available and the      *)
(* upstream is not known to be down.                                       *)
Stranded ==
    /\ route.activeAccountID # NoAccount
    /\ ~CircuitOpen(route)
    /\ ~ActiveAvailable(route)
    /\ \E i \in DOMAIN accounts : Available(route.health, accounts[i], now)

(* While requests keep coming the route does not stay on a resting account *)
(* for ever when another one could serve them.                             *)
RouteRecovers == Stranded ~> ~Stranded

-----------------------------------------------------------------------------
(* What the comments of the code say, and the code does not do.            *)

(* account_router.go:219-221: "Late results from older requests can update *)
(* that account's health, but can never move the global pointer backward." *)
LateFailuresDoNotMove ==
    [][\A r \in Agents :
          (req[r].pc \in Charging /\ req'[r].moves > req[r].moves)
          => leases[r].generation = route.generation]_vars

(* account_health.go:342-344: only classified upstream failures quarantine *)
(* an account; a refusal of the router contacted nobody.                   *)
RefusalsBlameNobody ==
    [][\A r \in Request :
          (req[r].pc \in Charging /\ req[r].error = "inactive" /\ req'[r] # req[r])
          => route'.health = route.health]_vars

=============================================================================
