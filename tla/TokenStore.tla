----------------------------- MODULE TokenStore -----------------------------
(***************************************************************************)
(* The token store and its refreshes (internal/auth/cache.go).             *)
(*                                                                         *)
(* EnsureValid runs in the goroutine of whoever resolves an account.  Each *)
(* action below is one critical section under Store.mu, or one event       *)
(* between two of them.  A refresh token is a number, in the order the     *)
(* token endpoint issues them.  Time is not counted: an access token goes  *)
(* stale, and a backoff window ends, at some moment.                       *)
(***************************************************************************)
EXTENDS Naturals, Sequences, FiniteSets

CONSTANTS
    Account,        \* account IDs
    Caller,         \* goroutines that call EnsureValid
    Nobody,         \* no goroutine
    Proxy,          \* proxy settings, Direct among them
    Direct,         \* the empty proxy of a new account
    SavesFail,      \* whether writes of the token file may fail
    MaxTokens,      \* bound on tokens issued by the endpoint
    MaxStale,       \* bound on access tokens going stale
    MaxLogins,      \* bound on logins
    MaxProxies,     \* bound on proxy changes
    MaxDeletes,     \* bound on deletions
    MaxCrashes      \* bound on crashes

ASSUME StoreAssumption ==
    /\ Account # {}
    /\ Nobody \notin Caller
    /\ Direct \in Proxy
    /\ SavesFail \in BOOLEAN
    /\ MaxTokens \in Nat /\ MaxStale \in Nat /\ MaxLogins \in Nat
    /\ MaxProxies \in Nat /\ MaxDeletes \in Nat /\ MaxCrashes \in Nat

VARIABLES
    data,       \* Store.data.Accounts
    file,       \* the token file
    inflight,   \* Store.inflight, by account
    backoff,    \* accounts in Store.refreshBackoff whose window is open
    callers,    \* the local state of each goroutine
    endpoint,   \* the token endpoint
    budget      \* what is left of the bounds

vars == <<data, file, inflight, backoff, callers, endpoint, budget>>

NoToken == 0

(* fresh: the access token is valid for 30 more seconds.                   *)
AccountToken == [id : Account, refresh : Nat, fresh : BOOLEAN, proxy : Proxy]

(* A flight is known by the goroutine that leads it.                       *)
Flight == [leader : Caller, done : BOOLEAN]
NoFlight == [leader |-> Nobody, done |-> FALSE]

PC == {"idle", "expire", "join", "wait", "redeem", "upsert", "forgive", "close", "remove"}

(* acc: the caller's copy of the account; token: the refresh token of the  *)
(* endpoint's answer, or NoToken when it sent none.                        *)
CallerState == [pc : PC, acc : AccountToken, token : Nat]

(* issued: the last token issued; spent: the tokens the endpoint replaced; *)
(* replaced: those whose successor the store has saved; chosen: the proxy  *)
(* the administrator last set (the last two are history).                  *)
Endpoint == [issued : Nat, spent : SUBSET Nat, replaced : SUBSET Nat,
             chosen : [Account -> Proxy]]

Budget == [stale : Nat, logins : Nat, proxies : Nat, deletes : Nat, crashes : Nat]

-----------------------------------------------------------------------------

Listed(a) == \E i \in DOMAIN data : data[i].id = a

(* An ID occurs at most once in the list.                                  *)
Index(a) == CHOOSE i \in DOMAIN data : data[i].id = a
Current(a) == data[Index(a)]

Ids(list) == [i \in DOMAIN list |-> list[i].id]

Blank(a) == [id |-> a, refresh |-> NoToken, fresh |-> FALSE, proxy |-> Direct]

TypeOK ==
    /\ data \in Seq(AccountToken) /\ file \in Seq(AccountToken)
    /\ inflight \in [Account -> Flight \union {NoFlight}]
    /\ backoff \subseteq Account
    /\ callers \in [Caller -> CallerState]
    /\ endpoint \in Endpoint
    /\ budget \in Budget

Idle == [pc |-> "idle", acc |-> Blank(CHOOSE a \in Account : TRUE), token |-> NoToken]

Init ==
    /\ data = <<>> /\ file = <<>>
    /\ inflight = [a \in Account |-> NoFlight]
    /\ backoff = {}
    /\ callers = [c \in Caller |-> Idle]
    /\ endpoint = [issued |-> 0, spent |-> {}, replaced |-> {},
                   chosen |-> [a \in Account |-> Direct]]
    /\ budget = [stale |-> MaxStale, logins |-> MaxLogins, proxies |-> MaxProxies,
                 deletes |-> MaxDeletes, crashes |-> MaxCrashes]

(* saveDataLocked(next), and s.data = next when it succeeded.              *)
PublishUnsaved(next, ok) ==
    /\ data' = next
    /\ file' = IF ok THEN next ELSE file

Publish(next, ok) ==
    /\ data' = IF ok THEN next ELSE data
    /\ file' = IF ok THEN next ELSE file

(* Whether a write of the file succeeds.                                   *)
Saved == IF SavesFail THEN BOOLEAN ELSE {TRUE}

(* What Upsert makes of a token set without proxy, and perhaps without     *)
(* refresh token.                                                          *)
Merged(a, token) ==
    [id |-> a, fresh |-> TRUE,
     refresh |-> IF token = NoToken /\ Listed(a) THEN Current(a).refresh ELSE token,
     proxy   |-> IF Listed(a) THEN Current(a).proxy ELSE Direct]

(* Slip: an account that is known by now is stored a second time.          *)
AppendAlways(a, token) == Append(data, Merged(a, token))

Upserted(a, token) ==
    IF Listed(a) THEN [data EXCEPT ![Index(a)] = Merged(a, token)]
    ELSE Append(data, Merged(a, token))

(* Slip: the entry is cleared, and stays.                                  *)
Cleared(a) ==
    IF Listed(a) THEN [data EXCEPT ![Index(a)].id = Nobody] ELSE data

Without(a) ==
    IF Listed(a)
    THEN SubSeq(data, 1, Index(a) - 1) \o SubSeq(data, Index(a) + 1, Len(data))
    ELSE data

-----------------------------------------------------------------------------
(* EnsureValid.                                                            *)

Become(c, state) == callers' = [callers EXCEPT ![c] = state]
Goto(c, pc) == Become(c, [callers[c] EXCEPT !.pc = pc])

(* The snapshot, and the decision taken on it without the lock: a valid    *)
(* token is returned, and so is the error for an account that is not there. *)
Get(c, a) ==
    /\ callers[c].pc = "idle"
    /\ IF Listed(a) /\ ~Current(a).fresh
       THEN Become(c, [pc |-> IF Current(a).refresh = NoToken THEN "expire" ELSE "join",
                       acc |-> Current(a), token |-> NoToken])
       ELSE UNCHANGED callers
    /\ UNCHANGED <<data, file, inflight, backoff, endpoint, budget>>

(* An account without refresh token is marked expired, with the snapshot.  *)
Expire(c) ==
    /\ callers[c].pc = "expire"
    /\ \E ok \in Saved :
         IF Listed(callers[c].acc.id)
         THEN Publish([data EXCEPT ![Index(callers[c].acc.id)] = callers[c].acc], ok)
         ELSE UNCHANGED <<data, file>>
    /\ Become(c, Idle)
    /\ UNCHANGED <<inflight, backoff, endpoint, budget>>

(* Slip: the snapshot is trusted.                                          *)
SnapshotAtJoin(acc) == acc

(* What refreshInflight goes on with after it has re-read the store.       *)
AtJoin(acc) == IF Listed(acc.id) THEN Current(acc.id) ELSE acc

(* Slip: nobody looks for a flight under way.                              *)
AlwaysClear(a) == TRUE

(* No refresh of the account is under way.                                 *)
Clear(a) == inflight[a] = NoFlight

(* First section of refreshInflight: fail fast in the backoff window, take *)
(* the token another flight brought, wait for a flight, or lead one.       *)
Join(c) ==
    LET acc == AtJoin(callers[c].acc)
        a   == acc.id
        returns == a \in backoff \/ (Listed(a) /\ acc.fresh)
    IN  /\ callers[c].pc = "join"
        /\ \/ /\ returns
              /\ Become(c, Idle)
              /\ UNCHANGED inflight
           \/ /\ ~returns /\ ~Clear(a)
              /\ Become(c, IF inflight[a].done THEN Idle
                           ELSE [callers[c] EXCEPT !.pc = "wait", !.acc = acc])
              /\ UNCHANGED inflight
           \/ /\ ~returns /\ Clear(a)
              /\ inflight' = [inflight EXCEPT ![a] = [leader |-> c, done |-> FALSE]]
              /\ Become(c, [callers[c] EXCEPT !.pc = "redeem", !.acc = acc])
        /\ UNCHANGED <<data, file, backoff, endpoint, budget>>

(* The proxy setting cannot be used: no backoff.                           *)
ProxyFails(c) ==
    /\ callers[c].pc = "redeem" /\ callers[c].acc.proxy # Direct
    /\ Goto(c, "close")
    /\ UNCHANGED <<data, file, inflight, backoff, endpoint, budget>>

(* The endpoint accepts a token it has not replaced, and may replace it.   *)
Redeem(c) ==
    /\ callers[c].pc = "redeem"
    /\ callers[c].acc.refresh \notin endpoint.spent \union {NoToken}
    /\ \/ /\ Become(c, [callers[c] EXCEPT !.pc = "upsert"])
          /\ UNCHANGED endpoint
       \/ /\ endpoint.issued < MaxTokens
          /\ endpoint' = [endpoint EXCEPT !.issued = @ + 1,
                                          !.spent = @ \union {callers[c].acc.refresh}]
          /\ Become(c, [callers[c] EXCEPT !.pc = "upsert",
                                          !.token = endpoint.issued + 1])
    /\ UNCHANGED <<data, file, inflight, backoff, budget>>

(* The redemption fails, perhaps after the endpoint has replaced the token: *)
(* one section notes the backoff and writes the account back as expired.   *)
RedeemFails(c) ==
    LET acc == callers[c].acc
    IN  /\ callers[c].pc = "redeem"
        /\ \E lost \in BOOLEAN :
             /\ lost => acc.refresh \notin endpoint.spent \union {NoToken}
             /\ endpoint' = [endpoint EXCEPT
                   !.spent = IF lost THEN @ \union {acc.refresh} ELSE @]
        /\ backoff' = backoff \union {acc.id}
        /\ \E ok \in Saved :
             IF Listed(acc.id) THEN Publish([data EXCEPT ![Index(acc.id)] = acc], ok)
             ELSE UNCHANGED <<data, file>>
        /\ Goto(c, "close")
        /\ UNCHANGED <<inflight, budget>>

Upsert(c) ==
    LET acc == callers[c].acc
    IN  /\ callers[c].pc = "upsert"
        /\ \E ok \in Saved :
             /\ Publish(Upserted(acc.id, callers[c].token), ok)
             /\ endpoint' = [endpoint EXCEPT
                   !.replaced = IF ok /\ callers[c].token # NoToken
                                THEN @ \union {acc.refresh} ELSE @]
        /\ Goto(c, "forgive")
        /\ UNCHANGED <<inflight, backoff, budget>>

Forgive(c) ==
    /\ callers[c].pc = "forgive"
    /\ backoff' = backoff \ {callers[c].acc.id}
    /\ Goto(c, "close")
    /\ UNCHANGED <<data, file, inflight, endpoint, budget>>

(* Slip: the waiters are forgotten.                                        *)
CloseQuietly(c) == [callers EXCEPT ![c].pc = "remove"]

(* close(f.done): every waiter returns with the flight's outcome.          *)
Woken(c) ==
    [d \in Caller |->
        IF d = c THEN [callers[c] EXCEPT !.pc = "remove"]
        ELSE IF callers[d].pc = "wait" /\ callers[d].acc.id = callers[c].acc.id THEN Idle
        ELSE callers[d]]

Close(c) ==
    /\ callers[c].pc = "close"
    /\ inflight' = [inflight EXCEPT ![callers[c].acc.id] = [leader |-> c, done |-> TRUE]]
    /\ callers' = Woken(c)
    /\ UNCHANGED <<data, file, backoff, endpoint, budget>>

Remove(c) ==
    /\ callers[c].pc = "remove"
    /\ inflight' = [inflight EXCEPT ![callers[c].acc.id] = NoFlight]
    /\ Become(c, Idle)
    /\ UNCHANGED <<data, file, backoff, endpoint, budget>>

-----------------------------------------------------------------------------
(* The administrator.                                                      *)

(* A login brings a new token; a client without offline access gets none.  *)
Login(a) ==
    /\ budget.logins > 0 /\ endpoint.issued < MaxTokens
    /\ budget' = [budget EXCEPT !.logins = @ - 1]
    /\ \E ok \in Saved, token \in {NoToken, endpoint.issued + 1} :
         /\ Publish(Upserted(a, token), ok)
         /\ endpoint' = [endpoint EXCEPT !.issued = IF token = NoToken THEN @ ELSE token]
    /\ UNCHANGED <<inflight, backoff, callers>>

SetProxy(a, p) ==
    /\ budget.proxies > 0
    /\ budget' = [budget EXCEPT !.proxies = @ - 1]
    /\ Listed(a)
    /\ \E ok \in Saved :
         /\ Publish([data EXCEPT ![Index(a)].proxy = p], ok)
         /\ endpoint' = [endpoint EXCEPT !.chosen[a] = IF ok THEN p ELSE @]
    /\ UNCHANGED <<inflight, backoff, callers>>

Delete(a) ==
    /\ budget.deletes > 0
    /\ budget' = [budget EXCEPT !.deletes = @ - 1]
    /\ \E ok \in Saved :
         /\ Publish(Without(a), ok)
         /\ endpoint' = [endpoint EXCEPT !.chosen[a] = IF ok THEN Direct ELSE @]
    /\ UNCHANGED <<inflight, backoff, callers>>

-----------------------------------------------------------------------------
(* The passing of time, and crashes.                                       *)

GoStale(i) ==
    /\ budget.stale > 0 /\ data[i].fresh
    /\ budget' = [budget EXCEPT !.stale = @ - 1]
    /\ data' = [data EXCEPT ![i].fresh = FALSE]
    /\ file' = [file EXCEPT ![i].fresh = FALSE]
    /\ UNCHANGED <<inflight, backoff, callers, endpoint>>

BackoffEnds(a) ==
    /\ a \in backoff
    /\ backoff' = backoff \ {a}
    /\ UNCHANGED <<data, file, inflight, callers, endpoint, budget>>

Restart ==
    /\ budget.crashes > 0
    /\ budget' = [budget EXCEPT !.crashes = @ - 1]
    /\ data' = file
    /\ inflight' = [a \in Account |-> NoFlight]
    /\ backoff' = {}
    /\ callers' = [c \in Caller |-> Idle]
    /\ UNCHANGED <<file, endpoint>>

-----------------------------------------------------------------------------

CallerStep(c) ==
    \/ Expire(c) \/ Join(c) \/ ProxyFails(c) \/ Redeem(c) \/ RedeemFails(c)
    \/ Upsert(c) \/ Forgive(c) \/ Close(c) \/ Remove(c)

Next ==
    \/ \E c \in Caller : CallerStep(c) \/ \E a \in Account : Get(c, a)
    \/ \E a \in Account : Login(a) \/ Delete(a) \/ BackoffEnds(a)
    \/ \E a \in Account, p \in Proxy : SetProxy(a, p)
    \/ \E i \in DOMAIN data : GoStale(i)
    \/ Restart

Spec == Init /\ [][Next]_vars

(* A goroutine that does not wait for a flight gets its turn, and the      *)
(* endpoint answers (a direct account's request to it has no timeout).     *)
(* This is the weak fairness of CallerStep with its enabling written out.  *)
Moving(c) ==
    <>[](callers[c].pc \notin {"idle", "wait"}) => []<><<CallerStep(c)>>_vars

FairSpec == Spec /\ \A c \in Caller : Moving(c)

-----------------------------------------------------------------------------
(* Properties.                                                             *)

(* The file is what is in memory, whichever writes fail: a restart neither *)
(* loses a login that was acknowledged nor revives a deleted account.      *)
FileIsMemory == file = data

(* The flight a caller leads, from the registration to its removal.        *)
Leading == {"redeem", "upsert", "forgive", "close", "remove"}
Leads(c, a) == callers[c].pc \in Leading /\ callers[c].acc.id = a

(* One refresh per account at a time, and whoever waits, waits for a       *)
(* flight that has yet to be closed (refreshInflight: "runs the AAD token  *)
(* refresh exactly once per account; waiters block on the shared flight"). *)
SingleFlight ==
    /\ \A c, d \in Caller, a \in Account : Leads(c, a) /\ Leads(d, a) => c = d
    /\ \A c \in Caller : callers[c].pc = "wait" =>
          \E d \in Caller : Leads(d, callers[c].acc.id) /\ callers[d].pc # "remove"

(* A token the endpoint has replaced, and whose successor was saved, is    *)
(* not redeemed again, by no late caller and after no crash                *)
(* (refreshInflight: "prevents a second redemption of a one-time refresh   *)
(* token"), as long as no account is deleted: a caller whose account has   *)
(* gone meanwhile uses the token it has.                                   *)
NoReplacedTokenIsRedeemed ==
    budget.deletes = MaxDeletes =>
        \A c \in Caller :
            callers[c].pc = "redeem" => callers[c].acc.refresh \notin endpoint.replaced

MovesByOne ==
    \/ Ids(data') = Ids(data)
    \/ \E a \in Account : ~Listed(a) /\ Ids(data') = Append(Ids(data), a)
    \/ \E i \in DOMAIN data :
         Ids(data') = SubSeq(Ids(data), 1, i - 1) \o SubSeq(Ids(data), i + 1, Len(data))

(* The list of accounts changes by one account at a time: an unlisted one  *)
(* is appended, or a listed one is taken out where it stood; a refresh, a  *)
(* login and a proxy change leave the order alone.  The rotation of the    *)
(* account router walks this order.                                        *)
ListMovesByOne == [][MovesByOne]_vars

(* Every caller of EnsureValid returns, leaders and waiters, whether the   *)
(* refresh succeeds, fails, or cannot be saved.                            *)
EveryCallerReturns ==
    \A c \in Caller : callers[c].pc # "idle" ~> callers[c].pc = "idle"

-----------------------------------------------------------------------------
(* What the repository says, and the code does not do.                     *)

(* cache.go:226: Upsert keeps the proxy the user has set by hand.          *)
ProxyIsKept ==
    \A i \in DOMAIN data : data[i].proxy = endpoint.chosen[data[i].id]

=============================================================================
