--------------------------- MODULE AccountHealth ---------------------------
(***************************************************************************)
(* Per-account upstream health (internal/web/account_health.go).           *)
(*                                                                         *)
(* The component is a map guarded by its own mutex; every method is one    *)
(* critical section, so each is an operator from a health value to a       *)
(* health value.  Time is a natural number supplied by the caller.  A      *)
(* deadline of NoDeadline stands for a missing map entry: the code treats  *)
(* a missing entry and an expired one alike.                               *)
(***************************************************************************)
EXTENDS Naturals

CONSTANTS
    Account,         \* account IDs
    RateRest,        \* rateLimitCooldown: a 429 without Retry-After
    QuotaRest,       \* quotaExhaustedCooldown
    TransientRest,   \* transientFailureCooldown
    PolicyRest       \* disengagedCooldown

ASSUME RestAssumption ==
    /\ RateRest \in Nat /\ QuotaRest \in Nat
    /\ TransientRest \in Nat /\ PolicyRest \in Nat

(* The rests are constants of the code, seconds to hours long.             *)
ASSUME RestsLast ==
    RateRest > 0 /\ QuotaRest > 0 /\ TransientRest > 0 /\ PolicyRest > 0

NoDeadline == 0

(***************************************************************************)
(* What a failed upstream call or token validation can be classified as:   *)
(*   policy        the safety filter refused the prompt (Disengaged)       *)
(*   quota         the account's CostQuota is exhausted                    *)
(*   rate          HTTP 429 without a usable Retry-After                   *)
(*   rate_elapsed  HTTP 429 whose Retry-After is already in the past       *)
(*   auth          401, 403, invalid_grant                                 *)
(*   network       infrastructure shaped, independent of the account       *)
(*   route         one account's proxy, or an error no rule recognises     *)
(*   inactive      the router's own refusal, when a handler passes it on   *)
(*                 as the error of the call; no rule recognises it either  *)
(***************************************************************************)
FailureKind == {"policy", "quota", "rate", "rate_elapsed", "auth",
                "network", "route", "inactive"}

(* The only failures that may advance the active account.                  *)
IsUpstreamAccountFailure(kind) == kind # "policy"

(* Infrastructure-shaped failures that count towards the shared circuit.   *)
IsSharedUpstreamFailure(kind) == kind = "network"

Health == [cooldown  : [Account -> Nat],
           transient : [Account -> Nat],
           authFail  : SUBSET Account]

NewHealth == [cooldown  |-> [a \in Account |-> NoDeadline],
              transient |-> [a \in Account |-> NoDeadline],
              authFail  |-> {}]

Available(h, a, now) ==
    /\ a \notin h.authFail
    /\ h.cooldown[a]  <= now
    /\ h.transient[a] <= now

(* A deadline only ever moves later.                                       *)
ExtendDeadline(deadlines, a, until) ==
    IF until > deadlines[a] THEN [deadlines EXCEPT ![a] = until] ELSE deadlines

MarkCooldown(h, a, until) ==
    [h EXCEPT !.cooldown = ExtendDeadline(@, a, until)]

MarkTransient(h, a, until) ==
    [h EXCEPT !.transient = ExtendDeadline(@, a, until)]

MarkAuthFail(h, a) == [h EXCEPT !.authFail = @ \union {a}]

ClearAuthFailure(h, a) == [h EXCEPT !.authFail = @ \ {a}]

(* Slip: a success clears whatever it finds.                               *)
DropDeadline(deadlines, a, now) == [deadlines EXCEPT ![a] = NoDeadline]

(* A late success removes expired deadlines of its account, nothing else.  *)
DropExpired(deadlines, a, now) ==
    IF deadlines[a] <= now THEN [deadlines EXCEPT ![a] = NoDeadline] ELSE deadlines

MarkSuccess(h, a, now) ==
    [h EXCEPT !.cooldown  = DropExpired(@, a, now),
              !.transient = DropExpired(@, a, now)]

RecordAccountFailureHealth(h, a, kind, now) ==
    CASE kind = "policy"       -> MarkTransient(h, a, now + PolicyRest)
      [] kind = "quota"        -> MarkCooldown(h, a, now + QuotaRest)
      [] kind = "rate"         -> MarkCooldown(h, a, now + RateRest)
      [] kind = "rate_elapsed" -> MarkCooldown(h, a, now)
      [] kind = "auth"         -> MarkAuthFail(h, a)
      [] OTHER                 -> MarkTransient(h, a, now + TransientRest)

(* The part of the health that a snapshot written or read at time now      *)
(* keeps: persistedState and restorePersistedState drop expired deadlines. *)
Unexpired(deadlines, now) ==
    [a \in Account |-> IF deadlines[a] <= now THEN NoDeadline ELSE deadlines[a]]

(* Slip: authentication failures are left out of the snapshot.             *)
TimedHealth(h, now) ==
    [cooldown  |-> Unexpired(h.cooldown, now),
     transient |-> Unexpired(h.transient, now),
     authFail  |-> {}]

LiveHealth(h, now) ==
    [cooldown  |-> Unexpired(h.cooldown, now),
     transient |-> Unexpired(h.transient, now),
     authFail  |-> h.authFail]

=============================================================================
