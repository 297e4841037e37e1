--------------------------- MODULE AccountRouter ---------------------------
(***************************************************************************)
(* The single-active-account router (internal/web/account_router.go).      *)
(*                                                                         *)
(* `route' is everything accountRouteMu guards, together with the route    *)
(* file; `accounts' is the token store's ordered list; `now' is the wall   *)
(* clock.  Every operator below that takes a route R is the body of one    *)
(* critical section, or of a "...Locked" helper called inside one.  The    *)
(* argument w says which of the section's writes of the route file         *)
(* succeed: atomicWriteFile either replaces the file or leaves it alone.   *)
(***************************************************************************)
EXTENDS AccountHealth, Sequences

CONSTANTS
    NoAccount,      \* the empty activeAccountID
    SharedWindow,   \* sharedFailureWindow
    CircuitRest     \* upstreamCircuitRest

ASSUME RouterAssumption ==
    /\ NoAccount \notin Account
    /\ SharedWindow \in Nat /\ CircuitRest \in Nat

VARIABLES accounts, route, now

MaybeAccount == Account \union {NoAccount}

NeverObserved == 0    \* no entry in sharedFailureAccounts

(* accountRouteState, as last written to disk.                             *)
RouteFile == [activeAccountID : MaybeAccount, generation : Nat, health : Health]

(* unsaved is a history field: the last write of the route file failed.    *)
Route == [activeAccountID       : MaybeAccount,
          generation            : Nat,
          health                : Health,
          sharedFailureAccounts : [Account -> Nat],
          upstreamCircuitUntil  : Nat,
          file                  : RouteFile,
          unsaved               : BOOLEAN]

(* Fate of the writes of one critical section: the one in the initial      *)
(* ensureActiveAccountLocked, and the one that ends the section.           *)
Writes == [ensure : BOOLEAN, save : BOOLEAN]

-----------------------------------------------------------------------------
(* Helpers that hold accountRouteMu.                                       *)

Listed(list, id) == \E i \in DOMAIN list : list[i] = id

IndexByID(list, id) == CHOOSE i \in DOMAIN list : list[i] = id

(* tokens.Delete; an ID occurs at most once in the list.                   *)
Without(list, id) ==
    IF Listed(list, id)
    THEN SubSeq(list, 1, IndexByID(list, id) - 1)
           \o SubSeq(list, IndexByID(list, id) + 1, Len(list))
    ELSE list

PersistActiveAccount(R, ok) ==
    IF ok
    THEN [R EXCEPT !.unsaved = FALSE,
                   !.file = [activeAccountID |-> R.activeAccountID,
                             generation      |-> R.generation,
                             health          |-> LiveHealth(R.health, now)]]
    ELSE [R EXCEPT !.unsaved = TRUE]

(* Slips: the generation stays; the new identity stays although the write  *)
(* failed; a failed write takes back more than it gave.                    *)
ActivateInSameGeneration(R, id, ok) ==
    IF id = R.activeAccountID THEN [route |-> R, ok |-> TRUE]
    ELSE [route |-> PersistActiveAccount(IF ok THEN [R EXCEPT !.activeAccountID = id]
                                         ELSE R, ok),
          ok    |-> ok]

ActivateUnsaved(R, id, ok) ==
    LET moved == [R EXCEPT !.activeAccountID = id, !.generation = @ + 1]
    IN  IF id = R.activeAccountID THEN [route |-> R, ok |-> TRUE]
        ELSE [route |-> PersistActiveAccount(moved, ok), ok |-> ok]

ActivateUndoneTwice(R, id, ok) ==
    LET moved == [R EXCEPT !.activeAccountID = id, !.generation = @ + 1]
    IN  IF id = R.activeAccountID THEN [route |-> R, ok |-> TRUE]
        ELSE [route |-> PersistActiveAccount(
                           IF ok THEN moved ELSE [R EXCEPT !.generation = @ - 1], ok),
              ok    |-> ok]

(* A failed write restores the previous identity and its generation.       *)
ActivateAccount(R, id, ok) ==
    LET moved == [R EXCEPT !.activeAccountID = id, !.generation = @ + 1]
    IN  IF id = R.activeAccountID THEN [route |-> R, ok |-> TRUE]
        ELSE [route |-> PersistActiveAccount(IF ok THEN moved ELSE R, ok),
              ok    |-> ok]

(* An empty list vacates the route in memory only: no write, no bump.      *)
EnsureActiveAccount(R, list, ok) ==
    IF list = <<>>
    THEN [route |-> [R EXCEPT !.activeAccountID = NoAccount], ok |-> TRUE]
    ELSE ActivateAccount(
           R, IF Listed(list, R.activeAccountID) THEN R.activeAccountID ELSE list[1], ok)

(* The accounts after `id', once around the ring, that are available.      *)
Successor(list, id, k) == list[((IndexByID(list, id) - 1 + k) % Len(list)) + 1]

(* Slip: the last account of the ring is forgotten.                        *)
OffsetsButLast(R, list, id) ==
    {k \in 1 .. Len(list) - 2 : Available(R.health, Successor(list, id, k), now)}

AvailableOffsets(R, list, id) ==
    {k \in 1 .. Len(list) - 1 : Available(R.health, Successor(list, id, k), now)}

FirstAvailable(R, list, id) ==
    Successor(list, id, CHOOSE k \in AvailableOffsets(R, list, id) :
                            \A j \in AvailableOffsets(R, list, id) : k <= j)

(* Slip: whoever fails moves the pointer.                                  *)
AdvanceWithoutCompare(R, failedID, list, w) ==
    LET e == EnsureActiveAccount(R, list, w.ensure)
    IN  IF ~e.ok \/ AvailableOffsets(e.route, list, failedID) = {}
        THEN [route |-> e.route, advanced |-> FALSE, ok |-> e.ok]
        ELSE LET a == ActivateAccount(
                        e.route, FirstAvailable(e.route, list, failedID), w.save)
             IN  [route |-> a.route, advanced |-> a.ok, ok |-> a.ok]

(* Compare-and-swap on the account ID: only a failure of the identity that *)
(* is active now moves the pointer.                                        *)
AdvanceActiveAccount(R, failedID, list, w) ==
    LET e == EnsureActiveAccount(R, list, w.ensure)
    IN  IF \/ ~e.ok
           \/ e.route.activeAccountID # failedID
           \/ AvailableOffsets(e.route, list, failedID) = {}
        THEN [route |-> e.route, advanced |-> FALSE, ok |-> e.ok]
        ELSE LET a == ActivateAccount(
                        e.route, FirstAvailable(e.route, list, failedID), w.save)
             IN  [route |-> a.route, advanced |-> a.ok, ok |-> a.ok]

CircuitOpen(R) == now < R.upstreamCircuitUntil

(* The shared circuit opens when a network-shaped failure was observed on  *)
(* two accounts within the window.                                         *)
ObserveSharedFailure(R, id, kind) ==
    LET recent == [a \in Account |->
                     IF now - R.sharedFailureAccounts[a] > SharedWindow
                     THEN NeverObserved ELSE R.sharedFailureAccounts[a]]
        seen   == [recent EXCEPT ![id] = now]
        opened == \E a \in Account \ {id} : seen[a] # NeverObserved
        until  == now + CircuitRest
    IN  IF ~IsSharedUpstreamFailure(kind)
        THEN [route |-> R, opened |-> FALSE]
        ELSE [route  |-> [R EXCEPT
                            !.sharedFailureAccounts = seen,
                            !.upstreamCircuitUntil =
                               IF opened /\ until > @ THEN until ELSE @],
              opened |-> opened]

RecordFailure(R, id, kind) ==
    [R EXCEPT !.health = RecordAccountFailureHealth(@, id, kind, now)]

-----------------------------------------------------------------------------
(* Whole critical sections.                                                *)

(* Slip: the shared circuit is opened, but not obeyed.                     *)
MarkDespiteCircuit(R, list, id, kind, w) ==
    LET o   == ObserveSharedFailure(RecordFailure(R, id, kind), id, kind)
        adv == AdvanceActiveAccount(o.route, id, list, w)
    IN  IF ~IsUpstreamAccountFailure(kind)
        THEN [route |-> PersistActiveAccount(o.route, w.save), advanced |-> FALSE]
        ELSE [route |-> IF adv.ok /\ ~adv.advanced
                        THEN PersistActiveAccount(adv.route, w.save)
                        ELSE adv.route,
              advanced |-> adv.advanced]

(* markAccountResult for a failure.                                        *)
MarkAccountFailure(R, list, id, kind, w) ==
    LET o   == ObserveSharedFailure(RecordFailure(R, id, kind), id, kind)
        adv == AdvanceActiveAccount(o.route, id, list, w)
    IN  IF \/ ~IsUpstreamAccountFailure(kind)
           \/ o.opened \/ CircuitOpen(o.route)
        THEN [route |-> PersistActiveAccount(o.route, w.save), advanced |-> FALSE]
        ELSE [route |-> IF adv.ok /\ ~adv.advanced
                        THEN PersistActiveAccount(adv.route, w.save)
                        ELSE adv.route,
              advanced |-> adv.advanced]

(* markAccountResult for a success: only the active account is cleaned.    *)
MarkAccountSuccess(R, list, id, w) ==
    LET e == EnsureActiveAccount(R, list, w.ensure)
    IN  IF e.ok /\ e.route.activeAccountID = id
        THEN [e.route EXCEPT !.health = MarkSuccess(@, id, now)]
        ELSE e.route

(* Slip: the quarantine of a failed retry is not written.                  *)
RecordInMemory(R, id, kind, w) ==
    ObserveSharedFailure(RecordFailure(R, id, kind), id, kind).route

RecordFailureWithoutAdvance(R, id, kind, w) ==
    PersistActiveAccount(
        ObserveSharedFailure(RecordFailure(R, id, kind), id, kind).route, w.save)

(* The second section of resolveActiveAccount after a failed validation.   *)
RetireAfterValidation(R, list, id, kind, w) ==
    LET adv == AdvanceActiveAccount(RecordFailure(R, id, kind), id, list, w)
    IN  [route |-> IF adv.ok /\ ~adv.advanced
                   THEN PersistActiveAccount(adv.route, w.save)
                   ELSE adv.route,
         advanced |-> adv.advanced]

(* The same in refreshActiveAccount, which writes again after any advance  *)
(* that did not happen.                                                    *)
RetireAfterRefresh(R, list, id, kind, w, again) ==
    LET adv == AdvanceActiveAccount(RecordFailure(R, id, kind), id, list, w)
    IN  IF adv.advanced THEN adv.route ELSE PersistActiveAccount(adv.route, again)

(* deleteAccountToken once the token store has dropped the account: the    *)
(* neighbour that took the deleted active account's place is activated.    *)
ActivateNeighbour(R, before, after, id, ok) ==
    IF id # R.activeAccountID THEN R
    ELSE ActivateAccount(
           R,
           IF after = <<>> THEN NoAccount
           ELSE after[((IndexByID(before, id) - 1) % Len(after)) + 1],
           ok).route

(* initializeAccountRouter: everything but the file is rebuilt.            *)
InitializeAccountRouter(file, list) ==
    EnsureActiveAccount(
        [activeAccountID       |-> file.activeAccountID,
         generation            |-> file.generation,
         health                |-> LiveHealth(file.health, now),
         sharedFailureAccounts |-> [a \in Account |-> NeverObserved],
         upstreamCircuitUntil  |-> 0,
         file                  |-> file,
         unsaved               |-> FALSE],
        list, TRUE).route

NoFile == [activeAccountID |-> NoAccount, generation |-> 0, health |-> NewHealth]

=============================================================================
