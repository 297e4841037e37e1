# M365 Gateway: verification project

The gateway (`cmd/server`, `internal/`) is an HTTP server that speaks the OpenAI, Responses and
Anthropic dialects to its clients and Microsoft Copilot's ChatHub websocket to its upstream. It
owns a pool of Microsoft accounts of which exactly one is *active*. This directory holds TLA+
models of its core, the TLC runs that check them on small instances, and TLAPS proofs.

Run a model with `tlc -workers 2 -config Faults.cfg MCAccountRequests.tla`, check a proof with
`tlapm AccountRequestsProofs.tla`.

## 1. Inventory

| Part | Source | State | Operations | What makes it hard, and correct |
|---|---|---|---|---|
| Account health | `web/account_health.go` | cooldown, transient rest and authentication pin per account | Mark*, Clear*, Available, snapshot and restore | results arrive late and out of order; a rest must survive successes, milder failures and restarts |
| Account router | `web/account_router.go` | active account, generation, shared circuit, leases, route file | ensure, activate, advance, resolve (two sections around a network call), mark, delete, refresh, boot | unlocks between check and use, compare-and-swap, writes that fail, crashes; a generation must name one account for ever |
| Request handlers | `web/server.go`, `stream.go`, `images.go` | local variables of one goroutine | preflight, lease, upstream calls, failover, repair, continuation, charging, saving, ending | interleaving of handlers; every path must end, release its lease and give the client one ending |
| Token store | `auth/cache.go` | account list and its file, refreshes under way | Upsert, Delete, SetProxy, EnsureValid | refresh without the lock, one-time refresh tokens, failing writes |
| Session store | `web/sessions.go` | bindings, portable history, alias groups, pins | upsertBinding, commitResponse, delete, prune, migration | limits, dependencies between records, writes that fail |
| Response chaining | `web/response_session.go`, `protocol_handlers.go` | per-key locks, prepared targets | lock, prepare, stream, commit, discard | concurrent turns of one conversation, a client that leaves, a handler that outlasts the join |
| Session bindings across accounts | `server.go` persistSession, `sessions.go` | generation stamps | stamp, compare, replace | a draining request of the previous account |
| Portable history, tool protocol, agent ledger, prompt budget | `web/portable_history.go`, `tool_state.go`, `agent_ledger.go`, `prompt_budget.go` | pure functions on messages | bound, merge, transition, validate, select | tool results must keep their calls, limits, repeated texts |
| SSE keepalive | `web/sse_keepalive.go`, `server.go` | writer lock, started/ended flags | heartbeat, Write, stop | heartbeat against handler, after the end |
| ChatHub client | `chathub/client.go`, `stream_events.go` | one websocket per call, watcher and ping goroutines | dial, send, read, dedupe, stop | frames out of order, deadlines, who closed the connection |
| Answer stream | `chathub/answer_stream.go` | text per message, cursor | snapshot, delta, best text | duplicated and revised snapshots |
| Upstream placeholder | `web/upstream_placeholder.go` | held-back text | guard, flush | a sentence that arrives in pieces |
| Policy refusals | `web/policy_refusal.go` | hashes with times | remember, recent, persist | capacity, expiry, restart |
| API keys, settings, admin gate, debug log, statistics | `web/keys.go`, `settings.go`, `admin_security.go`, `debug.go` | files and maps | CRUD | replace-or-leave writes, rollback |
| Protocol conversion, prompts, tools, model routing | `web/protocol_*.go`, `prompt.go`, `model_*.go`, `toolloop.go` | none | pure conversions | formats |
| Proxy dialling, web UI, scripts | `internal/proxy`, `web/`, `scripts/` | none | I/O | - |

How they interact. A handler resolves the active account through the router, which reads the token
store and the health under `accountRouteMu`, validates the token *without* that lock, and comes
back to check that the route is the one it left. It then leases the account, lets the ChatHub
client call upstream, hands what the answer stream says on to its client, and reports the outcome,
which may rotate the route. The binding of the client's session to account and conversation is
stamped with the router's generation. A turn of the Responses API wraps a whole chat turn: it
reserves the history it continues in the session store, lets the internal chat handler run, and
commits the answer as a record of its own. Every store writes its file with `atomicWriteFile`,
which replaces the file or leaves it alone.

## 2. Modules

| Module | Models | State and actions against the code |
|---|---|---|
| `AccountHealth` | `account_health.go` | one operator per method, on a health value; an absent deadline is 0 |
| `AccountRouter` | `account_router.go` under the lock | `route` = all fields `accountRouteMu` guards and the route file; one operator per `...Locked` helper and per critical section |
| `AccountRequests` | the handlers' account side, the administration, the process | `req[r].pc` says where between two critical sections a handler stands; one action per section, per event outside one, per administrative operation |
| `SingleActiveAccount` | the router's promise, abstractly | a holder, an epoch, a record on disk, grants to clients |
| `TokenStore` | `auth/cache.go` | `data`, `file`, `inflight`, `backoff` are the store's fields; `callers[c].pc` says where in `EnsureValid` a goroutine stands; one action per section under `Store.mu` |
| `SessionBinding` | `persistSession`, `upsertBinding` and what surrounds them | `sessions` is the store's map; `turn[r].pc` as in `AccountRequests`; the route is the abstract one |
| `PortableHistory`, `ToolProtocol`, `PromptBudget` | the pure functions on messages | one operator per function; a text is a member of a small set, bytes and tokens are weights |
| `AgentConversation` | a client that builds a conversation over them | `messages` grows by one message a step |
| `SessionStore` | `sessions.go` under its mutex | `store = [data, pins, file]`; one operator per method, with its prune, its write and the failure of that write |
| `ResponseTurns` | the Responses API over the store | `turn[t].pc` is where the adapter stands, `turn[t].producer` where its chat handler does; `locks` is `responseSessionLocks`; one action per critical section |
| `ConversationMemory` | the store's promise, abstractly | the history each key stands for, and the keys that hold an answer |
| `AnswerStream` | `answer_stream.go` | one operator per method, on a value with a track per message |
| `ChatHubCall` | `runChat` of `client.go` | `call.pc`, `watcher`, `pinger` are the three goroutines, `conn` the websocket, `log` the frames so far; one action per kind of frame and per step between two points where another goroutine may act |
| `ChatTurn` | `openaiChat` once it owns its lease | `me` holds the handler's locals, `wire` what the client was sent, `binding` what the session store has, `heart` the two goroutines that write comments; one action per upstream call and its outcome, per decision, per write |
| `MC...` | - | small instances for TLC, symmetry |
| `...Proofs` | - | section 5 |

How they compose: `AccountRequests` drives `AccountRouter` and `AccountHealth`; `SessionBinding` and
`ChatTurn` rely on the router only through what it is proved to promise (a holder and a generation
never used twice; one failover per turn); `ResponseTurns` drives `SessionStore`, which uses
`PortableHistory`; `ChatHubCall` uses `AnswerStream`, and what `ChatTurn` takes for the outcomes of an
upstream call is what `ChatHubCall` returns.

State of the router: `route` holds `activeAccountID`, `generation` (`activeAccountGeneration`), `health`,
`sharedFailureAccounts`, `upstreamCircuitUntil`, `file` (the last `accountRouteState` written) and
the history field `unsaved`. `accounts` is the token store's list, `leases` is
`activeAccountLeases` by handler, `req` and `admin` are the local variables that live across an
unlock. A handler in `Agents` runs `openaiChat` (one lease for the whole turn, moved once); the
others run `chatOnce`, `chatStream` or `imageGenerations` (a lease per call).

Abstractions, each chosen so that no behaviour the properties speak of is lost:

- An error is its class (`FailureKind`). `inactive` is the router's own `errInactiveAccount`, which
  a single call hands on as if the upstream had failed.
- A write of a file succeeds or leaves the file alone (`atomic_file.go`); each section says
  which of its writes fail.
- `Restart` is a crash and a boot in one step. A boot whose first write fails aborts the program,
  which is a longer outage. A crash between the two writes of a deletion has the effect of a failing
  second write followed by `Restart`. In `ResponseTurns` crash and boot are two steps.
- `EnsureValid` succeeds, fails with a class, and may put a deleted account back, because a refresh
  under way publishes its token with `Upsert`.
- An account is its ID: `Upsert` also matches by e-mail and by OID and tenant, which is left out, as are
  the profile fields. Refresh tokens are numbers in the order of issue. The endpoint may keep or
  replace a token, refuse it, or replace it and lose the answer. An access token goes stale and a
  backoff window ends at any moment. `RefreshDue` has no caller.
- `SessionBinding`: requests other than the turns in view are the action `Rotate`. Conversation IDs that
  clients bring along, the limits of the session store and logins are left out. A turn with a
  conversation keeps it: the client echoes the request's IDs.
- `SessionStore`: bytes are weights and `UpdatedAt` is a rank; a record is expired or it is not.
  `aliasResponseSession`, `updatePortable` and `persistResponsePortableHistory` have no caller outside tests.
- `ChatHubCall`: a write holds `writeMu` and ends within its deadline, so it is one step. A text is a
  sequence of characters from a frame set; an update has one argument. Formatting of the request,
  the scrubbing of citations and the traces are left out.
- `ChatTurn`: a piece of text is numbered within its answer and says which identity wrote it; the
  overload sentence is two pieces. Whether a router's answer parses, and whether calls fit the
  limit, is a choice.
- `cancelActiveLeasesLocked` has no caller, and the generation inside a lease has no reader outside
  tests: leases never end early.

The definitions commented as *slips* are plausible mistakes: each replaces one definition in a
mutated model and must break the property it is listed with. No action uses one.

## 3. Runs

| Run (cfg) | Asks | Bounds |
|---|---|---|
| `faults` (`Faults`) | types, leases, durability, no forgotten rest, refinement of `SingleActiveAccount` | 2 accounts, an agent and a single call, 2 failures, failing writes, 1 crash; 620,772 states |
| `administration` (`Administration`) | no generation names two accounts; the ring is complete | 3 accounts, 1 agent, 2 operations, 1 failure, 1 crash, failing writes; 352,818 states |
| `progress` (`Progress`) | no stampede, the circuit holds the route; requests end; the route recovers | 2 accounts, 2 handlers, 2 failures, network among them, fairness and demand; 244,586 states |
| `tokens` (`Tokens`) | file against memory, one flight per account, one-time tokens, order of the list; every caller returns | 2 accounts, 2 callers, 3 tokens, 2 logins, failing writes, 1 deletion, 1 crash, fairness; 136,430 states |
| `bindings` (`Bindings`) | conversations stay with their account; the active account's bindings stay, its writes are accepted, generations never fall back | an agent turn and a single call of one session, 1 move, 1 deletion, failing writes, 1 crash |
| `conversations` (`Conversations`) | what is kept, merged, held back and sent upstream | 2 tools, 2 user texts, 3 results, 2 calls at once, 6 messages, 1 against the protocol; limits of 4 messages and 6 units; 258,580 states |
| `answers` (`Answers`) | histories stay what they were; refinement of `ConversationMemory` | 2 turns, a thread, an old response, a chat, a store of 3 records, 1 disturbance of any kind, 3 kinds of file; 576,876 states |
| `turn_ends` (`TurnEnds`) | turns end and leave no lock and no pin | 2 streamed turns on one thread, 1 crash, fairness; 74,604 states |
| `chathub` (`ChatHub`) | what a caller is told; why a call ends; that it does | 3 frames of 15 kinds, 1 ping, 1 disturbance, fairness; 651,880 states |
| `chat_turn` (`ChatTurn`) | one ending, one answer, the right binding; every turn returns | every kind of turn of `MCTurns`, 2 accounts, 2 pieces per call, 1 continuation, 1 disturbance, fairness; 1,873,704 states |
| `migrated_head` (`MigratedHead`) | *violated*: a head is not what its answer hangs on | one answer on a thread that an older program wrote two turns of |
| `held_text` (`HeldText`) | *violated*: held-back text is checked before it is shown | no disturbance |

What the passing runs say:

- `CallsAreLeased`: every upstream call runs under the lease of the account it is charged to.
- `RouteIsDurable`: unless the last write failed, the file holds every unexpired rest, every
  authentication pin and the account a restart resumes; the generation is on disk always.
- `RestsAreKept`: no late success, milder failure, rotation or restart shortens an unexpired rest; only a
  renewed credential lifts an authentication pin.
- `ImplementsSingleActiveAccount`, `EpochNamesOneAccount`: leases and snapshots are of the account that was
  active, and no generation is ever used twice.
- `OnlyRestingAccountsAreLeft`, `OutageHoldsTheRoute`, `RotationReachesEveryAccount`: rotation is deliberate
  and complete.
- `RequestsFinish`, `RouteRecovers`: nothing hangs, nothing is stranded.
- `FileIsMemory`, `ListMovesByOne`: no failing write and no crash parts the token file from memory, and the
  list the router rotates over keeps its order.
- `SingleFlight`, `NoReplacedTokenIsRedeemed`, `EveryCallerReturns`: a refresh runs once, spends a
  one-time token once, and wakes everyone. The second holds as long as nothing is deleted (section 4)
  and speaks of tokens whose successor was saved: a failing write after a redemption loses the token.
- `NoForeignConversation`: no turn is sent into, and no session stores, another account's conversation.
- `CurrentBindingIsKept`, `BindingsDoNotFallBack`, `ActiveWritesAreAccepted`: among turns that end in any
  order, what the active account committed in the current generation stays, and its writes count.
- `ToolProtocolIsKept`: what is accepted is the protocol, and cutting a history never parts a result from its
  call. `ConversationsContinue`: what a turn stores reads back exactly, bounding is idempotent, and a
  client that sends the new messages, a tail or the whole transcript finds its conversation.
  `OnlyStuckCallsAreHeldBack`: three equal results or two equal failures in a row, and nothing else.
  `PromptIsWhole`: instructions and the current turn go upstream whole, within the budget, without holes.
- `EveryHistoryCanBeRead`, `StoreIsFile`, `SourceStaysAsSeen`: no deletion, prune, failing write or
  crash leaves a record without its parents, parts memory from file, or moves what a turn in progress continues.
- `OneWriterPerThread`, `TurnsEnd`: the counted lock excludes, and leaves no entry.
- `UnfinishedTurnsLeaveNothing`: a turn without a committed answer leaves no history.
- `ImplementsMemory`: an answer extends its source's history, once, and everything else is kept or forgotten whole.
- `CallerIsToldOnce`, `OutcomesAreEarned`: text and calls are passed on once and in order, the newest events
  are kept, success is upstream's word, and a call that is cut off hands back what it has.
- `FailureNamesItsCause`, `CancelledCallsAreStopped`, `CallsReturn`: the race between reader, watcher and
  pinger for the connection ends with the right reason, the stop frame, and all three gone.
- `OneEnding`, `TextIsOneAnswer`, `BindingFitsTheAnswer`, `TurnsReturn`: a client that stays gets one ending,
  after one answer of one account, and the thread is left with that account's own conversation.

Bounds. Two accounts suffice for every hand-over, return (ABA) and deletion of the active one, and for an
outage that reaches both; three give a ring with a middle. Two handlers, callers or turns are what a race
needs; every property relates at most two. `MaxFailures`, `MaxAdmin`, `MaxCrashes` and the like are
budgets in the guards. Rests are one or two ticks so that a rest outlives a call in some behaviours
and expires in others. The clock stops at `MaxTime`; deadlines that end later never expire, which is
why `progress` counts on the pool, not on time. Three tokens are one in use, its successor, and the
successor of that. Six messages hold two rounds of a tool with a repeat, and limits of four
messages and six units are reached well before. A store of three records is full with a thread, its
answer and a chat, so every commit prunes. Three frames are an answer, what revises or continues it, and how it ends.
One disturbance meets every step of a call or turn; the pairs that matter (a crash and then a
failing write, say) are the subject of the runs on the account side. Turns of one kind, accounts and callers
are declared symmetric, only in runs without liveness. `CHECK_DEADLOCK FALSE` stands where the system
may really stop: a call or a turn returns, a conversation has reached its length, the turns in view are done.

`OnlyRestingAccountsAreLeft` exempts the failure class `rate_elapsed` (a 429 with `Retry-After: 0`): there the
account is left with a deadline that is already over, by design of `RetryAt`. The run leaves that class out;
the proof does not.
`TypeOK` is stated in the modules with state and run in `faults`; elsewhere the other invariants would
not evaluate without it, and for `TokenStore` and `SessionBinding` it is proved.

Fairness. Always weak, always on the program's own goroutines:

- `AccountRequests`: `Served(r)`: a goroutine that can run does, and each upstream call has a deadline (the
  context made with `ChatTimeoutSeconds` or `ImageTimeoutSeconds`). `EndpointAnswers(r)`: a token
  validation ends. The code guarantees it only for accounts with a proxy (`proxy.go:285`, 30 s); a
  direct account redeems its token with `http.DefaultClient`, which has no timeout, so this is an
  assumption about the token endpoint, and the hazard is listed. `Demand(r)`: clients keep
  coming; `RouteRecovers` needs it, since the route is only repaired by requests. The two waits are
  stated apart: a handler cannot commute between them for ever. All are written out with their enabling
  condition (a handler has a step unless it is idle), which TLC evaluates faster than `WF`.
- `TokenStore`: `Moving(c)`, the same for a goroutine that does not wait for a flight.
- `ResponseTurns`: what is possible in a turn happens, because goroutines run and a chat call ends at its deadline.
- `ChatHubCall`: the three goroutines run, writes and timed reads end. Nothing is asked of upstream, of the
  ticker, or of the deadline: `CallsReturn` speaks of calls that are cancelled or overdue.
- `ChatTurn`: the handler and the goroutine it waits for run, and its calls end within their deadlines.

Neither administration, nor clients that leave, nor crashes, nor the clock is assumed fair.

## 4. Disagreements with comments

Two runs show the code at odds with what it says of itself.

- `migrated_head`. `sessions.go:659-661`: a mutable stable head is never used as a parent. `openSessionStore`
  sorts the records an older program copied by `UpdatedAt`; after two turns it takes the oldest alias for the root
  and the head for a response alias. The next turn of the thread hangs its answer on the head (`sessions.go:701`)
  and then the head on the answer; neither can be read again, and the next start fails.
- `held_text`. `server.go:1820-1823`: with tools, deltas are held until the answer can be checked. A failover
  resets the placeholder guard but not `deliveredText` (`server.go:1863`): what the first account said is
  sent in front of the second account's answer, unchecked.

Four more are stated as properties beside the model that violates them, and have no run of their own:

| Property | The comment | The code |
|---|---|---|
| `AccountRequests!LateFailuresDoNotMove` | `account_router.go:219-221`: only the current identity can advance the router, late results never move it | IDs are compared (222), so a request of an earlier generation of the same account does |
| `AccountRequests!RefusalsBlameNobody` | `account_health.go:342-344`: local errors are intentionally absent from the failures that rest an account | the router's refusal of a lease (`account_router.go:559`) is charged to the account |
| `TokenStore!ProxyIsKept` | `cache.go:226`: the proxy the user has set is kept | a failing refresh writes back its copy of the account, with the proxy of before (390) |
| `SessionBinding!DrainingTurnsDoNotOverwrite` | `sessions.go:530-531`: a draining request of an older generation does not overwrite the new account's binding | the stamp is the route's generation when the turn ends (`server.go:1358`), not that of its lease |

Met while modelling, reachable in the models or left out of them, and kept out of the runs:

Accounts
- `account_router.go:431-432` says that one request moves the pointer once. A failover that gives up
  after its move charges its failure again, and moves a second time if its account is active again
  (`Failover`, `Terminal`).
- `account_router.go:130-133` says that an outage does not burn through the pool. Validations that end
  while the circuit is open still advance the pointer (`Confirm`, `ConfirmRefresh`; 408).
- `account_router.go:332-335` calls a deletion one transaction. When the second write (349) fails, the deleted
  account stays the active one until the next ensure (`DeleteAccount`).
- A 401 of a call that used the old token, reported after a login, pins the renewed credential (318).
- `cache.go:341-344` says that the re-read prevents a second redemption. A caller whose account is not
  listed any more goes on with its old snapshot (345), and its refresh puts the account back (417).
- When the endpoint has replaced a token and the file cannot be written, the new token is lost (417).

Sessions
- `sessions.go:774-777` wants no session pinned to a deleted account. A turn that is still draining binds
  its session again (778; `DeleteByAccount`, then `Write`).
- The prune by bytes takes more than it must (412-413), and may evict the very answer that is committed,
  while the commit reports success.
- `sessions.go:443-446` says that a pin reserves a record; `delete`, `deleteByAccount` and the discard of a
  target do not look at pins.
- A chat handler that outlasts the five seconds of the join binds its discarded target again; a crash
  between binding and commit leaves a binding that nothing refers to.
- `portable_history.go:142-144` speaks of whole turns; a history without a user message is cut one message
  at a time. 199-205 are never reached.

Upstream calls
- `client.go:361-365` promises deltas; the tails of snapshots are passed on as well.
- Text on the track without an ID may be passed on twice, once as the snapshot that upstream gives it later;
  a call inside `messages[]` may be reported more than once; after a snapshot that shrinks and a write at a
  cursor the streamed bytes win over what upstream states (`answer_stream.go:111-114`).
- A request cancelled during the handshake ends with the handshake's error; a watcher that gets no turn, a
  caller that fails and a refusal end the call without the stop frame; a failing reply to a ping hands
  back no partial answer.

Turns
- A long streamed answer whose text came without deltas loses its first segment when it is continued, and so
  does a continuation without deltas (the flag `gap`); text of the result beyond the deltas is not streamed.
- The overload sentence is shown in a continuation that is not streamed, and in front of an error frame when
  the turn has moved on.
- A continuation that fails because its client left is charged to the account, unlike every other call (1637).
- A failover whose `activateNextAccount` fails after `markAccountResult` charges the failure a second time.
- A save that clears a session does not clear a conversation the result names.

## 5. Proofs

Everything here is for every set of accounts, handlers, callers, turns, keys, proxies and frames, lists of any
length, and any budget of failures, writes that fail, deletions and crashes.

- `AccountRequestsProofs!TypesAreKept`: `Spec => []TypeOK`.
- `AccountRequestsProofs!RouterKeepsItsPromise`: `Spec => ImplementsSingleActiveAccount`.
- `AccountRequestsProofs!GenerationsNameOneAccount`: hence `Spec => []EpochNamesOneAccount`.
- `AccountRequestsProofs!GenerationsDoNotFallBack`: hence the abstract `EpochNeverFallsBack` of router and handlers.
- `AccountRequestsProofs!EveryCallIsLeased`: `Spec => []CallsAreLeased`.
- `AccountRequestsProofs!HealthIsOnFile`, `RestsOutliveEverything`, `EveryAccountIsReached`:
  `Spec => []RouteIsDurable`, `Spec => RestsAreKept`, `Spec => []RotationReachesEveryAccount`.
- `AccountRequestsProofs!MovesLeaveRestingAccounts`, `OutagesMoveNobody`:
  `Spec => OnlyRestingAccountsAreLeft`, `Spec => OutageHoldsTheRoute`.
- `TokenStoreProofs!TokenTypesAreKept`, `FileAndMemoryAgree`, `OneFlightPerAccount`,
  `AccountsKeepTheirOrder`: `Spec => []TypeOK`, `[]FileIsMemory`, `[]SingleFlight`, `ListMovesByOne`.
- `TokenStoreProofs!ReplacedTokensStayUnused`: `Spec => []NoReplacedTokenIsRedeemed`.
- `ChatHubCallProofs!FailuresAreExplained`, `UpstreamIsToldToStop`: `Spec => FailureNamesItsCause`,
  `Spec => []CancelledCallsAreStopped`.
- `ChatHubCallProofs!CallersAreToldOnce`, `OutcomesHold`: `Spec => []CallerIsToldOnce`,
  `Spec => []OutcomesAreEarned`, for every set of frames and log of any length.
- `SessionBindingProofs!BindingTypesAreKept`, `ConversationsStayWithTheirAccount`, `ActiveWritesCount`,
  `CurrentBindingsStay`, `BindingsOnlyAdvance`: `Spec => []TypeOK`, `[]NoForeignConversation`,
  `[]ActiveWritesAreAccepted`, `CurrentBindingIsKept`, `BindingsDoNotFallBack`.
- `ChatTurnProofs!EveryTurnHasOneEnding`, `BindingsFitTheirAnswers`, `TextReachesAsOneAnswer`:
  `Spec => []OneEnding`, `Spec => []BindingFitsTheAnswer`, `Spec => []TextIsOneAnswer`, for any number of
  pieces, continuations and disturbances.
- `AgentConversationProofs!HeldBackOnlyWhenStuck`, `ProtocolSurvivesBounding`, `ConversationsGoOn`, `PromptsAreWhole`:
  `Spec => []OnlyStuckCallsAreHeldBack`, `[]ToolProtocolIsKept`, `[]ConversationsContinue`, `[]PromptIsWhole`, for
  conversations of any length, any limits and any budget.
- `ResponseTurnsProofs!ThreadsHaveOneWriter`, `MemoryIsOnFile`: `Spec => []OneWriterPerThread`,
  `Spec => []StoreIsFile`.

The router. `AccountRequestsProofs` first shows of each critical section that it returns a route that is
`Forward` of the one it got: same holder and epoch with a record no newer than the route, or a
later epoch that is already on disk. `EnsureActiveAccount` on an empty list additionally vacates the
route (`Step`). `Settled` (the active account is listed) is what later parts of a section rely on.
It then adds the locals: the inductive invariant is `Inv == TypeOK /\ LocalsOK`, where
`LocalsOK` says that a handler's `account` and `target` are assigned wherever its program counter lets it
read them; without it a type error could hide in `req[r].account`. Every action is then shown `Good`: it
keeps `Inv`, steps the route and settles at most one grant. The abstract invariant needs
`record.epoch = epoch`: without it a crash could fall back.

Leases. `CallsAreLeased` speaks of the calls only, but a turn goes from one call to the next through failures and
the search for a successor. `LInv` adds to `Inv` that a turn with an account keeps that account's lease from
its first call to its end, except between giving the old lease up and taking the new one.

Durability. `DInv` adds to `Inv` that the list holds an account once and that the route is `Durable`:
generation and record agree, and unless a write failed the file has the unexpired health. Each section is
shown `Sound`: its result is durable and every rest is kept. What makes it work is where the sections write:
a rotation that happened has written, one that did not is followed by a write (`RotatedSound`), and a
success needs none, since it drops only what is over (`SuccessKeeps`). `RestsAreKept` follows step by step; only a renewed
credential (`Renews`) and a crash with something unsaved are exempt. That the ring is complete needs that an
account is listed once: `Distinct` survives deletion (`WithoutDistinct`) and appending, and every position
other than the active one is its successor by some number of steps below the length (`OthersAreSuccessors`).

Leaving an account. Both properties are about one step, so `DInv` is enough, but each section that can move the route
on behalf of a request (`ResolveLeaves`, `ConfirmLeaves`, `MarkLeaves`) has to be followed through the charge, the
shared circuit and the rotation: the compare (`RotationLeaves`) makes sure that what is left is what was charged,
and what was charged rests because no rest is empty (`FailureRests`; the one deadline that can be over already is that
of a 429). With the circuit open the section records the failure and returns (`CircuitStays`).

Tokens. `SingleFlight` is not inductive: that a flight is registered for whoever leads one has to come with it.
`FlightsOK` says that an account's flight is `NoFlight` or is led by a caller between `redeem` and `remove`
whose flight it is, marked done exactly at `remove`, and that a waiter's flight is under way. `FileIsMemory`
is needed for the types, since a restart takes the list from the file. The lemmas on the list (an index
of a listed account, what removal and replacement leave of the sequence) carry the order. For the rotation
of tokens, `RInv` adds that there is an `owner` of every token: the list and every caller under way hold
for an account only tokens issued for it that are not replaced, and only the account's flight is between reading its
token and replacing it. `owner` is an existential in the invariant because the store does not record it.

ChatHub. A read fails when someone closes the connection, so the invariant says of each of the three that hang up
what it left behind first (`Blame`: the watcher a cancelled context, the pinger its report in the channel,
the call its own outcome), and which of them can be where (`Places`). While nothing but the cancellation
has disturbed the call, the watcher is the first to hang up and has written the stop frame by
then (`Stopping`). The twenty-odd steps of the reader are reduced to two kinds, `Moves` and `Ends`, and the
invariant is shown to survive each kind once.

What a ChatHub call tells. Upstream's account of its answers is read off the log (`Answer`, `Aim`, `ChosenAnswers`),
the program's is kept in the answer stream, and the two are compared through a summary of the log: which answers
were told, where the cursor is, each answer's text, which were rewritten, which counts. One more frame changes the
summary in a way that is computed first (`AimAppend`, `TextAppend`, `RewrittenAppend`, `CompletedAppend`,
`LatestAppend`) and the stream in the same way (`UpdatesKeepTheMirror`): `Follows` says that the stream mirrors the
log, `Gives` that what is delivered is what the caller was given, and `TheChosenAnswer` that the text `bestText`
picks is that of the answer that counts. The authoritative text of a rewritten answer misses what is written to it
afterwards, which is why the result is promised for answers never rewritten or never written. `CallsTold` carries
the calls, `KeptFrom` the events by their age among those small enough to keep. `RInv` asks all of this of a call whose
caller has not failed, and of one that still runs that nothing in its log has ended it (`Ongoing`). Folds and flattened
sequences are recursive functions; two of them are compared at the least position where they would differ
(`LeastExists`). What both this module and `ChatTurnProofs` need of joined texts is in `FlattenedSequences`: joining
keeps the type, commutes with concatenation, and drops what is empty.

Bindings. A session's conversation is safe because of what each turn carries, so the invariant is one of single turns
(`TurnOK`) and single sessions (`SessionOK`) against the route and the owners of the conversations. Both survive a
later route and a new conversation (`TurnStaysOK`, `SessionStaysOK`): generations only grow, an owner never changes.
That a restart keeps `SessionOK` rests on `FloorIsHighest`: the generation it starts from is that of the highest
binding or above. The two action properties follow because only a write changes a session that
stays (`WhoChangesSessions`), and only one that is not refused.

Chat turns. `IInv` has four parts: what the handler holds (`MeOK`), what it has sent (`WireOK`), the two
heartbeats (`HeartOK`), the stored binding (`BindOK`). `MeOK` types the pieces of text by the account that wrote them, which
is what lets a failover start from nothing: a turn without tools that moves has said nothing yet. `WireOK` says
of an open stream that it holds no ending, and of a closed one how it ended. The thirty actions of the handler
reduce to three kinds (`TalksKeeps`, `AfterKeeps`, `ConcludesKeeps`), each shown once to keep the other parts.

The text of a turn. `TextIsOneAnswer` compares the wire with what the program was told, and between the two the text passes
through the result of a call, the placeholder guards and `delivered`. `TextInv` adds to `IInv` the part `TextOK`: as long as
nothing excuses the turn (`Clear`: no gap, and no held-back text carried over to a second account), `OneAnswer`
holds of the wire, and for a client that is there the `Books` are in order. They say for each program counter which of
these places hold the answer so far. All of it is a `Run`, pieces of one account numbered from 1 on without a hole; what is
delivered, pending in the guard and pending in the tail of a segment are one run in this order (`Kept`); its length is
`told`; and the wire of a stream holds exactly what is delivered, or nothing as long as it is held back. `RunConcat`,
`RunStart` and `Associates` are all that is needed of runs, and `FeedText` says that a guard loses nothing: what it lets go
and what it still holds is what it held and what it was given. A repair and a continuation that repeats its beginning
are the hard cases: `ResumedText` shows that what is new in a conversation read back goes on exactly where the turn was told to,
and that the overlap found is the one there is. Every action `Tells`: it excuses no turn that was excused before, sends nothing
to a client that is gone, and keeps `Books` and `OneAnswer`.

Conversations. The invariant is the type of the messages (`ConversationTyped`); what the properties ask is a fact about
every conversation of that type, and the work is to say of each reading, message by message, what it has computed.
The ledger: after each result the counts it keeps are those of the occurrences of a call (`SeenWell`), so three equal
results in a row and two equal failures are found, and nothing else. The protocol: a prefix is valid when every message in
it `Follows` the ones before, and pending are the calls that `Waits` names (`ReadWell`); read so,
`validateToolConversation` accepts what `ObeysToolProtocol` defines. Both speak of positions, so they move with a
tail that starts at a unit (`TailFollows`): an assistant whose calls are answered stands before every later unit, hence no
result in the tail refers to what was cut. The limits: a part of what fits fits (`PartFits`), so what is stored is within the
limits or a single message, and is a fixed point (`BoundedIsStable`). `OverlapIs` says that the overlap found is the
longest there is, which is what makes a transition exact (`TransitionRebuilds`); that a client's repetition
is found as such rests on the answers of the gateway: past the repetition the client has sent no assistant message, and the
overlap cannot reach further (`OverlapIsRepetition`). The prompt: whatever units are chosen, their messages are those at
increasing positions of the conversation (`MessagesGathered`), and their bytes are the sum of the units' tokens. Units end where the
next one starts, so a result comes with its call and nothing stands between them (`ResultsStayInside`, `ChosenAreWhole`). The
choice: every anchor was added within the budget (`AnchorsFit`), the recent tail is everything since its oldest unit, and
the check of that unit covers all of it (`RecentTailFits`); a unit left out is older than the whole tail.

Responses. `LockInv` adds to `OneWriterPerThread` what a turn at its program counter knows of its source; the count is a
cardinality, so every step is reduced to a turn that goes on inside, one that begins to refer to the lock
(`OneMore`), or one that ceases to, and a crash empties both sides. `StoreInv` says that the store of a running process
is written out and has dense ranks, which is what makes the undoing of a failed write exact
(`RestoredIsBefore`), and that nothing runs in a dead one.

Assumptions: the named ASSUMEs, which TLC evaluates in every run of the module. `AccountsAreDistinct` (the
initial list holds an account once) is what `Upsert` maintains. `RestsLast` (no rest is empty) holds of the
constants in `account_health.go:93,99,104,297`. `TurnsAssumption` asks that the keys in view are finitely many, since
references to a lock are counted, and `BindingAssumption` that there is a key. `FrameAssumption` types the parts
of a frame, as the read loop's conversions do, and keeps "no ID" apart from the IDs. `ConversationAssumption` asks that a model gets no more calls at once than a history
keeps (the setting allows 64, `settings.go:100`, which is `maxPortableToolCalls`) and that whoever speaks says something.

Only model-checked: the liveness properties (`RequestsFinish`, `RouteRecovers`, `EveryCallerReturns`,
`CallsReturn`, `TurnsReturn`, `TurnsEnd`), which are beyond the prover; and `EveryHistoryCanBeRead`, `SourceStaysAsSeen`, `UnfinishedTurnsLeaveNothing` and `ImplementsMemory`, which
depend on the recursion from a record to its parents and on folds over sets of records. For these TLC compares what the
recursion computes with its definition over all bounded inputs.

## 6. Not modelled

- Policy refusals, API keys, settings and the admin gate: a map or a record behind one lock each, read and
  written in single sections; their writes replace the file or leave it alone, as those that are modelled do.
- Debug log and statistics: counters and a ring of records that decide nothing.
- Protocol conversion, prompt texts, tool parsing, model routing: pure conversions of text and JSON; what they
  decide is a choice in `ChatTurn`.
- Proxy dialling, web UI, scripts: I/O and assets.
- Of the request handlers: parsing and checking a request before its lease, the output of `chatOnce`, `chatStream`
  and `imageGenerations`, the admin pages. Of response chaining: the events a client reads, and
  `anthropicMessages`, which keeps no state. Of the token store: matching by e-mail, OID and tenant, and the
  device and PKCE flows. Of the agent ledger: the patterns that recognise a failed result or a path, and the
  recovery prompt.

`PROJECT.json` repeats this part by part under `components`; the hazards that no property covers carry a note there.
