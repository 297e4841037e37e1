---------------------------- MODULE ResponseTurns ----------------------------
(***************************************************************************)
(* Turns of the Responses API (response_session.go, protocol_handlers.go)    *)
(* over the session store: a turn reserves its source, lets the internal      *)
(* chat handler produce an answer, commits it and cleans up. turn[t].pc says   *)
(* where between two critical sections the adapter of t stands,              *)
(* turn[t].producer where its chat handler does.                            *)
(*                                                                         *)
(* The response key of turn t is t itself: it is drawn afresh. The route is   *)
(* the account that is active; AccountRouter has the rest.                   *)
(***************************************************************************)
EXTENDS SessionStore

CONSTANTS Turns,        \* the turns in view, each with its own response key
          Threads,      \* stable keys of clients
          Chats,        \* session keys of the Chat Completions endpoint
          OldAnswers,   \* responses of earlier days
          Streaming,    \* the turns that stream
          Files,        \* what sessions.json may hold at the start
          MaxChats, MaxRemovals, MaxMoves, MaxAges, MaxCrashes, MaxFailures,   \* bounds
          MaxDisturbances   \* a bound on all of these together

NoTurn == "no turn"

ASSUME TurnsAssumption ==
    /\ IsFiniteSet(Keys) /\ NoTurn \notin Turns
    /\ Keys = Turns \cup Threads \cup Chats \cup OldAnswers
    /\ Cardinality(Keys) = Cardinality(Turns) + Cardinality(Threads) + Cardinality(Chats)
                                + Cardinality(OldAnswers)
    /\ Streaming \subseteq Turns

VARIABLES store,      \* the session store
          up,         \* the process runs
          locks,      \* responseSessionLocks: by key, the references and the holder
          turn,       \* local variables of the turns
          active,     \* the account the route names
          used,       \* how much of each bound is used
          histories   \* auxiliary: the histories that the store's data stands for

vars == <<store, up, locks, turn, active, used>>

FreeLock == [refs |-> 0, holder |-> NoTurn]

IdleTurn ==
    [pc |-> "idle", producer |-> "off", source |-> NoKey, previous |-> FALSE, pinned |-> FALSE,
     account |-> NoAccount, advance |-> FALSE, committed |-> FALSE,
     outlasted |-> FALSE, unsettled |-> FALSE, seen |-> <<>>]

Stable(t) == ~turn[t].previous /\ turn[t].source # t

Goes(t, pc) == turn' = [turn EXCEPT ![t].pc = pc]

Limit == [chats |-> MaxChats, removals |-> MaxRemovals, moves |-> MaxMoves, ages |-> MaxAges,
          crashes |-> MaxCrashes, failures |-> MaxFailures]

Disturbances == FoldFunction(+, 0, used)

May(what) == used[what] < Limit[what] /\ Disturbances < MaxDisturbances

Spends(what) == used' = [used EXCEPT ![what] = @ + 1]

\* A write succeeds, or fails while the budget lasts.
WriteOutcome(ok) ==
    IF ok THEN UNCHANGED used ELSE May("failures") /\ Spends("failures")

UserOf(t) == UserMessage(t)
AnswerOf(t) == AssistantMessage(t, <<>>)

---------------------------------------------------------------------------
(* The request arrives.                                                    *)

\* A turn without a key of the client is rooted at its own response key. A previous response
\* is one the client has been told of.
Arrive(t, source, previous) ==
    /\ up /\ turn[t].pc = "idle"
    /\ previous => source \in OldAnswers \/ (source \in Turns /\ turn[source].pc # "idle")
    /\ ~previous => source \in Threads \cup {t}
    /\ turn' = [turn EXCEPT ![t] = [IdleTurn EXCEPT !.source = source, !.previous = previous,
                                       !.pc = CASE source = t -> "produce"
                                                [] previous -> "pin"
                                                [] OTHER -> "lock"]]
    /\ UNCHANGED <<store, up, locks, active, used>>

\* lockStableResponseSession: the entry is made or found, and counted.
CountLock(t) ==
    /\ turn[t].pc = "lock"
    /\ locks' = [locks EXCEPT ![turn[t].source].refs = @ + 1]
    /\ Goes(t, "trylock")
    /\ UNCHANGED <<store, up, active, used>>

\* Slip: the lock is taken without looking who holds it.
SlipTryLockBlindly(t) ==
    /\ turn[t].pc = "trylock"
    /\ locks' = [locks EXCEPT ![turn[t].source].holder = t]
    /\ Goes(t, "pin")
    /\ UNCHANGED <<store, up, active, used>>

TryLock(t) ==
    /\ turn[t].pc = "trylock"
    /\ IF locks[turn[t].source].holder = NoTurn
       THEN /\ locks' = [locks EXCEPT ![turn[t].source].holder = t]
            /\ Goes(t, "pin")
       ELSE /\ Goes(t, "uncount")
            /\ UNCHANGED locks
    /\ UNCHANGED <<store, up, active, used>>

\* The reference is given back; the entry is deleted with its last one.
UncountLock(t) ==
    /\ turn[t].pc = "uncount"
    /\ locks' = [locks EXCEPT ![turn[t].source].refs = @ - 1]
    /\ Goes(t, "done")
    /\ UNCHANGED <<store, up, active, used>>

\* Only a previous response has to exist.
PinSource(t) ==
    LET source == turn[t].source
        found  == Readable(store.data, source)
    IN /\ turn[t].pc = "pin"
       /\ store' = IF found THEN Pin(store, source) ELSE store
       /\ turn' = [turn EXCEPT ![t].pc = IF turn[t].previous /\ ~found THEN "done" ELSE "produce",
                               ![t].pinned = found,
                               ![t].unsettled = source \in Turns /\ ~turn[source].committed,
                               ![t].seen = HistoryOf(store.data, source)]
       /\ UNCHANGED <<up, locks, active, used>>

---------------------------------------------------------------------------
(* The chat handler produces the answer.                                    *)

StartProducer(t) ==
    /\ turn[t].pc = "produce"
    /\ turn' = [turn EXCEPT ![t].pc = "scan", ![t].producer = "running", ![t].account = active]
    /\ UNCHANGED <<store, up, locks, active, used>>

\* persistSession before the answer is finished. A binding that is refused or cannot be
\* written ends the handler with an error.
BindTurn(t, ok) ==
    /\ up /\ turn[t].producer = "running"
    /\ turn' = [turn EXCEPT ![t].producer = IF ok THEN "answered" ELSE "failed"]
    /\ WriteOutcome(ok)
    /\ UNCHANGED <<up, locks, active>>

BindTarget(t, ok) == BindTurn(t, ok) /\ store' = Upsert(store, t, turn[t].account, ok)

FailProducer(t) ==
    /\ up /\ turn[t].producer = "running"
    /\ turn' = [turn EXCEPT ![t].producer = "failed"]
    /\ UNCHANGED <<store, up, locks, active, used>>

\* The adapter has read [DONE], or an error.
FinishScan(t) ==
    /\ turn[t].pc = "scan" /\ turn[t].producer \in {"answered", "failed"}
    /\ Goes(t, IF turn[t].producer = "answered" THEN "check" ELSE "join")
    /\ UNCHANGED <<store, up, locks, active, used>>

\* An event cannot be written: the client has left.
LoseClient(t) ==
    /\ turn[t].pc = "scan" /\ t \in Streaming
    /\ Goes(t, "join")
    /\ UNCHANGED <<store, up, locks, active, used>>

---------------------------------------------------------------------------
(* The answer is committed.                                                *)

\* commitResponsePortableHistory: an account that is not active does not move the head.
CheckRoute(t) ==
    LET bound == IF t \in DOMAIN store.data THEN store.data[t].account ELSE NoAccount IN
    /\ turn[t].pc = "check"
    /\ turn' = [turn EXCEPT ![t].pc = "commit",
                            ![t].advance = /\ ~turn[t].previous
                                           /\ turn[t].source = t \/ bound \in {NoAccount, active}]
    /\ UNCHANGED <<store, up, locks, active, used>>

CommitTurn(t, ok) ==
    /\ turn[t].pc = "commit"
    /\ turn' = [turn EXCEPT ![t].pc        = "join",
                            ![t].committed = ok /\ CanCommit(store.data, turn[t].source, t,
                                                             turn[t].advance)]
    /\ ok \/ CanCommit(store.data, turn[t].source, t, turn[t].advance)
    /\ WriteOutcome(ok)
    /\ UNCHANGED <<up, locks, active>>

\* What the client is told follows from committed: the completed answer, or that it failed.
\* It sends what is new; what it may repeat is MergePortableMessages' business.
Commit(t, ok) ==
    /\ CommitTurn(t, ok)
    /\ store' = CommitResponse(store, turn[t].source, t, <<UserOf(t)>>, AnswerOf(t),
                               turn[t].advance, ok)

---------------------------------------------------------------------------
(* The deferred clean-up.                                                   *)

AfterJoin(t) == IF turn[t].pinned THEN "unpin" ELSE "discard"

JoinProducer(t) ==
    /\ turn[t].pc = "join" /\ turn[t].producer \in {"answered", "failed"}
    /\ Goes(t, AfterJoin(t))
    /\ UNCHANGED <<store, up, locks, active, used>>

\* responsesProducerShutdownTimeout: the chat handler is left running.
OutlastJoin(t) ==
    /\ turn[t].pc = "join" /\ turn[t].producer = "running"
    /\ turn' = [turn EXCEPT ![t].pc = AfterJoin(t), ![t].outlasted = TRUE]
    /\ UNCHANGED <<store, up, locks, active, used>>

UnpinSource(t) ==
    /\ turn[t].pc = "unpin"
    /\ store' = Unpin(store, turn[t].source)
    /\ turn' = [turn EXCEPT ![t].pc = "discard", ![t].pinned = FALSE]
    /\ UNCHANGED <<up, locks, active, used>>

AfterDiscard(t) == IF Stable(t) THEN "unlock" ELSE "done"

DiscardTurn(t, ok) ==
    /\ turn[t].pc = "discard"
    /\ Goes(t, AfterDiscard(t))
    /\ ok \/ (~turn[t].committed /\ t \in DOMAIN store.data)
    /\ WriteOutcome(ok)
    /\ UNCHANGED <<up, locks, active>>

\* Slip: the target of a turn that failed is left in the store.
SlipKeepTarget(t, ok) == DiscardTurn(t, ok) /\ UNCHANGED store

DiscardTarget(t, ok) ==
    /\ DiscardTurn(t, ok)
    /\ store' = IF turn[t].committed THEN store ELSE Delete(store, t, ok)

\* Slip: a turn whose client has left forgets the lock.
SlipUnlockOnSuccess(t) ==
    /\ turn[t].pc = "unlock"
    /\ locks' = [locks EXCEPT ![turn[t].source].holder = IF turn[t].committed THEN NoTurn ELSE @]
    /\ Goes(t, "uncount")
    /\ UNCHANGED <<store, up, active, used>>

Unlock(t) ==
    /\ turn[t].pc = "unlock"
    /\ locks' = [locks EXCEPT ![turn[t].source].holder = NoTurn]
    /\ Goes(t, "uncount")
    /\ UNCHANGED <<store, up, active, used>>

---------------------------------------------------------------------------
(* What happens around the turns.                                           *)

\* Another endpoint binds its own session key.
Chat(k, ok) ==
    /\ up /\ May("chats")
    /\ store' = Upsert(store, k, active, ok)
    /\ used' = [used EXCEPT !.chats = @ + 1, !.failures = IF ok THEN @ ELSE @ + 1]
    /\ ok \/ May("failures")
    /\ UNCHANGED <<up, locks, turn, active>>

\* The turns whose source is among gone cannot count on it.
Forgotten(gone) ==
    [t \in Turns |-> IF turn[t].source \in gone /\ turn[t].pc # "idle"
                     THEN [turn[t] EXCEPT !.unsettled = TRUE] ELSE turn[t]]

\* An administrator deletes a conversation, or an account and with it its conversations.
DeleteConversation(k) ==
    /\ up /\ May("removals") /\ k \in DOMAIN store.data
    /\ store' = Delete(store, k, TRUE)
    /\ turn' = Forgotten({k})
    /\ Spends("removals")
    /\ UNCHANGED <<up, locks, active>>

PruneSessionCache ==
    /\ up /\ May("removals")
    /\ store' = PruneNow(store, TRUE)
    /\ Spends("removals")
    /\ UNCHANGED <<up, locks, turn, active>>

DeleteAccountSessions(a) ==
    /\ up /\ May("removals") /\ a # active
    /\ store' = DeleteByAccount(store, a, TRUE)
    /\ turn' = Forgotten({k \in DOMAIN store.data : store.data[k].account = a})
    /\ Spends("removals")
    /\ UNCHANGED <<up, locks, active>>

Rotate(a) ==
    /\ up /\ May("moves") /\ a # active
    /\ active' = a
    /\ Spends("moves")
    /\ UNCHANGED <<store, up, locks, turn>>

\* The records as old as k, and the older ones, pass sessionTTL.
Expire(k) ==
    LET aged(data) == [j \in DOMAIN data |->
                          [data[j] EXCEPT !.expired = @ \/ data[j].rank <= data[k].rank]]
    IN /\ up /\ May("ages") /\ k \in DOMAIN store.data
       /\ store' = [store EXCEPT !.data = aged(store.data), !.file = aged(store.file)]
       /\ Spends("ages")
       /\ UNCHANGED <<up, locks, turn, active>>

Crash ==
    /\ up /\ May("crashes")
    /\ up' = FALSE
    /\ store' = [store EXCEPT !.data = store.file, !.pins = [k \in Keys |-> 0]]
    /\ locks' = [k \in Threads |-> FreeLock]
    /\ turn' = [t \in Turns |-> IF turn[t].pc = "idle" THEN turn[t]
                                ELSE [turn[t] EXCEPT !.pc = "done", !.producer = "off", !.pinned = FALSE]]
    /\ Spends("crashes")
    /\ UNCHANGED active

Boot ==
    /\ ~up
    /\ up' = TRUE
    /\ \E data \in Opened(store.file) : store' = [store EXCEPT !.data = data, !.file = data]
    /\ UNCHANGED <<locks, turn, active, used>>

Init ==
    /\ \E file \in Files : store = [data |-> file, pins |-> [k \in Keys |-> 0], file |-> file]
    /\ up = FALSE
    /\ locks = [k \in Threads |-> FreeLock]
    /\ turn = [t \in Turns |-> IdleTurn]
    /\ active \in Accounts
    /\ used = [chats |-> 0, removals |-> 0, moves |-> 0, ages |-> 0, crashes |-> 0, failures |-> 0]
    /\ histories = Histories(store.data)

\* What the goroutine that serves t does by itself, apart from its writes.
Local(t) ==
    \/ CountLock(t) \/ TryLock(t) \/ UncountLock(t) \/ PinSource(t)
    \/ StartProducer(t) \/ FinishScan(t) \/ CheckRoute(t)
    \/ JoinProducer(t) \/ UnpinSource(t) \/ Unlock(t)

Adapter(t) == Local(t) \/ \E ok \in BOOLEAN : Commit(t, ok) \/ DiscardTarget(t, ok)

\* What its chat handler does; the deadline of the chat ends it.
Producer(t) == FailProducer(t) \/ \E ok \in BOOLEAN : BindTarget(t, ok)

Clients ==
    \/ \E t \in Turns, source \in Keys, previous \in BOOLEAN : Arrive(t, source, previous)
    \/ \E t \in Turns : LoseClient(t) \/ OutlastJoin(t)
    \/ \E k \in Chats, ok \in BOOLEAN : Chat(k, ok)

Surroundings ==
    \/ \E k \in Keys : DeleteConversation(k) \/ Expire(k)
    \/ \E a \in Accounts : DeleteAccountSessions(a) \/ Rotate(a)
    \/ PruneSessionCache \/ Crash \/ Boot

Next ==
    /\ Clients \/ Surroundings \/ \E t \in Turns : Adapter(t) \/ Producer(t)
    /\ histories' = Histories(store'.data)

Spec == Init /\ [][Next]_<<vars, histories>>

\* Goroutines run, and a chat call ends at its deadline: what is possible in a turn happens.
\* Clients, administrators and crashes are not fair. (A write is possible in any state, so
\* what it does to the store is left out.)
Runs(t) ==
    \/ Local(t) \/ FailProducer(t)
    \/ \E ok \in BOOLEAN : BindTurn(t, ok) \/ CommitTurn(t, ok) \/ DiscardTurn(t, ok)

FairSpec == Spec /\ \A t \in Turns : WF_turn(Runs(t))

---------------------------------------------------------------------------
(* Properties.                                                             *)

Records(data) == \A k \in DOMAIN data :
    /\ k \in Keys
    /\ data[k].account \in Accounts \cup {NoAccount} /\ data[k].group \in Keys \cup {NoKey}
    /\ data[k].parent \in Keys \cup {NoKey} /\ data[k].drop \in Nat /\ data[k].rank \in Nat
    /\ data[k].alias \in BOOLEAN /\ data[k].expired \in BOOLEAN

\* Types of every variable; a record that has a parent holds no messages itself.
TypeOK ==
    /\ Records(store.data) /\ Records(store.file) /\ store.pins \in [Keys -> Nat]
    /\ \A k \in DOMAIN store.data : store.data[k].parent # NoKey => store.data[k].messages = <<>>
    /\ up \in BOOLEAN /\ active \in Accounts
    /\ \A k \in Threads : locks[k].refs \in Nat /\ locks[k].holder \in Turns \cup {NoTurn}
    /\ \A t \in Turns :
          /\ turn[t].producer \in {"off", "running", "answered", "failed"}
          /\ turn[t].source \in Keys \cup {NoKey}
          /\ turn[t].account \in Accounts \cup {NoAccount}

\* No deletion, pruning, crash or commit leaves a record whose history cannot be read: parents
\* exist, do not form a cycle, and are as long as the child takes them to be. Otherwise the next
\* start fails (openSessionStore: "decode portable history").
EveryHistoryCanBeRead == EveryHistoryReads(store.data) /\ EveryHistoryReads(store.file)

\* Whatever write fails, memory and file agree, head and answer among it
\* (commitResponse: "prevents the head and response ID from diverging").
StoreIsFile == up => store.data = store.file

\* The keyed lock: its holder is the one turn between TryLock and Unlock, and an entry is
\* counted for exactly the turns that refer to it, so none is left behind and none is deleted
\* under a holder (lockStableResponseSession).
Referring(k) == {t \in Turns : /\ Stable(t) /\ turn[t].source = k
                               /\ turn[t].pc \notin {"idle", "lock", "done"}}
Holding(k) == {t \in Referring(k) : turn[t].pc \notin {"trylock", "uncount"}}
OneWriterPerThread ==
    \A k \in Threads :
        /\ locks[k].refs = Cardinality(Referring(k))
        /\ Holding(k) = {locks[k].holder} \ {NoTurn}

\* From the reservation to the commit, a turn's source is there and has the history it had,
\* unless it is itself an unfinished response or an administrator deleted it: pruning spares it
\* and what it hangs on, and no other turn moves the head (pin, lockStableResponseSession).
SourceStaysAsSeen ==
    \A t \in Turns :
        turn[t].pinned /\ turn[t].pc # "unpin" /\ ~turn[t].unsettled /\ ~turn[t].committed
            /\ turn[t].pc # "join" =>
            turn[t].source \in DOMAIN store.data /\ HistoryOf(store.data, turn[t].source) = turn[t].seen

\* A turn that ends without a committed answer leaves no history under its response key, and
\* no key at all unless its chat handler outlasted it or the deletion could not be written.
UnfinishedTurnsLeaveNothing ==
    \A t \in Turns :
        turn[t].pc = "done" /\ ~turn[t].committed =>
            /\ HistoryOf(store.data, t) = <<>>
            /\ t \in DOMAIN store.data =>
                  turn[t].outlasted \/ used.failures > 0 \/ used.crashes > 0

\* A head that moves to an answer is not what the answer is written relative to
\* (commitResponse: "A mutable stable head is never used as a parent"). Once a file of an older
\* program has been migrated around one of its responses it is: head and answer then refer to
\* each other, neither can be read again, and the next start fails.
NoAnswerHangsOnItsHead ==
    \A k \in Threads \cap DOMAIN store.data, t \in Turns \cap DOMAIN store.data :
        store.data[k].parent = t => store.data[t].parent # k

\* What the store promises of its histories, refined.
Memory == INSTANCE ConversationMemory
              WITH history   <- histories,
                   answered  <- OldAnswers \cup {t \in Turns : turn[t].committed},
                   Exchange  <- [t \in Turns |-> <<UserOf(t), AnswerOf(t)>>]

\* An answer extends the history of its source and nothing else; a head moves with the answer;
\* answers never change; pruning, deletion, migration and failing writes change no history that
\* is kept (commitResponse, deleteWithRebaseLocked, compactLegacyPortableCopiesLocked).
ImplementsMemory == Memory!Spec

\* However the clients leave and whenever the process dies, the turns under way end, with
\* their chat handlers, and leave no lock, no reference and no pin behind.
TurnsEnd ==
    []<>(/\ \A t \in Turns : turn[t].pc \in {"idle", "done"} /\ turn[t].producer # "running"
         /\ \A k \in Threads : locks[k] = FreeLock
         /\ \A k \in Keys : store.pins[k] = 0)
=============================================================================
