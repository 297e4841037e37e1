---------------------------- MODULE SessionStore ----------------------------
(***************************************************************************)
(* The session store (sessions.go) under its mutex: one operator per method, *)
(* on store = [data, pins, file]. data maps the stored keys to records, pins  *)
(* counts the turns that reserve a key, file is what sessions.json holds.     *)
(*                                                                         *)
(* A record holds its history either itself (parent = NoKey) or as           *)
(* parent[drop:] + delta. rank orders the records by UpdatedAt, expired says *)
(* that it is longer ago than sessionTTL. A legacy record has no group;       *)
(* in a legacy file the records of one account are copies of one upstream     *)
(* conversation, and NoAccount stands for a blank one. CreatedAt is that of    *)
(* the copied record, so among them UpdatedAt decides.                        *)
(***************************************************************************)
EXTENDS PortableHistory

CONSTANTS Keys, Accounts,
          NoKey, NoAccount,     \* ""
          MaxAliases,           \* maxResponseAliasesPerSession
          MaxStored,            \* maxStoredSessions
          MaxStoreBytes         \* maxSessionStoreBytes, in units of a short message

ASSUME StoreAssumption ==
    /\ NoKey \notin Keys /\ NoAccount \notin Accounts
    /\ MaxAliases \in Nat \ {0} /\ MaxStored \in Nat \ {0} /\ MaxStoreBytes \in Nat \ {0}

KeyBytes == 1   \* a record without messages

Record(account, group) ==
    [account |-> account, messages |-> <<>>, parent |-> NoKey, drop |-> 0, delta |-> <<>>,
     group |-> group, alias |-> FALSE, rank |-> 0, expired |-> FALSE]

AsRoot(record, history) ==
    [record EXCEPT !.messages = history, !.parent = NoKey, !.drop = 0, !.delta = <<>>]

AsChild(record, parent, t) ==
    [record EXCEPT !.messages = <<>>, !.parent = parent, !.drop = t.drop, !.delta = t.delta]

---------------------------------------------------------------------------
(* Histories.                                                              *)

\* materializeHistoryLocked gives no error: the parents are there and form no cycle.
Readable(data, id) ==
    LET above[n \in 0..Cardinality(DOMAIN data)] ==
            IF n = 0 THEN id
            ELSE IF above[n - 1] \in DOMAIN data THEN data[above[n - 1]].parent ELSE above[n - 1]
    IN id \in DOMAIN data /\ above[Cardinality(DOMAIN data)] = NoKey

MaterializeHistory(data, id) ==
    LET history[k \in DOMAIN data] ==
            IF data[k].parent = NoKey THEN BoundedPortableMessages(data[k].messages)
            ELSE BoundedPortableMessages(From(history[data[k].parent], data[k].drop + 1)
                                            \o data[k].delta)
    IN history[id]

Histories(data) ==
    [k \in {k \in DOMAIN data : Readable(data, k)} |-> MaterializeHistory(data, k)]

\* A child takes its parent to be at least as long as what it drops of it.
EveryHistoryReads(data) ==
    \A k \in DOMAIN data :
        /\ Readable(data, k)
        /\ data[k].parent # NoKey =>
              data[k].drop \in 0..Len(MaterializeHistory(data, data[k].parent))

IsPureReference(record) ==
    /\ record.parent # NoKey
    /\ record.drop = 0 /\ record.delta = <<>> /\ record.messages = <<>>

PinnedDependencies(store) ==
    LET above[n \in 0..Cardinality(DOMAIN store.data)] ==
            IF n = 0 THEN {k \in Keys : store.pins[k] > 0}
            ELSE above[n - 1] \cup {store.data[k].parent : k \in above[n - 1] \cap DOMAIN store.data}
    IN above[Cardinality(DOMAIN store.data)]

---------------------------------------------------------------------------
(* Removing records: the children of what goes become roots.                *)

\* Slip: what goes leaves its children behind as they are.
SlipWithoutUnrebased(data, gone) ==
    [k \in DOMAIN data \ gone |->
        IF data[k].parent \in gone THEN AsRoot(data[k], data[k].delta) ELSE data[k]]

Without(data, gone) ==
    [k \in DOMAIN data \ gone |->
        IF data[k].parent \in gone THEN AsRoot(data[k], MaterializeHistory(data, k)) ELSE data[k]]

RecordBytes(record) ==
    KeyBytes + PortableMessagesBytes(record.messages) + PortableMessagesBytes(record.delta)

StoreBytes(data) == MapThenSumSet(LAMBDA k : RecordBytes(data[k]), DOMAIN data)

\* Aliases go before stable keys, and the oldest first.
GoesBefore(data, j, k) ==
    \/ data[j].alias /\ ~data[k].alias
    \/ data[j].alias = data[k].alias /\ data[j].rank < data[k].rank

Earlier(data, S, k) == {j \in S : GoesBefore(data, j, k)}

Unreserved(store) == DOMAIN store.data \ PinnedDependencies(store)

Expendable(store) ==
    LET free == Unreserved(store)
    IN [i \in 1..Cardinality(free) |->
            CHOOSE k \in free : Cardinality(Earlier(store.data, free, k)) = i - 1]

WithoutExpired(store) ==
    Without(store.data, {k \in DOMAIN store.data : store.data[k].expired}
                            \ PinnedDependencies(store))

\* Slip: what a turn in progress has pinned is pruned like the rest.
SlipWithoutOldAliasesOfPinned(store) ==
    LET newer(k) == {j \in DOMAIN store.data : /\ store.data[j].alias
                                               /\ store.data[j].group = store.data[k].group
                                               /\ store.data[j].rank > store.data[k].rank}
    IN Without(store.data, {k \in DOMAIN store.data :
                               store.data[k].alias /\ Cardinality(newer(k)) >= MaxAliases})

WithoutOldAliases(store) ==
    LET newer(k) == {j \in DOMAIN store.data : /\ store.data[j].alias
                                               /\ store.data[j].group = store.data[k].group
                                               /\ store.data[j].rank > store.data[k].rank}
    IN Without(store.data, {k \in DOMAIN store.data :
                               store.data[k].alias /\ Cardinality(newer(k)) >= MaxAliases}
                                   \ PinnedDependencies(store))

WithoutSurplus(store) ==
    LET free == Unreserved(store)
    IN Without(store.data, {k \in free : Cardinality(Earlier(store.data, free, k))
                                            < Cardinality(DOMAIN store.data) - MaxStored})

\* pruneSerializedBytesLocked: what remains is estimated with the sizes of before, and
\* measured only when the estimate is within the limit.
WithinBytes(store) ==
    LET sizeBefore(k) == RecordBytes(store.data[k])
        drop(acc, k) ==
            IF acc.done THEN acc
            ELSE LET data     == Without(acc.data, {k})
                     estimate == acc.remaining - sizeBefore(k)
                     measured == estimate <= MaxStoreBytes
                 IN [data      |-> data,
                     remaining |-> IF measured THEN StoreBytes(data) ELSE estimate,
                     done      |-> measured /\ StoreBytes(data) <= MaxStoreBytes]
    IN IF StoreBytes(store.data) <= MaxStoreBytes THEN store.data
       ELSE FoldLeft(drop, [data |-> store.data, remaining |-> StoreBytes(store.data), done |-> FALSE],
                     Expendable(store)).data

\* Nothing changes when nothing is over a limit, so the shortcut of preparePersistLocked
\* needs no case of its own.
Prune(store) ==
    LET on(data) == [store EXCEPT !.data = data]
    IN WithinBytes(on(WithoutSurplus(on(WithoutOldAliases(on(WithoutExpired(store)))))))

---------------------------------------------------------------------------
(* Writing.                                                                *)

\* Only the order of UpdatedAt counts: the ranks are kept dense.
Dense(data) ==
    [k \in DOMAIN data |->
        [data[k] EXCEPT !.rank = Cardinality({data[j].rank : j \in DOMAIN data} \cap 0..(@ - 1))]]

Newest(data) == Max({data[k].rank + 1 : k \in DOMAIN data} \cup {1})

Stored(data, id, record) == [k \in DOMAIN data \cup {id} |-> IF k = id THEN record ELSE data[k]]

\* Slip: after a failed write only the keys that are new are taken out again.
SlipRestoredNew(data, before, changed) ==
    [k \in DOMAIN data \ (changed \ DOMAIN before) |-> data[k]]

Restored(data, before, changed) ==
    [k \in (DOMAIN data \ changed) \cup (changed \cap DOMAIN before) |->
        IF k \in changed THEN before[k] ELSE data[k]]

\* A write prunes and replaces the file, or fails and puts the changed keys back.
Persist(store, written, changed, ok) ==
    IF ok
    THEN LET kept == Dense(Prune([store EXCEPT !.data = written]))
         IN [store EXCEPT !.data = kept, !.file = kept]
    ELSE [store EXCEPT !.data = Restored(written, store.data, changed)]

\* upsertLocked as persistSession uses it: a binding without messages keeps the history.
Upsert(store, id, account, ok) ==
    LET bound  == IF id \in DOMAIN store.data
                  THEN [store.data[id] EXCEPT !.account = account, !.alias = FALSE, !.expired = FALSE]
                  ELSE Record(account, id)
        record == [bound EXCEPT !.rank = Newest(store.data)]
    IN Persist(store, Stored(store.data, id, record), {id}, ok)

\* pruneNow, of the administrator.
PruneNow(store, ok) == Persist(store, store.data, {}, ok)

Discard(store, gone, ok) ==
    LET kept == Dense(Without(store.data, gone))
    IN IF ok /\ gone # {} THEN [store EXCEPT !.data = kept, !.file = kept] ELSE store

Delete(store, id, ok) == Discard(store, {id} \cap DOMAIN store.data, ok)

DeleteByAccount(store, account, ok) ==
    Discard(store, {k \in DOMAIN store.data : store.data[k].account = account}, ok)

Pin(store, id) == [store EXCEPT !.pins[id] = @ + 1]

Unpin(store, id) == [store EXCEPT !.pins[id] = IF @ <= 1 THEN 0 ELSE @ - 1]

---------------------------------------------------------------------------
(* commitResponse.                                                         *)

\* What a request and its answer make of a history.
Continued(history, request, answer) ==
    BoundedPortableMessages(Append(MergePortableMessages(history, request), answer))

HistoryOf(data, id) == IF Readable(data, id) THEN MaterializeHistory(data, id) ELSE <<>>

\* A response's record hangs on an immutable record, never on a head that moves.
ImmutableParent(data, source, target) ==
    CASE source = target \/ source \notin DOMAIN data -> NoKey
      [] source # target /\ source \in DOMAIN data /\ data[source].alias -> source
      [] source # target /\ source \in DOMAIN data /\ ~data[source].alias ->
            IF IsPureReference(data[source]) THEN data[source].parent ELSE NoKey

\* Slip: the new response hangs on the stable head.
SlipCommittedTargetOnHead(data, source, target, request, answer) ==
    LET history == Continued(HistoryOf(data, source), request, answer)
        base    == IF target \in DOMAIN data THEN data[target]
                   ELSE IF source \in DOMAIN data THEN data[source] ELSE Record(NoAccount, target)
        made    == [base EXCEPT !.alias = source # target, !.rank = Newest(data), !.expired = FALSE]
    IN IF source = target \/ source \notin DOMAIN data THEN AsRoot(made, history)
       ELSE AsChild([made EXCEPT !.group = data[source].group], source,
                    PortableTransition(MaterializeHistory(data, source), history))

CommittedTarget(data, source, target, request, answer) ==
    LET earlier == IF source = target \/ target \notin DOMAIN data THEN HistoryOf(data, source)
                   ELSE MergePortableMessages(HistoryOf(data, source), HistoryOf(data, target))
        history == Continued(earlier, request, answer)
        base    == IF target \in DOMAIN data THEN data[target]
                   ELSE IF source \in DOMAIN data THEN data[source] ELSE Record(NoAccount, target)
        group   == IF source = target THEN base.group
                   ELSE IF source \in DOMAIN data THEN data[source].group ELSE source
        parent  == ImmutableParent(data, source, target)
        made    == [base EXCEPT !.alias = source # target \/ @,
                                !.group = group, !.rank = Newest(data), !.expired = FALSE]
    IN IF parent = NoKey THEN AsRoot(made, history)
       ELSE AsChild(made, parent, PortableTransition(MaterializeHistory(data, parent), history))

\* A stable head is a reference to its latest response.
AdvancedHead(target, record, source) ==
    [AsChild(record, target, [drop |-> 0, delta |-> <<>>]) EXCEPT !.group = source, !.alias = FALSE]

CanCommit(data, source, target, advance) ==
    /\ \A k \in {source, target} \cap DOMAIN data : Readable(data, k)
    /\ \/ source = target
       \/ source \in DOMAIN data
       \/ advance /\ target \in DOMAIN data

CommitResponse(store, source, target, request, answer, advance, ok) ==
    LET record == CommittedTarget(store.data, source, target, request, answer)
        moved  == advance /\ source # target
        stored == Stored(store.data, target, record)
    IN IF ~CanCommit(store.data, source, target, advance) THEN store
       ELSE Persist(store,
                    IF moved THEN Stored(stored, source, AdvancedHead(target, record, source)) ELSE stored,
                    {source, target}, ok)

---------------------------------------------------------------------------
(* openSessionStore: a file of an older program is brought into today's form. *)

\* The records of one account in a legacy file become a group around the oldest of them.
Regrouped(file) ==
    LET legacy(a) == {k \in DOMAIN file : file[k].group = NoKey /\ file[k].account = a}
        root(a)   == CHOOSE k \in legacy(a) : \A j \in legacy(a) : file[k].rank <= file[j].rank
    IN [k \in DOMAIN file |->
          LET r == file[k] IN
          CASE r.group # NoKey -> r
            [] r.group = NoKey /\ r.account = NoAccount -> [r EXCEPT !.group = k]
            [] OTHER -> [r EXCEPT !.group = root(r.account), !.alias = k # root(r.account)]]

GroupOf(data, k) == {j \in DOMAIN data : data[j].group = data[k].group}

\* Groups of full copies, in which an alias can be the base of the others.
HoldsCopies(data, k) ==
    /\ Cardinality(GroupOf(data, k)) >= 2
    /\ \A j \in GroupOf(data, k) : data[j].parent = NoKey /\ data[j].drop = 0 /\ data[j].delta = <<>>
    /\ \E j \in GroupOf(data, k) : data[j].alias

\* The sets of bases, an alias for every such group. The copies of one conversation were made at
\* one time, so the order of their opaque keys decides, and any alias can be first.
Bases(data) ==
    {B \in SUBSET {k \in DOMAIN data : data[k].alias /\ HoldsCopies(data, k)} :
        \A k \in DOMAIN data : HoldsCopies(data, k) => Cardinality(B \cap GroupOf(data, k)) = 1}

Compacted(data, bases) ==
    [k \in DOMAIN data |->
        IF k \in bases \/ ~HoldsCopies(data, k) THEN data[k]
        ELSE LET base == CHOOSE b \in bases \cap GroupOf(data, k) : TRUE
             IN AsChild(data[k], base, PortableTransition(data[base].messages, data[k].messages))]

\* The data a file can be opened as.
Opened(file) ==
    LET grouped == Regrouped(file)
        unpinned(data) == [data |-> data, pins |-> [k \in Keys |-> 0], file |-> file]
    IN {Dense(Prune(unpinned(Compacted(grouped, bases)))) : bases \in Bases(grouped)}
=============================================================================
