------------------------ MODULE ResponseTurnsProofs ------------------------
(***************************************************************************)
(* For every set of turns and threads, and whatever the clients, the       *)
(* administrators and the process do: the keyed lock of the Responses      *)
(* adapter serialises the turns of a thread and counts its users, and the  *)
(* session store never disagrees with its file.                            *)
(***************************************************************************)
EXTENDS ResponseTurns, FiniteSetTheorems, TLAPS

Fields == DOMAIN IdleTurn

(* Where the adapter of a turn stands with respect to the lock: before or  *)
(* after it, counted but without it, or holding it.                        *)
Outside == {"idle", "lock", "done"}
Waiting == {"trylock", "uncount"}
Inside  == {"pin", "produce", "scan", "check", "commit", "join", "unpin", "discard", "unlock"}

Shape == DOMAIN turn = Turns /\ \A t \in Turns : DOMAIN turn[t] = Fields

(* What a turn at its program counter knows of its source.                 *)
SourceOK ==
    \A t \in Turns :
        /\ turn[t].pc \in Outside \cup Waiting \cup Inside
        /\ turn[t].pc # "idle" /\ Stable(t) => turn[t].source \in Threads
        /\ turn[t].pc \in {"lock", "trylock", "uncount", "unlock"} => Stable(t)

LocksAreTyped == locks \in [Threads -> [refs : Nat, holder : Turns \cup {NoTurn}]]

(* The inductive invariant of the lock.                                    *)
LockInv == Shape /\ SourceOK /\ LocksAreTyped /\ OneWriterPerThread

-----------------------------------------------------------------------------
(* The steps, as far as the lock is concerned.                             *)

(* No request changes, whatever else happens to the turns.                 *)
SameRequests ==
    /\ Shape'
    /\ \A t \in Turns : turn'[t].source = turn[t].source /\ turn'[t].previous = turn[t].previous

(* The turn t goes on to one of pcs, and nothing else moves.               *)
Moved(t, pcs) ==
    /\ SameRequests
    /\ turn'[t].pc \in pcs
    /\ \A u \in Turns \ {t} : turn'[u].pc = turn[u].pc

LEMMA FiniteTurns == IsFiniteSet(Turns)
  BY TurnsAssumption, FS_Subset

LEMMA FieldNames ==
    Fields = {"pc", "producer", "source", "previous", "pinned", "account", "advance",
              "committed", "outlasted", "unsettled", "seen"}
  BY DEF Fields, IdleTurn

LEMMA SameStable ==
    ASSUME SameRequests, NEW t \in Turns
    PROVE  Stable(t)' <=> Stable(t)
BY DEF SameRequests, Stable

(* The turns that refer to a thread, and the one that holds it, are the    *)
(* same as long as every turn stays on its side of the lock.               *)
LEMMA Steady ==
    ASSUME LockInv, SameRequests, locks' = locks,
           \A t \in Turns : Stable(t) =>
              /\ turn'[t].pc \in Outside <=> turn[t].pc \in Outside
              /\ turn'[t].pc \in Waiting <=> turn[t].pc \in Waiting
    PROVE  OneWriterPerThread'
<1>1. ASSUME NEW k \in Threads
      PROVE  Referring(k)' = Referring(k) /\ Holding(k)' = Holding(k)
  <2>1. ASSUME NEW t \in Turns
        PROVE  /\ t \in Referring(k)' <=> t \in Referring(k)
               /\ t \in Holding(k)' <=> t \in Holding(k)
    <3>1. turn'[t].source = turn[t].source /\ (Stable(t)' <=> Stable(t))
      BY SameStable DEF SameRequests
    <3>2. t \in Referring(k)' <=> t \in Referring(k)
      BY <3>1 DEF Referring, Outside
    <3>3. t \in Holding(k)' <=> t \in Holding(k)
      BY <3>1, <3>2 DEF Holding, Referring, Waiting
    <3>4. QED
      BY <3>2, <3>3
  <2>2. Referring(k)' \subseteq Turns /\ Referring(k) \subseteq Turns
        /\ Holding(k)' \subseteq Turns /\ Holding(k) \subseteq Turns
    BY DEF Referring, Holding
  <2>3. QED
    BY <2>1, <2>2
<1>2. QED
  BY <1>1 DEF OneWriterPerThread, LockInv

(* A step that keeps to its side of the lock.                              *)
LEMMA InsideStep ==
    ASSUME LockInv, NEW t \in Turns, Moved(t, Inside \cup {"done"}), locks' = locks,
           turn[t].pc \in Inside \ {"unlock"},
           turn'[t].pc \in {"done", "unlock"} =>
              IF turn'[t].pc = "unlock" THEN Stable(t) ELSE ~Stable(t)
    PROVE  LockInv'
<1>1. SameRequests
  BY DEF Moved
<1>2. ASSUME NEW u \in Turns
      PROVE  /\ Stable(u) => /\ turn'[u].pc \in Outside <=> turn[u].pc \in Outside
                             /\ turn'[u].pc \in Waiting <=> turn[u].pc \in Waiting
             /\ turn'[u].pc \in Outside \cup Waiting \cup Inside
             /\ turn'[u].pc # "idle" /\ Stable(u)' => turn'[u].source \in Threads
             /\ turn'[u].pc \in {"lock", "trylock", "uncount", "unlock"} => Stable(u)'
  <2>1. turn'[u].source = turn[u].source /\ (Stable(u)' <=> Stable(u))
    BY <1>1, SameStable DEF SameRequests
  <2>2. CASE u = t
    <3>1. turn[t].pc \notin Outside /\ turn[t].pc \notin Waiting /\ turn[t].pc # "idle"
      BY DEF Inside, Outside, Waiting
    <3>2. turn'[t].pc \in Inside \cup {"done"}
      BY DEF Moved
    <3>3. turn'[t].pc \notin Waiting
          /\ turn'[t].pc \in Outside \cup Waiting \cup Inside
          /\ (turn'[t].pc \in Outside => turn'[t].pc = "done")
      BY <3>2 DEF Inside, Outside, Waiting
    <3>4. QED
      BY <2>1, <2>2, <3>1, <3>2, <3>3 DEF LockInv, SourceOK, Inside
  <2>3. CASE u # t
    BY <2>1, <2>3 DEF LockInv, SourceOK, Moved
  <2>4. QED
    BY <2>2, <2>3
<1>3. OneWriterPerThread'
  BY <1>1, <1>2, Steady
<1>4. SourceOK'
  BY <1>2 DEF SourceOK
<1>5. QED
  BY <1>1, <1>3, <1>4 DEF LockInv, SameRequests, LocksAreTyped

(* A step that moves no adapter.                                           *)
LEMMA ElsewhereStep ==
    ASSUME LockInv, SameRequests, locks' = locks, \A t \in Turns : turn'[t].pc = turn[t].pc
    PROVE  LockInv'
<1>1. OneWriterPerThread'
  BY Steady
<1>2. SourceOK'
  BY SameStable DEF LockInv, SourceOK, SameRequests
<1>3. QED
  BY <1>1, <1>2 DEF LockInv, SameRequests, LocksAreTyped

-----------------------------------------------------------------------------
(* The steps of an adapter outside its critical sections on the lock.      *)

LEMMA TurnExcept ==
    ASSUME LockInv, NEW t \in Turns, NEW r, turn' = [turn EXCEPT ![t] = r],
           DOMAIN r = Fields, r.source = turn[t].source, r.previous = turn[t].previous
    PROVE  /\ SameRequests /\ turn'[t] = r
           /\ \A u \in Turns \ {t} : turn'[u] = turn[u]
BY DEF LockInv, Shape, SameRequests

LEMMA GoesMoves ==
    ASSUME LockInv, NEW t \in Turns, NEW pc, Goes(t, pc)
    PROVE  SameRequests /\ turn'[t].pc = pc /\ \A u \in Turns \ {t} : turn'[u].pc = turn[u].pc
<1> DEFINE r == [turn[t] EXCEPT !.pc = pc]
<1>1. DOMAIN turn[t] = Fields
  BY DEF LockInv, Shape
<1>2. /\ DOMAIN r = Fields /\ r.source = turn[t].source /\ r.previous = turn[t].previous
      /\ r.pc = pc
  BY <1>1, FieldNames
<1>3. turn' = [turn EXCEPT ![t] = r]
  BY DEF Goes
<1> HIDE DEF r
<1>4. QED
  BY <1>2, <1>3, TurnExcept

LEMMA PinSourceStep ==
    ASSUME LockInv, NEW t \in Turns, PinSource(t)
    PROVE  LockInv'
<1>1. PICK found, unsettled, seen :
         turn' = [turn EXCEPT ![t].pc = IF turn[t].previous /\ ~found THEN "done" ELSE "produce",
                              ![t].pinned = found, ![t].unsettled = unsettled, ![t].seen = seen]
  BY DEF PinSource
<1> DEFINE pc == IF turn[t].previous /\ ~found THEN "done" ELSE "produce"
           r  == [turn[t] EXCEPT !.pc = pc, !.pinned = found, !.unsettled = unsettled,
                                 !.seen = seen]
<1>2. turn[t].pc = "pin" /\ locks' = locks /\ DOMAIN turn[t] = Fields
  BY DEF PinSource, LockInv, Shape
<1>3. turn' = [turn EXCEPT ![t] = r]
  BY <1>1
<1>4. /\ DOMAIN r = Fields /\ r.source = turn[t].source /\ r.previous = turn[t].previous
      /\ r.pc = pc
  BY <1>2, FieldNames
<1>5. pc \in Inside \cup {"done"} /\ pc # "unlock" /\ (pc = "done" => ~Stable(t))
  BY DEF Inside, Stable
<1> HIDE DEF r, pc
<1>6. /\ SameRequests /\ turn'[t] = r /\ \A u \in Turns \ {t} : turn'[u] = turn[u]
  BY <1>3, <1>4, TurnExcept
<1>7. Moved(t, Inside \cup {"done"})
  BY <1>4, <1>5, <1>6 DEF Moved
<1>8. turn[t].pc \in Inside \ {"unlock"}
  BY <1>2 DEF Inside
<1>9. QED
  BY <1>2, <1>4, <1>5, <1>6, <1>7, <1>8, InsideStep

(* The steps that move the adapter on without a look at the lock.          *)
LEMMA GoesInside ==
    ASSUME LockInv, NEW t \in Turns, NEW pc, Goes(t, pc), locks' = locks,
           turn[t].pc \in Inside \ {"unlock"}, pc \in Inside \cup {"done"},
           pc = "unlock" => Stable(t), pc = "done" => ~Stable(t)
    PROVE  LockInv'
<1>1. SameRequests /\ turn'[t].pc = pc /\ \A u \in Turns \ {t} : turn'[u].pc = turn[u].pc
  BY GoesMoves
<1>2. Moved(t, Inside \cup {"done"})
  BY <1>1 DEF Moved
<1>3. QED
  BY <1>1, <1>2, InsideStep

LEMMA ScanStep ==
    ASSUME LockInv, NEW t \in Turns,
           FinishScan(t) \/ LoseClient(t) \/ JoinProducer(t)
              \/ \E ok \in BOOLEAN : DiscardTarget(t, ok)
    PROVE  LockInv'
<1>1. \E pc : /\ Goes(t, pc) /\ pc \in Inside \cup {"done"} /\ locks' = locks
              /\ turn[t].pc \in Inside \ {"unlock"}
              /\ pc = "unlock" => Stable(t)
              /\ pc = "done" => ~Stable(t)
  BY DEF FinishScan, LoseClient, JoinProducer, DiscardTarget, DiscardTurn, AfterJoin,
     AfterDiscard, Inside
<1>2. QED
  BY <1>1, GoesInside

(* The steps that also write other fields of the turn.                     *)
LEMMA WriteStep ==
    ASSUME LockInv, NEW t \in Turns, NEW r, turn' = [turn EXCEPT ![t] = r], locks' = locks,
           DOMAIN r = Fields, r.source = turn[t].source, r.previous = turn[t].previous,
           turn[t].pc \in Inside \ {"unlock"}, r.pc \in Inside \ {"unlock"}
    PROVE  LockInv'
<1>1. /\ SameRequests /\ turn'[t] = r /\ \A u \in Turns \ {t} : turn'[u] = turn[u]
  BY TurnExcept
<1>2. Moved(t, Inside \cup {"done"}) /\ turn'[t].pc \notin {"done", "unlock"}
  BY <1>1 DEF Moved, Inside
<1>3. QED
  BY <1>2, InsideStep

LEMMA ProduceStep ==
    ASSUME LockInv, NEW t \in Turns,
           \/ StartProducer(t) \/ CheckRoute(t) \/ OutlastJoin(t) \/ UnpinSource(t)
           \/ \E ok \in BOOLEAN : Commit(t, ok)
    PROVE  LockInv'
<1>1. DOMAIN turn[t] = Fields
  BY DEF LockInv, Shape
<1>2. locks' = locks
  BY DEF StartProducer, CheckRoute, OutlastJoin, UnpinSource, Commit, CommitTurn
<1>3. CASE StartProducer(t)
  <2> DEFINE r == [turn[t] EXCEPT !.pc = "scan", !.producer = "running", !.account = active]
  <2>1. turn' = [turn EXCEPT ![t] = r] /\ turn[t].pc = "produce"
    BY <1>3 DEF StartProducer
  <2>2. /\ DOMAIN r = Fields /\ r.source = turn[t].source /\ r.previous = turn[t].previous
        /\ r.pc = "scan"
    BY <1>1, FieldNames
  <2> HIDE DEF r
  <2>3. turn[t].pc \in Inside \ {"unlock"} /\ r.pc \in Inside \ {"unlock"}
    BY <2>1, <2>2 DEF Inside
  <2>4. QED
    BY <1>2, <2>1, <2>2, <2>3, WriteStep
<1>4. CASE CheckRoute(t)
  <2>1. PICK advance : turn' = [turn EXCEPT ![t].pc = "commit", ![t].advance = advance]
    BY <1>4 DEF CheckRoute
  <2> DEFINE r == [turn[t] EXCEPT !.pc = "commit", !.advance = advance]
  <2>2. turn' = [turn EXCEPT ![t] = r] /\ turn[t].pc = "check"
    BY <1>4, <2>1, ZenonT(60) DEF CheckRoute
  <2>3. /\ DOMAIN r = Fields /\ r.source = turn[t].source /\ r.previous = turn[t].previous
        /\ r.pc = "commit"
    BY <1>1, FieldNames
  <2> HIDE DEF r
  <2>4. turn[t].pc \in Inside \ {"unlock"} /\ r.pc \in Inside \ {"unlock"}
    BY <2>2, <2>3 DEF Inside
  <2>5. QED
    BY <1>2, <2>2, <2>3, <2>4, WriteStep
<1>5. CASE OutlastJoin(t)
  <2> DEFINE r == [turn[t] EXCEPT !.pc = AfterJoin(t), !.outlasted = TRUE]
  <2>1. turn' = [turn EXCEPT ![t] = r] /\ turn[t].pc = "join"
    BY <1>5 DEF OutlastJoin
  <2>2. /\ DOMAIN r = Fields /\ r.source = turn[t].source /\ r.previous = turn[t].previous
        /\ r.pc = AfterJoin(t)
    BY <1>1, FieldNames
  <2> HIDE DEF r
  <2>3. turn[t].pc \in Inside \ {"unlock"} /\ r.pc \in Inside \ {"unlock"}
    BY <2>1, <2>2 DEF Inside, AfterJoin
  <2>4. QED
    BY <1>2, <2>1, <2>2, <2>3, WriteStep
<1>6. CASE UnpinSource(t)
  <2> DEFINE r == [turn[t] EXCEPT !.pc = "discard", !.pinned = FALSE]
  <2>1. turn' = [turn EXCEPT ![t] = r] /\ turn[t].pc = "unpin"
    BY <1>6 DEF UnpinSource
  <2>2. /\ DOMAIN r = Fields /\ r.source = turn[t].source /\ r.previous = turn[t].previous
        /\ r.pc = "discard"
    BY <1>1, FieldNames
  <2> HIDE DEF r
  <2>3. turn[t].pc \in Inside \ {"unlock"} /\ r.pc \in Inside \ {"unlock"}
    BY <2>1, <2>2 DEF Inside
  <2>4. QED
    BY <1>2, <2>1, <2>2, <2>3, WriteStep
<1>7. CASE \E ok \in BOOLEAN : Commit(t, ok)
  <2>1. PICK committed : turn' = [turn EXCEPT ![t].pc = "join", ![t].committed = committed]
    BY <1>7 DEF Commit, CommitTurn
  <2> DEFINE r == [turn[t] EXCEPT !.pc = "join", !.committed = committed]
  <2>2. turn' = [turn EXCEPT ![t] = r] /\ turn[t].pc = "commit"
    BY <1>7, <2>1, ZenonT(60) DEF Commit, CommitTurn
  <2>3. /\ DOMAIN r = Fields /\ r.source = turn[t].source /\ r.previous = turn[t].previous
        /\ r.pc = "join"
    BY <1>1, FieldNames
  <2> HIDE DEF r
  <2>4. turn[t].pc \in Inside \ {"unlock"} /\ r.pc \in Inside \ {"unlock"}
    BY <2>2, <2>3 DEF Inside
  <2>5. QED
    BY <1>2, <2>2, <2>3, <2>4, WriteStep
<1>8. QED
  BY <1>3, <1>4, <1>5, <1>6, <1>7

-----------------------------------------------------------------------------
(* The critical sections of lockStableResponseSession.                     *)

(* Who refers to a thread depends on its own step alone.                   *)
LEMMA OthersRefer ==
    ASSUME LockInv, NEW t \in Turns, SameRequests,
           \A u \in Turns \ {t} : turn'[u].pc = turn[u].pc,
           NEW k \in Threads
    PROVE  /\ Referring(k)' \ {t} = Referring(k) \ {t}
           /\ Holding(k)' \ {t} = Holding(k) \ {t}
           /\ ~(Stable(t) /\ turn[t].source = k) =>
                 /\ t \notin Referring(k) /\ t \notin Referring(k)'
                 /\ t \notin Holding(k) /\ t \notin Holding(k)'
           /\ (Stable(t) /\ turn[t].source = k) =>
                 /\ t \in Referring(k) <=> turn[t].pc \notin Outside
                 /\ t \in Referring(k)' <=> turn'[t].pc \notin Outside
                 /\ t \in Holding(k) <=> turn[t].pc \notin Outside \cup Waiting
                 /\ t \in Holding(k)' <=> turn'[t].pc \notin Outside \cup Waiting
<1>1. ASSUME NEW u \in Turns
      PROVE  turn'[u].source = turn[u].source /\ (Stable(u)' <=> Stable(u))
  BY SameStable DEF SameRequests
<1>2. ASSUME NEW u \in Turns
      PROVE  /\ u \in Referring(k) <=> Stable(u) /\ turn[u].source = k /\ turn[u].pc \notin Outside
             /\ u \in Referring(k)' <=> Stable(u) /\ turn[u].source = k /\ turn'[u].pc \notin Outside
             /\ u \in Holding(k) <=> u \in Referring(k) /\ turn[u].pc \notin Waiting
             /\ u \in Holding(k)' <=> u \in Referring(k)' /\ turn'[u].pc \notin Waiting
  <2>1. /\ u \in Referring(k) <=> Stable(u) /\ turn[u].source = k /\ turn[u].pc \notin Outside
        /\ u \in Referring(k)' <=> Stable(u)' /\ turn'[u].source = k /\ turn'[u].pc \notin Outside
    BY DEF Referring, Outside
  <2>2. /\ u \in Holding(k) <=> u \in Referring(k) /\ turn[u].pc \notin Waiting
        /\ u \in Holding(k)' <=> u \in Referring(k)' /\ turn'[u].pc \notin Waiting
    BY DEF Holding, Waiting
  <2>3. QED
    BY <1>1, <2>1, <2>2
<1>3. /\ Referring(k)' \subseteq Turns /\ Referring(k) \subseteq Turns
      /\ Holding(k)' \subseteq Turns /\ Holding(k) \subseteq Turns
  BY DEF Referring, Holding
<1>4. Referring(k)' \ {t} = Referring(k) \ {t} /\ Holding(k)' \ {t} = Holding(k) \ {t}
  BY <1>2, <1>3
<1>5. QED
  BY <1>2, <1>4

LEMMA ReferringFinite ==
    ASSUME NEW k
    PROVE  IsFiniteSet(Referring(k)) /\ IsFiniteSet(Referring(k)')
<1>1. Referring(k) \subseteq Turns /\ Referring(k)' \subseteq Turns
  BY DEF Referring
<1>2. QED
  BY <1>1, FiniteTurns, FS_Subset

LEMMA OneMore ==
    ASSUME NEW S, NEW T, IsFiniteSet(S), IsFiniteSet(T), NEW x, T \ {x} = S \ {x},
           x \in T, x \notin S
    PROVE  Cardinality(T) = Cardinality(S) + 1
<1>1. T = S \cup {x}
  OBVIOUS
<1>2. QED
  BY <1>1, FS_AddElement

(* What a section leaves to show once it has chosen its new program        *)
(* counter: the numbers and the holder of its own thread.                  *)
LEMMA SectionStep ==
    ASSUME LockInv, NEW t \in Turns, NEW pc, Goes(t, pc), Stable(t),
           turn[t].pc # "idle", pc \in Outside \cup Waiting \cup Inside, pc # "idle",
           NEW k \in Threads, turn[t].source = k,
           NEW lock \in [refs : Nat, holder : Turns \cup {NoTurn}],
           locks' = [locks EXCEPT ![k] = lock],
           lock.refs = Cardinality(Referring(k)'),
           Holding(k)' = {lock.holder} \ {NoTurn}
    PROVE  LockInv'
<1>1. SameRequests /\ turn'[t].pc = pc /\ \A u \in Turns \ {t} : turn'[u].pc = turn[u].pc
  BY GoesMoves
<1>2. k \in Threads
  OBVIOUS
<1>3. LocksAreTyped'
  BY <1>2 DEF LockInv, LocksAreTyped
<1>4. ASSUME NEW j \in Threads
      PROVE  /\ locks'[j].refs = Cardinality(Referring(j)')
             /\ Holding(j)' = {locks'[j].holder} \ {NoTurn}
  <2>1. CASE j = k
    BY <1>2, <2>1 DEF LockInv, LocksAreTyped
  <2>2. CASE j # k
    <3>1. locks'[j] = locks[j]
      BY <1>2, <2>2 DEF LockInv, LocksAreTyped
    <3>2. Referring(j)' = Referring(j) /\ Holding(j)' = Holding(j)
      <4>1. ~(Stable(t) /\ turn[t].source = j)
        BY <2>2
      <4>2. /\ Referring(j)' \ {t} = Referring(j) \ {t} /\ Holding(j)' \ {t} = Holding(j) \ {t}
            /\ t \notin Referring(j) /\ t \notin Referring(j)'
            /\ t \notin Holding(j) /\ t \notin Holding(j)'
        BY <1>1, <4>1, OthersRefer
      <4>3. QED
        BY <4>2
    <3>3. QED
      BY <3>1, <3>2 DEF LockInv, OneWriterPerThread
  <2>3. QED
    BY <2>1, <2>2
<1>5. OneWriterPerThread'
  BY <1>4 DEF OneWriterPerThread
<1>6. SourceOK'
  <2>1. ASSUME NEW u \in Turns
        PROVE  /\ turn'[u].pc \in Outside \cup Waiting \cup Inside
               /\ turn'[u].pc # "idle" /\ Stable(u)' => turn'[u].source \in Threads
               /\ turn'[u].pc \in {"lock", "trylock", "uncount", "unlock"} => Stable(u)'
    <3>1. turn'[u].source = turn[u].source /\ (Stable(u)' <=> Stable(u))
      BY <1>1, SameStable DEF SameRequests
    <3>2. CASE u = t
      BY <1>1, <1>2, <3>1, <3>2
    <3>3. CASE u # t
      BY <1>1, <3>1, <3>3 DEF LockInv, SourceOK
    <3>4. QED
      BY <3>2, <3>3
  <2>2. QED
    BY <2>1 DEF SourceOK
<1>7. QED
  BY <1>1, <1>3, <1>5, <1>6 DEF LockInv, SameRequests

LEMMA LockSections ==
    ASSUME LockInv, NEW t \in Turns,
           CountLock(t) \/ TryLock(t) \/ UncountLock(t) \/ Unlock(t)
    PROVE  LockInv'
<1>1. turn[t].pc \in {"lock", "trylock", "uncount", "unlock"}
  BY DEF CountLock, TryLock, UncountLock, Unlock
<1>2. Stable(t) /\ turn[t].source \in Threads /\ turn[t].pc # "idle"
  BY <1>1 DEF LockInv, SourceOK
<1>3. PICK k \in Threads : k = turn[t].source
  BY <1>2
<1>4. /\ locks[k] \in [refs : Nat, holder : Turns \cup {NoTurn}]
      /\ locks[k].refs = Cardinality(Referring(k))
      /\ Holding(k) = {locks[k].holder} \ {NoTurn}
      /\ IsFiniteSet(Referring(k)) /\ IsFiniteSet(Referring(k)')
      /\ NoTurn \notin Turns
  BY ReferringFinite, TurnsAssumption DEF LockInv, LocksAreTyped, OneWriterPerThread
<1>5. ASSUME NEW pc, Goes(t, pc), pc \in Outside \cup Waiting \cup Inside
      PROVE  /\ Referring(k)' \ {t} = Referring(k) \ {t}
             /\ Holding(k)' \ {t} = Holding(k) \ {t}
             /\ t \in Referring(k) <=> turn[t].pc \notin Outside
             /\ t \in Referring(k)' <=> pc \notin Outside
             /\ t \in Holding(k) <=> turn[t].pc \notin Outside \cup Waiting
             /\ t \in Holding(k)' <=> pc \notin Outside \cup Waiting
  BY <1>2, <1>3, <1>5, GoesMoves, OthersRefer
<1>6. CASE CountLock(t)
  <2> DEFINE lock == [locks[k] EXCEPT !.refs = @ + 1]
  <2>1. /\ turn[t].pc = "lock" /\ Goes(t, "trylock")
        /\ locks' = [locks EXCEPT ![k] = lock]
    BY <1>3, <1>6 DEF CountLock
  <2>2. /\ "trylock" \in Waiting /\ "trylock" \notin Outside /\ "lock" \in Outside
    BY DEF Waiting, Outside
  <2>3. /\ t \notin Referring(k) /\ t \in Referring(k)'
        /\ t \notin Holding(k) /\ t \notin Holding(k)'
    BY <1>5, <2>1, <2>2
  <2>4. Cardinality(Referring(k)') = Cardinality(Referring(k)) + 1
    BY <1>4, <1>5, <2>1, <2>2, <2>3, OneMore
  <2>5. Holding(k)' = Holding(k)
    BY <1>5, <2>1, <2>2, <2>3
  <2>6. lock \in [refs : Nat, holder : Turns \cup {NoTurn}] /\ lock.refs = locks[k].refs + 1
        /\ lock.holder = locks[k].holder
    BY <1>4
  <2> HIDE DEF lock
  <2>7. lock.refs = Cardinality(Referring(k)') /\ Holding(k)' = {lock.holder} \ {NoTurn}
    BY <1>4, <2>4, <2>5, <2>6
  <2>8. QED
    BY <1>2, <1>3, <2>1, <2>2, <2>6, <2>7, SectionStep
<1>7. CASE UncountLock(t)
  <2> DEFINE lock == [locks[k] EXCEPT !.refs = @ - 1]
  <2>1. /\ turn[t].pc = "uncount" /\ Goes(t, "done")
        /\ locks' = [locks EXCEPT ![k] = lock]
    BY <1>3, <1>7 DEF UncountLock
  <2>2. "uncount" \in Waiting /\ "uncount" \notin Outside /\ "done" \in Outside
    BY DEF Waiting, Outside
  <2>3. /\ t \in Referring(k) /\ t \notin Referring(k)'
        /\ t \notin Holding(k) /\ t \notin Holding(k)'
    BY <1>5, <2>1, <2>2
  <2>4. Cardinality(Referring(k)) = Cardinality(Referring(k)') + 1
    BY <1>4, <1>5, <2>1, <2>2, <2>3, OneMore
  <2>5. Holding(k)' = Holding(k)
    BY <1>5, <2>1, <2>2, <2>3
  <2>6. Cardinality(Referring(k)') \in Nat
    BY <1>4, FS_CardinalityType
  <2>7. lock \in [refs : Nat, holder : Turns \cup {NoTurn}] /\ lock.refs = locks[k].refs - 1
        /\ lock.holder = locks[k].holder
    BY <1>4, <2>4, <2>6
  <2> HIDE DEF lock
  <2>8. lock.refs = Cardinality(Referring(k)') /\ Holding(k)' = {lock.holder} \ {NoTurn}
    BY <1>4, <2>4, <2>5, <2>6, <2>7
  <2>9. QED
    BY <1>2, <1>3, <2>1, <2>2, <2>7, <2>8, SectionStep
<1>8. CASE TryLock(t) /\ locks[k].holder = NoTurn
  <2> DEFINE lock == [locks[k] EXCEPT !.holder = t]
  <2>1. /\ turn[t].pc = "trylock" /\ Goes(t, "pin")
        /\ locks' = [locks EXCEPT ![k] = lock]
    BY <1>3, <1>8 DEF TryLock
  <2>2. /\ "trylock" \in Waiting /\ "trylock" \notin Outside
        /\ "pin" \in Inside /\ "pin" \notin Outside \cup Waiting
    BY DEF Waiting, Outside, Inside
  <2>3. /\ t \in Referring(k) /\ t \in Referring(k)' /\ t \in Holding(k)'
    BY <1>5, <2>1, <2>2
  <2>4. Referring(k)' = Referring(k)
    BY <1>5, <2>1, <2>2, <2>3
  <2>5. Holding(k) = {}
    BY <1>4, <1>8
  <2>6. Holding(k)' = {t}
    BY <1>5, <2>1, <2>2, <2>3, <2>5
  <2>7. lock \in [refs : Nat, holder : Turns \cup {NoTurn}] /\ lock.refs = locks[k].refs
        /\ lock.holder = t
    BY <1>4
  <2> HIDE DEF lock
  <2>8. lock.refs = Cardinality(Referring(k)') /\ Holding(k)' = {lock.holder} \ {NoTurn}
    BY <1>4, <2>4, <2>6, <2>7
  <2>9. QED
    BY <1>2, <1>3, <2>1, <2>2, <2>7, <2>8, SectionStep
<1>9. CASE TryLock(t) /\ locks[k].holder # NoTurn
  <2>1. /\ turn[t].pc = "trylock" /\ Goes(t, "uncount") /\ locks' = locks
    BY <1>3, <1>9 DEF TryLock
  <2>2. "trylock" \in Waiting /\ "uncount" \in Waiting
        /\ "trylock" \notin Outside /\ "uncount" \notin Outside
    BY DEF Waiting, Outside
  <2>3. Referring(k)' = Referring(k) /\ Holding(k)' = Holding(k)
    BY <1>5, <2>1, <2>2
  <2>4. locks' = [locks EXCEPT ![k] = locks[k]]
    BY <2>1 DEF LockInv, LocksAreTyped
  <2> DEFINE lock == locks[k]
  <2>5. /\ lock \in [refs : Nat, holder : Turns \cup {NoTurn}]
        /\ locks' = [locks EXCEPT ![k] = lock]
        /\ lock.refs = Cardinality(Referring(k)') /\ Holding(k)' = {lock.holder} \ {NoTurn}
    BY <1>4, <2>3, <2>4
  <2> HIDE DEF lock
  <2>6. QED
    BY <1>2, <1>3, <2>1, <2>2, <2>5, SectionStep
<1>10. CASE Unlock(t)
  <2> DEFINE lock == [locks[k] EXCEPT !.holder = NoTurn]
  <2>1. /\ turn[t].pc = "unlock" /\ Goes(t, "uncount")
        /\ locks' = [locks EXCEPT ![k] = lock]
    BY <1>3, <1>10 DEF Unlock
  <2>2. /\ "uncount" \in Waiting /\ "uncount" \notin Outside
        /\ "unlock" \in Inside /\ "unlock" \notin Outside \cup Waiting
    BY DEF Waiting, Outside, Inside
  <2>3. /\ t \in Referring(k) /\ t \in Referring(k)'
        /\ t \in Holding(k) /\ t \notin Holding(k)'
    BY <1>5, <2>1, <2>2
  <2>4. Referring(k)' = Referring(k)
    BY <1>5, <2>1, <2>2, <2>3
  <2>5. Holding(k) = {t}
    BY <1>4, <2>3
  <2>6. Holding(k)' = {}
    BY <1>5, <2>1, <2>2, <2>3, <2>5
  <2>7. lock \in [refs : Nat, holder : Turns \cup {NoTurn}] /\ lock.refs = locks[k].refs
        /\ lock.holder = NoTurn
    BY <1>4
  <2> HIDE DEF lock
  <2>8. lock.refs = Cardinality(Referring(k)') /\ Holding(k)' = {lock.holder} \ {NoTurn}
    BY <1>4, <2>4, <2>6, <2>7
  <2>9. QED
    BY <1>2, <1>3, <2>1, <2>2, <2>7, <2>8, SectionStep
<1>11. QED
  BY <1>6, <1>7, <1>8, <1>9, <1>10

-----------------------------------------------------------------------------
(* Arrivals, the surroundings, crashes.                                    *)

LEMMA ArriveStep ==
    ASSUME LockInv, NEW t \in Turns, NEW source, NEW previous \in BOOLEAN,
           Arrive(t, source, previous)
    PROVE  LockInv'
<1> DEFINE pc == CASE source = t -> "produce" [] previous -> "pin" [] OTHER -> "lock"
           r  == [IdleTurn EXCEPT !.source = source, !.previous = previous, !.pc = pc]
<1>1. /\ turn[t].pc = "idle" /\ locks' = locks /\ turn' = [turn EXCEPT ![t] = r]
      /\ ~previous => source \in Threads \cup {t}
  BY DEF Arrive
<1>2. /\ pc \in {"produce", "pin", "lock"}
      /\ pc # "lock" => source = t \/ previous
      /\ pc = "lock" => source # t /\ ~previous
  OBVIOUS
<1>3. DOMAIN r = Fields /\ r.source = source /\ r.previous = previous /\ r.pc = pc
  BY FieldNames DEF IdleTurn
<1> HIDE DEF r, pc
<1>4. /\ Shape' /\ turn'[t] = r /\ \A u \in Turns \ {t} : turn'[u] = turn[u]
  BY <1>1, <1>3 DEF LockInv, Shape
<1>5. /\ Stable(t)' <=> pc = "lock"
      /\ \A u \in Turns \ {t} : Stable(u)' <=> Stable(u)
  BY <1>2, <1>3, <1>4 DEF Stable
<1>6. SourceOK'
  <2>1. ASSUME NEW u \in Turns
        PROVE  /\ turn'[u].pc \in Outside \cup Waiting \cup Inside
               /\ turn'[u].pc # "idle" /\ Stable(u)' => turn'[u].source \in Threads
               /\ turn'[u].pc \in {"lock", "trylock", "uncount", "unlock"} => Stable(u)'
    <3>1. CASE u = t
      <4>1. pc \in Outside \cup Waiting \cup Inside
        BY <1>2 DEF Outside, Inside
      <4>2. QED
        BY <1>1, <1>2, <1>3, <1>4, <1>5, <3>1, <4>1
    <3>2. CASE u # t
      BY <1>4, <1>5, <3>2 DEF LockInv, SourceOK
    <3>3. QED
      BY <3>1, <3>2
  <2>2. QED
    BY <2>1 DEF SourceOK
<1>7. ASSUME NEW k \in Threads
      PROVE  Referring(k)' = Referring(k) /\ Holding(k)' = Holding(k)
  <2>1. ASSUME NEW u \in Turns
        PROVE  /\ u \in Referring(k)' <=> u \in Referring(k)
               /\ u \in Holding(k)' <=> u \in Holding(k)
    <3>1. CASE u = t
      <4>1. t \notin Referring(k)
        BY <1>1 DEF Referring
      <4>2. t \notin Referring(k)'
        BY <1>3, <1>4, <1>5 DEF Referring
      <4>3. QED
        BY <3>1, <4>1, <4>2 DEF Holding
    <3>2. CASE u # t
      <4>1. u \in Referring(k)' <=> u \in Referring(k)
        BY <1>4, <1>5, <3>2 DEF Referring
      <4>2. QED
        BY <1>4, <3>2, <4>1 DEF Holding
    <3>3. QED
      BY <3>1, <3>2
  <2>2. /\ Referring(k)' \subseteq Turns /\ Referring(k) \subseteq Turns
        /\ Holding(k)' \subseteq Turns /\ Holding(k) \subseteq Turns
    BY DEF Referring, Holding
  <2>3. QED
    BY <2>1, <2>2
<1>8. OneWriterPerThread'
  BY <1>1, <1>7 DEF LockInv, OneWriterPerThread
<1>9. QED
  BY <1>1, <1>4, <1>6, <1>8 DEF LockInv, LocksAreTyped

LEMMA ForgottenTurns ==
    ASSUME LockInv, NEW gone, turn' = Forgotten(gone)
    PROVE  SameRequests /\ \A t \in Turns : turn'[t].pc = turn[t].pc
<1>1. ASSUME NEW t \in Turns
      PROVE  /\ DOMAIN turn'[t] = Fields /\ turn'[t].pc = turn[t].pc
             /\ turn'[t].source = turn[t].source /\ turn'[t].previous = turn[t].previous
  <2> DEFINE r == [turn[t] EXCEPT !.unsettled = TRUE]
  <2>1. DOMAIN turn[t] = Fields
    BY DEF LockInv, Shape
  <2>2. /\ DOMAIN r = Fields /\ r.pc = turn[t].pc /\ r.source = turn[t].source
        /\ r.previous = turn[t].previous
    BY <2>1, FieldNames
  <2>3. turn'[t] = r \/ turn'[t] = turn[t]
    BY DEF Forgotten
  <2> HIDE DEF r
  <2>4. QED
    BY <2>1, <2>2, <2>3
<1>2. DOMAIN turn' = Turns
  BY DEF Forgotten
<1>3. QED
  BY <1>1, <1>2 DEF SameRequests, Shape

(* The chat handler writes down how it ended.                              *)
LEMMA ProducerTurns ==
    ASSUME LockInv, NEW t \in Turns, NEW how, turn' = [turn EXCEPT ![t].producer = how]
    PROVE  SameRequests /\ \A u \in Turns : turn'[u].pc = turn[u].pc
<1> DEFINE r == [turn[t] EXCEPT !.producer = how]
<1>1. turn' = [turn EXCEPT ![t] = r] /\ DOMAIN turn[t] = Fields
  BY DEF LockInv, Shape
<1>2. /\ DOMAIN r = Fields /\ r.source = turn[t].source /\ r.previous = turn[t].previous
      /\ r.pc = turn[t].pc
  BY <1>1, FieldNames
<1> HIDE DEF r
<1>3. /\ SameRequests /\ turn'[t] = r /\ \A u \in Turns \ {t} : turn'[u] = turn[u]
  BY <1>1, <1>2, TurnExcept
<1>4. QED
  BY <1>2, <1>3

LEMMA SurroundingsStep ==
    ASSUME LockInv, \/ Surroundings /\ ~Crash
                    \/ \E k \in Chats, ok \in BOOLEAN : Chat(k, ok)
                    \/ \E t \in Turns : Producer(t)
                    \/ UNCHANGED vars
    PROVE  LockInv'
<1>1. locks' = locks
  BY DEF Surroundings, DeleteConversation, Expire, DeleteAccountSessions, Rotate,
     PruneSessionCache, Boot, Chat, Producer, FailProducer, BindTarget, BindTurn, vars
<1>2. \/ turn' = turn
      \/ \E gone : turn' = Forgotten(gone)
      \/ \E t \in Turns : \E how : turn' = [turn EXCEPT ![t].producer = how]
  BY DEF Surroundings, DeleteConversation, Expire, DeleteAccountSessions, Rotate,
     PruneSessionCache, Boot, Chat, Producer, FailProducer, BindTarget, BindTurn, vars
<1>3. SameRequests /\ \A t \in Turns : turn'[t].pc = turn[t].pc
  <2>1. CASE turn' = turn
    BY <2>1 DEF LockInv, Shape, SameRequests
  <2>2. QED
    BY <1>2, <2>1, ForgottenTurns, ProducerTurns
<1>4. QED
  BY <1>1, <1>3, ElsewhereStep

(* After a crash no turn refers to any thread.                             *)
LEMMA CrashStep ==
    ASSUME LockInv, Crash
    PROVE  LockInv'
<1>1. ASSUME NEW t \in Turns
      PROVE  /\ DOMAIN turn'[t] = Fields
             /\ turn'[t].source = turn[t].source /\ turn'[t].previous = turn[t].previous
             /\ turn'[t].pc = IF turn[t].pc = "idle" THEN "idle" ELSE "done"
  <2> DEFINE r == [turn[t] EXCEPT !.pc = "done", !.producer = "off", !.pinned = FALSE]
  <2>1. DOMAIN turn[t] = Fields
    BY DEF LockInv, Shape
  <2>2. /\ DOMAIN r = Fields /\ r.pc = "done" /\ r.source = turn[t].source
        /\ r.previous = turn[t].previous
    BY <2>1, FieldNames
  <2>3. turn'[t] = IF turn[t].pc = "idle" THEN turn[t] ELSE r
    BY DEF Crash
  <2> HIDE DEF r
  <2>4. QED
    BY <2>1, <2>2, <2>3
<1>2. SameRequests
  BY <1>1 DEF SameRequests, Shape, Crash
<1>3. \A t \in Turns : turn'[t].pc \in Outside
  BY <1>1 DEF Outside
<1>4. LocksAreTyped' /\ OneWriterPerThread'
  <2>1. locks' = [k \in Threads |-> FreeLock]
    BY DEF Crash
  <2>2. ASSUME NEW k \in Threads PROVE Referring(k)' = {} /\ Holding(k)' = {}
    BY <1>3 DEF Referring, Holding, Outside
  <2>3. Cardinality({}) = 0
    BY FS_EmptySet
  <2>4. QED
    BY <2>1, <2>2, <2>3 DEF OneWriterPerThread, LocksAreTyped, FreeLock
<1>5. SourceOK'
  BY <1>1, <1>2, SameStable DEF LockInv, SourceOK, Outside
<1>6. QED
  BY <1>2, <1>4, <1>5 DEF LockInv, SameRequests

-----------------------------------------------------------------------------
(* The theorem of the lock.                                                *)

LEMMA InitLocks == Init => LockInv
<1> SUFFICES ASSUME Init PROVE LockInv
  OBVIOUS
<1>1. turn = [t \in Turns |-> IdleTurn] /\ locks = [k \in Threads |-> FreeLock]
  BY DEF Init
<1>2. Shape
  BY <1>1 DEF Shape, Fields
<1>3. \A t \in Turns : turn[t].pc = "idle"
  BY <1>1 DEF IdleTurn
<1>4. SourceOK
  BY <1>3 DEF SourceOK, Outside
<1>5. ASSUME NEW k \in Threads PROVE Referring(k) = {} /\ Holding(k) = {}
  BY <1>3 DEF Referring, Holding
<1>6. LocksAreTyped /\ OneWriterPerThread
  BY <1>1, <1>5, FS_EmptySet DEF LocksAreTyped, OneWriterPerThread, FreeLock
<1>7. QED
  BY <1>2, <1>4, <1>6 DEF LockInv

LEMMA StepLocks == LockInv /\ [Next]_<<vars, histories>> => LockInv'
<1> SUFFICES ASSUME LockInv, [Next]_<<vars, histories>> PROVE LockInv'
  OBVIOUS
<1>1. CASE Clients
  BY <1>1, ArriveStep, ScanStep, ProduceStep, SurroundingsStep DEF Clients
<1>2. CASE Surroundings
  BY <1>2, SurroundingsStep, CrashStep
<1>3. CASE \E t \in Turns : Adapter(t) \/ Producer(t)
  BY <1>3, LockSections, PinSourceStep, ScanStep, ProduceStep, SurroundingsStep
     DEF Adapter, Local
<1>4. CASE UNCHANGED <<vars, histories>>
  BY <1>4, SurroundingsStep
<1>5. QED
  BY <1>1, <1>2, <1>3, <1>4 DEF Next

(* Turns of one stable thread exclude each other from the reservation of   *)
(* the thread to the end of the clean-up (lockStableResponseSession), and  *)
(* an entry of the lock table counts exactly the turns that refer to it:   *)
(* it is deleted neither under a holder nor never.                         *)
THEOREM ThreadsHaveOneWriter == Spec => []OneWriterPerThread
<1>1. LockInv => OneWriterPerThread
  BY DEF LockInv
<1>2. QED
  BY <1>1, InitLocks, StepLocks, PTL DEF Spec

-----------------------------------------------------------------------------
(* The store and its file.                                                 *)

IsData(f) == f = [k \in DOMAIN f |-> f[k]]

StoreShape(S) == DOMAIN S = {"data", "pins", "file"} /\ S = [f \in DOMAIN S |-> S[f]]

(* The store as it is between two critical sections of a running process.  *)
InMemoryAndOnFile(S) == StoreShape(S) /\ S.data = S.file /\ IsData(S.data)

LEMMA DenseIsData == ASSUME NEW data PROVE IsData(Dense(data))
  BY DEF IsData, Dense

(* The file is replaced by what memory then holds.                         *)
LEMMA WrittenStore ==
    ASSUME NEW S, StoreShape(S), NEW data
    PROVE  InMemoryAndOnFile([S EXCEPT !.data = Dense(data), !.file = Dense(data)])
<1> DEFINE d == Dense(data)
           T == [S EXCEPT !.data = d, !.file = d]
<1>1. IsData(d)
  BY DenseIsData
<1> HIDE DEF d
<1>2. T.data = d /\ T.file = d /\ StoreShape(T)
  BY DEF StoreShape
<1> HIDE DEF T
<1>3. InMemoryAndOnFile(T)
  BY <1>1, <1>2 DEF InMemoryAndOnFile
<1>4. QED
  BY <1>3 DEF T, d

(* A failed write puts back every key that it had changed.                 *)
LEMMA RestoredIsBefore ==
    ASSUME NEW before, IsData(before), NEW written, NEW changed,
           DOMAIN written \ changed = DOMAIN before \ changed,
           \A k \in DOMAIN written \ changed : written[k] = before[k]
    PROVE  Restored(written, before, changed) = before
<1> DEFINE f == Restored(written, before, changed)
<1>1. f = [k \in DOMAIN before |-> before[k]]
  <2>1. (DOMAIN written \ changed) \cup (changed \cap DOMAIN before) = DOMAIN before
    OBVIOUS
  <2>2. f = [k \in DOMAIN before |-> IF k \in changed THEN before[k] ELSE written[k]]
    BY <2>1 DEF Restored
  <2>3. \A k \in DOMAIN before : (IF k \in changed THEN before[k] ELSE written[k]) = before[k]
    OBVIOUS
  <2> HIDE DEF f
  <2>4. QED
    BY <2>2, <2>3
<1>2. QED
  BY <1>1 DEF IsData

LEMMA PersistAgrees ==
    ASSUME NEW S, InMemoryAndOnFile(S), NEW written, NEW changed, NEW ok \in BOOLEAN,
           DOMAIN written \ changed = DOMAIN S.data \ changed,
           \A k \in DOMAIN written \ changed : written[k] = S.data[k]
    PROVE  InMemoryAndOnFile(Persist(S, written, changed, ok))
<1>1. CASE ok
  <2> DEFINE data == Prune([S EXCEPT !.data = written])
  <2>1. Persist(S, written, changed, ok) = [S EXCEPT !.data = Dense(data), !.file = Dense(data)]
    BY <1>1 DEF Persist
  <2> HIDE DEF data
  <2>2. StoreShape(S)
    BY DEF InMemoryAndOnFile
  <2>3. InMemoryAndOnFile([S EXCEPT !.data = Dense(data), !.file = Dense(data)])
    BY <2>2, WrittenStore
  <2>4. QED
    BY <2>1, <2>3
<1>2. CASE ~ok
  <2>1. Persist(S, written, changed, ok)
           = [S EXCEPT !.data = Restored(written, S.data, changed)]
    BY <1>2 DEF Persist
  <2>2. Restored(written, S.data, changed) = S.data
    BY RestoredIsBefore DEF InMemoryAndOnFile
  <2> DEFINE T == [S EXCEPT !.data = S.data]
  <2>3. T.data = S.data /\ T.file = S.file /\ StoreShape(T)
    BY DEF InMemoryAndOnFile, StoreShape
  <2>4. Persist(S, written, changed, ok) = T
    BY <2>1, <2>2
  <2> HIDE DEF T
  <2>5. InMemoryAndOnFile(T)
    BY <2>3 DEF InMemoryAndOnFile
  <2>6. QED
    BY <2>4, <2>5
<1>3. QED
  BY <1>1, <1>2

LEMMA UpsertAgrees ==
    ASSUME NEW S, InMemoryAndOnFile(S), NEW id, NEW account, NEW ok \in BOOLEAN
    PROVE  InMemoryAndOnFile(Upsert(S, id, account, ok))
<1>1. PICK record : Upsert(S, id, account, ok)
                       = Persist(S, Stored(S.data, id, record), {id}, ok)
  BY DEF Upsert
<1> DEFINE written == Stored(S.data, id, record)
<1>2. /\ DOMAIN written \ {id} = DOMAIN S.data \ {id}
      /\ \A k \in DOMAIN written \ {id} : written[k] = S.data[k]
  BY DEF Stored
<1> HIDE DEF written
<1>3. InMemoryAndOnFile(Persist(S, written, {id}, ok))
  BY <1>2, PersistAgrees
<1>4. QED
  BY <1>1, <1>3 DEF written

LEMMA CommitAgrees ==
    ASSUME NEW S, InMemoryAndOnFile(S), NEW source, NEW target, NEW request, NEW answer,
           NEW advance, NEW ok \in BOOLEAN
    PROVE  InMemoryAndOnFile(CommitResponse(S, source, target, request, answer, advance, ok))
<1>1. PICK record, head :
        LET stored == Stored(S.data, target, record)
        IN  CommitResponse(S, source, target, request, answer, advance, ok)
               \in {S, Persist(S, stored, {source, target}, ok),
                    Persist(S, Stored(stored, source, head), {source, target}, ok)}
  BY DEF CommitResponse
<1> DEFINE stored == Stored(S.data, target, record)
           moved  == Stored(stored, source, head)
<1>2. /\ DOMAIN stored = DOMAIN S.data \cup {target}
      /\ \A k \in DOMAIN stored \ {target} : stored[k] = S.data[k]
  BY DEF Stored
<1>3. DOMAIN moved = DOMAIN stored \cup {source}
      /\ \A k \in DOMAIN moved \ {source} : moved[k] = stored[k]
  <2> HIDE DEF stored
  <2>1. QED
    BY DEF Stored
<1>4. CommitResponse(S, source, target, request, answer, advance, ok)
         \in {S, Persist(S, stored, {source, target}, ok), Persist(S, moved, {source, target}, ok)}
  BY <1>1
<1> HIDE DEF stored, moved
<1>5. /\ InMemoryAndOnFile(Persist(S, stored, {source, target}, ok))
      /\ InMemoryAndOnFile(Persist(S, moved, {source, target}, ok))
  BY <1>2, <1>3, PersistAgrees
<1>6. QED
  BY <1>4, <1>5

LEMMA DiscardAgrees ==
    ASSUME NEW S, InMemoryAndOnFile(S), NEW gone, NEW ok \in BOOLEAN
    PROVE  InMemoryAndOnFile(Discard(S, gone, ok))
<1> DEFINE data == Without(S.data, gone)
<1>1. Discard(S, gone, ok) \in {[S EXCEPT !.data = Dense(data), !.file = Dense(data)], S}
  BY DEF Discard
<1> HIDE DEF data
<1>2. QED
  BY <1>1, WrittenStore, ZenonT(60) DEF InMemoryAndOnFile

LEMMA PinsAgree ==
    ASSUME NEW S, InMemoryAndOnFile(S), NEW id
    PROVE  InMemoryAndOnFile(Pin(S, id)) /\ InMemoryAndOnFile(Unpin(S, id))
BY DEF InMemoryAndOnFile, StoreShape, Pin, Unpin

(* The inductive invariant of the store: a process that does not run has   *)
(* no turn under way.                                                      *)
StoreInv ==
    /\ StoreShape(store)
    /\ up => InMemoryAndOnFile(store)
    /\ ~up => \A t \in Turns : turn[t].pc \in {"idle", "done"}

LEMMA TurnStores ==
    ASSUME StoreInv, up, NEW t \in Turns,
           \/ PinSource(t) \/ UnpinSource(t)
           \/ \E ok \in BOOLEAN : Commit(t, ok) \/ DiscardTarget(t, ok) \/ BindTarget(t, ok)
    PROVE  InMemoryAndOnFile(store')
<1>1. InMemoryAndOnFile(store)
  BY DEF StoreInv
<1>2. CASE PinSource(t) \/ UnpinSource(t)
  <2>1. store' \in {store, Pin(store, turn[t].source), Unpin(store, turn[t].source)}
    BY <1>2 DEF PinSource, UnpinSource
  <2>2. QED
    BY <1>1, <2>1, PinsAgree
<1>3. ASSUME NEW ok \in BOOLEAN, Commit(t, ok) PROVE InMemoryAndOnFile(store')
  BY <1>1, <1>3, CommitAgrees DEF Commit
<1>4. ASSUME NEW ok \in BOOLEAN, DiscardTarget(t, ok) PROVE InMemoryAndOnFile(store')
  BY <1>1, <1>4, DiscardAgrees DEF DiscardTarget, Delete
<1>5. ASSUME NEW ok \in BOOLEAN, BindTarget(t, ok) PROVE InMemoryAndOnFile(store')
  BY <1>1, <1>5, UpsertAgrees DEF BindTarget
<1>6. QED
  BY <1>2, <1>3, <1>4, <1>5

LEMMA SurroundingStores ==
    ASSUME StoreInv, up,
           \/ Surroundings /\ ~Crash
           \/ \E k \in Chats, ok \in BOOLEAN : Chat(k, ok)
    PROVE  InMemoryAndOnFile(store')
<1>1. InMemoryAndOnFile(store)
  BY DEF StoreInv
<1>2. ASSUME NEW k \in Chats, NEW ok \in BOOLEAN, Chat(k, ok) PROVE InMemoryAndOnFile(store')
  BY <1>1, <1>2, UpsertAgrees DEF Chat
<1>3. CASE \E k \in Keys : DeleteConversation(k)
  BY <1>1, <1>3, DiscardAgrees DEF DeleteConversation, Delete
<1>4. CASE \E a \in Accounts : DeleteAccountSessions(a)
  BY <1>1, <1>4, DiscardAgrees DEF DeleteAccountSessions, DeleteByAccount
<1>5. CASE PruneSessionCache
  BY <1>1, <1>5, PersistAgrees DEF PruneSessionCache, PruneNow
<1>6. CASE \E k \in Keys : Expire(k)
  <2>1. PICK k \in Keys : Expire(k)
    BY <1>6
  <2> DEFINE aged == [j \in DOMAIN store.data |->
                        [store.data[j] EXCEPT !.expired = @ \/ store.data[j].rank <= store.data[k].rank]]
             T    == [store EXCEPT !.data = aged, !.file = aged]
  <2>2. store' = T
    BY <1>1, <2>1 DEF Expire, InMemoryAndOnFile
  <2>3. IsData(aged)
    BY DEF IsData
  <2> HIDE DEF aged
  <2>4. T.data = aged /\ T.file = aged /\ StoreShape(T)
    BY <1>1 DEF InMemoryAndOnFile, StoreShape
  <2> HIDE DEF T
  <2>5. QED
    BY <2>2, <2>3, <2>4 DEF InMemoryAndOnFile
<1>7. CASE (\E a \in Accounts : Rotate(a)) \/ Boot
  BY <1>1, <1>7 DEF Rotate, Boot
<1>8. QED
  BY <1>2, <1>3, <1>4, <1>5, <1>6, <1>7 DEF Surroundings

(* Whatever the file held, a start writes back what it keeps of it.        *)
LEMMA BootStore ==
    ASSUME StoreInv, Boot
    PROVE  StoreInv'
<1>1. PICK data \in Opened(store.file) : store' = [store EXCEPT !.data = data, !.file = data]
  BY DEF Boot
<1>2. PICK d : data = Dense(d)
  BY <1>1 DEF Opened
<1>3. StoreShape(store) /\ up'
  BY DEF StoreInv, Boot
<1>4. InMemoryAndOnFile([store EXCEPT !.data = Dense(d), !.file = Dense(d)])
  BY <1>3, WrittenStore
<1>5. InMemoryAndOnFile(store')
  BY <1>1, <1>2, <1>4
<1>6. QED
  BY <1>3, <1>5 DEF StoreInv, InMemoryAndOnFile

LEMMA CrashStore ==
    ASSUME LockInv, StoreInv, Crash
    PROVE  StoreInv'
<1>1. ASSUME NEW t \in Turns PROVE turn'[t].pc \in {"idle", "done"}
  <2> DEFINE r == [turn[t] EXCEPT !.pc = "done", !.producer = "off", !.pinned = FALSE]
  <2>1. DOMAIN turn[t] = Fields
    BY DEF LockInv, Shape
  <2>2. r.pc = "done"
    BY <2>1, FieldNames
  <2>3. turn'[t] = IF turn[t].pc = "idle" THEN turn[t] ELSE r
    BY DEF Crash
  <2> HIDE DEF r
  <2>4. QED
    BY <2>2, <2>3
<1>2. StoreShape(store')
  BY DEF Crash, StoreInv, StoreShape
<1>3. QED
  BY <1>1, <1>2 DEF StoreInv, Crash

LEMMA StepStores ==
    ASSUME LockInv, StoreInv, [Next]_<<vars, histories>>
    PROVE  StoreInv'
<1>1. CASE Crash
  BY <1>1, CrashStore
<1>2. CASE Boot
  BY <1>2, BootStore
<1>3. CASE UNCHANGED <<vars, histories>>
  BY <1>3 DEF vars, StoreInv
<1>4. CASE up /\ Next /\ ~Crash /\ ~Boot
  <2>1. up'
    BY <1>4, ZenonT(60) DEF Next, Clients, Surroundings, Adapter, Producer, Local, Arrive, LoseClient,
       OutlastJoin, Chat, DeleteConversation, Expire, DeleteAccountSessions, Rotate,
       PruneSessionCache, CountLock, TryLock, UncountLock, PinSource, StartProducer,
       FinishScan, CheckRoute, JoinProducer, UnpinSource, Unlock, Commit, CommitTurn,
       DiscardTarget, DiscardTurn, FailProducer, BindTarget, BindTurn
  <2>2. CASE store' = store
    BY <1>4, <2>1, <2>2 DEF StoreInv
  <2>3. CASE \/ Surroundings
             \/ \E k \in Chats, ok \in BOOLEAN : Chat(k, ok)
    BY <1>4, <2>1, <2>3, SurroundingStores DEF StoreInv, InMemoryAndOnFile
  <2>4. CASE \E t \in Turns :
                \/ PinSource(t) \/ UnpinSource(t)
                \/ \E ok \in BOOLEAN : Commit(t, ok) \/ DiscardTarget(t, ok) \/ BindTarget(t, ok)
    BY <1>4, <2>1, <2>4, TurnStores DEF StoreInv, InMemoryAndOnFile
  <2>5. CASE \E t \in Turns :
                \/ \E source \in Keys, previous \in BOOLEAN : Arrive(t, source, previous)
                \/ LoseClient(t) \/ OutlastJoin(t)
                \/ CountLock(t) \/ TryLock(t) \/ UncountLock(t) \/ StartProducer(t)
                \/ FinishScan(t) \/ CheckRoute(t) \/ JoinProducer(t) \/ Unlock(t)
                \/ FailProducer(t)
    BY <2>2, <2>5, ZenonT(60) DEF Arrive, LoseClient, OutlastJoin, CountLock, TryLock, UncountLock,
       StartProducer, FinishScan, CheckRoute, JoinProducer, Unlock, FailProducer
  <2>6. QED
    BY <1>4, <2>3, <2>4, <2>5, SMTT(30) DEF Next, Clients, Adapter, Local, Producer
<1>5. CASE ~up /\ Next /\ ~Crash /\ ~Boot
  <2>1. \A t \in Turns : turn[t].pc \in {"idle", "done"}
    BY <1>5 DEF StoreInv
  <2>2. ~Clients /\ ~Surroundings
    BY <1>5, <2>1, ZenonT(60) DEF Clients, Surroundings, Arrive, LoseClient, OutlastJoin, Chat,
       DeleteConversation, Expire, DeleteAccountSessions, Rotate, PruneSessionCache
  <2>3. \A t \in Turns : ~Adapter(t) /\ ~Producer(t)
    BY <1>5, <2>1 DEF Adapter, Producer, Local, CountLock, TryLock, UncountLock, PinSource,
       StartProducer, FinishScan, CheckRoute, JoinProducer, UnpinSource, Unlock, Commit,
       CommitTurn, DiscardTarget, DiscardTurn, FailProducer, BindTarget, BindTurn
  <2>4. QED
    BY <1>5, <2>2, <2>3 DEF Next
<1>6. QED
  BY <1>1, <1>2, <1>3, <1>4, <1>5

LEMMA InitStore == Init => StoreInv
<1> SUFFICES ASSUME Init PROVE StoreInv
  OBVIOUS
<1>1. PICK file : store = [data |-> file, pins |-> [k \in Keys |-> 0], file |-> file]
  BY DEF Init
<1>2. StoreShape(store)
  BY <1>1 DEF StoreShape
<1>3. up = FALSE /\ \A t \in Turns : turn[t].pc = "idle"
  BY DEF Init, IdleTurn
<1>4. QED
  BY <1>2, <1>3 DEF StoreInv

(* Whatever write of sessions.json fails, and whatever is pruned, deleted  *)
(* or expires, memory and file agree whenever no critical section is under *)
(* way (commitResponse, upsertLocked and their rollbacks): a crash takes   *)
(* the store back to what its clients were told.                           *)
THEOREM MemoryIsOnFile == Spec => []StoreIsFile
<1>1. LockInv /\ StoreInv /\ [Next]_<<vars, histories>> => StoreInv'
  BY StepStores
<1>2. StoreInv => StoreIsFile
  BY DEF StoreInv, InMemoryAndOnFile, StoreIsFile
<1>3. QED
  BY <1>1, <1>2, InitLocks, StepLocks, InitStore, PTL DEF Spec

=============================================================================
