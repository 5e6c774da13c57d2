------------------------ MODULE StrategyMonitorProofs ------------------------
(***************************************************************************)
(* The safety invariants of StrategyMonitor hold for every set of          *)
(* strategies, signals, ticks and requests, all bounds and all faults.     *)
(*                                                                         *)
(* What a tick may still do rests on what it has read: ErasOK relates the  *)
(* key a tick has seen to the eras in which it may mark a signal, LateOK   *)
(* counts the ticks that still hold a strategy, PendingOK those that have  *)
(* a run to note.                                                          *)
(***************************************************************************)
EXTENDS StrategyMonitor, FiniteSetTheorems, TLAPS

-----------------------------------------------------------------------------
(* The inductive invariant.                                                *)

TickOK(k) ==
    /\ tick[k].pc = "idle" => tick[k].todo = {}
    /\ tick[k].pc \notin {"idle", "next"} =>
           tick[k].cur \in Strategies \ tick[k].todo
    /\ tick[k].pc \in {"idle", "next"} => tick[k].cur = None
    /\ tick[k].pc \in {"mark", "create", "send", "note"} =>
           tick[k].signal \in Signals

RequestOK(h) ==
    request[h].op # "idle" =>
        request[h].row \in Row /\ request[h].strategy \in Strategies

Shape == /\ TypeOK
         /\ \A k \in Ticks : TickOK(k)
         /\ \A h \in Requests : RequestOK(h)

\* Tick k has read another key than g of s and may still mark g on that ground.
MayMark(k, s, g) ==
    \/ s \in tick[k].todo /\ tick[k].seen[s] \notin {g, Expired}
    \/ tick[k].pc = "fetch" /\ tick[k].cur = s /\ tick[k].seen[s] # g
    \/ tick[k].pc = "mark" /\ tick[k].cur = s /\ tick[k].signal = g

\* A chance to mark that is left has not been counted yet.
ErasOK ==
    \A k \in Ticks, s \in Strategies, g \in Signals :
        /\ triggers[k][s][g] <= eras[s][g]
        /\ row[s].key # g \/ MayMark(k, s, g) =>
               triggers[k][s][g] + 1 <= eras[s][g]

\* The ticks that may still create a run for s.
Holds(k, s) == \/ s \in tick[k].todo
               \/ tick[k].cur = s /\ tick[k].pc \in {"fetch", "mark", "create"}
Holders(s) == {k \in Ticks : Holds(k, s)}

LateOK ==
    \A s \in Strategies :
        IF row[s].monitoring THEN late[s] = 0
        ELSE late[s] + Cardinality(Holders(s)) <= Cardinality(Ticks)

\* The ticks with a pending run of s and g.
Notes(k, s, g) == /\ tick[k].pc \in {"send", "note"}
                  /\ tick[k].cur = s /\ tick[k].signal = g
Noting(s, g) == {k \in Ticks : Notes(k, s, g)}

PendingOK ==
    \A s \in Strategies, g \in Signals :
        Cardinality(Noting(s, g)) <= runs[s][g].pending

IInv == Shape /\ KeyHasRun /\ ErasOK /\ LateOK /\ PendingOK

-----------------------------------------------------------------------------
(* Counting ticks.                                                         *)

\* Sets of ticks are finite, and a set that loses k or gains k changes its
\* size by one at most.
LEMMA TickSets ==
    ASSUME NEW A \in SUBSET Ticks, NEW B \in SUBSET Ticks
    PROVE  /\ Cardinality(A) \in Nat /\ Cardinality(Ticks) \in Nat
           /\ Cardinality(A) <= Cardinality(Ticks)
           /\ B \subseteq A => Cardinality(B) <= Cardinality(A)
           /\ \A k \in Ticks :
                  /\ B \subseteq A \cup {k} =>
                         Cardinality(B) <= Cardinality(A) + 1
                  /\ k \in A /\ B \subseteq A \ {k} =>
                         Cardinality(B) + 1 <= Cardinality(A)
<1>1. IsFiniteSet(Ticks)
    BY MonitorAssumption
<1>2. IsFiniteSet(A) /\ IsFiniteSet(B)
    BY <1>1, FS_Subset
<1>3. /\ Cardinality(A) \in Nat /\ Cardinality(Ticks) \in Nat
      /\ Cardinality(B) \in Nat
    BY <1>1, <1>2, FS_CardinalityType
<1>4. Cardinality(A) <= Cardinality(Ticks)
    BY <1>1, FS_Subset
<1>5. B \subseteq A => Cardinality(B) <= Cardinality(A)
    BY <1>2, FS_Subset
<1>6. ASSUME NEW k \in Ticks, B \subseteq A \cup {k}
      PROVE  Cardinality(B) <= Cardinality(A) + 1
    <2>1. /\ IsFiniteSet(A \cup {k})
          /\ \/ Cardinality(A \cup {k}) = Cardinality(A)
             \/ Cardinality(A \cup {k}) = Cardinality(A) + 1
        BY <1>2, FS_AddElement
    <2>2. Cardinality(B) <= Cardinality(A \cup {k})
        BY <2>1, <1>6, FS_Subset
    <2> QED BY <2>1, <2>2, <1>3
<1>7. ASSUME NEW k \in Ticks, k \in A, B \subseteq A \ {k}
      PROVE  Cardinality(B) + 1 <= Cardinality(A)
    <2>1. /\ IsFiniteSet(A \ {k})
          /\ Cardinality(A \ {k}) = Cardinality(A) - 1
        BY <1>2, <1>7, FS_RemoveElement
    <2>2. Cardinality(B) <= Cardinality(A \ {k})
        BY <2>1, <1>7, FS_Subset
    <2> QED BY <2>1, <2>2, <1>3
<1> QED
    BY <1>3, <1>4, <1>5, <1>6, <1>7

-----------------------------------------------------------------------------
(* How a tick moves.  Most steps drop the current strategy: the tick keeps *)
(* a part of its list and no more than it had read.                        *)

Drops(old, new) ==
    /\ new \in Tick
    /\ new.pc \in {"idle", "next"} /\ new.cur = None
    /\ new.todo \subseteq old.todo
    /\ new.pc = "idle" => new.todo = {}
    /\ \A s \in new.todo : new.seen[s] \in {old.seen[s], Expired}

LEMMA IdleTyped == IdleTick \in Tick
BY DEF IdleTick, Tick

LEMMA IdleDrops ==
    ASSUME NEW old \in Tick PROVE Drops(old, IdleTick)
BY IdleTyped DEF Drops, IdleTick

LEMMA LeaveDrops ==
    ASSUME Shape, NEW k \in Ticks, tick[k].pc \notin {"idle", "next"}
    PROVE  /\ Drops(tick[k], Leave(k))
           /\ Drops(tick[k], [Leave(k) EXCEPT !.seen = IdleTick.seen])
<1>1. /\ tick[k] \in Tick
      /\ tick[k].cur \in Strategies \ tick[k].todo
    BY DEF Shape, TypeOK, TickOK
<1>2. CASE tick[k].todo = {}
    <2>1. Leave(k) = IdleTick
        BY <1>2 DEF Leave
    <2>2. [IdleTick EXCEPT !.seen = IdleTick.seen] = IdleTick
        BY DEF IdleTick
    <2> QED BY <2>1, <2>2, <1>1, IdleDrops
<1>3. CASE tick[k].todo # {}
    <2> DEFINE read == [tick[k].seen EXCEPT ![tick[k].cur] = Expired]
    <2>1. Leave(k) = [pc |-> "next", todo |-> tick[k].todo, seen |-> read,
                      cur |-> None, signal |-> None]
        BY <1>1, <1>3 DEF Leave, Tick
    <2>2. /\ read \in [Strategies -> Signals \cup {None, Expired}]
          /\ \A s \in Strategies : read[s] \in {tick[k].seen[s], Expired}
        BY <1>1 DEF Tick
    <2>3. tick[k].todo \in SUBSET Strategies
        BY <1>1 DEF Tick
    <2> HIDE DEF read
    <2>4. Drops(tick[k], Leave(k))
        BY <2>1, <2>2, <2>3, <1>3 DEF Drops, Tick
    <2>5. [Leave(k) EXCEPT !.seen = IdleTick.seen] =
              [pc |-> "next", todo |-> tick[k].todo,
               seen |-> [s \in Strategies |-> Expired],
               cur |-> None, signal |-> None]
        BY <2>1 DEF IdleTick
    <2>6. Drops(tick[k], [Leave(k) EXCEPT !.seen = IdleTick.seen])
        BY <2>5, <2>3, <1>3 DEF Drops, Tick
    <2> QED BY <2>4, <2>6
<1> QED BY <1>2, <1>3

LEMMA TickMoves ==
    ASSUME Shape, NEW k \in Ticks, NEW t \in Tick,
           tick' = [tick EXCEPT ![k] = t]
    PROVE  /\ tick' \in [Ticks -> Tick]
           /\ tick'[k] = t
           /\ \A j \in Ticks : j # k => tick'[j] = tick[j]
BY DEF Shape, TypeOK

\* What a tick that drops its strategy can no longer do.
LEMMA DropMoves ==
    ASSUME Shape, NEW k \in Ticks, NEW t, Drops(tick[k], t),
           tick' = [tick EXCEPT ![k] = t]
    PROVE  /\ tick' \in [Ticks -> Tick]
           /\ \A j \in Ticks : TickOK(j)'
           /\ \A j \in Ticks, s \in Strategies :
                  /\ Holds(j, s)' => Holds(j, s)
                  /\ \A g \in Signals :
                         /\ MayMark(j, s, g)' => MayMark(j, s, g)
                         /\ Notes(j, s, g)' => Notes(j, s, g) /\ j # k
<1>1. /\ tick' \in [Ticks -> Tick]
      /\ tick'[k] = t
      /\ \A j \in Ticks : j # k => tick'[j] = tick[j]
    BY TickMoves DEF Drops
<1>2. \A j \in Ticks : TickOK(j)'
    BY <1>1 DEF Shape, TickOK, Drops
<1>3. ASSUME NEW j \in Ticks, NEW s \in Strategies
      PROVE  /\ Holds(j, s)' => Holds(j, s)
             /\ \A g \in Signals :
                    /\ MayMark(j, s, g)' => MayMark(j, s, g)
                    /\ Notes(j, s, g)' => Notes(j, s, g) /\ j # k
    BY <1>1 DEF Holds, MayMark, Notes, Drops
<1> QED
    BY <1>1, <1>2, <1>3

-----------------------------------------------------------------------------
(* What keeps each part of the invariant.                                  *)

LEMMA KeepEras ==
    ASSUME ErasOK, UNCHANGED <<eras, triggers>>,
           \A s \in Strategies : row'[s].key = row[s].key,
           \A k \in Ticks, s \in Strategies, g \in Signals :
               MayMark(k, s, g)' => MayMark(k, s, g) \/ row[s].key # g
    PROVE  ErasOK'
BY DEF ErasOK

LEMMA KeepLate ==
    ASSUME LateOK, late \in [Strategies -> Nat], UNCHANGED late,
           \A s \in Strategies : row'[s].monitoring = row[s].monitoring,
           \A k \in Ticks, s \in Strategies :
               ~row[s].monitoring /\ Holds(k, s)' => Holds(k, s)
    PROVE  LateOK'
<1> SUFFICES ASSUME NEW s \in Strategies
             PROVE  IF row'[s].monitoring THEN late'[s] = 0
                    ELSE late'[s] + Cardinality(Holders(s)') <=
                         Cardinality(Ticks)
    BY DEF LateOK
<1>1. CASE row[s].monitoring
    BY <1>1 DEF LateOK
<1>2. CASE ~row[s].monitoring
    <2>1. Holders(s)' \subseteq Holders(s)
        BY <1>2 DEF Holders
    <2>2. /\ Cardinality(Holders(s)') <= Cardinality(Holders(s))
          /\ Cardinality(Holders(s)) \in Nat /\ Cardinality(Holders(s)') \in Nat
          /\ Cardinality(Ticks) \in Nat
        BY <2>1, TickSets DEF Holders
    <2>3. late[s] + Cardinality(Holders(s)) <= Cardinality(Ticks)
        BY <1>2 DEF LateOK
    <2> QED BY <1>2, <2>2, <2>3
<1> QED BY <1>1, <1>2

LEMMA KeepPending ==
    ASSUME PendingOK,
           \A s \in Strategies, g \in Signals :
               /\ runs[s][g].pending \in Nat
               /\ runs'[s][g].pending = runs[s][g].pending,
           \A k \in Ticks, s \in Strategies, g \in Signals :
               Notes(k, s, g)' => Notes(k, s, g)
    PROVE  PendingOK'
<1> SUFFICES ASSUME NEW s \in Strategies, NEW g \in Signals
             PROVE  Cardinality(Noting(s, g)') <= runs'[s][g].pending
    BY DEF PendingOK
<1>1. Noting(s, g)' \subseteq Noting(s, g)
    BY DEF Noting
<1>2. /\ Cardinality(Noting(s, g)') <= Cardinality(Noting(s, g))
      /\ Cardinality(Noting(s, g)) \in Nat
      /\ Cardinality(Noting(s, g)') \in Nat
    BY <1>1, TickSets DEF Noting
<1>3. Cardinality(Noting(s, g)) <= runs[s][g].pending
    BY DEF PendingOK
<1> QED BY <1>2, <1>3

LEMMA KeepKey ==
    ASSUME KeyHasRun, lost \subseteq lost',
           \A s \in Strategies, g \in Signals :
               /\ row'[s].key = g => row[s].key = g
               /\ Created(s, g) > 0 => Created(s, g)' > 0,
           \A k \in Ticks :
               tick[k].pc = "create" =>
                   \/ /\ tick'[k].pc = "create" /\ tick'[k].cur = tick[k].cur
                      /\ tick'[k].signal = tick[k].signal
                   \/ <<tick[k].cur, tick[k].signal>> \in lost'
    PROVE  KeyHasRun'
<1> SUFFICES ASSUME NEW s \in Strategies, NEW g \in Signals, row'[s].key = g
             PROVE  \/ Created(s, g)' > 0
                    \/ \E k \in Ticks : tick'[k].pc = "create"
                                        /\ tick'[k].cur = s
                                        /\ tick'[k].signal = g
                    \/ <<s, g>> \in lost'
    BY DEF KeyHasRun
<1>1. \/ Created(s, g) > 0
      \/ \E k \in Ticks : tick[k].pc = "create" /\ tick[k].cur = s
                                              /\ tick[k].signal = g
      \/ <<s, g>> \in lost
    BY DEF KeyHasRun
<1> QED BY <1>1

-----------------------------------------------------------------------------
(* Requests.                                                               *)

LEMMA FlushRow ==
    ASSUME NEW cur \in Row, NEW read \in Row, NEW new \in Row
    PROVE  /\ Flush(cur, read, new) \in Row
           /\ Flush(cur, read, new).key \in {cur.key, new.key}
           /\ new.key = read.key => Flush(cur, read, new).key = cur.key
BY DEF Flush, Row

\* A write of the key x opens an era of the key it replaces.
LEMMA WriteOpens ==
    ASSUME TypeOK, NEW s \in Strategies, NEW x, eras' = Reopened(s, x)
    PROVE  /\ eras' \in [Strategies -> [Signals -> Nat]]
           /\ \A t \in Strategies, g \in Signals :
                  eras'[t][g] = IF t = s /\ row[s].key = g /\ x # g
                                THEN eras[t][g] + 1 ELSE eras[t][g]
<1> DEFINE f == [g \in Signals |-> IF row[s].key = g /\ x # g
                                   THEN eras[s][g] + 1 ELSE eras[s][g]]
<1>1. eras \in [Strategies -> [Signals -> Nat]]
    BY DEF TypeOK
<1>2. f \in [Signals -> Nat]
    BY <1>1
<1>3. eras' = [eras EXCEPT ![s] = f]
    BY DEF Reopened
<1>4. \A g \in Signals : f[g] = IF row[s].key = g /\ x # g
                                THEN eras[s][g] + 1 ELSE eras[s][g]
    OBVIOUS
<1> HIDE DEF f
<1> QED BY <1>1, <1>2, <1>3, <1>4

LEMMA BeginIInv ==
    ASSUME IInv, NEW h \in Requests, NEW s \in Strategies,
           NEW op \in {"start", "stop"}, Begin(h, op, s)
    PROVE  IInv'
<1> DEFINE q == [op |-> op, row |-> row[s], strategy |-> s]
<1>1. request' = [request EXCEPT ![h] = q]
    BY DEF Begin
<1>2. UNCHANGED <<row, market, tick, runs, lost, late, eras, triggers>>
    BY DEF Begin, history
<1>3. q \in Request /\ q.row \in Row /\ q.strategy \in Strategies
    BY DEF IInv, Shape, TypeOK, Request
<1>4. events' \in 0..MaxEvents
    BY MonitorAssumption DEF Begin, Event, IInv, Shape, TypeOK
<1> HIDE DEF q
<1>5. TypeOK'
    BY <1>1, <1>2, <1>3, <1>4 DEF IInv, Shape, TypeOK
<1>6. \A j \in Requests : RequestOK(j)'
    BY <1>1, <1>3 DEF IInv, Shape, TypeOK, RequestOK
<1>7. \A k \in Ticks : TickOK(k)'
    BY <1>2 DEF IInv, Shape, TickOK
<1>8. KeyHasRun' /\ ErasOK' /\ LateOK' /\ PendingOK'
    BY <1>2 DEF IInv, KeyHasRun, Created, ErasOK, MayMark, LateOK, Holders,
               Holds, PendingOK, Noting, Notes
<1> QED BY <1>5, <1>6, <1>7, <1>8 DEF IInv, Shape

\* A commit writes the key None or leaves it; it may start or stop monitoring.
LEMMA CommitIInv ==
    ASSUME IInv, NEW h \in Requests, request[h].op # "idle",
           NEW new \in Row, new.key \in {None, request[h].row.key},
           Commit(h, new)
    PROVE  IInv'
<1> DEFINE s == request[h].strategy
           after == Flush(row[s], request[h].row, new)
<1>1. s \in Strategies /\ request[h].row \in Row /\ row[s] \in Row
    BY DEF IInv, Shape, TypeOK, RequestOK
<1>2. /\ after \in Row
      /\ after.key \in {row[s].key, None}
    BY <1>1, FlushRow
<1>3. /\ row' = [row EXCEPT ![s] = after]
      /\ eras' = Reopened(s, after.key)
      /\ late' = IF after.monitoring THEN [late EXCEPT ![s] = 0] ELSE late
      /\ request' = [request EXCEPT ![h] = IdleRequest]
      /\ UNCHANGED <<market, tick, runs, events, lost, triggers>>
    BY DEF Commit
<1> HIDE DEF s, after
<1>4. /\ eras' \in [Strategies -> [Signals -> Nat]]
      /\ \A t \in Strategies, g \in Signals :
             eras'[t][g] = IF t = s /\ row[s].key = g /\ after.key # g
                           THEN eras[t][g] + 1 ELSE eras[t][g]
    BY <1>1, <1>3, WriteOpens DEF IInv, Shape
<1>5. /\ row' \in [Strategies -> Row]
      /\ row'[s] = after
      /\ \A t \in Strategies : t # s => row'[t] = row[t]
    BY <1>1, <1>2, <1>3 DEF IInv, Shape, TypeOK
<1>6. /\ late \in [Strategies -> Nat] /\ late' \in [Strategies -> Nat]
      /\ late'[s] = IF after.monitoring THEN 0 ELSE late[s]
      /\ \A t \in Strategies : t # s => late'[t] = late[t]
    BY <1>1, <1>3 DEF IInv, Shape, TypeOK
<1>7. /\ request' \in [Requests -> Request]
      /\ \A j \in Requests : RequestOK(j)'
    BY <1>3 DEF IInv, Shape, TypeOK, RequestOK, IdleRequest, Request
<1>8. TypeOK'
    BY <1>3, <1>4, <1>5, <1>6, <1>7 DEF IInv, Shape, TypeOK
<1>9. \A k \in Ticks : TickOK(k)'
    BY <1>3 DEF IInv, Shape, TickOK
<1>10. KeyHasRun'
    <2>1. \A t \in Strategies, g \in Signals :
              row'[t].key = g => row[t].key = g
        BY <1>2, <1>5, MonitorAssumption
    <2> QED BY <2>1, <1>3 DEF IInv, KeyHasRun, Created
<1>11. ErasOK'
    <2> SUFFICES ASSUME NEW k \in Ticks, NEW t \in Strategies,
                        NEW g \in Signals
                 PROVE  /\ triggers[k][t][g] <= eras'[t][g]
                        /\ row'[t].key # g \/ MayMark(k, t, g) =>
                               triggers[k][t][g] + 1 <= eras'[t][g]
        BY <1>3 DEF ErasOK, MayMark
    <2>1. /\ triggers[k][t][g] \in Nat /\ eras[t][g] \in Nat
          /\ triggers[k][t][g] <= eras[t][g]
          /\ row[t].key # g \/ MayMark(k, t, g) =>
                 triggers[k][t][g] + 1 <= eras[t][g]
        BY DEF IInv, Shape, TypeOK, ErasOK
    <2>2. eras'[t][g] = IF t = s /\ row[s].key = g /\ after.key # g
                        THEN eras[t][g] + 1 ELSE eras[t][g]
        BY <1>4
    <2>3. row'[t].key # g => (t = s /\ after.key # g) \/ row[t].key # g
        BY <1>5
    <2> QED BY <2>1, <2>2, <2>3
<1>12. LateOK'
    <2> SUFFICES ASSUME NEW t \in Strategies
                 PROVE  IF row'[t].monitoring THEN late'[t] = 0
                        ELSE late'[t] + Cardinality(Holders(t)) <=
                             Cardinality(Ticks)
        BY <1>3 DEF LateOK, Holders, Holds
    <2>1. IF row[t].monitoring THEN late[t] = 0
          ELSE late[t] + Cardinality(Holders(t)) <= Cardinality(Ticks)
        BY DEF IInv, LateOK
    <2>2. /\ Cardinality(Holders(t)) \in Nat /\ Cardinality(Ticks) \in Nat
          /\ Cardinality(Holders(t)) <= Cardinality(Ticks)
        BY TickSets DEF Holders
    <2>3. CASE t # s
        BY <2>1, <2>3, <1>5, <1>6
    <2>4. CASE t = s
        BY <2>1, <2>2, <2>4, <1>5, <1>6
    <2> QED BY <2>3, <2>4
<1>13. PendingOK'
    BY <1>3 DEF IInv, PendingOK, Noting, Notes
<1> QED
    BY <1>7, <1>8, <1>9, <1>10, <1>11, <1>12, <1>13 DEF IInv, Shape

LEMMA RequestIInv ==
    ASSUME IInv, NEW h \in Requests, RequestStep(h)
    PROVE  IInv'
<1>1. CASE ReadStart(h)
    BY <1>1, BeginIInv DEF ReadStart
<1>2. CASE ReadStop(h)
    BY <1>2, BeginIInv DEF ReadStop
<1>3. CASE CommitStart(h)
    <2>1. [monitoring |-> TRUE, key |-> None] \in Row
        BY DEF Row
    <2> QED BY <1>3, <2>1, CommitIInv DEF CommitStart
<1>4. CASE CommitStop(h)
    <2>1. request[h].op = "stop" /\ request[h].row \in Row
        BY <1>4 DEF CommitStop, IInv, Shape, RequestOK
    <2>2. /\ [request[h].row EXCEPT !.monitoring = FALSE] \in Row
          /\ [request[h].row EXCEPT !.monitoring = FALSE].key =
                 request[h].row.key
        BY <2>1 DEF Row
    <2> QED BY <1>4, <2>1, <2>2, CommitIInv DEF CommitStop
<1> QED BY <1>1, <1>2, <1>3, <1>4 DEF RequestStep

-----------------------------------------------------------------------------
(* Ticks.                                                                  *)

RunCounts == [pending: Nat, queued: Nat, sent: Nat]

LEMMA DropIInv ==
    ASSUME IInv, NEW k \in Ticks, NEW t, Drops(tick[k], t),
           tick' = [tick EXCEPT ![k] = t],
           UNCHANGED <<row, market, request, late, eras, triggers>>,
           events' \in 0..MaxEvents,
           lost \subseteq lost', lost' \subseteq Strategies \X Signals,
           tick[k].pc = "create" =>
               <<tick[k].cur, tick[k].signal>> \in lost',
           runs' \in [Strategies -> [Signals -> RunCounts]],
           \A s \in Strategies, g \in Signals :
               Created(s, g) > 0 => Created(s, g)' > 0,
           PendingOK'
    PROVE  IInv'
<1>1. /\ tick' \in [Ticks -> Tick]
      /\ \A j \in Ticks : TickOK(j)'
      /\ \A j \in Ticks : j # k => tick'[j] = tick[j]
      /\ \A j \in Ticks, s \in Strategies :
             /\ Holds(j, s)' => Holds(j, s)
             /\ \A g \in Signals : MayMark(j, s, g)' => MayMark(j, s, g)
    BY DropMoves, TickMoves DEF IInv, Drops
<1>2. TypeOK'
    BY <1>1 DEF IInv, Shape, TypeOK, RunCounts
<1>3. \A h \in Requests : RequestOK(h)'
    BY DEF IInv, Shape, RequestOK
<1>4. KeyHasRun'
    BY <1>1, KeepKey DEF IInv
<1>5. ErasOK'
    BY <1>1, KeepEras DEF IInv
<1>6. LateOK'
    BY <1>1, KeepLate DEF IInv, Shape, TypeOK
<1> QED
    BY <1>1, <1>2, <1>3, <1>4, <1>5, <1>6 DEF IInv, Shape

\* The same for a step that leaves the runs alone.
LEMMA DropRunsKept ==
    ASSUME IInv, NEW k \in Ticks, NEW t, Drops(tick[k], t),
           tick' = [tick EXCEPT ![k] = t],
           UNCHANGED <<row, market, request, late, eras, triggers>>,
           events' \in 0..MaxEvents,
           lost \subseteq lost', lost' \subseteq Strategies \X Signals,
           tick[k].pc = "create" =>
               <<tick[k].cur, tick[k].signal>> \in lost',
           \/ UNCHANGED runs
           \/ \E s \in Strategies, g \in Signals, n \in {0, 1} :
                  runs' = [runs EXCEPT ![s][g].sent = @ + n]
    PROVE  IInv'
<1>1. runs \in [Strategies -> [Signals -> RunCounts]]
    BY DEF IInv, Shape, TypeOK, RunCounts
<1>2. /\ runs' \in [Strategies -> [Signals -> RunCounts]]
      /\ \A s \in Strategies, g \in Signals :
             /\ runs'[s][g].pending = runs[s][g].pending
             /\ runs'[s][g].queued = runs[s][g].queued
    <2>1. CASE UNCHANGED runs
        BY <1>1, <2>1
    <2>2. ASSUME NEW s \in Strategies, NEW g \in Signals, NEW n \in {0, 1},
                 runs' = [runs EXCEPT ![s][g].sent = @ + n]
          PROVE  /\ runs' \in [Strategies -> [Signals -> RunCounts]]
                 /\ \A x \in Strategies, y \in Signals :
                        /\ runs'[x][y].pending = runs[x][y].pending
                        /\ runs'[x][y].queued = runs[x][y].queued
        <3> DEFINE c == [runs[s][g] EXCEPT !.sent = @ + n]
        <3>1. /\ c \in RunCounts
              /\ c.pending = runs[s][g].pending
              /\ c.queued = runs[s][g].queued
            BY <1>1 DEF RunCounts
        <3>2. runs' = [runs EXCEPT ![s] = [runs[s] EXCEPT ![g] = c]]
            BY <2>2
        <3> HIDE DEF c
        <3> QED BY <1>1, <3>1, <3>2
    <2> QED BY <2>1, <2>2
<1>3. \A s \in Strategies, g \in Signals : runs[s][g].pending \in Nat
    BY <1>1 DEF RunCounts
<1>4. \A j \in Ticks, s \in Strategies, g \in Signals :
          Notes(j, s, g)' => Notes(j, s, g)
    BY DropMoves DEF IInv
<1>5. PendingOK'
    BY <1>2, <1>3, <1>4, KeepPending DEF IInv
<1> QED
    BY ZenonT(60), <1>2, <1>5, DropIInv DEF Created

LEMMA EventTyped ==
    ASSUME IInv, Event PROVE events' \in 0..MaxEvents
BY MonitorAssumption DEF IInv, Shape, TypeOK, Event

LEMMA FetchFailsIInv ==
    ASSUME IInv, NEW k \in Ticks, FetchFails(k) PROVE IInv'
<1>1. Drops(tick[k], Leave(k)) /\ lost \subseteq Strategies \X Signals
    BY LeaveDrops DEF FetchFails, IInv, Shape, TypeOK
<1>2. events' \in 0..MaxEvents
    BY EventTyped DEF FetchFails, Fault
<1> QED
    BY <1>1, <1>2, DropRunsKept DEF FetchFails, history

LEMMA EnqueueFailsIInv ==
    ASSUME IInv, NEW k \in Ticks, EnqueueFails(k) PROVE IInv'
<1>1. /\ Drops(tick[k], Leave(k))
      /\ lost \subseteq Strategies \X Signals
      /\ tick[k].cur \in Strategies /\ tick[k].signal \in Signals
    BY LeaveDrops DEF EnqueueFails, IInv, Shape, TypeOK, TickOK
<1>2. events' \in 0..MaxEvents
    BY EventTyped DEF EnqueueFails, Fault
<1>3. lost \subseteq lost' /\ lost' \subseteq Strategies \X Signals
    BY <1>1 DEF EnqueueFails
<1> QED
    BY <1>1, <1>2, <1>3, DropRunsKept DEF EnqueueFails

LEMMA AbandonIInv ==
    ASSUME IInv, NEW k \in Ticks, NEW f, NEW t, Drops(tick[k], t),
           Abandon(k, f, t)
    PROVE  IInv'
<1>1. events' \in 0..MaxEvents
    BY EventTyped DEF Abandon, Fault
<1>2. /\ lost \subseteq lost' /\ lost' \subseteq Strategies \X Signals
      /\ tick[k].pc = "create" => <<tick[k].cur, tick[k].signal>> \in lost'
    <2>1. lost \subseteq Strategies \X Signals /\ TickOK(k)
        BY DEF IInv, Shape, TypeOK
    <2>2. CASE tick[k].pc \in {"create", "send"}
        <3>1. lost' = lost \cup {<<tick[k].cur, tick[k].signal>>}
            BY <2>2 DEF Abandon
        <3>2. tick[k].cur \in Strategies /\ tick[k].signal \in Signals
            BY <2>1, <2>2 DEF TickOK
        <3> QED BY <2>1, <3>1, <3>2
    <2>3. CASE tick[k].pc \notin {"create", "send"}
        BY <2>1, <2>3 DEF Abandon
    <2> QED BY <2>2, <2>3
<1> QED
    BY <1>1, <1>2, DropRunsKept DEF Abandon

LEMMA FaultIInv ==
    ASSUME IInv, NEW k \in Ticks, TickFault(k) PROVE IInv'
<1>1. Drops(tick[k], IdleTick)
    BY IdleDrops DEF IInv, Shape, TypeOK
<1>2. CASE CommitFails(k)
    <2>1. Drops(tick[k], [Leave(k) EXCEPT !.seen = IdleTick.seen])
        BY <1>2, LeaveDrops DEF CommitFails, IInv
    <2> QED BY <1>1, <1>2, <2>1, AbandonIInv DEF CommitFails
<1>3. CASE Killed(k)
    BY <1>1, <1>3, AbandonIInv DEF Killed
<1> QED
    BY <1>2, <1>3, FetchFailsIInv, EnqueueFailsIInv DEF TickFault

LEMMA MarkQueuedCounts ==
    ASSUME NEW c \in RunCounts, c.pending > 0
    PROVE  /\ MarkQueued(c) \in RunCounts
           /\ MarkQueued(c).pending = c.pending - 1
           /\ MarkQueued(c).pending + MarkQueued(c).queued =
                  c.pending + c.queued
BY DEF MarkQueued, RunCounts

LEMMA NoteIInv ==
    ASSUME IInv, NEW k \in Ticks, Note(k) PROVE IInv'
<1>0. PICK s \in Strategies, g \in Signals :
          s = tick[k].cur /\ g = tick[k].signal
    BY DEF Note, IInv, Shape, TickOK
<1> DEFINE c == MarkQueued(runs[s][g])
<1>1. /\ Drops(tick[k], Leave(k))
      /\ lost \subseteq Strategies \X Signals
      /\ events \in 0..MaxEvents
      /\ runs \in [Strategies -> [Signals -> RunCounts]]
    BY LeaveDrops DEF Note, IInv, Shape, TypeOK, TickOK, RunCounts
<1>2. runs' = [runs EXCEPT ![s] = [runs[s] EXCEPT ![g] = c]]
    BY <1>0, <1>1 DEF Note
<1>3. \A j \in Ticks, x \in Strategies, y \in Signals :
          Notes(j, x, y)' => Notes(j, x, y) /\ j # k
    BY <1>1, DropMoves DEF Note, IInv
<1>4. /\ Noting(s, g)' \subseteq Noting(s, g) \ {k}
      /\ k \in Noting(s, g)
    BY <1>0, <1>3 DEF Noting, Notes, Note
<1>5. /\ Cardinality(Noting(s, g)') + 1 <= Cardinality(Noting(s, g))
      /\ Cardinality(Noting(s, g)) <= runs[s][g].pending
      /\ Cardinality(Noting(s, g)) \in Nat /\ Cardinality(Noting(s, g)') \in Nat
    BY <1>1, <1>4, TickSets DEF Noting, IInv, PendingOK
<1>6. /\ c \in RunCounts
      /\ c.pending = runs[s][g].pending - 1
      /\ c.pending + c.queued = runs[s][g].pending + runs[s][g].queued
    <2>1. runs[s][g] \in RunCounts
        BY <1>1
    <2>2. runs[s][g].pending > 0
        BY <2>1, <1>5 DEF RunCounts
    <2> QED BY <2>1, <2>2, MarkQueuedCounts
<1> HIDE DEF c
<1>7. /\ runs' \in [Strategies -> [Signals -> RunCounts]]
      /\ \A x \in Strategies, y \in Signals :
             IF x = s /\ y = g THEN runs'[x][y] = c
             ELSE runs'[x][y] = runs[x][y]
    BY <1>1, <1>2, <1>6
<1>8. \A x \in Strategies, y \in Signals : Created(x, y)' = Created(x, y)
    BY <1>6, <1>7 DEF Created
<1>9. PendingOK'
    <2> SUFFICES ASSUME NEW x \in Strategies, NEW y \in Signals
                 PROVE  Cardinality(Noting(x, y)') <= runs'[x][y].pending
        BY DEF PendingOK
    <2>1. /\ Cardinality(Noting(x, y)') <= Cardinality(Noting(x, y))
          /\ Cardinality(Noting(x, y)) \in Nat
          /\ Cardinality(Noting(x, y)') \in Nat
        BY <1>3, TickSets DEF Noting
    <2>2. Cardinality(Noting(x, y)) <= runs[x][y].pending
        BY DEF IInv, PendingOK
    <2>3. runs[x][y].pending \in Nat /\ runs[s][g].pending \in Nat
        BY <1>1 DEF RunCounts
    <2>4. CASE x = s /\ y = g
        BY <1>5, <1>6, <1>7, <2>3, <2>4
    <2>5. CASE ~(x = s /\ y = g)
        BY <1>7, <2>1, <2>2, <2>3, <2>5
    <2> QED BY <2>4, <2>5
<1>10. /\ tick' = [tick EXCEPT ![k] = Leave(k)]
       /\ UNCHANGED <<row, market, request, events, lost, late, eras, triggers>>
       /\ tick[k].pc # "create"
    BY DEF Note, history
<1> QED
    BY <1>1, <1>7, <1>8, <1>9, <1>10, DropIInv

\* A step that changes one tick only, and neither rows nor runs.
LEMMA TickIInv ==
    ASSUME IInv, NEW k \in Ticks, NEW t \in Tick,
           tick' = [tick EXCEPT ![k] = t],
           UNCHANGED <<row, market, runs, request, events, history>>,
           tick[k].pc # "create", TickOK(k)',
           \A s \in Strategies :
               /\ ~row[s].monitoring /\ Holds(k, s)' => Holds(k, s)
               /\ \A g \in Signals :
                      /\ MayMark(k, s, g)' =>
                             MayMark(k, s, g) \/ row[s].key # g
                      /\ ~Notes(k, s, g)'
    PROVE  IInv'
<1>1. /\ tick' \in [Ticks -> Tick]
      /\ \A j \in Ticks : j # k => tick'[j] = tick[j]
    BY TickMoves DEF IInv
<1>2. \A j \in Ticks : TickOK(j)'
    BY <1>1 DEF IInv, Shape, TickOK
<1>3. \A j \in Ticks, s \in Strategies :
          /\ ~row[s].monitoring /\ Holds(j, s)' => Holds(j, s)
          /\ \A g \in Signals :
                 /\ MayMark(j, s, g)' => MayMark(j, s, g) \/ row[s].key # g
                 /\ Notes(j, s, g)' => Notes(j, s, g)
    BY <1>1 DEF Holds, MayMark, Notes
<1>4. TypeOK' /\ \A h \in Requests : RequestOK(h)'
    BY <1>1 DEF IInv, Shape, TypeOK, RequestOK, history
<1>5. KeyHasRun'
    BY <1>1, KeepKey DEF IInv, Created, history
<1>6. ErasOK'
    BY <1>3, KeepEras DEF IInv, history
<1>7. LateOK'
    BY <1>3, KeepLate DEF IInv, Shape, TypeOK, history
<1>8. PendingOK'
    BY <1>3, KeepPending DEF IInv, Shape, TypeOK
<1> QED
    BY <1>2, <1>4, <1>5, <1>6, <1>7, <1>8 DEF IInv, Shape

LEMMA QueryIInv ==
    ASSUME IInv, NEW k \in Ticks, Query(k) PROVE IInv'
<1> DEFINE t == [tick[k] EXCEPT !.pc = "next", !.todo = Monitored,
               !.seen = [s \in Strategies |->
                   IF s \in Monitored THEN row[s].key ELSE Expired]]
<1>1. tick' = [tick EXCEPT ![k] = t]
    BY DEF Query
<1>2. /\ tick[k] \in Tick /\ TickOK(k) /\ tick[k].pc = "idle"
      /\ \A s \in Strategies : row[s].key \in Signals \cup {None}
    BY DEF Query, IInv, Shape, TypeOK, Row
<1>3. /\ Monitored \in SUBSET Strategies
      /\ [s \in Strategies |-> IF s \in Monitored THEN row[s].key ELSE Expired]
             \in [Strategies -> Signals \cup {None, Expired}]
    BY <1>2 DEF Monitored
<1>4. t \in Tick
    BY <1>2, <1>3 DEF Tick
<1>5. /\ t.pc = "next" /\ t.cur = None /\ t.todo = Monitored
      /\ \A s \in Monitored : t.seen[s] = row[s].key
    BY <1>2 DEF Tick, TickOK, Monitored
<1> HIDE DEF t
<1>6. tick'[k] = t
    BY <1>1, <1>4, TickMoves DEF IInv
<1>7. TickOK(k)'
    BY <1>5, <1>6 DEF TickOK
<1>8. \A s \in Strategies :
          /\ ~row[s].monitoring /\ Holds(k, s)' => Holds(k, s)
          /\ \A g \in Signals :
                 /\ MayMark(k, s, g)' => MayMark(k, s, g) \/ row[s].key # g
                 /\ ~Notes(k, s, g)'
    BY <1>5, <1>6, MonitorAssumption DEF Holds, MayMark, Notes, Monitored
<1> QED
    BY <1>1, <1>2, <1>4, <1>7, <1>8, TickIInv DEF Query

LEMMA CheckIInv ==
    ASSUME IInv, NEW k \in Ticks, NEW s \in Strategies, Check(k, s)
    PROVE  IInv'
<1> DEFINE read == IF tick[k].seen[s] = Expired THEN row[s].key
                   ELSE tick[k].seen[s]
           t == [tick[k] EXCEPT !.pc = "fetch", !.cur = s,
                     !.todo = @ \ {s}, !.seen = [@ EXCEPT ![s] = read]]
<1>1. tick' = [tick EXCEPT ![k] = t]
    BY ZenonT(60) DEF Check
<1>2. /\ tick[k] \in Tick /\ TickOK(k) /\ tick[k].pc = "next"
      /\ s \in tick[k].todo
      /\ row[s].key \in Signals \cup {None}
    BY DEF Check, IInv, Shape, TypeOK, Row
<1>3. /\ tick[k].todo \ {s} \in SUBSET Strategies
      /\ tick[k].seen \in [Strategies -> Signals \cup {None, Expired}]
      /\ [tick[k].seen EXCEPT ![s] = read]
             \in [Strategies -> Signals \cup {None, Expired}]
    BY <1>2 DEF Tick
<1>4. t \in Tick
    BY <1>2, <1>3 DEF Tick
<1>5. /\ t.pc = "fetch" /\ t.cur = s /\ t.todo = tick[k].todo \ {s}
      /\ t.seen[s] = read
      /\ \A x \in Strategies : x # s => t.seen[x] = tick[k].seen[x]
    BY <1>2, <1>3 DEF Tick
<1> HIDE DEF t
<1>6. tick'[k] = t
    BY <1>1, <1>4, TickMoves DEF IInv
<1>7. TickOK(k)'
    BY <1>5, <1>6 DEF TickOK
<1>8. \A x \in Strategies :
          /\ ~row[x].monitoring /\ Holds(k, x)' => Holds(k, x)
          /\ \A g \in Signals :
                 /\ MayMark(k, x, g)' => MayMark(k, x, g) \/ row[x].key # g
                 /\ ~Notes(k, x, g)'
    BY <1>2, <1>5, <1>6 DEF Holds, MayMark, Notes
<1> QED
    BY <1>1, <1>2, <1>4, <1>7, <1>8, TickIInv DEF Check

LEMMA FetchIInv ==
    ASSUME IInv, NEW k \in Ticks, Fetch(k) PROVE IInv'
<1> PICK g : g = market[tick[k].cur]
    OBVIOUS
<1>1. /\ tick[k] \in Tick /\ TickOK(k) /\ tick[k].pc = "fetch"
      /\ tick[k].cur \in Strategies
      /\ g \in Signals \cup {None}
      /\ lost \subseteq Strategies \X Signals /\ events \in 0..MaxEvents
    BY DEF Fetch, IInv, Shape, TypeOK, TickOK
<1>2. UNCHANGED <<row, market, runs, request, events, history>>
    BY DEF Fetch
<1>3. CASE g = None \/ g = tick[k].seen[tick[k].cur]
    <2>1. tick' = [tick EXCEPT ![k] = Leave(k)]
        BY <1>3 DEF Fetch
    <2>2. Drops(tick[k], Leave(k))
        BY <1>1, LeaveDrops DEF IInv
    <2> QED BY <1>1, <1>2, <2>1, <2>2, DropRunsKept DEF history
<1>4. CASE ~(g = None \/ g = tick[k].seen[tick[k].cur])
    <2> DEFINE t == [tick[k] EXCEPT !.pc = "mark", !.signal = g]
    <2>1. tick' = [tick EXCEPT ![k] = t]
        BY <1>4 DEF Fetch
    <2>2. /\ t \in Tick
          /\ t.pc = "mark" /\ t.signal = g /\ t.cur = tick[k].cur
          /\ t.todo = tick[k].todo /\ t.seen = tick[k].seen
        BY <1>1 DEF Tick
    <2> HIDE DEF t
    <2>3. tick'[k] = t
        BY <2>1, <2>2, TickMoves DEF IInv
    <2>4. TickOK(k)'
        BY <1>1, <1>4, <2>2, <2>3 DEF TickOK
    <2>5. \A s \in Strategies :
              /\ ~row[s].monitoring /\ Holds(k, s)' => Holds(k, s)
              /\ \A x \in Signals :
                     /\ MayMark(k, s, x)' => MayMark(k, s, x) \/ row[s].key # x
                     /\ ~Notes(k, s, x)'
        BY <1>1, <1>4, <2>2, <2>3 DEF Holds, MayMark, Notes
    <2> QED BY <1>1, <1>2, <2>1, <2>2, <2>4, <2>5, TickIInv
<1> QED BY <1>3, <1>4

LEMMA MarkIInv ==
    ASSUME IInv, NEW k \in Ticks, Mark(k) PROVE IInv'
<1>0. PICK s \in Strategies, g \in Signals :
          s = tick[k].cur /\ g = tick[k].signal
    BY DEF Mark, IInv, Shape, TickOK
<1> DEFINE t == [tick[k] EXCEPT !.pc = "create",
                     !.seen = [x \in Strategies |-> Expired]]
<1>1. /\ tick[k].pc = "mark" /\ tick[k] \in Tick /\ TickOK(k)
      /\ row[s] \in Row /\ row \in [Strategies -> Row]
      /\ triggers \in [Ticks -> [Strategies -> [Signals -> Nat]]]
    BY DEF Mark, IInv, Shape, TypeOK
<1>2. /\ row' = [row EXCEPT ![s] = [row[s] EXCEPT !.key = g]]
      /\ eras' = Reopened(s, g)
      /\ triggers' = [triggers EXCEPT ![k] = [triggers[k] EXCEPT
             ![s] = [triggers[k][s] EXCEPT ![g] = triggers[k][s][g] + 1]]]
      /\ tick' = [tick EXCEPT ![k] = t]
      /\ UNCHANGED <<market, runs, request, events, lost, late>>
    BY <1>0 DEF Mark
<1>3. /\ t \in Tick
      /\ t.pc = "create" /\ t.cur = s /\ t.signal = g
      /\ t.todo = tick[k].todo
      /\ \A x \in Strategies : t.seen[x] = Expired
    BY <1>0, <1>1 DEF Tick
<1> HIDE DEF t
<1>4. /\ tick' \in [Ticks -> Tick]
      /\ tick'[k] = t
      /\ \A j \in Ticks : j # k => tick'[j] = tick[j]
    BY <1>2, <1>3, TickMoves DEF IInv
<1>5. /\ row' \in [Strategies -> Row]
      /\ row'[s].key = g
      /\ \A x \in Strategies :
             /\ row'[x].monitoring = row[x].monitoring
             /\ x # s => row'[x] = row[x]
    <2>1. /\ [row[s] EXCEPT !.key = g] \in Row
          /\ [row[s] EXCEPT !.key = g].key = g
          /\ [row[s] EXCEPT !.key = g].monitoring = row[s].monitoring
        BY <1>1 DEF Row
    <2> QED BY <1>1, <1>2, <2>1
<1>6. /\ eras' \in [Strategies -> [Signals -> Nat]]
      /\ \A x \in Strategies, y \in Signals :
             eras'[x][y] = IF x = s /\ row[s].key = y /\ g # y
                           THEN eras[x][y] + 1 ELSE eras[x][y]
    BY <1>2, WriteOpens DEF IInv, Shape
<1>7. /\ triggers' \in [Ticks -> [Strategies -> [Signals -> Nat]]]
      /\ \A j \in Ticks, x \in Strategies, y \in Signals :
             triggers'[j][x][y] = IF j = k /\ x = s /\ y = g
                                  THEN triggers[j][x][y] + 1
                                  ELSE triggers[j][x][y]
    BY <1>1, <1>2
<1>8. TypeOK'
    BY <1>2, <1>4, <1>5, <1>6, <1>7 DEF IInv, Shape, TypeOK
<1>9. \A j \in Ticks : TickOK(j)'
    BY <1>0, <1>1, <1>3, <1>4 DEF IInv, Shape, TickOK
<1>10. \A h \in Requests : RequestOK(h)'
    BY <1>2 DEF IInv, Shape, RequestOK
<1>11. KeyHasRun'
    <2> SUFFICES ASSUME NEW x \in Strategies, NEW y \in Signals,
                        row'[x].key = y
                 PROVE  \/ Created(x, y)' > 0
                        \/ \E j \in Ticks : tick'[j].pc = "create"
                               /\ tick'[j].cur = x /\ tick'[j].signal = y
                        \/ <<x, y>> \in lost'
        BY DEF KeyHasRun
    <2>1. CASE x = s
        BY <2>1, <1>3, <1>4, <1>5
    <2>2. CASE x # s
        <3>1. \/ Created(x, y) > 0
              \/ \E j \in Ticks : tick[j].pc = "create" /\ tick[j].cur = x
                                                      /\ tick[j].signal = y
              \/ <<x, y>> \in lost
            BY <2>2, <1>5 DEF IInv, KeyHasRun
        <3>2. Created(x, y)' = Created(x, y)
            BY <1>2 DEF Created
        <3> QED BY <3>1, <3>2, <1>1, <1>2, <1>4
    <2> QED BY <2>1, <2>2
<1>12. ErasOK'
    <2> SUFFICES ASSUME NEW j \in Ticks, NEW x \in Strategies,
                        NEW y \in Signals
                 PROVE  /\ triggers'[j][x][y] <= eras'[x][y]
                        /\ row'[x].key # y \/ MayMark(j, x, y)' =>
                               triggers'[j][x][y] + 1 <= eras'[x][y]
        BY DEF ErasOK
    <2>1. /\ triggers[j][x][y] \in Nat /\ eras[x][y] \in Nat
          /\ triggers[j][x][y] <= eras[x][y]
          /\ row[x].key # y \/ MayMark(j, x, y) =>
                 triggers[j][x][y] + 1 <= eras[x][y]
        BY DEF IInv, Shape, TypeOK, ErasOK
    <2>2. eras'[x][y] = IF x = s /\ row[s].key = y /\ g # y
                        THEN eras[x][y] + 1 ELSE eras[x][y]
        BY <1>6
    <2>3. triggers'[j][x][y] = IF j = k /\ x = s /\ y = g
                               THEN triggers[j][x][y] + 1
                               ELSE triggers[j][x][y]
        BY <1>7
    <2>4. CASE j = k /\ x = s /\ y = g
        <3>1. MayMark(k, s, g) /\ ~MayMark(k, s, g)'
            BY <1>0, <1>1, <1>3, <1>4 DEF MayMark
        <3> QED BY <2>1, <2>2, <2>3, <2>4, <3>1, <1>5
    <2>5. CASE ~(j = k /\ x = s /\ y = g)
        <3>1. MayMark(j, x, y)' => MayMark(j, x, y)
            BY <1>3, <1>4 DEF MayMark
        <3>2. row'[x].key # y => (x = s /\ g # y) \/ row[x].key # y
            BY <1>5
        <3> QED BY <2>1, <2>2, <2>3, <2>5, <3>1, <3>2
    <2> QED BY <2>4, <2>5
<1>13. LateOK'
    <2>1. \A j \in Ticks, x \in Strategies : Holds(j, x)' => Holds(j, x)
        BY <1>0, <1>1, <1>3, <1>4 DEF Holds
    <2> QED BY <2>1, <1>2, <1>5, KeepLate DEF IInv, Shape, TypeOK
<1>14. PendingOK'
    <2>1. \A j \in Ticks, x \in Strategies, y \in Signals :
              Notes(j, x, y)' => Notes(j, x, y)
        BY <1>3, <1>4 DEF Notes
    <2>2. \A x \in Strategies, y \in Signals :
              /\ runs[x][y].pending \in Nat
              /\ runs'[x][y].pending = runs[x][y].pending
        BY <1>2 DEF IInv, Shape, TypeOK
    <2> QED BY <2>1, <2>2, KeepPending DEF IInv
<1> QED
    BY <1>8, <1>9, <1>10, <1>11, <1>12, <1>13, <1>14 DEF IInv, Shape

\* One more run of s and g, in one of its counts.
LEMMA AddRun ==
    ASSUME NEW s \in Strategies, NEW g \in Signals, NEW c \in RunCounts,
           runs \in [Strategies -> [Signals -> RunCounts]],
           runs' = [runs EXCEPT ![s] = [runs[s] EXCEPT ![g] = c]]
    PROVE  /\ runs' \in [Strategies -> [Signals -> RunCounts]]
           /\ \A x \in Strategies, y \in Signals :
                  runs'[x][y] = IF x = s /\ y = g THEN c ELSE runs[x][y]
OBVIOUS

LEMMA CreateIInv ==
    ASSUME IInv, NEW k \in Ticks, Create(k) PROVE IInv'
<1>0. PICK s \in Strategies, g \in Signals :
          s = tick[k].cur /\ g = tick[k].signal
    BY DEF Create, IInv, Shape, TickOK
<1> DEFINE t == [tick[k] EXCEPT !.pc = "send"]
           c == [runs[s][g] EXCEPT !.pending = @ + 1]
<1>1. /\ tick[k].pc = "create" /\ tick[k] \in Tick /\ TickOK(k)
      /\ runs \in [Strategies -> [Signals -> RunCounts]]
      /\ late \in [Strategies -> Nat]
    BY DEF Create, IInv, Shape, TypeOK, RunCounts
<1>2. /\ runs' = [runs EXCEPT ![s] = [runs[s] EXCEPT ![g] = c]]
      /\ tick' = [tick EXCEPT ![k] = t]
      /\ late' = IF row[s].monitoring THEN late
                 ELSE [late EXCEPT ![s] = late[s] + 1]
      /\ UNCHANGED <<row, market, request, events, lost, eras, triggers>>
    BY <1>0 DEF Create
<1>3. /\ t \in Tick /\ t.pc = "send" /\ t.cur = s /\ t.signal = g
      /\ t.todo = tick[k].todo /\ t.seen = tick[k].seen
    BY <1>0, <1>1 DEF Tick
<1>4. /\ c \in RunCounts
      /\ c.pending = runs[s][g].pending + 1 /\ c.queued = runs[s][g].queued
    BY <1>1 DEF RunCounts
<1> HIDE DEF t, c
<1>5. /\ tick' \in [Ticks -> Tick]
      /\ tick'[k] = t
      /\ \A j \in Ticks : j # k => tick'[j] = tick[j]
    BY <1>2, <1>3, TickMoves DEF IInv
<1>6. /\ runs' \in [Strategies -> [Signals -> RunCounts]]
      /\ \A x \in Strategies, y \in Signals :
             runs'[x][y] = IF x = s /\ y = g THEN c ELSE runs[x][y]
    BY <1>1, <1>2, <1>4, AddRun
<1>7. /\ late' \in [Strategies -> Nat]
      /\ \A x \in Strategies :
             late'[x] = IF x = s /\ ~row[s].monitoring THEN late[x] + 1
                        ELSE late[x]
    BY <1>1, <1>2
<1>8. TypeOK'
    BY <1>2, <1>5, <1>6, <1>7 DEF IInv, Shape, TypeOK, RunCounts
<1>9. \A j \in Ticks : TickOK(j)'
    BY <1>0, <1>1, <1>3, <1>5 DEF IInv, Shape, TickOK
<1>10. \A h \in Requests : RequestOK(h)'
    BY <1>2 DEF IInv, Shape, RequestOK
<1>11. KeyHasRun'
    <2> SUFFICES ASSUME NEW x \in Strategies, NEW y \in Signals,
                        row[x].key = y
                 PROVE  \/ Created(x, y)' > 0
                        \/ \E j \in Ticks : tick'[j].pc = "create"
                               /\ tick'[j].cur = x /\ tick'[j].signal = y
                        \/ <<x, y>> \in lost
        BY <1>2 DEF KeyHasRun
    <2>1. \/ Created(x, y) > 0
          \/ \E j \in Ticks : tick[j].pc = "create" /\ tick[j].cur = x
                                                  /\ tick[j].signal = y
          \/ <<x, y>> \in lost
        BY DEF IInv, KeyHasRun
    <2>2. runs[x][y] \in RunCounts /\ runs[s][g] \in RunCounts
        BY <1>1
    <2>3. CASE x = s /\ y = g
        BY <2>2, <2>3, <1>4, <1>6 DEF Created, RunCounts
    <2>4. CASE ~(x = s /\ y = g)
        <3>1. Created(x, y)' = Created(x, y)
            BY <2>4, <1>6 DEF Created
        <3>2. \A j \in Ticks : tick[j].cur = x /\ tick[j].signal = y
                               => tick'[j] = tick[j]
            BY <2>4, <1>0, <1>5
        <3> QED BY <2>1, <3>1, <3>2
    <2> QED BY <2>3, <2>4
<1>12. ErasOK'
    <2>1. \A j \in Ticks, x \in Strategies, y \in Signals :
              MayMark(j, x, y)' => MayMark(j, x, y)
        BY <1>3, <1>5 DEF MayMark
    <2> QED BY <2>1, <1>2, KeepEras DEF IInv
<1>13. LateOK'
    <2> SUFFICES ASSUME NEW x \in Strategies
                 PROVE  IF row[x].monitoring THEN late'[x] = 0
                        ELSE late'[x] + Cardinality(Holders(x)') <=
                             Cardinality(Ticks)
        BY <1>2 DEF LateOK
    <2>1. IF row[x].monitoring THEN late[x] = 0
          ELSE late[x] + Cardinality(Holders(x)) <= Cardinality(Ticks)
        BY DEF IInv, LateOK
    <2>2. /\ Holders(x)' \subseteq Holders(x)
          /\ x = s => k \in Holders(x) /\ Holders(x)' \subseteq Holders(x) \ {k}
        BY <1>0, <1>1, <1>3, <1>5 DEF Holders, Holds, TickOK
    <2>3. /\ Cardinality(Holders(x)') <= Cardinality(Holders(x))
          /\ x = s => Cardinality(Holders(x)') + 1 <= Cardinality(Holders(x))
          /\ Cardinality(Holders(x)) \in Nat /\ Cardinality(Holders(x)') \in Nat
          /\ Cardinality(Ticks) \in Nat
        BY <2>2, TickSets DEF Holders
    <2>4. late[x] \in Nat
        BY <1>1
    <2> QED BY <2>1, <2>3, <2>4, <1>7
<1>14. PendingOK'
    <2> SUFFICES ASSUME NEW x \in Strategies, NEW y \in Signals
                 PROVE  Cardinality(Noting(x, y)') <= runs'[x][y].pending
        BY DEF PendingOK
    <2>1. /\ Cardinality(Noting(x, y)) <= runs[x][y].pending
          /\ runs[x][y].pending \in Nat
        BY <1>1 DEF IInv, PendingOK, RunCounts
    <2>2. CASE x = s /\ y = g
        <3>1. Noting(x, y)' \subseteq Noting(x, y) \cup {k}
            BY <1>5 DEF Noting, Notes
        <3>2. /\ Cardinality(Noting(x, y)') <= Cardinality(Noting(x, y)) + 1
              /\ Cardinality(Noting(x, y)) \in Nat
              /\ Cardinality(Noting(x, y)') \in Nat
            BY <3>1, TickSets DEF Noting
        <3> QED BY <2>1, <2>2, <3>2, <1>4, <1>6
    <2>3. CASE ~(x = s /\ y = g)
        <3>1. Noting(x, y)' \subseteq Noting(x, y)
            BY <2>3, <1>3, <1>5 DEF Noting, Notes
        <3>2. /\ Cardinality(Noting(x, y)') <= Cardinality(Noting(x, y))
              /\ Cardinality(Noting(x, y)) \in Nat
              /\ Cardinality(Noting(x, y)') \in Nat
            BY <3>1, TickSets DEF Noting
        <3> QED BY <2>1, <2>3, <3>2, <1>6
    <2> QED BY <2>2, <2>3
<1> QED
    BY <1>8, <1>9, <1>10, <1>11, <1>12, <1>13, <1>14 DEF IInv, Shape

LEMMA SendIInv ==
    ASSUME IInv, NEW k \in Ticks, Send(k) PROVE IInv'
<1>0. PICK s \in Strategies, g \in Signals :
          s = tick[k].cur /\ g = tick[k].signal
    BY DEF Send, IInv, Shape, TickOK
<1> DEFINE t == [tick[k] EXCEPT !.pc = "note"]
           c == [runs[s][g] EXCEPT !.sent = @ + 1]
<1>1. /\ tick[k].pc = "send" /\ tick[k] \in Tick /\ TickOK(k)
      /\ runs \in [Strategies -> [Signals -> RunCounts]]
    BY DEF Send, IInv, Shape, TypeOK, RunCounts
<1>2. /\ runs' = [runs EXCEPT ![s] = [runs[s] EXCEPT ![g] = c]]
      /\ tick' = [tick EXCEPT ![k] = t]
      /\ UNCHANGED <<row, market, request, events, lost, late, eras, triggers>>
    BY <1>0 DEF Send, history
<1>3. /\ t \in Tick /\ t.pc = "note" /\ t.cur = s /\ t.signal = g
      /\ t.todo = tick[k].todo /\ t.seen = tick[k].seen
    BY <1>0, <1>1 DEF Tick
<1>4. /\ c \in RunCounts
      /\ c.pending = runs[s][g].pending /\ c.queued = runs[s][g].queued
    BY <1>1 DEF RunCounts
<1> HIDE DEF t, c
<1>5. /\ tick' \in [Ticks -> Tick]
      /\ tick'[k] = t
      /\ \A j \in Ticks : j # k => tick'[j] = tick[j]
    BY <1>2, <1>3, TickMoves DEF IInv
<1>6. /\ runs' \in [Strategies -> [Signals -> RunCounts]]
      /\ \A x \in Strategies, y \in Signals :
             /\ runs'[x][y].pending = runs[x][y].pending
             /\ runs'[x][y].queued = runs[x][y].queued
             /\ runs[x][y].pending \in Nat
    BY <1>1, <1>2, <1>4, AddRun DEF RunCounts
<1>7. /\ TypeOK'
      /\ \A j \in Ticks : TickOK(j)'
      /\ \A h \in Requests : RequestOK(h)'
    BY <1>0, <1>1, <1>2, <1>3, <1>5, <1>6
       DEF IInv, Shape, TypeOK, TickOK, RequestOK, RunCounts
<1>8. \A j \in Ticks, x \in Strategies :
          /\ Holds(j, x)' => Holds(j, x)
          /\ \A y \in Signals : /\ MayMark(j, x, y)' => MayMark(j, x, y)
                                /\ Notes(j, x, y)' => Notes(j, x, y)
    BY <1>0, <1>1, <1>3, <1>5 DEF Holds, MayMark, Notes
<1>9. KeyHasRun'
    BY <1>1, <1>2, <1>5, <1>6, KeepKey DEF IInv, Created
<1>10. ErasOK' /\ LateOK'
    BY <1>2, <1>8, KeepEras, KeepLate DEF IInv, Shape, TypeOK
<1>11. PendingOK'
    BY <1>6, <1>8, KeepPending DEF IInv
<1> QED BY <1>7, <1>9, <1>10, <1>11 DEF IInv, Shape

LEMMA ShiftIInv ==
    ASSUME IInv, NEW s \in Strategies, Shift(s) PROVE IInv'
<1>1. /\ UNCHANGED <<row, tick, runs, request, lost, late, eras, triggers>>
      /\ market' \in [Strategies -> Signals \cup {None}]
      /\ events' \in 0..MaxEvents
    BY EventTyped DEF Shift, history, IInv, Shape, TypeOK
<1>2. TypeOK' /\ (\A k \in Ticks : TickOK(k)')
              /\ (\A h \in Requests : RequestOK(h)')
    BY <1>1 DEF IInv, Shape, TypeOK, TickOK, RequestOK
<1>3. KeyHasRun'
    BY <1>1 DEF IInv, KeyHasRun, Created
<1>4. ErasOK'
    BY <1>1 DEF IInv, ErasOK, MayMark
<1>5. LateOK'
    BY <1>1 DEF IInv, LateOK, Holders, Holds
<1>6. PendingOK'
    BY <1>1 DEF IInv, PendingOK, Noting, Notes
<1> QED BY <1>2, <1>3, <1>4, <1>5, <1>6 DEF IInv, Shape

-----------------------------------------------------------------------------
(* The theorems.                                                           *)

LEMMA InitIInv == Init => IInv
<1> SUFFICES ASSUME Init PROVE IInv
    OBVIOUS
<1>1. /\ IdleRequest \in Request /\ NoRuns \in RunCounts
      /\ 0 \in 0..MaxEvents
    BY MonitorAssumption DEF IdleRequest, Request, NoRuns, RunCounts
<1>2. /\ row \in [Strategies -> Row]
      /\ \A s \in Strategies : row[s].key = None
    BY DEF Init
<1>3. TypeOK
    BY <1>1, <1>2, IdleTyped DEF Init, TypeOK, RunCounts
<1>4. /\ \A k \in Ticks : TickOK(k)
      /\ \A h \in Requests : RequestOK(h)
    BY DEF Init, TickOK, RequestOK, IdleTick, IdleRequest
<1>5. KeyHasRun
    BY <1>2, MonitorAssumption DEF KeyHasRun
<1>6. ErasOK
    BY DEF Init, ErasOK
<1>7. LateOK
    BY TickSets DEF Init, LateOK, Holders
<1>8. PendingOK
    <2> SUFFICES ASSUME NEW s \in Strategies, NEW g \in Signals
                 PROVE  Cardinality(Noting(s, g)) <= runs[s][g].pending
        BY DEF PendingOK
    <2>1. Noting(s, g) = {}
        BY DEF Init, Noting, Notes, IdleTick
    <2>2. runs[s][g].pending = 0
        BY DEF Init, NoRuns
    <2> QED BY <2>1, <2>2, FS_EmptySet
<1> QED BY <1>3, <1>4, <1>5, <1>6, <1>7, <1>8 DEF IInv, Shape

LEMMA StutterIInv == IInv /\ UNCHANGED vars => IInv'
<1> SUFFICES ASSUME IInv, UNCHANGED vars PROVE IInv'
    OBVIOUS
<1>1. (Shape /\ KeyHasRun)'
    BY DEF vars, history, IInv, Shape, TypeOK, TickOK, RequestOK, KeyHasRun, Created
<1>2. ErasOK'
    BY DEF vars, history, IInv, ErasOK, MayMark
<1>3. LateOK'
    BY DEF vars, history, IInv, LateOK, Holders, Holds
<1>4. PendingOK'
    BY DEF vars, history, IInv, PendingOK, Noting, Notes
<1> QED BY <1>1, <1>2, <1>3, <1>4 DEF IInv

LEMMA NextIInv == IInv /\ [Next]_vars => IInv'
<1> SUFFICES ASSUME IInv, Next PROVE IInv'
    BY StutterIInv
<1>1. CASE \E h \in Requests : RequestStep(h)
    BY <1>1, RequestIInv
<1>2. CASE \E k \in Ticks : TickStep(k)
    BY <1>2, QueryIInv, CheckIInv, FetchIInv, MarkIInv, CreateIInv, SendIInv,
       NoteIInv DEF TickStep
<1>3. CASE \E k \in Ticks : TickFault(k)
    BY <1>3, FaultIInv
<1>4. CASE \E s \in Strategies : Shift(s)
    BY <1>4, ShiftIInv
<1> QED BY <1>1, <1>2, <1>3, <1>4 DEF Next

\* The inductive invariant holds: what a tick has read and may still do agrees
\* with the eras of the keys, the runs created and those still to be noted.
THEOREM Invariance == Spec => []IInv
BY InitIInv, NextIInv, PTL DEF Spec

\* The state is typed; in particular no run is noted that is not pending.
THEOREM TypeCorrect == Spec => []TypeOK
BY Invariance, PTL DEF IInv, Shape

\* A committed key has a run, or a tick about to create it, or it was lost to
\* a named fault.
THEOREM KeysHaveRuns == Spec => []KeyHasRun
BY Invariance, PTL DEF IInv

\* However many ticks overlap, one tick acts on a signal at most once for each
\* time the row has come to hold another key.
THEOREM TicksTriggerOnce == Spec => []NoTickTriggersTwice
<1>1. IInv => NoTickTriggersTwice
    BY DEF IInv, ErasOK, NoTickTriggersTwice
<1> QED BY <1>1, Invariance, PTL

\* After the monitoring of a strategy stops, each tick in flight creates one
\* run for it at most, and no other tick does.
THEOREM LateRunsBounded == Spec => []LateRunsAreBounded
<1>1. IInv => LateRunsAreBounded
    <2> SUFFICES ASSUME IInv, NEW s \in Strategies, ~row[s].monitoring
                 PROVE  late[s] <= Cardinality(Ticks)
        BY DEF LateRunsAreBounded
    <2>1. late[s] + Cardinality(Holders(s)) <= Cardinality(Ticks)
        BY DEF IInv, LateOK
    <2>2. /\ Cardinality(Holders(s)) \in Nat /\ Cardinality(Ticks) \in Nat
          /\ late[s] \in Nat
        BY TickSets DEF Holders, IInv, Shape, TypeOK
    <2> QED BY <2>1, <2>2
<1> QED BY <1>1, Invariance, PTL
=============================================================================
