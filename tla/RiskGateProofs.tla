--------------------------- MODULE RiskGateProofs ---------------------------
(***************************************************************************)
(* Proofs about RiskGate, for every set of pipelines and every limit:      *)
(* types, that no reading of the broker misses an older position, and that *)
(* an order beyond max_positions has one of three causes.                  *)
(***************************************************************************)
EXTENDS RiskGate, TLAPS

\* A trade is accepted on what its pipeline has read, and then it is ordered.
Judged ==
    \A p \in Pipes : pipe[p].tool = "accepted" =>
        At(p, "order") /\ pipe[p].view.count < MaxPositions

IInv == TypeOK /\ ReadingsCount /\ Judged

\* v counts every position that is not younger, for a number of open positions.
Covers(v, n) == v.read = "broker" => n <= v.count + v.since

Cached(v, n) == v = None \/ Covers(v, n)

-----------------------------------------------------------------------------
(* Values                                                                  *)

LEMMA EmptyTyped ==
    ASSUME NEW how \in {"degraded", "default"}
    PROVE  Empty(how) \in Reading /\ Empty(how).read # "broker"
BY DEF Empty, Reading

LEMMA IdleTyped ==
    Idle \in Pipe /\ Idle.view.read # "broker" /\ Idle.tool = "none"
BY DEF Idle, Pipe, Phases, Empty, Reading

LEMMA FreshTyped ==
    ASSUME open \in Nat
    PROVE  /\ Fresh \in Reading
           /\ Fresh.count = open /\ Fresh.since = 0 /\ Fresh.read = "broker"
BY DEF Fresh, Reading

\* A reading grows older by the position that is opened.
LEMMA OlderCovers ==
    ASSUME NEW v \in Reading, open \in Nat, Covers(v, open)
    PROVE  Older(v) \in Reading /\ Covers(Older(v), open + 1)
           /\ Older(v).count = v.count
<1>1. CASE v.read = "broker"
    <2>1. PICK o : o = [v EXCEPT !.since = v.since + 1]
        OBVIOUS
    <2>2. /\ o.count = v.count /\ o.since = v.since + 1 /\ o \in Reading
        BY <2>1 DEF Reading
    <2>3. v.count \in Nat /\ v.since \in Nat
        BY DEF Reading
    <2>4. Older(v) = o
        BY <1>1, <2>1 DEF Older
    <2>5. open + 1 <= o.count + o.since
        BY <1>1, <2>2, <2>3 DEF Covers
    <2> QED BY <2>2, <2>4, <2>5 DEF Covers
<1>2. CASE v.read # "broker"
    <2>1. Older(v) = v
        BY <1>2 DEF Older
    <2> QED BY <1>2, <2>1 DEF Covers
<1> QED BY <1>1, <1>2

-----------------------------------------------------------------------------
(* A step of one pipeline                                                  *)

\* Pipeline p moves to y, the broker stays as it is, and what is cached is a
\* reading that may be cached.
LEMMA PipeMoves ==
    ASSUME IInv, NEW p \in Pipes, NEW y \in Pipe,
           pipe' = [pipe EXCEPT ![p] = y],
           Covers(y.view, open),
           y.tool = "accepted" => y.pc = "order" /\ y.view.count < MaxPositions,
           positions' \in Reading \cup {None}, Cached(positions', open),
           lock' \in Pipes \cup {None},
           UNCHANGED <<open, fills>>
    PROVE  IInv'
<1>1. TypeOK'
    BY DEF IInv, TypeOK
<1>2. \A q \in Pipes : pipe'[q] = IF q = p THEN y ELSE pipe[q]
    BY DEF IInv, TypeOK
<1>3. ReadingsCount'
    BY <1>2 DEF IInv, ReadingsCount, Counts, Covers, Cached
<1>4. Judged'
    BY <1>2 DEF IInv, Judged, At
<1> QED BY <1>1, <1>3, <1>4 DEF IInv

\* What a pipeline and the cache hold before the step.
LEMMA Held ==
    ASSUME IInv, NEW p \in Pipes
    PROVE  /\ pipe[p] \in Pipe /\ pipe[p].view \in Reading
           /\ Covers(pipe[p].view, open)
           /\ pipe[p].tool = "accepted" =>
                  pipe[p].pc = "order" /\ pipe[p].view.count < MaxPositions
           /\ positions \in Reading \cup {None} /\ Cached(positions, open)
           /\ lock \in Pipes \cup {None} /\ open \in Nat
           /\ pipe \in [Pipes -> Pipe]
BY DEF IInv, TypeOK, ReadingsCount, Counts, Covers, Cached, Judged, At, Pipe

\* Only the program counter changes, before the decision.
LEMMA GoesKeeps ==
    ASSUME IInv, NEW p \in Pipes, NEW pc \in Phases, Goes(p, pc),
           pipe[p].pc # "order",
           positions' \in Reading \cup {None}, Cached(positions', open),
           lock' \in Pipes \cup {None},
           UNCHANGED <<open, fills>>
    PROVE  IInv'
<1>1. PICK y : y = [pipe[p] EXCEPT !.pc = pc]
    OBVIOUS
<1>2. y \in Pipe /\ y.view = pipe[p].view /\ y.tool = pipe[p].tool
    BY <1>1, Held DEF Pipe
<1>3. pipe' = [pipe EXCEPT ![p] = y]
    BY <1>1, Held DEF Goes
<1>4. Covers(y.view, open) /\ y.tool # "accepted"
    BY <1>2, Held
<1> QED BY <1>2, <1>3, <1>4, PipeMoves

\* The call of get_positions returns v.
LEMMA ReturnsKeeps ==
    ASSUME IInv, NEW p \in Pipes, NEW v \in Reading, Returns(p, v),
           Covers(v, open),
           positions' \in Reading \cup {None}, Cached(positions', open),
           lock' \in Pipes \cup {None},
           UNCHANGED <<open, fills>>
    PROVE  IInv'
<1>1. PICK y : y = [Idle EXCEPT !.pc = "decide", !.view = v]
    OBVIOUS
<1>2. y \in Pipe /\ y.view = v /\ y.tool = "none"
    BY <1>1 DEF Idle, Pipe, Phases
<1>3. pipe' = [pipe EXCEPT ![p] = y]
    BY <1>1 DEF Returns
<1> QED BY <1>2, <1>3, PipeMoves

\* p sees v and goes on.
LEMMA SeesKeeps ==
    ASSUME IInv, NEW p \in Pipes, NEW v \in Reading, NEW pc \in Phases,
           Sees(p, v, pc), pipe[p].pc # "order", Covers(v, open),
           positions' \in Reading \cup {None}, Cached(positions', open),
           lock' \in Pipes \cup {None},
           UNCHANGED <<open, fills>>
    PROVE  IInv'
<1>1. PICK y : y = [pipe[p] EXCEPT !.view = v, !.pc = pc]
    OBVIOUS
<1>2. y \in Pipe /\ y.view = v /\ y.tool = pipe[p].tool
    BY <1>1, Held DEF Pipe
<1>3. pipe' = [pipe EXCEPT ![p] = y]
    BY <1>1, Held DEF Sees
<1>4. y.tool # "accepted"
    BY <1>2, Held
<1> QED BY <1>2, <1>3, <1>4, PipeMoves

LEMMA ReleasesKeeps ==
    ASSUME IInv, NEW p \in Pipes, NEW v \in Reading,
           Releases(p, v), pipe[p].pc # "order", Covers(v, open),
           positions' \in Reading \cup {None}, Cached(positions', open),
           lock' \in Pipes \cup {None},
           UNCHANGED <<open, fills>>
    PROVE  IInv'
<1>1. CASE pipe[p].token
    <2>1. Sees(p, v, "release")
        BY <1>1 DEF Releases
    <2> QED BY <2>1, SeesKeeps DEF Phases
<1>2. CASE ~pipe[p].token
    BY <1>2, ReturnsKeeps DEF Releases
<1> QED BY <1>1, <1>2

LEMMA LeavesKeeps ==
    ASSUME IInv, NEW p \in Pipes, Leaves(p),
           UNCHANGED <<broker, positions, lock>>
    PROVE  IInv'
<1>1. Covers(Idle.view, open) /\ Idle.tool # "accepted" /\ Idle \in Pipe
    BY IdleTyped DEF Covers
<1>2. pipe' = [pipe EXCEPT ![p] = Idle] /\ UNCHANGED <<open, fills, positions, lock>>
    BY DEF Leaves, broker
<1>3. /\ positions' \in Reading \cup {None} /\ Cached(positions', open)
      /\ lock' \in Pipes \cup {None}
    BY <1>2, Held
<1> QED BY <1>1, <1>2, <1>3, PipeMoves

-----------------------------------------------------------------------------
(* The steps of a pipeline                                                 *)

LEMMA GetPositionsKeeps ==
    ASSUME IInv, NEW p \in Pipes, GetPositions(p) PROVE IInv'
<1> USE Held DEF broker
<1>1. CASE Lookup(p)
    <2>1. CASE positions # None
        <3>1. positions \in Reading /\ Returns(p, positions) /\ Covers(positions, open)
            BY <1>1, <2>1 DEF Lookup, Cached
        <3> QED BY <1>1, <3>1, ReturnsKeeps DEF Lookup
    <2>2. CASE positions = None
        BY <1>1, <2>2, GoesKeeps DEF Lookup, At, Phases
    <2> QED BY <2>1, <2>2
<1>2. CASE Acquire(p)
    <2>1. CASE lock = None
        <3>1. PICK y : y = [pipe[p] EXCEPT !.token = TRUE, !.pc = "fetch"]
            OBVIOUS
        <3>2. y \in Pipe /\ y.view = pipe[p].view /\ y.tool = pipe[p].tool
            BY <3>1 DEF Pipe, Phases
        <3>3. pipe' = [pipe EXCEPT ![p] = y] /\ lock' = p
            BY <1>2, <2>1, <3>1 DEF Acquire
        <3>4. y.tool # "accepted" /\ Covers(y.view, open)
            BY <1>2, <3>2 DEF Acquire, At
        <3> QED BY <1>2, <3>2, <3>3, <3>4, PipeMoves DEF Acquire
    <2>2. CASE lock # None
        BY <1>2, <2>2, GoesKeeps DEF Acquire, At, Phases
    <2> QED BY <2>1, <2>2
<1>3. CASE WaitHit(p)
    <2>1. positions \in Reading /\ Returns(p, positions) /\ Covers(positions, open)
        BY <1>3 DEF WaitHit, Cached
    <2> QED BY <1>3, <2>1, ReturnsKeeps DEF WaitHit
<1>4. CASE WaitTimeout(p)
    BY <1>4, GoesKeeps DEF WaitTimeout, At, Phases
<1>5. CASE Fetch(p)
    <2>1. Fresh \in Reading /\ Covers(Fresh, open)
        BY FreshTyped DEF Covers
    <2>2. CASE Sees(p, Fresh, "store")
        BY <1>5, <2>1, <2>2, SeesKeeps DEF Fetch, At, Phases
    <2>3. CASE Returns(p, Fresh)
        BY <1>5, <2>1, <2>3, ReturnsKeeps DEF Fetch
    <2> QED BY <1>5, <2>2, <2>3 DEF Fetch
<1>6. CASE Store(p)
    BY <1>6, ReleasesKeeps DEF Store, At, Cached
<1>7. CASE Release(p)
    <2>1. CASE lock = p
        BY <1>7, <2>1, GoesKeeps DEF Release, At, Phases
    <2>2. CASE lock # p
        BY <1>7, <2>2, ReturnsKeeps DEF Release
    <2> QED BY <2>1, <2>2
<1>8. CASE Delete(p)
    BY <1>8, ReturnsKeeps DEF Delete
<1> QED BY <1>1, <1>2, <1>3, <1>4, <1>5, <1>6, <1>7, <1>8 DEF GetPositions

LEMMA DecideKeeps ==
    ASSUME IInv, NEW p \in Pipes, Decide(p) PROVE IInv'
<1>1. PICK tool \in Answer(pipe[p].view), approves \in BOOLEAN :
          pipe' = [pipe EXCEPT ![p].tool = tool, ![p].pc = "order"]
    BY DEF Decide
<1>2. /\ tool \in {"none", "accepted", "rejected"}
      /\ tool = "accepted" => pipe[p].view.count < MaxPositions
    BY <1>1 DEF Answer, Accepts
<1>3. PICK y : y = [pipe[p] EXCEPT !.tool = tool, !.pc = "order"]
    OBVIOUS
<1>4. /\ y \in Pipe /\ y.view = pipe[p].view /\ y.tool = tool /\ y.pc = "order"
    BY <1>2, <1>3, Held DEF Pipe, Phases
<1>5. pipe' = [pipe EXCEPT ![p] = y]
    BY <1>1, <1>3, Held
<1>6. Covers(y.view, open)
    BY <1>4, Held
<1>7. UNCHANGED <<open, fills, positions, lock>>
    BY DEF Decide, broker
<1> QED BY <1>2, <1>4, <1>5, <1>6, <1>7, Held, PipeMoves

\* An order ages every reading by the position it opens.
LEMMA OrderKeeps ==
    ASSUME IInv, NEW p \in Pipes, Order(p) PROVE IInv'
<1>1. /\ open \in Nat /\ open' = open + 1 /\ fills' \in 0..MaxFills
      /\ lock' = lock /\ lock \in Pipes \cup {None}
    BY GateAssumption, Held DEF Order, IInv, TypeOK
<1>2. positions' \in Reading \cup {None} /\ Cached(positions', open')
    <2>1. CASE positions = None
        BY <2>1 DEF Order, Cached
    <2>2. CASE positions # None
        BY <1>1, <2>2, Held, OlderCovers DEF Order, Cached
    <2> QED BY <2>1, <2>2
<1>3. ASSUME NEW q \in Pipes
      PROVE  /\ pipe'[q] \in Pipe /\ Covers(pipe'[q].view, open')
             /\ pipe'[q].tool = "accepted" =>
                    pipe'[q].pc = "order" /\ pipe'[q].view.count < MaxPositions
    <2>1. CASE q = p
        <3>1. pipe'[q] = Idle
            BY <2>1 DEF Order
        <3> QED BY <3>1, IdleTyped DEF Covers
    <2>2. CASE q # p
        <3>1. PICK v \in Reading : /\ v = Older(pipe[q].view)
                                   /\ Covers(v, open + 1)
                                   /\ v.count = pipe[q].view.count
            BY <1>1, Held, OlderCovers
        <3>2. pipe'[q] = [pipe[q] EXCEPT !.view = v]
            BY <2>2, <3>1 DEF Order
        <3>3. /\ pipe'[q] \in Pipe /\ pipe'[q].view = v
              /\ pipe'[q].tool = pipe[q].tool /\ pipe'[q].pc = pipe[q].pc
            BY <3>1, <3>2, Held DEF Pipe
        <3> QED BY <1>1, <3>1, <3>3, Held
    <2> QED BY <2>1, <2>2
<1>4. pipe' \in [Pipes -> Pipe]
    BY <1>3 DEF Order
<1>5. TypeOK'
    BY <1>1, <1>2, <1>4 DEF TypeOK
<1>6. ReadingsCount'
    BY <1>2, <1>3 DEF ReadingsCount, Counts, Covers, Cached
<1>7. Judged'
    BY <1>3 DEF Judged, At
<1> QED BY <1>5, <1>6, <1>7 DEF IInv

LEMMA FaultKeeps ==
    ASSUME IInv, NEW p \in Pipes, PipeFault(p) PROVE IInv'
<1> USE Held DEF broker
<1>1. CASE StateError(p)
    <2>1. Empty("default") \in Reading /\ Covers(Empty("default"), open)
        BY EmptyTyped DEF Covers
    <2> QED BY <1>1, <2>1, ReturnsKeeps DEF StateError
<1>2. CASE FetchFails(p)
    <2>1. Empty("degraded") \in Reading /\ Covers(Empty("degraded"), open)
        BY EmptyTyped DEF Covers
    <2> QED BY <1>2, <2>1, ReleasesKeeps DEF FetchFails, At
<1>3. CASE RedisFails(p)
    <2>1. CASE /\ pipe[p].pc \in {"lookup", "lock", "wait"}
               /\ pipe' = [pipe EXCEPT ![p].cached = FALSE, ![p].pc = "fetch"]
               /\ lock' \in {lock} \cup IF At(p, "lock") /\ lock = None THEN {p} ELSE {}
               /\ UNCHANGED positions
        <3>1. PICK y : y = [pipe[p] EXCEPT !.cached = FALSE, !.pc = "fetch"]
            OBVIOUS
        <3>2. y \in Pipe /\ y.view = pipe[p].view /\ y.tool = pipe[p].tool
            BY <3>1 DEF Pipe, Phases
        <3>3. pipe' = [pipe EXCEPT ![p] = y]
            BY <2>1, <3>1
        <3>4. y.tool # "accepted" /\ Covers(y.view, open)
            BY <2>1, <3>2
        <3>5. lock' \in Pipes \cup {None}
            BY <2>1
        <3> QED BY <1>3, <2>1, <3>2, <3>3, <3>4, <3>5, PipeMoves DEF RedisFails
    <2>2. CASE /\ At(p, "store") /\ Returns(p, pipe[p].view)
               /\ positions' \in {positions, pipe[p].view} /\ UNCHANGED lock
        BY <1>3, <2>2, ReturnsKeeps DEF RedisFails, Cached
    <2>3. CASE /\ Returns(p, pipe[p].view)
               /\ lock' \in {lock} \cup IF At(p, "delete") THEN {None} ELSE {}
               /\ UNCHANGED positions
        <3>1. lock' \in Pipes \cup {None}
            BY <2>3
        <3> QED BY <1>3, <2>3, <3>1, ReturnsKeeps DEF RedisFails
    <2> QED BY <1>3, <2>1, <2>2, <2>3 DEF RedisFails
<1>4. CASE Lost(p)
    BY <1>4, LeavesKeeps DEF Lost
<1> QED BY <1>1, <1>2, <1>3, <1>4 DEF PipeFault

-----------------------------------------------------------------------------
(* The other steps                                                         *)

\* The pipelines stay as they are, and no position is opened.
LEMMA OthersKeep ==
    ASSUME IInv, open' \in Nat, open' <= open, UNCHANGED <<pipe, fills>>,
           positions' \in Reading \cup {None}, Cached(positions', open'),
           lock' \in Pipes \cup {None}
    PROVE  IInv'
<1>1. TypeOK'
    BY DEF IInv, TypeOK
<1>2. ASSUME NEW q \in Pipes PROVE Counts(pipe[q].view)'
    <2>1. /\ pipe[q].view.count \in Nat /\ pipe[q].view.since \in Nat
          /\ pipe[q].view.read = "broker" =>
                 open <= pipe[q].view.count + pipe[q].view.since
        BY Held DEF Covers, Reading
    <2>2. open \in Nat
        BY Held
    <2> QED BY <2>1, <2>2 DEF Counts
<1>3. ReadingsCount'
    BY <1>2 DEF ReadingsCount, Counts, Covers, Cached
<1>4. Judged'
    BY DEF IInv, Judged, At
<1> QED BY <1>1, <1>3, <1>4 DEF IInv

LEMMA ElsewhereKeeps ==
    ASSUME IInv, Elsewhere PROVE IInv'
<1>1. /\ open \in Nat /\ lock \in Pipes \cup {None}
      /\ positions \in Reading \cup {None} /\ Cached(positions, open)
    BY DEF IInv, TypeOK, ReadingsCount, Counts, Covers, Cached
<1>2. CASE ExpirePositions
    BY <1>1, <1>2, OthersKeep DEF ExpirePositions, broker, Cached
<1>3. CASE ExpireLock
    BY <1>1, <1>3, OthersKeep DEF ExpireLock, broker
<1>4. CASE Closed
    <2>1. /\ open' \in Nat /\ open' <= open
          /\ UNCHANGED <<fills, positions, lock, pipe>>
        BY <1>1, <1>4 DEF Closed
    <2>2. Cached(positions, open')
        BY <1>1, <2>1 DEF Covers, Cached, Reading
    <2> QED BY <1>1, <2>1, <2>2, OthersKeep
<1> QED BY <1>2, <1>3, <1>4 DEF Elsewhere

-----------------------------------------------------------------------------
(* The theorems                                                            *)

LEMMA InitIInv == Init => IInv
<1> SUFFICES ASSUME Init PROVE IInv
    OBVIOUS
<1>1. open \in Nat /\ fills \in 0..MaxFills
    BY GateAssumption DEF Init
<1>2. \A p \in Pipes : pipe[p] = Idle
    BY DEF Init
<1>3. TypeOK
    BY <1>1, IdleTyped DEF Init, TypeOK
<1>4. ReadingsCount /\ Judged
    BY <1>2, IdleTyped DEF Init, ReadingsCount, Counts, Judged
<1> QED BY <1>3, <1>4 DEF IInv

LEMMA StutterIInv == IInv /\ UNCHANGED vars => IInv'
BY DEF IInv, TypeOK, ReadingsCount, Counts, Judged, At, vars

LEMMA NextIInv == IInv /\ [Next]_vars => IInv'
<1> SUFFICES ASSUME IInv, Next PROVE IInv'
    BY StutterIInv
<1>1. ASSUME NEW p \in Pipes, Begin(p) PROVE IInv'
    BY <1>1, Held, GoesKeeps DEF Begin, At, Phases, broker
<1>2. ASSUME NEW p \in Pipes, PipeStep(p) PROVE IInv'
    <2>1. CASE GetPositions(p)
        BY <2>1, GetPositionsKeeps
    <2>2. CASE Decide(p)
        BY <2>2, DecideKeeps
    <2>3. CASE Order(p)
        BY <2>3, OrderKeeps
    <2>4. CASE Hold(p) \/ OrderRefused(p)
        BY <2>4, LeavesKeeps DEF Hold, OrderRefused
    <2> QED BY <1>2, <2>1, <2>2, <2>3, <2>4 DEF PipeStep
<1>3. ASSUME NEW p \in Pipes, PipeFault(p) PROVE IInv'
    BY <1>3, FaultKeeps
<1> QED BY <1>1, <1>2, <1>3, ElsewhereKeeps DEF Next

\* IInv is an invariant.
THEOREM Invariance == Spec => []IInv
BY InitIInv, NextIInv, PTL DEF Spec

\* The gate keeps to its types, for every set of pipelines and every limit.
THEOREM TypeCorrect == Spec => []TypeOK
<1>1. IInv => TypeOK
    BY DEF IInv
<1> QED BY <1>1, Invariance, PTL

\* However a reading travels, through the cache or a writer whose lock has
\* expired, it misses no position but those opened after it.
THEOREM ReadingsCountHolds == Spec => []ReadingsCount
<1>1. IInv => ReadingsCount
    BY DEF IInv
<1> QED BY <1>1, Invariance, PTL

\* An order beyond max_positions was not accepted by the engine, was judged on
\* no reading of the broker, or another position was opened since the reading.
THEOREM BreachIsExplainedHolds == Spec => BreachIsExplained
<1> DEFINE Explained ==
        \A p \in Pipes :
            At(p, "order") /\ At(p, "idle")' /\ open' > open
                /\ open >= MaxPositions =>
              \/ pipe[p].tool # "accepted"
              \/ pipe[p].view.read # "broker"
              \/ pipe[p].view.since > 0
<1>1. IInv => Explained
    <2> SUFFICES ASSUME IInv, NEW p \in Pipes, open >= MaxPositions,
                        pipe[p].tool = "accepted", pipe[p].view.read = "broker"
                 PROVE  pipe[p].view.since > 0
        BY DEF Explained
    <2>1. /\ pipe[p].view.count \in Nat /\ pipe[p].view.since \in Nat
          /\ open \in Nat /\ pipe[p].view.count < MaxPositions
        BY Held DEF Reading
    <2>2. MaxPositions \in Nat
        BY GateAssumption
    <2>3. open <= pipe[p].view.count + pipe[p].view.since
        BY Held DEF IInv, ReadingsCount, Counts
    <2> QED BY <2>1, <2>2, <2>3
<1>2. IInv => [Explained]_vars
    BY <1>1
<1> QED BY <1>2, Invariance, PTL DEF BreachIsExplained
=============================================================================
