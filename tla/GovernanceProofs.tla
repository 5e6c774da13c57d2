-------------------------- MODULE GovernanceProofs --------------------------
(***************************************************************************)
(* Theorems about Governance, for any set of positions, loops, handlers    *)
(* and workers, any number of runs and every combination of faults.        *)
(*                                                                         *)
(* The invariant says who may hold a run: a loop owns the run it evaluates *)
(* and nobody has approved that run yet; a human handler only holds a run  *)
(* whose decision is written; a worker past its checks holds a run that    *)
(* was approved.  Rows are written through operators (WithStatus, Decided, *)
(* ...), so one lemma per operator says which columns it leaves alone and  *)
(* the step proofs never unfold a record.                                  *)
(***************************************************************************)
EXTENDS Governance, FiniteSetTheorems, TLAPS

-----------------------------------------------------------------------------
(* The inductive invariant.                                                *)

\* The run has been approved by someone entitled to approve it.
Gate(r) == \/ "human" \in approvers[r]
           \/ rows[r].auto /\ "auto" \in approvers[r]

NoAction(r) == rows[r].action \in {"HOLD", None}

\* The position is gone, or a refusal said so of something else.
Gone(r) == ~pos[rows[r].ticket].open \/ r \in misread

\* What is in the table agrees with what was approved and what was done.
RowOK(r) ==
    /\ rows[r].status = Absent => rows[r].action = None /\ approvers[r] = {}
    /\ rows[r].status # Absent => rows[r].ticket \in Tickets
    /\ rows[r].status = "completed" => rows[r].action # None
    /\ rows[r].approval = "approved" => Gate(r)
    /\ rows[r].approval = "approved" /\ "failed_commit" \notin Faults =>
           rows[r].action # None
    /\ acts[r] > 0 => Gate(r) /\ ~NoAction(r)
    /\ rows[r].executed =>
           /\ Gate(r)
           /\ acts[r] > 0 \/ NoAction(r) \/ Gone(r)
           /\ rows[r].action = "CLOSE" => Gone(r)

Evaluating(l) == loop[l].pc \in {"created", "running"}
Working(l)    == loop[l].pc \in {"created", "running", "decided", "dispatch"}

\* While a loop evaluates, its run has no decision and no approval.
LoopOK(l) ==
    /\ loop[l].pc \in {"mark", "create"} => loop[l].ticket \in Tickets
    /\ \A r \in loop[l].stale : rows[r].status # Absent
    /\ Working(l) =>
           /\ loop[l].run \in Runs
           /\ rows[loop[l].run].status # Absent
           /\ loop[l].auto = rows[loop[l].run].auto
    /\ Evaluating(l) =>
           /\ rows[loop[l].run].status # "completed"
           /\ rows[loop[l].run].action = None
           /\ approvers[loop[l].run] = {}
    /\ loop[l].pc = "decided" =>
           /\ loop[l].action # None
           /\ loop[l].action # "HOLD" /\ "failed_commit" \notin Faults =>
                  rows[loop[l].run].action = loop[l].action

\* No two loops work on one run.
LoopsApart ==
    \A k, l \in Loops :
        Working(k) /\ Working(l) /\ loop[k].run = loop[l].run => k = l

\* Only a decided run is on its way to a human approval.
ApiOK(h) ==
    /\ api[h].pc # "idle" =>
           api[h].run \in Runs /\ rows[api[h].run].status # Absent
    /\ api[h].pc \in {"approve", "dispatch"} => rows[api[h].run].action # None

\* A task past its checks holds an approved run, and its outcome is true.
WorkerOK(w) ==
    worker[w].pc # "idle" =>
        LET r == worker[w].run
        IN  /\ r \in Runs /\ rows[r].status # Absent /\ Gate(r)
            /\ worker[w].pc = "hold" => NoAction(r)
            /\ worker[w].pc \in {"broker", "commit"} => ~NoAction(r)
            /\ worker[w].pc = "commit" =>
                   /\ worker[w].outcome # None
                   /\ worker[w].outcome = "executed" =>
                        acts[r] > 0 /\ (rows[r].action = "CLOSE" => Gone(r))
                   /\ worker[w].outcome = "not found" => Gone(r)

RowInv    == \A r \in Runs : RowOK(r)
LoopInv   == \A l \in Loops : LoopOK(l)
ApiInv    == \A h \in Handlers : ApiOK(h)
WorkerInv == \A w \in Workers : WorkerOK(w)
QueueInv  == \A r \in Runs : queue[r] > 0 => rows[r].status # Absent

IInv == /\ TypeOK
        /\ RowInv /\ LoopInv /\ LoopsApart /\ ApiInv /\ WorkerInv /\ QueueInv

-----------------------------------------------------------------------------
(* What the operators on rows, locals and positions change and keep.       *)

\* A status update touches nothing else.
LEMMA StatusUpdate ==
    ASSUME NEW x \in Row, NEW s \in ActiveStatus \cup {"completed", "failed", Absent}
    PROVE  LET y == WithStatus(x, s) IN
        /\ y \in Row /\ y.status = s
        /\ y.ticket = x.ticket /\ y.auto = x.auto /\ y.approval = x.approval
        /\ y.action = x.action /\ y.executed = x.executed
  BY DEF WithStatus, Row

\* A decision completes the row and leaves approval and execution alone.
LEMMA DecisionUpdate ==
    ASSUME NEW x \in Row, NEW a \in Actions
    PROVE  LET y == Decided(x, a) IN
        /\ y \in Row /\ y.status = "completed" /\ y.action = a
        /\ y.ticket = x.ticket /\ y.auto = x.auto /\ y.approval = x.approval
        /\ y.executed = x.executed
  BY DEF Decided, Row, ActiveStatus

\* A change of approval leaves decision and execution alone.
LEMMA ApprovalUpdate ==
    ASSUME NEW x \in Row, NEW v \in {"pending", "approved", "rejected"}
    PROVE  LET y == WithApproval(x, v) IN
        /\ y \in Row /\ y.approval = v
        /\ y.status = x.status /\ y.ticket = x.ticket /\ y.auto = x.auto
        /\ y.action = x.action /\ y.executed = x.executed
  BY DEF WithApproval, Row

\* The end of an execution leaves decision and approval alone.
LEMMA SettlementUpdate ==
    ASSUME NEW x \in Row, NEW o \in {"executed", "not found", "failed"}
    PROVE  LET y == Settled(x, o) IN
        /\ y \in Row
        /\ y.executed <=> x.executed \/ o # "failed"
        /\ y.status = x.status /\ y.ticket = x.ticket /\ y.auto = x.auto
        /\ y.action = x.action /\ y.approval = x.approval
  BY DEF Settled, Row, None

\* A new row is pending, undecided and not executed.
LEMMA NewRowFields ==
    ASSUME NEW t \in Tickets, NEW b \in BOOLEAN
    PROVE  LET y == NewRow(t, b) IN
        /\ y \in Row /\ y.status = "pending" /\ y.ticket = t /\ y.auto = b
        /\ y.approval = "pending" /\ y.action = None /\ ~y.executed
  BY DEF NewRow, NoRow, Row, ActiveStatus, None, Absent

\* A row that does not exist is neither active, decided nor executed.
LEMMA NoRowFields ==
        /\ NoRow \in Row /\ NoRow.status = Absent /\ NoRow.action = None
        /\ NoRow.approval = "pending" /\ ~NoRow.executed
  BY DEF NoRow, Row, ActiveStatus, None, Absent

\* A loop between two positions.
LEMMA LoopBetween ==
    ASSUME NEW S \in SUBSET Tickets
    PROVE  LET y == Between(S) IN
        y \in LoopState /\ y.pc = "next" /\ y.todo = S /\ y.stale = {}
  BY DEF Between, IdleLoop, LoopState, None

\* A loop with a position in hand.
LEMMA LoopPicked ==
    ASSUME NEW S \in SUBSET Tickets, NEW t \in Tickets, NEW Q \in SUBSET Runs
    PROVE  LET y == Picked(S, t, Q) IN
        y \in LoopState /\ y.pc = "mark" /\ y.ticket = t /\ y.stale = Q
  BY DEF Picked, IdleLoop, LoopState, None

\* A loop that goes on keeps its locals.
LEMMA LoopGoto ==
    ASSUME NEW x \in LoopState, NEW p \in {"create", "running", "dispatch"}
    PROVE  LET y == Goto(x, p) IN
        /\ y \in LoopState /\ y.pc = p /\ y.todo = x.todo /\ y.ticket = x.ticket
        /\ y.stale = x.stale /\ y.run = x.run /\ y.auto = x.auto /\ y.action = x.action
  BY DEF Goto, LoopState

\* A loop that has created its run.
LEMMA LoopCreated ==
    ASSUME NEW x \in LoopState, NEW r \in Runs, NEW b \in BOOLEAN
    PROVE  LET y == Created(x, r, b) IN
        /\ y \in LoopState /\ y.pc = "created" /\ y.run = r /\ y.auto = b
        /\ y.stale = x.stale
  BY DEF Created, LoopState

\* A loop that has been told a decision.
LEMMA LoopTold ==
    ASSUME NEW x \in LoopState, NEW a \in Actions
    PROVE  LET y == Told(x, a) IN
        /\ y \in LoopState /\ y.pc = "decided" /\ y.action = a /\ y.run = x.run
        /\ y.auto = x.auto /\ y.stale = x.stale
  BY DEF Told, LoopState

\* Idle processes are processes.
LEMMA Idle ==
    /\ IdleLoop \in LoopState /\ IdleLoop.pc = "idle" /\ IdleLoop.stale = {}
    /\ IdleApi \in ApiState /\ IdleApi.pc = "idle"
    /\ IdleWorker \in WorkerState /\ IdleWorker.pc = "idle"
  BY DEF IdleLoop, IdleApi, IdleWorker, LoopState, ApiState, WorkerState, None

\* What a broker action leaves is a position; CLOSE closes it.
LEMMA PositionApplied ==
    ASSUME NEW p \in Position, NEW a \in Actions \ {"HOLD"}
    PROVE  /\ Applied(p, a) \in Position
           /\ ~p.open => ~Applied(p, a).open
           /\ a = "CLOSE" => ~Applied(p, a).open
  BY DEF Applied, Position, Level, Actions, TraceLevel, None

\* What a close by stop, target or owner leaves is a closed position.
LEMMA PositionClosed ==
    ASSUME NEW p \in Position
    PROVE  [p EXCEPT !.open = FALSE] \in Position /\ ~[p EXCEPT !.open = FALSE].open
  BY DEF Position

\* Growing old changes neither status nor decision nor approval.
LEMMA RowAged ==
    ASSUME NEW x \in Row, NEW y, y \in {[x EXCEPT !.recent = FALSE], [x EXCEPT !.cooling = FALSE]}
    PROVE  /\ y \in Row /\ y.status = x.status /\ y.ticket = x.ticket
           /\ y.auto = x.auto /\ y.approval = x.approval
           /\ y.action = x.action /\ y.executed = x.executed
  BY DEF Row

-----------------------------------------------------------------------------
(* Steps that only add to what others rely on.                             *)

\* Runs stay created, decisions and gates stay, positions stay closed.
Grows ==
    /\ \A r \in Runs :
         /\ rows[r].status # Absent =>
              rows'[r].status # Absent /\ rows'[r].ticket = rows[r].ticket
         /\ rows[r].action # None => rows'[r].action = rows[r].action
         /\ Gate(r) => Gate(r)' /\ rows'[r].action = rows[r].action
         /\ acts[r] > 0 => acts'[r] > 0
    /\ \A t \in Tickets : ~pos[t].open => ~pos'[t].open
    /\ \A r \in Runs : r \in misread => r \in misread'

\* Under such a step, a task that does not move keeps what it relies on.
LEMMA TaskKept ==
    ASSUME IInv, Grows, NEW v \in Workers, worker'[v] = worker[v]
    PROVE  WorkerOK(v)'
<1>1. WorkerOK(v)
  BY DEF IInv, WorkerInv
<1>2. ASSUME NEW r \in Runs, rows[r].status # Absent, Gate(r)
      PROVE  /\ rows'[r].status # Absent /\ Gate(r)'
             /\ rows'[r].action = rows[r].action
             /\ NoAction(r)' <=> NoAction(r)
             /\ Gone(r) => Gone(r)'
             /\ acts[r] > 0 => acts'[r] > 0
  BY <1>2 DEF IInv, Grows, RowInv, RowOK, NoAction, Gone
<1>3. QED
  BY <1>1, <1>2 DEF WorkerOK

\* Under such a step, processes that do not move keep what they rely on.
LEMMA OthersKept ==
    ASSUME IInv, Grows
    PROVE  /\ api' = api => ApiInv'
           /\ worker' = worker => WorkerInv'
           /\ queue' = queue => QueueInv'
<1>1. ASSUME api' = api PROVE ApiInv'
  BY <1>1 DEF IInv, Grows, ApiInv, ApiOK
<1>2. ASSUME worker' = worker, NEW w \in Workers PROVE WorkerOK(w)'
  BY <1>2, TaskKept
<1>3. ASSUME queue' = queue PROVE QueueInv'
  BY <1>3 DEF IInv, Grows, QueueInv
<1>4. QED
  BY <1>1, <1>2, <1>3 DEF WorkerInv

\* A step outside the loops leaves status, decision and origin of every run
\* alone and approves only runs that are decided: the loops lose nothing.
LEMMA LoopsKept ==
    ASSUME IInv, loop' = loop,
           \A r \in Runs : /\ rows'[r].status = rows[r].status
                           /\ rows'[r].action = rows[r].action
                           /\ rows'[r].auto = rows[r].auto
                           /\ approvers'[r] = approvers[r] \/ rows[r].action # None
    PROVE  LoopInv' /\ LoopsApart'
<1>1. ASSUME NEW l \in Loops PROVE LoopOK(l)'
  <2>1. \A r \in loop[l].stale : r \in Runs
    BY DEF IInv, TypeOK, LoopState
  <2>2. QED
    BY <2>1 DEF IInv, LoopInv, LoopOK, Working, Evaluating
<1>2. LoopsApart'
  BY DEF IInv, LoopsApart, Working
<1>3. QED
  BY <1>1, <1>2 DEF LoopInv

\* Nothing but the loops changes.
LEMMA RowsKept ==
    ASSUME IInv, UNCHANGED <<rows, pos, acts, approvers, misread>>
    PROVE  RowInv' /\ Grows
  BY DEF IInv, RowInv, RowOK, Grows, Gate, NoAction, Gone

-----------------------------------------------------------------------------
(* The steps of a loop.                                                    *)

\* A loop that takes up or lays down a position, working on no run.
LEMMA LoopMoves ==
    ASSUME IInv, NEW l \in Loops, NEW y \in LoopState,
           y.pc \in {"idle", "next", "mark"},
           y.pc = "mark" => y.ticket \in Tickets,
           \A r \in y.stale : rows[r].status # Absent,
           loop' = [loop EXCEPT ![l] = y],
           lock' \in {"free", "held"}, crashes' \in Nat, queue' \in [Runs -> Nat],
           QueueInv', dropped' \in SUBSET Runs,
           UNCHANGED <<rows, autoApprove, api, worker, pos, acts, approvers, approvals, misread>>
    PROVE  IInv'
<1>1. \A k \in Loops : loop'[k] = IF k = l THEN y ELSE loop[k]
  BY DEF IInv, TypeOK
<1>2. TypeOK'
  BY DEF IInv, TypeOK
<1>3. RowInv' /\ ApiInv' /\ WorkerInv'
  BY RowsKept, OthersKept
<1>4. LoopInv'
  BY <1>1 DEF IInv, LoopInv, LoopOK, Working, Evaluating
<1>5. LoopsApart'
  BY <1>1 DEF IInv, LoopsApart, Working
<1>6. QED
  BY <1>2, <1>3, <1>4, <1>5 DEF IInv

\* The steps of a loop that write no row.
LEMMA LoopMovesOnly ==
    ASSUME IInv, NEW l \in Loops,
           \/ BeatStart(l) \/ BeatFindsNothing(l)
           \/ BeatStartWithoutRedis(l) \/ ForcedStart(l)
           \/ (\E t \in Tickets : SkipFresh(l, t) \/ PickPosition(l, t))
           \/ MarkFails(l) \/ CreateFails(l) \/ LeaveToHuman(l) \/ AutoDispatch(l)
           \/ AutoDispatchFails(l) \/ FinishLoop(l) \/ KillLoop(l)
    PROVE  IInv'
<1> USE DEF bounds, history
<1>1. /\ QueueInv /\ lock \in {"free", "held"} /\ crashes \in Nat
      /\ dropped \in SUBSET Runs
      /\ queue \in [Runs -> Nat] /\ loop[l] \in LoopState
      /\ loop[l].todo \in SUBSET Tickets
  BY DEF IInv, TypeOK, LoopState
<1>2. UNCHANGED <<rows, queue>> => QueueInv' /\ queue' \in [Runs -> Nat]
  BY <1>1 DEF QueueInv
<1>3. ASSUME NEW S \in SUBSET Tickets, loop' = [loop EXCEPT ![l] = Between(S)],
             lock' \in {"free", "held"},
             UNCHANGED <<rows, autoApprove, api, queue, worker, pos, acts, approvers, bounds, history>>
      PROVE  IInv'
  BY <1>1, <1>2, <1>3, LoopBetween, LoopMoves
<1>4. CASE BeatStart(l) \/ BeatStartWithoutRedis(l) \/ ForcedStart(l)
  <2>1. OpenTickets \in SUBSET Tickets
    BY DEF OpenTickets
  <2>2. QED
    BY <1>1, <1>3, <1>4, <2>1 DEF BeatStart, BeatStartWithoutRedis, ForcedStart
<1>5. CASE MarkFails(l) \/ CreateFails(l) \/ LeaveToHuman(l)
  BY <1>1, <1>3, <1>5 DEF MarkFails, CreateFails, LeaveToHuman, NextPosition
<1>6. ASSUME NEW t \in Tickets, SkipFresh(l, t) PROVE IInv'
  <2>1. loop[l].todo \ {t} \in SUBSET Tickets
    BY <1>1
  <2>2. QED
    BY <1>1, <1>3, <1>6, <2>1 DEF SkipFresh
<1>7. ASSUME NEW t \in Tickets, PickPosition(l, t) PROVE IInv'
  <2>1. /\ loop[l].todo \ {t} \in SUBSET Tickets /\ StaleRuns(t) \in SUBSET Runs
        /\ \A r \in StaleRuns(t) : rows[r].status # Absent
    BY <1>1 DEF StaleRuns, ActiveRuns, RunsOf, ActiveStatus, Absent
  <2>2. LET y == Picked(loop[l].todo \ {t}, t, StaleRuns(t))
        IN  y \in LoopState /\ y.pc = "mark" /\ y.ticket = t /\ y.stale = StaleRuns(t)
    BY <2>1, LoopPicked
  <2>3. QED
    BY <1>1, <1>2, <1>7, <2>1, <2>2, LoopMoves DEF PickPosition
<1>8. CASE AutoDispatch(l)
  <2>1. loop[l].run \in Runs /\ rows[loop[l].run].status # Absent
    BY <1>8 DEF IInv, LoopInv, LoopOK, Working, AutoDispatch
  <2>2. QueueInv' /\ queue' \in [Runs -> Nat]
    BY <1>1, <1>8, <2>1 DEF AutoDispatch, QueueInv
  <2>3. QED
    BY <1>1, <1>8, <2>2, LoopBetween, LoopMoves DEF AutoDispatch, NextPosition
<1>9. CASE FinishLoop(l)
  BY <1>1, <1>2, <1>9, Idle, LoopMoves DEF FinishLoop
<1>10. CASE KillLoop(l) \/ AutoDispatchFails(l)
  <2>1. loop[l].pc = "dispatch" => loop[l].run \in Runs
    BY DEF IInv, LoopInv, LoopOK, Working
  <2>2. dropped' \in SUBSET Runs
    BY <1>1, <1>10, <2>1 DEF KillLoop, AutoDispatchFails
  <2>3. CASE KillLoop(l)
    <3>1. /\ loop' = [loop EXCEPT ![l] = IdleLoop] /\ crashes' \in Nat
          /\ UNCHANGED <<rows, autoApprove, lock, api, queue, worker, pos, acts, approvers,
                         approvals, misread>>
      BY <1>1, <2>3 DEF KillLoop
    <3>2. QED
      BY <1>1, <1>2, <2>2, <3>1, Idle, LoopMoves
  <2>4. CASE AutoDispatchFails(l)
    BY <1>1, <1>2, <2>2, <2>4, LoopBetween, LoopMoves
       DEF AutoDispatchFails, NextPosition
  <2>5. QED
    BY <1>10, <2>3, <2>4
<1>11. CASE BeatFindsNothing(l)
  <2>1. TypeOK'
    BY <1>11 DEF BeatFindsNothing, IInv, TypeOK
  <2>2. QED
    BY <1>11, <2>1, RowsKept, OthersKept, LoopsKept DEF BeatFindsNothing, IInv
<1>12. QED
  BY <1>4, <1>5, <1>6, <1>7, <1>8, <1>9, <1>10, <1>11

\* Commit stale runs as failed: they were read as unfinished, so they exist.
LEMMA MarkStaleStep ==
    ASSUME IInv, NEW l \in Loops, MarkStale(l)
    PROVE  IInv'
<1> USE DEF bounds, history
<1>1. /\ loop[l] \in LoopState /\ loop[l].stale \in SUBSET Runs
      /\ loop[l].todo \in SUBSET Tickets /\ loop[l].ticket \in Tickets
      /\ \A r \in Runs : rows[r] \in Row
      /\ \A r \in loop[l].stale : rows[r].status # Absent
  BY DEF IInv, TypeOK, LoopState, LoopInv, LoopOK, MarkStale
<1>2. \A r \in Runs :
        /\ rows'[r] \in Row
        /\ rows'[r].ticket = rows[r].ticket /\ rows'[r].auto = rows[r].auto
        /\ rows'[r].approval = rows[r].approval /\ rows'[r].action = rows[r].action
        /\ rows'[r].executed = rows[r].executed
        /\ rows'[r].status = IF r \in loop[l].stale THEN "failed" ELSE rows[r].status
  BY <1>1, StatusUpdate DEF MarkStale
<1>3. PICK y \in LoopState :
        /\ y.pc \in {"next", "create"} /\ y.ticket \in Tickets \cup {None}
        /\ y.pc = "create" => y.ticket \in Tickets
        /\ \A r \in y.stale : rows[r].status # Absent /\ r \in Runs
        /\ loop' = [loop EXCEPT ![l] = y]
  <2>1. \/ loop' = [loop EXCEPT ![l] = Between(loop[l].todo)]
        \/ loop' = [loop EXCEPT ![l] = Goto(loop[l], "create")]
    BY DEF MarkStale, NextPosition
  <2>2. LET y == Between(loop[l].todo) IN
          /\ y \in LoopState /\ y.pc = "next" /\ y.stale = {}
          /\ y.ticket \in Tickets \cup {None}
    BY <1>1, LoopBetween DEF LoopState
  <2>3. LET y == Goto(loop[l], "create") IN
          /\ y \in LoopState /\ y.pc = "create" /\ y.stale = loop[l].stale
          /\ y.ticket = loop[l].ticket
    BY <1>1, LoopGoto
  <2>4. QED
    BY <1>1, <2>1, <2>2, <2>3
<1>4. \A k \in Loops : loop'[k] = IF k = l THEN y ELSE loop[k]
  BY <1>3 DEF IInv, TypeOK
<1>5. TypeOK'
  BY <1>2, <1>3 DEF IInv, TypeOK, MarkStale
<1>6. Grows /\ RowInv'
  BY <1>1, <1>2 DEF IInv, Grows, RowInv, RowOK, Gate, NoAction, Gone, MarkStale, Absent
<1>7. ASSUME NEW k \in Loops PROVE LoopOK(k)'
  <2>1. loop[k].stale \in SUBSET Runs
    BY DEF IInv, TypeOK, LoopState
  <2>2. approvers' = approvers
    BY DEF MarkStale
  <2>3. CASE k = l
    BY <1>1, <1>2, <1>3, <1>4, <2>3 DEF LoopOK, Working, Evaluating, Absent
  <2>4. CASE k # l
    BY <1>1, <1>2, <1>4, <2>1, <2>2, <2>4
       DEF IInv, LoopInv, LoopOK, Working, Evaluating, Absent
  <2>5. QED
    BY <2>3, <2>4
<1>8. LoopsApart'
  BY <1>3, <1>4 DEF IInv, LoopsApart, Working
<1>9. QED
  BY <1>5, <1>6, <1>7, <1>8, OthersKept DEF IInv, LoopInv, MarkStale

\* A new row belongs to nobody but the loop that creates it.
LEMMA CreateRunStep ==
    ASSUME IInv, NEW l \in Loops, NEW r \in Runs, CreateRun(l, r)
    PROVE  IInv'
<1> USE DEF bounds, history
<1>1. /\ loop[l] \in LoopState /\ loop[l].ticket \in Tickets /\ autoApprove \in BOOLEAN
      /\ rows[r].status = Absent /\ approvers[r] = {} /\ rows[r].action = None
      /\ ~(acts[r] > 0) /\ ~Gate(r)
  BY DEF IInv, TypeOK, LoopInv, LoopOK, RowInv, RowOK, CreateRun, Gate
<1>2. LET x == NewRow(loop[l].ticket, autoApprove) IN
        /\ x \in Row /\ x.status = "pending" /\ x.ticket \in Tickets
        /\ x.auto = autoApprove /\ x.approval = "pending"
        /\ x.action = None /\ ~x.executed
  BY <1>1, NewRowFields
<1>3. LET y == Created(loop[l], r, autoApprove) IN
        /\ y \in LoopState /\ y.pc = "created" /\ y.run = r
        /\ y.auto = autoApprove /\ y.stale = loop[l].stale
  BY <1>1, LoopCreated
<1>4. /\ \A q \in Runs :
            rows'[q] = IF q = r THEN NewRow(loop[l].ticket, autoApprove) ELSE rows[q]
      /\ \A k \in Loops :
            loop'[k] = IF k = l THEN Created(loop[l], r, autoApprove) ELSE loop[k]
  BY DEF IInv, TypeOK, CreateRun
<1>5. TypeOK'
  BY <1>2, <1>3 DEF IInv, TypeOK, CreateRun
<1>6. Grows
  BY <1>1, <1>2, <1>4 DEF Grows, Gate, CreateRun, Absent
<1>7. RowInv'
  BY <1>1, <1>2, <1>4 DEF IInv, RowInv, RowOK, Gate, NoAction, Gone, CreateRun, Absent
<1>8. ASSUME NEW k \in Loops PROVE LoopOK(k)'
  <2>1. loop[k].stale \in SUBSET Runs /\ loop[l].stale \in SUBSET Runs
    BY DEF IInv, TypeOK, LoopState
  <2>2. QED
    BY <1>1, <1>2, <1>3, <1>4, <2>1 DEF IInv, LoopInv, LoopOK, Working, Evaluating, CreateRun, Absent
<1>9. LoopsApart'
  BY <1>1, <1>3, <1>4 DEF IInv, LoopInv, LoopOK, LoopsApart, Working
<1>10. QED
  BY <1>5, <1>6, <1>7, <1>8, <1>9, OthersKept DEF IInv, LoopInv, CreateRun

\* The pipeline writes the status or the decision of the run it evaluates,
\* which no handler and no worker can hold yet.
LEMMA PipelineWrites ==
    ASSUME IInv, NEW l \in Loops, Evaluating(l), NEW x \in Row, NEW y \in LoopState,
           x.status \in {"running", "failed", "completed"},
           x.status = "completed" => x.action # None,
           x.ticket = rows[loop[l].run].ticket, x.auto = rows[loop[l].run].auto,
           x.approval = rows[loop[l].run].approval,
           x.executed = rows[loop[l].run].executed,
           y.run = loop[l].run, y.auto = loop[l].auto, y.stale = loop[l].stale,
           \/ y.pc = "running" /\ x.action = None /\ x.status # "completed"
           \/ y.pc = "decided" /\ y.action = "HOLD"
           \/ y.pc = "decided" /\ y.action = x.action /\ x.action # None
           \/ y.pc = "decided" /\ y.action # None /\ "failed_commit" \in Faults,
           rows' = [rows EXCEPT ![loop[l].run] = x], loop' = [loop EXCEPT ![l] = y],
           UNCHANGED <<autoApprove, lock, api, queue, worker, pos, acts, approvers, bounds, history>>
    PROVE  IInv'
<1> USE DEF bounds, history
<1> DEFINE R == loop[l].run
<1>1. /\ R \in Runs /\ rows[R].status # Absent /\ Working(l)
      /\ loop[l].auto = rows[R].auto /\ rows[R].action = None /\ approvers[R] = {}
  BY DEF IInv, LoopInv, LoopOK, Working, Evaluating
<1>2. /\ ~Gate(R) /\ ~(acts[R] > 0) /\ rows[R].approval # "approved" /\ ~rows[R].executed
  BY <1>1 DEF IInv, RowInv, RowOK, Gate
<1>3. /\ \A r \in Runs : rows'[r] = IF r = R THEN x ELSE rows[r]
      /\ \A k \in Loops : loop'[k] = IF k = l THEN y ELSE loop[k]
  BY <1>1 DEF IInv, TypeOK
<1> HIDE DEF R
<1>4. TypeOK'
  BY DEF IInv, TypeOK
<1>5. Grows
  BY <1>1, <1>2, <1>3 DEF Grows, Gate, R, Absent
<1>6. RowInv'
  BY <1>1, <1>2, <1>3 DEF IInv, RowInv, RowOK, Gate, NoAction, Gone, R, Absent
<1>7. ASSUME NEW k \in Loops, k # l PROVE LoopOK(k)'
  <2>1. loop[k].stale \in SUBSET Runs
    BY DEF IInv, TypeOK, LoopState
  <2>2. Working(k) => loop[k].run # R
    BY <1>1, <1>7 DEF IInv, LoopsApart, R
  <2>3. QED
    BY <1>1, <1>3, <1>7, <2>1, <2>2 DEF IInv, LoopInv, LoopOK, Working, Evaluating, Absent
<1>8. LoopOK(l)'
  <2>1. loop[l].stale \in SUBSET Runs
    BY DEF IInv, TypeOK, LoopState
  <2>2. QED
    BY <1>1, <1>3, <2>1 DEF IInv, LoopInv, LoopOK, Working, Evaluating, R, Absent, None
<1>9. LoopsApart'
  BY <1>1, <1>3 DEF IInv, LoopsApart, Working, R
<1>10. QED
  BY <1>4, <1>5, <1>6, <1>7, <1>8, <1>9, OthersKept DEF IInv, LoopInv

\* Start, decision and failure of the pipeline are such writes.
LEMMA PipelineSteps ==
    ASSUME IInv, NEW l \in Loops,
           \/ StartPipeline(l) \/ PipelineFails(l) \/ PipelineFailsUnsaved(l)
           \/ \E a \in Decisions : PersistDecision(l, a) \/ PersistFails(l, a)
    PROVE  IInv'
<1>1. /\ loop[l] \in LoopState /\ loop[l].run \in Runs /\ rows[loop[l].run] \in Row
      /\ Evaluating(l)
      /\ rows[loop[l].run].action = None /\ rows[loop[l].run].status # "completed"
      /\ rows \in [Runs -> Row]
  BY DEF IInv, TypeOK, LoopInv, LoopOK, Working, Evaluating, StartPipeline,
         PipelineFails, PipelineFailsUnsaved, PersistDecision, PersistFails
<1>2. \A a \in Decisions \cup {"HOLD"} : a \in Actions /\ a # None
  BY ConstantsAssumption DEF Actions, None
<1>3. CASE StartPipeline(l)
  <2>1. LET x == WithStatus(rows[loop[l].run], "running") IN
          /\ x \in Row /\ x.status = "running" /\ x.action = None
          /\ x.ticket = rows[loop[l].run].ticket /\ x.auto = rows[loop[l].run].auto
          /\ x.approval = rows[loop[l].run].approval
          /\ x.executed = rows[loop[l].run].executed
    BY <1>1, StatusUpdate DEF ActiveStatus
  <2>2. LET y == Goto(loop[l], "running") IN
          /\ y \in LoopState /\ y.pc = "running" /\ y.run = loop[l].run
          /\ y.auto = loop[l].auto /\ y.stale = loop[l].stale
    BY <1>1, LoopGoto
  <2>3. QED
    BY <1>1, <1>3, <2>1, <2>2, PipelineWrites DEF StartPipeline
<1>4. CASE PipelineFails(l)
  <2>1. LET x == WithStatus(rows[loop[l].run], "failed") IN
          /\ x \in Row /\ x.status = "failed"
          /\ x.ticket = rows[loop[l].run].ticket /\ x.auto = rows[loop[l].run].auto
          /\ x.approval = rows[loop[l].run].approval
          /\ x.executed = rows[loop[l].run].executed
    BY <1>1, StatusUpdate DEF ActiveStatus
  <2>2. LET y == Told(loop[l], "HOLD") IN
          /\ y \in LoopState /\ y.pc = "decided" /\ y.run = loop[l].run
          /\ y.action = "HOLD" /\ y.auto = loop[l].auto /\ y.stale = loop[l].stale
    BY <1>1, LoopTold DEF Actions
  <2>3. QED
    BY <1>1, <1>4, <2>1, <2>2, PipelineWrites DEF PipelineFails
<1>5. ASSUME NEW a \in Decisions, PersistDecision(l, a) PROVE IInv'
  <2>1. LET x == Decided(rows[loop[l].run], a) IN
          /\ x \in Row /\ x.status = "completed" /\ x.action = a
          /\ x.ticket = rows[loop[l].run].ticket /\ x.auto = rows[loop[l].run].auto
          /\ x.approval = rows[loop[l].run].approval
          /\ x.executed = rows[loop[l].run].executed
    BY <1>1, <1>2, DecisionUpdate
  <2>2. LET y == Told(loop[l], a) IN
          /\ y \in LoopState /\ y.pc = "decided" /\ y.run = loop[l].run
          /\ y.action = a /\ y.auto = loop[l].auto /\ y.stale = loop[l].stale
    BY <1>1, <1>2, LoopTold
  <2>3. QED
    BY <1>1, <1>2, <1>5, <2>1, <2>2, PipelineWrites DEF PersistDecision
<1>6. ASSUME NEW a \in Decisions \cup {"HOLD"}, "failed_commit" \in Faults,
             loop' = [loop EXCEPT ![l] = Told(loop[l], a)],
             UNCHANGED <<rows, autoApprove, lock, api, queue, worker, pos, acts, approvers, bounds, history>>
      PROVE  IInv'
  <2>1. LET y == Told(loop[l], a) IN
          /\ y \in LoopState /\ y.pc = "decided" /\ y.run = loop[l].run
          /\ y.action = a /\ y.auto = loop[l].auto /\ y.stale = loop[l].stale
    BY <1>1, <1>2, LoopTold
  <2>2. \A k \in Loops : loop'[k] = IF k = l THEN Told(loop[l], a) ELSE loop[k]
    BY <1>6 DEF IInv, TypeOK
  <2>3. TypeOK'
    BY <1>6, <2>1 DEF IInv, TypeOK, bounds, history
  <2>4. ASSUME NEW k \in Loops PROVE LoopOK(k)'
    <3>1. rows' = rows /\ approvers' = approvers /\ "failed_commit" \in Faults
      BY <1>6
    <3>2. LoopOK(k) /\ LoopOK(l)
      BY DEF IInv, LoopInv
    <3>3. CASE k = l
      BY <1>1, <1>2, <2>1, <2>2, <3>1, <3>2, <3>3 DEF LoopOK, Working, Evaluating
    <3>4. CASE k # l
      BY <2>2, <3>1, <3>2, <3>4 DEF LoopOK, Working, Evaluating
    <3>5. QED
      BY <3>3, <3>4
  <2>5. LoopsApart'
    BY <1>1, <2>1, <2>2 DEF IInv, LoopsApart, Working, Evaluating
  <2>6. QED
    BY <1>6, <2>3, <2>4, <2>5, RowsKept, OthersKept DEF IInv, LoopInv, history
<1>7. ASSUME NEW a \in Decisions, PersistFails(l, a) PROVE IInv'
  BY <1>6, <1>7 DEF PersistFails
<1>8. CASE PipelineFailsUnsaved(l)
  BY <1>6, <1>8 DEF PipelineFailsUnsaved
<1>9. QED
  BY <1>3, <1>4, <1>5, <1>7, <1>8

\* The loop approves its own run, on the auto_approve it read at creation.
LEMMA AutoApproveStep ==
    ASSUME IInv, NEW l \in Loops, AutoApprove(l)
    PROVE  IInv'
<1> USE DEF bounds, history
<1>0. PICK R \in Runs : R = loop[l].run
  BY DEF IInv, LoopInv, LoopOK, Working, AutoApprove
<1>1. /\ loop[l] \in LoopState /\ R \in Runs /\ rows[R] \in Row /\ LoopOK(l)
      /\ loop[l].pc = "decided" /\ Working(l)
      /\ rows[R].status # Absent /\ rows[R].auto
      /\ loop[l].action # "HOLD" /\ loop[l].action # None
  BY <1>0 DEF IInv, TypeOK, LoopInv, LoopOK, Working, AutoApprove
<1>2. PICK x \in Row :
      /\ x = WithApproval(rows[R], "approved") /\ x.approval = "approved" /\ x.status = rows[R].status
      /\ x.ticket = rows[R].ticket /\ x.auto = rows[R].auto
      /\ x.action = rows[R].action /\ x.executed = rows[R].executed
  BY <1>1, ApprovalUpdate
<1>3. PICK y \in LoopState :
      /\ y = Goto(loop[l], "dispatch") /\ y.pc = "dispatch" /\ y.run = R
      /\ y.auto = loop[l].auto /\ y.stale = loop[l].stale
  BY <1>0, <1>1, LoopGoto
<1>4. /\ \A r \in Runs : rows'[r] = IF r = R THEN x ELSE rows[r]
      /\ \A r \in Runs : /\ r # R => approvers'[r] = approvers[r]
                         /\ "human" \in approvers[r] => "human" \in approvers'[r]
                         /\ "auto" \in approvers[r] => "auto" \in approvers'[r]
                         /\ r = R => "auto" \in approvers'[r]
      /\ \A k \in Loops : loop'[k] = IF k = l THEN y ELSE loop[k]
      /\ UNCHANGED <<autoApprove, lock, api, queue, worker, pos, acts, bounds, misread>>
  BY <1>0, <1>2, <1>3 DEF IInv, TypeOK, AutoApprove
<1>5. TypeOK'
  BY <1>0, <1>1, <1>2, <1>3 DEF IInv, TypeOK, AutoApprove
<1>6. x.action = None => "failed_commit" \in Faults
  BY <1>0, <1>1, <1>2 DEF LoopOK
<1>7. Grows
  BY <1>1, <1>2, <1>4 DEF Grows, Gate
<1>8. ASSUME NEW r \in Runs PROVE RowOK(r)'
  <2>1. RowOK(r)
    BY DEF IInv, RowInv
  <2>2. CASE r = R
    BY ZenonT(60), <1>1, <1>2, <1>4, <1>6, <2>1, <2>2 DEF RowOK, Gate, NoAction, Gone
  <2>3. CASE r # R
    BY <1>4, <2>1, <2>3 DEF RowOK, Gate, NoAction, Gone
  <2>4. QED
    BY <2>2, <2>3
<1>9. ASSUME NEW k \in Loops PROVE LoopOK(k)'
  <2>1. loop[k].stale \in SUBSET Runs /\ LoopOK(k)
    BY DEF IInv, TypeOK, LoopState, LoopInv
  <2>2. CASE k = l
    <3>1. ~Evaluating(l)' /\ loop'[l].run = R /\ loop'[l].pc = "dispatch"
      BY <1>3, <1>4 DEF Evaluating
    <3>2. \A r \in loop'[l].stale : rows'[r].status # Absent
      BY <1>1, <1>2, <1>3, <1>4, <2>1, <2>2 DEF LoopOK
    <3>3. loop[l].auto = rows[R].auto
      BY <1>0, <1>1 DEF LoopOK
    <3>4. loop'[l] = y /\ rows'[R] = x
      BY <1>4
    <3>5. /\ rows'[loop'[l].run].status # Absent
          /\ loop'[l].auto = rows'[loop'[l].run].auto
      BY <1>1, <1>2, <1>3, <3>3, <3>4
    <3>6. QED
      BY <2>2, <3>1, <3>2, <3>5 DEF LoopOK
  <2>3. CASE k # l
    <3>1. Working(k) => loop[k].run # R
      BY <1>0, <1>1, <2>3 DEF IInv, LoopsApart
    <3>2. QED
      BY <1>1, <1>2, <1>4, <2>1, <2>3, <3>1 DEF LoopOK, Working, Evaluating
  <2>4. QED
    BY <2>2, <2>3
<1>10. LoopsApart'
  BY <1>0, <1>1, <1>3, <1>4 DEF IInv, LoopsApart, Working
<1>11. QED
  BY <1>4, <1>5, <1>7, <1>8, <1>9, <1>10, OthersKept DEF IInv, RowInv, LoopInv

\* Every step of a governance loop preserves the inductive invariant.
THEOREM LoopStepPreserves ==
    ASSUME IInv, NEW l \in Loops, LoopStep(l) \/ KillLoop(l)
    PROVE  IInv'
  BY LoopMovesOnly, MarkStaleStep, CreateRunStep, PipelineSteps, AutoApproveStep
     DEF LoopStep

-----------------------------------------------------------------------------
(* The steps of the API.                                                   *)

\* A handler goes on to y; a decided run may be approved, any run rejected.
LEMMA HandlerMoves ==
    ASSUME IInv, NEW h \in Handlers, NEW y \in ApiState,
           y.pc # "idle" => y.run \in Runs /\ rows[y.run].status # Absent,
           y.pc \in {"approve", "dispatch"} => rows[y.run].action # None,
           api' = [api EXCEPT ![h] = y],
           queue' \in [Runs -> Nat], QueueInv', approvals' \in Nat,
           dropped' \in SUBSET Runs,
           UNCHANGED <<rows, autoApprove, lock, loop, worker, pos, acts, approvers, crashes,
                       misread>>
    PROVE  IInv'
<1>1. \A g \in Handlers : api'[g] = IF g = h THEN y ELSE api[g]
  BY DEF IInv, TypeOK
<1>2. TypeOK'
  BY DEF IInv, TypeOK
<1>3. RowInv' /\ WorkerInv'
  BY RowsKept, OthersKept
<1>4. LoopInv' /\ LoopsApart'
  BY LoopsKept
<1>5. ApiInv'
  BY <1>1 DEF IInv, ApiInv, ApiOK
<1>6. QED
  BY <1>2, <1>3, <1>4, <1>5 DEF IInv

\* A handler writes approval_status: of a decided run if it approves.
LEMMA HandlerWrites ==
    ASSUME IInv, NEW h \in Handlers, NEW y \in ApiState, NEW r \in Runs, NEW x \in Row,
           api[h].run = r, api[h].pc # "idle",
           x.ticket = rows[r].ticket, x.status = rows[r].status, x.auto = rows[r].auto,
           x.action = rows[r].action, x.executed = rows[r].executed,
           \/ /\ x.approval = "approved" /\ api[h].pc = "approve"
              /\ approvers' = [approvers EXCEPT ![r] = @ \cup {"human"}]
              /\ y.pc = "dispatch" /\ y.run = r
           \/ x.approval = "rejected" /\ approvers' = approvers /\ y.pc = "idle",
           rows' = [rows EXCEPT ![r] = x], api' = [api EXCEPT ![h] = y],
           dropped' \in SUBSET Runs,
           UNCHANGED <<autoApprove, lock, loop, queue, worker, pos, acts, bounds, misread>>
    PROVE  IInv'
<1> USE DEF bounds, history
<1>1. /\ \A q \in Runs : rows'[q] = IF q = r THEN x ELSE rows[q]
      /\ \A g \in Handlers : api'[g] = IF g = h THEN y ELSE api[g]
  BY DEF IInv, TypeOK
<1>2. rows[r].status # Absent /\ (api[h].pc = "approve" => rows[r].action # None)
  BY DEF IInv, ApiInv, ApiOK
<1>3. \A q \in Runs : /\ "human" \in approvers[q] => "human" \in approvers'[q]
                      /\ "auto" \in approvers[q] => "auto" \in approvers'[q]
                      /\ approvers'[q] = approvers[q] \/ rows[q].action # None
                      /\ q = r /\ x.approval = "approved" => "human" \in approvers'[q]
  BY <1>2 DEF IInv, TypeOK
<1>4. TypeOK'
  BY DEF IInv, TypeOK
<1>5. Grows
  BY <1>1, <1>3 DEF Grows, Gate
<1>6. RowInv'
  BY <1>1, <1>2, <1>3 DEF IInv, RowInv, RowOK, Gate, NoAction, Gone
<1>7. LoopInv' /\ LoopsApart'
  BY <1>1, <1>3, LoopsKept
<1>8. ApiInv'
  BY <1>1, <1>2 DEF IInv, ApiInv, ApiOK
<1>9. QED
  BY <1>4, <1>5, <1>6, <1>7, <1>8, OthersKept DEF IInv

\* Every step of approve, reject and config handlers preserves it.
THEOREM ApiStepPreserves ==
    ASSUME IInv, NEW h \in Handlers, ApiStep(h)
    PROVE  IInv'
<1> USE DEF bounds, history
<1>1. /\ api[h] \in ApiState /\ ApiOK(h) /\ QueueInv /\ queue \in [Runs -> Nat]
      /\ approvals \in Nat /\ rows \in [Runs -> Row] /\ dropped \in SUBSET Runs
  BY DEF IInv, TypeOK, ApiInv
<1>2. UNCHANGED <<rows, queue>> => QueueInv' /\ queue' \in [Runs -> Nat]
  BY <1>1 DEF QueueInv
<1>3. ASSUME NEW r \in Runs, CheckApproval(h, r) PROVE IInv'
  <2>1. rows[r].action # None /\ rows[r].status # Absent
    BY <1>3 DEF IInv, RowInv, RowOK, CheckApproval, Absent
  <2>2. [pc |-> "approve", run |-> r, writes |-> TRUE] \in ApiState
    BY DEF ApiState
  <2>3. /\ api' = [api EXCEPT ![h] = [pc |-> "approve", run |-> r, writes |-> TRUE]]
        /\ approvals' \in Nat
        /\ UNCHANGED <<rows, autoApprove, lock, loop, queue, worker, pos, acts,
                       approvers, crashes, history>>
    BY <1>1, <1>3 DEF CheckApproval
  <2>4. QED
    BY <1>1, <1>2, <2>1, <2>2, <2>3, HandlerMoves
<1>4. ASSUME NEW r \in Runs, CheckReject(h, r) PROVE IInv'
  <2>1. [pc |-> "reject", run |-> r, writes |-> rows[r].approval # "rejected"] \in ApiState
    BY DEF ApiState
  <2>2. QED
    BY <1>1, <1>2, <1>4, <2>1, HandlerMoves DEF CheckReject
<1>5. CASE CommitApproval(h)
  <2>1. api[h].run \in Runs /\ rows[api[h].run] \in Row /\ api[h].pc = "approve"
    BY <1>1, <1>5 DEF ApiOK, CommitApproval
  <2>2. [pc |-> "dispatch", run |-> api[h].run, writes |-> FALSE] \in ApiState
    BY <1>1 DEF ApiState
  <2>3. QED
    BY <1>1, <1>5, <2>1, <2>2, ApprovalUpdate, HandlerWrites DEF CommitApproval
<1>6. CASE CommitReject(h)
  <2>1. api[h].run \in Runs /\ rows[api[h].run] \in Row /\ api[h].pc = "reject"
    BY <1>1, <1>6 DEF ApiOK, CommitReject
  <2>2. CASE ~api[h].writes
    BY <1>1, <1>2, <1>6, <2>2, Idle, HandlerMoves DEF CommitReject
  <2>3. CASE api[h].writes
    BY <1>1, <1>6, <2>1, <2>3, Idle, ApprovalUpdate, HandlerWrites DEF CommitReject
  <2>4. QED
    BY <2>2, <2>3
<1>7. CASE DispatchApproved(h)
  <2>1. api[h].run \in Runs /\ rows[api[h].run].status # Absent
    BY <1>1, <1>7 DEF ApiOK, DispatchApproved
  <2>2. QueueInv' /\ queue' \in [Runs -> Nat]
    BY <1>1, <1>7, <2>1 DEF DispatchApproved, QueueInv
  <2>3. QED
    BY <1>1, <1>7, <2>2, Idle, HandlerMoves DEF DispatchApproved
<1>8. CASE DispatchFails(h) \/ CommitRefused(h)
  <2>1. dropped' \in SUBSET Runs
    BY <1>1, <1>8 DEF ApiOK, DispatchFails, CommitRefused
  <2>2. QED
    BY <1>1, <1>2, <1>8, <2>1, Idle, HandlerMoves DEF DispatchFails, CommitRefused
<1>9. QED
  BY <1>3, <1>4, <1>5, <1>6, <1>7, <1>8 DEF ApiStep

-----------------------------------------------------------------------------
(* The steps of the execution tasks, of time and of the market.            *)

\* A broker call that writes no row only adds.
LEMMA CallsGrow ==
    ASSUME UNCHANGED <<rows, approvers>>,
           \A r \in Runs : acts[r] > 0 => acts'[r] > 0,
           \A t \in Tickets : ~pos[t].open => ~pos'[t].open,
           \A r \in Runs : r \in misread => r \in misread'
    PROVE  Grows
  BY DEF Grows, Gate

\* A task goes on to y, which relies on nothing that does not hold already.
LEMMA TaskMoves ==
    ASSUME IInv, NEW w \in Workers, NEW y \in WorkerState,
           worker' = [worker EXCEPT ![w] = y],
           queue' \in [Runs -> Nat], QueueInv', crashes' \in Nat,
           pos' \in [Tickets -> Position], acts' \in [Runs -> Nat],
           misread' \in SUBSET Runs, dropped' \in SUBSET Runs,
           UNCHANGED <<rows, autoApprove, lock, loop, api, approvers, approvals>>,
           RowInv', Grows,
           y.pc # "idle" =>
             LET r == y.run
             IN  /\ r \in Runs /\ rows[r].status # Absent /\ Gate(r)
                 /\ y.pc = "hold" => NoAction(r)
                 /\ y.pc \in {"broker", "commit"} => ~NoAction(r)
                 /\ y.pc = "commit" =>
                      /\ y.outcome # None
                      /\ y.outcome = "executed" =>
                           acts'[r] > 0 /\ (rows[r].action = "CLOSE" => Gone(r)')
                      /\ y.outcome = "not found" => Gone(r)'
    PROVE  IInv'
<1>1. \A v \in Workers : worker'[v] = IF v = w THEN y ELSE worker[v]
  BY DEF IInv, TypeOK
<1>2. TypeOK'
  BY DEF IInv, TypeOK
<1>3. ApiInv'
  BY OthersKept
<1>4. LoopInv' /\ LoopsApart'
  BY LoopsKept
<1>5. ASSUME NEW v \in Workers PROVE WorkerOK(v)'
  <2>1. CASE v = w
    BY <1>1, <2>1 DEF WorkerOK, Gate, NoAction, Gone
  <2>2. CASE v # w
    BY <1>1, <2>2, TaskKept
  <2>3. QED
    BY <2>1, <2>2
<1>6. QED
  BY <1>2, <1>3, <1>4, <1>5 DEF IInv, WorkerInv

\* A task that ends writes what has become of its run.
LEMMA TaskSettles ==
    ASSUME IInv, NEW w \in Workers, worker[w].pc \in {"hold", "commit"},
           NEW o \in {"executed", "not found", "failed"},
           o = IF worker[w].pc = "hold" THEN "executed" ELSE worker[w].outcome,
           rows' = [rows EXCEPT ![worker[w].run] = Settled(@, o)],
           worker' = [worker EXCEPT ![w] = IdleWorker],
           UNCHANGED <<autoApprove, lock, loop, api, queue, pos, acts, approvers, bounds, history>>
    PROVE  IInv'
<1> USE DEF bounds, history
<1>0. PICK R \in Runs : R = worker[w].run
  BY DEF IInv, WorkerInv, WorkerOK
<1>1. /\ R \in Runs /\ rows[R] \in Row /\ rows[R].status # Absent /\ Gate(R)
      /\ o # "failed" => /\ acts[R] > 0 \/ NoAction(R) \/ Gone(R)
                         /\ rows[R].action = "CLOSE" => Gone(R)
  BY <1>0 DEF IInv, TypeOK, WorkerInv, WorkerOK, NoAction, None
<1>00. PICK x \in Row : x = Settled(rows[R], o)
  BY <1>1, SettlementUpdate
<1>2. /\ (x.executed <=> rows[R].executed \/ o # "failed")
      /\ x.status = rows[R].status /\ x.ticket = rows[R].ticket
      /\ x.auto = rows[R].auto /\ x.action = rows[R].action
      /\ x.approval = rows[R].approval
  BY ZenonT(60), <1>1, <1>00, SettlementUpdate
<1>3. /\ \A r \in Runs : rows'[r] = IF r = R THEN x ELSE rows[r]
      /\ \A v \in Workers : worker'[v] = IF v = w THEN IdleWorker ELSE worker[v]
  BY <1>0, <1>00 DEF IInv, TypeOK
<1>4. TypeOK'
  BY <1>0, <1>00, Idle DEF IInv, TypeOK
<1>5. Grows
  BY ZenonT(60), <1>1, <1>2, <1>3 DEF Grows, Gate
<1>6. ASSUME NEW r \in Runs PROVE RowOK(r)'
  <2>1. RowOK(r)
    BY DEF IInv, RowInv
  <2>2. CASE r = R
    <3>1. rows'[r] = x /\ approvers' = approvers /\ acts' = acts /\ pos' = pos
      BY <1>3, <2>2
    <3>2. Gate(r)' /\ (NoAction(r)' <=> NoAction(r)) /\ (Gone(r)' <=> Gone(r))
      BY <1>1, <1>2, <2>2, <3>1 DEF Gate, NoAction, Gone
    <3>3. rows'[r].executed =>
             /\ acts[r] > 0 \/ NoAction(r) \/ Gone(r)
             /\ rows[r].action = "CLOSE" => Gone(r)
      BY <1>1, <1>2, <2>1, <2>2, <3>1 DEF RowOK
    <3>4. QED
      BY <1>2, <2>1, <2>2, <3>1, <3>2, <3>3 DEF RowOK
  <2>3. CASE r # R
    BY <1>3, <2>1, <2>3 DEF RowOK, Gate, NoAction, Gone
  <2>4. QED
    BY <2>2, <2>3
<1>7. LoopInv' /\ LoopsApart'
  BY <1>1, <1>2, <1>3, LoopsKept
<1>8. ASSUME NEW v \in Workers PROVE WorkerOK(v)'
  <2>1. CASE v = w
    BY <1>3, <2>1, Idle DEF WorkerOK
  <2>2. CASE v # w
    BY <1>3, <1>5, <2>2, TaskKept
  <2>3. QED
    BY <2>1, <2>2
<1>9. QED
  BY <1>4, <1>5, <1>6, <1>7, <1>8, OthersKept DEF IInv, RowInv, WorkerInv

\* Every step of an execution task preserves it.
THEOREM WorkerStepPreserves ==
    ASSUME IInv, NEW w \in Workers, WorkerStep(w) \/ LoseWorker(w)
    PROVE  IInv'
<1> USE DEF bounds, history
<1>1. /\ worker[w] \in WorkerState /\ WorkerOK(w) /\ QueueInv /\ queue \in [Runs -> Nat]
      /\ crashes \in Nat /\ pos \in [Tickets -> Position] /\ acts \in [Runs -> Nat]
      /\ rows \in [Runs -> Row]
      /\ misread \in SUBSET Runs /\ dropped \in SUBSET Runs
  BY DEF IInv, TypeOK, WorkerInv
<1>2. UNCHANGED <<rows, queue>> => QueueInv' /\ queue' \in [Runs -> Nat]
  BY <1>1 DEF QueueInv
<1>3. UNCHANGED <<rows, pos, acts, approvers, misread>> => RowInv' /\ Grows
  BY RowsKept
<1>4. ASSUME NEW r \in Runs, DropTask(w, r) PROVE IInv'
  <2>1. QueueInv' /\ queue' \in [Runs -> Nat]
    BY <1>1, <1>4 DEF DropTask, QueueInv
  <2>2. TypeOK' /\ LoopInv' /\ LoopsApart'
    BY <1>4, <2>1, LoopsKept DEF DropTask, IInv, TypeOK
  <2>3. QED
    BY <1>4, <2>1, <2>2, RowsKept, OthersKept DEF DropTask, IInv
<1>5. ASSUME NEW r \in Runs, TakeTask(w, r) PROVE IInv'
  <2> DEFINE y == [pc |-> IF rows[r].action \in {"HOLD", None} THEN "hold" ELSE "broker",
                   run |-> r, outcome |-> None]
  <2>1. QueueInv' /\ queue' \in [Runs -> Nat]
    BY <1>1, <1>5 DEF TakeTask, QueueInv
  <2>2. y \in WorkerState
    BY DEF WorkerState
  <2>3. rows[r].status # Absent /\ Gate(r)
    BY <1>1, <1>5 DEF IInv, RowInv, RowOK, QueueInv, TakeTask
  <2>4. QED
    BY <1>1, <1>3, <1>5, <2>1, <2>2, <2>3, TaskMoves DEF TakeTask, NoAction
<1>6. CASE CommitHold(w)
  BY <1>6, TaskSettles DEF CommitHold
<1>7. CASE CommitOutcome(w)
  <2>1. worker[w].outcome \in {"executed", "not found", "failed"}
    BY <1>1, <1>7 DEF WorkerState, WorkerOK, CommitOutcome, None
  <2>2. QED
    BY <1>7, <2>1, TaskSettles DEF CommitOutcome
<1>8. CASE CommitFails(w) \/ BreakOff(w) \/ LoseWorker(w)
  <2>1. worker[w].pc # "idle" /\ worker[w].run \in Runs /\ rows[worker[w].run].status # Absent
    BY <1>1, <1>8 DEF WorkerOK, CommitFails, BreakOff, LoseWorker
  <2>0. /\ UNCHANGED <<rows, autoApprove, lock, loop, api, pos, acts, approvers, approvals,
                       misread>>
        /\ worker' = [worker EXCEPT ![w] = IdleWorker] /\ crashes' \in Nat
        /\ dropped' \in SUBSET Runs
    BY <1>1, <1>8, <2>1 DEF CommitFails, BreakOff, LoseWorker
  <2>2. QueueInv' /\ queue' \in [Runs -> Nat]
    BY <1>1, <1>2, <1>8, <2>1 DEF CommitFails, BreakOff, LoseWorker, QueueInv
  <2>3. QED
    BY <1>1, <1>3, <2>0, <2>2, Idle, TaskMoves
<1>9. ASSUME worker[w].pc = "broker"
      PROVE  /\ worker[w].run \in Runs /\ rows[worker[w].run].status # Absent
             /\ Gate(worker[w].run) /\ ~NoAction(worker[w].run)
             /\ rows[worker[w].run].ticket \in Tickets
             /\ rows[worker[w].run].action \in Actions \ {"HOLD"}
  BY <1>1, <1>9 DEF IInv, TypeOK, Row, RowInv, RowOK, WorkerOK, NoAction
<1>10. CASE BrokerRefuses(w)
  <2>1. PICK R \in Runs : R = worker[w].run
    BY <1>9, <1>10 DEF BrokerRefuses
  <2>2. PICK o \in {"failed", "not found"} :
          /\ worker' = [worker EXCEPT ![w] = [pc |-> "commit", run |-> R, outcome |-> o]]
          /\ misread' = IF o = "not found" /\ pos[rows[R].ticket].open
                        THEN misread \cup {R} ELSE misread
    BY <1>10, <2>1 DEF BrokerRefuses
  <2>3. [pc |-> "commit", run |-> R, outcome |-> o] \in WorkerState
    BY <1>1 DEF WorkerState
  <2>4. /\ UNCHANGED <<rows, autoApprove, lock, loop, api, queue, pos, acts, approvers, bounds,
                       dropped>>
        /\ worker[w].pc = "broker"
    BY <1>10 DEF BrokerRefuses
  <2>5. misread' \in SUBSET Runs /\ \A r \in Runs : r \in misread => r \in misread'
    BY <1>1, <2>2
  <2>6. o = "not found" => Gone(R)'
    BY <2>2, <2>4 DEF Gone
  <2>7. Grows
    BY <2>4, <2>5 DEF Grows, Gate
  <2>8. RowInv'
    BY <2>4, <2>5 DEF IInv, RowInv, RowOK, Gate, NoAction, Gone
  <2>9. QED
    BY <1>1, <1>2, <1>9, <2>1, <2>2, <2>3, <2>4, <2>5, <2>6, <2>7, <2>8, TaskMoves DEF None
<1>11. CASE BrokerActs(w)
  <2>1. PICK R \in Runs, T \in Tickets : R = worker[w].run /\ T = rows[R].ticket
    BY <1>9, <1>11 DEF BrokerActs
  <2>2. /\ R \in Runs /\ T \in Tickets /\ rows[R].status # Absent
        /\ Gate(R) /\ ~NoAction(R) /\ rows[R].action \in Actions \ {"HOLD"}
    BY <1>9, <1>11, <2>1 DEF BrokerActs
  <2>3. PICK p \in Position :
        /\ p = Applied(pos[T], rows[R].action)
        /\ ~pos[T].open => ~p.open
        /\ rows[R].action = "CLOSE" => ~p.open
    BY <1>1, <2>2, PositionApplied
  <2>4. /\ \A t \in Tickets : pos'[t] = IF t = T THEN p ELSE pos[t]
        /\ \A r \in Runs : acts'[r] = IF r = R THEN acts[r] + 1 ELSE acts[r]
        /\ UNCHANGED <<rows, autoApprove, lock, loop, api, queue, approvers, bounds, dropped>>
        /\ pos' \in [Tickets -> Position] /\ acts' \in [Runs -> Nat]
    <3>1. /\ pos' = [pos EXCEPT ![T] = p] /\ acts' = [acts EXCEPT ![R] = acts[R] + 1]
          /\ UNCHANGED <<rows, autoApprove, lock, loop, api, queue, approvers, bounds, dropped>>
      BY <1>11, <2>1, <2>3 DEF BrokerActs
    <3>2. QED
      BY <1>1, <2>3, <3>1
  <2>5. acts'[R] > 0
    BY <1>1, <2>2, <2>4
  <2>12. \A r \in Runs : acts[r] > 0 => acts'[r] > 0
    BY <1>1, <2>4
  <2>13. PICK o \in {"executed", "failed", "not found"} :
          /\ worker' = [worker EXCEPT ![w] = [pc |-> "commit", run |-> R, outcome |-> o]]
          /\ misread' = IF o = "not found" /\ pos'[T].open
                        THEN misread \cup {R} ELSE misread
    BY <1>11, <2>1 DEF BrokerActs
  <2>14. misread' \in SUBSET Runs /\ \A r \in Runs : r \in misread => r \in misread'
    BY <1>1, <2>13
  <2>6. Grows
    <3>1. \A t \in Tickets : ~pos[t].open => ~pos'[t].open
      BY <2>3, <2>4
    <3>2. QED
      BY <2>4, <2>12, <2>14, <3>1, CallsGrow
  <2>7. RowInv'
    <3> SUFFICES ASSUME NEW r \in Runs PROVE RowOK(r)'
      BY DEF RowInv
    <3>1. RowOK(r)
      BY DEF IInv, RowInv
    <3>2. (Gone(r) /\ rows[r].status # Absent) => Gone(r)'
      BY <2>14, <2>3, <2>4, <3>1 DEF Gone, RowOK
    <3>3. acts[r] > 0 => acts'[r] > 0
      BY <2>6 DEF Grows
    <3>4. acts'[r] > 0 => acts[r] > 0 \/ r = R
      BY <2>4
    <3>5. rows[r].executed => rows[r].status # Absent
      BY <3>1 DEF RowOK, Gate
    <3>6. QED
      BY <2>2, <2>4, <3>1, <3>2, <3>3, <3>4, <3>5 DEF RowOK, Gate, NoAction
  <2>8. rows[R].action = "CLOSE" => Gone(R)'
    BY <2>1, <2>2, <2>3, <2>4 DEF Gone
  <2>9. o = "not found" => Gone(R)'
    BY <2>13, <2>1, <2>4 DEF Gone
  <2>10. [pc |-> "commit", run |-> R, outcome |-> o] \in WorkerState
    BY <1>1 DEF WorkerState
  <2>11. QED
    BY <1>1, <1>2, <2>13, <2>14, <2>2, <2>4, <2>5, <2>6, <2>7, <2>8, <2>9, <2>10, TaskMoves
       DEF None
<1>12. QED
  BY <1>4, <1>5, <1>6, <1>7, <1>8, <1>10, <1>11 DEF WorkerStep

\* Time passes: a row ages, the lock expires, a position is closed.
LEMMA TimePreserves ==
    ASSUME IInv, Time \/ \E t \in Tickets : ClosePosition(t)
    PROVE  IInv'
<1> USE DEF bounds, history
<1>1. CASE ExpireLock
  <2>1. TypeOK'
    BY <1>1 DEF ExpireLock, IInv, TypeOK
  <2>2. QED
    BY <1>1, <2>1, RowsKept, OthersKept, LoopsKept DEF ExpireLock, IInv
<1>2. ASSUME NEW r \in Runs, PassStaleThreshold(r) \/ PassCooldown(r)
      PROVE  IInv'
  <2>1. rows[r] \in Row
    BY DEF IInv, TypeOK
  <2>2. PICK x \in Row :
          /\ x.status = rows[r].status /\ x.ticket = rows[r].ticket
          /\ x.auto = rows[r].auto /\ x.approval = rows[r].approval
          /\ x.action = rows[r].action /\ x.executed = rows[r].executed
          /\ rows' = [rows EXCEPT ![r] = x]
    <3>1. \/ rows' = [rows EXCEPT ![r] = [rows[r] EXCEPT !.recent = FALSE]]
          \/ rows' = [rows EXCEPT ![r] = [rows[r] EXCEPT !.cooling = FALSE]]
      BY <1>2 DEF PassStaleThreshold, PassCooldown, IInv, TypeOK, Row
    <3>2. QED
      BY <2>1, <3>1, RowAged
  <2>3. UNCHANGED <<autoApprove, lock, loop, api, queue, worker, pos, acts, approvers, bounds, history>>
    BY <1>2 DEF PassStaleThreshold, PassCooldown
  <2>4. \A q \in Runs : rows'[q] = IF q = r THEN x ELSE rows[q]
    BY <2>2 DEF IInv, TypeOK
  <2>5. TypeOK'
    BY <2>2, <2>3 DEF IInv, TypeOK
  <2>6. Grows
    BY <2>2, <2>3, <2>4 DEF Grows, Gate
  <2>7. LoopInv' /\ LoopsApart'
    BY <2>2, <2>3, <2>4, LoopsKept
  <2>8. ASSUME NEW q \in Runs PROVE RowOK(q)'
    <3>1. RowOK(q)
      BY DEF IInv, RowInv
    <3>2. QED
      BY <2>2, <2>3, <2>4, <3>1 DEF RowOK, Gate, NoAction, Gone
  <2>9. QED
    BY <2>3, <2>5, <2>6, <2>7, <2>8, OthersKept DEF IInv, RowInv
<1>3. ASSUME NEW t \in Tickets, ClosePosition(t) PROVE IInv'
  <2>1. PICK p \in Position : ~p.open /\ pos' = [pos EXCEPT ![t] = p]
    <3>1. pos[t] \in Position
      BY DEF IInv, TypeOK
    <3>2. pos' = [pos EXCEPT ![t] = [pos[t] EXCEPT !.open = FALSE]]
      BY <1>3 DEF ClosePosition, IInv, TypeOK, Position
    <3>3. QED
      BY <3>1, <3>2, PositionClosed
  <2>2. UNCHANGED <<rows, autoApprove, lock, loop, api, queue, worker, acts, approvers, bounds, history>>
    BY <1>3 DEF ClosePosition
  <2>3. \A u \in Tickets : pos'[u] = IF u = t THEN p ELSE pos[u]
    BY <2>1 DEF IInv, TypeOK
  <2>4. TypeOK' /\ Grows
    BY <2>1, <2>2, <2>3 DEF IInv, TypeOK, Grows, Gate
  <2>5. LoopInv' /\ LoopsApart'
    BY <2>2, LoopsKept
  <2>6. ASSUME NEW r \in Runs PROVE RowOK(r)'
    <3>1. RowOK(r)
      BY DEF IInv, RowInv
    <3>2. rows[r].status # Absent /\ Gone(r) => Gone(r)'
      BY <2>1, <2>2, <2>3, <3>1 DEF Gone, RowOK
    <3>3. rows[r].executed => rows[r].status # Absent
      BY <3>1 DEF RowOK, Gate
    <3>4. QED
      BY <2>2, <3>1, <3>2, <3>3 DEF RowOK, Gate, NoAction
  <2>7. QED
    BY <2>2, <2>4, <2>5, <2>6, OthersKept DEF IInv, RowInv
<1>4. QED
  BY <1>1, <1>2, <1>3 DEF Time

-----------------------------------------------------------------------------
(* The invariant holds in every behaviour.                                 *)

\* The initial states satisfy the inductive invariant.
LEMMA InitIInv == Init => IInv
<1> SUFFICES ASSUME Init PROVE IInv
  OBVIOUS
<1>1. TypeOK
  <2>1. [open |-> TRUE, sl |-> "old", tp |-> "old"] \in Position
    BY DEF Position, Level
  <2>2. /\ rows \in [Runs -> Row] /\ loop \in [Loops -> LoopState]
        /\ api \in [Handlers -> ApiState] /\ worker \in [Workers -> WorkerState]
        /\ pos \in [Tickets -> Position]
    BY <2>1, NoRowFields, Idle DEF Init
  <2>3. /\ autoApprove \in BOOLEAN /\ lock \in {"free", "held"}
        /\ queue \in [Runs -> Nat] /\ acts \in [Runs -> Nat]
        /\ approvers \in [Runs -> SUBSET {"human", "auto"}]
        /\ misread \subseteq Runs /\ dropped \subseteq Runs
        /\ approvals \in Nat /\ crashes \in Nat
    BY DEF Init
  <2>4. QED
    BY <2>2, <2>3 DEF TypeOK
<1>2. RowInv /\ QueueInv
  BY NoRowFields DEF Init, RowInv, RowOK, QueueInv, Absent
<1>3. LoopInv /\ LoopsApart /\ ApiInv /\ WorkerInv
  BY Idle DEF Init, LoopInv, LoopOK, LoopsApart, Working, Evaluating,
              ApiInv, ApiOK, WorkerInv, WorkerOK
<1>4. QED
  BY <1>1, <1>2, <1>3 DEF IInv

\* Every step preserves the inductive invariant.
LEMMA NextIInv == IInv /\ [Next]_vars => IInv'
<1> SUFFICES ASSUME IInv, [Next]_vars PROVE IInv'
  OBVIOUS
<1>1. ASSUME NEW l \in Loops, LoopStep(l) \/ KillLoop(l) PROVE IInv'
  BY <1>1, LoopStepPreserves
<1>2. ASSUME NEW h \in Handlers, ApiStep(h) PROVE IInv'
  BY <1>2, ApiStepPreserves
<1>3. CASE UpdateConfig
  <2>1. TypeOK'
    BY <1>3 DEF UpdateConfig, IInv, TypeOK, bounds, history
  <2>2. QED
    BY <1>3, <2>1, RowsKept, OthersKept, LoopsKept DEF UpdateConfig, IInv, history
<1>4. ASSUME NEW w \in Workers, WorkerStep(w) \/ LoseWorker(w) PROVE IInv'
  BY <1>4, WorkerStepPreserves
<1>5. CASE Time \/ \E t \in Tickets : ClosePosition(t)
  BY <1>5, TimePreserves
<1>6. CASE UNCHANGED vars
  <2>1. TypeOK'
    BY <1>6 DEF vars, bounds, history, IInv, TypeOK
  <2>2. QED
    BY <1>6, <2>1, RowsKept, OthersKept, LoopsKept DEF vars, bounds, history, IInv
<1>7. QED
  BY <1>1, <1>2, <1>3, <1>4, <1>5, <1>6 DEF Next

\* The inductive invariant holds in every reachable state, whatever the number
\* of positions, loops, handlers and workers and whatever fails.
THEOREM Invariance == Spec => []IInv
<1>1. QED
  BY InitIInv, NextIInv, PTL DEF Spec

\* Every reachable state is a state the tables and the processes can be in.
THEOREM TypeCorrect == Spec => []TypeOK
<1>1. IInv => TypeOK
  BY DEF IInv
<1>2. QED
  BY <1>1, Invariance, PTL

\* The broker is never touched on behalf of a run nobody entitled approved.
THEOREM GateHolds == Spec => []ApprovalGate
<1>1. IInv => ApprovalGate
  BY DEF IInv, RowInv, RowOK, Gate, ApprovalGate
<1>2. QED
  BY <1>1, Invariance, PTL

\* A broker call that took effect belongs to a run that decided to act.
THEOREM ActsDecided == Spec => []ActsAreDecided
<1>1. IInv => ActsAreDecided
  BY DEF IInv, RowInv, RowOK, NoAction, ActsAreDecided
<1>2. QED
  BY <1>1, Invariance, PTL

\* While commits succeed, no run is approved before its decision is written.
THEOREM ApprovedDecided == Spec => []ApprovedIsDecided
<1>1. IInv => ApprovedIsDecided
  BY DEF IInv, RowInv, RowOK, ApprovedIsDecided
<1>2. QED
  BY <1>1, Invariance, PTL

\* A row marked executed is accounted for by an act, a HOLD, a closed position
\* or a misread refusal, and an executed CLOSE leaves no open position unless a
\* refusal was misread, whatever dispatches, tasks and commits fail.
THEOREM ExecutedAccounted == Spec => [](ExecutedIsAccounted /\ ExecutedCloseIsClosed)
<1>1. IInv => ExecutedIsAccounted /\ ExecutedCloseIsClosed
  BY DEF IInv, RowInv, RowOK, NoAction, Gone, ExecutedIsAccounted, ExecutedCloseIsClosed
<1>2. QED
  BY <1>1, Invariance, PTL

\* No run that decided CLOSE and is marked executed leaves an open position,
\* unless a refusal that says "not found" of something else was misread.
THEOREM ClosedWhenExecuted == Spec => []ExecutedCloseIsClosed
<1>1. ExecutedIsAccounted /\ ExecutedCloseIsClosed => ExecutedCloseIsClosed
  OBVIOUS
<1>2. QED
  BY <1>1, ExecutedAccounted, PTL

-----------------------------------------------------------------------------
(* A decision, once written, is final.                                     *)

\* Only the pipeline writes decisions, and only into a run that has none.
LEMMA DecisionKept ==
    ASSUME IInv, [Next]_vars, NEW r \in Runs, rows[r].action # None
    PROVE  rows'[r].action = rows[r].action
<1>1. rows \in [Runs -> Row] /\ rows[r] \in Row
  BY DEF IInv, TypeOK
<1>2. ASSUME NEW q \in Runs, NEW x, rows' = [rows EXCEPT ![q] = x],
             q = r => x.action = rows[r].action
      PROVE  rows'[r].action = rows[r].action
  BY <1>1, <1>2
<1>3. ASSUME NEW l \in Loops, LoopStep(l) \/ KillLoop(l)
      PROVE  rows'[r].action = rows[r].action
  <2>1. CASE rows' = rows
    BY <2>1
  <2>2. CASE MarkStale(l)
    BY <1>1, <2>2, StatusUpdate DEF MarkStale
  <2>3. ASSUME NEW q \in Runs, CreateRun(l, q) PROVE rows'[r].action = rows[r].action
    <3>1. q # r
      BY <2>3 DEF CreateRun, IInv, RowInv, RowOK
    <3>2. QED
      BY <1>1, <2>3, <3>1 DEF CreateRun
  <2>4. ASSUME Working(l), StartPipeline(l) \/ PipelineFails(l) \/ AutoApprove(l)
        PROVE  rows'[r].action = rows[r].action
    <3>1. loop[l].run \in Runs
      BY <2>4 DEF IInv, LoopInv, LoopOK
    <3>2. \A s \in {"running", "failed"} : WithStatus(rows[r], s).action = rows[r].action
      BY <1>1, StatusUpdate DEF ActiveStatus
    <3>3. WithApproval(rows[r], "approved").action = rows[r].action
      BY <1>1, ApprovalUpdate
    <3>4. QED
      BY <1>1, <2>4, <3>1, <3>2, <3>3 DEF StartPipeline, PipelineFails, AutoApprove
  <2>5. ASSUME NEW a \in Decisions, PersistDecision(l, a)
        PROVE  rows'[r].action = rows[r].action
    <3>1. loop[l].run \in Runs /\ loop[l].run # r
      BY <2>5 DEF PersistDecision, IInv, LoopInv, LoopOK, Working, Evaluating
    <3>2. QED
      BY <1>1, <2>5, <3>1 DEF PersistDecision
  <2>6. StartPipeline(l) \/ PipelineFails(l) \/ AutoApprove(l) => Working(l)
    BY DEF StartPipeline, PipelineFails, AutoApprove, Working
  <2>7. QED
    BY <1>3, <2>1, <2>2, <2>3, <2>4, <2>5, <2>6
       DEF LoopStep, BeatStart, BeatFindsNothing, BeatStartWithoutRedis, ForcedStart, SkipFresh,
           PickPosition, MarkFails, CreateFails, PersistFails, PipelineFailsUnsaved,
           LeaveToHuman, AutoDispatch, AutoDispatchFails, FinishLoop, KillLoop
<1>4. ASSUME NEW h \in Handlers, ApiStep(h) PROVE rows'[r].action = rows[r].action
  <2>1. CASE rows' = rows
    BY <2>1
  <2>2. CASE CommitApproval(h) \/ CommitReject(h)
    <3>1. \A v \in {"approved", "rejected"} : WithApproval(rows[r], v).action = rows[r].action
      BY <1>1, ApprovalUpdate
    <3>2. QED
      BY <1>1, <2>2, <3>1 DEF CommitApproval, CommitReject
  <2>3. QED
    BY <1>4, <2>1, <2>2
       DEF ApiStep, CheckApproval, CheckReject, DispatchApproved, DispatchFails, CommitRefused
<1>5. ASSUME NEW w \in Workers, WorkerStep(w) \/ LoseWorker(w)
      PROVE  rows'[r].action = rows[r].action
  <2>1. CASE rows' = rows
    BY <2>1
  <2>2. CASE CommitHold(w) \/ CommitOutcome(w)
    <3>1. worker[w].pc = "commit" => worker[w].outcome \in {"executed", "not found", "failed"}
      BY DEF IInv, TypeOK, WorkerState, WorkerInv, WorkerOK, None
    <3>2. \A o \in {"executed", "not found", "failed"} :
             Settled(rows[r], o).action = rows[r].action
      BY <1>1, SettlementUpdate
    <3>3. QED
      BY <1>1, <2>2, <3>1, <3>2 DEF CommitHold, CommitOutcome
  <2>3. QED
    BY <1>5, <2>1, <2>2
       DEF WorkerStep, DropTask, TakeTask, BrokerActs, BrokerRefuses, CommitFails, BreakOff, LoseWorker
<1>6. ASSUME NEW q \in Runs, PassStaleThreshold(q) \/ PassCooldown(q)
      PROVE  rows'[r].action = rows[r].action
  <2>1. \/ rows' = [rows EXCEPT ![q] = [rows[q] EXCEPT !.recent = FALSE]]
        \/ rows' = [rows EXCEPT ![q] = [rows[q] EXCEPT !.cooling = FALSE]]
    BY <1>1, <1>6 DEF PassStaleThreshold, PassCooldown, Row
  <2>2. QED
    BY <1>1, <2>1, RowAged
<1>7. UpdateConfig \/ ExpireLock \/ (\E t \in Tickets : ClosePosition(t))
        \/ UNCHANGED vars => rows' = rows
  BY DEF UpdateConfig, ExpireLock, ClosePosition, vars
<1>8. QED
  BY <1>3, <1>4, <1>5, <1>6, <1>7 DEF Next, Time

\* The decision a human or the loop approved is the one that is executed.
THEOREM DecisionFinal == Spec => DecisionIsFinal
<1>1. IInv /\ [Next]_vars =>
        [\A r \in Runs : rows[r].action # None => rows'[r].action = rows[r].action]_vars
  BY DecisionKept
<1>2. QED
  BY <1>1, Invariance, PTL DEF Spec, DecisionIsFinal

-----------------------------------------------------------------------------
(***************************************************************************)
(* Two theorems about Governance that need counting and exclusion.         *)
(*                                                                         *)
(* NoPhantomAction: what is due of a run, the actions taken and the        *)
(* messages, tasks, handlers and loops that may still lead to one, never   *)
(* exceeds what has been paid for: human approvals, crashes and the loop's *)
(* own approval.  Each step moves one process, so that one lemma counts    *)
(* for each kind of process.                                               *)
(*                                                                         *)
(* OneFreshRunPerTicket and StaleRunsWereKilled: while the lock works and  *)
(* no loop is forced, a single loop runs, and that makes the freshness     *)
(* check and the reading of stale runs atomic.                             *)
(***************************************************************************)

-----------------------------------------------------------------------------
(* Counting                                                                *)

In(x, S) == IF x \in S THEN 1 ELSE 0

\* A set that changes in x only changes its cardinality by what x does.
LEMMA OneMoves ==
    ASSUME NEW A, NEW B, NEW x, IsFiniteSet(A), A \ {x} = B \ {x}
    PROVE  /\ IsFiniteSet(B)
           /\ Cardinality(A) \in Nat /\ Cardinality(B) \in Nat
           /\ Cardinality(B) + In(x, A) = Cardinality(A) + In(x, B)
<1>1. IsFiniteSet(A \ {x})
    BY FS_RemoveElement
<1>2. IsFiniteSet(B)
    <2>1. IsFiniteSet((B \ {x}) \cup {x})
        BY <1>1, FS_AddElement
    <2>2. B \subseteq (B \ {x}) \cup {x}
        OBVIOUS
    <2> QED BY <2>1, <2>2, FS_Subset
<1>3. /\ Cardinality(A) \in Nat /\ Cardinality(B) \in Nat
      /\ Cardinality(A \ {x}) \in Nat
    BY <1>1, <1>2, FS_CardinalityType
<1>4. Cardinality(A \ {x}) = IF x \in A THEN Cardinality(A) - 1 ELSE Cardinality(A)
    BY FS_RemoveElement
<1>5. Cardinality(B \ {x}) = IF x \in B THEN Cardinality(B) - 1 ELSE Cardinality(B)
    BY <1>2, FS_RemoveElement
<1>6. Cardinality(B) + In(x, A) = Cardinality(A) + In(x, B)
    BY <1>3, <1>4, <1>5 DEF In
<1> QED BY <1>2, <1>3, <1>6

-----------------------------------------------------------------------------
(* What is due of a run                                                    *)

\* A task about to call the broker, a handler that has passed the checks of
\* an approval, a loop that has approved: each may lead to one more action.
ActsOn(x, r)      == IF x.pc = "broker" /\ x.run = r THEN 1 ELSE 0
Approves(x, r)    == IF x.pc \in {"approve", "dispatch"} /\ x.run = r THEN 1 ELSE 0
Dispatches(x, r)  == IF x.pc = "dispatch" /\ x.run = r THEN 1 ELSE 0

Acting(f, r)      == {w \in Workers : ActsOn(f[w], r) = 1}
Approving(f, r)   == {h \in Handlers : Approves(f[h], r) = 1}
Dispatching(f, r) == {l \in Loops : Dispatches(f[l], r) = 1}

Due(r) == acts[r] + queue[r] + Cardinality(Acting(worker, r))
              + Cardinality(Approving(api, r)) + Cardinality(Dispatching(loop, r))

Paid(r) == approvals + crashes + In("auto", approvers[r])

Budget == \A r \in Runs : Due(r) <= Paid(r)

\* Until a loop has approved its run, no loop has.
Unapproved ==
    \A l \in Loops : loop[l].pc = "decided" => "auto" \notin approvers[loop[l].run]

BInv == IInv /\ Unapproved /\ Budget

LEMMA ActingMoves ==
    ASSUME NEW w \in Workers, NEW r,
           \A v \in Workers : v # w => worker'[v] = worker[v]
    PROVE  /\ Cardinality(Acting(worker, r)) \in Nat /\ Cardinality(Acting(worker', r)) \in Nat
           /\ Cardinality(Acting(worker', r)) + ActsOn(worker[w], r)
                  = Cardinality(Acting(worker, r)) + ActsOn(worker'[w], r)
<1>1. IsFiniteSet(Acting(worker, r))
    BY ConstantsAssumption, FS_Subset DEF Acting
<1>2. Acting(worker, r) \ {w} = Acting(worker', r) \ {w}
    BY DEF Acting
<1>3. In(w, Acting(worker, r)) = ActsOn(worker[w], r) /\ In(w, Acting(worker', r)) = ActsOn(worker'[w], r)
    BY DEF Acting, ActsOn, In
<1> QED BY <1>1, <1>2, <1>3, OneMoves

LEMMA ApprovingMoves ==
    ASSUME NEW h \in Handlers, NEW r,
           \A k \in Handlers : k # h => api'[k] = api[k]
    PROVE  /\ Cardinality(Approving(api, r)) \in Nat /\ Cardinality(Approving(api', r)) \in Nat
           /\ Cardinality(Approving(api', r)) + Approves(api[h], r)
                  = Cardinality(Approving(api, r)) + Approves(api'[h], r)
<1>1. IsFiniteSet(Approving(api, r))
    BY ConstantsAssumption, FS_Subset DEF Approving
<1>2. Approving(api, r) \ {h} = Approving(api', r) \ {h}
    BY DEF Approving
<1>3. In(h, Approving(api, r)) = Approves(api[h], r) /\ In(h, Approving(api', r)) = Approves(api'[h], r)
    BY DEF Approving, Approves, In
<1> QED BY <1>1, <1>2, <1>3, OneMoves

LEMMA DispatchingMoves ==
    ASSUME NEW l \in Loops, NEW r,
           \A k \in Loops : k # l => loop'[k] = loop[k]
    PROVE  /\ Cardinality(Dispatching(loop, r)) \in Nat
           /\ Cardinality(Dispatching(loop', r)) \in Nat
           /\ Cardinality(Dispatching(loop', r)) + Dispatches(loop[l], r)
                  = Cardinality(Dispatching(loop, r)) + Dispatches(loop'[l], r)
<1>1. IsFiniteSet(Dispatching(loop, r))
    BY ConstantsAssumption, FS_Subset DEF Dispatching
<1>2. Dispatching(loop, r) \ {l} = Dispatching(loop', r) \ {l}
    BY DEF Dispatching
<1>3. In(l, Dispatching(loop, r)) = Dispatches(loop[l], r) /\ In(l, Dispatching(loop', r)) = Dispatches(loop'[l], r)
    BY DEF Dispatching, Dispatches, In
<1> QED BY <1>1, <1>2, <1>3, OneMoves

\* All that is counted is a number.
LEMMA Numbers ==
    ASSUME NEW r
    PROVE  /\ Cardinality(Acting(worker, r)) \in Nat
           /\ Cardinality(Approving(api, r)) \in Nat
           /\ Cardinality(Dispatching(loop, r)) \in Nat
<1>1. /\ IsFiniteSet(Acting(worker, r)) /\ IsFiniteSet(Approving(api, r))
      /\ IsFiniteSet(Dispatching(loop, r))
    BY ConstantsAssumption, FS_Subset DEF Acting, Approving, Dispatching
<1> QED BY <1>1, FS_CardinalityType

\* A task moves: what it adds to the actions and the queue it has held, or a
\* crash has been paid for it.
LEMMA TaskPays ==
    ASSUME TypeOK, TypeOK', Budget, NEW w \in Workers,
           \A v \in Workers : v # w => worker'[v] = worker[v],
           UNCHANGED <<api, loop, approvers, approvals>>,
           \A r \in Runs :
               acts'[r] + queue'[r] + ActsOn(worker'[w], r) + crashes
                   <= acts[r] + queue[r] + ActsOn(worker[w], r) + crashes'
    PROVE  Budget'
<1> SUFFICES ASSUME NEW r \in Runs PROVE (Due(r) <= Paid(r))'
    BY DEF Budget
<1>1. /\ Cardinality(Acting(worker, r)) \in Nat /\ Cardinality(Acting(worker', r)) \in Nat
      /\ Cardinality(Acting(worker', r)) + ActsOn(worker[w], r)
             = Cardinality(Acting(worker, r)) + ActsOn(worker'[w], r)
    BY ActingMoves
<1>2. /\ acts[r] \in Nat /\ queue[r] \in Nat /\ acts'[r] \in Nat /\ queue'[r] \in Nat
      /\ crashes \in Nat /\ crashes' \in Nat /\ approvals \in Nat
    BY DEF TypeOK
<1>3. acts[r] + queue[r] + Cardinality(Acting(worker, r))
          + Cardinality(Approving(api, r)) + Cardinality(Dispatching(loop, r))
          <= approvals + crashes + In("auto", approvers[r])
    BY DEF Budget, Due, Paid
<1>4. acts'[r] + queue'[r] + Cardinality(Acting(worker', r))
          + Cardinality(Approving(api, r)) + Cardinality(Dispatching(loop, r))
          <= approvals + crashes' + In("auto", approvers[r])
    BY <1>1, <1>2, <1>3, Numbers DEF In, ActsOn
<1> QED BY <1>4 DEF Due, Paid

\* A handler moves: an approval is counted when it is checked.
LEMMA HandlerPays ==
    ASSUME TypeOK, TypeOK', Budget, NEW h \in Handlers,
           \A k \in Handlers : k # h => api'[k] = api[k],
           UNCHANGED <<worker, loop, acts, crashes>>,
           \A r \in Runs :
               /\ "auto" \in approvers'[r] <=> "auto" \in approvers[r]
               /\ queue'[r] + Approves(api'[h], r) + approvals
                      <= queue[r] + Approves(api[h], r) + approvals'
    PROVE  Budget'
<1> SUFFICES ASSUME NEW r \in Runs PROVE (Due(r) <= Paid(r))'
    BY DEF Budget
<1>1. /\ Cardinality(Approving(api, r)) \in Nat /\ Cardinality(Approving(api', r)) \in Nat
      /\ Cardinality(Approving(api', r)) + Approves(api[h], r)
             = Cardinality(Approving(api, r)) + Approves(api'[h], r)
    BY ApprovingMoves
<1>2. /\ acts[r] \in Nat /\ queue[r] \in Nat /\ queue'[r] \in Nat
      /\ crashes \in Nat /\ approvals \in Nat /\ approvals' \in Nat
    BY DEF TypeOK
<1>3. acts[r] + queue[r] + Cardinality(Acting(worker, r))
          + Cardinality(Approving(api, r)) + Cardinality(Dispatching(loop, r))
          <= approvals + crashes + In("auto", approvers[r])
    BY DEF Budget, Due, Paid
<1>4. acts[r] + queue'[r] + Cardinality(Acting(worker, r))
          + Cardinality(Approving(api', r)) + Cardinality(Dispatching(loop, r))
          <= approvals' + crashes + In("auto", approvers[r])
    BY <1>1, <1>2, <1>3, Numbers DEF In, Approves
<1>5. In("auto", approvers'[r]) = In("auto", approvers[r])
    BY DEF In
<1> QED BY <1>4, <1>5 DEF Due, Paid

\* A loop moves: its own approval is counted when it is committed.
LEMMA LoopPays ==
    ASSUME TypeOK, TypeOK', Budget, NEW l \in Loops,
           \A k \in Loops : k # l => loop'[k] = loop[k],
           UNCHANGED <<worker, api, acts, approvals>>,
           \A r \in Runs :
               queue'[r] + Dispatches(loop'[l], r) + crashes
                      + In("auto", approvers[r])
                   <= queue[r] + Dispatches(loop[l], r) + crashes'
                      + In("auto", approvers'[r])
    PROVE  Budget'
<1> SUFFICES ASSUME NEW r \in Runs PROVE (Due(r) <= Paid(r))'
    BY DEF Budget
<1>1. /\ Cardinality(Dispatching(loop, r)) \in Nat
      /\ Cardinality(Dispatching(loop', r)) \in Nat
      /\ Cardinality(Dispatching(loop', r)) + Dispatches(loop[l], r)
             = Cardinality(Dispatching(loop, r)) + Dispatches(loop'[l], r)
    BY DispatchingMoves
<1>2. /\ acts[r] \in Nat /\ queue[r] \in Nat /\ queue'[r] \in Nat
      /\ crashes \in Nat /\ crashes' \in Nat /\ approvals \in Nat
    BY DEF TypeOK
<1>3. acts[r] + queue[r] + Cardinality(Acting(worker, r))
          + Cardinality(Approving(api, r)) + Cardinality(Dispatching(loop, r))
          <= approvals + crashes + In("auto", approvers[r])
    BY DEF Budget, Due, Paid
<1>4. acts[r] + queue'[r] + Cardinality(Acting(worker, r))
          + Cardinality(Approving(api, r)) + Cardinality(Dispatching(loop', r))
          <= approvals + crashes' + In("auto", approvers'[r])
    BY <1>1, <1>2, <1>3, Numbers DEF In, Dispatches
<1> QED BY <1>4 DEF Due, Paid

\* Nothing that is counted changes.
LEMMA NothingMoves ==
    ASSUME Budget, UNCHANGED <<worker, api, loop, queue, acts, approvers, bounds, history>>
    PROVE  Budget'
BY DEF Budget, Due, Paid, bounds

-----------------------------------------------------------------------------
(* Every step pays for what it makes due                                   *)

\* A loop that approves nothing and enqueues nothing.
LEMMA LoopQuiet ==
    ASSUME BInv, IInv', NEW l \in Loops, loop'[l].pc # "dispatch",
           \A k \in Loops : k # l => loop'[k] = loop[k], crashes' >= crashes,
           UNCHANGED <<worker, api, queue, acts, approvers, approvals>>
    PROVE  Budget'
<1>1. TypeOK /\ TypeOK' /\ Budget
    BY DEF BInv, IInv
<1>2. ASSUME NEW r \in Runs
      PROVE  queue'[r] + Dispatches(loop'[l], r) + crashes + In("auto", approvers[r])
                 <= queue[r] + Dispatches(loop[l], r) + crashes'
                        + In("auto", approvers'[r])
    <2>1. queue[r] \in Nat /\ crashes \in Nat /\ crashes' \in Nat
        BY <1>1 DEF TypeOK
    <2> QED BY <2>1 DEF Dispatches, In
<1> QED BY <1>1, <1>2, LoopPays

LEMMA LoopBudget ==
    ASSUME BInv, IInv', NEW l \in Loops, LoopStep(l) \/ KillLoop(l)
    PROVE  Budget'
<1> USE DEF bounds, history
<1>1. /\ TypeOK /\ TypeOK' /\ Budget /\ LoopOK(l) /\ loop[l] \in LoopState
      /\ crashes \in Nat /\ loop \in [Loops -> LoopState]
    BY DEF BInv, IInv, LoopInv, TypeOK
<1>2. ASSUME NEW y, loop' = [loop EXCEPT ![l] = y]
      PROVE  loop'[l] = y /\ \A k \in Loops : k # l => loop'[k] = loop[k]
    BY <1>1, <1>2
<1>3. \A S : Between(S).pc = "next"
    BY DEF Between, IdleLoop
<1>4. /\ \A p : Goto(loop[l], p).pc = p
      /\ \A a : Told(loop[l], a).pc = "decided"
      /\ \A r, b : Created(loop[l], r, b).pc = "created"
    BY <1>1 DEF Goto, Told, Created, LoopState
<1>5. CASE BeatStart(l) \/ BeatStartWithoutRedis(l) \/ ForcedStart(l)
    <2>1. loop' = [loop EXCEPT ![l] = Between(OpenTickets)]
        BY <1>5 DEF BeatStart, BeatStartWithoutRedis, ForcedStart
    <2> QED BY <1>1, <1>2, <1>3, <1>5, <2>1, LoopQuiet
            DEF BeatStart, BeatStartWithoutRedis, ForcedStart
<1>6. ASSUME NEW t \in Tickets, SkipFresh(l, t) \/ PickPosition(l, t) PROVE Budget'
    <2>1. PICK y : y.pc # "dispatch" /\ loop' = [loop EXCEPT ![l] = y]
        BY <1>3, <1>6 DEF SkipFresh, PickPosition, Picked, IdleLoop
    <2> QED BY <1>1, <1>2, <1>6, <2>1, LoopQuiet DEF SkipFresh, PickPosition
<1>7. CASE MarkStale(l)
    <2>1. PICK y : y.pc # "dispatch" /\ loop' = [loop EXCEPT ![l] = y]
        BY <1>3, <1>4, <1>7 DEF MarkStale, NextPosition
    <2> QED BY <1>1, <1>2, <1>7, <2>1, LoopQuiet DEF MarkStale
<1>8. CASE \/ MarkFails(l) \/ CreateFails(l) \/ LeaveToHuman(l)
           \/ AutoDispatchFails(l)
    <2>1. loop' = [loop EXCEPT ![l] = Between(loop[l].todo)]
        BY <1>8 DEF MarkFails, CreateFails, LeaveToHuman, AutoDispatchFails, NextPosition
    <2> QED BY <1>1, <1>2, <1>3, <1>8, <2>1, LoopQuiet
            DEF MarkFails, CreateFails, LeaveToHuman, AutoDispatchFails
<1>9. ASSUME NEW r \in Runs, CreateRun(l, r) PROVE Budget'
    BY <1>1, <1>2, <1>4, <1>9, LoopQuiet DEF CreateRun
<1>10. CASE StartPipeline(l) \/ PipelineFails(l) \/ PipelineFailsUnsaved(l)
    <2>1. PICK y : y.pc # "dispatch" /\ loop' = [loop EXCEPT ![l] = y]
        BY <1>4, <1>10 DEF StartPipeline, PipelineFails, PipelineFailsUnsaved
    <2>2. UNCHANGED <<worker, api, queue, acts, approvers, approvals, crashes>>
        BY <1>10 DEF StartPipeline, PipelineFails, PipelineFailsUnsaved
    <2> QED BY <1>1, <1>2, <2>1, <2>2, LoopQuiet
<1>14. ASSUME NEW a \in Decisions, PersistDecision(l, a) \/ PersistFails(l, a)
       PROVE  Budget'
    <2>1. loop' = [loop EXCEPT ![l] = Told(loop[l], a)]
        BY <1>14 DEF PersistDecision, PersistFails
    <2>2. UNCHANGED <<worker, api, queue, acts, approvers, approvals, crashes>>
        BY <1>14 DEF PersistDecision, PersistFails
    <2> QED BY <1>1, <1>2, <1>4, <2>1, <2>2, LoopQuiet
<1>11. CASE AutoApprove(l)
    <2>1. PICK q : q = loop[l].run
        OBVIOUS
    <2>2. q \in Runs /\ loop[l].pc = "decided" /\ "auto" \notin approvers[q]
        BY <1>1, <1>11, <2>1 DEF AutoApprove, LoopOK, Working, BInv, Unapproved
    <2>3. /\ \A k \in Loops : k # l => loop'[k] = loop[k]
          /\ loop'[l].pc = "dispatch" /\ loop'[l].run = q
        BY <1>1, <1>11, <2>1 DEF AutoApprove, Goto, LoopState, TypeOK
    <2>4. \A r \in Runs : approvers'[r] = IF r = q THEN approvers[r] \cup {"auto"}
                                          ELSE approvers[r]
        BY <1>1, <1>11, <2>1 DEF AutoApprove, TypeOK
    <2>5. ASSUME NEW r \in Runs
          PROVE  queue'[r] + Dispatches(loop'[l], r) + crashes + In("auto", approvers[r])
                     <= queue[r] + Dispatches(loop[l], r) + crashes'
                            + In("auto", approvers'[r])
        <3>1. queue[r] \in Nat /\ queue' = queue /\ crashes' = crashes
            BY <1>1, <1>11 DEF TypeOK, AutoApprove
        <3>2. CASE r = q
            <4>1. Dispatches(loop'[l], r) = 1 /\ Dispatches(loop[l], r) = 0
                BY <2>2, <2>3, <3>2 DEF Dispatches
            <4>2. In("auto", approvers[r]) = 0 /\ In("auto", approvers'[r]) = 1
                BY <2>2, <2>4, <3>2 DEF In
            <4> QED BY <1>1, <3>1, <4>1, <4>2
        <3>3. CASE r # q
            <4>1. Dispatches(loop'[l], r) = 0 /\ Dispatches(loop[l], r) = 0
                BY <2>2, <2>3, <3>3 DEF Dispatches
            <4>2. In("auto", approvers'[r]) = In("auto", approvers[r])
                BY <2>4, <3>3 DEF In
            <4> QED BY <1>1, <3>1, <4>1, <4>2 DEF In
        <3> QED BY <3>2, <3>3
    <2> QED BY <1>1, <1>11, <2>3, <2>5, LoopPays DEF AutoApprove
<1>12. CASE AutoDispatch(l)
    <2>1. PICK q : q = loop[l].run
        OBVIOUS
    <2>2. q \in Runs /\ loop[l].pc = "dispatch"
        BY <1>1, <1>12, <2>1 DEF AutoDispatch, LoopOK, Working
    <2>3. /\ \A k \in Loops : k # l => loop'[k] = loop[k]
          /\ loop'[l].pc = "next"
        BY <1>1, <1>12 DEF AutoDispatch, NextPosition, Between, IdleLoop, TypeOK
    <2>4. \A r \in Runs : queue'[r] = IF r = q THEN queue[r] + 1 ELSE queue[r]
        BY <1>1, <1>12, <2>1 DEF AutoDispatch, TypeOK
    <2>5. ASSUME NEW r \in Runs
          PROVE  queue'[r] + Dispatches(loop'[l], r) + crashes + In("auto", approvers[r])
                     <= queue[r] + Dispatches(loop[l], r) + crashes'
                            + In("auto", approvers'[r])
        <3>1. queue[r] \in Nat /\ approvers' = approvers /\ crashes' = crashes
            BY <1>1, <1>12 DEF TypeOK, AutoDispatch
        <3> QED BY <1>1, <2>1, <2>2, <2>3, <2>4, <3>1 DEF Dispatches, In
    <2> QED BY <1>1, <1>12, <2>3, <2>5, LoopPays DEF AutoDispatch
<1>13. CASE KillLoop(l) \/ FinishLoop(l)
    <2>1. loop' = [loop EXCEPT ![l] = IdleLoop] /\ IdleLoop.pc # "dispatch"
        BY <1>13, Idle DEF KillLoop, FinishLoop
    <2>2. crashes' >= crashes
        BY <1>1, <1>13 DEF KillLoop, FinishLoop
    <2> QED BY <1>1, <1>2, <1>13, <2>1, <2>2, LoopQuiet DEF KillLoop, FinishLoop
<1>15. CASE BeatFindsNothing(l)
    <2>1. loop' = loop /\ loop[l].pc # "dispatch"
        BY <1>15 DEF BeatFindsNothing
    <2> QED BY <1>1, <1>15, <2>1, LoopQuiet DEF BeatFindsNothing
<1> QED BY <1>5, <1>6, <1>7, <1>8, <1>9, <1>10, <1>11, <1>12, <1>13, <1>14, <1>15
       DEF LoopStep

LEMMA HandlerBudget ==
    ASSUME BInv, IInv', NEW h \in Handlers, ApiStep(h)
    PROVE  Budget'
<1> USE DEF bounds, history
<1>1. /\ TypeOK /\ TypeOK' /\ Budget /\ ApiOK(h) /\ api \in [Handlers -> ApiState]
      /\ approvals \in Nat /\ approvers \in [Runs -> SUBSET {"human", "auto"}]
      /\ queue \in [Runs -> Nat]
    BY DEF BInv, IInv, ApiInv, TypeOK
<1>2. ASSUME NEW y, api' = [api EXCEPT ![h] = y]
      PROVE  api'[h] = y /\ \A k \in Handlers : k # h => api'[k] = api[k]
    BY <1>1, <1>2
<1>3. ASSUME NEW r \in Runs, CheckApproval(h, r) PROVE Budget'
    <2>1. PICK y : y.pc = "approve" /\ y.run = r /\ api' = [api EXCEPT ![h] = y]
        BY <1>3 DEF CheckApproval
    <2>2. /\ UNCHANGED <<worker, loop, acts, crashes, queue, approvers>>
          /\ approvals' = approvals + 1
        BY <1>3 DEF CheckApproval
    <2>3. ASSUME NEW q \in Runs
          PROVE  queue'[q] + Approves(api'[h], q) + approvals
                     <= queue[q] + Approves(api[h], q) + approvals'
        <3>1. queue[q] \in Nat /\ queue'[q] = queue[q]
            BY <1>1, <2>2
        <3> QED BY <1>1, <2>2, <3>1 DEF Approves
    <2> QED BY <1>1, <1>2, <2>1, <2>2, <2>3, HandlerPays
<1>4. ASSUME NEW r \in Runs, CheckReject(h, r) PROVE Budget'
    <2> DEFINE y == [pc |-> "reject", run |-> r, writes |-> rows[r].approval # "rejected"]
    <2>1. y.pc = "reject" /\ api' = [api EXCEPT ![h] = y]
        BY <1>4, Zenon DEF CheckReject
    <2> HIDE DEF y
    <2>2. UNCHANGED <<worker, loop, acts, crashes, queue, approvers, approvals>>
        BY <1>4 DEF CheckReject
    <2> QED BY <1>1, <1>2, <2>1, <2>2, HandlerPays DEF Approves
<1>5. CASE CommitApproval(h)
    <2>1. PICK y : /\ y.pc = "dispatch" /\ y.run = api[h].run
                   /\ api' = [api EXCEPT ![h] = y]
        BY <1>5 DEF CommitApproval
    <2>2. /\ UNCHANGED <<worker, loop, acts, crashes, queue, approvals>>
          /\ api[h].pc = "approve" /\ api[h].run \in Runs
          /\ approvers' = [approvers EXCEPT ![api[h].run] = @ \cup {"human"}]
        BY <1>1, <1>5 DEF CommitApproval, ApiOK
    <2>3. ASSUME NEW q \in Runs
          PROVE  /\ "auto" \in approvers'[q] <=> "auto" \in approvers[q]
                 /\ queue'[q] = queue[q] /\ Approves(api'[h], q) = Approves(api[h], q)
        BY <1>1, <1>2, <2>1, <2>2 DEF Approves
    <2>4. \A q \in Runs : queue[q] \in Nat /\ Approves(api[h], q) \in Nat
        BY <1>1 DEF Approves
    <2> QED BY <1>1, <1>2, <2>1, <2>2, <2>3, <2>4, HandlerPays
<1>6. CASE DispatchApproved(h)
    <2>1. api' = [api EXCEPT ![h] = IdleApi] /\ IdleApi.pc = "idle"
        BY <1>6, Idle DEF DispatchApproved
    <2>2. /\ UNCHANGED <<worker, loop, acts, crashes, approvers, approvals>>
          /\ api[h].pc = "dispatch" /\ api[h].run \in Runs
          /\ queue' = [queue EXCEPT ![api[h].run] = @ + 1]
        BY <1>1, <1>6 DEF DispatchApproved, ApiOK
    <2>3. ASSUME NEW q \in Runs
          PROVE  queue'[q] + Approves(api'[h], q) <= queue[q] + Approves(api[h], q)
        <3>1. queue[q] \in Nat /\ Approves(api'[h], q) = 0
            BY <1>1, <1>2, <2>1 DEF Approves
        <3> QED BY <1>1, <2>2, <3>1 DEF Approves
    <2>4. \A q \in Runs : /\ queue[q] \in Nat /\ Approves(api[h], q) \in Nat
                          /\ queue'[q] \in Nat /\ Approves(api'[h], q) \in Nat
        BY <1>1 DEF Approves, TypeOK
    <2>5. \A q \in Runs : queue'[q] + Approves(api'[h], q) + approvals
                              <= queue[q] + Approves(api[h], q) + approvals'
        BY <1>1, <2>2, <2>3, <2>4
    <2> QED BY <1>1, <1>2, <2>1, <2>2, <2>5, HandlerPays
<1>7. CASE DispatchFails(h) \/ CommitReject(h) \/ CommitRefused(h)
    <2>1. api' = [api EXCEPT ![h] = IdleApi] /\ IdleApi.pc = "idle"
        BY <1>7, Idle DEF DispatchFails, CommitReject, CommitRefused
    <2>2. UNCHANGED <<worker, loop, acts, crashes, queue, approvers, approvals>>
        BY <1>7 DEF DispatchFails, CommitReject, CommitRefused
    <2> QED BY <1>1, <1>2, <2>1, <2>2, HandlerPays DEF Approves
<1> QED BY <1>3, <1>4, <1>5, <1>6, <1>7 DEF ApiStep

LEMMA WorkerBudget ==
    ASSUME BInv, IInv', NEW w \in Workers, WorkerStep(w) \/ LoseWorker(w)
    PROVE  Budget'
<1> USE DEF bounds, history
<1>1. /\ TypeOK /\ TypeOK' /\ Budget /\ WorkerOK(w) /\ worker \in [Workers -> WorkerState]
      /\ crashes \in Nat /\ queue \in [Runs -> Nat] /\ acts \in [Runs -> Nat]
    BY DEF BInv, IInv, WorkerInv, TypeOK
<1>2. ASSUME NEW y, worker' = [worker EXCEPT ![w] = y]
      PROVE  worker'[w] = y /\ \A v \in Workers : v # w => worker'[v] = worker[v]
    BY <1>1, <1>2
<1>3. \A q \in Runs : queue[q] \in Nat /\ acts[q] \in Nat
    BY <1>1
<1>4. ASSUME NEW r \in Runs, DropTask(w, r) PROVE Budget'
    <2>1. /\ UNCHANGED <<api, loop, worker, acts, approvers, approvals, crashes>>
          /\ queue[r] > 0 /\ queue' = [queue EXCEPT ![r] = @ - 1]
        BY <1>4 DEF DropTask
    <2>2. \A q \in Runs : queue'[q] <= queue[q] /\ queue'[q] \in Nat
        BY <1>1, <2>1 DEF TypeOK
    <2> QED BY <1>1, <1>3, <2>1, <2>2, TaskPays DEF ActsOn
<1>5. ASSUME NEW r \in Runs, TakeTask(w, r) PROVE Budget'
    <2> DEFINE y == [pc |-> IF rows[r].action \in {"HOLD", None} THEN "hold" ELSE "broker",
                     run |-> r, outcome |-> None]
    <2>1. y.run = r /\ worker' = [worker EXCEPT ![w] = y]
        BY <1>5, Zenon DEF TakeTask
    <2> HIDE DEF y
    <2>2. /\ UNCHANGED <<api, loop, acts, approvers, approvals, crashes>>
          /\ queue[r] > 0 /\ queue' = [queue EXCEPT ![r] = @ - 1]
        BY <1>5 DEF TakeTask
    <2>3. ASSUME NEW q \in Runs
          PROVE  acts'[q] + queue'[q] + ActsOn(worker'[w], q) + crashes
                     <= acts[q] + queue[q] + ActsOn(worker[w], q) + crashes'
        <3>1. CASE q = r
            <4>1. queue'[q] = queue[q] - 1
                BY <1>1, <2>2, <3>1
            <4> QED BY <1>1, <1>3, <2>2, <4>1 DEF ActsOn
        <3>2. CASE q # r
            <4>1. queue'[q] = queue[q] /\ ActsOn(worker'[w], q) = 0
                BY <1>1, <1>2, <2>1, <2>2, <3>2 DEF ActsOn
            <4> QED BY <1>1, <1>3, <2>2, <4>1 DEF ActsOn
        <3> QED BY <3>1, <3>2
    <2> QED BY <1>1, <1>2, <2>1, <2>2, <2>3, TaskPays
<1>6. CASE CommitHold(w) \/ CommitOutcome(w) \/ CommitFails(w) \/ BreakOff(w)
    <2>1. worker' = [worker EXCEPT ![w] = IdleWorker] /\ IdleWorker.pc = "idle"
        BY <1>6, Idle DEF CommitHold, CommitOutcome, CommitFails, BreakOff
    <2>2. UNCHANGED <<api, loop, queue, acts, approvers, approvals, crashes>>
        BY <1>6 DEF CommitHold, CommitOutcome, CommitFails, BreakOff
    <2> QED BY <1>1, <1>2, <1>3, <2>1, <2>2, TaskPays DEF ActsOn
<1>7. CASE BrokerActs(w)
    <2>1. PICK y : y.pc = "commit" /\ worker' = [worker EXCEPT ![w] = y]
        BY <1>7 DEF BrokerActs
    <2>2. /\ UNCHANGED <<api, loop, queue, approvers, approvals, crashes>>
          /\ worker[w].pc = "broker" /\ worker[w].run \in Runs
          /\ acts' = [acts EXCEPT ![worker[w].run] = @ + 1]
        BY <1>1, <1>7 DEF BrokerActs, WorkerOK
    <2>3. ASSUME NEW q \in Runs
          PROVE  acts'[q] + queue'[q] + ActsOn(worker'[w], q) + crashes
                     <= acts[q] + queue[q] + ActsOn(worker[w], q) + crashes'
        <3>1. ActsOn(worker'[w], q) = 0
            BY <1>2, <2>1 DEF ActsOn
        <3>2. CASE q = worker[w].run
            <4>1. acts'[q] = acts[q] + 1 /\ ActsOn(worker[w], q) = 1
                BY <1>1, <2>2, <3>2 DEF ActsOn
            <4> QED BY <1>1, <1>3, <2>2, <3>1, <4>1
        <3>3. CASE q # worker[w].run
            <4>1. acts'[q] = acts[q]
                BY <1>1, <2>2, <3>3
            <4> QED BY <1>1, <1>3, <2>2, <3>1, <4>1 DEF ActsOn
        <3> QED BY <3>2, <3>3
    <2> QED BY <1>1, <1>2, <2>1, <2>2, <2>3, TaskPays
<1>8. CASE BrokerRefuses(w)
    <2>1. PICK y : y.pc = "commit" /\ worker' = [worker EXCEPT ![w] = y]
        BY <1>8 DEF BrokerRefuses
    <2>2. UNCHANGED <<api, loop, queue, acts, approvers, approvals, crashes>>
        BY <1>8 DEF BrokerRefuses
    <2> QED BY <1>1, <1>2, <1>3, <2>1, <2>2, TaskPays DEF ActsOn
<1>9. CASE LoseWorker(w)
    <2>1. worker' = [worker EXCEPT ![w] = IdleWorker] /\ IdleWorker.pc = "idle"
        BY <1>9, Idle DEF LoseWorker
    <2>2. /\ UNCHANGED <<api, loop, acts, approvers, approvals>>
          /\ crashes' = crashes + 1 /\ worker[w].run \in Runs
          /\ queue' = [queue EXCEPT ![worker[w].run] = @ + 1]
        BY <1>1, <1>9 DEF LoseWorker, WorkerOK
    <2>3. ASSUME NEW q \in Runs
          PROVE  acts'[q] + queue'[q] + ActsOn(worker'[w], q) + crashes
                     <= acts[q] + queue[q] + ActsOn(worker[w], q) + crashes'
        <3>1. queue'[q] \in Nat /\ queue'[q] <= queue[q] + 1 /\ ActsOn(worker'[w], q) = 0
            BY <1>1, <1>2, <2>1, <2>2 DEF ActsOn, TypeOK
        <3> QED BY <1>1, <1>3, <2>2, <3>1 DEF ActsOn
    <2> QED BY <1>1, <1>2, <2>1, <2>2, <2>3, TaskPays
<1> QED BY <1>4, <1>5, <1>6, <1>7, <1>8, <1>9 DEF WorkerStep

\* Only the loop that holds a run approves it as a loop.
LEMMA UnapprovedKept ==
    ASSUME BInv, IInv', [Next]_vars
    PROVE  Unapproved'
<1> USE DEF bounds, history
<1>1. /\ Unapproved /\ LoopInv /\ LoopsApart /\ TypeOK /\ ApiInv
      /\ loop \in [Loops -> LoopState] /\ approvers \in [Runs -> SUBSET {"human", "auto"}]
    BY DEF BInv, IInv, TypeOK
<1>2. CASE UNCHANGED <<loop, approvers>>
    BY <1>1, <1>2 DEF Unapproved
<1>3. ASSUME NEW l \in Loops, AutoApprove(l) PROVE Unapproved'
    <2>1. loop'[l].pc = "dispatch" /\ \A k \in Loops : k # l => loop'[k] = loop[k]
        BY <1>1, <1>3 DEF AutoApprove, Goto, LoopState
    <2>2. \A k \in Loops : k # l /\ loop[k].pc = "decided" => loop[k].run # loop[l].run
        BY <1>1, <1>3 DEF LoopsApart, Working, AutoApprove
    <2>3. \A r \in Runs : r # loop[l].run => approvers'[r] = approvers[r]
        BY <1>1, <1>3 DEF AutoApprove
    <2>4. \A k \in Loops : loop[k].pc = "decided" => loop[k].run \in Runs
        BY <1>1 DEF LoopInv, LoopOK, Working
    <2> QED BY <1>1, <2>1, <2>2, <2>3, <2>4 DEF Unapproved
<1>4. ASSUME NEW l \in Loops, NEW y, loop' = [loop EXCEPT ![l] = y],
             approvers' = approvers, y.pc # "decided"
      PROVE  Unapproved'
    <2>1. loop'[l] = y /\ \A k \in Loops : k # l => loop'[k] = loop[k]
        BY <1>1, <1>4
    <2> QED BY <1>1, <1>4, <2>1 DEF Unapproved
<1>9. ASSUME NEW l \in Loops, NEW y, loop' = [loop EXCEPT ![l] = y],
             approvers' = approvers, Evaluating(l), y.run = loop[l].run
      PROVE  Unapproved'
    <2>1. loop'[l] = y /\ \A k \in Loops : k # l => loop'[k] = loop[k]
        BY <1>1, <1>9
    <2>2. approvers[loop[l].run] = {}
        BY <1>1, <1>9 DEF LoopInv, LoopOK
    <2> QED BY <1>1, <1>9, <2>1, <2>2 DEF Unapproved
<1>5. ASSUME NEW l \in Loops, LoopStep(l) \/ KillLoop(l) PROVE Unapproved'
    <2>1. \A S : Between(S).pc = "next"
        BY DEF Between, IdleLoop
    <2>2. /\ \A p : Goto(loop[l], p).pc = p
          /\ \A a : Told(loop[l], a).pc = "decided" /\ Told(loop[l], a).run = loop[l].run
          /\ \A r, b : Created(loop[l], r, b).pc = "created"
        BY <1>1 DEF Goto, Told, Created, LoopState
    <2>3. CASE \/ BeatStart(l) \/ BeatStartWithoutRedis(l) \/ ForcedStart(l)
               \/ MarkFails(l) \/ CreateFails(l) \/ LeaveToHuman(l)
               \/ AutoDispatch(l) \/ AutoDispatchFails(l)
        <3>1. PICK S : loop' = [loop EXCEPT ![l] = Between(S)]
            BY <2>3 DEF BeatStart, BeatStartWithoutRedis, ForcedStart, MarkFails, CreateFails,
                        LeaveToHuman, AutoDispatch, AutoDispatchFails, NextPosition
        <3>2. approvers' = approvers
            BY <2>3 DEF BeatStart, BeatStartWithoutRedis, ForcedStart, MarkFails, CreateFails,
                        LeaveToHuman, AutoDispatch, AutoDispatchFails
        <3>3. Between(S).pc # "decided"
            BY <2>1
        <3> QED BY <1>4, <3>1, <3>2, <3>3
    <2>4. ASSUME NEW t \in Tickets, SkipFresh(l, t) \/ PickPosition(l, t) PROVE Unapproved'
        <3>1. PICK y : y.pc # "decided" /\ loop' = [loop EXCEPT ![l] = y]
            BY <2>1, <2>4 DEF SkipFresh, PickPosition, Picked, IdleLoop
        <3>2. approvers' = approvers
            BY <2>4 DEF SkipFresh, PickPosition
        <3> QED BY <1>4, <3>1, <3>2
    <2>5. CASE MarkStale(l)
        <3>1. PICK y : y.pc # "decided" /\ loop' = [loop EXCEPT ![l] = y]
            BY <2>1, <2>2, <2>5 DEF MarkStale, NextPosition
        <3> QED BY <1>4, <2>5, <3>1 DEF MarkStale
    <2>6. ASSUME NEW r \in Runs, CreateRun(l, r) PROVE Unapproved'
        BY <1>4, <2>2, <2>6 DEF CreateRun
    <2>7. CASE StartPipeline(l)
        BY <1>4, <2>2, <2>7 DEF StartPipeline
    <2>8. ASSUME NEW a, \/ PersistDecision(l, a) \/ PersistFails(l, a)
                        \/ a = "HOLD" /\ (PipelineFails(l) \/ PipelineFailsUnsaved(l))
          PROVE  Unapproved'
        <3>1. loop' = [loop EXCEPT ![l] = Told(loop[l], a)] /\ approvers' = approvers
            BY <2>8 DEF PersistDecision, PersistFails, PipelineFails, PipelineFailsUnsaved
        <3>2. Evaluating(l)
            BY <2>8 DEF PersistDecision, PersistFails, PipelineFails, PipelineFailsUnsaved,
                        Evaluating
        <3> QED BY <1>9, <2>2, <3>1, <3>2
    <2>9. CASE FinishLoop(l) \/ KillLoop(l)
        <3>1. loop' = [loop EXCEPT ![l] = IdleLoop] /\ IdleLoop.pc = "idle"
            BY <2>9, Idle DEF FinishLoop, KillLoop
        <3> QED BY <1>4, <2>9, <3>1 DEF FinishLoop, KillLoop
    <2>10. CASE BeatFindsNothing(l)
        BY <1>2, <2>10 DEF BeatFindsNothing
    <2> QED BY <1>3, <1>5, <2>3, <2>4, <2>5, <2>6, <2>7, <2>8, <2>9, <2>10 DEF LoopStep
<1>6. ASSUME NEW h \in Handlers, ApiStep(h) PROVE Unapproved'
    <2>1. loop' = loop
        BY <1>6 DEF ApiStep, CheckApproval, CheckReject, CommitApproval, DispatchApproved,
                    DispatchFails, CommitReject, CommitRefused
    <2>2. \A r \in Runs : "auto" \in approvers'[r] => "auto" \in approvers[r]
        <3>1. CASE approvers' = approvers
            BY <3>1
        <3>2. CASE CommitApproval(h)
            BY <1>1, <3>2 DEF CommitApproval
        <3> QED BY <1>6, <3>1, <3>2
                DEF ApiStep, CheckApproval, CheckReject, DispatchApproved, DispatchFails,
                    CommitReject, CommitRefused
    <2>3. \A l \in Loops : loop[l].pc = "decided" => loop[l].run \in Runs
        BY <1>1 DEF LoopInv, LoopOK, Working
    <2> QED BY <1>1, <2>1, <2>2, <2>3 DEF Unapproved
<1>7. ASSUME NEW w \in Workers, WorkerStep(w) \/ LoseWorker(w) PROVE Unapproved'
    BY <1>2, <1>7 DEF WorkerStep, DropTask, TakeTask, CommitHold, BrokerActs, BrokerRefuses,
                      CommitOutcome, CommitFails, BreakOff, LoseWorker
<1>8. CASE UpdateConfig \/ Time \/ (\E t \in Tickets : ClosePosition(t)) \/ UNCHANGED vars
    BY <1>2, <1>8 DEF UpdateConfig, Time, ExpireLock, PassStaleThreshold, PassCooldown,
                      ClosePosition, vars
<1> QED BY <1>5, <1>6, <1>7, <1>8 DEF Next

LEMMA BInvKept == BInv /\ [Next]_vars => BInv'
<1> SUFFICES ASSUME BInv, [Next]_vars PROVE BInv'
    OBVIOUS
<1>1. IInv'
    BY NextIInv DEF BInv
<1>2. Unapproved'
    BY <1>1, UnapprovedKept
<1>3. CASE UpdateConfig \/ Time \/ (\E t \in Tickets : ClosePosition(t)) \/ UNCHANGED vars
    <2>1. UNCHANGED <<worker, api, loop, queue, acts, approvers, bounds, history>>
        BY <1>3 DEF UpdateConfig, Time, ExpireLock, PassStaleThreshold, PassCooldown,
                    ClosePosition, vars
    <2>2. Budget'
        BY <2>1, NothingMoves DEF BInv
    <2> QED BY <1>1, <1>2, <2>2 DEF BInv
<1> QED BY <1>1, <1>2, <1>3, LoopBudget, HandlerBudget, WorkerBudget DEF Next, BInv

LEMMA BInvInit == Init => BInv
<1> SUFFICES ASSUME Init PROVE BInv
    OBVIOUS
<1>1. IInv
    BY InitIInv
<1>2. Unapproved
    BY Idle DEF Init, Unapproved
<1>3. ASSUME NEW r \in Runs PROVE Due(r) <= Paid(r)
    <2>1. /\ Acting(worker, r) = {} /\ Approving(api, r) = {}
          /\ Dispatching(loop, r) = {}
        BY Idle DEF Init, Acting, Approving, Dispatching, ActsOn, Approves, Dispatches
    <2>2. acts[r] = 0 /\ queue[r] = 0 /\ approvals = 0 /\ crashes = 0 /\ approvers[r] = {}
        BY DEF Init
    <2> QED BY <2>1, <2>2, FS_EmptySet DEF Due, Paid, In
<1> QED BY <1>1, <1>2, <1>3 DEF BInv, Budget

\* The broker acts on a run at most once for every approval it was given and
\* every process lost: no interleaving of loops, handlers, tasks, redelivered
\* messages and failed commits repeats an action.
THEOREM NoPhantom == Spec => []NoPhantomAction
<1>1. ASSUME BInv, NEW r \in Runs
      PROVE  acts[r] <= approvals + crashes + Cardinality(approvers[r] \cap {"auto"})
    <2>1. /\ acts[r] \in Nat /\ queue[r] \in Nat /\ approvals \in Nat /\ crashes \in Nat
          /\ Due(r) <= Paid(r)
        BY <1>1 DEF BInv, IInv, TypeOK, Budget
    <2>2. In("auto", approvers[r]) = Cardinality(approvers[r] \cap {"auto"})
        <3>1. CASE "auto" \in approvers[r]
            <4>1. approvers[r] \cap {"auto"} = {"auto"}
                BY <3>1
            <4> QED BY <3>1, <4>1, FS_Singleton DEF In
        <3>2. CASE "auto" \notin approvers[r]
            <4>1. approvers[r] \cap {"auto"} = {}
                BY <3>2
            <4> QED BY <3>2, <4>1, FS_EmptySet DEF In
        <3> QED BY <3>1, <3>2
    <2>3. acts[r] <= approvals + crashes + In("auto", approvers[r])
        BY <2>1, Numbers DEF Due, Paid, In
    <2> QED BY <2>2, <2>3
<1>2. BInv => NoPhantomAction
    BY <1>1 DEF NoPhantomAction
<1> QED BY <1>2, BInvInit, BInvKept, PTL DEF Spec

-----------------------------------------------------------------------------
(* One loop at a time                                                      *)

\* The lock answers, outlives its loop and is taken by every loop.
LockWorks == /\ "redis_down" \notin Faults /\ "lock_expiry" \notin Faults
             /\ ForcedLoops = {}

Busy(l) == loop[l].pc # "idle"
Solo    == \A k, l \in Loops : Busy(k) /\ Busy(l) => k = l
Held    == \A l \in Loops : Busy(l) => lock = "held"

\* What a loop has found out about its position or its run is still so.
Claim(l) ==
    /\ loop[l].pc = "mark" => loop[l].run = 0
    /\ loop[l].pc \in {"mark", "create"} => FreshRuns(loop[l].ticket) = {}
    /\ Evaluating(l) => rows[loop[l].run].status \in ActiveStatus

OneFresh == \A t \in Tickets : \A q, r \in FreshRuns(t) : q = r

Exclusive == Solo /\ Held /\ (\A l \in Loops : Claim(l)) /\ OneFresh
SInv      == IInv /\ Exclusive

Recent(x) == x.recent

\* No row becomes a fresh unfinished run.
Ages == \A r \in Runs :
            /\ rows'[r].ticket = rows[r].ticket
            /\ rows'[r].status \in ActiveStatus => rows[r].status \in ActiveStatus
            /\ Recent(rows'[r]) => Recent(rows[r])

LEMMA FreshShrinks ==
    ASSUME Ages, NEW t
    PROVE  FreshRuns(t)' \subseteq FreshRuns(t)
BY DEF Ages, Recent, FreshRuns, ActiveRuns, RunsOf

\* Updates leave the age of a row alone.
LEMMA AgeKept ==
    ASSUME NEW x \in Row
    PROVE  /\ \A s : Recent(WithStatus(x, s)) => Recent(x)
           /\ \A a : Recent(Decided(x, a)) => Recent(x)
           /\ \A v : Recent(WithApproval(x, v)) => Recent(x)
           /\ \A o \in {"executed", "not found", "failed"} : Recent(Settled(x, o)) => Recent(x)
BY DEF WithStatus, Decided, WithApproval, Settled, Row, Recent

\* One row is updated and none becomes fresh.
LEMMA OneRowAges ==
    ASSUME rows \in [Runs -> Row], NEW q, q \in Runs, NEW x, rows' = [rows EXCEPT ![q] = x],
           x.ticket = rows[q].ticket, Recent(x) => Recent(rows[q]),
           x.status \in ActiveStatus => rows[q].status \in ActiveStatus
    PROVE  Ages
<1>1. \A r \in Runs : rows'[r] = IF r = q THEN x ELSE rows[r]
    OBVIOUS
<1> QED BY <1>1 DEF Ages

\* The loops stand still while rows age.
LEMMA LoopsStandStill ==
    ASSUME SInv, loop' = loop, lock' = lock \/ \A l \in Loops : ~Busy(l), Ages,
           \A r \in Runs : rows'[r].status = rows[r].status
    PROVE  Exclusive'
<1>1. \A t : FreshRuns(t)' \subseteq FreshRuns(t)
    BY FreshShrinks
<1>2. Solo' /\ Held' /\ OneFresh'
    BY <1>1 DEF SInv, Exclusive, Solo, Held, Busy, OneFresh
<1>3. ASSUME NEW l \in Loops PROVE Claim(l)'
    <2>1. Claim(l) /\ LoopOK(l)
        BY DEF SInv, Exclusive, IInv, LoopInv
    <2>2. Evaluating(l) => loop[l].run \in Runs
        BY <2>1 DEF LoopOK, Evaluating, Working
    <2> QED BY <1>1, <2>1, <2>2 DEF Claim, Evaluating
<1> QED BY <1>2, <1>3 DEF Exclusive

\* The one loop that runs moves.
LEMMA LoopAlone ==
    ASSUME SInv, NEW l \in Loops, Busy(l) \/ \A k \in Loops : ~Busy(k),
           NEW y, loop' = [loop EXCEPT ![l] = y], lock' = "held",
           Claim(l)', OneFresh'
    PROVE  Exclusive'
<1>1. loop'[l] = y /\ \A k \in Loops : k # l => loop'[k] = loop[k]
    BY DEF SInv, IInv, TypeOK
<1>2. \A k \in Loops : k # l => ~Busy(k)
    BY DEF SInv, Exclusive, Solo
<1>3. Solo' /\ Held'
    BY <1>1, <1>2 DEF Solo, Held, Busy
<1>4. ASSUME NEW k \in Loops, k # l PROVE Claim(k)'
    BY <1>1, <1>2, <1>4 DEF Claim, Busy, Evaluating
<1> QED BY <1>3, <1>4 DEF Exclusive

\* It moves between positions, or to a point where it claims nothing.
LEMMA LoopClaimsNothing ==
    ASSUME SInv, NEW l \in Loops, Busy(l) \/ \A k \in Loops : ~Busy(k),
           NEW y, loop' = [loop EXCEPT ![l] = y], lock' = "held", Ages,
           y.pc \in {"idle", "next", "decided", "dispatch"}
    PROVE  Exclusive'
<1>1. loop'[l] = y
    BY DEF SInv, IInv, TypeOK
<1>2. Claim(l)'
    BY <1>1 DEF Claim, Evaluating
<1>3. OneFresh'
    BY FreshShrinks DEF SInv, Exclusive, OneFresh
<1> QED BY <1>2, <1>3, LoopAlone

LEMMA LoopExclusive ==
    ASSUME LockWorks, SInv, NEW l \in Loops, LoopStep(l) \/ KillLoop(l)
    PROVE  Exclusive'
<1>1. /\ TypeOK /\ LoopOK(l) /\ Claim(l) /\ OneFresh /\ loop[l] \in LoopState
      /\ loop \in [Loops -> LoopState] /\ rows \in [Runs -> Row]
    BY DEF SInv, Exclusive, IInv, LoopInv, TypeOK
<1>2. Busy(l) => lock = "held"
    BY DEF SInv, Exclusive, Held
<1>3. /\ \A S : Between(S).pc = "next"
      /\ IdleLoop.pc = "idle"
    BY Idle DEF Between, IdleLoop
<1>4. /\ \A p : Goto(loop[l], p).pc = p /\ Goto(loop[l], p).ticket = loop[l].ticket
                /\ Goto(loop[l], p).run = loop[l].run
      /\ \A a : Told(loop[l], a).pc = "decided"
      /\ \A r, b : Created(loop[l], r, b).pc = "created" /\ Created(loop[l], r, b).run = r
    BY <1>1 DEF Goto, Told, Created, LoopState
<1>5. rows' = rows => Ages
    BY DEF Ages
<1>6. ASSUME NEW x \in Row
      PROVE  /\ \A s \in ActiveStatus \cup {"failed"} : WithStatus(x, s).ticket = x.ticket
             /\ \A a \in Actions : Decided(x, a).ticket = x.ticket
                                   /\ Decided(x, a).status = "completed"
             /\ \A s \in ActiveStatus \cup {"failed"} : WithStatus(x, s).status = s
             /\ WithApproval(x, "approved").ticket = x.ticket
             /\ WithApproval(x, "approved").status = x.status
    BY StatusUpdate, DecisionUpdate, ApprovalUpdate
<1>7. "failed" \notin ActiveStatus /\ "completed" \notin ActiveStatus
          /\ "running" \in ActiveStatus /\ "pending" \in ActiveStatus
    BY DEF ActiveStatus
<1>8. CASE BeatStart(l)
    <2>1. loop' = [loop EXCEPT ![l] = Between(OpenTickets)] /\ lock = "free"
              /\ lock' = "held" /\ rows' = rows
        BY <1>8 DEF BeatStart
    <2>2. \A k \in Loops : ~Busy(k)
        BY <2>1 DEF SInv, Exclusive, Held
    <2> QED BY <1>3, <1>5, <2>1, <2>2, LoopClaimsNothing
<1>9. ~BeatStartWithoutRedis(l) /\ ~ForcedStart(l)
    BY DEF LockWorks, BeatStartWithoutRedis, ForcedStart
<1>10. ASSUME NEW t \in Tickets, SkipFresh(l, t) PROVE Exclusive'
    <2>1. Busy(l) /\ lock' = lock /\ rows' = rows
              /\ loop' = [loop EXCEPT ![l] = Between(loop[l].todo \ {t})]
        BY <1>10 DEF SkipFresh, Busy
    <2> QED BY <1>2, <1>3, <1>5, <2>1, LoopClaimsNothing
<1>11. ASSUME NEW t \in Tickets, PickPosition(l, t) PROVE Exclusive'
    <2> DEFINE y == Picked(loop[l].todo \ {t}, t, StaleRuns(t))
    <2>1. Busy(l) /\ lock' = lock /\ rows' = rows /\ FreshRuns(t) = {}
              /\ loop' = [loop EXCEPT ![l] = y]
        BY <1>11 DEF PickPosition, Busy
    <2>2. y.pc = "mark" /\ y.run = 0 /\ y.ticket = t
        BY DEF Picked, IdleLoop
    <2> HIDE DEF y
    <2>3. loop'[l] = y
        BY <1>1, <2>1
    <2>4. FreshRuns(t)' = {}
        BY <1>5, <2>1, FreshShrinks
    <2>5. Claim(l)'
        BY <2>2, <2>3, <2>4 DEF Claim, Evaluating
    <2>6. OneFresh'
        BY <1>1, <1>5, <2>1, FreshShrinks DEF OneFresh
    <2> QED BY <1>2, <2>1, <2>5, <2>6, LoopAlone
<1>12. CASE MarkStale(l)
    <2>1. /\ Busy(l) /\ lock' = lock /\ loop[l].pc = "mark"
          /\ rows' = [r \in Runs |-> IF r \in loop[l].stale
                                     THEN WithStatus(rows[r], "failed") ELSE rows[r]]
        BY <1>12 DEF MarkStale, Busy
    <2>2. Ages
        <3> SUFFICES ASSUME NEW r \in Runs
                     PROVE  /\ rows'[r].ticket = rows[r].ticket
                            /\ rows'[r].status \in ActiveStatus =>
                                   rows[r].status \in ActiveStatus
                            /\ Recent(rows'[r]) => Recent(rows[r])
            BY DEF Ages
        <3>1. CASE r \in loop[l].stale
            <4>1. rows'[r] = WithStatus(rows[r], "failed") /\ rows[r] \in Row
                BY <1>1, <2>1, <3>1
            <4>2. /\ rows'[r].ticket = rows[r].ticket
                  /\ rows'[r].status \notin ActiveStatus
                BY <1>6, <1>7, <4>1
            <4>3. Recent(rows'[r]) => Recent(rows[r])
                BY <4>1, AgeKept
            <4> QED BY <4>2, <4>3
        <3>2. CASE r \notin loop[l].stale
            BY <2>1, <3>2
        <3> QED BY <3>1, <3>2
    <2>3. CASE loop' = [loop EXCEPT ![l] = Between(loop[l].todo)]
        BY <1>2, <1>3, <2>1, <2>2, <2>3, LoopClaimsNothing
    <2>4. CASE loop' = [loop EXCEPT ![l] = Goto(loop[l], "create")]
        <3>1. loop'[l] = Goto(loop[l], "create")
            BY <1>1, <2>4
        <3>2. PICK t : t = loop[l].ticket
            OBVIOUS
        <3>3. FreshRuns(t)' = {}
            BY <1>1, <2>1, <2>2, <3>2, FreshShrinks DEF Claim
        <3>4. Claim(l)'
            BY <1>4, <3>1, <3>2, <3>3 DEF Claim, Evaluating
        <3>5. OneFresh'
            BY <1>1, <2>2, FreshShrinks DEF OneFresh
        <3> QED BY <1>2, <2>1, <2>4, <3>4, <3>5, LoopAlone
    <2>5. \/ loop' = [loop EXCEPT ![l] = Between(loop[l].todo)]
          \/ loop' = [loop EXCEPT ![l] = Goto(loop[l], "create")]
        BY <1>12 DEF MarkStale, NextPosition
    <2> QED BY <2>3, <2>4, <2>5
<1>13. CASE \/ MarkFails(l) \/ CreateFails(l) \/ LeaveToHuman(l)
            \/ AutoDispatch(l) \/ AutoDispatchFails(l)
    <2>1. Busy(l)
        BY <1>13 DEF MarkFails, CreateFails, LeaveToHuman, AutoDispatch, AutoDispatchFails, Busy
    <2>2. lock' = lock /\ rows' = rows /\ loop' = [loop EXCEPT ![l] = Between(loop[l].todo)]
        BY <1>13 DEF MarkFails, CreateFails, LeaveToHuman, AutoDispatch, AutoDispatchFails,
                     NextPosition
    <2> QED BY <1>2, <1>3, <1>5, <2>1, <2>2, LoopClaimsNothing
<1>14. ASSUME NEW r \in Runs, CreateRun(l, r) PROVE Exclusive'
    <2>9. PICK t : t = loop[l].ticket
        OBVIOUS
    <2>1. /\ Busy(l) /\ lock' = lock /\ t \in Tickets /\ FreshRuns(t) = {}
          /\ rows[r].status = Absent
          /\ rows' = [rows EXCEPT ![r] = NewRow(t, autoApprove)]
          /\ loop' = [loop EXCEPT ![l] = Created(loop[l], r, autoApprove)]
        BY <1>1, <1>14, <2>9 DEF CreateRun, Busy, LoopOK, Claim
    <2>2. autoApprove \in BOOLEAN
        BY <1>1 DEF TypeOK
    <2>3. rows'[r].ticket = t /\ rows'[r].status = "pending"
              /\ \A q \in Runs : q # r => rows'[q] = rows[q]
        BY <1>1, <2>1, <2>2, NewRowFields
    <2>4. FreshRuns(t)' \subseteq {r}
        BY <2>1, <2>3 DEF FreshRuns, ActiveRuns, RunsOf
    <2>5. \A u \in Tickets : u # t => FreshRuns(u)' \subseteq FreshRuns(u)
        BY <2>3 DEF FreshRuns, ActiveRuns, RunsOf
    <2>6. OneFresh'
        <3> SUFFICES ASSUME NEW u \in Tickets, NEW p \in FreshRuns(u)', NEW q \in FreshRuns(u)'
                     PROVE  p = q
            BY DEF OneFresh
        <3>1. CASE u = t
            BY <2>4, <3>1
        <3>2. CASE u # t
            BY <1>1, <2>5, <3>2 DEF OneFresh
        <3> QED BY <3>1, <3>2
    <2>7. loop'[l] = Created(loop[l], r, autoApprove)
        BY <1>1, <2>1
    <2>8. Claim(l)'
        BY <1>4, <1>7, <2>3, <2>7 DEF Claim, Evaluating
    <2> QED BY <1>2, <2>1, <2>6, <2>8, LoopAlone
<1>15. CASE StartPipeline(l)
    <2>1. /\ Busy(l) /\ lock' = lock /\ loop[l].pc = "created"
          /\ rows' = [rows EXCEPT ![loop[l].run] = WithStatus(@, "running")]
          /\ loop' = [loop EXCEPT ![l] = Goto(loop[l], "running")]
        BY <1>15 DEF StartPipeline, Busy
    <2>2. loop[l].run \in Runs /\ rows[loop[l].run].status \in ActiveStatus
        BY <1>1, <2>1 DEF LoopOK, Working, Claim, Evaluating
    <2>3. Ages
        <3>1. loop[l].run \in Runs /\ rows[loop[l].run] \in Row
            BY <1>1, <2>2
        <3> DEFINE x == WithStatus(rows[loop[l].run], "running")
        <3>2. x.ticket = rows[loop[l].run].ticket /\ x.status \in ActiveStatus
            BY <1>6, <1>7, <2>1, <3>1
        <3>3. Recent(x) => Recent(rows[loop[l].run])
            BY <3>1, AgeKept
        <3>4. rows' = [rows EXCEPT ![loop[l].run] = x]
            BY <2>1
        <3> HIDE DEF x
        <3> QED BY <1>1, <2>2, <3>1, <3>2, <3>3, <3>4, OneRowAges
    <2>4. loop'[l] = Goto(loop[l], "running")
        BY <1>1, <2>1
    <2>5. rows'[loop[l].run].status = "running"
        BY <1>1, <1>6, <1>7, <2>1, <2>2
    <2>6. Claim(l)'
        BY <1>4, <1>7, <2>4, <2>5 DEF Claim, Evaluating
    <2>7. OneFresh'
        BY <1>1, <2>3, FreshShrinks DEF OneFresh
    <2> QED BY <1>2, <2>1, <2>6, <2>7, LoopAlone
<1>16. ASSUME NEW a \in Decisions, PersistDecision(l, a) PROVE Exclusive'
    <2>1. /\ Busy(l) /\ lock' = lock /\ Working(l) /\ a \in Actions
          /\ rows' = [rows EXCEPT ![loop[l].run] = Decided(@, a)]
          /\ loop' = [loop EXCEPT ![l] = Told(loop[l], a)]
        BY <1>16, ConstantsAssumption DEF PersistDecision, Busy, Working
    <2>2. Ages
        <3>1. loop[l].run \in Runs /\ rows[loop[l].run] \in Row
            BY <1>1, <2>1 DEF LoopOK
        <3> DEFINE x == Decided(rows[loop[l].run], a)
        <3>2. x.ticket = rows[loop[l].run].ticket /\ x.status \notin ActiveStatus
            BY <1>6, <1>7, <2>1, <3>1
        <3>3. Recent(x) => Recent(rows[loop[l].run])
            BY <3>1, AgeKept
        <3>4. rows' = [rows EXCEPT ![loop[l].run] = x]
            BY <2>1
        <3> HIDE DEF x
        <3> QED BY <1>1, <3>1, <3>2, <3>3, <3>4, OneRowAges
    <2> QED BY <1>2, <1>4, <2>1, <2>2, LoopClaimsNothing
<1>17. ASSUME NEW a \in Decisions, PersistFails(l, a) PROVE Exclusive'
    <2>1. /\ Busy(l) /\ lock' = lock /\ rows' = rows
          /\ loop' = [loop EXCEPT ![l] = Told(loop[l], a)]
        BY <1>17 DEF PersistFails, Busy
    <2> QED BY <1>2, <1>4, <1>5, <2>1, LoopClaimsNothing
<1>18. CASE PipelineFails(l)
    <2>1. /\ Busy(l) /\ lock' = lock /\ Working(l)
          /\ rows' = [rows EXCEPT ![loop[l].run] = WithStatus(@, "failed")]
          /\ loop' = [loop EXCEPT ![l] = Told(loop[l], "HOLD")]
        BY <1>18 DEF PipelineFails, Busy, Working
    <2>2. Ages
        <3>1. loop[l].run \in Runs /\ rows[loop[l].run] \in Row
            BY <1>1, <2>1 DEF LoopOK
        <3> DEFINE x == WithStatus(rows[loop[l].run], "failed")
        <3>2. x.ticket = rows[loop[l].run].ticket /\ x.status \notin ActiveStatus
            BY <1>6, <1>7, <2>1, <3>1
        <3>3. Recent(x) => Recent(rows[loop[l].run])
            BY <3>1, AgeKept
        <3>4. rows' = [rows EXCEPT ![loop[l].run] = x]
            BY <2>1
        <3> HIDE DEF x
        <3> QED BY <1>1, <3>1, <3>2, <3>3, <3>4, OneRowAges
    <2> QED BY <1>2, <1>4, <2>1, <2>2, LoopClaimsNothing
<1>19. CASE PipelineFailsUnsaved(l)
    <2>1. /\ Busy(l) /\ lock' = lock /\ rows' = rows
          /\ loop' = [loop EXCEPT ![l] = Told(loop[l], "HOLD")]
        BY <1>19 DEF PipelineFailsUnsaved, Busy
    <2> QED BY <1>2, <1>4, <1>5, <2>1, LoopClaimsNothing
<1>20. CASE AutoApprove(l)
    <2>1. /\ Busy(l) /\ lock' = lock /\ Working(l)
          /\ rows' = [rows EXCEPT ![loop[l].run] = WithApproval(@, "approved")]
          /\ loop' = [loop EXCEPT ![l] = Goto(loop[l], "dispatch")]
        BY <1>20 DEF AutoApprove, Busy, Working
    <2>2. Ages
        <3>1. loop[l].run \in Runs /\ rows[loop[l].run] \in Row
            BY <1>1, <2>1 DEF LoopOK
        <3> QED BY <1>1, <1>6, <1>7, <2>1, <3>1, AgeKept, OneRowAges
    <2> QED BY <1>2, <1>4, <2>1, <2>2, LoopClaimsNothing
<1>21. CASE FinishLoop(l) \/ KillLoop(l)
    <2>1. /\ Busy(l) /\ lock' = lock /\ rows' = rows
          /\ loop' = [loop EXCEPT ![l] = IdleLoop]
        BY <1>21 DEF FinishLoop, KillLoop, Busy
    <2> QED BY <1>2, <1>3, <1>5, <2>1, LoopClaimsNothing
<1>22. CASE BeatFindsNothing(l)
    <2>1. loop' = loop /\ lock = "free" /\ rows' = rows
        BY <1>22 DEF BeatFindsNothing
    <2>2. \A k \in Loops : ~Busy(k)
        BY <2>1 DEF SInv, Exclusive, Held
    <2> QED BY <1>5, <2>1, <2>2, LoopsStandStill
<1> QED BY <1>8, <1>9, <1>10, <1>11, <1>12, <1>13, <1>14, <1>15, <1>16, <1>17, <1>18, <1>19,
           <1>20, <1>21, <1>22 DEF LoopStep

\* The steps outside the loops age rows, at most.
LEMMA OthersExclusive ==
    ASSUME LockWorks, SInv, loop' = loop,
           \/ \E h \in Handlers : ApiStep(h)
           \/ \E w \in Workers : WorkerStep(w) \/ LoseWorker(w)
           \/ UpdateConfig \/ Time \/ (\E t \in Tickets : ClosePosition(t))
           \/ UNCHANGED vars
    PROVE  Exclusive'
<1>1. /\ rows \in [Runs -> Row] /\ ApiInv /\ WorkerInv /\ worker \in [Workers -> WorkerState]
    BY DEF SInv, IInv, TypeOK
<1>2. ASSUME lock' = lock, rows' = rows PROVE Exclusive'
    BY <1>2, LoopsStandStill DEF Ages
<1>3. ASSUME lock' = lock, NEW q \in Runs, NEW x, rows' = [rows EXCEPT ![q] = x],
             x.ticket = rows[q].ticket, Recent(x) => Recent(rows[q]),
             x.status = rows[q].status
      PROVE  Exclusive'
    <2>1. Ages
        BY <1>1, <1>3, OneRowAges
    <2>2. \A r \in Runs : rows'[r].status = rows[r].status
        BY <1>1, <1>3
    <2> QED BY <1>3, <2>1, <2>2, LoopsStandStill
<1>4. ASSUME NEW h \in Handlers, ApiStep(h) PROVE Exclusive'
    <2>1. ASSUME NEW v \in {"approved", "rejected"}, api[h].pc # "idle", lock' = lock,
                 rows' = [rows EXCEPT ![api[h].run] = WithApproval(@, v)]
          PROVE  Exclusive'
        <3>1. api[h].run \in Runs /\ rows[api[h].run] \in Row
            BY <1>1, <2>1 DEF ApiInv, ApiOK
        <3> DEFINE x == WithApproval(rows[api[h].run], v)
        <3>2. /\ x.ticket = rows[api[h].run].ticket /\ x.status = rows[api[h].run].status
            BY <3>1, ApprovalUpdate
        <3>3. Recent(x) => Recent(rows[api[h].run])
            BY <3>1, AgeKept
        <3>4. rows' = [rows EXCEPT ![api[h].run] = x]
            BY <2>1
        <3> HIDE DEF x
        <3> QED BY <1>3, <2>1, <3>1, <3>2, <3>3, <3>4
    <2>2. CASE CommitApproval(h)
        BY <2>1, <2>2 DEF CommitApproval
    <2>3. CASE CommitReject(h)
        BY <1>2, <2>1, <2>3 DEF CommitReject
    <2> QED BY <1>2, <1>4, <2>2, <2>3
            DEF ApiStep, CheckApproval, CheckReject, DispatchApproved, DispatchFails,
                CommitRefused
<1>5. ASSUME NEW w \in Workers, WorkerStep(w) \/ LoseWorker(w) PROVE Exclusive'
    <2>1. ASSUME NEW o \in {"executed", "not found", "failed"}, worker[w].pc # "idle",
                 lock' = lock, rows' = [rows EXCEPT ![worker[w].run] = Settled(@, o)]
          PROVE  Exclusive'
        <3>1. worker[w].run \in Runs /\ rows[worker[w].run] \in Row
            BY <1>1, <2>1 DEF WorkerInv, WorkerOK
        <3> DEFINE x == Settled(rows[worker[w].run], o)
        <3>2. /\ x.ticket = rows[worker[w].run].ticket
              /\ x.status = rows[worker[w].run].status
            BY <3>1, SettlementUpdate
        <3>3. Recent(x) => Recent(rows[worker[w].run])
            BY <3>1, AgeKept
        <3>4. rows' = [rows EXCEPT ![worker[w].run] = x]
            BY <2>1
        <3> HIDE DEF x
        <3> QED BY <1>3, <2>1, <3>1, <3>2, <3>3, <3>4
    <2>2. CASE CommitHold(w)
        BY <2>1, <2>2 DEF CommitHold
    <2>3. CASE CommitOutcome(w)
        <3>1. worker[w].outcome \in {"executed", "not found", "failed"}
            BY <1>1, <2>3 DEF CommitOutcome, WorkerInv, WorkerOK, WorkerState, None
        <3> QED BY <2>1, <2>3, <3>1 DEF CommitOutcome
    <2> QED BY <1>2, <1>5, <2>2, <2>3
            DEF WorkerStep, DropTask, TakeTask, BrokerActs, BrokerRefuses, CommitFails,
                BreakOff, LoseWorker
<1>6. CASE UpdateConfig \/ (\E t \in Tickets : ClosePosition(t)) \/ UNCHANGED vars
    BY <1>2, <1>6 DEF UpdateConfig, ClosePosition, vars
<1>7. CASE ExpireLock
    <2>1. \A l \in Loops : ~Busy(l)
        BY <1>7 DEF ExpireLock, LockWorks, Loops, Busy
    <2>2. Ages /\ rows' = rows
        BY <1>7 DEF ExpireLock, Ages
    <2> QED BY <2>1, <2>2, LoopsStandStill
<1>8. ASSUME NEW q \in Runs, PassStaleThreshold(q) \/ PassCooldown(q) PROVE Exclusive'
    <2> DEFINE old == [rows[q] EXCEPT !.recent = FALSE]
               cold == [rows[q] EXCEPT !.cooling = FALSE]
    <2>1. rows[q] \in Row /\ lock' = lock
        BY <1>1, <1>8 DEF PassStaleThreshold, PassCooldown
    <2>2. \A x \in {old, cold} : x.ticket = rows[q].ticket /\ x.status = rows[q].status
        BY <2>1, RowAged
    <2>3. \A x \in {old, cold} : Recent(x) => Recent(rows[q])
        BY <2>1 DEF Recent, Row
    <2>4. rows' = [rows EXCEPT ![q] = old] \/ rows' = [rows EXCEPT ![q] = cold]
        BY <1>1, <1>8, <2>1 DEF PassStaleThreshold, PassCooldown, Row
    <2> HIDE DEF old, cold
    <2> QED BY <1>3, <2>1, <2>2, <2>3, <2>4
<1> QED BY <1>4, <1>5, <1>6, <1>7, <1>8 DEF Time

LEMMA ExclusionKept ==
    ASSUME LockWorks
    PROVE  SInv /\ [Next]_vars => SInv'
<1> SUFFICES ASSUME SInv, [Next]_vars PROVE SInv'
    OBVIOUS
<1>1. IInv'
    BY NextIInv DEF SInv
<1>2. CASE \E l \in Loops : LoopStep(l) \/ KillLoop(l)
    BY <1>1, <1>2, LoopExclusive DEF SInv
<1>3. CASE \/ \E h \in Handlers : ApiStep(h)
           \/ \E w \in Workers : WorkerStep(w) \/ LoseWorker(w)
           \/ UpdateConfig \/ Time \/ (\E t \in Tickets : ClosePosition(t))
           \/ UNCHANGED vars
    <2>1. loop' = loop
        BY <1>3 DEF ApiStep, CheckApproval, CheckReject, CommitApproval, DispatchApproved,
                    DispatchFails, CommitReject, CommitRefused, WorkerStep, DropTask, TakeTask,
                    CommitHold, BrokerActs, BrokerRefuses, CommitOutcome, CommitFails,
                    BreakOff, LoseWorker, UpdateConfig, Time, ExpireLock, PassStaleThreshold,
                    PassCooldown, ClosePosition, vars
    <2> QED BY <1>1, <1>3, <2>1, OthersExclusive DEF SInv
<1> QED BY <1>2, <1>3 DEF Next

LEMMA ExclusionInit == Init => SInv
<1> SUFFICES ASSUME Init PROVE SInv
    OBVIOUS
<1>1. \A l \in Loops : loop[l].pc = "idle"
    BY Idle DEF Init
<1>2. \A t \in Tickets : FreshRuns(t) = {}
    <2>1. \A r \in Runs : rows[r].status \notin ActiveStatus
        BY NoRowFields DEF Init, ActiveStatus, Absent
    <2> QED BY <2>1 DEF FreshRuns, ActiveRuns, RunsOf
<1> QED BY <1>1, <1>2, InitIInv
        DEF SInv, Exclusive, Solo, Held, Busy, Claim, Evaluating, OneFresh

\* While the lock works and no loop is forced, no position ever has two fresh
\* unfinished runs, although the check and the insert are separate steps.
THEOREM FreshRunsExclusive == LockWorks => (Spec => []OneFreshRunPerTicket)
<1> SUFFICES ASSUME LockWorks PROVE Spec => []OneFreshRunPerTicket
    OBVIOUS
<1>1. ASSUME SInv, NEW t \in Tickets PROVE Cardinality(FreshRuns(t)) <= 1
    <2>1. CASE FreshRuns(t) = {}
        BY <2>1, FS_EmptySet
    <2>2. CASE FreshRuns(t) # {}
        <3>1. PICK r : r \in FreshRuns(t)
            BY <2>2
        <3>2. FreshRuns(t) = {r}
            BY <1>1, <3>1 DEF SInv, Exclusive, OneFresh
        <3> QED BY <3>2, FS_Singleton
    <2> QED BY <2>1, <2>2
<1>2. SInv => OneFreshRunPerTicket
    BY <1>1 DEF OneFreshRunPerTicket
<1>3. SInv /\ [Next]_vars => SInv'
    BY ExclusionKept
<1> QED BY <1>2, <1>3, ExclusionInit, PTL DEF Spec

\* Under the same conditions, a run marked stale is a run no loop works on:
\* what the loop read before it commits is still so.
THEOREM StaleWereKilled == LockWorks => (Spec => StaleRunsWereKilled)
<1> SUFFICES ASSUME LockWorks PROVE Spec => StaleRunsWereKilled
    OBVIOUS
<1>1. ASSUME SInv, NEW l \in Loops, NEW k \in Loops, MarkStale(l), loop[k].pc # "idle"
      PROVE  loop[k].run \notin loop[l].stale
    <2>1. k = l /\ loop[l].run = 0
        BY <1>1 DEF SInv, Exclusive, Solo, Busy, Claim, MarkStale
    <2>2. loop[l].stale \subseteq Runs
        BY <1>1 DEF SInv, IInv, TypeOK, LoopState
    <2> QED BY <2>1, <2>2, ConstantsAssumption DEF Runs
<1>2. SInv /\ [Next]_vars =>
          [\A l, k \in Loops : MarkStale(l) =>
              (loop[k].pc # "idle" => loop[k].run \notin loop[l].stale)]_vars
    BY <1>1
<1>3. SInv /\ [Next]_vars => SInv'
    BY ExclusionKept
<1>4. Spec => []SInv
    BY <1>3, ExclusionInit, PTL DEF Spec
<1> QED BY <1>2, <1>4, PTL DEF Spec, StaleRunsWereKilled


-----------------------------------------------------------------------------
(***************************************************************************)
(* The permits.                                                            *)
(*                                                                         *)
(* Governance implements ExecutionPermits: every step is one of its steps, *)
(* or changes nothing that it shows.  A step moves one process of one      *)
(* kind, so the permits and the open calls of a run change by what that    *)
(* process and the queue had and have of it.                               *)
(***************************************************************************)

Taken == {"hold", "broker"}

\* What a process at one of some places counts for a run.
At(x, places, r) == IF x.run = r /\ x.pc \in places THEN 1 ELSE 0

\* One process moves: the count changes by what it counts for.
LEMMA CountMoves ==
    ASSUME NEW S, IsFiniteSet(S), NEW f, NEW g, NEW p \in S,
           \A q \in S : q # p => g[q] = f[q], NEW P, NEW r
    PROVE  /\ CountAt(S, f, P, r) \in Nat /\ CountAt(S, g, P, r) \in Nat
           /\ CountAt(S, g, P, r) + At(f[p], P, r)
                  = CountAt(S, f, P, r) + At(g[p], P, r)
           /\ At(f[p], P, r) <= CountAt(S, f, P, r)
<1> DEFINE A == {q \in S : f[q].run = r /\ f[q].pc \in P}
           B == {q \in S : g[q].run = r /\ g[q].pc \in P}
<1>1. IsFiniteSet(A) /\ IsFiniteSet(B)
    BY FS_Subset
<1>2. A \ {p} = B \ {p}
    OBVIOUS
<1>3. In(p, A) = At(f[p], P, r) /\ In(p, B) = At(g[p], P, r)
    BY DEF In, At
<1>4. CountAt(S, f, P, r) = Cardinality(A) /\ CountAt(S, g, P, r) = Cardinality(B)
    BY DEF CountAt
<1>5. p \in A => Cardinality(A) # 0
    BY <1>1, FS_EmptySet
<1> HIDE DEF A, B
<1>6. /\ Cardinality(A) \in Nat /\ Cardinality(B) \in Nat
      /\ Cardinality(B) + In(p, A) = Cardinality(A) + In(p, B)
    BY <1>1, <1>2, OneMoves
<1>7. In(p, A) <= Cardinality(A)
    BY <1>5, <1>6 DEF In
<1> QED BY <1>3, <1>4, <1>6, <1>7

\* A count is a number.
LEMMA CountIsNat ==
    ASSUME NEW S, IsFiniteSet(S), NEW f, NEW P, NEW r
    PROVE  CountAt(S, f, P, r) \in Nat
<1>1. IsFiniteSet({q \in S : f[q].run = r /\ f[q].pc \in P})
    BY FS_Subset
<1> QED BY <1>1, FS_CardinalityType DEF CountAt

\* The processes are finitely many.
LEMMA Finitely == IsFiniteSet(Loops) /\ IsFiniteSet(Handlers) /\ IsFiniteSet(Workers)
  BY ConstantsAssumption

\* Permits and open calls are counted for each run.
LEMMA PermitsType ==
    ASSUME TypeOK, TypeOK'
    PROVE  /\ OpenPermits \in [Runs -> Nat] /\ OpenCalls \in [Runs -> Nat]
           /\ OpenPermits' \in [Runs -> Nat] /\ OpenCalls' \in [Runs -> Nat]
<1>1. \A r \in Runs : queue[r] \in Nat /\ queue'[r] \in Nat
    BY DEF TypeOK
<1> QED BY <1>1, CountIsNat, Finitely DEF OpenPermits, OpenCalls

\* What one of four summands gains or loses, their sum does.
LEMMA SumMoves ==
    ASSUME NEW q \in Nat, NEW q1 \in Nat, NEW l \in Nat, NEW h \in Nat,
           NEW c \in Nat, NEW c1 \in Nat, NEW a \in Nat, NEW a1 \in Nat,
           c1 + a = c + a1, a <= c
    PROVE  /\ (q1 + l + h + c1) + q + a = (q + l + h + c) + q1 + a1
           /\ q + a <= q + l + h + c
  BY SMTT(30)

\* A task moves.
LEMMA TaskPermits ==
    ASSUME TypeOK, TypeOK', NEW w \in Workers, UNCHANGED <<loop, api>>,
           \A v \in Workers : v # w => worker'[v] = worker[v], NEW r \in Runs
    PROVE  /\ OpenPermits'[r] + queue[r] + At(worker[w], Taken, r)
                  = OpenPermits[r] + queue'[r] + At(worker'[w], Taken, r)
           /\ OpenCalls'[r] + At(worker[w], {"commit"}, r)
                  = OpenCalls[r] + At(worker'[w], {"commit"}, r)
           /\ queue[r] + At(worker[w], Taken, r) <= OpenPermits[r]
           /\ At(worker[w], {"commit"}, r) <= OpenCalls[r]
<1> DEFINE C(f, P) == CountAt(Workers, f, P, r)
           L == CountAt(Loops, loop, {"dispatch"}, r)
           H == CountAt(Handlers, api, {"dispatch"}, r)
<1>1. queue[r] \in Nat /\ queue'[r] \in Nat
    BY DEF TypeOK
<1>2. L \in Nat /\ H \in Nat
    BY CountIsNat, Finitely
<1>3. \A P : /\ C(worker, P) \in Nat /\ C(worker', P) \in Nat
             /\ C(worker', P) + At(worker[w], P, r) = C(worker, P) + At(worker'[w], P, r)
             /\ At(worker[w], P, r) <= C(worker, P)
    BY CountMoves, Finitely
<1>4. /\ OpenPermits[r] = queue[r] + L + H + C(worker, Taken)
      /\ OpenPermits'[r] = queue'[r] + L + H + C(worker', Taken)
      /\ OpenCalls[r] = C(worker, {"commit"}) /\ OpenCalls'[r] = C(worker', {"commit"})
    BY DEF OpenPermits, OpenCalls, Taken
<1>5. \A x, P : At(x, P, r) \in Nat
    BY DEF At
<1> HIDE DEF C, L, H
<1>6. /\ C(worker, Taken) \in Nat /\ C(worker', Taken) \in Nat
      /\ C(worker', Taken) + At(worker[w], Taken, r)
             = C(worker, Taken) + At(worker'[w], Taken, r)
      /\ At(worker[w], Taken, r) <= C(worker, Taken)
    BY <1>3
<1>7. At(worker[w], Taken, r) \in Nat /\ At(worker'[w], Taken, r) \in Nat
    BY <1>5
<1>8. /\ OpenPermits'[r] + queue[r] + At(worker[w], Taken, r)
             = OpenPermits[r] + queue'[r] + At(worker'[w], Taken, r)
      /\ queue[r] + At(worker[w], Taken, r) <= OpenPermits[r]
    BY <1>1, <1>2, <1>4, <1>6, <1>7, SumMoves
<1> QED BY <1>3, <1>4, <1>8

\* A handler moves.
LEMMA HandlerPermits ==
    ASSUME TypeOK, TypeOK', NEW h \in Handlers, UNCHANGED <<loop, worker>>,
           \A k \in Handlers : k # h => api'[k] = api[k], NEW r \in Runs
    PROVE  /\ OpenPermits'[r] + queue[r] + At(api[h], {"dispatch"}, r)
                  = OpenPermits[r] + queue'[r] + At(api'[h], {"dispatch"}, r)
           /\ At(api[h], {"dispatch"}, r) <= OpenPermits[r]
<1> DEFINE D == {"dispatch"}
           C(f) == CountAt(Handlers, f, D, r)
           L == CountAt(Loops, loop, D, r)
           W == CountAt(Workers, worker, Taken, r)
<1>1. queue[r] \in Nat /\ queue'[r] \in Nat
    BY DEF TypeOK
<1>2. L \in Nat /\ W \in Nat
    BY CountIsNat, Finitely
<1>3. /\ C(api) \in Nat /\ C(api') \in Nat
      /\ C(api') + At(api[h], D, r) = C(api) + At(api'[h], D, r)
      /\ At(api[h], D, r) <= C(api)
    BY CountMoves, Finitely
<1>4. /\ OpenPermits[r] = queue[r] + L + C(api) + W
      /\ OpenPermits'[r] = queue'[r] + L + C(api') + W
    BY DEF OpenPermits, Taken
<1>5. At(api[h], D, r) \in Nat /\ At(api'[h], D, r) \in Nat
    BY DEF At
<1> HIDE DEF C, L, W, D
<1>6. OpenPermits'[r] + queue[r] + At(api[h], D, r)
         = OpenPermits[r] + queue'[r] + At(api'[h], D, r)
    BY <1>1, <1>2, <1>3, <1>4, <1>5
<1>7. At(api[h], D, r) <= OpenPermits[r]
    BY <1>1, <1>2, <1>3, <1>4, <1>5
<1> QED BY <1>6, <1>7 DEF D

\* A loop moves.
LEMMA LoopPermits ==
    ASSUME TypeOK, TypeOK', NEW l \in Loops, UNCHANGED <<api, worker>>,
           \A k \in Loops : k # l => loop'[k] = loop[k], NEW r \in Runs
    PROVE  /\ OpenPermits'[r] + queue[r] + At(loop[l], {"dispatch"}, r)
                  = OpenPermits[r] + queue'[r] + At(loop'[l], {"dispatch"}, r)
           /\ At(loop[l], {"dispatch"}, r) <= OpenPermits[r]
<1> DEFINE D == {"dispatch"}
           C(f) == CountAt(Loops, f, D, r)
           H == CountAt(Handlers, api, D, r)
           W == CountAt(Workers, worker, Taken, r)
<1>1. queue[r] \in Nat /\ queue'[r] \in Nat
    BY DEF TypeOK
<1>2. H \in Nat /\ W \in Nat
    BY CountIsNat, Finitely
<1>3. /\ C(loop) \in Nat /\ C(loop') \in Nat
      /\ C(loop') + At(loop[l], D, r) = C(loop) + At(loop'[l], D, r)
      /\ At(loop[l], D, r) <= C(loop)
    BY CountMoves, Finitely
<1>4. /\ OpenPermits[r] = queue[r] + C(loop) + H + W
      /\ OpenPermits'[r] = queue'[r] + C(loop') + H + W
    BY DEF OpenPermits, Taken
<1>5. At(loop[l], D, r) \in Nat /\ At(loop'[l], D, r) \in Nat
    BY DEF At
<1> HIDE DEF C, H, W, D
<1>6. \E n \in Nat : /\ OpenPermits[r] = queue[r] + C(loop) + n
                     /\ OpenPermits'[r] = queue'[r] + C(loop') + n
    <2>1. H + W \in Nat
        BY <1>2
    <2>2. /\ OpenPermits[r] = queue[r] + C(loop) + (H + W)
          /\ OpenPermits'[r] = queue'[r] + C(loop') + (H + W)
        BY <1>1, <1>2, <1>3, <1>4
    <2> QED BY <2>1, <2>2
<1>7. PICK n \in Nat : /\ OpenPermits[r] = queue[r] + C(loop) + n
                       /\ OpenPermits'[r] = queue'[r] + C(loop') + n
    BY <1>6
<1>8. OpenPermits'[r] + queue[r] + At(loop[l], D, r)
         = OpenPermits[r] + queue'[r] + At(loop'[l], D, r)
    BY <1>1, <1>3, <1>5, <1>7
<1>9. At(loop[l], D, r) <= OpenPermits[r]
    BY <1>1, <1>3, <1>5, <1>7
<1> QED BY <1>8, <1>9 DEF D

-----------------------------------------------------------------------------
(* The steps of the permits, from what they change.                        *)

\* A function that differs in one place is an update.
LEMMA OnePlace ==
    ASSUME NEW f, NEW g, f = [q \in Runs |-> f[q]], g = [q \in Runs |-> g[q]],
           NEW r \in Runs, NEW e, \A q \in Runs : g[q] = IF q = r THEN e ELSE f[q]
    PROVE  g = [f EXCEPT ![r] = e]
<1> DEFINE k == [f EXCEPT ![r] = e]
<1>1. k = [q \in Runs |-> IF q = r THEN e ELSE f[q]]
    OBVIOUS
<1>2. g = [q \in Runs |-> IF q = r THEN e ELSE f[q]]
    OBVIOUS
<1> QED BY <1>1, <1>2

\* What the permits see of the rows stands if status, origin, decision and
\* execution do.
RowsLookSame ==
    \A r \in Runs : /\ rows'[r].status = Absent <=> rows[r].status = Absent
                    /\ rows'[r].auto = rows[r].auto
                    /\ rows'[r].action = rows[r].action
                    /\ rows'[r].executed = rows[r].executed

LEMMA RowsShown ==
    ASSUME RowsLookSame
    PROVE  UNCHANGED <<Origins, RowDecisions, ExecutedRows>>
<1>1. \A r \in Runs : OriginOf(rows'[r]) = OriginOf(rows[r])
    BY DEF RowsLookSame, OriginOf
<1>2. Origins' = Origins
    BY <1>1 DEF Origins
<1>3. RowDecisions' = RowDecisions /\ ExecutedRows' = ExecutedRows
    BY DEF RowsLookSame, RowDecisions, ExecutedRows
<1> QED BY <1>2, <1>3

\* Nothing that the permits see of processes and queue changes.
PermitsStand == \A r \in Runs : OpenPermits'[r] = OpenPermits[r]
CallsStand   == \A r \in Runs : OpenCalls'[r] = OpenCalls[r]

\* A permit of run r comes, or goes.
PermitComes(r) == \A q \in Runs :
    OpenPermits'[q] = IF q = r THEN OpenPermits[r] + 1 ELSE OpenPermits[q]
PermitGoes(r) ==
    /\ OpenPermits[r] > 0
    /\ \A q \in Runs :
         OpenPermits'[q] = IF q = r THEN OpenPermits[r] - 1 ELSE OpenPermits[q]

\* A call of run r comes, or goes.
CallComes(r) == \A q \in Runs :
    OpenCalls'[q] = IF q = r THEN OpenCalls[r] + 1 ELSE OpenCalls[q]
CallGoes(r) ==
    /\ OpenCalls[r] > 0
    /\ \A q \in Runs :
         OpenCalls'[q] = IF q = r THEN OpenCalls[r] - 1 ELSE OpenCalls[q]

\* Said of one run at a time, these are the updates of the permits' steps.
LEMMA PermitUpdates ==
    ASSUME NEW r \in Runs
    PROVE  /\ PermitsStand => OpenPermits' = OpenPermits
           /\ CallsStand => OpenCalls' = OpenCalls
           /\ PermitComes(r) => OpenPermits' = Permit!More(OpenPermits, r)
           /\ PermitGoes(r) => OpenPermits' = Permit!Less(OpenPermits, r)
           /\ CallComes(r) => OpenCalls' = Permit!More(OpenCalls, r)
           /\ CallGoes(r) => OpenCalls' = Permit!Less(OpenCalls, r)
<1>1. /\ OpenPermits = [q \in Runs |-> OpenPermits[q]]
      /\ OpenPermits' = [q \in Runs |-> OpenPermits'[q]]
      /\ OpenCalls = [q \in Runs |-> OpenCalls[q]]
      /\ OpenCalls' = [q \in Runs |-> OpenCalls'[q]]
    BY DEF OpenPermits, OpenCalls
<1>2. PermitsStand => OpenPermits' = OpenPermits
    BY <1>1 DEF PermitsStand
<1>3. CallsStand => OpenCalls' = OpenCalls
    BY <1>1 DEF CallsStand
<1>4. PermitComes(r) => OpenPermits' = [OpenPermits EXCEPT ![r] = OpenPermits[r] + 1]
    BY <1>1, OnePlace DEF PermitComes
<1>5. PermitGoes(r) => OpenPermits' = [OpenPermits EXCEPT ![r] = OpenPermits[r] - 1]
    BY <1>1, OnePlace DEF PermitGoes
<1>6. CallComes(r) => OpenCalls' = [OpenCalls EXCEPT ![r] = OpenCalls[r] + 1]
    BY <1>1, OnePlace DEF CallComes
<1>7. CallGoes(r) => OpenCalls' = [OpenCalls EXCEPT ![r] = OpenCalls[r] - 1]
    BY <1>1, OnePlace DEF CallGoes
<1> QED BY <1>2, <1>3, <1>4, <1>5, <1>6, <1>7 DEF Permit!More, Permit!Less

\* Only run r may have become marked as executed.
Marks(r) == \/ ExecutedRows' = ExecutedRows
            \/ ExecutedRows' = [ExecutedRows EXCEPT ![r] = TRUE]

\* A step that the permits do not see.
LEMMA Unseen ==
    ASSUME RowsLookSame, UNCHANGED <<acts, approvers>>, PermitsStand, CallsStand
    PROVE  UNCHANGED Permit!permitVars
<1>1. OpenPermits' = OpenPermits /\ OpenCalls' = OpenCalls
    BY DEF PermitsStand, CallsStand, OpenPermits, OpenCalls
<1> QED BY <1>1, RowsShown DEF Permit!permitVars

\* A permit is given up.
LEMMA Forgone ==
    ASSUME NEW r \in Runs, PermitGoes(r), CallsStand, UNCHANGED <<acts, approvers>>,
           UNCHANGED <<Origins, RowDecisions>>,
           \/ ExecutedRows' = ExecutedRows
           \/ NoAction(r) /\ ExecutedRows' = [ExecutedRows EXCEPT ![r] = TRUE]
    PROVE  Permit!Next
<1>1. RowDecisions[r] = rows[r].action
    BY DEF RowDecisions
<1>2. Permit!Forgo(r)
    BY <1>1, PermitUpdates DEF Permit!Forgo, PermitGoes, NoAction
<1> QED BY <1>2 DEF Permit!Next

\* A permit is spent on a call.
LEMMA Called ==
    ASSUME NEW r \in Runs, PermitGoes(r), CallComes(r), RowsLookSame,
           approvers' = approvers,
           acts' = acts \/ (~NoAction(r) /\ acts' = [acts EXCEPT ![r] = @ + 1])
    PROVE  Permit!Next
<1>1. RowDecisions[r] = rows[r].action
    BY DEF RowDecisions
<1>2. Permit!Call(r)
    BY <1>1, PermitUpdates, RowsShown DEF Permit!Call, PermitGoes, NoAction, Permit!More
<1> QED BY <1>2 DEF Permit!Next

\* The outcome of a call is dealt with.
LEMMA Dealt ==
    ASSUME NEW r \in Runs, CallGoes(r), PermitsStand, Marks(r),
           UNCHANGED <<acts, approvers>>, UNCHANGED <<Origins, RowDecisions>>
    PROVE  Permit!Next
<1>1. Permit!Settle(r)
    BY PermitUpdates DEF Permit!Settle, CallGoes, Marks
<1> QED BY <1>1 DEF Permit!Next

\* A call whose task is lost is a permit again.
LEMMA Returned ==
    ASSUME NEW r \in Runs, CallGoes(r), PermitComes(r), RowsLookSame,
           UNCHANGED <<acts, approvers>>
    PROVE  Permit!Next
<1>1. Permit!Redeliver(r)
    BY PermitUpdates, RowsShown DEF Permit!Redeliver, CallGoes
<1> QED BY <1>1 DEF Permit!Next

-----------------------------------------------------------------------------
(* Each step of Governance is a step of the permits, or is not seen.       *)

Simulated == Permit!Next \/ UNCHANGED Permit!permitVars

\* The end of an execution shows the permits at most an execution.
LEMMA RowSettles ==
    ASSUME TypeOK, NEW r \in Runs, NEW o \in {"executed", "not found", "failed"},
           rows' = [rows EXCEPT ![r] = Settled(@, o)]
    PROVE  UNCHANGED <<Origins, RowDecisions>> /\ Marks(r)
<1>1. rows \in [Runs -> Row]
    BY DEF TypeOK
<1>2. \A q \in Runs : rows'[q] = IF q = r THEN Settled(rows[r], o) ELSE rows[q]
    BY <1>1
<1>3. LET y == Settled(rows[r], o) IN
        /\ y \in Row
        /\ y.executed <=> rows[r].executed \/ o # "failed"
        /\ y.status = rows[r].status /\ y.auto = rows[r].auto /\ y.action = rows[r].action
    BY <1>1, SettlementUpdate
<1>4. \A q \in Runs : OriginOf(rows'[q]) = OriginOf(rows[q]) /\ rows'[q].action = rows[q].action
    BY <1>2, <1>3 DEF OriginOf
<1>5. Origins' = Origins /\ RowDecisions' = RowDecisions
    BY <1>4 DEF Origins, RowDecisions
<1>6. \A q \in Runs : q # r => rows'[q].executed = rows[q].executed
    BY <1>2
<1>7. rows[r].executed \in BOOLEAN /\ rows'[r].executed \in BOOLEAN
    BY <1>1, <1>2, <1>3 DEF Row
<1>8. CASE rows'[r].executed = rows[r].executed
    <2>1. ExecutedRows' = ExecutedRows
        BY <1>6, <1>8 DEF ExecutedRows
    <2> QED BY <1>5, <2>1 DEF Marks
<1>9. CASE rows'[r].executed = TRUE
    <2>1. ExecutedRows' = [ExecutedRows EXCEPT ![r] = TRUE]
        BY <1>6, <1>9 DEF ExecutedRows
    <2> QED BY <1>5, <2>1 DEF Marks
<1>10. rows'[r].executed = rows[r].executed \/ rows'[r].executed = TRUE
    <2>1. rows'[r].executed <=> rows[r].executed \/ o # "failed"
        BY <1>2, <1>3
    <2> QED BY <1>7, <2>1
<1> QED BY <1>8, <1>9, <1>10

\* What a task has of each run before and after its step is what the counts
\* have less or more.
Counts(w) ==
    \A q \in Runs :
        /\ OpenPermits'[q] + queue[q] + At(worker[w], Taken, q)
               = OpenPermits[q] + queue'[q] + At(worker'[w], Taken, q)
        /\ OpenCalls'[q] + At(worker[w], {"commit"}, q)
               = OpenCalls[q] + At(worker'[w], {"commit"}, q)
        /\ queue[q] + At(worker[w], Taken, q) <= OpenPermits[q]
        /\ At(worker[w], {"commit"}, q) <= OpenCalls[q]

\* The steps of a task.
LEMMA TaskSimulates ==
    ASSUME BInv, IInv', NEW w \in Workers, WorkerStep(w) \/ LoseWorker(w)
    PROVE  Simulated
<1>1. /\ TypeOK /\ TypeOK' /\ WorkerOK(w) /\ worker \in [Workers -> WorkerState]
      /\ queue \in [Runs -> Nat] /\ acts \in [Runs -> Nat]
    BY DEF BInv, IInv, WorkerInv, TypeOK
<1>2. \A q \in Runs : /\ queue[q] \in Nat
                      /\ OpenPermits[q] \in Nat /\ OpenPermits'[q] \in Nat
                      /\ OpenCalls[q] \in Nat /\ OpenCalls'[q] \in Nat
    BY <1>1, PermitsType
<1>3. ASSUME NEW y, worker' = [worker EXCEPT ![w] = y]
      PROVE  worker'[w] = y /\ \A v \in Workers : v # w => worker'[v] = worker[v]
    BY <1>1, <1>3
<1>4. UNCHANGED <<loop, api, approvers>>
    BY DEF WorkerStep, DropTask, TakeTask, CommitHold, BrokerActs, BrokerRefuses,
           CommitOutcome, CommitFails, BreakOff, LoseWorker
<1>5. ASSUME \A v \in Workers : v # w => worker'[v] = worker[v]
      PROVE  Counts(w)
    BY <1>1, <1>4, <1>5, TaskPermits DEF Counts
<1>6. ASSUME UNCHANGED rows PROVE RowsLookSame
    BY <1>6 DEF RowsLookSame
\* A task that lays down what it has, the queue as it was.
<1>7. ASSUME worker' = [worker EXCEPT ![w] = IdleWorker], queue' = queue,
             worker[w].run \in Runs, worker[w].pc \in Taken
      PROVE  PermitGoes(worker[w].run) /\ CallsStand
    <2>1. \A q \in Runs :
             /\ At(worker'[w], Taken, q) = 0 /\ At(worker'[w], {"commit"}, q) = 0
             /\ At(worker[w], {"commit"}, q) = 0
             /\ At(worker[w], Taken, q) = IF q = worker[w].run THEN 1 ELSE 0
        BY <1>3, <1>7, Idle DEF At, Taken
    <2>2. Counts(w)
        BY <1>3, <1>5, <1>7
    <2>3. ASSUME NEW q \in Runs
          PROVE  /\ OpenPermits'[q] = IF q = worker[w].run THEN OpenPermits[q] - 1
                                                         ELSE OpenPermits[q]
                 /\ q = worker[w].run => OpenPermits[q] > 0
                 /\ OpenCalls'[q] = OpenCalls[q]
        <3>1. /\ queue[q] \in Nat /\ queue'[q] = queue[q]
              /\ OpenPermits[q] \in Nat /\ OpenPermits'[q] \in Nat
              /\ OpenCalls[q] \in Nat /\ OpenCalls'[q] \in Nat
            BY <1>2, <1>7
        <3>2. /\ OpenPermits'[q] + queue[q] + (IF q = worker[w].run THEN 1 ELSE 0)
                    = OpenPermits[q] + queue'[q] + 0
              /\ OpenCalls'[q] + 0 = OpenCalls[q] + 0
              /\ queue[q] + (IF q = worker[w].run THEN 1 ELSE 0) <= OpenPermits[q]
            BY <2>1, <2>2, Zenon DEF Counts
        <3> QED BY <3>1, <3>2
    <2> QED BY <1>7, <2>3 DEF PermitGoes, CallsStand
<1>8. ASSUME worker' = [worker EXCEPT ![w] = IdleWorker], queue' = queue,
             worker[w].run \in Runs, worker[w].pc = "commit"
      PROVE  CallGoes(worker[w].run) /\ PermitsStand
    <2>1. \A q \in Runs :
             /\ At(worker'[w], Taken, q) = 0 /\ At(worker'[w], {"commit"}, q) = 0
             /\ At(worker[w], Taken, q) = 0
             /\ At(worker[w], {"commit"}, q) = IF q = worker[w].run THEN 1 ELSE 0
        BY <1>3, <1>8, Idle DEF At, Taken
    <2>2. Counts(w)
        BY <1>3, <1>5, <1>8
    <2>3. ASSUME NEW q \in Runs
          PROVE  /\ OpenCalls'[q] = IF q = worker[w].run THEN OpenCalls[q] - 1
                                                       ELSE OpenCalls[q]
                 /\ q = worker[w].run => OpenCalls[q] > 0
                 /\ OpenPermits'[q] = OpenPermits[q]
        BY <1>2, <1>8, <2>1, <2>2 DEF Counts
    <2> QED BY <1>8, <2>3 DEF CallGoes, PermitsStand
\* A task that calls the broker.
<1>9. ASSUME NEW o, worker' = [worker EXCEPT ![w] = [pc |-> "commit", run |-> worker[w].run,
                                                     outcome |-> o]],
             queue' = queue, worker[w].run \in Runs, worker[w].pc = "broker"
      PROVE  PermitGoes(worker[w].run) /\ CallComes(worker[w].run)
    <2>1. worker'[w] = [pc |-> "commit", run |-> worker[w].run, outcome |-> o]
        BY <1>3, <1>9
    <2>2. \A q \in Runs :
             /\ At(worker'[w], Taken, q) = 0 /\ At(worker[w], {"commit"}, q) = 0
             /\ At(worker[w], Taken, q) = IF q = worker[w].run THEN 1 ELSE 0
             /\ At(worker'[w], {"commit"}, q) = IF q = worker[w].run THEN 1 ELSE 0
        BY <1>9, <2>1 DEF At, Taken
    <2>3. Counts(w)
        BY <1>3, <1>5, <1>9
    <2> QED BY <1>2, <1>9, <2>2, <2>3 DEF PermitGoes, CallComes, Counts
<1>10. ASSUME NEW r \in Runs, DropTask(w, r) PROVE Simulated
    <2>1. /\ UNCHANGED <<rows, worker, acts>> /\ queue[r] > 0
          /\ queue' = [queue EXCEPT ![r] = @ - 1]
        BY <1>10 DEF DropTask
    <2>2. \A q \in Runs : queue'[q] = IF q = r THEN queue[r] - 1 ELSE queue[q]
        BY <1>1, <2>1
    <2>3. \A q \in Runs : \A P : At(worker'[w], P, q) = At(worker[w], P, q)
        BY <2>1
    <2>4. \A q \in Runs : \A P : At(worker[w], P, q) \in Nat
        BY DEF At
    <2>5. Counts(w)
        BY <1>5, <2>1
    <2>6. ASSUME NEW q \in Runs
          PROVE  /\ OpenPermits'[q] = IF q = r THEN OpenPermits[q] - 1 ELSE OpenPermits[q]
                 /\ q = r => OpenPermits[q] > 0
                 /\ OpenCalls'[q] = OpenCalls[q]
        <3>1. /\ At(worker'[w], Taken, q) = At(worker[w], Taken, q)
              /\ At(worker'[w], {"commit"}, q) = At(worker[w], {"commit"}, q)
              /\ At(worker[w], Taken, q) \in Nat /\ At(worker[w], {"commit"}, q) \in Nat
            BY <2>3, <2>4
        <3>2. /\ OpenPermits'[q] + queue[q] + At(worker[w], Taken, q)
                    = OpenPermits[q] + queue'[q] + At(worker'[w], Taken, q)
              /\ OpenCalls'[q] + At(worker[w], {"commit"}, q)
                    = OpenCalls[q] + At(worker'[w], {"commit"}, q)
              /\ queue[q] + At(worker[w], Taken, q) <= OpenPermits[q]
            BY <2>5 DEF Counts
        <3>3. /\ queue[q] \in Nat /\ queue'[q] = IF q = r THEN queue[q] - 1 ELSE queue[q]
              /\ q = r => queue[q] > 0
              /\ OpenPermits[q] \in Nat /\ OpenPermits'[q] \in Nat
              /\ OpenCalls[q] \in Nat /\ OpenCalls'[q] \in Nat
            BY <1>2, <2>1, <2>2
        <3> QED BY <3>1, <3>2, <3>3
    <2>7. PermitGoes(r) /\ CallsStand
        BY <2>6 DEF PermitGoes, CallsStand
    <2> QED BY <1>4, <1>6, <2>1, <2>7, RowsShown, Forgone DEF Simulated
<1>11. ASSUME NEW r \in Runs, TakeTask(w, r) PROVE Simulated
    <2> DEFINE y == [pc |-> IF rows[r].action \in {"HOLD", None} THEN "hold" ELSE "broker",
                     run |-> r, outcome |-> None]
    <2>1. /\ UNCHANGED <<rows, acts>> /\ queue[r] > 0 /\ worker[w].pc = "idle"
          /\ queue' = [queue EXCEPT ![r] = @ - 1] /\ worker' = [worker EXCEPT ![w] = y]
        BY <1>11, Zenon DEF TakeTask
    <2>2. y.run = r /\ y.pc \in Taken
        BY DEF Taken
    <2> HIDE DEF y
    <2>3. \A q \in Runs : queue'[q] = IF q = r THEN queue[r] - 1 ELSE queue[q]
        BY <1>1, <2>1
    <2>4. \A q \in Runs :
             /\ At(worker[w], Taken, q) = 0 /\ At(worker[w], {"commit"}, q) = 0
             /\ At(worker'[w], Taken, q) = IF q = r THEN 1 ELSE 0
             /\ At(worker'[w], {"commit"}, q) = 0
        BY <1>3, <2>1, <2>2 DEF At, Taken
    <2>6. Counts(w)
        BY <1>3, <1>5, <2>1
    <2>5. PermitsStand /\ CallsStand
        BY <1>2, <2>1, <2>3, <2>4, <2>6 DEF PermitsStand, CallsStand, Counts
    <2> QED BY <1>4, <1>6, <2>1, <2>5, Unseen DEF Simulated
<1>12. CASE CommitHold(w)
    <2>1. /\ worker' = [worker EXCEPT ![w] = IdleWorker] /\ worker[w].pc = "hold"
          /\ UNCHANGED <<queue, acts>>
          /\ rows' = [rows EXCEPT ![worker[w].run] = Settled(@, "executed")]
        BY <1>12 DEF CommitHold
    <2>2. worker[w].run \in Runs /\ NoAction(worker[w].run)
        BY <1>1, <2>1 DEF WorkerOK
    <2>3. PermitGoes(worker[w].run) /\ CallsStand
        BY <1>7, <2>1, <2>2 DEF Taken
    <2>4. UNCHANGED <<Origins, RowDecisions>> /\ Marks(worker[w].run)
        BY <1>1, <2>1, <2>2, RowSettles
    <2> QED BY <1>4, <2>1, <2>2, <2>3, <2>4, Forgone DEF Simulated, Marks
<1>13. CASE BrokerActs(w)
    <2>1. /\ worker[w].pc = "broker" /\ UNCHANGED <<rows, queue>>
          /\ acts' = [acts EXCEPT ![worker[w].run] = @ + 1]
          /\ \E o : worker' = [worker EXCEPT ![w] = [pc |-> "commit", run |-> worker[w].run,
                                                     outcome |-> o]]
        BY <1>13 DEF BrokerActs
    <2>2. worker[w].run \in Runs /\ ~NoAction(worker[w].run)
        BY <1>1, <2>1 DEF WorkerOK
    <2>3. PermitGoes(worker[w].run) /\ CallComes(worker[w].run)
        BY <1>9, <2>1, <2>2
    <2> QED BY <1>4, <1>6, <2>1, <2>2, <2>3, Called DEF Simulated
<1>14. CASE BrokerRefuses(w)
    <2>1. /\ worker[w].pc = "broker" /\ UNCHANGED <<rows, queue, acts>>
          /\ \E o : worker' = [worker EXCEPT ![w] = [pc |-> "commit", run |-> worker[w].run,
                                                     outcome |-> o]]
        BY <1>14 DEF BrokerRefuses
    <2>2. worker[w].run \in Runs
        BY <1>1, <2>1 DEF WorkerOK
    <2>3. PermitGoes(worker[w].run) /\ CallComes(worker[w].run)
        BY <1>9, <2>1, <2>2
    <2> QED BY <1>4, <1>6, <2>1, <2>2, <2>3, Called DEF Simulated
<1>15. CASE CommitOutcome(w)
    <2>1. /\ worker' = [worker EXCEPT ![w] = IdleWorker] /\ worker[w].pc = "commit"
          /\ UNCHANGED <<queue, acts>>
          /\ rows' = [rows EXCEPT ![worker[w].run] = Settled(@, worker[w].outcome)]
        BY <1>15 DEF CommitOutcome
    <2>2. worker[w].run \in Runs /\ worker[w].outcome \in {"executed", "not found", "failed"}
        BY <1>1, <2>1 DEF WorkerOK, WorkerState
    <2>3. CallGoes(worker[w].run) /\ PermitsStand
        BY <1>8, <2>1, <2>2
    <2>4. UNCHANGED <<Origins, RowDecisions>> /\ Marks(worker[w].run)
        BY <1>1, <2>1, <2>2, RowSettles
    <2> QED BY <1>4, <2>1, <2>2, <2>3, <2>4, Dealt DEF Simulated
<1>16. CASE CommitFails(w) \/ BreakOff(w)
    <2>1. /\ worker' = [worker EXCEPT ![w] = IdleWorker]
          /\ worker[w].pc \in Taken \cup {"commit"}
          /\ UNCHANGED <<rows, queue, acts>>
        BY <1>1, <1>16 DEF CommitFails, BreakOff, WorkerOK, WorkerState, Taken
    <2>2. worker[w].run \in Runs
        BY <1>1, <2>1 DEF WorkerOK, Taken
    <2>3. UNCHANGED <<Origins, RowDecisions, ExecutedRows>>
        BY <1>6, <2>1, RowsShown
    <2>4. CASE worker[w].pc \in Taken
        <3>1. PermitGoes(worker[w].run) /\ CallsStand
            BY <1>7, <2>1, <2>2, <2>4
        <3> QED BY <1>4, <2>1, <2>2, <2>3, <3>1, Forgone DEF Simulated
    <2>5. CASE worker[w].pc = "commit"
        <3>1. CallGoes(worker[w].run) /\ PermitsStand
            BY <1>8, <2>1, <2>2, <2>5
        <3> QED BY <1>4, <2>1, <2>2, <2>3, <3>1, Dealt DEF Simulated, Marks
    <2> QED BY <2>1, <2>4, <2>5
<1>17. CASE LoseWorker(w)
    <2>1. /\ worker' = [worker EXCEPT ![w] = IdleWorker] /\ worker[w].pc # "idle"
          /\ UNCHANGED <<rows, acts>>
          /\ queue' = [queue EXCEPT ![worker[w].run] = @ + 1]
        BY <1>17 DEF LoseWorker
    <2>2. worker[w].run \in Runs /\ worker[w].pc \in Taken \cup {"commit"}
        BY <1>1, <2>1 DEF WorkerOK, WorkerState, Taken
    <2>3. \A q \in Runs : queue'[q] = IF q = worker[w].run THEN queue[q] + 1 ELSE queue[q]
        BY <1>1, <2>1
    <2>4. \A q \in Runs :
             At(worker'[w], Taken, q) = 0 /\ At(worker'[w], {"commit"}, q) = 0
        BY <1>3, <2>1, Idle DEF At, Taken
    <2>7. Counts(w)
        BY <1>3, <1>5, <2>1
    <2>5. CASE worker[w].pc \in Taken
        <3>1. \A q \in Runs :
                 /\ At(worker[w], {"commit"}, q) = 0
                 /\ At(worker[w], Taken, q) = IF q = worker[w].run THEN 1 ELSE 0
            BY <2>5 DEF At, Taken
        <3>2. PermitsStand /\ CallsStand
            BY <1>2, <2>1, <2>3, <2>4, <2>7, <3>1 DEF PermitsStand, CallsStand, Counts
        <3> QED BY <1>4, <1>6, <2>1, <3>2, Unseen DEF Simulated
    <2>6. CASE worker[w].pc = "commit"
        <3>1. \A q \in Runs :
                 /\ At(worker[w], Taken, q) = 0
                 /\ At(worker[w], {"commit"}, q) = IF q = worker[w].run THEN 1 ELSE 0
            BY <2>6 DEF At, Taken
        <3>2. PermitComes(worker[w].run) /\ CallGoes(worker[w].run)
            BY <1>2, <2>1, <2>2, <2>3, <2>4, <2>7, <3>1 DEF PermitComes, CallGoes, Counts
        <3> QED BY <1>4, <1>6, <2>1, <2>2, <3>2, Returned DEF Simulated
    <2> QED BY <2>2, <2>5, <2>6
<1> QED BY <1>10, <1>11, <1>12, <1>13, <1>14, <1>15, <1>16, <1>17 DEF WorkerStep

\* What the move of a handler does to the permits: the one it was about to send
\* is given up or sent, or it is about to send one more.
LEMMA HandlerMovesPermit ==
    ASSUME TypeOK, TypeOK', NEW h \in Handlers, UNCHANGED <<loop, worker>>,
           \A k \in Handlers : k # h => api'[k] = api[k]
    PROVE  /\ CallsStand
           /\ queue' = queue /\ api[h].pc # "dispatch" /\ api'[h].pc # "dispatch"
                => PermitsStand
           /\ ( /\ queue' = queue /\ api[h].pc # "dispatch"
                /\ api'[h].pc = "dispatch" /\ api'[h].run \in Runs )
                => PermitComes(api'[h].run)
           /\ api[h].pc = "dispatch" /\ api[h].run \in Runs /\ api'[h].pc # "dispatch"
                => /\ queue' = queue => PermitGoes(api[h].run)
                   /\ queue' = [queue EXCEPT ![api[h].run] = @ + 1] => PermitsStand
<1> DEFINE a(q) == At(api[h], {"dispatch"}, q)
           b(q) == At(api'[h], {"dispatch"}, q)
<1>1. \A q \in Runs :
         /\ OpenPermits'[q] + queue[q] + a(q) = OpenPermits[q] + queue'[q] + b(q)
         /\ a(q) <= OpenPermits[q]
    BY HandlerPermits
<1>2. \A q \in Runs : /\ queue[q] \in Nat /\ queue'[q] \in Nat
                      /\ OpenPermits[q] \in Nat /\ OpenPermits'[q] \in Nat
    BY PermitsType DEF TypeOK
<1>3. CallsStand
    BY DEF CallsStand, OpenCalls
<1>4. /\ api[h].pc # "dispatch" => \A q \in Runs : a(q) = 0
      /\ api'[h].pc # "dispatch" => \A q \in Runs : b(q) = 0
      /\ api[h].pc = "dispatch" =>
             \A q \in Runs : a(q) = IF q = api[h].run THEN 1 ELSE 0
      /\ api'[h].pc = "dispatch" =>
             \A q \in Runs : b(q) = IF q = api'[h].run THEN 1 ELSE 0
    BY DEF At
<1> HIDE DEF a, b
<1>5. ASSUME queue' = queue, api[h].pc # "dispatch", api'[h].pc # "dispatch"
      PROVE  PermitsStand
    BY <1>1, <1>2, <1>4, <1>5 DEF PermitsStand
<1>6. ASSUME queue' = queue, api[h].pc # "dispatch", api'[h].pc = "dispatch",
             api'[h].run \in Runs
      PROVE  PermitComes(api'[h].run)
    <2>1. ASSUME NEW q \in Runs
          PROVE  OpenPermits'[q] = IF q = api'[h].run THEN OpenPermits[q] + 1
                                                  ELSE OpenPermits[q]
        BY <1>1, <1>2, <1>4, <1>6
    <2> QED BY <2>1 DEF PermitComes
<1>7. ASSUME queue' = queue, api[h].pc = "dispatch", api'[h].pc # "dispatch",
             api[h].run \in Runs
      PROVE  PermitGoes(api[h].run)
    <2>1. ASSUME NEW q \in Runs
          PROVE  /\ OpenPermits'[q] = IF q = api[h].run THEN OpenPermits[q] - 1
                                                   ELSE OpenPermits[q]
                 /\ q = api[h].run => OpenPermits[q] > 0
        <3>1. b(q) = 0 /\ a(q) = IF q = api[h].run THEN 1 ELSE 0
            BY <1>4, <1>7
        <3>2. queue'[q] = queue[q]
            BY <1>7
        <3> QED BY <1>1, <1>2, <3>1, <3>2
    <2> QED BY <1>7, <2>1 DEF PermitGoes
<1>8. ASSUME queue' = [queue EXCEPT ![api[h].run] = @ + 1], api[h].pc = "dispatch",
             api'[h].pc # "dispatch", api[h].run \in Runs
      PROVE  PermitsStand
    <2>1. \A q \in Runs : queue'[q] = IF q = api[h].run THEN queue[q] + 1 ELSE queue[q]
        BY <1>8 DEF TypeOK
    <2> QED BY <1>1, <1>2, <1>4, <1>8, <2>1 DEF PermitsStand
<1> QED BY <1>3, <1>5, <1>6, <1>7, <1>8

\* What the move of a loop does to the permits: the one it was about to send
\* is given up or sent, or it is about to send one more.
LEMMA LoopMovesPermit ==
    ASSUME TypeOK, TypeOK', NEW l \in Loops, UNCHANGED <<api, worker>>,
           \A k \in Loops : k # l => loop'[k] = loop[k]
    PROVE  /\ CallsStand
           /\ queue' = queue /\ loop[l].pc # "dispatch" /\ loop'[l].pc # "dispatch"
                => PermitsStand
           /\ ( /\ queue' = queue /\ loop[l].pc # "dispatch"
                /\ loop'[l].pc = "dispatch" /\ loop'[l].run \in Runs )
                => PermitComes(loop'[l].run)
           /\ loop[l].pc = "dispatch" /\ loop[l].run \in Runs /\ loop'[l].pc # "dispatch"
                => /\ queue' = queue => PermitGoes(loop[l].run)
                   /\ queue' = [queue EXCEPT ![loop[l].run] = @ + 1] => PermitsStand
<1> DEFINE a(q) == At(loop[l], {"dispatch"}, q)
           b(q) == At(loop'[l], {"dispatch"}, q)
<1>1. \A q \in Runs :
         /\ OpenPermits'[q] + queue[q] + a(q) = OpenPermits[q] + queue'[q] + b(q)
         /\ a(q) <= OpenPermits[q]
    BY LoopPermits
<1>2. \A q \in Runs : /\ queue[q] \in Nat /\ queue'[q] \in Nat
                      /\ OpenPermits[q] \in Nat /\ OpenPermits'[q] \in Nat
    BY PermitsType DEF TypeOK
<1>3. CallsStand
    BY DEF CallsStand, OpenCalls
<1>4. /\ loop[l].pc # "dispatch" => \A q \in Runs : a(q) = 0
      /\ loop'[l].pc # "dispatch" => \A q \in Runs : b(q) = 0
      /\ loop[l].pc = "dispatch" =>
             \A q \in Runs : a(q) = IF q = loop[l].run THEN 1 ELSE 0
      /\ loop'[l].pc = "dispatch" =>
             \A q \in Runs : b(q) = IF q = loop'[l].run THEN 1 ELSE 0
    BY DEF At
<1> HIDE DEF a, b
<1>5. ASSUME queue' = queue, loop[l].pc # "dispatch", loop'[l].pc # "dispatch"
      PROVE  PermitsStand
    BY <1>1, <1>2, <1>4, <1>5 DEF PermitsStand
<1>6. ASSUME queue' = queue, loop[l].pc # "dispatch", loop'[l].pc = "dispatch",
             loop'[l].run \in Runs
      PROVE  PermitComes(loop'[l].run)
    <2>1. ASSUME NEW q \in Runs
          PROVE  OpenPermits'[q] = IF q = loop'[l].run THEN OpenPermits[q] + 1
                                                  ELSE OpenPermits[q]
        BY <1>1, <1>2, <1>4, <1>6
    <2> QED BY <2>1 DEF PermitComes
<1>7. ASSUME queue' = queue, loop[l].pc = "dispatch", loop'[l].pc # "dispatch",
             loop[l].run \in Runs
      PROVE  PermitGoes(loop[l].run)
    <2>1. ASSUME NEW q \in Runs
          PROVE  /\ OpenPermits'[q] = IF q = loop[l].run THEN OpenPermits[q] - 1
                                                   ELSE OpenPermits[q]
                 /\ q = loop[l].run => OpenPermits[q] > 0
        <3>1. b(q) = 0 /\ a(q) = IF q = loop[l].run THEN 1 ELSE 0
            BY <1>4, <1>7
        <3>2. queue'[q] = queue[q]
            BY <1>7
        <3> QED BY <1>1, <1>2, <3>1, <3>2
    <2> QED BY <1>7, <2>1 DEF PermitGoes
<1>8. ASSUME queue' = [queue EXCEPT ![loop[l].run] = @ + 1], loop[l].pc = "dispatch",
             loop'[l].pc # "dispatch", loop[l].run \in Runs
      PROVE  PermitsStand
    <2>1. \A q \in Runs : queue'[q] = IF q = loop[l].run THEN queue[q] + 1 ELSE queue[q]
        BY <1>8 DEF TypeOK
    <2> QED BY <1>1, <1>2, <1>4, <1>8, <2>1 DEF PermitsStand
<1> QED BY <1>3, <1>5, <1>6, <1>7, <1>8

\* A human approves a decided run.
LEMMA HumanApproves ==
    ASSUME NEW r \in Runs, PermitComes(r), CallsStand, RowsLookSame, acts' = acts,
           rows[r].action # None, approvers' = [approvers EXCEPT ![r] = @ \cup {"human"}]
    PROVE  Permit!Next
<1>1. RowDecisions[r] # None
    BY DEF RowDecisions
<1>2. Permit!ApproveByHuman(r)
    BY <1>1, PermitUpdates, RowsShown DEF Permit!ApproveByHuman
<1> QED BY <1>2 DEF Permit!Next

\* A loop approves the run it has created, once.
LEMMA LoopApproves ==
    ASSUME NEW r \in Runs, PermitComes(r), CallsStand, RowsLookSame, acts' = acts,
           rows[r].status # Absent, rows[r].auto, "auto" \notin approvers[r],
           approvers' = [approvers EXCEPT ![r] = @ \cup {"auto"}]
    PROVE  Permit!Next
<1>1. Origins[r] = "unattended"
    BY DEF Origins, OriginOf
<1>2. Permit!ApproveByLoop(r)
    BY <1>1, PermitUpdates, RowsShown DEF Permit!ApproveByLoop
<1> QED BY <1>2 DEF Permit!Next

\* A row is inserted.
LEMMA Inserted ==
    ASSUME TypeOK, NEW r \in Runs, NEW t \in Tickets, NEW b \in BOOLEAN,
           rows' = [rows EXCEPT ![r] = NewRow(t, b)], rows[r].status = Absent,
           rows[r].action = None, ~rows[r].executed,
           PermitsStand, CallsStand, UNCHANGED <<acts, approvers>>
    PROVE  Permit!Next
<1>1. rows \in [Runs -> Row]
    BY DEF TypeOK
<1>2. \A q \in Runs : rows'[q] = IF q = r THEN NewRow(t, b) ELSE rows[q]
    BY <1>1
<1>3. LET y == NewRow(t, b) IN
        y \in Row /\ y.status # Absent /\ y.auto = b /\ y.action = None /\ ~y.executed
    BY NewRowFields DEF Absent
<1>4. \A q \in Runs : /\ q # r => OriginOf(rows'[q]) = OriginOf(rows[q])
                      /\ rows'[q].action = rows[q].action
    BY <1>2, <1>3
<1>5. \A q \in Runs : rows'[q].executed = rows[q].executed
    <2>1. NewRow(t, b).executed \in BOOLEAN /\ rows[r].executed \in BOOLEAN
        BY <1>1, <1>3 DEF Row
    <2>2. NewRow(t, b).executed = rows[r].executed
        BY <1>3, <2>1
    <2> QED BY <1>2, <2>2
<1>6. OriginOf(rows'[r]) \in {"supervised", "unattended"}
    BY <1>2, <1>3 DEF OriginOf
<1>7. Origins' = [Origins EXCEPT ![r] = OriginOf(rows'[r])]
    <2>1. /\ Origins = [q \in Runs |-> Origins[q]]
          /\ Origins' = [q \in Runs |-> Origins'[q]]
        BY DEF Origins
    <2>2. \A q \in Runs : Origins'[q] = IF q = r THEN OriginOf(rows'[r]) ELSE Origins[q]
        BY <1>4 DEF Origins
    <2> QED BY <2>1, <2>2, OnePlace
<1>8. RowDecisions' = RowDecisions /\ ExecutedRows' = ExecutedRows
    BY <1>4, <1>5 DEF RowDecisions, ExecutedRows
<1>9. Origins[r] = "none"
    BY DEF Origins, OriginOf
<1>10. Permit!Propose(r)
    BY <1>6, <1>7, <1>8, <1>9, PermitUpdates DEF Permit!Propose
<1> QED BY <1>10 DEF Permit!Next

\* A decision is written.
LEMMA DecisionWritten ==
    ASSUME TypeOK, NEW r \in Runs, NEW a \in Actions,
           rows' = [rows EXCEPT ![r] = Decided(@, a)], rows[r].status # Absent,
           rows[r].action = None, approvers[r] = {},
           PermitsStand, CallsStand, UNCHANGED <<acts, approvers>>
    PROVE  Permit!Next
<1>1. rows \in [Runs -> Row]
    BY DEF TypeOK
<1>2. \A q \in Runs : rows'[q] = IF q = r THEN Decided(rows[r], a) ELSE rows[q]
    BY <1>1
<1>3. LET y == Decided(rows[r], a) IN
        /\ y \in Row /\ y.status # Absent /\ y.action = a
        /\ y.auto = rows[r].auto
        /\ y.executed = rows[r].executed
    BY <1>1, DecisionUpdate DEF Absent
<1>4. \A q \in Runs : /\ OriginOf(rows'[q]) = OriginOf(rows[q])
                      /\ rows'[q].executed = rows[q].executed
                      /\ q # r => rows'[q].action = rows[q].action
    BY <1>2, <1>3 DEF OriginOf
<1>5. RowDecisions' = [RowDecisions EXCEPT ![r] = a]
    BY <1>2, <1>3, <1>4 DEF RowDecisions
<1>6. Origins' = Origins /\ ExecutedRows' = ExecutedRows
    BY <1>4 DEF Origins, ExecutedRows
<1>7. Origins[r] # "none" /\ RowDecisions[r] = None
    BY DEF Origins, OriginOf, RowDecisions
<1>8. Permit!Decide(r)
    BY <1>5, <1>6, <1>7, PermitUpdates DEF Permit!Decide
<1> QED BY <1>8 DEF Permit!Next

\* A row whose approval changes looks the same.
LEMMA ApprovalLooksSame ==
    ASSUME TypeOK, NEW r \in Runs, NEW v \in {"pending", "approved", "rejected"},
           rows' = [rows EXCEPT ![r] = WithApproval(@, v)]
    PROVE  RowsLookSame
<1>1. rows \in [Runs -> Row]
    BY DEF TypeOK
<1>2. \A q \in Runs : rows'[q] = IF q = r THEN WithApproval(rows[r], v) ELSE rows[q]
    BY <1>1
<1> QED BY <1>1, <1>2, ApprovalUpdate DEF RowsLookSame

\* So does one that exists and whose status changes.
LEMMA StatusLooksSame ==
    ASSUME TypeOK, NEW Q, NEW s \in {"running", "failed"},
           rows' = [q \in Runs |-> IF q \in Q THEN WithStatus(rows[q], s) ELSE rows[q]],
           \A q \in Runs : q \in Q => rows[q].status # Absent
    PROVE  RowsLookSame
<1>1. rows \in [Runs -> Row]
    BY DEF TypeOK
<1>2. \A q \in Runs :
         LET y == WithStatus(rows[q], s) IN
           y.status = s /\ y.auto = rows[q].auto /\ y.action = rows[q].action
             /\ y.executed = rows[q].executed
    BY <1>1, StatusUpdate DEF ActiveStatus
<1> QED BY <1>2 DEF RowsLookSame, Absent

LEMMA OneStatusLooksSame ==
    ASSUME TypeOK, NEW r \in Runs, NEW s \in {"running", "failed"},
           rows' = [rows EXCEPT ![r] = WithStatus(@, s)], rows[r].status # Absent
    PROVE  RowsLookSame
<1>1. rows \in [Runs -> Row]
    BY DEF TypeOK
<1>2. LET y == WithStatus(rows[r], s) IN
        y.status = s /\ y.auto = rows[r].auto /\ y.action = rows[r].action
          /\ y.executed = rows[r].executed
    BY <1>1, StatusUpdate DEF ActiveStatus
<1>3. \A q \in Runs : rows'[q] = IF q = r THEN WithStatus(rows[r], s) ELSE rows[q]
    BY <1>1
<1> QED BY <1>2, <1>3 DEF RowsLookSame, Absent

\* The steps of a handler.
LEMMA RequestSimulates ==
    ASSUME BInv, IInv', NEW h \in Handlers, ApiStep(h)
    PROVE  Simulated
<1>1. /\ TypeOK /\ TypeOK' /\ ApiOK(h) /\ api \in [Handlers -> ApiState]
    BY DEF BInv, IInv, ApiInv, TypeOK
<1>2. UNCHANGED <<loop, worker, acts>>
    BY DEF ApiStep, CheckApproval, CheckReject, CommitApproval, DispatchApproved,
           DispatchFails, CommitReject, CommitRefused, bounds, history
<1>3. ASSUME NEW y, api' = [api EXCEPT ![h] = y]
      PROVE  api'[h] = y /\ \A k \in Handlers : k # h => api'[k] = api[k]
    BY <1>1, <1>3
<1>4. ASSUME UNCHANGED rows PROVE RowsLookSame
    BY <1>4 DEF RowsLookSame
<1>5. ASSUME NEW y, api' = [api EXCEPT ![h] = y], y.pc # "dispatch", api[h].pc # "dispatch",
             UNCHANGED <<queue, approvers>>, RowsLookSame
      PROVE  Simulated
    <2>1. PermitsStand /\ CallsStand
        BY <1>1, <1>2, <1>3, <1>5, HandlerMovesPermit
    <2> QED BY <1>2, <1>5, <2>1, Unseen DEF Simulated
<1>6. ASSUME NEW r \in Runs, CheckApproval(h, r) \/ CheckReject(h, r) PROVE Simulated
    <2>1. PICK y : y.pc # "dispatch" /\ api' = [api EXCEPT ![h] = y]
        BY <1>6 DEF CheckApproval, CheckReject
    <2>2. api[h].pc # "dispatch" /\ UNCHANGED <<rows, queue, approvers>>
        BY <1>6 DEF CheckApproval, CheckReject
    <2> QED BY <1>4, <1>5, <2>1, <2>2
<1>7. CASE CommitApproval(h)
    <2>1. /\ api[h].pc = "approve" /\ queue' = queue
          /\ rows' = [rows EXCEPT ![api[h].run] = WithApproval(@, "approved")]
          /\ approvers' = [approvers EXCEPT ![api[h].run] = @ \cup {"human"}]
          /\ api' = [api EXCEPT ![h] = [pc |-> "dispatch", run |-> api[h].run,
                                        writes |-> FALSE]]
        BY <1>7 DEF CommitApproval
    <2>2. api[h].run \in Runs /\ rows[api[h].run].action # None
        BY <1>1, <2>1 DEF ApiOK
    <2>3. api'[h].pc = "dispatch" /\ api'[h].run = api[h].run
        BY <1>3, <2>1
    <2>4. PermitComes(api[h].run) /\ CallsStand
        BY <1>1, <1>2, <1>3, <2>1, <2>2, <2>3, HandlerMovesPermit
    <2>5. RowsLookSame
        BY <1>1, <2>1, <2>2, ApprovalLooksSame
    <2> QED BY <1>2, <2>1, <2>2, <2>4, <2>5, HumanApproves DEF Simulated
<1>8. CASE DispatchApproved(h) \/ DispatchFails(h)
    <2>1. /\ api[h].pc = "dispatch" /\ UNCHANGED <<rows, approvers>>
          /\ api' = [api EXCEPT ![h] = IdleApi]
          /\ \/ queue' = queue
             \/ queue' = [queue EXCEPT ![api[h].run] = @ + 1]
        BY <1>8 DEF DispatchApproved, DispatchFails
    <2>2. api[h].run \in Runs
        BY <1>1, <2>1 DEF ApiOK
    <2>3. api'[h].pc # "dispatch"
        BY <1>3, <2>1, Idle
    <2>4. CallsStand /\ (PermitsStand \/ PermitGoes(api[h].run))
        BY <1>1, <1>2, <1>3, <2>1, <2>2, <2>3, HandlerMovesPermit
    <2> QED BY <1>2, <1>4, <2>1, <2>2, <2>4, RowsShown, Unseen, Forgone DEF Simulated
<1>9. CASE CommitReject(h) \/ CommitRefused(h)
    <2>1. /\ api' = [api EXCEPT ![h] = IdleApi] /\ api[h].pc \in {"approve", "reject"}
          /\ UNCHANGED <<queue, approvers>>
          /\ \/ rows' = rows
             \/ rows' = [rows EXCEPT ![api[h].run] = WithApproval(@, "rejected")]
        BY <1>9 DEF CommitReject, CommitRefused
    <2>2. api[h].run \in Runs
        BY <1>1, <2>1 DEF ApiOK
    <2>3. RowsLookSame
        BY <1>1, <1>4, <2>1, <2>2, ApprovalLooksSame
    <2> QED BY <1>5, <2>1, <2>3, Idle
<1> QED BY <1>6, <1>7, <1>8, <1>9 DEF ApiStep

\* The steps of a loop.
LEMMA LoopSimulates ==
    ASSUME BInv, IInv', NEW l \in Loops, LoopStep(l) \/ KillLoop(l)
    PROVE  Simulated
<1> USE DEF bounds, history
<1>1. /\ TypeOK /\ TypeOK' /\ LoopOK(l) /\ loop[l] \in LoopState
      /\ loop \in [Loops -> LoopState] /\ rows \in [Runs -> Row]
    BY DEF BInv, IInv, LoopInv, TypeOK
<1>2. UNCHANGED <<api, worker, acts>>
    BY DEF LoopStep, BeatStart, BeatFindsNothing, BeatStartWithoutRedis, ForcedStart, SkipFresh,
           PickPosition, MarkStale, MarkFails, CreateRun, CreateFails, StartPipeline,
           PersistDecision, PersistFails, PipelineFails, PipelineFailsUnsaved,
           AutoApprove, LeaveToHuman, AutoDispatch, AutoDispatchFails, FinishLoop, KillLoop
<1>3. ASSUME NEW y, loop' = [loop EXCEPT ![l] = y]
      PROVE  loop'[l] = y /\ \A k \in Loops : k # l => loop'[k] = loop[k]
    BY <1>1, <1>3
<1>4. ASSUME UNCHANGED rows PROVE RowsLookSame
    BY <1>4 DEF RowsLookSame
<1>5. ASSUME NEW y, loop' = [loop EXCEPT ![l] = y], y.pc # "dispatch",
             loop[l].pc # "dispatch", queue' = queue
      PROVE  PermitsStand /\ CallsStand
    BY <1>1, <1>2, <1>3, <1>5, LoopMovesPermit
<1>6. ASSUME NEW y, loop' = [loop EXCEPT ![l] = y], y.pc # "dispatch",
             loop[l].pc # "dispatch", UNCHANGED <<queue, approvers>>, RowsLookSame
      PROVE  Simulated
    BY <1>2, <1>5, <1>6, Unseen DEF Simulated
<1>7. \A S : Between(S).pc = "next"
    BY DEF Between, IdleLoop
<1>8. /\ \A p : Goto(loop[l], p).pc = p /\ Goto(loop[l], p).run = loop[l].run
      /\ \A a : Told(loop[l], a).pc = "decided"
      /\ \A r, b : Created(loop[l], r, b).pc = "created"
    BY <1>1 DEF Goto, Told, Created, LoopState
<1>9. CASE \/ BeatStart(l) \/ BeatStartWithoutRedis(l) \/ ForcedStart(l)
           \/ (\E t \in Tickets : SkipFresh(l, t) \/ PickPosition(l, t))
           \/ MarkFails(l) \/ CreateFails(l) \/ LeaveToHuman(l) \/ FinishLoop(l)
           \/ PipelineFailsUnsaved(l) \/ (\E a \in Decisions : PersistFails(l, a))
    <2>1. PICK y : y.pc # "dispatch" /\ loop' = [loop EXCEPT ![l] = y]
        BY <1>7, <1>8, <1>9, Idle
           DEF BeatStart, BeatStartWithoutRedis, ForcedStart, SkipFresh, PickPosition,
               Picked, IdleLoop, MarkFails, CreateFails, LeaveToHuman, FinishLoop,
               PipelineFailsUnsaved, PersistFails, NextPosition
    <2>2. loop[l].pc # "dispatch" /\ UNCHANGED <<rows, queue, approvers>>
        BY <1>9 DEF BeatStart, BeatStartWithoutRedis, ForcedStart, SkipFresh, PickPosition,
               MarkFails, CreateFails, LeaveToHuman, FinishLoop, PipelineFailsUnsaved,
               PersistFails
    <2> QED BY <1>4, <1>6, <2>1, <2>2
<1>10. CASE MarkStale(l)
    <2>1. PICK y : y.pc # "dispatch" /\ loop' = [loop EXCEPT ![l] = y]
        BY <1>7, <1>8, <1>10 DEF MarkStale, NextPosition
    <2>2. /\ loop[l].pc # "dispatch" /\ UNCHANGED <<queue, approvers>>
          /\ rows' = [q \in Runs |-> IF q \in loop[l].stale
                                     THEN WithStatus(rows[q], "failed") ELSE rows[q]]
        BY <1>10 DEF MarkStale
    <2>3. \A q \in Runs : q \in loop[l].stale => rows[q].status # Absent
        BY <1>1 DEF LoopOK
    <2>4. RowsLookSame
        BY <1>1, <2>2, <2>3, StatusLooksSame
    <2> QED BY <1>6, <2>1, <2>2, <2>4
<1>11. CASE StartPipeline(l) \/ PipelineFails(l)
    <2>1. PICK y : y.pc # "dispatch" /\ loop' = [loop EXCEPT ![l] = y]
        BY <1>8, <1>11 DEF StartPipeline, PipelineFails
    <2>2. loop[l].pc \in {"created", "running"} /\ UNCHANGED <<queue, approvers>>
        BY <1>11 DEF StartPipeline, PipelineFails
    <2>3. loop[l].run \in Runs /\ rows[loop[l].run].status # Absent
        BY <1>1, <2>2 DEF LoopOK, Working
    <2>4. PICK s \in {"running", "failed"} :
             rows' = [rows EXCEPT ![loop[l].run] = WithStatus(@, s)]
        BY <1>11 DEF StartPipeline, PipelineFails
    <2>5. RowsLookSame
        BY <1>1, <2>3, <2>4, OneStatusLooksSame
    <2> QED BY <1>6, <2>1, <2>2, <2>5
<1>12. ASSUME NEW r \in Runs, CreateRun(l, r) PROVE Simulated
    <2>1. /\ loop[l].pc = "create" /\ rows[r].status = Absent
          /\ rows' = [rows EXCEPT ![r] = NewRow(loop[l].ticket, autoApprove)]
          /\ UNCHANGED <<queue, approvers>>
          /\ loop' = [loop EXCEPT ![l] = Created(loop[l], r, autoApprove)]
        BY <1>12 DEF CreateRun
    <2>2. loop[l].ticket \in Tickets /\ autoApprove \in BOOLEAN
        BY <1>1, <2>1 DEF LoopOK, TypeOK
    <2>3. rows[r].action = None /\ ~rows[r].executed
        <3>1. RowOK(r)
            BY DEF BInv, IInv, RowInv
        <3> QED BY <2>1, <3>1 DEF RowOK, Gate
    <2>4. PermitsStand /\ CallsStand
        BY <1>5, <1>8, <2>1
    <2> QED BY <1>1, <1>2, <2>1, <2>2, <2>3, <2>4, Inserted DEF Simulated
<1>13. ASSUME NEW a \in Decisions, PersistDecision(l, a) PROVE Simulated
    <2>1. /\ loop[l].pc = "running" /\ UNCHANGED <<queue, approvers>>
          /\ rows' = [rows EXCEPT ![loop[l].run] = Decided(@, a)]
          /\ loop' = [loop EXCEPT ![l] = Told(loop[l], a)]
        BY <1>13 DEF PersistDecision
    <2>2. /\ loop[l].run \in Runs /\ rows[loop[l].run].status # Absent
          /\ rows[loop[l].run].action = None /\ approvers[loop[l].run] = {}
        BY <1>1, <2>1 DEF LoopOK, Working, Evaluating
    <2>3. PermitsStand /\ CallsStand
        BY <1>5, <1>8, <2>1
    <2>4. a \in Actions
        BY ConstantsAssumption
    <2> QED BY <1>1, <1>2, <2>1, <2>2, <2>3, <2>4, DecisionWritten DEF Simulated
<1>14. CASE AutoApprove(l)
    <2>1. /\ loop[l].pc = "decided" /\ loop[l].auto /\ queue' = queue
          /\ rows' = [rows EXCEPT ![loop[l].run] = WithApproval(@, "approved")]
          /\ approvers' = [approvers EXCEPT ![loop[l].run] = @ \cup {"auto"}]
          /\ loop' = [loop EXCEPT ![l] = Goto(loop[l], "dispatch")]
        BY <1>14 DEF AutoApprove
    <2>2. /\ loop[l].run \in Runs /\ rows[loop[l].run].status # Absent
          /\ rows[loop[l].run].auto /\ "auto" \notin approvers[loop[l].run]
        BY <1>1, <2>1 DEF LoopOK, Working, BInv, Unapproved
    <2>3. loop'[l].pc = "dispatch" /\ loop'[l].run = loop[l].run
        BY <1>3, <1>8, <2>1
    <2>4. PermitComes(loop[l].run) /\ CallsStand
        BY <1>1, <1>2, <1>3, <2>1, <2>2, <2>3, LoopMovesPermit
    <2>5. RowsLookSame
        BY <1>1, <2>1, <2>2, ApprovalLooksSame
    <2> QED BY <1>2, <2>1, <2>2, <2>4, <2>5, LoopApproves DEF Simulated
<1>15. CASE AutoDispatch(l) \/ AutoDispatchFails(l) \/ (KillLoop(l) /\ loop[l].pc = "dispatch")
    <2>1. PICK y : y.pc # "dispatch" /\ loop' = [loop EXCEPT ![l] = y]
        BY <1>7, <1>15, Idle DEF AutoDispatch, AutoDispatchFails, KillLoop, NextPosition
    <2>2. /\ loop[l].pc = "dispatch" /\ UNCHANGED <<rows, approvers>>
          /\ \/ queue' = queue
             \/ queue' = [queue EXCEPT ![loop[l].run] = @ + 1]
        BY <1>15 DEF AutoDispatch, AutoDispatchFails, KillLoop
    <2>3. loop[l].run \in Runs
        BY <1>1, <2>2 DEF LoopOK, Working
    <2>4. CallsStand /\ (PermitsStand \/ PermitGoes(loop[l].run))
        BY <1>1, <1>2, <1>3, <2>1, <2>2, <2>3, LoopMovesPermit
    <2> QED BY <1>2, <1>4, <2>2, <2>3, <2>4, RowsShown, Unseen, Forgone DEF Simulated
<1>16. CASE KillLoop(l) /\ loop[l].pc # "dispatch"
    <2>1. loop' = [loop EXCEPT ![l] = IdleLoop] /\ IdleLoop.pc # "dispatch"
        BY <1>16, Idle DEF KillLoop
    <2>2. UNCHANGED <<rows, queue, approvers>>
        BY <1>16 DEF KillLoop
    <2> QED BY <1>4, <1>6, <1>16, <2>1, <2>2
<1>17. CASE BeatFindsNothing(l)
    <2>1. loop' = [loop EXCEPT ![l] = loop[l]] /\ loop[l].pc # "dispatch"
        BY <1>1, <1>17 DEF BeatFindsNothing
    <2> QED BY <1>4, <1>6, <1>17, <2>1 DEF BeatFindsNothing
<1> QED BY <1>9, <1>10, <1>11, <1>12, <1>13, <1>14, <1>15, <1>16, <1>17 DEF LoopStep

\* Time, the market, the configuration and stuttering are not seen.
LEMMA RestUnseen ==
    ASSUME IInv, \/ UpdateConfig \/ Time \/ (\E t \in Tickets : ClosePosition(t))
                 \/ UNCHANGED vars
    PROVE  Simulated
<1>1. UNCHANGED <<loop, api, queue, worker, acts, approvers>>
    BY DEF UpdateConfig, Time, ExpireLock, PassStaleThreshold, PassCooldown,
           ClosePosition, vars
<1>2. PermitsStand /\ CallsStand
    BY <1>1 DEF PermitsStand, CallsStand, OpenPermits, OpenCalls
<1>3. rows \in [Runs -> Row]
    BY DEF IInv, TypeOK
<1>4. ASSUME rows' = rows PROVE RowsLookSame
    BY <1>4 DEF RowsLookSame
<1>5. ASSUME NEW r \in Runs, PassStaleThreshold(r) \/ PassCooldown(r) PROVE RowsLookSame
    <2>1. \/ rows' = [rows EXCEPT ![r] = [rows[r] EXCEPT !.recent = FALSE]]
          \/ rows' = [rows EXCEPT ![r] = [rows[r] EXCEPT !.cooling = FALSE]]
        BY <1>3, <1>5 DEF PassStaleThreshold, PassCooldown, Row
    <2> QED BY <1>3, <2>1, RowAged DEF RowsLookSame
<1>6. rows' = rows \/ \E r \in Runs : PassStaleThreshold(r) \/ PassCooldown(r)
    BY DEF UpdateConfig, Time, ExpireLock, ClosePosition, vars
<1>7. RowsLookSame
    BY <1>4, <1>5, <1>6
<1> QED BY <1>1, <1>2, <1>7, Unseen DEF Simulated

\* At first there is no run, no permit and no call.
LEMMA PermitsInit == Init => Permit!Init
<1> SUFFICES ASSUME Init PROVE Permit!Init
    OBVIOUS
<1>1. \A r \in Runs : OriginOf(rows[r]) = "none" /\ rows[r].action = None /\ rows[r].executed = FALSE
    BY NoRowFields DEF Init, OriginOf, NoRow
<1>2. ASSUME NEW r \in Runs PROVE OpenPermits[r] = 0 /\ OpenCalls[r] = 0
    <2>1. /\ {p \in Loops : loop[p].run = r /\ loop[p].pc \in {"dispatch"}} = {}
          /\ {p \in Handlers : api[p].run = r /\ api[p].pc \in {"dispatch"}} = {}
          /\ {p \in Workers : worker[p].run = r /\ worker[p].pc \in {"hold", "broker"}} = {}
          /\ {p \in Workers : worker[p].run = r /\ worker[p].pc \in {"commit"}} = {}
        BY Idle DEF Init
    <2>2. queue[r] = 0
        BY DEF Init
    <2>3. /\ CountAt(Loops, loop, {"dispatch"}, r) = 0
          /\ CountAt(Handlers, api, {"dispatch"}, r) = 0
          /\ CountAt(Workers, worker, {"hold", "broker"}, r) = 0
          /\ CountAt(Workers, worker, {"commit"}, r) = 0
        BY <2>1, FS_EmptySet DEF CountAt
    <2> QED BY <2>2, <2>3 DEF OpenPermits, OpenCalls
<1>3. Origins = [r \in Runs |-> "none"] /\ RowDecisions = [r \in Runs |-> None]
    BY <1>1 DEF Origins, RowDecisions
<1>4. ExecutedRows = [r \in Runs |-> FALSE]
    BY <1>1 DEF ExecutedRows
<1>5. OpenPermits = [r \in Runs |-> 0] /\ OpenCalls = [r \in Runs |-> 0]
    BY <1>2 DEF OpenPermits, OpenCalls
<1>6. acts = [r \in Runs |-> 0] /\ approvers = [r \in Runs |-> {}]
    BY DEF Init
<1> QED BY <1>3, <1>4, <1>5, <1>6 DEF Permit!Init

\* Every step of the monitor is a step of the permits, or is not seen.
LEMMA StepSimulates == BInv /\ IInv' /\ [Next]_vars => [Permit!Next]_(Permit!permitVars)
<1> SUFFICES ASSUME BInv, IInv', [Next]_vars PROVE Simulated
    BY DEF Simulated
<1> QED BY LoopSimulates, RequestSimulates, TaskSimulates, RestUnseen DEF Next, BInv

\* BInv, the invariant with the budget, holds always.
LEMMA BInvHolds == Spec => []BInv
  BY BInvInit, BInvKept, PTL DEF Spec

\* Each broker call of the governance monitor spends a permit of its run that
\* an approval gave or a lost task left: ExecutionPermits is implemented.
THEOREM PermitRefinement == Spec => ImplementsPermits
<1>1. BInv /\ BInv' /\ [Next]_vars => [Permit!Next]_(Permit!permitVars)
    BY StepSimulates DEF BInv
<1> QED BY <1>1, BInvHolds, PermitsInit, PTL DEF Spec, ImplementsPermits, Permit!Spec

\* The variables of the permits, as Governance gives them, are typed.
PermitTyped ==
    /\ Origins \in [Runs -> {"none", "supervised", "unattended"}]
    /\ RowDecisions = [r \in Runs |-> RowDecisions[r]]
    /\ ExecutedRows = [r \in Runs |-> ExecutedRows[r]]
    /\ OpenPermits \in [Runs -> Nat] /\ OpenCalls \in [Runs -> Nat]
    /\ acts \in [Runs -> Nat]
    /\ approvers = [r \in Runs |-> approvers[r]]

LEMMA PermitTypedAlways == TypeOK => PermitTyped
<1> SUFFICES ASSUME TypeOK PROVE PermitTyped
    OBVIOUS
<1>1. \A r \in Runs : queue[r] \in Nat
    BY DEF TypeOK
<1>2. OpenPermits \in [Runs -> Nat] /\ OpenCalls \in [Runs -> Nat]
    BY <1>1, CountIsNat, Finitely DEF OpenPermits, OpenCalls
<1>3. \A r \in Runs : OriginOf(rows[r]) \in {"none", "supervised", "unattended"}
    BY DEF OriginOf
<1>4. Origins \in [Runs -> {"none", "supervised", "unattended"}]
    BY <1>3 DEF Origins
<1>5. acts \in [Runs -> Nat] /\ approvers = [r \in Runs |-> approvers[r]]
    BY DEF TypeOK
<1>6. /\ RowDecisions = [r \in Runs |-> RowDecisions[r]]
      /\ ExecutedRows = [r \in Runs |-> ExecutedRows[r]]
    BY DEF RowDecisions, ExecutedRows
<1> QED BY <1>2, <1>4, <1>5, <1>6 DEF PermitTyped

\* Warranted of one run, with its values given: what a step has to keep.
WarrantOf(o, d, a, p, u, n, x) ==
    LET entitled == "human" \in a \/ (o = "unattended" /\ "auto" \in a) IN
    /\ (p > 0 \/ u > 0 \/ x) => entitled
    /\ n > 0 => (entitled /\ d \notin {"HOLD", None})

LEMMA WarrantedIsOfEach ==
    Permit!Warranted <=>
        \A r \in Runs : WarrantOf(Origins[r], RowDecisions[r], approvers[r],
                                  OpenPermits[r], OpenCalls[r], acts[r], ExecutedRows[r])
  BY DEF Permit!Warranted, Permit!Entitled, WarrantOf

\* What one more, or one less, is.
LEMMA MoreAndLess ==
    ASSUME NEW f \in [Runs -> Nat], NEW r \in Runs, NEW q \in Runs
    PROVE  /\ Permit!More(f, r)[q] = IF q = r THEN f[r] + 1 ELSE f[q]
           /\ Permit!Less(f, r)[q] = IF q = r THEN f[r] - 1 ELSE f[q]
  BY DEF Permit!More, Permit!Less

\* The permits' own steps keep Warranted.
LEMMA WarrantKept ==
    ASSUME PermitTyped, Permit!Warranted, Permit!Next
    PROVE  Permit!Warranted'
<1>1. PICK r \in Runs :
         \/ Permit!Propose(r) \/ Permit!Decide(r)
         \/ Permit!ApproveByHuman(r) \/ Permit!ApproveByLoop(r)
         \/ Permit!Call(r) \/ Permit!Settle(r) \/ Permit!Redeliver(r) \/ Permit!Forgo(r)
    BY DEF Permit!Next
<1>2. SUFFICES ASSUME NEW q \in Runs
               PROVE  WarrantOf(Origins'[q], RowDecisions'[q], approvers'[q], OpenPermits'[q],
                                OpenCalls'[q], acts'[q], ExecutedRows'[q])
    BY DEF Permit!Warranted, Permit!Entitled, WarrantOf
<1>3. WarrantOf(Origins[q], RowDecisions[q], approvers[q], OpenPermits[q], OpenCalls[q],
                acts[q], ExecutedRows[q])
    BY WarrantedIsOfEach
<1>4. /\ OpenPermits[q] \in Nat /\ OpenCalls[q] \in Nat /\ acts[q] \in Nat
      /\ OpenPermits[r] \in Nat /\ OpenCalls[r] \in Nat /\ acts[r] \in Nat
    BY DEF PermitTyped
<1>5. CASE Permit!Propose(r)
    <2>1. PICK o \in {"supervised", "unattended"} : Origins' = [Origins EXCEPT ![r] = o]
        BY <1>5 DEF Permit!Propose
    <2>2. Origins[r] = "none" /\ Origins'[q] = IF q = r THEN o ELSE Origins[q]
        BY <1>5, <2>1 DEF Permit!Propose, PermitTyped
    <2>3. UNCHANGED <<RowDecisions, approvers, OpenPermits, OpenCalls, acts, ExecutedRows>>
        BY <1>5 DEF Permit!Propose
    <2> QED BY <1>3, <2>2, <2>3 DEF WarrantOf
<1>6. CASE Permit!Decide(r)
    <2>1. PICK a \in Actions : RowDecisions' = [RowDecisions EXCEPT ![r] = a]
        BY <1>6 DEF Permit!Decide
    <2>2. RowDecisions[r] = None /\ RowDecisions'[q] = IF q = r THEN a ELSE RowDecisions[q]
        BY <1>6, <2>1 DEF Permit!Decide, PermitTyped
    <2>3. UNCHANGED <<Origins, approvers, OpenPermits, OpenCalls, acts, ExecutedRows>>
        BY <1>6 DEF Permit!Decide
    <2> QED BY <1>3, <2>2, <2>3 DEF WarrantOf
<1>7. ASSUME NEW who \in {"human", "auto"}, who = "auto" => Origins[r] = "unattended",
             approvers' = [approvers EXCEPT ![r] = @ \cup {who}],
             OpenPermits' = Permit!More(OpenPermits, r),
             UNCHANGED <<Origins, RowDecisions, OpenCalls, acts, ExecutedRows>>
      PROVE  WarrantOf(Origins'[q], RowDecisions'[q], approvers'[q], OpenPermits'[q],
                       OpenCalls'[q], acts'[q], ExecutedRows'[q])
    <2>1. approvers'[q] = IF q = r THEN approvers[r] \cup {who} ELSE approvers[q]
        BY <1>7 DEF PermitTyped
    <2>2. OpenPermits'[q] = IF q = r THEN OpenPermits[r] + 1 ELSE OpenPermits[q]
        BY <1>7, MoreAndLess DEF PermitTyped
    <2> QED BY <1>3, <1>7, <2>1, <2>2 DEF WarrantOf
<1>8. CASE Permit!ApproveByHuman(r)
    BY <1>7, <1>8 DEF Permit!ApproveByHuman
<1>9. CASE Permit!ApproveByLoop(r)
    BY <1>7, <1>9 DEF Permit!ApproveByLoop
<1>10. CASE Permit!Call(r)
    <2>1. /\ OpenPermits[r] > 0
          /\ OpenPermits'[q] = IF q = r THEN OpenPermits[r] - 1 ELSE OpenPermits[q]
          /\ OpenCalls'[q] = IF q = r THEN OpenCalls[r] + 1 ELSE OpenCalls[q]
        BY <1>10, MoreAndLess DEF Permit!Call, PermitTyped
    <2>2. \/ acts'[q] = acts[q]
          \/ q = r /\ RowDecisions[q] \notin {"HOLD", None}
        BY <1>10, MoreAndLess DEF Permit!Call, PermitTyped
    <2>3. UNCHANGED <<Origins, RowDecisions, approvers, ExecutedRows>>
        BY <1>10 DEF Permit!Call
    <2> QED BY <1>3, <1>4, <2>1, <2>2, <2>3 DEF WarrantOf
<1>11. CASE Permit!Settle(r)
    <2>1. /\ OpenCalls[r] > 0
          /\ OpenCalls'[q] = IF q = r THEN OpenCalls[r] - 1 ELSE OpenCalls[q]
        BY <1>11, MoreAndLess DEF Permit!Settle, PermitTyped
    <2>2. ExecutedRows'[q] = ExecutedRows[q] \/ q = r
        BY <1>11 DEF Permit!Settle, PermitTyped
    <2>3. UNCHANGED <<Origins, RowDecisions, approvers, OpenPermits, acts>>
        BY <1>11 DEF Permit!Settle
    <2> QED BY <1>3, <1>4, <2>1, <2>2, <2>3 DEF WarrantOf
<1>12. CASE Permit!Redeliver(r)
    <2>1. /\ OpenCalls[r] > 0
          /\ OpenCalls'[q] = IF q = r THEN OpenCalls[r] - 1 ELSE OpenCalls[q]
          /\ OpenPermits'[q] = IF q = r THEN OpenPermits[r] + 1 ELSE OpenPermits[q]
        BY <1>12, MoreAndLess DEF Permit!Redeliver, PermitTyped
    <2>2. UNCHANGED <<Origins, RowDecisions, approvers, acts, ExecutedRows>>
        BY <1>12 DEF Permit!Redeliver
    <2> QED BY <1>3, <1>4, <2>1, <2>2 DEF WarrantOf
<1>13. CASE Permit!Forgo(r)
    <2>1. /\ OpenPermits[r] > 0
          /\ OpenPermits'[q] = IF q = r THEN OpenPermits[r] - 1 ELSE OpenPermits[q]
        BY <1>13, MoreAndLess DEF Permit!Forgo, PermitTyped
    <2>2. ExecutedRows'[q] = ExecutedRows[q] \/ q = r
        BY <1>13 DEF Permit!Forgo, PermitTyped
    <2>3. UNCHANGED <<Origins, RowDecisions, approvers, OpenCalls, acts>>
        BY <1>13 DEF Permit!Forgo
    <2> QED BY <1>3, <1>4, <2>1, <2>2, <2>3 DEF WarrantOf
<1> QED BY <1>1, <1>5, <1>6, <1>8, <1>9, <1>10, <1>11, <1>12, <1>13

\* A dispatch about to be made, a message, a task that may still call the
\* broker, a call and an execution belong to a run that a human approved, or
\* its own loop with auto_approve on: Warranted, carried over the refinement.
THEOREM PermitsAreWarranted == Spec => []Permit!Warranted
<1>1. Permit!Init => Permit!Warranted
    BY DEF Permit!Init, Permit!Warranted
<1>2. BInv /\ Permit!Warranted /\ [Permit!Next]_(Permit!permitVars) => Permit!Warranted'
    <2> SUFFICES ASSUME BInv, Permit!Warranted, [Permit!Next]_(Permit!permitVars)
                 PROVE  Permit!Warranted'
        OBVIOUS
    <2>1. PermitTyped
        BY PermitTypedAlways DEF BInv, IInv
    <2>2. CASE Permit!Next
        BY <2>1, <2>2, WarrantKept
    <2>3. CASE UNCHANGED Permit!permitVars
        BY <2>3 DEF Permit!permitVars, Permit!Warranted, Permit!Entitled
    <2> QED BY <2>2, <2>3
<1>3. BInv /\ BInv' /\ [Next]_vars => [Permit!Next]_(Permit!permitVars)
    BY StepSimulates DEF BInv
<1> QED BY <1>1, <1>2, <1>3, BInvHolds, PermitsInit, PTL DEF Spec

=============================================================================
