----------------------------- MODULE Governance -----------------------------
(***************************************************************************)
(* The governance monitor of open broker positions: the Celery loops that  *)
(* evaluate positions and write governance_runs rows, the API handlers     *)
(* that approve and reject them, and the Celery tasks that execute an      *)
(* approved row against the broker.                                        *)
(*                                                                         *)
(*   backend/app/tasks/governance_task.py        the loops, the execution  *)
(*   backend/app/services/governance/registry.py the pipeline of one run   *)
(*   backend/app/api/routes/governance.py        approve, reject, config   *)
(*                                                                         *)
(* Every database commit is a step: the code takes no row lock, so what a  *)
(* process read may have changed when it writes.  A process is an idle     *)
(* record or a record that holds what it has read so far.                  *)
(***************************************************************************)
EXTENDS Naturals, FiniteSets

CONSTANTS
    Tickets,        \* broker positions
    MaxRuns,        \* bound: governance_runs rows ever created
    BeatLoops,      \* executions of run_governance_loop (take the Redis lock)
    ForcedLoops,    \* executions of force_governance_loop (do not)
    Handlers,       \* API requests in flight (approve, reject)
    Workers,        \* executions of approve_and_execute_governance
    Decisions,      \* actions the governance trader may decide
    Faults,         \* the failures this instance allows
    MaxApprovals,   \* bound: human approvals
    MaxCrashes      \* bound: processes killed

Runs  == 1..MaxRuns
Loops == BeatLoops \cup ForcedLoops

Actions == {"HOLD", "ADJUST_SL", "ADJUST_TP", "ADJUST_SL_TP", "CLOSE"}

\* "redis_down":    the lock cannot be reached, and the loop proceeds
\* "lock_expiry":   the lock's 240 s pass while its loop still evaluates
\* "lost_dispatch": the task is not enqueued after the approval is committed
\* "failed_commit": a commit fails, and the code swallows the exception
\* "ambiguous":     the broker acts and the client reports a failure
\* "misread":       a refusal says "not found" of something else
\* "cut_off":       an execution task ends early and its message is acknowledged
\* "loop_killed":   a loop ends where it stands
\* "worker_lost":   an execution task dies and its message is redelivered
FaultKinds ==
    {"redis_down", "lock_expiry", "lost_dispatch", "failed_commit",
     "ambiguous", "misread", "cut_off", "loop_killed", "worker_lost"}

ASSUME ConstantsAssumption ==
    /\ MaxRuns \in Nat /\ MaxApprovals \in Nat /\ MaxCrashes \in Nat
    /\ Decisions \subseteq Actions
    /\ Faults \subseteq FaultKinds
    /\ BeatLoops \cap ForcedLoops = {}
    /\ IsFiniteSet(Loops) /\ IsFiniteSet(Handlers) /\ IsFiniteSet(Workers)

None == "none"      \* SQL NULL, Python None
ASSUME NoneAssumption == None \notin Tickets

VARIABLES
    rows,           \* the governance_runs table
    autoApprove,    \* the "governance" connector's settings.auto_approve
    lock,           \* Redis key governance_loop_lock
    loop,           \* loop executions
    api,            \* API handlers
    queue,          \* execution messages not yet taken, by run
    worker,         \* execution tasks
    pos,            \* the broker's positions
    acts,           \* history: broker calls that took effect, by run
    approvers,      \* history: who has approved each run
    misread,        \* history: runs whose broker call was answered "not found"
                    \* of something else than the position
    dropped,        \* history: runs of which a dispatch or an execution ended
                    \* without a trace since they were last approved
    approvals,      \* human approvals so far (bounded)
    crashes         \* processes killed so far (bounded)

bounds == <<approvals, crashes>>
history == <<misread, dropped>>
vars == <<rows, autoApprove, lock, loop, api, queue, worker, pos,
          acts, approvers, bounds, history>>

-----------------------------------------------------------------------------
(* State                                                                   *)

Absent == "absent"
ActiveStatus == {"pending", "running"}

Row == [ticket: Tickets \cup {None},
        status: ActiveStatus \cup {"completed", "failed", Absent},
        recent: BOOLEAN,        \* created less than three minutes ago
        cooling: BOOLEAN,       \* created within its timeframe's cooldown
        auto: BOOLEAN,          \* ~ requires_approval
        approval: {"pending", "approved", "rejected"},
        action: Actions \cup {None},
        executed: BOOLEAN,
        error: {None, "position already closed", "failed"}]

NoRow == [ticket |-> None, status |-> Absent, recent |-> FALSE,
          cooling |-> FALSE, auto |-> FALSE, approval |-> "pending",
          action |-> None, executed |-> FALSE, error |-> None]

NewRow(t, auto) ==
    [NoRow EXCEPT !.ticket = t, !.status = "pending", !.recent = TRUE,
                  !.cooling = TRUE, !.auto = auto]

\* A row after an UPDATE of some of its columns.
WithStatus(row, s)   == [row EXCEPT !.status = s]
Decided(row, a)      == [row EXCEPT !.status = "completed", !.action = a]
WithApproval(row, v) == [row EXCEPT !.approval = v]
\* Mutant: executed is set whatever the outcome is.
SettledAlways(row, o) == [row EXCEPT !.executed = TRUE]
Settled(row, o) ==
    CASE o = "executed"  -> [row EXCEPT !.executed = TRUE]
      [] o = "not found" -> [row EXCEPT !.executed = TRUE,
                                        !.error = "position already closed"]
      [] o = "failed"    -> [row EXCEPT !.error = "failed"]

LoopState ==
    [pc: {"idle", "next", "mark", "create", "created", "running", "decided",
          "dispatch"},
     todo: SUBSET Tickets, ticket: Tickets \cup {None}, stale: SUBSET Runs,
     run: Runs \cup {0}, auto: BOOLEAN, action: Actions \cup {None}]
ApiState ==
    [pc: {"idle", "approve", "dispatch", "reject"}, run: Runs \cup {0},
     writes: BOOLEAN]       \* the ORM will write approval_status
WorkerState ==
    [pc: {"idle", "hold", "broker", "commit"}, run: Runs \cup {0},
     outcome: {None, "executed", "not found", "failed"}]

IdleLoop == [pc |-> "idle", todo |-> {}, ticket |-> None, stale |-> {},
             run |-> 0, auto |-> FALSE, action |-> None]
IdleApi    == [pc |-> "idle", run |-> 0, writes |-> FALSE]
IdleWorker == [pc |-> "idle", run |-> 0, outcome |-> None]

\* The locals of a loop: between two positions, with a position in hand,
\* with the run it has created, with what the pipeline has decided.
Between(todo) == [IdleLoop EXCEPT !.pc = "next", !.todo = todo]
Picked(todo, t, stale) ==
    [IdleLoop EXCEPT !.pc = "mark", !.todo = todo, !.ticket = t, !.stale = stale]
Goto(x, p)          == [x EXCEPT !.pc = p]
Created(x, r, auto) == [x EXCEPT !.pc = "created", !.run = r, !.auto = auto]
Told(x, a)          == [x EXCEPT !.pc = "decided", !.action = a]

\* A level of a position: as it was, as a governance run set it, or absent.
Level == {"old", "new", None}
Position == [open: BOOLEAN, sl: Level, tp: Level]

TypeOK ==
    /\ rows \in [Runs -> Row]
    /\ autoApprove \in BOOLEAN
    /\ lock \in {"free", "held"}
    /\ loop \in [Loops -> LoopState]
    /\ api \in [Handlers -> ApiState]
    /\ queue \in [Runs -> Nat]
    /\ worker \in [Workers -> WorkerState]
    /\ pos \in [Tickets -> Position]
    /\ acts \in [Runs -> Nat]
    /\ approvers \in [Runs -> SUBSET {"human", "auto"}]
    /\ misread \subseteq Runs /\ dropped \subseteq Runs
    /\ approvals \in Nat /\ crashes \in Nat

Init ==
    /\ rows = [r \in Runs |-> NoRow]
    /\ autoApprove \in BOOLEAN
    /\ lock = "free"
    /\ loop = [l \in Loops |-> IdleLoop]
    /\ api = [h \in Handlers |-> IdleApi]
    /\ queue = [r \in Runs |-> 0]
    /\ worker = [w \in Workers |-> IdleWorker]
    /\ pos = [t \in Tickets |-> [open |-> TRUE, sl |-> "old", tp |-> "old"]]
    /\ acts = [r \in Runs |-> 0]
    /\ approvers = [r \in Runs |-> {}]
    /\ misread = {} /\ dropped = {}
    /\ approvals = 0 /\ crashes = 0

RunsOf(t)    == {r \in Runs : rows[r].ticket = t}
ActiveRuns(t) == {r \in RunsOf(t) : rows[r].status \in ActiveStatus}
FreshRuns(t) == {r \in ActiveRuns(t) : rows[r].recent}
\* Mutant: only runs that never started count as stale.
StaleRunsNeverStarted(t) ==
    {r \in ActiveRuns(t) \ FreshRuns(t) : rows[r].status = "pending"}

StaleRuns(t) == ActiveRuns(t) \ FreshRuns(t)

OpenTickets == {t \in Tickets : pos[t].open}

-----------------------------------------------------------------------------
(* The governance loop.  One loop evaluates its positions one after the    *)
(* other; the forced loop is the same code without lock and cooldown.      *)

\* Loop l with _evaluate_position returned: its locals are gone.
NextPosition(l) ==
    [loop EXCEPT ![l] = Between(loop[l].todo)]

\* Mutant: SET without NX.
BeatStartUnlocked(l) ==
    /\ l \in BeatLoops /\ loop[l].pc = "idle"
    /\ lock' = "held"
    /\ loop' = [loop EXCEPT ![l] = Between(OpenTickets)]
    /\ UNCHANGED <<rows, autoApprove, api, queue, worker, pos, acts, approvers, bounds, history>>

\* run_governance_loop with the lock acquired, then get_positions.
BeatStart(l) ==
    /\ l \in BeatLoops /\ loop[l].pc = "idle"
    /\ lock = "free"
    /\ lock' = "held"
    /\ loop' = [loop EXCEPT ![l] = Between(OpenTickets)]
    /\ UNCHANGED <<rows, autoApprove, api, queue, worker, pos, acts, approvers, bounds, history>>

\* The same, but nothing is evaluated: trading is disabled, no account can be
\* resolved, or get_positions raises or is degraded.  (Without the lock such
\* an execution changes nothing.)
BeatFindsNothing(l) ==
    /\ l \in BeatLoops /\ loop[l].pc = "idle"
    /\ lock = "free"
    /\ lock' = "held"
    /\ UNCHANGED <<rows, autoApprove, loop, api, queue, worker, pos, acts, approvers, bounds, history>>

\* _acquire_governance_lock returns True when Redis raises.
BeatStartWithoutRedis(l) ==
    /\ "redis_down" \in Faults
    /\ l \in BeatLoops /\ loop[l].pc = "idle"
    /\ loop' = [loop EXCEPT ![l] = Between(OpenTickets)]
    /\ UNCHANGED <<rows, autoApprove, lock, api, queue, worker, pos, acts, approvers, bounds, history>>

ForcedStart(l) ==
    /\ l \in ForcedLoops /\ loop[l].pc = "idle"
    /\ loop' = [loop EXCEPT ![l] = Between(OpenTickets)]
    /\ UNCHANGED <<rows, autoApprove, lock, api, queue, worker, pos, acts, approvers, bounds, history>>

\* A fresh pending or running run of the ticket: skip the position.
SkipFresh(l, t) ==
    /\ loop[l].pc = "next" /\ t \in loop[l].todo
    /\ FreshRuns(t) # {}
    /\ loop' = [loop EXCEPT ![l] = Between(loop[l].todo \ {t})]
    /\ UNCHANGED <<rows, autoApprove, lock, api, queue, worker, pos, acts, approvers, bounds, history>>

\* No fresh run: read the stale ones.
PickPosition(l, t) ==
    /\ loop[l].pc = "next" /\ t \in loop[l].todo
    /\ FreshRuns(t) = {}
    /\ loop' = [loop EXCEPT ![l] = Picked(loop[l].todo \ {t}, t, StaleRuns(t))]
    /\ UNCHANGED <<rows, autoApprove, lock, api, queue, worker, pos, acts, approvers, bounds, history>>

\* Commit the stale runs read before as failed, then check the
\* cooldown of the last completed one.
MarkStale(l) ==
    /\ loop[l].pc = "mark"
    /\ rows' = [r \in Runs |-> IF r \in loop[l].stale
                               THEN WithStatus(rows[r], "failed")
                               ELSE rows[r]]
    /\ LET done    == {r \in RunsOf(loop[l].ticket) \ loop[l].stale :
                          rows[r].status = "completed"}
           cooling == \E r \in done : rows[r].cooling /\ \A q \in done : q <= r
       IN  loop' = IF cooling /\ l \in BeatLoops
                   THEN NextPosition(l)
                   ELSE [loop EXCEPT ![l] = Goto(loop[l], "create")]
    /\ UNCHANGED <<autoApprove, lock, api, queue, worker, pos, acts, approvers, bounds, history>>

\* That commit fails, unseen: the session is left unusable, and the insert
\* that follows fails with it.
MarkFails(l) ==
    /\ "failed_commit" \in Faults
    /\ loop[l].pc = "mark" /\ loop[l].stale # {}
    /\ loop' = NextPosition(l)
    /\ UNCHANGED <<rows, autoApprove, lock, api, queue, worker, pos, acts, approvers, bounds, history>>

\* Read auto_approve and commit a new row.
CreateRun(l, r) ==
    /\ loop[l].pc = "create"
    /\ rows[r].status = Absent
    /\ \A q \in Runs : q < r => rows[q].status # Absent
    /\ rows' = [rows EXCEPT ![r] = NewRow(loop[l].ticket, autoApprove)]
    /\ loop' = [loop EXCEPT ![l] = Created(loop[l], r, autoApprove)]
    /\ UNCHANGED <<autoApprove, lock, api, queue, worker, pos, acts, approvers, bounds, history>>

\* The insert fails: roll back, leave the position (here also at the bound).
CreateFails(l) ==
    /\ loop[l].pc = "create"
    /\ "failed_commit" \in Faults \/ \A r \in Runs : rows[r].status # Absent
    /\ loop' = NextPosition(l)
    /\ UNCHANGED <<rows, autoApprove, lock, api, queue, worker, pos, acts, approvers, bounds, history>>

\* GovernanceRegistry.execute marks the run running, whatever its status is.
StartPipeline(l) ==
    /\ loop[l].pc = "created"
    /\ rows' = [rows EXCEPT ![loop[l].run] = WithStatus(@, "running")]
    /\ loop' = [loop EXCEPT ![l] = Goto(loop[l], "running")]
    /\ UNCHANGED <<autoApprove, lock, api, queue, worker, pos, acts, approvers, bounds, history>>

\* The trader has decided a: commit the decision.
PersistDecision(l, a) ==
    /\ loop[l].pc = "running" /\ a \in Decisions
    /\ rows' = [rows EXCEPT ![loop[l].run] = Decided(@, a)]
    /\ loop' = [loop EXCEPT ![l] = Told(loop[l], a)]
    /\ UNCHANGED <<autoApprove, lock, api, queue, worker, pos, acts, approvers, bounds, history>>

\* The commit of the decision fails; execute still returns the decision.
PersistFails(l, a) ==
    /\ "failed_commit" \in Faults
    /\ loop[l].pc = "running" /\ a \in Decisions
    /\ loop' = [loop EXCEPT ![l] = Told(loop[l], a)]
    /\ UNCHANGED <<rows, autoApprove, lock, api, queue, worker, pos, acts, approvers, bounds, history>>

\* The pipeline raises: the run fails and the loop is told HOLD.
PipelineFails(l) ==
    /\ loop[l].pc = "running"
    /\ rows' = [rows EXCEPT ![loop[l].run] = WithStatus(@, "failed")]
    /\ loop' = [loop EXCEPT ![l] = Told(loop[l], "HOLD")]
    /\ UNCHANGED <<autoApprove, lock, api, queue, worker, pos, acts, approvers, bounds, history>>

\* The commit of "running" or of "failed" fails too: the row stays as it was.
PipelineFailsUnsaved(l) ==
    /\ "failed_commit" \in Faults
    /\ loop[l].pc \in {"created", "running"}
    /\ loop' = [loop EXCEPT ![l] = Told(loop[l], "HOLD")]
    /\ UNCHANGED <<rows, autoApprove, lock, api, queue, worker, pos, acts, approvers, bounds, history>>

\* Mutant: auto_approve is read again after the pipeline.
AutoApproveRereads(l) ==
    /\ loop[l].pc = "decided"
    /\ autoApprove /\ loop[l].action # "HOLD"
    /\ rows' = [rows EXCEPT ![loop[l].run] = WithApproval(@, "approved")]
    /\ approvers' = [approvers EXCEPT ![loop[l].run] = @ \cup {"auto"}]
    /\ loop' = [loop EXCEPT ![l] = Goto(loop[l], "dispatch")]
    /\ dropped' = dropped \ {loop[l].run}
    /\ UNCHANGED <<autoApprove, lock, api, queue, worker, pos, acts, bounds, misread>>

\* auto_approve as it was read before the pipeline: approve, whatever the
\* approval status is by now.
AutoApprove(l) ==
    /\ loop[l].pc = "decided"
    /\ loop[l].auto /\ loop[l].action # "HOLD"
    /\ rows' = [rows EXCEPT ![loop[l].run] = WithApproval(@, "approved")]
    /\ approvers' = [approvers EXCEPT ![loop[l].run] = @ \cup {"auto"}]
    /\ loop' = [loop EXCEPT ![l] = Goto(loop[l], "dispatch")]
    /\ dropped' = dropped \ {loop[l].run}
    /\ UNCHANGED <<autoApprove, lock, api, queue, worker, pos, acts, bounds, misread>>

\* Nothing to approve here, or the commit of the approval fails.
LeaveToHuman(l) ==
    /\ loop[l].pc = "decided"
    /\ ~(loop[l].auto /\ loop[l].action # "HOLD") \/ "failed_commit" \in Faults
    /\ loop' = NextPosition(l)
    /\ UNCHANGED <<rows, autoApprove, lock, api, queue, worker, pos, acts, approvers, bounds, history>>

AutoDispatch(l) ==
    /\ loop[l].pc = "dispatch"
    /\ queue' = [queue EXCEPT ![loop[l].run] = @ + 1]
    /\ loop' = NextPosition(l)
    /\ UNCHANGED <<rows, autoApprove, lock, api, worker, pos, acts, approvers, bounds, history>>

\* delay raises, or the process dies before it: logged, never retried.
AutoDispatchFails(l) ==
    /\ "lost_dispatch" \in Faults
    /\ loop[l].pc = "dispatch"
    /\ loop' = NextPosition(l)
    /\ dropped' = dropped \cup {loop[l].run}
    /\ UNCHANGED <<rows, autoApprove, lock, api, queue, worker, pos, acts, approvers, bounds, misread>>

\* Every position is done.  The lock stays: only its expiry releases it.
FinishLoop(l) ==
    /\ loop[l].pc = "next" /\ loop[l].todo = {}
    /\ loop' = [loop EXCEPT ![l] = IdleLoop]
    /\ UNCHANGED <<rows, autoApprove, lock, api, queue, worker, pos, acts, approvers, bounds, history>>

\* The hard time limit or a lost worker ends the loop where it stands.
KillLoop(l) ==
    /\ "loop_killed" \in Faults /\ crashes < MaxCrashes
    /\ loop[l].pc # "idle"
    /\ crashes' = crashes + 1
    /\ loop' = [loop EXCEPT ![l] = IdleLoop]
    /\ dropped' = IF loop[l].pc = "dispatch" THEN dropped \cup {loop[l].run}
                                            ELSE dropped
    /\ UNCHANGED <<rows, autoApprove, lock, api, queue, worker, pos, acts, approvers, approvals, misread>>

LoopStep(l) ==
    \/ BeatStart(l) \/ BeatFindsNothing(l)
    \/ BeatStartWithoutRedis(l) \/ ForcedStart(l)
    \/ \E t \in Tickets : SkipFresh(l, t) \/ PickPosition(l, t)
    \/ MarkStale(l) \/ MarkFails(l)
    \/ (\E r \in Runs : CreateRun(l, r)) \/ CreateFails(l)
    \/ StartPipeline(l)
    \/ \E a \in Decisions : PersistDecision(l, a) \/ PersistFails(l, a)
    \/ PipelineFails(l) \/ PipelineFailsUnsaved(l)
    \/ AutoApprove(l) \/ LeaveToHuman(l)
    \/ AutoDispatch(l) \/ AutoDispatchFails(l)
    \/ FinishLoop(l)

-----------------------------------------------------------------------------
(* The API.                                                                *)

\* Mutant: a run may be approved while it is still evaluated.
CheckApprovalEarly(h, r) ==
    /\ api[h].pc = "idle" /\ approvals < MaxApprovals
    /\ rows[r].status # Absent
    /\ rows[r].approval \in {"pending", "rejected"}
    /\ ~rows[r].executed
    /\ approvals' = approvals + 1
    /\ api' = [api EXCEPT ![h] = [pc |-> "approve", run |-> r, writes |-> TRUE]]
    /\ UNCHANGED <<rows, autoApprove, lock, loop, queue, worker, pos, acts, approvers, crashes, history>>

\* approve_recommendation up to its commit.
CheckApproval(h, r) ==
    /\ api[h].pc = "idle" /\ approvals < MaxApprovals
    /\ rows[r].status = "completed"
    /\ rows[r].approval \in {"pending", "rejected"}
    /\ ~rows[r].executed
    /\ approvals' = approvals + 1
    /\ api' = [api EXCEPT ![h] = [pc |-> "approve", run |-> r, writes |-> TRUE]]
    /\ UNCHANGED <<rows, autoApprove, lock, loop, queue, worker, pos, acts, approvers, crashes, history>>

CommitApproval(h) ==
    /\ api[h].pc = "approve"
    /\ rows' = [rows EXCEPT ![api[h].run] = WithApproval(@, "approved")]
    /\ approvers' = [approvers EXCEPT ![api[h].run] = @ \cup {"human"}]
    /\ api' = [api EXCEPT ![h] = [pc |-> "dispatch", run |-> api[h].run,
                                  writes |-> FALSE]]
    /\ dropped' = dropped \ {api[h].run}
    /\ UNCHANGED <<autoApprove, lock, loop, queue, worker, pos, acts, bounds, misread>>

\* Mutant: delay is retried although the first message was published.
DispatchApprovedTwice(h) ==
    /\ api[h].pc = "dispatch"
    /\ queue' = [queue EXCEPT ![api[h].run] = @ + 2]
    /\ api' = [api EXCEPT ![h] = IdleApi]
    /\ UNCHANGED <<rows, autoApprove, lock, loop, worker, pos, acts, approvers, bounds, history>>

DispatchApproved(h) ==
    /\ api[h].pc = "dispatch"
    /\ queue' = [queue EXCEPT ![api[h].run] = @ + 1]
    /\ api' = [api EXCEPT ![h] = IdleApi]
    /\ UNCHANGED <<rows, autoApprove, lock, loop, worker, pos, acts, approvers, bounds, history>>

\* delay raises and the handler logs it, or the process dies before it.
DispatchFails(h) ==
    /\ "lost_dispatch" \in Faults
    /\ api[h].pc = "dispatch"
    /\ api' = [api EXCEPT ![h] = IdleApi]
    /\ dropped' = dropped \cup {api[h].run}
    /\ UNCHANGED <<rows, autoApprove, lock, loop, queue, worker, pos, acts, approvers, bounds, misread>>

\* reject_recommendation up to its commit: any status but executed approval.
CheckReject(h, r) ==
    /\ api[h].pc = "idle"
    /\ rows[r].status # Absent
    /\ ~(rows[r].approval = "approved" /\ rows[r].executed)
    /\ api' = [api EXCEPT ![h] = [pc |-> "reject", run |-> r,
                                  writes |-> rows[r].approval # "rejected"]]
    /\ UNCHANGED <<rows, autoApprove, lock, loop, queue, worker, pos, acts, approvers, bounds, history>>

\* Mutant: a rejection withdraws the decision.
CommitRejectWithdraws(h) ==
    /\ api[h].pc = "reject"
    /\ rows' = [rows EXCEPT ![api[h].run].approval = "rejected",
                            ![api[h].run].action = None]
    /\ api' = [api EXCEPT ![h] = IdleApi]
    /\ UNCHANGED <<autoApprove, lock, loop, queue, worker, pos, acts, approvers, bounds, history>>

\* The ORM writes approval_status only if it differs from the value read.
CommitReject(h) ==
    /\ api[h].pc = "reject"
    /\ rows' = IF api[h].writes
               THEN [rows EXCEPT ![api[h].run] = WithApproval(@, "rejected")]
               ELSE rows
    /\ api' = [api EXCEPT ![h] = IdleApi]
    /\ UNCHANGED <<autoApprove, lock, loop, queue, worker, pos, acts, approvers, bounds, history>>

\* The commit of an approval or of a rejection fails: HTTP 500.
CommitRefused(h) ==
    /\ "failed_commit" \in Faults
    /\ api[h].pc \in {"approve", "reject"}
    /\ api' = [api EXCEPT ![h] = IdleApi]
    /\ UNCHANGED <<rows, autoApprove, lock, loop, queue, worker, pos, acts, approvers, bounds, history>>

\* update_governance_config
UpdateConfig ==
    /\ autoApprove' = ~autoApprove
    /\ UNCHANGED <<rows, lock, loop, api, queue, worker, pos, acts, approvers, bounds, history>>

ApiStep(h) ==
    \/ \E r \in Runs : CheckApproval(h, r) \/ CheckReject(h, r)
    \/ CommitApproval(h) \/ DispatchApproved(h) \/ DispatchFails(h)
    \/ CommitReject(h) \/ CommitRefused(h)

-----------------------------------------------------------------------------
(* approve_and_execute_governance, one message at a time.  The message is  *)
(* acknowledged when the task ends (acks_late).                            *)

\* Already executed, or not approved (any more): nothing to do.
DropTask(w, r) ==
    /\ worker[w].pc = "idle" /\ queue[r] > 0
    /\ rows[r].executed \/ rows[r].approval # "approved"
    /\ queue' = [queue EXCEPT ![r] = @ - 1]
    /\ UNCHANGED <<rows, autoApprove, lock, loop, api, worker, pos, acts, approvers, bounds, history>>

TakeTask(w, r) ==
    /\ worker[w].pc = "idle" /\ queue[r] > 0
    /\ ~rows[r].executed /\ rows[r].approval = "approved"
    /\ queue' = [queue EXCEPT ![r] = @ - 1]
    /\ worker' = [worker EXCEPT ![w] =
                    [pc |-> IF rows[r].action \in {"HOLD", None}
                            THEN "hold" ELSE "broker",
                     run |-> r, outcome |-> None]]
    /\ UNCHANGED <<rows, autoApprove, lock, loop, api, pos, acts, approvers, bounds, history>>

\* HOLD, or no action at all: executed without a broker call.
CommitHold(w) ==
    /\ worker[w].pc = "hold"
    /\ rows' = [rows EXCEPT ![worker[w].run] = Settled(@, "executed")]
    /\ worker' = [worker EXCEPT ![w] = IdleWorker]
    /\ UNCHANGED <<autoApprove, lock, loop, api, queue, pos, acts, approvers, bounds, history>>

\* What the task reads from trace["position_context"] for the level it must
\* keep: no writer of the trace stores a position context in it.
TraceLevel == None

\* The position after close_position or modify_position; the task calls
\* neither for any other action.
Applied(p, action) ==
    CASE action = "CLOSE"        -> [p EXCEPT !.open = FALSE]
      [] action = "ADJUST_SL"    -> [p EXCEPT !.sl = "new", !.tp = TraceLevel]
      [] action = "ADJUST_TP"    -> [p EXCEPT !.sl = TraceLevel, !.tp = "new"]
      [] action = "ADJUST_SL_TP" -> [p EXCEPT !.sl = "new", !.tp = "new"]
      [] OTHER                   -> p

\* The broker acts on an open position.  When the client does not see it, it
\* tries the next spelling of the request: it reports a failure, or, after a
\* close, that the position is not found (or, misread, something else).
BrokerActs(w) ==
    LET r == worker[w].run
        t == rows[r].ticket
    IN  /\ worker[w].pc = "broker" /\ pos[t].open
        /\ pos' = [pos EXCEPT ![t] = Applied(@, rows[r].action)]
        /\ acts' = [acts EXCEPT ![r] = @ + 1]
        /\ \E o \in {"executed", "failed", "not found"} :
               /\ o # "executed" => "ambiguous" \in Faults
               /\ o = "not found" =>
                      rows[r].action = "CLOSE" \/ "misread" \in Faults
               /\ misread' = IF o = "not found" /\ pos'[t].open
                             THEN misread \cup {r} ELSE misread
               /\ worker' = [worker EXCEPT ![w] = [pc |-> "commit", run |-> r,
                                                  outcome |-> o]]
        /\ UNCHANGED <<rows, autoApprove, lock, loop, api, queue, approvers, bounds, dropped>>

\* The broker or its client refuses.  The task looks for "not found" in what
\* it is told, so a refusal that says so of an account or of a route passes
\* for a position that is gone.
BrokerRefuses(w) ==
    LET r == worker[w].run
        t == rows[r].ticket
    IN  /\ worker[w].pc = "broker"
        /\ \E o \in {"failed", "not found"} :
               /\ o = "not found" => ~pos[t].open \/ "misread" \in Faults
               /\ misread' = IF o = "not found" /\ pos[t].open
                             THEN misread \cup {r} ELSE misread
               /\ worker' = [worker EXCEPT ![w] = [pc |-> "commit", run |-> r,
                                                  outcome |-> o]]
        /\ UNCHANGED <<rows, autoApprove, lock, loop, api, queue, pos, acts, approvers, bounds, dropped>>

\* Commit the outcome; the approval status is not read again.
CommitOutcome(w) ==
    /\ worker[w].pc = "commit"
    /\ rows' = [rows EXCEPT ![worker[w].run] = Settled(@, worker[w].outcome)]
    /\ worker' = [worker EXCEPT ![w] = IdleWorker]
    /\ UNCHANGED <<autoApprove, lock, loop, api, queue, pos, acts, approvers, bounds, history>>

\* The final commit fails and is swallowed; the message is acknowledged.
CommitFails(w) ==
    /\ "failed_commit" \in Faults
    /\ worker[w].pc \in {"hold", "commit"}
    /\ worker' = [worker EXCEPT ![w] = IdleWorker]
    /\ dropped' = dropped \cup {worker[w].run}
    /\ UNCHANGED <<rows, autoApprove, lock, loop, api, queue, pos, acts, approvers, bounds, misread>>

\* The soft time limit interrupts asyncio.run (the coroutine is cancelled), or
\* an exception leaves it: logged by the task, the message is acknowledged.
BreakOff(w) ==
    /\ "cut_off" \in Faults
    /\ worker[w].pc # "idle"
    /\ worker' = [worker EXCEPT ![w] = IdleWorker]
    /\ dropped' = dropped \cup {worker[w].run}
    /\ UNCHANGED <<rows, autoApprove, lock, loop, api, queue, pos, acts, approvers, bounds, misread>>

\* Mutant: the message is acknowledged early, so it is lost with its worker.
LoseWorkerAndMessage(w) ==
    /\ "worker_lost" \in Faults /\ crashes < MaxCrashes
    /\ worker[w].pc # "idle"
    /\ crashes' = crashes + 1
    /\ worker' = [worker EXCEPT ![w] = IdleWorker]
    /\ UNCHANGED <<rows, autoApprove, lock, loop, api, queue, pos, acts, approvers, approvals, history>>

\* The worker process is lost and RabbitMQ delivers the message again.
LoseWorker(w) ==
    /\ "worker_lost" \in Faults /\ crashes < MaxCrashes
    /\ worker[w].pc # "idle"
    /\ crashes' = crashes + 1
    /\ queue' = [queue EXCEPT ![worker[w].run] = @ + 1]
    /\ worker' = [worker EXCEPT ![w] = IdleWorker]
    /\ UNCHANGED <<rows, autoApprove, lock, loop, api, pos, acts, approvers, approvals, history>>

WorkerStep(w) ==
    \/ \E r \in Runs : DropTask(w, r) \/ TakeTask(w, r)
    \/ CommitHold(w) \/ BrokerActs(w) \/ BrokerRefuses(w)
    \/ CommitOutcome(w) \/ CommitFails(w) \/ BreakOff(w)

-----------------------------------------------------------------------------
(* Time and the market.                                                    *)

\* Mutant: the TTL is shorter than an evaluation.
ExpireLockEarly ==
    /\ lock = "held"
    /\ lock' = "free"
    /\ UNCHANGED <<rows, autoApprove, loop, api, queue, worker, pos, acts, approvers, bounds, history>>

\* The lock's TTL passes.  It equals the loop's soft time limit, so a loop
\* that holds the lock is over, unless "lock_expiry" is allowed.
ExpireLock ==
    /\ lock = "held"
    /\ "lock_expiry" \in Faults \/ \A l \in BeatLoops : loop[l].pc = "idle"
    /\ lock' = "free"
    /\ UNCHANGED <<rows, autoApprove, loop, api, queue, worker, pos, acts, approvers, bounds, history>>

\* Three minutes since an unfinished run was created.
PassStaleThreshold(r) ==
    /\ rows[r].status \in ActiveStatus /\ rows[r].recent
    /\ rows' = [rows EXCEPT ![r].recent = FALSE]
    /\ UNCHANGED <<autoApprove, lock, loop, api, queue, worker, pos, acts, approvers, bounds, history>>

\* The timeframe's cooldown since a completed run was created.  Only loops
\* that are not forced look at it.
PassCooldown(r) ==
    /\ BeatLoops # {}
    /\ rows[r].status = "completed" /\ rows[r].cooling
    /\ rows' = [rows EXCEPT ![r].cooling = FALSE]
    /\ UNCHANGED <<autoApprove, lock, loop, api, queue, worker, pos, acts, approvers, bounds, history>>

\* The position is closed by its stop, its target or its owner.
ClosePosition(t) ==
    /\ pos[t].open
    /\ pos' = [pos EXCEPT ![t].open = FALSE]
    /\ UNCHANGED <<rows, autoApprove, lock, loop, api, queue, worker, acts, approvers, bounds, history>>

Time == ExpireLock \/ \E r \in Runs : PassStaleThreshold(r) \/ PassCooldown(r)

Next ==
    \/ \E l \in Loops : LoopStep(l) \/ KillLoop(l)
    \/ \E h \in Handlers : ApiStep(h)
    \/ UpdateConfig
    \/ \E w \in Workers : WorkerStep(w) \/ LoseWorker(w)
    \/ Time
    \/ \E t \in Tickets : ClosePosition(t)

Spec == Init /\ [][Next]_vars

\* Handlers and workers that run are not starved; Beat keeps firing (which
\* does not mean that the positions can be read), time passes and a started
\* loop goes on.  Humans, crashes, forced loops and the market are under no
\* obligation.
Fairness ==
    /\ \A h \in Handlers : WF_vars(CommitApproval(h) \/ DispatchApproved(h))
    /\ \A w \in Workers : WF_vars(WorkerStep(w))
    /\ \A l \in BeatLoops : WF_vars(LoopStep(l))
    /\ \A l \in ForcedLoops : WF_vars(loop[l].pc # "idle" /\ LoopStep(l))
    /\ WF_vars(ExpireLock)
    /\ \A r \in Runs : WF_vars(PassStaleThreshold(r)) /\ WF_vars(PassCooldown(r))

FairSpec == Spec /\ Fairness

-----------------------------------------------------------------------------
(* What Governance implements: the permits to call the broker.             *)

CountAt(procs, states, places, r) ==
    Cardinality({p \in procs : states[p].run = r /\ states[p].pc \in places})

OriginOf(row) == IF row.status = Absent THEN "none"
                 ELSE IF row.auto THEN "unattended" ELSE "supervised"

\* A permit is a dispatch about to be made, a message, or a task that has
\* passed its checks and not called the broker.
OpenPermits ==
    [r \in Runs |-> queue[r] + CountAt(Loops, loop, {"dispatch"}, r)
                             + CountAt(Handlers, api, {"dispatch"}, r)
                             + CountAt(Workers, worker, {"hold", "broker"}, r)]

OpenCalls == [r \in Runs |-> CountAt(Workers, worker, {"commit"}, r)]

Origins      == [r \in Runs |-> OriginOf(rows[r])]
RowDecisions == [r \in Runs |-> rows[r].action]
ExecutedRows == [r \in Runs |-> rows[r].executed]

Permit == INSTANCE ExecutionPermits WITH
    origin    <- Origins,
    decision  <- RowDecisions,
    approvers <- approvers,
    permits   <- OpenPermits,
    unsettled <- OpenCalls,
    acts      <- acts,
    executed  <- ExecutedRows

-----------------------------------------------------------------------------
(* Properties                                                              *)

\* The broker is never touched on behalf of a run without an approval: a
\* human's, or the loop's own when the run was created with auto_approve on
\* (so a supervised run is never executed on the loop's approval alone).
ApprovalGate ==
    \A r \in Runs : acts[r] > 0 =>
        \/ "human" \in approvers[r]
        \/ rows[r].auto /\ "auto" \in approvers[r]

\* Whatever the interleaving, a broker call that took effect belongs to a run
\* whose row holds a decision that asks for one.
ActsAreDecided ==
    \A r \in Runs : acts[r] > 0 => rows[r].action \notin {"HOLD", None}

\* A decision never changes once it is written: what was approved is what the
\* execution task reads, also when the row is marked stale or started again.
DecisionIsFinal ==
    [][\A r \in Runs :
        rows[r].action # None => rows'[r].action = rows[r].action]_vars

\* While commits succeed, nothing is approved before its decision is written,
\* so an approval never silently turns into a HOLD.
ApprovedIsDecided ==
    "failed_commit" \notin Faults =>
        \A r \in Runs : rows[r].approval = "approved" => rows[r].action # None

\* A row marked executed is accounted for: the broker acted on its behalf, no
\* action was needed, its position is gone, or a refusal that says "not found"
\* of something else was taken for that: nothing else marks a run executed.
\* (execution_error does not tell: a slower task may overwrite it.)
ExecutedIsAccounted ==
    \A r \in Runs : rows[r].executed =>
        \/ acts[r] > 0
        \/ rows[r].action \in {"HOLD", None}
        \/ ~pos[rows[r].ticket].open
        \/ r \in misread

\* A run that decided CLOSE and is marked executed leaves no open position,
\* unless a refusal that says "not found" of something else was misread.
ExecutedCloseIsClosed ==
    \A r \in Runs : rows[r].executed /\ rows[r].action = "CLOSE" =>
        ~pos[rows[r].ticket].open \/ r \in misread

\* At most one fresh unfinished run per position: the Redis lock and the
\* freshness check together exclude parallel evaluations.
OneFreshRunPerTicket ==
    \A t \in Tickets : Cardinality(FreshRuns(t)) <= 1

\* The broker acts on a run at most once for every approval it was given and
\* every worker lost while executing: nothing else repeats an action.
NoPhantomAction ==
    \A r \in Runs :
        acts[r] <= approvals + crashes + Cardinality(approvers[r] \cap {"auto"})

\* Every broker call, whatever loops, handlers, tasks, lost dispatches, failed
\* commits and redelivered messages do, spends a permit that an approval of
\* that run gave, or that came back with a message whose task was lost.
ImplementsPermits == Permit!Spec

\* A run marked failed as "stale: killed before pipeline completed" was: no
\* loop is still working on it.
StaleRunsWereKilled ==
    [][\A l, k \in Loops : MarkStale(l) =>
        (loop[k].pc # "idle" => loop[k].run \notin loop[l].stale)]_vars

\* An approved run is eventually executed, gets an execution error, or is no
\* longer approved, also when its worker is lost on the way; unless its dispatch
\* or an execution of it ends without a trace.
ApprovedSettles ==
    \A r \in Runs : rows[r].approval = "approved" ~>
        \/ rows[r].executed
        \/ rows[r].error # None
        \/ rows[r].approval # "approved"
        \/ r \in dropped

\* While its position is open, an unfinished run does not stay unfinished, as
\* long as Beat's loop goes on reading the positions: its own loop ends it, or
\* a later one marks it failed once it is stale.
NoRunLingers ==
    ([]<><<\E l \in BeatLoops : BeatStart(l)>>_vars) =>
        \A r \in Runs :
            rows[r].status \in ActiveStatus ~>
                \/ rows[r].status \notin ActiveStatus
                \/ ~pos[rows[r].ticket].open
=============================================================================
