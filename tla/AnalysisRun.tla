---------------------------- MODULE AnalysisRun ----------------------------
(***************************************************************************)
(* The life of an analysis run: the API handler that creates and enqueues  *)
(* it, the Celery task that evaluates it, the handler that cancels it, and *)
(* the order its pipeline submits through OrderExecution.                  *)
(*                                                                         *)
(*   backend/app/api/routes/runs.py              create_run, cancel_run    *)
(*   backend/app/tasks/run_analysis_task.py      the task                  *)
(*   backend/app/services/agentscope/registry.py execute, the pipeline     *)
(*                                                                         *)
(* Statuses are written by ORM updates that no WHERE clause guards: every  *)
(* commit overwrites what another process has written since the row was    *)
(* read.  The agents' reasoning is abstracted to its outcome: no order, or *)
(* an order for some trade.                                                *)
(***************************************************************************)
EXTENDS OrderExecution

CONSTANTS
    Workers,        \* Celery workers
    Handlers,       \* create requests; one may run a pipeline itself
    Cancels,        \* cancel requests
    MaxCrashes      \* bound: processes killed

ASSUME RunAssumption ==
    /\ Callers = Workers \cup Handlers
    /\ Workers \cap Handlers = {}
    /\ MaxCrashes \in Nat

VARIABLES
    run,            \* analysis_runs: status, task id, what the decision tells
    pipe,           \* create handlers and workers
    cancel,         \* cancel handlers
    msgs,           \* messages not yet taken, by run
    revoked,        \* runs whose Celery task has been revoked
    crashes,        \* processes killed so far (bounded)
    starts,         \* history: pipelines started, by run
    unsaved         \* history: runs of which an evaluation ended without
                    \* saving its end

runVars == <<run, pipe, cancel, msgs, revoked, crashes, starts, unsaved>>
vars == <<orderVars, runVars>>

Active   == {"pending", "queued", "running"}
Terminal == {"completed", "failed", "cancelled"}
Status   == Active \cup Terminal \cup {"absent"}

\* What run.decision tells of the execution.
Told == {None, "skipped", "executed", "failed"}

Run  == [status: Status, task: BOOLEAN, told: Told]
Pipe == [pc: {"idle", "enqueue", "mark", "start", "analyse", "order",
              "ordering", "final", "finish"},
         run: Runs \cup {None}, writes: BOOLEAN, told: Told]
Cancel == [pc: {"idle", "commit"}, run: Runs \cup {None}, writes: BOOLEAN]

\* writes: the status read differs from the one to write, so the ORM will
\* write it.
IdlePipe   == [pc |-> "idle", run |-> None, writes |-> FALSE, told |-> None]
IdleCancel == [pc |-> "idle", run |-> None, writes |-> FALSE]

TypeOK ==
    /\ OrderTypeOK
    /\ run \in [Runs -> Run]
    /\ pipe \in [Callers -> Pipe]
    /\ cancel \in [Cancels -> Cancel]
    /\ msgs \in [Runs -> Nat]
    /\ revoked \subseteq Runs
    /\ crashes \in Nat
    /\ starts \in [Runs -> Nat]
    /\ unsaved \subseteq Runs

Init ==
    /\ OrderInit
    /\ run = [r \in Runs |-> [status |-> "absent", task |-> FALSE, told |-> None]]
    /\ pipe = [c \in Callers |-> IdlePipe]
    /\ cancel = [k \in Cancels |-> IdleCancel]
    /\ msgs = [r \in Runs |-> 0]
    /\ revoked = {}
    /\ crashes = 0
    /\ starts = [r \in Runs |-> 0]
    /\ unsaved = {}

\* Process c goes on to p, or ends.
Goes(c, p) == pipe' = [pipe EXCEPT ![c].pc = p]
Ends(c)    == pipe' = [pipe EXCEPT ![c] = IdlePipe]

\* The status of c's run is committed as s.
Writes(c, s) == run' = [run EXCEPT ![pipe[c].run].status = s]

StatusOf(c) == run[pipe[c].run].status

-----------------------------------------------------------------------------
(* create_run.                                                             *)

CreateRun(h, r) ==
    /\ pipe[h].pc = "idle" /\ h \in Handlers
    /\ run[r].status = "absent"
    /\ run' = [run EXCEPT ![r].status = "pending"]
    /\ pipe' = [pipe EXCEPT ![h] = [IdlePipe EXCEPT !.pc = "enqueue", !.run = r,
                                                    !.writes = TRUE]]
    /\ UNCHANGED <<orderVars, cancel, msgs, revoked, crashes, starts, unsaved>>

Enqueue(h) ==
    /\ pipe[h].pc = "enqueue"
    /\ msgs' = [msgs EXCEPT ![pipe[h].run] = @ + 1]
    /\ pipe' = [pipe EXCEPT ![h].pc = "mark", ![h].writes = FALSE]
    /\ UNCHANGED <<orderVars, run, cancel, revoked, crashes, starts, unsaved>>

\* apply_async raises, whether the message is out or not: run it here.
EnqueueFails(h) ==
    /\ "enqueue_fails" \in Faults
    /\ pipe[h].pc = "enqueue"
    /\ \E n \in {0, 1} : msgs' = [msgs EXCEPT ![pipe[h].run] = @ + n]
    /\ Goes(h, "start")
    /\ UNCHANGED <<orderVars, run, cancel, revoked, crashes, starts, unsaved>>

\* async_execution=false
RunInRequest(h) ==
    /\ pipe[h].pc = "enqueue"
    /\ Goes(h, "start")
    /\ UNCHANGED <<orderVars, run, cancel, msgs, revoked, crashes, starts, unsaved>>

\* Commit "queued" and the task id over whatever the worker has committed.
MarkQueued(h) ==
    /\ pipe[h].pc = "mark"
    /\ run' = [run EXCEPT ![pipe[h].run].status = "queued",
                          ![pipe[h].run].task = TRUE]
    /\ Ends(h)
    /\ UNCHANGED <<orderVars, cancel, msgs, revoked, crashes, starts, unsaved>>

\* That commit fails: run it here, although the message is out.
MarkFails(h) ==
    /\ "failed_commit" \in Faults
    /\ pipe[h].pc = "mark"
    /\ pipe' = [pipe EXCEPT ![h].pc = "start", ![h].writes = StatusOf(h) # "running"]
    /\ UNCHANGED <<orderVars, run, cancel, msgs, revoked, crashes, starts, unsaved>>

-----------------------------------------------------------------------------
(* cancel_run.                                                             *)

\* Read the run; revoke its task if it is active and its task id is known.
ReadAndRevoke(k, r) ==
    /\ cancel[k].pc = "idle" /\ run[r].status # "absent"
    /\ revoked' = IF run[r].status \in Active /\ run[r].task
                  THEN revoked \cup {r} ELSE revoked
    /\ cancel' = [cancel EXCEPT ![k] = [pc |-> "commit", run |-> r,
                                        writes |-> run[r].status # "cancelled"]]
    /\ UNCHANGED <<orderVars, run, pipe, msgs, crashes, starts, unsaved>>

\* Whatever the status is by now.
CommitCancel(k) ==
    /\ cancel[k].pc = "commit"
    /\ run' = IF cancel[k].writes
              THEN [run EXCEPT ![cancel[k].run].status = "cancelled"] ELSE run
    /\ cancel' = [cancel EXCEPT ![k] = IdleCancel]
    /\ UNCHANGED <<orderVars, pipe, msgs, revoked, crashes, starts, unsaved>>

-----------------------------------------------------------------------------
(* The pipeline, in a worker or in a create handler.                       *)

\* The task runs whatever the status of its run is.
TakeTask(w, r) ==
    /\ w \in Workers /\ pipe[w].pc = "idle" /\ msgs[r] > 0
    /\ msgs' = [msgs EXCEPT ![r] = @ - 1]
    /\ pipe' = [pipe EXCEPT ![w] = [IdlePipe EXCEPT !.pc = "start", !.run = r,
                                    !.writes = run[r].status # "running"]]
    /\ UNCHANGED <<orderVars, run, cancel, revoked, crashes, starts, unsaved>>

\* Commit "running", unless the status read was "running" already.
StartPipeline(c) ==
    /\ pipe[c].pc = "start"
    /\ IF pipe[c].writes THEN Writes(c, "running") ELSE run' = run
    /\ starts' = [starts EXCEPT ![pipe[c].run] = @ + 1]
    /\ pipe' = [pipe EXCEPT ![c].pc = "analyse", ![c].writes = FALSE]
    /\ UNCHANGED <<orderVars, cancel, msgs, revoked, crashes, unsaved>>

\* _set_progress at each phase: a cancelled run is left alone from there on.
AbortCancelled(c) ==
    /\ pipe[c].pc \in {"analyse", "final"} /\ StatusOf(c) = "cancelled"
    /\ Ends(c)
    /\ UNCHANGED <<orderVars, run, cancel, msgs, revoked, crashes, starts, unsaved>>

\* The last _set_progress before the execution manager.
PassLastCheck(c) ==
    /\ pipe[c].pc = "analyse" /\ StatusOf(c) # "cancelled"
    /\ Goes(c, "order")
    /\ UNCHANGED <<orderVars, run, cancel, msgs, revoked, crashes, starts, unsaved>>

\* HOLD, a refusal of the risk manager or of the preflight, or simulation.
PlaceNoOrder(c) ==
    /\ pipe[c].pc = "order"
    /\ pipe' = [pipe EXCEPT ![c].pc = "final", ![c].told = "skipped"]
    /\ UNCHANGED <<orderVars, run, cancel, msgs, revoked, crashes, starts, unsaved>>

\* The preflight lets the order pass.
PlaceOrder(c, t) ==
    /\ pipe[c].pc = "order" /\ mode[pipe[c].run] # "simulation"
    /\ BeginOrder(c, pipe[c].run, t)
    /\ Goes(c, "ordering")
    /\ UNCHANGED <<run, cancel, msgs, revoked, crashes, starts, unsaved>>

BrokerStep(c) ==
    /\ OrderStep(c)
    /\ UNCHANGED runVars

\* Mutant: an exception of execute is swallowed.
OrderReturnsUnchecked(c) ==
    /\ pipe[c].pc = "ordering" /\ call[c].pc = "returned"
    /\ pipe' = [pipe EXCEPT ![c].pc = "final", ![c].told = "executed"]
    /\ EndCall(c)
    /\ UNCHANGED <<run, cancel, msgs, revoked, crashes, starts, unsaved>>

\* Mutant: an order that could not be recorded is placed again.
OrderReturnsRetries(c) ==
    /\ pipe[c].pc = "ordering" /\ call[c].pc = "returned"
    /\ pipe' = IF call[c].status = "raised"
               THEN [pipe EXCEPT ![c].pc = "order"]
               ELSE [pipe EXCEPT ![c].pc = "final", ![c].told = "executed"]
    /\ EndCall(c)
    /\ UNCHANGED <<run, cancel, msgs, revoked, crashes, starts, unsaved>>

\* The decision will tell the preflight's status, "executed", unless execute
\* raised; what execute returned is not looked at.
OrderReturns(c) ==
    /\ pipe[c].pc = "ordering" /\ call[c].pc = "returned"
    /\ pipe' = [pipe EXCEPT ![c].pc = "final",
                            ![c].told = IF call[c].status = "raised"
                                        THEN "failed" ELSE "executed"]
    /\ EndCall(c)
    /\ UNCHANGED <<run, cancel, msgs, revoked, crashes, starts, unsaved>>

\* _set_progress(100)
PassFinalCheck(c) ==
    /\ pipe[c].pc = "final" /\ StatusOf(c) # "cancelled"
    /\ Goes(c, "finish")
    /\ UNCHANGED <<orderVars, run, cancel, msgs, revoked, crashes, starts, unsaved>>

\* Commit status and decision, also over a cancellation since the last check.
FinishPipeline(c) ==
    /\ pipe[c].pc = "finish"
    /\ run' = [run EXCEPT ![pipe[c].run].status = "completed",
                          ![pipe[c].run].told = pipe[c].told]
    /\ Ends(c)
    /\ UNCHANGED <<orderVars, cancel, msgs, revoked, crashes, starts, unsaved>>

\* The commit of the run's end fails: _flush_pending_steps swallows it, the
\* failure handler raises.
FinishFails(c) ==
    /\ "failed_commit" \in Faults
    /\ pipe[c].pc \in {"start", "analyse", "order", "final", "finish"}
    /\ unsaved' = unsaved \cup {pipe[c].run}
    /\ Ends(c)
    /\ UNCHANGED <<orderVars, run, cancel, msgs, revoked, crashes, starts>>

\* An agent, a tool or, while the pipeline's own code runs, the soft time
\* limit raises.
PipelineFails(c) ==
    /\ pipe[c].pc \in {"start", "analyse", "order", "final", "finish"}
    /\ Writes(c, "failed")
    /\ Ends(c)
    /\ UNCHANGED <<orderVars, cancel, msgs, revoked, crashes, starts, unsaved>>

\* A time limit ends the task: the soft one interrupts asyncio.run while the
\* pipeline waits, and the pipeline gets a CancelledError no handler catches;
\* the hard one kills the process.  Either way the message is acknowledged.
CutOff(w) ==
    /\ "cut_off" \in Faults
    /\ w \in Workers /\ pipe[w].pc # "idle"
    /\ unsaved' = unsaved \cup {pipe[w].run}
    /\ DropCall(w)
    /\ Ends(w)
    /\ UNCHANGED <<run, cancel, msgs, revoked, crashes, starts>>

\* SIGTERM for a revoked task.
KillRevoked(w) ==
    /\ w \in Workers /\ pipe[w].pc # "idle" /\ pipe[w].run \in revoked
    /\ DropCall(w)
    /\ Ends(w)
    /\ UNCHANGED <<run, cancel, msgs, revoked, crashes, starts, unsaved>>

\* A worker that knows of the revocation discards the message.
DiscardRevoked(r) ==
    /\ r \in revoked /\ msgs[r] > 0
    /\ msgs' = [msgs EXCEPT ![r] = @ - 1]
    /\ UNCHANGED <<orderVars, run, pipe, cancel, revoked, crashes, starts, unsaved>>

\* Mutant: the message is acknowledged early, so it is lost with its worker.
LoseWorkerAndMessage(w) ==
    /\ "worker_lost" \in Faults /\ crashes < MaxCrashes
    /\ w \in Workers /\ pipe[w].pc # "idle"
    /\ crashes' = crashes + 1
    /\ DropCall(w)
    /\ Ends(w)
    /\ UNCHANGED <<run, cancel, msgs, revoked, starts, unsaved>>

\* The worker process is lost: acks_late has its message delivered again.
LoseWorker(w) ==
    /\ "worker_lost" \in Faults /\ crashes < MaxCrashes
    /\ w \in Workers /\ pipe[w].pc # "idle"
    /\ crashes' = crashes + 1
    /\ msgs' = [msgs EXCEPT ![pipe[w].run] = @ + 1]
    /\ DropCall(w)
    /\ Ends(w)
    /\ UNCHANGED <<run, cancel, revoked, starts, unsaved>>

HandlerStep(h) ==
    \/ Enqueue(h) \/ EnqueueFails(h) \/ RunInRequest(h)
    \/ MarkQueued(h) \/ MarkFails(h)

PipelineStep(c) ==
    \/ StartPipeline(c) \/ AbortCancelled(c) \/ PassLastCheck(c)
    \/ PlaceNoOrder(c) \/ (\E t \in Trades : PlaceOrder(c, t))
    \/ BrokerStep(c) \/ OrderReturns(c) \/ PassFinalCheck(c)
    \/ FinishPipeline(c) \/ FinishFails(c) \/ PipelineFails(c)

Next ==
    \/ \E h \in Handlers : HandlerStep(h) \/ \E r \in Runs : CreateRun(h, r)
    \/ \E k \in Cancels : CommitCancel(k) \/ \E r \in Runs : ReadAndRevoke(k, r)
    \/ \E w \in Workers : \/ CutOff(w) \/ KillRevoked(w) \/ LoseWorker(w)
                          \/ \E r \in Runs : TakeTask(w, r)
    \/ \E c \in Callers : PipelineStep(c)
    \/ \E r \in Runs : DiscardRevoked(r)

Spec == Init /\ [][Next]_vars

\* Processes that run are not starved and workers take what is queued.
Fairness ==
    /\ \A h \in Handlers : WF_vars(HandlerStep(h))
    /\ \A c \in Callers : WF_vars(PipelineStep(c))
    /\ \A k \in Cancels : WF_vars(CommitCancel(k))
    /\ \A r \in Runs : WF_vars(\E w \in Workers : TakeTask(w, r))

FairSpec == Spec /\ Fairness

-----------------------------------------------------------------------------
(* The abstract ledger.                                                    *)

\* Caller c evaluates a run that may still place its order.
MayOrder(c) == pipe[c].pc \in {"analyse", "order"} \/ call[c].pc \in {"sdk", "rest"}

Hand(c) ==
    LET x == call[c]
    IN  IF x.pc = "record" /\ x.status = "executed"
            THEN [holds |-> "fill", run |-> x.run, trade |-> x.trade]
        ELSE IF MayOrder(c)
            THEN [holds |-> "licence", run |-> pipe[c].run, trade |-> None]
        ELSE [holds |-> "nothing", run |-> None, trade |-> None]

Hands    == [c \in Callers |-> Hand(c)]
ToldRows == [r \in Runs |-> [t \in Trades |-> orders[r][t]["executed"]]]

Ledger == INSTANCE OrderLedger WITH
    Evaluators <- Callers,
    hand     <- Hands,
    licensed <- starts,
    filled   <- fills,
    told     <- ToldRows,
    lost     <- strays

-----------------------------------------------------------------------------
(* Properties                                                              *)

\* Every step of requests, tasks, crashes and cancellations is a step of the
\* ledger or none of its business: each pipeline that starts may place one
\* order, the broker fills orders of pipelines that have not yet seen a fill,
\* and a row tells executed for exactly one fill that its own pipeline has seen.
ImplementsLedger == Ledger!Spec

\* A decision that tells of an execution is backed by a row of that run in
\* execution_orders, written by this pipeline or replayed from an earlier one;
\* without any row only if execute has rejected the inputs of an order of the
\* run, an answer the decision does not look at.
ToldRunHasOrder ==
    \A r \in Runs : run[r].told = "executed" =>
        \/ \E t \in Trades, s \in OrderStatus : orders[r][t][s] > 0
        \/ r \in rejected

\* However often a run is evaluated, each pipeline that is started adds at most
\* one fill per trade beyond those the client did not see.
OneFillPerStart ==
    \A r \in Runs, t \in Trades : fills[r][t] <= starts[r] + strays[r][t]


\* A cancellation is not overwritten.
CancelledStaysCancelled ==
    [][\A r \in Runs :
        run[r].status = "cancelled" => run'[r].status = "cancelled"]_vars
=============================================================================
