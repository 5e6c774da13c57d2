--------------------------- MODULE BackgroundJobs ---------------------------
(***************************************************************************)
(* Backtests and benchmarks: a request inserts a row, a Celery task runs   *)
(* the job and commits its results with the end of the row.                *)
(*                                                                         *)
(*   backend/app/api/routes/backtests.py            request of a backtest  *)
(*   backend/app/tasks/backtest_task.py             its task               *)
(*   backend/app/services/benchmark/runs_service.py create and cancel      *)
(*   backend/app/tasks/benchmark_task.py            task of a benchmark    *)
(*   backend/app/services/benchmark/engine.py       and its engine         *)
(*                                                                         *)
(* One row, of either kind: rows do not interact.  The two kinds share the *)
(* steps in which they agree.  The limit on calls of language models       *)
(* (engine.py:247) is left out: the models the engine builds log no calls, *)
(* so that the count is 0 and the limit at least 1.                        *)
(***************************************************************************)
EXTENDS Naturals, FiniteSets

CONSTANTS
    Faults,     \* faults that may happen
    MaxFaults,  \* bound: faults of one behaviour
    None

FaultNames == {"enqueue_fails", "commit_fails", "run_fails", "worker_lost",
               "time_limit"}

ASSUME JobsAssumption ==
    /\ Faults \subseteq FaultNames
    /\ MaxFaults \in Nat
    /\ None \notin Nat

VARIABLES
    kind,       \* what the row is
    status,     \* its status
    task,       \* benchmark: celery_task_id is committed
    results,    \* the executions whose trades or attempts are stored
    metrics,    \* backtest: the execution whose metrics the row has
    queue,      \* messages of the job in the broker
    revoked,    \* a revoke of its task has been broadcast
    proc,       \* who works on the row: the request, and a worker
    cancel,     \* the request that cancels a benchmark
    starts,     \* executions a worker has started
    faults,     \* faults so far (bounded)
    ended,      \* history: a final status has been committed
    overruled,  \* history: a cancellation was overwritten after the run
    lost        \* history: a fault has left the job to nobody

history == <<ended, overruled, lost>>
row == <<kind, status, task, results, metrics>>
vars == <<row, queue, revoked, proc, cancel, starts, faults, history>>

Kinds == {"backtest", "benchmark"}
Final == {"completed", "failed", "cancelled", "skipped"}
Statuses == {"none", "pending", "queued", "running"} \cup Final
Procs == {"request", "worker"}
Proc == [pc: {"idle", "new", "enqueue", "note", "reload", "start", "run",
              "store", "settle", "fail", "done"},
         seen: Statuses,        \* status as the session has loaded it
         deleted: SUBSET Nat]   \* the trades deleted in its transaction

Idle == [pc |-> "idle", seen |-> "none", deleted |-> {}]
Done == [Idle EXCEPT !.pc = "done"]

Init ==
    /\ kind \in Kinds
    /\ status = "none"
    /\ task = FALSE
    /\ results = {}
    /\ metrics = None
    /\ queue = 0
    /\ revoked = FALSE
    /\ proc = [p \in Procs |-> IF p = "worker" THEN Idle
                               ELSE [Idle EXCEPT !.pc = "new"]]
    /\ cancel = "idle"
    /\ starts = 0
    /\ faults = 0
    /\ ended = FALSE
    /\ overruled = FALSE
    /\ lost = FALSE

TypeOK ==
    /\ kind \in Kinds
    /\ status \in Statuses
    /\ task \in BOOLEAN
    /\ results \subseteq 0..starts
    /\ metrics \in (0..starts) \cup {None}
    /\ queue \in {0, 1}
    /\ revoked \in BOOLEAN
    /\ proc \in [Procs -> Proc]
    /\ cancel \in {"idle", "revoke", "commit"}
    /\ starts \in Nat
    /\ faults \in 0..MaxFaults
    /\ ended \in BOOLEAN /\ overruled \in BOOLEAN /\ lost \in BOOLEAN

-----------------------------------------------------------------------------
At(p, pc) == proc[p].pc = pc

Goto(p, pc) == proc' = [proc EXCEPT ![p] = [proc[p] EXCEPT !.pc = pc]]

\* p is done: the request answers, the task is acknowledged.
Leave(p) ==
    proc' = [proc EXCEPT ![p] = IF p = "request" THEN Done ELSE Idle]

\* A final status is committed.
End(s) == status' = s /\ ended' = TRUE

\* The ORM writes a status only if it differs from the one it has loaded.
Flush(p, s) == status' = IF proc[p].seen = s THEN status ELSE s

Fault(f) == f \in Faults /\ faults < MaxFaults /\ faults' = faults + 1

\* The executions of a worker are 1, 2, ...; that in the request is 0.
Execution(p) == IF p = "request" THEN 0 ELSE starts

-----------------------------------------------------------------------------
(* The request that creates the job                                        *)

\* The row is inserted; a backtest may be asked to run in the request.
Create ==
    /\ At("request", "new")
    /\ status' = "pending"
    /\ \E pc \in {"enqueue"} \cup (IF kind = "backtest" THEN {"start"} ELSE {}) :
           proc' = [proc EXCEPT !["request"] =
                       [Idle EXCEPT !.pc = pc, !.seen = "pending"]]
    /\ UNCHANGED <<kind, task, results, metrics, queue, revoked, cancel, starts,
                   faults, history>>

Enqueue ==
    /\ At("request", "enqueue")
    /\ queue' = 1
    /\ Goto("request", "note")
    /\ UNCHANGED <<row, revoked, cancel, starts, faults, history>>

\* The enqueue raises, with the message out or not: a backtest is run in the
\* request, a benchmark stays pending.
EnqueueFails ==
    /\ At("request", "enqueue")
    /\ Fault("enqueue_fails")
    /\ queue' \in {0, 1}
    /\ \/ kind = "backtest" /\ Goto("request", "start") /\ lost' = lost
       \/ kind = "benchmark" /\ Leave("request") /\ queue' = 1 /\ lost' = lost
       \/ kind = "benchmark" /\ Leave("request") /\ queue' = 0 /\ lost' = TRUE
    /\ UNCHANGED <<row, revoked, cancel, starts, ended, overruled>>

\* A backtest is set to queued, whatever the worker has made of it by now; of a
\* benchmark only the id of the task is written.
Note ==
    /\ At("request", "note")
    /\ IF kind = "backtest"
       THEN Flush("request", "queued") /\ task' = task
       ELSE task' = TRUE /\ status' = status
    /\ Leave("request")
    /\ UNCHANGED <<kind, results, metrics, queue, revoked, cancel, starts,
                   faults, history>>

\* That commit, or the refresh after it, fails.  A backtest is then run in the
\* request although its message is out, unless the session needs a rollback.
NoteFails ==
    /\ At("request", "note")
    /\ Fault("commit_fails")
    /\ \/ kind = "backtest" /\ Flush("request", "queued")
                            /\ Goto("request", "reload")
       \/ kind = "backtest" /\ status' = status /\ Goto("request", "reload")
       \/ status' = status /\ Leave("request")
    /\ UNCHANGED <<kind, task, results, metrics, queue, revoked, cancel, starts,
                   history>>

\* The expired row is loaded again (for the log) before it is set to running.
Reload ==
    /\ At("request", "reload")
    /\ proc' = [proc EXCEPT !["request"] =
                   [proc["request"] EXCEPT !.pc = "start", !.seen = status]]
    /\ UNCHANGED <<row, queue, revoked, cancel, starts, faults, history>>

-----------------------------------------------------------------------------
(* The task                                                                *)

\* Mutant: the task looks for failed runs only.
SkipsFailed(s) == s = "failed"

\* Mutant: a cancelled run is not skipped.
SkipsEnded(s) == s \in {"completed", "failed", "skipped"}

\* A message of a job in one of these statuses does nothing.
Skips(s) == s \in Final

\* A message is taken; acknowledged at once if the row needs no run.
Receive ==
    /\ At("worker", "idle")
    /\ queue = 1
    /\ ~revoked
    /\ queue' = 0
    /\ proc' = [proc EXCEPT !["worker"] =
                   IF Skips(status) THEN Idle
                   ELSE [Idle EXCEPT !.pc = "start", !.seen = status]]
    /\ UNCHANGED <<row, revoked, cancel, starts, faults, history>>

\* A worker that knows of the revoke discards the message.
Discard ==
    /\ At("worker", "idle")
    /\ queue = 1
    /\ revoked
    /\ queue' = 0
    /\ UNCHANGED <<row, revoked, proc, cancel, starts, faults, history>>

\* Running is committed.  The engine of a benchmark commits it again, over a
\* cancellation in between.
Start(p) ==
    /\ At(p, "start")
    /\ IF kind = "backtest" THEN Flush(p, "running") ELSE status' = "running"
    /\ Goto(p, "run")
    /\ starts' = IF p = "worker" THEN starts + 1 ELSE starts
    /\ UNCHANGED <<kind, task, results, metrics, queue, revoked, cancel, faults,
                   history>>

\* The engine has returned: the trades stored by now are deleted in the
\* transaction that will store its own.
Delete(p) ==
    /\ kind = "backtest"
    /\ At(p, "run")
    /\ proc' = [proc EXCEPT ![p] =
                   [proc[p] EXCEPT !.pc = "store", !.deleted = results]]
    /\ UNCHANGED <<row, queue, revoked, cancel, starts, faults, history>>

\* Metrics, trades and completed in one commit.
Store(p) ==
    /\ At(p, "store")
    /\ results' = (results \ proc[p].deleted) \cup {Execution(p)}
    /\ metrics' = Execution(p)
    /\ End("completed")
    /\ Leave(p)
    /\ UNCHANGED <<kind, task, queue, revoked, cancel, starts, faults,
                   overruled, lost>>

\* The attempts of a benchmark and completed, in one commit.
Complete ==
    /\ kind = "benchmark"
    /\ At("worker", "run")
    /\ results' = results \cup {starts}
    /\ End("completed")
    /\ Goto("worker", "settle")
    /\ UNCHANGED <<kind, task, metrics, queue, revoked, cancel, starts, faults,
                   overruled, lost>>

\* A debate whose agents are switched off is skipped.
SkipDebate ==
    /\ kind = "benchmark"
    /\ At("worker", "run")
    /\ End("skipped")
    /\ Goto("worker", "settle")
    /\ UNCHANGED <<kind, task, results, metrics, queue, revoked, cancel, starts,
                   faults, overruled, lost>>

\* The task reads the row again and completes what is not completed or skipped:
\* a row that was cancelled since.
Settle ==
    /\ At("worker", "settle")
    /\ IF status \in {"completed", "skipped"}
       THEN UNCHANGED <<status, ended, overruled>>
       ELSE End("completed") /\ overruled' = TRUE
    /\ Leave("worker")
    /\ UNCHANGED <<kind, task, results, metrics, queue, revoked, cancel, starts,
                   faults, lost>>

-----------------------------------------------------------------------------
(* Failures                                                                *)

\* The engine raises, or the soft time limit interrupts it.
RunFails(p) ==
    /\ At(p, "run")
    /\ Fault("run_fails")
    /\ Goto(p, "fail")
    /\ UNCHANGED <<row, queue, revoked, cancel, starts, history>>

\* A commit of the job fails.  The task rolls back and marks the row failed;
\* the request marks it without a rollback, which a session that needs one
\* refuses.
CommitFails(p) ==
    /\ proc[p].pc \in {"start", "store", "settle"}
    /\ Fault("commit_fails")
    /\ \/ /\ proc' = [proc EXCEPT ![p] =
                         [proc[p] EXCEPT !.pc = "fail", !.deleted = {}]]
          /\ lost' = lost
       \/ p = "request" /\ Leave(p) /\ lost' = TRUE
    /\ UNCHANGED <<row, queue, revoked, cancel, starts, ended, overruled>>

\* Mutant: the failure of a run is committed as its end.
FailCompleted(p) ==
    /\ At(p, "fail")
    /\ End("completed")
    /\ Leave(p)
    /\ UNCHANGED <<kind, task, results, metrics, queue, revoked, cancel, starts,
                   faults, overruled, lost>>

Fail(p) ==
    /\ At(p, "fail")
    /\ End("failed")
    /\ Leave(p)
    /\ UNCHANGED <<kind, task, results, metrics, queue, revoked, cancel, starts,
                   faults, overruled, lost>>

\* The commit of the failure fails too.
FailLost(p) ==
    /\ At(p, "fail")
    /\ Fault("commit_fails")
    /\ Leave(p)
    /\ lost' = TRUE
    /\ UNCHANGED <<row, queue, revoked, cancel, starts, ended, overruled>>

\* Mutant: the message is acknowledged early and goes with the worker.
LoseWorkerAndMessage ==
    /\ ~At("worker", "idle")
    /\ Fault("worker_lost")
    /\ proc' = [proc EXCEPT !["worker"] = Idle]
    /\ UNCHANGED <<row, queue, revoked, cancel, starts, history>>

\* The worker dies, its transaction is undone and the message comes again.
LoseWorker ==
    /\ ~At("worker", "idle")
    /\ Fault("worker_lost")
    /\ queue' = 1
    /\ proc' = [proc EXCEPT !["worker"] = Idle]
    /\ UNCHANGED <<row, revoked, cancel, starts, history>>

\* The hard time limit ends the task and acknowledges its message.
TimeLimit ==
    /\ ~At("worker", "idle")
    /\ Fault("time_limit")
    /\ proc' = [proc EXCEPT !["worker"] = Idle]
    /\ lost' = TRUE
    /\ UNCHANGED <<row, queue, revoked, cancel, starts, ended, overruled>>

-----------------------------------------------------------------------------
(* Cancellation of a benchmark                                             *)

\* Only a pending run is cancelled, and revoked if its task is known.
ReadCancel ==
    /\ kind = "benchmark"
    /\ cancel = "idle"
    /\ status = "pending"
    /\ cancel' = IF task THEN "revoke" ELSE "commit"
    /\ UNCHANGED <<row, queue, revoked, proc, starts, faults, history>>

Revoke ==
    /\ cancel = "revoke"
    /\ revoked' = TRUE
    /\ cancel' = "commit"
    /\ UNCHANGED <<row, queue, proc, starts, faults, history>>

\* The signal of the revoke ends the task it finds at work.
Terminate ==
    /\ revoked
    /\ ~At("worker", "idle")
    /\ proc' = [proc EXCEPT !["worker"] = Idle]
    /\ UNCHANGED <<row, queue, revoked, cancel, starts, faults, history>>

CommitCancel ==
    /\ cancel = "commit"
    /\ End("cancelled")
    /\ cancel' = "idle"
    /\ UNCHANGED <<kind, task, results, metrics, queue, revoked, proc, starts,
                   faults, overruled, lost>>

CancelFails ==
    /\ cancel = "commit"
    /\ Fault("commit_fails")
    /\ cancel' = "idle"
    /\ (revoked /\ lost' = TRUE) \/ (~revoked /\ lost' = lost)
    /\ UNCHANGED <<row, queue, revoked, proc, starts, ended, overruled>>

-----------------------------------------------------------------------------
Work(p) == Start(p) \/ Delete(p) \/ Store(p) \/ Fail(p)

RequestStep ==
    Create \/ Enqueue \/ Note \/ Reload \/ Work("request")

WorkerStep ==
    Receive \/ Discard \/ Work("worker") \/ Complete \/ SkipDebate \/ Settle

CancelStep == Revoke \/ CommitCancel

FaultStep ==
    \/ EnqueueFails \/ NoteFails \/ LoseWorker \/ TimeLimit \/ CancelFails
    \/ \E p \in Procs : RunFails(p) \/ CommitFails(p) \/ FailLost(p)

Next ==
    RequestStep \/ WorkerStep \/ CancelStep \/ ReadCancel \/ Terminate
                \/ FaultStep

Spec == Init /\ [][Next]_vars

\* Requests go on to their end, and some worker serves the queue.
Fairness ==
    WF_vars(RequestStep) /\ WF_vars(WorkerStep) /\ WF_vars(CancelStep)

FairSpec == Spec /\ Fairness

-----------------------------------------------------------------------------
(* Properties                                                              *)

\* However often the message is delivered and whatever runs beside the worker,
\* at most one execution of a worker has its results stored, and a benchmark
\* has no others: a second set of trades comes only from the run in the
\* request, whose delete may miss trades not committed yet (backtests.py:141,
\* backtest_task.py:58).
OneExecutionPerSide ==
    /\ Cardinality(results \ {0}) <= 1
    /\ kind = "benchmark" => 0 \notin results

\* The metrics of a backtest are those of an execution whose trades are stored,
\* also when two executions have overwritten each other.
MetricsHaveTrades == metrics # None => metrics \in results

\* A completed job has results, also after failures and redeliveries, except a
\* skipped benchmark that was cancelled before the task read it back
\* (benchmark_task.py:40).
CompletedHasResults == status = "completed" => results # {} \/ overruled

\* A job that nobody works on any more has reached an end once (which the
\* request may have overwritten with queued, backtests.py:107), or a fault that
\* the code has no answer to has left it.
NoStrandedJob ==
    (/\ queue = 0
     /\ At("worker", "idle")
     /\ At("request", "done")
     /\ cancel = "idle") => ended \/ lost

\* A cancellation is overwritten only by a task that has read the row before it:
\* neither the request that created the benchmark nor a message still to come,
\* delivered again or not, undoes it (runs_service.py:50, benchmark_task.py:27).
OnlyStartedOverrules ==
    [][status = "cancelled" /\ status' # "cancelled" =>
           ~At("worker", "idle") /\ proc["worker"].seen # "cancelled"]_vars

\* Every job comes to an end, unless it was left by such a fault.
JobEnds == <>(ended \/ lost)
=============================================================================
