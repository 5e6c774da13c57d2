------------------------------ MODULE Strategy ------------------------------
(***************************************************************************)
(* The life of a trading strategy: API requests that validate, edit and    *)
(* promote it, the Celery task that backtests it, and the optimizer        *)
(* campaigns that look for better parameters, which a user may accept,     *)
(* reject or cancel.                                                       *)
(*                                                                         *)
(*   backend/app/api/routes/strategies.py        the requests              *)
(*   backend/app/tasks/strategy_backtest_task.py the backtest              *)
(*   backend/app/services/strategy/optimizer_service.py  campaigns         *)
(*   backend/app/tasks/optimizer_task.py         the optimizer's task      *)
(*                                                                         *)
(* A request reads rows, decides, and commits later; the language model of *)
(* an edit and the engine of a backtest run in between.  The ORM writes    *)
(* the columns whose new value differs from the one read (Flush), so a     *)
(* commit may overwrite what others have written and may also leave alone  *)
(* a column it meant to set.  Strategies share nothing: one is modelled.   *)
(***************************************************************************)
EXTENDS Naturals

CONSTANTS
    Params,         \* parameter sets a strategy may have
    Campaigns,      \* ids of campaigns that may be created
    Requests,       \* API requests in progress at the same time
    Backtesters,    \* Celery workers of the backtest queue
    Optimizers,     \* Celery workers of the optimizer queue
    Evolvers,       \* those with the openevolve package installed
    Faults,         \* faults that may happen
    MaxRequests,    \* bound: requests ever served
    MaxCrashes,     \* bound: tasks lost or killed
    None

FaultNames == {"enqueue_fails", "worker_lost", "time_limit", "search_fails",
               "failed_commit"}

ASSUME StrategyAssumption ==
    /\ Evolvers \subseteq Optimizers
    /\ Faults \subseteq FaultNames
    /\ MaxRequests \in Nat
    /\ MaxCrashes \in Nat

VARIABLES
    strategy,       \* the strategies row
    campaign,       \* strategy_optimizer_campaigns
    request,        \* API requests
    backtester,     \* workers on a backtest
    optimizer,      \* workers on a campaign
    backtests,      \* backtest messages not yet taken
    searches,       \* campaigns whose message is not yet taken
    revoked,        \* campaigns whose Celery task has been revoked
    served,         \* requests served so far (bounded)
    crashes,        \* tasks lost or killed so far (bounded)
    dropped,        \* history: what was not enqueued, was killed by its limit,
                    \* or could not commit its end
    passed          \* history: a backtest has passed the validation gate

strategyVars == <<strategy, backtester, backtests, passed>>
campaignVars == <<campaign, optimizer, searches, revoked>>
vars == <<strategyVars, campaignVars, request, served, crashes, dropped>>

Active == {"PENDING", "RUNNING"}
CampaignStatus == Active \cup {"absent", "COMPLETED", "CANCELLED", "FAILED",
                               "REJECTED_BY_USER", "ACCEPTED"}

\* metrics: what the generation or a reset left, or the parameters of the last
\* backtest (metrics.validated_params), or its error.
Metrics == Params \cup {"generated", "empty", "error"}
Row == [status: {"DRAFT", "BACKTESTING", "VALIDATED", "PAPER", "LIVE",
                 "REJECTED"},
        params: Params, metrics: Metrics]
ASSUME NoneAssumption == None \notin Params \cup Campaigns \cup Row

Campaign == [status: CampaignStatus, initial: Params \cup {None},
             best: Params \cup {None}, task: BOOLEAN]

\* A process remembers what it has read: the row of the strategy and, to
\* accept a campaign, its best parameters.
Request == [pc: {"idle", "check", "commit", "send", "note"},
            op: {"validate", "promote", "edit", "optimize", "accept",
                 "reject", "cancel", None},
            row: Row \cup {None}, campaign: Campaigns \cup {None},
            best: Params \cup {None}]
Optimizer == [pc: {"idle", "mark", "baseline", "evolve", "check", "search",
                   "complete", "ack"}, campaign: Campaigns \cup {None}]

IdleRequest   == [pc |-> "idle", op |-> None, row |-> None, campaign |-> None,
                  best |-> None]
IdleOptimizer == [pc |-> "idle", campaign |-> None]
NoCampaign == [status |-> "absent", initial |-> None, best |-> None,
               task |-> FALSE]

TypeOK ==
    /\ strategy \in Row
    /\ campaign \in [Campaigns -> Campaign]
    /\ request \in [Requests -> Request]
    /\ backtester \in [Backtesters -> Params \cup {None}]
    /\ optimizer \in [Optimizers -> Optimizer]
    /\ backtests \in Nat
    /\ searches \subseteq Campaigns
    /\ revoked \subseteq Campaigns
    /\ served \in 0..MaxRequests
    /\ crashes \in 0..MaxCrashes
    /\ dropped \subseteq Campaigns \cup {"backtest"}
    /\ passed \in BOOLEAN

\* A new strategy, or one that a backtest has validated.
Init ==
    /\ \E p \in Params :
           \/ /\ strategy = [status |-> "DRAFT", params |-> p,
                             metrics |-> "generated"]
              /\ passed = FALSE
           \/ /\ strategy = [status |-> "VALIDATED", params |-> p,
                             metrics |-> p]
              /\ passed = TRUE
    /\ campaign = [c \in Campaigns |-> NoCampaign]
    /\ request = [h \in Requests |-> IdleRequest]
    /\ backtester = [w \in Backtesters |-> None]
    /\ optimizer = [w \in Optimizers |-> IdleOptimizer]
    /\ backtests = 0
    /\ searches = {} /\ revoked = {} /\ dropped = {}
    /\ served = 0 /\ crashes = 0

-----------------------------------------------------------------------------
(* What the ORM does at a commit: it writes the columns that differ from   *)
(* the row as it was read.                                                 *)
Flush(current, read, new) ==
    [f \in DOMAIN current |-> IF new[f] = read[f] THEN current[f] ELSE new[f]]

\* A request reads the strategy's row, and c's if there is one.
Begin(h, op, pc, c) ==
    /\ request[h] = IdleRequest
    /\ served < MaxRequests
    /\ served' = served + 1
    /\ request' = [request EXCEPT ![h] =
           [pc |-> pc, op |-> op, row |-> strategy, campaign |-> c,
            best |-> IF c = None THEN None ELSE campaign[c].best]]

At(h, op, pc) == request[h].op = op /\ request[h].pc = pc
Goto(h, pc)   == request' = [request EXCEPT ![h].pc = pc]
Return(h)     == request' = [request EXCEPT ![h] = IdleRequest]

SetStatus(c, s) == campaign' = [campaign EXCEPT ![c].status = s]

-----------------------------------------------------------------------------
(* POST /strategies/{id}/validate                                          *)

ReadValidate(h) ==
    /\ strategy.status \in {"DRAFT", "REJECTED"}
    /\ Begin(h, "validate", "commit", None)
    /\ UNCHANGED <<strategyVars, campaignVars, crashes, dropped>>

CommitValidate(h) ==
    /\ At(h, "validate", "commit")
    /\ LET row == request[h].row
       IN  strategy' = Flush(strategy, row,
               [row EXCEPT !.status = "BACKTESTING", !.metrics = "empty"])
    /\ Goto(h, "send")
    /\ UNCHANGED <<backtester, backtests, passed, campaignVars, served,
                   crashes, dropped>>

\* Both validate and accept end by enqueueing the backtest; a failure, or
\* the end of the API process, leaves the strategy as committed.
SendBacktest(h) ==
    /\ request[h].pc = "send"
    /\ request[h].op \in {"validate", "accept"}
    /\ \/ backtests' = backtests + 1 /\ UNCHANGED dropped
       \/ /\ "enqueue_fails" \in Faults
          /\ dropped' = dropped \cup {"backtest"}
          /\ UNCHANGED backtests
    /\ Return(h)
    /\ UNCHANGED <<strategy, backtester, passed, campaignVars, served, crashes>>

-----------------------------------------------------------------------------
(* POST /strategies/{id}/promote and /edit                                 *)

\* Mutant: a rejected strategy may be tried on paper.
PromotionsOfRejected(status) ==
    CASE status \in {"VALIDATED", "REJECTED"} -> {"PAPER", "LIVE"}
      [] status = "PAPER" -> {"LIVE"}
      [] OTHER            -> {}

Promotions(status) ==
    CASE status = "VALIDATED" -> {"PAPER", "LIVE"}
      [] status = "PAPER"     -> {"LIVE"}
      [] OTHER                -> {}

ReadPromote(h) ==
    /\ Promotions(strategy.status) # {}
    /\ Begin(h, "promote", "commit", None)
    /\ UNCHANGED <<strategyVars, campaignVars, crashes, dropped>>

CommitPromote(h) ==
    /\ At(h, "promote", "commit")
    /\ \E target \in Promotions(request[h].row.status) :
           strategy' = Flush(strategy, request[h].row,
                             [request[h].row EXCEPT !.status = target])
    /\ Return(h)
    /\ UNCHANGED <<backtester, backtests, passed, campaignVars, served,
                   crashes, dropped>>

ReadEdit(h) ==
    /\ strategy.status \in {"DRAFT", "VALIDATED", "REJECTED"}
    /\ Begin(h, "edit", "commit", None)
    /\ UNCHANGED <<strategyVars, campaignVars, crashes, dropped>>

\* Mutant: a proposal keeps the status.
CommitEditKeepsStatus(h) ==
    /\ At(h, "edit", "commit")
    /\ LET row == request[h].row
       IN  \E p \in Params :
               strategy' = Flush(strategy, row,
                   [status |-> row.status, params |-> p, metrics |-> row.metrics])
    /\ Return(h)
    /\ UNCHANGED <<backtester, backtests, passed, campaignVars, served,
                   crashes, dropped>>

\* The language model has proposed p and perhaps a new name or description.
\* Without a change the old values are assigned, which writes nothing.
CommitEdit(h) ==
    /\ At(h, "edit", "commit")
    /\ LET row == request[h].row
       IN  \/ \E p \in Params :
                  strategy' = Flush(strategy, row,
                      [status |-> "DRAFT", params |-> p, metrics |-> "empty"])
           \/ UNCHANGED strategy
    /\ Return(h)
    /\ UNCHANGED <<backtester, backtests, passed, campaignVars, served,
                   crashes, dropped>>

-----------------------------------------------------------------------------
(* POST /strategies/{id}/optimize                                          *)

ReadOptimize(h) ==
    /\ strategy.status \in {"VALIDATED", "REJECTED"}
    /\ Begin(h, "optimize", "check", None)
    /\ UNCHANGED <<strategyVars, campaignVars, crashes, dropped>>

\* create_campaign: no campaign may be active ...
CheckActive(h) ==
    /\ At(h, "optimize", "check")
    /\ IF \E c \in Campaigns : campaign[c].status \in Active
       THEN Return(h)
       ELSE Goto(h, "commit")
    /\ UNCHANGED <<strategyVars, campaignVars, served, crashes, dropped>>

\* ... and then a new one is inserted.
InsertCampaign(h, c) ==
    /\ At(h, "optimize", "commit")
    /\ campaign[c].status = "absent"
    /\ campaign' = [campaign EXCEPT ![c] =
           [NoCampaign EXCEPT !.status = "PENDING",
                              !.initial = request[h].row.params]]
    /\ request' = [request EXCEPT ![h].pc = "send", ![h].campaign = c]
    /\ UNCHANGED <<strategyVars, optimizer, searches, revoked, served,
                   crashes, dropped>>

SendCampaign(h) ==
    /\ At(h, "optimize", "send")
    /\ LET c == request[h].campaign
       IN  \/ /\ searches' = searches \cup {c}
              /\ Goto(h, "note")
              /\ UNCHANGED dropped
           \/ /\ "enqueue_fails" \in Faults
              /\ dropped' = dropped \cup {c}
              /\ Return(h)
              /\ UNCHANGED searches
    /\ UNCHANGED <<strategyVars, campaign, optimizer, revoked, served, crashes>>

NoteTask(h) ==
    /\ At(h, "optimize", "note")
    /\ campaign' = [campaign EXCEPT ![request[h].campaign].task = TRUE]
    /\ Return(h)
    /\ UNCHANGED <<strategyVars, optimizer, searches, revoked, served,
                   crashes, dropped>>

-----------------------------------------------------------------------------
(* What a user decides about a campaign.                                   *)

ReadAccept(h, c) ==
    /\ campaign[c].status = "COMPLETED"
    /\ Begin(h, "accept", "check", c)
    /\ UNCHANGED <<strategyVars, campaignVars, crashes, dropped>>

\* accept_campaign reads the strategy after it has checked the campaign.
ReadAccepted(h) ==
    /\ At(h, "accept", "check")
    /\ request' = [request EXCEPT ![h].pc = "commit", ![h].row = strategy]
    /\ UNCHANGED <<strategyVars, campaignVars, served, crashes, dropped>>

CommitAccept(h) ==
    /\ At(h, "accept", "commit")
    /\ LET c == request[h].campaign
           row == request[h].row
           best == request[h].best
       IN  /\ strategy' = Flush(strategy, row,
                  [status |-> "BACKTESTING",
                   params |-> IF best = None THEN row.params ELSE best,
                   metrics |-> "empty"])
           /\ SetStatus(c, "ACCEPTED")
    /\ Goto(h, "send")
    /\ UNCHANGED <<backtester, backtests, passed, optimizer, searches,
                   revoked, served, crashes, dropped>>

ReadReject(h, c) ==
    /\ campaign[c].status = "COMPLETED"
    /\ Begin(h, "reject", "commit", c)
    /\ UNCHANGED <<strategyVars, campaignVars, crashes, dropped>>

CommitReject(h) ==
    /\ At(h, "reject", "commit")
    /\ SetStatus(request[h].campaign, "REJECTED_BY_USER")
    /\ Return(h)
    /\ UNCHANGED <<strategyVars, optimizer, searches, revoked, served,
                   crashes, dropped>>

ReadCancel(h, c) ==
    /\ campaign[c].status \in Active
    /\ Begin(h, "cancel", "commit", c)
    /\ UNCHANGED <<strategyVars, campaignVars, crashes, dropped>>

CommitCancel(h) ==
    /\ At(h, "cancel", "commit")
    /\ SetStatus(request[h].campaign, "CANCELLED")
    /\ Goto(h, "send")
    /\ UNCHANGED <<strategyVars, optimizer, searches, revoked, served,
                   crashes, dropped>>

\* Without a task id in the row nothing is revoked.
Revoke(h) ==
    /\ At(h, "cancel", "send")
    /\ LET c == request[h].campaign
       IN  revoked' = IF campaign[c].task THEN revoked \cup {c} ELSE revoked
    /\ Return(h)
    /\ UNCHANGED <<strategyVars, campaign, optimizer, searches, served,
                   crashes, dropped>>

-----------------------------------------------------------------------------
(* The backtest task.  The message is acknowledged when the task ends, also *)
(* at its hard time limit, and delivered again when its worker is lost.    *)

TakeBacktest(w) ==
    /\ backtests > 0 /\ backtester[w] = None
    /\ backtests' = backtests - 1
    /\ backtester' = IF strategy.status = "BACKTESTING"
                     THEN [backtester EXCEPT ![w] = strategy.params]
                     ELSE backtester
    /\ UNCHANGED <<strategy, passed, campaignVars, request, served, crashes,
                   dropped>>

\* The task has read BACKTESTING and other metrics, so both columns are
\* written, whatever the row holds now.
Verdict(status, metrics) ==
    strategy' = [strategy EXCEPT !.status = status, !.metrics = metrics]

\* Mutant: a verdict on parameters that have changed meanwhile is dropped.
FinishBacktestUnlessEdited(w) ==
    /\ backtester[w] # None
    /\ IF strategy.params # backtester[w]
       THEN UNCHANGED <<strategy, passed>>
       ELSE Verdict("VALIDATED", backtester[w]) /\ passed' = TRUE
    /\ backtester' = [backtester EXCEPT ![w] = None]
    /\ UNCHANGED <<backtests, campaignVars, request, served, crashes, dropped>>

\* The engine has run with the parameters read when the task started.
FinishBacktest(w) ==
    /\ backtester[w] # None
    /\ \/ Verdict("VALIDATED", backtester[w]) /\ passed' = TRUE
       \/ Verdict("REJECTED", backtester[w]) /\ UNCHANGED passed
       \/ Verdict("REJECTED", "error") /\ UNCHANGED passed
    /\ backtester' = [backtester EXCEPT ![w] = None]
    /\ UNCHANGED <<backtests, campaignVars, request, served, crashes, dropped>>

\* The verdict cannot be committed.  The handler commits again without a
\* rollback, which raises: the task ends and its message is acknowledged.
FailVerdict(w) ==
    /\ "failed_commit" \in Faults
    /\ backtester[w] # None
    /\ dropped' = dropped \cup {"backtest"}
    /\ backtester' = [backtester EXCEPT ![w] = None]
    /\ UNCHANGED <<strategy, backtests, passed, campaignVars, request, served,
                   crashes>>

\* Mutant: the message is acknowledged when the task starts.
LoseBacktesterAcknowledged(w) ==
    /\ "worker_lost" \in Faults /\ crashes < MaxCrashes
    /\ backtester[w] # None
    /\ crashes' = crashes + 1
    /\ backtester' = [backtester EXCEPT ![w] = None]
    /\ UNCHANGED <<strategy, backtests, passed, campaignVars, request, served,
                   dropped>>

LoseBacktester(w) ==
    /\ crashes < MaxCrashes
    /\ backtester[w] # None
    /\ crashes' = crashes + 1
    /\ backtester' = [backtester EXCEPT ![w] = None]
    /\ \/ /\ "worker_lost" \in Faults
          /\ backtests' = backtests + 1
          /\ UNCHANGED dropped
       \/ /\ "time_limit" \in Faults
          /\ dropped' = dropped \cup {"backtest"}
          /\ UNCHANGED backtests
    /\ UNCHANGED <<strategy, passed, campaignVars, request, served>>

-----------------------------------------------------------------------------
(* The optimizer's task.                                                   *)

Working(w, pc) == optimizer[w].pc = pc
Step(w, pc)    == optimizer' = [optimizer EXCEPT ![w].pc = pc]

TakeSearch(w, c) ==
    /\ Working(w, "idle")
    /\ c \in searches \ revoked
    /\ searches' = searches \ {c}
    /\ campaign' = [campaign EXCEPT ![c].task = TRUE]
    /\ optimizer' = [optimizer EXCEPT ![w] = [pc |-> "mark", campaign |-> c]]
    /\ UNCHANGED <<strategyVars, revoked, request, served, crashes, dropped>>

\* run_optimization_loop marks the campaign whatever its status is.
MarkRunning(w) ==
    /\ Working(w, "mark")
    /\ SetStatus(optimizer[w].campaign, "RUNNING")
    /\ Step(w, "baseline")
    /\ UNCHANGED <<strategyVars, searches, revoked, request, served, crashes,
                   dropped>>

\* The parameters to improve: the strategy's own with openevolve, those the
\* campaign was created with otherwise.
Baseline(w) ==
    /\ Working(w, "baseline")
    /\ LET c == optimizer[w].campaign
       IN  campaign' = [campaign EXCEPT ![c].best =
               IF w \in Evolvers THEN strategy.params ELSE campaign[c].initial]
    /\ Step(w, IF w \in Evolvers THEN "evolve" ELSE "check")
    /\ UNCHANGED <<strategyVars, searches, revoked, request, served, crashes,
                   dropped>>

\* openevolve: a cancellation shortens the run and does not change its end.
FinishEvolve(w) ==
    /\ Working(w, "evolve")
    /\ LET c == optimizer[w].campaign
       IN  \/ SetStatus(c, "FAILED")
           \/ \E p \in Params :
                  campaign' = [campaign EXCEPT ![c].status = "COMPLETED",
                                               ![c].best = p]
    /\ Step(w, "ack")
    /\ UNCHANGED <<strategyVars, searches, revoked, request, served, crashes,
                   dropped>>

\* Hill climbing reads the campaign again before each iteration.
CheckCancelled(w) ==
    /\ Working(w, "check")
    /\ Step(w, IF campaign[optimizer[w].campaign].status = "CANCELLED"
               THEN "ack" ELSE "search")
    /\ UNCHANGED <<strategyVars, campaign, searches, revoked, request, served,
                   crashes, dropped>>

Search(w) ==
    /\ Working(w, "search")
    /\ \E p \in Params :
           campaign' = [campaign EXCEPT ![optimizer[w].campaign].best = p]
    /\ Step(w, "check")
    /\ UNCHANGED <<strategyVars, searches, revoked, request, served, crashes,
                   dropped>>

\* The iterations are used up, which is not followed by another check.
EndSearch(w) ==
    /\ Working(w, "check")
    /\ Step(w, "complete")
    /\ UNCHANGED <<strategyVars, campaign, searches, revoked, request, served,
                   crashes, dropped>>

Complete(w) ==
    /\ Working(w, "complete")
    /\ SetStatus(optimizer[w].campaign, "COMPLETED")
    /\ Step(w, "ack")
    /\ UNCHANGED <<strategyVars, searches, revoked, request, served, crashes,
                   dropped>>

\* Mutant: only a campaign that never ran is marked failed.
FailSearchPending(w) ==
    /\ "search_fails" \in Faults
    /\ optimizer[w].pc \in {"baseline", "evolve", "check", "search"}
    /\ LET c == optimizer[w].campaign
       IN  IF campaign[c].status = "PENDING" THEN SetStatus(c, "FAILED")
                                             ELSE UNCHANGED campaign
    /\ Step(w, "ack")
    /\ UNCHANGED <<strategyVars, searches, revoked, request, served, crashes,
                   dropped>>

\* An exception: the task marks the campaign failed unless the row, as read
\* at some time since it was marked running, was cancelled.
FailSearch(w) ==
    /\ "search_fails" \in Faults
    /\ optimizer[w].pc \in {"baseline", "evolve", "check", "search"}
    /\ LET c == optimizer[w].campaign
       IN  \E read \in {"RUNNING", campaign[c].status} :
               IF read \in Active THEN SetStatus(c, "FAILED")
                                 ELSE UNCHANGED campaign
    /\ Step(w, "ack")
    /\ UNCHANGED <<strategyVars, searches, revoked, request, served, crashes,
                   dropped>>

\* After an error of the database the session is unusable, and to mark the
\* campaign fails too: this is logged and the message acknowledged.
FailUnmarked(w) ==
    /\ "failed_commit" \in Faults
    /\ optimizer[w].pc \notin {"idle", "ack"}
    /\ dropped' = dropped \cup {optimizer[w].campaign}
    /\ Step(w, "ack")
    /\ UNCHANGED <<strategyVars, campaign, searches, revoked, request, served,
                   crashes>>

Acknowledge(w) ==
    /\ Working(w, "ack")
    /\ optimizer' = [optimizer EXCEPT ![w] = IdleOptimizer]
    /\ UNCHANGED <<strategyVars, campaign, searches, revoked, request, served,
                   crashes, dropped>>

\* Mutant: the message is acknowledged when the task starts.
LoseOptimizerAcknowledged(w) ==
    /\ "worker_lost" \in Faults /\ crashes < MaxCrashes
    /\ ~ Working(w, "idle")
    /\ crashes' = crashes + 1
    /\ optimizer' = [optimizer EXCEPT ![w] = IdleOptimizer]
    /\ UNCHANGED <<strategyVars, campaign, searches, revoked, request, served,
                   dropped>>

LoseOptimizer(w) ==
    /\ crashes < MaxCrashes
    /\ ~ Working(w, "idle")
    /\ crashes' = crashes + 1
    /\ LET c == optimizer[w].campaign
       IN  \/ /\ "worker_lost" \in Faults
              /\ searches' = searches \cup {c}
              /\ UNCHANGED dropped
           \/ /\ "time_limit" \in Faults
              /\ dropped' = dropped \cup {c}
              /\ UNCHANGED searches
    /\ optimizer' = [optimizer EXCEPT ![w] = IdleOptimizer]
    /\ UNCHANGED <<strategyVars, campaign, revoked, request, served>>

\* revoke(terminate=True) ends the task that runs and has workers discard a
\* message that waits.
Terminate(w) ==
    /\ optimizer[w].campaign \in revoked
    /\ optimizer' = [optimizer EXCEPT ![w] = IdleOptimizer]
    /\ UNCHANGED <<strategyVars, campaign, searches, revoked, request, served,
                   crashes, dropped>>

Discard(c) ==
    /\ c \in searches \cap revoked
    /\ searches' = searches \ {c}
    /\ UNCHANGED <<strategyVars, campaign, optimizer, revoked, request, served,
                   crashes, dropped>>

-----------------------------------------------------------------------------
ReadStrategy(h) ==
    ReadValidate(h) \/ ReadPromote(h) \/ ReadEdit(h) \/ ReadOptimize(h)

ReadCampaign(h, c) == ReadAccept(h, c) \/ ReadReject(h, c) \/ ReadCancel(h, c)

\* What a request that has started does next.
Serve(h) ==
    \/ CommitValidate(h) \/ SendBacktest(h)
    \/ CommitPromote(h) \/ CommitEdit(h)
    \/ CheckActive(h) \/ SendCampaign(h) \/ NoteTask(h)
    \/ \E c \in Campaigns : InsertCampaign(h, c)
    \/ ReadAccepted(h) \/ CommitAccept(h) \/ CommitReject(h)
    \/ CommitCancel(h) \/ Revoke(h)

Backtest(w) == TakeBacktest(w) \/ FinishBacktest(w)

Optimize(w) ==
    \/ \E c \in Campaigns : TakeSearch(w, c)
    \/ MarkRunning(w) \/ Baseline(w) \/ FinishEvolve(w)
    \/ CheckCancelled(w) \/ Search(w) \/ Complete(w) \/ Acknowledge(w)

Next ==
    \/ \E h \in Requests :
           \/ ReadStrategy(h) \/ Serve(h)
           \/ \E c \in Campaigns : ReadCampaign(h, c)
    \/ \E w \in Backtesters :
           Backtest(w) \/ FailVerdict(w) \/ LoseBacktester(w)
    \/ \E w \in Optimizers :
           \/ Optimize(w) \/ EndSearch(w) \/ FailSearch(w)
           \/ FailUnmarked(w) \/ LoseOptimizer(w) \/ Terminate(w)
    \/ \E c \in Campaigns : Discard(c)

Spec == Init /\ [][Next]_vars

\* Requests that have started and workers go on; iterations are limited.
Fairness ==
    /\ \A h \in Requests : WF_vars(Serve(h))
    /\ \A w \in Backtesters : WF_vars(Backtest(w))
    /\ \A w \in Optimizers : WF_vars(Optimize(w)) /\ SF_vars(EndSearch(w))

FairSpec == Spec /\ Fairness

-----------------------------------------------------------------------------
(* Properties.                                                             *)

\* A strategy in BACKTESTING has a message, a running task or a request that
\* is about to enqueue one, unless a message was never sent, or a task was
\* killed by the time limit or could not commit its verdict: the status is
\* committed before the task is enqueued, and the task skips any other status.
BacktestUnderWay ==
    \/ backtests > 0
    \/ \E w \in Backtesters : backtester[w] # None
    \/ \E h \in Requests : /\ request[h].pc = "send"
                           /\ request[h].op \in {"validate", "accept"}
NoStrandedBacktest ==
    strategy.status = "BACKTESTING" =>
        BacktestUnderWay \/ "backtest" \in dropped

\* An active campaign, which bars new ones, has a message, a worker or a
\* request that is about to enqueue it, unless its message was never sent or
\* its task was revoked, killed by the time limit or unable to mark its failure.
SearchUnderWay(c) ==
    \/ c \in searches
    \/ \E w \in Optimizers : /\ optimizer[w].campaign = c
                             /\ ~ Working(w, "ack")
    \/ \E h \in Requests : At(h, "optimize", "send") /\ request[h].campaign = c
ActiveCampaignHasTask ==
    \A c \in Campaigns :
        campaign[c].status \in Active =>
            SearchUnderWay(c) \/ c \in dropped \cup revoked

\* No strategy trades on paper or live before a backtest of it has passed the
\* gate, whatever edits, acceptances and stale commits come in between.
PromotedAfterValidation ==
    strategy.status \in {"VALIDATED", "PAPER", "LIVE"} => passed

\* A strategy that is validated, or trades, with other parameters than those
\* that were backtested came to it by a commit based on an outdated read: a
\* verdict on parameters that had been edited since, or a request that had read
\* another row (strategies.py:785, strategy_backtest_task.py).
Unbacked == /\ strategy.status \in {"VALIDATED", "PAPER", "LIVE"}
            /\ strategy.metrics # strategy.params
StaleVerdict == \E w \in Backtesters : backtester[w] \notin {None, strategy.params}
StaleRequest == \E h \in Requests : /\ request[h].pc = "commit"
                                   /\ request[h].row # strategy
OnlyStaleCommitsUnback ==
    [][~Unbacked /\ Unbacked' => StaleVerdict \/ StaleRequest]_vars

\* A backtest reaches a verdict, also when its worker is lost, unless a
\* message was never sent, or a task was killed by the time limit or could not
\* commit its verdict.
BacktestSettles ==
    strategy.status = "BACKTESTING" ~>
        strategy.status # "BACKTESTING" \/ "backtest" \in dropped

\* A campaign ends, also when its worker is lost, so that another one can be
\* created, unless its message was never sent or its task was revoked, killed
\* by the time limit or unable to mark its failure.
CampaignEnds ==
    \A c \in Campaigns :
        campaign[c].status \in Active ~>
            campaign[c].status \notin Active \/ c \in dropped \cup revoked
=============================================================================
