--------------------------- MODULE StrategyProofs ---------------------------
(***************************************************************************)
(* The safety invariants of Strategy hold for every set of parameters,     *)
(* campaigns, requests and workers, for all bounds and all faults.         *)
(*                                                                         *)
(* The invariant adds to the properties what a process in progress knows:  *)
(* a request its rows, an optimizer its campaign, and a request that has   *)
(* read a validated or promoted strategy that a backtest has passed.       *)
(***************************************************************************)
EXTENDS Strategy, TLAPS

-----------------------------------------------------------------------------
(* The inductive invariant.                                                *)

\* A request in progress has read the strategy and knows its campaign.
RequestsOK ==
    /\ request \in [Requests -> Request]
    /\ \A h \in Requests :
           request[h].pc # "idle" =>
               /\ request[h].row \in Row
               /\ \/ request[h].op \in {"accept", "reject", "cancel"}
                  \/ At(h, "optimize", "send") \/ At(h, "optimize", "note")
                  => request[h].campaign \in Campaigns

OptimizersOK ==
    /\ optimizer \in [Optimizers -> Optimizer]
    /\ \A w \in Optimizers :
           IF optimizer[w].pc = "idle"
           THEN optimizer[w].campaign = None
           ELSE optimizer[w].campaign \in Campaigns

BacktestersOK == backtester \in [Backtesters -> Params \cup {None}]

CampaignsOK == campaign \in [Campaigns -> Campaign]

StrategyOK == strategy \in Row

CountersOK ==
    /\ backtests \in Nat
    /\ searches \subseteq Campaigns
    /\ revoked \subseteq Campaigns
    /\ served \in 0..MaxRequests
    /\ crashes \in 0..MaxCrashes
    /\ dropped \subseteq Campaigns \cup {"backtest"}
    /\ passed \in BOOLEAN

Shape == /\ RequestsOK /\ OptimizersOK /\ BacktestersOK
         /\ CampaignsOK /\ StrategyOK /\ CountersOK

\* Whoever has read a validated or promoted strategy knows of its validation.
ReadersKnow ==
    \A h \in Requests :
        /\ request[h].pc # "idle"
        /\ request[h].row.status \in {"VALIDATED", "PAPER", "LIVE"}
        => passed

IInv == /\ Shape
        /\ ReadersKnow /\ PromotedAfterValidation
        /\ NoStrandedBacktest
        /\ ActiveCampaignHasTask

LEMMA ShapeTyped == Shape => TypeOK
BY DEF Shape, TypeOK, RequestsOK, OptimizersOK, BacktestersOK, CampaignsOK,
       StrategyOK, CountersOK

-----------------------------------------------------------------------------
(* A commit leaves a well-formed row; the status it writes is the new one  *)
(* if that differs from the one read.                                      *)
LEMMA FlushRow ==
    ASSUME NEW cur \in Row, NEW read \in Row, NEW new \in Row
    PROVE  /\ Flush(cur, read, new) \in Row
           /\ Flush(cur, read, new).status =
                  IF new.status = read.status THEN cur.status ELSE new.status
BY DEF Flush, Row

-----------------------------------------------------------------------------
(* How a request moves.                                                    *)

LEMMA BeginOK ==
    ASSUME RequestsOK, StrategyOK, CampaignsOK,
           NEW h \in Requests, NEW c \in Campaigns \cup {None},
           NEW pc \in {"check", "commit"},
           NEW op \in {"validate", "promote", "edit", "optimize", "accept",
                       "reject", "cancel"},
           op \in {"accept", "reject", "cancel"} => c \in Campaigns,
           Begin(h, op, pc, c)
    PROVE  RequestsOK'
<1> DEFINE r == [pc |-> pc, op |-> op, row |-> strategy, campaign |-> c,
                 best |-> IF c = None THEN None ELSE campaign[c].best]
<1>1. request' = [request EXCEPT ![h] = r]
    BY DEF Begin
<1>2. r.best \in Params \cup {None}
    BY DEF CampaignsOK, Campaign
<1>3. r \in Request
    BY <1>2 DEF Request, StrategyOK
<1>4. /\ r.row \in Row
      /\ r.op \in {"accept", "reject", "cancel"} => r.campaign \in Campaigns
      /\ r.pc \notin {"send", "note"}
    BY DEF StrategyOK
<1> HIDE DEF r
<1> QED
    BY <1>1, <1>3, <1>4 DEF RequestsOK, At

LEMMA GotoOK ==
    ASSUME RequestsOK, NEW h \in Requests, request[h].pc # "idle",
           NEW pc \in {"commit", "send", "note"}, Goto(h, pc),
           request[h].op = "optimize" /\ pc \in {"send", "note"} =>
               request[h].campaign \in Campaigns
    PROVE  RequestsOK'
<1>1. request' = [request EXCEPT ![h] = [request[h] EXCEPT !.pc = pc]]
    BY DEF Goto
<1>2. request[h] \in Request
    BY DEF RequestsOK
<1>3. [request[h] EXCEPT !.pc = pc] \in Request
    BY <1>2 DEF Request
<1> QED
    BY <1>1, <1>2, <1>3 DEF RequestsOK, At, Request

LEMMA ReturnOK ==
    ASSUME RequestsOK, NEW h \in Requests, Return(h)
    PROVE  RequestsOK'
<1>1. IdleRequest \in Request /\ IdleRequest.pc = "idle"
    BY DEF IdleRequest, Request
<1> QED
    BY <1>1 DEF RequestsOK, Return, At

LEMMA RequestsStep == ASSUME Shape, Next PROVE RequestsOK'
<1> USE DEF Shape
<1>1. ASSUME NEW h \in Requests, ReadStrategy(h) PROVE RequestsOK'
    BY <1>1, BeginOK DEF ReadStrategy, ReadValidate, ReadPromote, ReadEdit, ReadOptimize
<1>2. ASSUME NEW h \in Requests, NEW c \in Campaigns, ReadCampaign(h, c)
      PROVE  RequestsOK'
    BY <1>2, BeginOK DEF ReadCampaign, ReadAccept, ReadReject, ReadCancel
<1>3. ASSUME NEW h \in Requests, Serve(h) PROVE RequestsOK'
  <2>1. CASE CommitValidate(h) \/ CommitAccept(h) \/ CommitCancel(h)
    BY <2>1, GotoOK DEF CommitValidate, CommitAccept, CommitCancel, At
  <2>2. CASE SendBacktest(h) \/ CommitPromote(h) \/ CommitEdit(h) \/ NoteTask(h)
             \/ CommitReject(h) \/ Revoke(h)
    BY <2>2, ReturnOK
    DEF SendBacktest, CommitPromote, CommitEdit, NoteTask, CommitReject, Revoke
  <2>3. CASE CheckActive(h)
    BY <2>3, ReturnOK, GotoOK DEF CheckActive, At
  <2>4. CASE SendCampaign(h)
    <3>1. request[h].campaign \in Campaigns
        BY <2>4 DEF SendCampaign, RequestsOK, At
    <3> QED
        BY <2>4, <3>1, ReturnOK, GotoOK DEF SendCampaign, At
  <2>5. ASSUME NEW c \in Campaigns, InsertCampaign(h, c) PROVE RequestsOK'
    <3>1. request' = [request EXCEPT ![h] =
                         [request[h] EXCEPT !.pc = "send", !.campaign = c]]
        BY <2>5 DEF InsertCampaign
    <3>2. /\ request[h] \in Request /\ request[h].row \in Row
        BY <2>5 DEF InsertCampaign, RequestsOK, At
    <3>3. [request[h] EXCEPT !.pc = "send", !.campaign = c] \in Request
        BY <3>2 DEF Request
    <3> QED
        BY <3>1, <3>2, <3>3 DEF RequestsOK, At, Request
  <2>6. CASE ReadAccepted(h)
    <3>1. request' = [request EXCEPT ![h] =
                         [request[h] EXCEPT !.pc = "commit", !.row = strategy]]
        BY <2>6 DEF ReadAccepted
    <3>2. /\ request[h] \in Request /\ request[h].op = "accept"
          /\ request[h].campaign \in Campaigns
        BY <2>6 DEF ReadAccepted, RequestsOK, At
    <3>3. [request[h] EXCEPT !.pc = "commit", !.row = strategy] \in Request
        BY <3>2 DEF Request, StrategyOK
    <3> QED
        BY <3>1, <3>2, <3>3 DEF RequestsOK, At, Request, StrategyOK
  <2> QED
    BY <1>3, <2>1, <2>2, <2>3, <2>4, <2>5, <2>6 DEF Serve
<1>4. CASE UNCHANGED request
    BY <1>4 DEF RequestsOK, At
<1>5. ASSUME NEW w \in Backtesters, Backtest(w) \/ FailVerdict(w) \/ LoseBacktester(w)
      PROVE  UNCHANGED request
    BY <1>5 DEF Backtest, TakeBacktest, FinishBacktest, FailVerdict, LoseBacktester
<1>6. ASSUME NEW w \in Optimizers,
             \/ Optimize(w) \/ EndSearch(w) \/ FailSearch(w)
             \/ FailUnmarked(w) \/ LoseOptimizer(w) \/ Terminate(w)
      PROVE  UNCHANGED request
    BY <1>6 DEF Optimize, TakeSearch, MarkRunning, Baseline, FinishEvolve,
        CheckCancelled, Search, Complete, Acknowledge, EndSearch, FailSearch,
        FailUnmarked, LoseOptimizer, Terminate
<1>7. ASSUME NEW c \in Campaigns, Discard(c) PROVE UNCHANGED request
    BY <1>7 DEF Discard
<1> QED
    BY <1>1, <1>2, <1>3, <1>4, <1>5, <1>6, <1>7 DEF Next

-----------------------------------------------------------------------------
(* How a worker of the optimizer moves.                                    *)

LEMMA StepOK ==
    ASSUME OptimizersOK, NEW w \in Optimizers, optimizer[w].pc # "idle",
           NEW pc \in {"baseline", "evolve", "check", "search", "complete", "ack"},
           Step(w, pc)
    PROVE  OptimizersOK'
<1>1. optimizer' = [optimizer EXCEPT ![w] = [optimizer[w] EXCEPT !.pc = pc]]
    BY DEF Step
<1>2. optimizer[w] \in Optimizer
    BY DEF OptimizersOK
<1>3. [optimizer[w] EXCEPT !.pc = pc] \in Optimizer
    BY <1>2 DEF Optimizer
<1> QED
    BY <1>1, <1>2, <1>3 DEF OptimizersOK, Optimizer

LEMMA OptimizersStep == ASSUME Shape, Next PROVE OptimizersOK'
<1> USE DEF Shape
<1>1. ASSUME NEW h \in Requests, ReadStrategy(h) \/ Serve(h)
      PROVE  UNCHANGED optimizer
  <2>1. CASE ReadStrategy(h)
    BY <2>1 DEF ReadStrategy, ReadValidate, ReadPromote, ReadEdit, ReadOptimize,
                campaignVars
  <2>2. CASE Serve(h)
    BY <2>2 DEF Serve, CommitValidate, SendBacktest, CommitPromote, CommitEdit,
        CheckActive, SendCampaign, NoteTask, InsertCampaign, ReadAccepted, CommitAccept,
        CommitReject, CommitCancel, Revoke, campaignVars
  <2> QED
    BY <1>1, <2>1, <2>2
<1>2. ASSUME NEW h \in Requests, NEW c \in Campaigns, ReadCampaign(h, c)
      PROVE  UNCHANGED optimizer
    BY <1>2 DEF ReadCampaign, ReadAccept, ReadReject, ReadCancel, campaignVars
<1>3. ASSUME NEW w \in Backtesters, Backtest(w) \/ FailVerdict(w) \/ LoseBacktester(w)
      PROVE  UNCHANGED optimizer
    BY <1>3 DEF Backtest, TakeBacktest, FinishBacktest, FailVerdict,
        LoseBacktester, campaignVars
<1>4. ASSUME NEW c \in Campaigns, Discard(c) PROVE UNCHANGED optimizer
    BY <1>4 DEF Discard
<1>5. CASE UNCHANGED optimizer
    BY <1>5 DEF OptimizersOK
<1>6. IdleOptimizer \in Optimizer /\ IdleOptimizer.pc = "idle" /\ IdleOptimizer.campaign = None
    BY DEF IdleOptimizer, Optimizer
<1>7. ASSUME NEW w \in Optimizers,
             \/ Optimize(w) \/ EndSearch(w) \/ FailSearch(w)
             \/ FailUnmarked(w) \/ LoseOptimizer(w) \/ Terminate(w)
      PROVE  OptimizersOK'
  <2>1. ASSUME NEW c \in Campaigns, TakeSearch(w, c) PROVE OptimizersOK'
    <3>1. [pc |-> "mark", campaign |-> c] \in Optimizer
        BY DEF Optimizer
    <3> QED
        BY <2>1, <3>1 DEF TakeSearch, OptimizersOK
  <2>2. CASE MarkRunning(w) \/ FinishEvolve(w) \/ Search(w) \/ Complete(w)
             \/ EndSearch(w) \/ FailSearch(w) \/ FailUnmarked(w)
    BY <2>2, StepOK
    DEF MarkRunning, FinishEvolve, Search, Complete, EndSearch, FailSearch,
        FailUnmarked, Working
  <2>3. CASE Baseline(w) \/ CheckCancelled(w)
    BY <2>3, StepOK DEF Baseline, CheckCancelled, Working
  <2>4. CASE Acknowledge(w) \/ LoseOptimizer(w) \/ Terminate(w)
    BY <2>4, <1>6 DEF Acknowledge, LoseOptimizer, Terminate, OptimizersOK
  <2> QED
    BY <1>7, <2>1, <2>2, <2>3, <2>4 DEF Optimize
<1> QED
    BY <1>1, <1>2, <1>3, <1>4, <1>5, <1>7 DEF Next

-----------------------------------------------------------------------------
(* The backtests, the strategy and the validation it has passed.           *)

\* What a backtest writes.
LEMMA FinishBacktestWrites ==
    ASSUME Shape, NEW w \in Backtesters, FinishBacktest(w)
    PROVE  /\ strategy' \in Row
           /\ strategy'.status \in {"VALIDATED", "REJECTED"}
           /\ strategy'.status = "VALIDATED" => passed'
           /\ passed => passed'
<1>1. PICK status \in {"VALIDATED", "REJECTED"}, m \in Metrics :
          /\ Verdict(status, m)
          /\ status = "VALIDATED" => passed' = TRUE
          /\ passed' = TRUE \/ UNCHANGED passed
    BY DEF FinishBacktest, Shape, BacktestersOK, Metrics
<1>2. strategy' \in Row /\ strategy'.status = status
    BY <1>1 DEF Verdict, Shape, StrategyOK, Row
<1> QED
    BY <1>1, <1>2

\* What a commit of a request writes.
LEMMA CommitWrites ==
    ASSUME Shape, NEW h \in Requests,
           CommitValidate(h) \/ CommitPromote(h) \/ CommitEdit(h) \/ CommitAccept(h)
    PROVE  /\ strategy' \in Row
           /\ \/ strategy'.status = strategy.status
              \/ /\ CommitValidate(h) \/ CommitAccept(h)
                 /\ strategy'.status = "BACKTESTING"
              \/ CommitEdit(h) /\ strategy'.status = "DRAFT"
              \/ /\ CommitPromote(h)
                 /\ strategy'.status \in {"PAPER", "LIVE"}
                 /\ request[h].row.status \in {"VALIDATED", "PAPER"}
<1> USE DEF Shape, StrategyOK
<1> DEFINE row == request[h].row
<1>1. row \in Row /\ request[h] \in Request
    BY DEF RequestsOK, CommitValidate, CommitPromote, CommitEdit, CommitAccept, At
<1> HIDE DEF row
<1>2. CASE CommitValidate(h)
  <2> DEFINE new == [row EXCEPT !.status = "BACKTESTING", !.metrics = "empty"]
  <2>1. strategy' = Flush(strategy, row, new)
    BY <1>2 DEF CommitValidate, row
  <2>2. new \in Row /\ new.status = "BACKTESTING"
    BY <1>1 DEF Row, Metrics
  <2> HIDE DEF new
  <2> QED
    BY <1>1, <1>2, <2>1, <2>2, FlushRow
<1>3. CASE CommitPromote(h)
  <2>1. PICK target \in Promotions(row.status) :
            strategy' = Flush(strategy, row, [row EXCEPT !.status = target])
    BY <1>3 DEF CommitPromote, row
  <2>2. target \in {"PAPER", "LIVE"} /\ row.status \in {"VALIDATED", "PAPER"}
    BY <1>1 DEF Promotions, Row
  <2> DEFINE new == [row EXCEPT !.status = target]
  <2>3. new \in Row /\ new.status = target
    BY <1>1, <2>2 DEF Row
  <2>4. strategy' = Flush(strategy, row, new)
    BY <2>1
  <2> HIDE DEF new
  <2> QED
    BY <1>1, <1>3, <2>2, <2>3, <2>4, FlushRow DEF row
<1>4. CASE CommitEdit(h)
  <2>1. CASE UNCHANGED strategy
    BY <2>1
  <2>2. ASSUME NEW p \in Params,
               strategy' = Flush(strategy, row,
                   [status |-> "DRAFT", params |-> p, metrics |-> "empty"])
        PROVE  strategy' \in Row /\ strategy'.status \in {strategy.status, "DRAFT"}
    <3> DEFINE new == [status |-> "DRAFT", params |-> p, metrics |-> "empty"]
    <3>1. new \in Row /\ new.status = "DRAFT"
        BY DEF Row, Metrics
    <3>2. strategy' = Flush(strategy, row, new)
        BY <2>2
    <3> HIDE DEF new
    <3> QED
        BY <1>1, <3>1, <3>2, FlushRow
  <2> QED
    BY <1>4, <2>1, <2>2 DEF CommitEdit, row
<1>5. CASE CommitAccept(h)
  <2> DEFINE p == IF request[h].best = None THEN row.params ELSE request[h].best
             new == [status |-> "BACKTESTING", params |-> p, metrics |-> "empty"]
  <2>1. p \in Params
    BY <1>1 DEF Request, Row
  <2>2. strategy' = Flush(strategy, row, new)
    BY <1>5 DEF CommitAccept, row
  <2> HIDE DEF p
  <2>3. new \in Row /\ new.status = "BACKTESTING"
    BY <2>1 DEF Row, Metrics
  <2> HIDE DEF new
  <2> QED
    BY <1>1, <1>5, <2>2, <2>3, FlushRow
<1> QED
    BY <1>2, <1>3, <1>4, <1>5

\* Who writes the strategy, and who leaves it and its backtests alone.
BacktestsSame == UNCHANGED <<strategy, backtester, backtests, passed>>

LEMMA QuietSteps ==
    /\ \A h \in Requests :
           \/ ReadStrategy(h) \/ CheckActive(h) \/ SendCampaign(h) \/ NoteTask(h)
           \/ ReadAccepted(h) \/ CommitReject(h) \/ CommitCancel(h) \/ Revoke(h)
           => BacktestsSame
    /\ \A h \in Requests, c \in Campaigns :
           ReadCampaign(h, c) \/ InsertCampaign(h, c) => BacktestsSame
    /\ \A w \in Optimizers :
           \/ Optimize(w) \/ EndSearch(w) \/ FailSearch(w)
           \/ FailUnmarked(w) \/ LoseOptimizer(w) \/ Terminate(w)
           => BacktestsSame
    /\ \A c \in Campaigns : Discard(c) => BacktestsSame
<1> USE DEF BacktestsSame, strategyVars
<1>1. ASSUME NEW h \in Requests,
             \/ ReadStrategy(h) \/ CheckActive(h) \/ SendCampaign(h) \/ NoteTask(h)
             \/ ReadAccepted(h) \/ CommitReject(h) \/ CommitCancel(h) \/ Revoke(h)
      PROVE  BacktestsSame
    BY <1>1 DEF ReadStrategy, ReadValidate, ReadPromote, ReadEdit, ReadOptimize,
        CheckActive, SendCampaign, NoteTask, ReadAccepted, CommitReject,
        CommitCancel, Revoke
<1>2. ASSUME NEW h \in Requests, NEW c \in Campaigns,
             ReadCampaign(h, c) \/ InsertCampaign(h, c)
      PROVE  BacktestsSame
    BY <1>2 DEF ReadCampaign, ReadAccept, ReadReject, ReadCancel, InsertCampaign
<1>3. ASSUME NEW w \in Optimizers,
             \/ Optimize(w) \/ EndSearch(w) \/ FailSearch(w)
             \/ FailUnmarked(w) \/ LoseOptimizer(w) \/ Terminate(w)
      PROVE  BacktestsSame
    BY <1>3 DEF Optimize, TakeSearch, MarkRunning, Baseline, FinishEvolve,
        CheckCancelled, Search, Complete, Acknowledge, EndSearch, FailSearch,
        FailUnmarked, LoseOptimizer, Terminate
<1>4. ASSUME NEW c \in Campaigns, Discard(c) PROVE BacktestsSame
    BY <1>4 DEF Discard
<1> QED
    BY <1>1, <1>2, <1>3, <1>4

LEMMA BacktestersStep == ASSUME Shape, Next PROVE BacktestersOK' /\ StrategyOK'
<1> USE DEF Shape
<1>1. CASE BacktestsSame
    BY <1>1 DEF BacktestsSame, BacktestersOK, StrategyOK
<1>2. ASSUME NEW h \in Requests, SendBacktest(h) PROVE BacktestersOK' /\ StrategyOK'
    BY <1>2 DEF SendBacktest, BacktestersOK, StrategyOK
<1>3. ASSUME NEW h \in Requests,
             CommitValidate(h) \/ CommitPromote(h) \/ CommitEdit(h) \/ CommitAccept(h)
      PROVE  BacktestersOK' /\ StrategyOK'
  <2>1. UNCHANGED backtester
    BY <1>3 DEF CommitValidate, CommitPromote, CommitEdit, CommitAccept
  <2> QED
    BY <1>3, <2>1, CommitWrites DEF BacktestersOK, StrategyOK
<1>4. ASSUME NEW w \in Backtesters, TakeBacktest(w)
      PROVE  BacktestersOK' /\ StrategyOK'
    BY <1>4 DEF TakeBacktest, BacktestersOK, StrategyOK, Row
<1>5. ASSUME NEW w \in Backtesters, FinishBacktest(w)
      PROVE  BacktestersOK' /\ StrategyOK'
  <2>1. backtester' = [backtester EXCEPT ![w] = None]
    BY <1>5 DEF FinishBacktest
  <2> QED
    BY <1>5, <2>1, FinishBacktestWrites DEF BacktestersOK, StrategyOK
<1>6. ASSUME NEW w \in Backtesters, FailVerdict(w) \/ LoseBacktester(w)
      PROVE  BacktestersOK' /\ StrategyOK'
    BY <1>6 DEF FailVerdict, LoseBacktester, BacktestersOK, StrategyOK
<1> QED
    BY <1>1, <1>2, <1>3, <1>4, <1>5, <1>6, QuietSteps DEF Next, Serve, Backtest

-----------------------------------------------------------------------------
(* Campaigns and counters.                                                 *)

LEMMA CampaignWrites ==
    ASSUME CampaignsOK, NEW c \in Campaigns
    PROVE  /\ \A s \in CampaignStatus : SetStatus(c, s) => CampaignsOK'
           /\ \A p \in Params \cup {None}, s \in CampaignStatus :
                  campaign' = [campaign EXCEPT ![c].status = s, ![c].best = p]
                      => CampaignsOK'
           /\ \A p \in Params \cup {None} :
                  campaign' = [campaign EXCEPT ![c].best = p] => CampaignsOK'
           /\ campaign' = [campaign EXCEPT ![c].task = TRUE] => CampaignsOK'
           /\ campaign[c].initial \in Params \cup {None}
<1>1. campaign[c] \in Campaign /\ campaign[c].initial \in Params \cup {None}
    BY DEF CampaignsOK, Campaign
<1>2. ASSUME NEW new \in Campaign, campaign' = [campaign EXCEPT ![c] = new]
      PROVE  CampaignsOK'
    BY <1>2 DEF CampaignsOK
<1>3. ASSUME NEW s \in CampaignStatus, SetStatus(c, s) PROVE CampaignsOK'
  <2>1. [campaign[c] EXCEPT !.status = s] \in Campaign
    BY <1>1 DEF Campaign
  <2> QED
    BY <1>2, <1>3, <2>1 DEF SetStatus
<1>4. ASSUME NEW p \in Params \cup {None}, NEW s \in CampaignStatus,
             campaign' = [campaign EXCEPT ![c].status = s, ![c].best = p]
      PROVE  CampaignsOK'
  <2>1. [campaign[c] EXCEPT !.status = s, !.best = p] \in Campaign
    BY <1>1 DEF Campaign
  <2>2. campaign' = [campaign EXCEPT ![c] =
                        [campaign[c] EXCEPT !.status = s, !.best = p]]
    BY <1>4 DEF CampaignsOK
  <2> QED
    BY <1>2, <2>1, <2>2
<1>5. ASSUME NEW p \in Params \cup {None},
             campaign' = [campaign EXCEPT ![c].best = p]
      PROVE  CampaignsOK'
  <2>1. [campaign[c] EXCEPT !.best = p] \in Campaign
    BY <1>1 DEF Campaign
  <2> QED
    BY <1>2, <1>5, <2>1
<1>6. ASSUME campaign' = [campaign EXCEPT ![c].task = TRUE] PROVE CampaignsOK'
  <2>1. [campaign[c] EXCEPT !.task = TRUE] \in Campaign
    BY <1>1 DEF Campaign
  <2> QED
    BY <1>2, <1>6, <2>1
<1> QED
    BY <1>1, <1>3, <1>4, <1>5, <1>6

LEMMA CampaignsStep == ASSUME Shape, Next PROVE CampaignsOK'
<1> USE DEF Shape
<1>1. CASE UNCHANGED campaign
    BY <1>1 DEF CampaignsOK
<1>2. ASSUME NEW h \in Requests, ReadStrategy(h) PROVE UNCHANGED campaign
    BY <1>2 DEF ReadStrategy, ReadValidate, ReadPromote, ReadEdit, ReadOptimize, campaignVars
<1>3. ASSUME NEW h \in Requests, NEW c \in Campaigns, ReadCampaign(h, c)
      PROVE  UNCHANGED campaign
    BY <1>3 DEF ReadCampaign, ReadAccept, ReadReject, ReadCancel, campaignVars
<1>4. ASSUME NEW h \in Requests, Serve(h) PROVE CampaignsOK'
  <2>1. CASE CommitValidate(h) \/ SendBacktest(h) \/ CommitPromote(h) \/ CommitEdit(h)
             \/ CheckActive(h) \/ SendCampaign(h) \/ ReadAccepted(h) \/ Revoke(h)
    <3>1. UNCHANGED campaign
        BY <2>1 DEF CommitValidate, SendBacktest, CommitPromote, CommitEdit,
            CheckActive, SendCampaign, ReadAccepted, Revoke, campaignVars
    <3> QED
        BY <1>1, <3>1
  <2>2. CASE NoteTask(h)
    <3>1. request[h].campaign \in Campaigns
        BY <2>2 DEF NoteTask, RequestsOK, At
    <3> QED
        BY <2>2, <3>1, CampaignWrites DEF NoteTask
  <2>3. CASE CommitAccept(h) \/ CommitReject(h) \/ CommitCancel(h)
    <3>1. request[h].campaign \in Campaigns
        BY <2>3 DEF CommitAccept, CommitReject, CommitCancel, RequestsOK, At
    <3>2. {"ACCEPTED", "REJECTED_BY_USER", "CANCELLED"} \subseteq CampaignStatus
        BY DEF CampaignStatus
    <3> QED
        BY <2>3, <3>1, <3>2, CampaignWrites DEF CommitAccept, CommitReject, CommitCancel
  <2>4. ASSUME NEW c \in Campaigns, InsertCampaign(h, c) PROVE CampaignsOK'
    <3> DEFINE new == [NoCampaign EXCEPT !.status = "PENDING",
                                         !.initial = request[h].row.params]
    <3>1. request[h].row.params \in Params
        BY <2>4 DEF InsertCampaign, RequestsOK, At, Row
    <3>2. new \in Campaign
        BY <3>1 DEF NoCampaign, Campaign, CampaignStatus, Active
    <3>3. campaign' = [campaign EXCEPT ![c] = new]
        BY <2>4 DEF InsertCampaign
    <3> HIDE DEF new
    <3> QED
        BY <3>2, <3>3 DEF CampaignsOK
  <2> QED
    BY <1>4, <2>1, <2>2, <2>3, <2>4 DEF Serve
<1>5. ASSUME NEW w \in Backtesters, Backtest(w) \/ FailVerdict(w) \/ LoseBacktester(w)
      PROVE  UNCHANGED campaign
    BY <1>5 DEF Backtest, TakeBacktest, FinishBacktest, FailVerdict,
        LoseBacktester, campaignVars
<1>6. ASSUME NEW c \in Campaigns, Discard(c) PROVE UNCHANGED campaign
    BY <1>6 DEF Discard
<1>7. ASSUME NEW w \in Optimizers,
             \/ Optimize(w) \/ EndSearch(w) \/ FailSearch(w)
             \/ FailUnmarked(w) \/ LoseOptimizer(w) \/ Terminate(w)
      PROVE  CampaignsOK'
  <2>1. optimizer[w].pc # "idle" => optimizer[w].campaign \in Campaigns
    BY DEF OptimizersOK
  <2>2. {"RUNNING", "COMPLETED", "FAILED"} \subseteq CampaignStatus
    BY DEF CampaignStatus, Active
  <2>3. ASSUME NEW c \in Campaigns, TakeSearch(w, c) PROVE CampaignsOK'
    BY <2>3, CampaignWrites DEF TakeSearch
  <2>4. CASE MarkRunning(w) \/ Complete(w)
    BY <2>1, <2>2, <2>4, CampaignWrites DEF MarkRunning, Complete, Working
  <2>5. CASE Baseline(w)
    <3>1. strategy.params \in Params
        BY DEF StrategyOK, Row
    <3> QED
        BY <2>1, <2>5, <3>1, CampaignWrites DEF Baseline, Working
  <2>6. CASE FinishEvolve(w)
    BY <2>1, <2>2, <2>6, CampaignWrites DEF FinishEvolve, Working
  <2>7. CASE Search(w)
    BY <2>1, <2>7, CampaignWrites DEF Search, Working
  <2>8. CASE FailSearch(w)
    BY <1>1, <2>1, <2>2, <2>8, CampaignWrites DEF FailSearch
  <2>9. CASE CheckCancelled(w) \/ EndSearch(w) \/ Acknowledge(w)
             \/ FailUnmarked(w) \/ LoseOptimizer(w) \/ Terminate(w)
    BY <1>1, <2>9
    DEF CheckCancelled, EndSearch, Acknowledge, FailUnmarked, LoseOptimizer,
        Terminate
  <2> QED
    BY <1>7, <2>3, <2>4, <2>5, <2>6, <2>7, <2>8, <2>9 DEF Optimize
<1> QED
    BY <1>1, <1>2, <1>3, <1>4, <1>5, <1>6, <1>7 DEF Next

LEMMA CountersStep == ASSUME Shape, Next PROVE CountersOK'
<1> USE StrategyAssumption DEF Shape, CountersOK
<1>1. ASSUME NEW h \in Requests, ReadStrategy(h) PROVE CountersOK'
    BY <1>1 DEF ReadStrategy, ReadValidate, ReadPromote, ReadEdit, ReadOptimize, Begin, strategyVars, campaignVars
<1>2. ASSUME NEW h \in Requests, NEW c \in Campaigns, ReadCampaign(h, c)
      PROVE  CountersOK'
    BY <1>2 DEF ReadCampaign, ReadAccept, ReadReject, ReadCancel, Begin,
        strategyVars, campaignVars
<1>3. ASSUME NEW h \in Requests, Serve(h) PROVE CountersOK'
  <2>1. CASE SendBacktest(h)
    BY <2>1 DEF SendBacktest, campaignVars
  <2>2. CASE SendCampaign(h)
    <3>1. request[h].campaign \in Campaigns
        BY <2>2 DEF SendCampaign, RequestsOK, At
    <3> QED
        BY <2>2, <3>1 DEF SendCampaign, strategyVars
  <2>3. CASE Revoke(h)
    <3>1. request[h].campaign \in Campaigns
        BY <2>3 DEF Revoke, RequestsOK, At
    <3> QED
        BY <2>3, <3>1 DEF Revoke, strategyVars
  <2>4. CASE CommitValidate(h) \/ CommitPromote(h) \/ CommitEdit(h) \/ CheckActive(h)
             \/ NoteTask(h) \/ ReadAccepted(h) \/ CommitAccept(h) \/ CommitReject(h)
             \/ CommitCancel(h)
    BY <2>4 DEF CommitValidate, CommitPromote, CommitEdit, CheckActive, NoteTask, ReadAccepted,
        CommitAccept, CommitReject, CommitCancel, strategyVars, campaignVars
  <2>5. ASSUME NEW c \in Campaigns, InsertCampaign(h, c) PROVE CountersOK'
    BY <2>5 DEF InsertCampaign, strategyVars
  <2> QED
    BY <1>3, <2>1, <2>2, <2>3, <2>4, <2>5 DEF Serve
<1>4. ASSUME NEW w \in Backtesters, Backtest(w) \/ FailVerdict(w) \/ LoseBacktester(w)
      PROVE  CountersOK'
  <2>1. CASE TakeBacktest(w) \/ FailVerdict(w) \/ LoseBacktester(w)
    BY <2>1 DEF TakeBacktest, FailVerdict,
        LoseBacktester, campaignVars
  <2>2. CASE FinishBacktest(w)
    <3>1. UNCHANGED <<backtests, searches, revoked, served, crashes, dropped>>
        BY <2>2 DEF FinishBacktest, campaignVars
    <3>2. passed' = TRUE \/ passed' = passed
        BY <2>2 DEF FinishBacktest
    <3>3. passed' \in BOOLEAN
        BY <3>2
    <3> QED
        BY <3>1, <3>3
  <2> QED
    BY <1>4, <2>1, <2>2 DEF Backtest
<1>5. ASSUME NEW w \in Optimizers,
             \/ Optimize(w) \/ EndSearch(w) \/ FailSearch(w) \/ Terminate(w)
      PROVE  CountersOK'
    BY <1>5 DEF Optimize, TakeSearch, MarkRunning, Baseline, FinishEvolve,
        CheckCancelled, Search, Complete, Acknowledge, EndSearch, FailSearch, Terminate, strategyVars
<1>6. ASSUME NEW w \in Optimizers, FailUnmarked(w) \/ LoseOptimizer(w)
      PROVE  CountersOK'
  <2>1. optimizer[w].campaign \in Campaigns
    BY <1>6 DEF FailUnmarked, LoseOptimizer, OptimizersOK, Working
  <2> QED
    BY <1>6, <2>1 DEF FailUnmarked, LoseOptimizer, strategyVars
<1>7. ASSUME NEW c \in Campaigns, Discard(c) PROVE CountersOK'
    BY <1>7 DEF Discard, strategyVars
<1> QED
    BY <1>1, <1>2, <1>3, <1>4, <1>5, <1>6, <1>7 DEF Next

LEMMA ShapeStep == ASSUME Shape, Next PROVE Shape'
BY RequestsStep, OptimizersStep, BacktestersStep, CampaignsStep, CountersStep
DEF Shape

-----------------------------------------------------------------------------
(* No strategy is promoted before a backtest has passed.                   *)

\* A request in progress keeps the row it has read; one that begins reads the
\* row of the moment.
RowsKept ==
    \A g \in Requests :
        request'[g].pc # "idle" =>
            \/ request[g].pc # "idle" /\ request'[g].row = request[g].row
            \/ request'[g].row = strategy

LEMMA RowsKeptStep == ASSUME Shape, Next PROVE RowsKept
<1> USE DEF Shape, RowsKept
<1>1. CASE UNCHANGED request
    BY <1>1
<1>2. ASSUME NEW h \in Requests, NEW op, NEW pc, NEW c, Begin(h, op, pc, c)
      PROVE  RowsKept
    BY <1>2 DEF Begin, RequestsOK
<1>3. ASSUME NEW h \in Requests, NEW pc, request[h].pc # "idle", Goto(h, pc)
      PROVE  RowsKept
    BY <1>3 DEF Goto, RequestsOK, Request
<1>4. ASSUME NEW h \in Requests, Return(h) PROVE RowsKept
    BY <1>4 DEF Return, RequestsOK, IdleRequest
<1>5. ASSUME NEW h \in Requests, ReadStrategy(h) PROVE RowsKept
    BY <1>2, <1>5 DEF ReadStrategy, ReadValidate, ReadPromote, ReadEdit, ReadOptimize
<1>6. ASSUME NEW h \in Requests, NEW c \in Campaigns, ReadCampaign(h, c)
      PROVE  RowsKept
    BY <1>2, <1>6 DEF ReadCampaign, ReadAccept, ReadReject, ReadCancel
<1>7. ASSUME NEW h \in Requests, Serve(h) PROVE RowsKept
  <2>1. CASE CommitValidate(h) \/ CommitAccept(h) \/ CommitCancel(h) \/ CheckActive(h)
             \/ SendCampaign(h)
    BY <1>3, <1>4, <2>1
    DEF CommitValidate, CommitAccept, CommitCancel, CheckActive, SendCampaign, At
  <2>2. CASE SendBacktest(h) \/ CommitPromote(h) \/ CommitEdit(h) \/ NoteTask(h)
             \/ CommitReject(h) \/ Revoke(h)
    BY <1>4, <2>2
    DEF SendBacktest, CommitPromote, CommitEdit, NoteTask, CommitReject, Revoke
  <2>3. ASSUME NEW c \in Campaigns, InsertCampaign(h, c) PROVE RowsKept
    BY <2>3 DEF InsertCampaign, At, RequestsOK, Request
  <2>4. CASE ReadAccepted(h)
    BY <2>4 DEF ReadAccepted, RequestsOK, Request
  <2> QED
    BY <1>7, <2>1, <2>2, <2>3, <2>4 DEF Serve
<1>8. ASSUME NEW w \in Backtesters, Backtest(w) \/ FailVerdict(w) \/ LoseBacktester(w)
      PROVE  UNCHANGED request
    BY <1>8 DEF Backtest, TakeBacktest, FinishBacktest, FailVerdict, LoseBacktester
<1>9. ASSUME NEW w \in Optimizers,
             \/ Optimize(w) \/ EndSearch(w) \/ FailSearch(w)
             \/ FailUnmarked(w) \/ LoseOptimizer(w) \/ Terminate(w)
      PROVE  UNCHANGED request
    BY <1>9 DEF Optimize, TakeSearch, MarkRunning, Baseline, FinishEvolve,
        CheckCancelled, Search, Complete, Acknowledge, EndSearch, FailSearch,
        FailUnmarked, LoseOptimizer, Terminate
<1>10. ASSUME NEW c \in Campaigns, Discard(c) PROVE UNCHANGED request
    BY <1>10 DEF Discard
<1> QED
    BY <1>1, <1>5, <1>6, <1>7, <1>8, <1>9, <1>10 DEF Next

LEMMA PassedStep ==
    ASSUME Shape, ReadersKnow, PromotedAfterValidation, Next
    PROVE  ReadersKnow' /\ PromotedAfterValidation'
<1> DEFINE Good == /\ passed => passed'
                   /\ strategy'.status \in {"VALIDATED", "PAPER", "LIVE"} => passed'
<1>1. ASSUME BacktestsSame PROVE Good
    BY <1>1 DEF BacktestsSame, PromotedAfterValidation
<1>2. ASSUME NEW h \in Requests, SendBacktest(h) PROVE Good
    BY <1>2 DEF SendBacktest, PromotedAfterValidation
<1>3. ASSUME NEW h \in Requests,
             CommitValidate(h) \/ CommitPromote(h) \/ CommitEdit(h) \/ CommitAccept(h)
      PROVE  Good
  <2>1. UNCHANGED passed /\ request[h].pc # "idle"
    BY <1>3 DEF CommitValidate, CommitPromote, CommitEdit, CommitAccept, At
  <2> QED
    BY <1>3, <2>1, CommitWrites DEF PromotedAfterValidation, ReadersKnow
<1>4. ASSUME NEW w \in Backtesters,
             TakeBacktest(w) \/ FailVerdict(w) \/ LoseBacktester(w)
      PROVE  Good
    BY <1>4 DEF TakeBacktest, FailVerdict, LoseBacktester, PromotedAfterValidation
<1>5. ASSUME NEW w \in Backtesters, FinishBacktest(w) PROVE Good
    BY <1>5, FinishBacktestWrites
<1>6. Good
    BY <1>1, <1>2, <1>3, <1>4, <1>5, QuietSteps DEF Next, Serve, Backtest,
       BacktestsSame, PromotedAfterValidation
<1>7. RowsKept
    BY RowsKeptStep
<1> QED
    BY <1>6, <1>7 DEF RowsKept, ReadersKnow, PromotedAfterValidation

-----------------------------------------------------------------------------
(* No backtest is stranded.                                                *)

\* h is about to enqueue a backtest.
Sending(h) == request[h].pc = "send" /\ request[h].op \in {"validate", "accept"}

LEMMA StillUnderWay ==
    ASSUME NoStrandedBacktest, UNCHANGED <<backtests, backtester>>,
           strategy'.status = "BACKTESTING" => strategy.status = "BACKTESTING",
           \A h \in Requests : Sending(h) => Sending(h)',
           dropped \subseteq dropped'
    PROVE  NoStrandedBacktest'
BY DEF NoStrandedBacktest, BacktestUnderWay, Sending

LEMMA SendersKept ==
    ASSUME RequestsOK, NEW h \in Requests, ~ Sending(h),
           \/ \E op, pc, c : Begin(h, op, pc, c)
           \/ \E pc : Goto(h, pc)
           \/ Return(h)
    PROVE  \A g \in Requests : Sending(g) => Sending(g)'
BY DEF Sending, Begin, Goto, Return, RequestsOK

LEMMA BacktestStep ==
    ASSUME Shape, NoStrandedBacktest, Next
    PROVE  NoStrandedBacktest'
<1> USE DEF Shape
<1>1. ASSUME NEW h \in Requests, ReadStrategy(h) PROVE NoStrandedBacktest'
  <2>1. /\ \A g \in Requests : Sending(g) => Sending(g)'
        /\ UNCHANGED dropped /\ BacktestsSame
    BY <1>1, SendersKept, QuietSteps
    DEF ReadStrategy, ReadValidate, ReadPromote, ReadEdit, ReadOptimize,
        Begin, Sending, IdleRequest
  <2> QED
    BY <2>1, StillUnderWay DEF BacktestsSame
<1>2. ASSUME NEW h \in Requests, NEW c \in Campaigns, ReadCampaign(h, c)
      PROVE  NoStrandedBacktest'
  <2>1. /\ \A g \in Requests : Sending(g) => Sending(g)'
        /\ UNCHANGED dropped /\ BacktestsSame
    BY <1>2, SendersKept, QuietSteps
    DEF ReadCampaign, ReadAccept, ReadReject, ReadCancel, Begin, Sending, IdleRequest
  <2> QED
    BY <2>1, StillUnderWay DEF BacktestsSame
<1>3. ASSUME NEW h \in Requests, Serve(h) PROVE NoStrandedBacktest'
  <2>1. CASE CommitValidate(h) \/ CommitAccept(h)
    <3>1. Sending(h)'
        BY <2>1 DEF CommitValidate, CommitAccept, At, Goto, Sending, RequestsOK, Request
    <3> QED
        BY <3>1 DEF Sending, NoStrandedBacktest, BacktestUnderWay
  <2>2. CASE SendBacktest(h)
    BY <2>2 DEF SendBacktest, NoStrandedBacktest, BacktestUnderWay, CountersOK
  <2>3. CASE CommitPromote(h) \/ CommitEdit(h)
    <3>1. /\ \A g \in Requests : Sending(g) => Sending(g)'
          /\ UNCHANGED <<dropped, backtests, backtester>>
        BY <2>3, SendersKept DEF CommitPromote, CommitEdit, At, Sending
    <3>2. strategy'.status = "BACKTESTING" => strategy.status = "BACKTESTING"
        BY <2>3, CommitWrites DEF CommitPromote, CommitEdit, CommitValidate, CommitAccept, At
    <3> QED
        BY <3>1, <3>2, StillUnderWay
  <2>4. CASE CheckActive(h) \/ SendCampaign(h) \/ NoteTask(h) \/ CommitReject(h)
             \/ CommitCancel(h) \/ Revoke(h)
    <3>1. \A g \in Requests : Sending(g) => Sending(g)'
        BY <2>4, SendersKept DEF CheckActive, SendCampaign, NoteTask, CommitReject,
           CommitCancel, Revoke, At, Sending
    <3>2. dropped \subseteq dropped' /\ BacktestsSame
        BY <2>4, QuietSteps DEF CheckActive, SendCampaign, NoteTask, CommitReject,
           CommitCancel, Revoke
    <3> QED
        BY <3>1, <3>2, StillUnderWay DEF BacktestsSame
  <2>5. ASSUME NEW c \in Campaigns, InsertCampaign(h, c) PROVE NoStrandedBacktest'
    <3>1. \A g \in Requests : Sending(g) => Sending(g)'
        BY <2>5 DEF InsertCampaign, At, Sending, RequestsOK
    <3>2. UNCHANGED dropped /\ BacktestsSame
        BY <2>5, QuietSteps DEF InsertCampaign
    <3> QED
        BY <3>1, <3>2, StillUnderWay DEF BacktestsSame
  <2>6. CASE ReadAccepted(h)
    <3>1. \A g \in Requests : Sending(g) => Sending(g)'
        BY <2>6 DEF ReadAccepted, At, Sending, RequestsOK
    <3>2. UNCHANGED dropped /\ BacktestsSame
        BY <2>6, QuietSteps DEF ReadAccepted
    <3> QED
        BY <3>1, <3>2, StillUnderWay DEF BacktestsSame
  <2> QED
    BY <1>3, <2>1, <2>2, <2>3, <2>4, <2>5, <2>6 DEF Serve
<1>4. ASSUME NEW w \in Backtesters, TakeBacktest(w) PROVE NoStrandedBacktest'
  <2>1. CASE strategy.status = "BACKTESTING"
    <3>1. backtester'[w] # None
        BY <1>4, <2>1, NoneAssumption DEF TakeBacktest, BacktestersOK, StrategyOK, Row
    <3> QED
        BY <3>1 DEF NoStrandedBacktest, BacktestUnderWay
  <2>2. CASE strategy.status # "BACKTESTING"
    BY <1>4, <2>2 DEF TakeBacktest, NoStrandedBacktest
  <2> QED
    BY <2>1, <2>2
<1>5. ASSUME NEW w \in Backtesters, FinishBacktest(w) PROVE NoStrandedBacktest'
    BY <1>5, FinishBacktestWrites DEF NoStrandedBacktest
<1>6. ASSUME NEW w \in Backtesters, FailVerdict(w) \/ LoseBacktester(w)
      PROVE  NoStrandedBacktest'
    BY <1>6 DEF FailVerdict, LoseBacktester, NoStrandedBacktest, BacktestUnderWay,
        CountersOK
<1>7. ASSUME NEW w \in Optimizers,
             \/ Optimize(w) \/ EndSearch(w) \/ FailSearch(w)
             \/ FailUnmarked(w) \/ LoseOptimizer(w) \/ Terminate(w)
      PROVE  NoStrandedBacktest'
  <2>1. UNCHANGED request /\ dropped \subseteq dropped' /\ BacktestsSame
    BY <1>7, QuietSteps DEF Optimize, TakeSearch, MarkRunning, Baseline,
        FinishEvolve, CheckCancelled, Search, Complete, Acknowledge, EndSearch,
        FailSearch, FailUnmarked, LoseOptimizer, Terminate
  <2> QED
    BY <2>1, StillUnderWay DEF BacktestsSame, Sending
<1>8. ASSUME NEW c \in Campaigns, Discard(c) PROVE NoStrandedBacktest'
  <2>1. UNCHANGED <<request, dropped>> /\ BacktestsSame
    BY <1>8, QuietSteps DEF Discard
  <2> QED
    BY <2>1, StillUnderWay DEF BacktestsSame, Sending
<1> QED
    BY <1>1, <1>2, <1>3, <1>4, <1>5, <1>6, <1>7, <1>8 DEF Next, Backtest

-----------------------------------------------------------------------------
(* No active campaign is stranded.                                         *)

Alive(c) == campaign[c].status \in Active
Cared(c) == SearchUnderWay(c) \/ c \in dropped \cup revoked
Searching(w, c) == optimizer[w].campaign = c /\ ~ Working(w, "ack")
Launching(h, c) == At(h, "optimize", "send") /\ request[h].campaign = c

LEMMA StillCared ==
    ASSUME ActiveCampaignHasTask, NEW c \in Campaigns,
           Alive(c)' => Alive(c),
           c \in searches => c \in searches',
           dropped \subseteq dropped', revoked \subseteq revoked',
           \A w \in Optimizers : Searching(w, c) => Searching(w, c)',
           \A h \in Requests : Launching(h, c) => Launching(h, c)'
    PROVE  Alive(c)' => Cared(c)'
BY DEF ActiveCampaignHasTask, Alive, Cared, SearchUnderWay, Searching, Launching

LEMMA LaunchersKept ==
    ASSUME RequestsOK, NEW h \in Requests, NEW c \in Campaigns,
           ~ Launching(h, c),
           \/ \E op, pc, d : Begin(h, op, pc, d)
           \/ \E pc : Goto(h, pc)
           \/ Return(h)
    PROVE  \A g \in Requests : Launching(g, c) => Launching(g, c)'
BY DEF Launching, At, Begin, Goto, Return, RequestsOK

LEMMA SearchersKept ==
    ASSUME OptimizersOK, NEW w \in Optimizers, NEW pc, NEW c \in Campaigns,
           Step(w, pc), pc # "ack" \/ optimizer[w].campaign # c
    PROVE  \A v \in Optimizers : Searching(v, c) => Searching(v, c)'
BY DEF Searching, Step, Working, OptimizersOK, Optimizer

LEMMA RequestKeepsSearch ==
    ASSUME Shape, ActiveCampaignHasTask, NEW c \in Campaigns, NEW h \in Requests,
           Serve(h)
    PROVE  Alive(c)' => Cared(c)'
<1> USE DEF Shape
<1>1. UNCHANGED optimizer
    BY DEF Serve, CommitValidate, SendBacktest, CommitPromote, CommitEdit,
        CheckActive, SendCampaign, NoteTask, InsertCampaign, ReadAccepted, CommitAccept,
        CommitReject, CommitCancel, Revoke, campaignVars
<1>2. \A w \in Optimizers : Searching(w, c) => Searching(w, c)'
    BY <1>1 DEF Searching, Working
<1>3. CASE CommitValidate(h) \/ SendBacktest(h) \/ CommitPromote(h) \/ CommitEdit(h)
           \/ CheckActive(h) \/ Revoke(h)
  <2>1. \A g \in Requests : Launching(g, c) => Launching(g, c)'
    BY <1>3, LaunchersKept DEF CommitValidate, SendBacktest, CommitPromote,
       CommitEdit, CheckActive, Revoke, At, Launching
  <2>2. /\ UNCHANGED <<campaign, searches>>
        /\ dropped \subseteq dropped' /\ revoked \subseteq revoked'
    BY <1>3 DEF CommitValidate, SendBacktest, CommitPromote, CommitEdit,
       CheckActive, Revoke, campaignVars
  <2> QED
    BY <1>2, <2>1, <2>2, StillCared DEF Alive
<1>4. CASE CommitAccept(h) \/ CommitReject(h) \/ CommitCancel(h) \/ NoteTask(h)
  <2>1. \A g \in Requests : Launching(g, c) => Launching(g, c)'
    BY <1>4, LaunchersKept DEF CommitAccept, CommitReject, CommitCancel, NoteTask,
       At, Launching
  <2>2. Alive(c)' => Alive(c)
    BY <1>4 DEF CommitAccept, CommitReject, CommitCancel, NoteTask, SetStatus,
       Alive, Active, CampaignsOK, Campaign
  <2>3. UNCHANGED <<searches, dropped, revoked>>
    BY <1>4 DEF CommitAccept, CommitReject, CommitCancel, NoteTask
  <2> QED
    BY <1>2, <2>1, <2>2, <2>3, StillCared
<1>5. CASE SendCampaign(h)
  <2>1. CASE request[h].campaign = c
    BY <1>5, <2>1 DEF SendCampaign, Cared, SearchUnderWay
  <2>2. CASE request[h].campaign # c
    <3>1. \A g \in Requests : Launching(g, c) => Launching(g, c)'
        BY <1>5, <2>2, LaunchersKept DEF SendCampaign, Launching
    <3>2. /\ UNCHANGED <<campaign, revoked>>
          /\ searches \subseteq searches' /\ dropped \subseteq dropped'
        BY <1>5 DEF SendCampaign
    <3> QED
        BY <1>2, <3>1, <3>2, StillCared DEF Alive
  <2> QED
    BY <2>1, <2>2
<1>6. ASSUME NEW d \in Campaigns, InsertCampaign(h, d) PROVE Alive(c)' => Cared(c)'
  <2>1. CASE c = d
    <3>1. Launching(h, c)'
        BY <1>6, <2>1 DEF InsertCampaign, Launching, At, RequestsOK, Request
    <3> QED
        BY <3>1 DEF Launching, Cared, SearchUnderWay
  <2>2. CASE c # d
    <3>1. \A g \in Requests : Launching(g, c) => Launching(g, c)'
        BY <1>6 DEF InsertCampaign, Launching, At, RequestsOK
    <3>2. UNCHANGED <<searches, dropped, revoked>> /\ campaign'[c] = campaign[c]
        BY <1>6, <2>2 DEF InsertCampaign, CampaignsOK
    <3> QED
        BY <1>2, <3>1, <3>2, StillCared DEF Alive
  <2> QED
    BY <2>1, <2>2
<1>7. CASE ReadAccepted(h)
  <2>1. \A g \in Requests : Launching(g, c) => Launching(g, c)'
    BY <1>7 DEF ReadAccepted, Launching, At, RequestsOK
  <2>2. UNCHANGED <<campaign, searches, revoked, dropped>>
    BY <1>7 DEF ReadAccepted, campaignVars
  <2> QED
    BY <1>2, <2>1, <2>2, StillCared DEF Alive
<1> QED
    BY <1>3, <1>4, <1>5, <1>6, <1>7 DEF Serve

LEMMA WorkerKeepsSearch ==
    ASSUME Shape, ActiveCampaignHasTask, NEW c \in Campaigns, NEW w \in Optimizers,
           \/ Optimize(w) \/ EndSearch(w) \/ FailSearch(w)
           \/ FailUnmarked(w) \/ LoseOptimizer(w) \/ Terminate(w)
    PROVE  Alive(c)' => Cared(c)'
<1> USE DEF Shape
<1> DEFINE own == optimizer[w].campaign
<1>1. UNCHANGED <<request, revoked>> /\ dropped \subseteq dropped'
    BY DEF Optimize, TakeSearch, MarkRunning, Baseline, FinishEvolve,
        CheckCancelled, Search, Complete, Acknowledge, EndSearch, FailSearch,
        FailUnmarked, LoseOptimizer, Terminate
<1>2. \A h \in Requests : Launching(h, c) => Launching(h, c)'
    BY <1>1 DEF Launching, At
<1>3. ASSUME NEW d \in Campaigns, TakeSearch(w, d) PROVE Alive(c)' => Cared(c)'
  <2>1. CASE c = d
    <3>1. Searching(w, c)'
        BY <1>3, <2>1 DEF TakeSearch, Searching, Working, OptimizersOK
    <3> QED
        BY <3>1 DEF Searching, Cared, SearchUnderWay
  <2>2. CASE c # d
    <3>1. optimizer[w].campaign # c
        BY <1>3, NoneAssumption DEF TakeSearch, Working, OptimizersOK
    <3>2. \A v \in Optimizers : Searching(v, c) => Searching(v, c)'
        BY <1>3, <3>1 DEF TakeSearch, Searching, Working, OptimizersOK
    <3>3. (c \in searches => c \in searches') /\ campaign'[c] = campaign[c]
        BY <1>3, <2>2 DEF TakeSearch, CampaignsOK
    <3> QED
        BY <1>1, <1>2, <3>2, <3>3, StillCared DEF Alive
  <2> QED
    BY <2>1, <2>2
<1>4. CASE MarkRunning(w)
  <2>1. \A v \in Optimizers : Searching(v, c) => Searching(v, c)'
    BY <1>4, SearchersKept DEF MarkRunning
  <2>2. CASE c = own
    <3>1. Searching(w, c)
        BY <1>4, <2>2 DEF MarkRunning, Searching, Working
    <3> QED
        BY <2>1, <3>1 DEF Searching, Cared, SearchUnderWay
  <2>3. CASE c # own
    <3>1. UNCHANGED searches /\ campaign'[c] = campaign[c]
        BY <1>4, <2>3 DEF MarkRunning, SetStatus, CampaignsOK
    <3> QED
        BY <1>1, <1>2, <2>1, <3>1, StillCared DEF Alive
  <2> QED
    BY <2>2, <2>3
<1>5. CASE Baseline(w) \/ Search(w) \/ EndSearch(w)
  <2>1. \A v \in Optimizers : Searching(v, c) => Searching(v, c)'
    BY <1>5, SearchersKept DEF Baseline, Search, EndSearch
  <2>2. ASSUME NEW p, campaign' = [campaign EXCEPT ![own].best = p]
        PROVE  campaign'[c].status = campaign[c].status
    <3>1. campaign[c] \in Campaign
        BY DEF CampaignsOK
    <3>2. CASE c = own
        BY <2>2, <3>1, <3>2 DEF CampaignsOK, Campaign
    <3>3. CASE c # own
        BY <2>2, <3>3 DEF CampaignsOK
    <3> QED
        BY <3>2, <3>3
  <2>3. campaign'[c].status = campaign[c].status
    BY <1>5, <2>2 DEF Baseline, Search, EndSearch
  <2>4. UNCHANGED searches
    BY <1>5 DEF Baseline, Search, EndSearch
  <2> QED
    BY <1>1, <1>2, <2>1, <2>3, <2>4, StillCared DEF Alive
<1>6. CASE FinishEvolve(w) \/ Complete(w) \/ FailSearch(w) \/ CheckCancelled(w)
  <2>1. UNCHANGED searches
    BY <1>6 DEF FinishEvolve, Complete, FailSearch, CheckCancelled
  <2>2. CASE c = own
    <3>1. CASE FinishEvolve(w) \/ Complete(w) \/ FailSearch(w)
      <4>1. campaign[c] \in Campaign
        BY DEF CampaignsOK
      <4>2. CASE FinishEvolve(w)
        <5>1. CASE SetStatus(c, "FAILED")
            BY <4>1, <5>1 DEF SetStatus, Alive, Active, CampaignsOK, Campaign
        <5>2. ASSUME NEW p,
                     campaign' = [campaign EXCEPT ![c].status = "COMPLETED",
                                                  ![c].best = p]
              PROVE  ~ Alive(c)'
          <6>1. campaign'[c] = [campaign[c] EXCEPT !.status = "COMPLETED", !.best = p]
            BY <5>2 DEF CampaignsOK
          <6>2. campaign'[c].status = "COMPLETED"
            BY <4>1, <6>1 DEF Campaign
          <6> QED
            BY <6>2 DEF Alive, Active
        <5> QED
            BY <2>2, <4>2, <5>1, <5>2 DEF FinishEvolve
      <4>3. CASE Complete(w)
        BY <2>2, <4>1, <4>3 DEF Complete, SetStatus, Alive, Active, CampaignsOK, Campaign
      <4>4. CASE FailSearch(w)
        BY <2>2, <4>1, <4>4 DEF FailSearch, SetStatus, Alive, Active, CampaignsOK,
           Campaign
      <4> QED
        BY <3>1, <4>2, <4>3, <4>4
    <3>2. CASE CheckCancelled(w)
      <4>1. CASE campaign[c].status = "CANCELLED"
        BY <2>2, <3>2, <4>1 DEF CheckCancelled, Alive, Active
      <4>2. CASE campaign[c].status # "CANCELLED"
        <5>1. Step(w, "search") /\ UNCHANGED campaign
            BY <2>2, <3>2, <4>2 DEF CheckCancelled
        <5>2. \A v \in Optimizers : Searching(v, c) => Searching(v, c)'
            BY <5>1, SearchersKept
        <5> QED
            BY <1>1, <1>2, <2>1, <5>1, <5>2, StillCared DEF Alive
      <4> QED
        BY <4>1, <4>2
    <3> QED
        BY <1>6, <3>1, <3>2
  <2>3. CASE c # own
    <3>1. \A v \in Optimizers : Searching(v, c) => Searching(v, c)'
        BY <1>6, <2>3, SearchersKept DEF FinishEvolve, Complete, FailSearch,
           CheckCancelled
    <3>2. campaign'[c] = campaign[c]
        BY <1>6, <2>3 DEF FinishEvolve, Complete, FailSearch, CheckCancelled,
           SetStatus, CampaignsOK
    <3> QED
        BY <1>1, <1>2, <2>1, <3>1, <3>2, StillCared DEF Alive
  <2> QED
    BY <2>2, <2>3
<1>7. CASE Acknowledge(w) \/ LoseOptimizer(w) \/ Terminate(w)
  <2>1. /\ UNCHANGED campaign /\ searches \subseteq searches'
        /\ optimizer' = [optimizer EXCEPT ![w] = IdleOptimizer]
    BY <1>7 DEF Acknowledge, LoseOptimizer, Terminate
  <2>2. CASE Searching(w, c)
    BY <1>1, <1>7, <2>2
    DEF Acknowledge, LoseOptimizer, Terminate, Searching, Working, Cared, SearchUnderWay
  <2>3. CASE ~ Searching(w, c)
    <3>1. \A v \in Optimizers : Searching(v, c) => Searching(v, c)'
        BY <2>1, <2>3 DEF Searching, Working, OptimizersOK
    <3> QED
        BY <1>1, <1>2, <2>1, <3>1, StillCared DEF Alive
  <2> QED
    BY <2>2, <2>3
<1>8. CASE FailUnmarked(w)
  <2>1. UNCHANGED <<campaign, searches>> /\ Step(w, "ack")
    BY <1>8 DEF FailUnmarked
  <2>2. CASE c = own
    BY <1>8, <2>2 DEF FailUnmarked, Cared
  <2>3. CASE c # own
    <3>1. \A v \in Optimizers : Searching(v, c) => Searching(v, c)'
        BY <2>1, <2>3, SearchersKept
    <3> QED
        BY <1>1, <1>2, <2>1, <3>1, StillCared DEF Alive
  <2> QED
    BY <2>2, <2>3
<1> QED
    BY <1>3, <1>4, <1>5, <1>6, <1>7, <1>8 DEF Optimize

LEMMA SearchStep ==
    ASSUME Shape, ActiveCampaignHasTask, Next
    PROVE  ActiveCampaignHasTask'
<1> USE DEF Shape
<1>1. SUFFICES ASSUME NEW c \in Campaigns PROVE Alive(c)' => Cared(c)'
    BY DEF ActiveCampaignHasTask, Alive, Cared
<1>2. ASSUME UNCHANGED campaignVars, dropped \subseteq dropped',
             \A g \in Requests : Launching(g, c) => Launching(g, c)'
      PROVE  Alive(c)' => Cared(c)'
    BY <1>2, StillCared DEF campaignVars, Alive, Searching, Working
<1>3. ASSUME NEW h \in Requests, ReadStrategy(h) PROVE Alive(c)' => Cared(c)'
    BY <1>2, <1>3, LaunchersKept
    DEF ReadStrategy, ReadValidate, ReadPromote, ReadEdit, ReadOptimize, Begin,
        Launching, At, IdleRequest
<1>4. ASSUME NEW h \in Requests, NEW d \in Campaigns, ReadCampaign(h, d)
      PROVE  Alive(c)' => Cared(c)'
    BY <1>2, <1>4, LaunchersKept
    DEF ReadCampaign, ReadAccept, ReadReject, ReadCancel, Begin, Launching, At,
        IdleRequest
<1>5. ASSUME NEW w \in Backtesters, Backtest(w) \/ FailVerdict(w) \/ LoseBacktester(w)
      PROVE  Alive(c)' => Cared(c)'
  <2>1. /\ UNCHANGED campaignVars /\ UNCHANGED request
        /\ dropped \subseteq dropped'
    BY <1>5 DEF Backtest, TakeBacktest, FinishBacktest, FailVerdict, LoseBacktester
  <2> QED
    BY <1>2, <2>1 DEF Launching, At
<1>6. ASSUME NEW d \in Campaigns, Discard(d) PROVE Alive(c)' => Cared(c)'
  <2>1. CASE c = d
    BY <1>6, <2>1 DEF Discard, Cared
  <2>2. CASE c # d
    BY <1>6, <2>2, StillCared DEF Discard, Alive, Searching, Working, Launching, At
  <2> QED
    BY <2>1, <2>2
<1> QED
    BY <1>3, <1>4, <1>5, <1>6, RequestKeepsSearch, WorkerKeepsSearch DEF Next

-----------------------------------------------------------------------------
(* Parameters that no backtest has judged.                                 *)

\* A commit based on the row as it is writes what it means to.
LEMMA FlushCurrent ==
    ASSUME NEW row \in Row, NEW new \in Row
    PROVE  Flush(row, row, new) = new
BY DEF Flush, Row

\* A commit of a request that has read the row as it is unbacks nothing.
LEMMA CurrentCommitBacks ==
    ASSUME Shape, ~Unbacked, NEW h \in Requests, request[h].row = strategy,
           CommitValidate(h) \/ CommitPromote(h) \/ CommitEdit(h) \/ CommitAccept(h)
    PROVE  ~Unbacked'
<1> USE DEF Shape, StrategyOK
<1>1. request[h] \in Request
    BY DEF RequestsOK
<1>2. CASE CommitValidate(h)
  <2> DEFINE new == [strategy EXCEPT !.status = "BACKTESTING", !.metrics = "empty"]
  <2>1. new \in Row /\ new.status = "BACKTESTING"
    BY DEF Row, Metrics
  <2>2. strategy' = Flush(strategy, strategy, new)
    BY <1>2 DEF CommitValidate
  <2> QED
    BY <2>1, <2>2, FlushCurrent DEF Unbacked
<1>3. CASE CommitPromote(h)
  <2>1. PICK target \in Promotions(strategy.status) :
            strategy' = Flush(strategy, strategy, [strategy EXCEPT !.status = target])
    BY <1>3 DEF CommitPromote
  <2>2. target \in {"PAPER", "LIVE"} /\ strategy.status \in {"VALIDATED", "PAPER"}
    BY DEF Promotions, Row
  <2>3. [strategy EXCEPT !.status = target] \in Row
    BY <2>2 DEF Row
  <2>4. strategy' = [strategy EXCEPT !.status = target]
    BY <2>1, <2>3, FlushCurrent
  <2>5. strategy'.metrics = strategy.metrics /\ strategy'.params = strategy.params
    BY <2>4 DEF Row
  <2> QED
    BY <2>2, <2>5 DEF Unbacked
<1>4. CASE CommitEdit(h)
  <2>1. CASE UNCHANGED strategy
    BY <2>1 DEF Unbacked
  <2>2. ASSUME NEW p \in Params,
               strategy' = Flush(strategy, strategy,
                   [status |-> "DRAFT", params |-> p, metrics |-> "empty"])
        PROVE  ~Unbacked'
    <3>1. [status |-> "DRAFT", params |-> p, metrics |-> "empty"] \in Row
        BY DEF Row, Metrics
    <3> QED
        BY <2>2, <3>1, FlushCurrent DEF Unbacked
  <2> QED
    BY <1>4, <2>1, <2>2 DEF CommitEdit
<1>5. CASE CommitAccept(h)
  <2> DEFINE p == IF request[h].best = None THEN strategy.params ELSE request[h].best
             new == [status |-> "BACKTESTING", params |-> p, metrics |-> "empty"]
  <2>1. p \in Params
    BY <1>1 DEF Request, Row
  <2>2. strategy' = Flush(strategy, strategy, new)
    BY <1>5 DEF CommitAccept
  <2> HIDE DEF p
  <2>3. new \in Row
    BY <2>1 DEF Row, Metrics
  <2> QED
    BY <2>2, <2>3, FlushCurrent DEF Unbacked
<1> QED
    BY <1>2, <1>3, <1>4, <1>5

\* Nor does the verdict on the parameters as they are.
LEMMA CurrentVerdictBacks ==
    ASSUME Shape, NEW w \in Backtesters, backtester[w] = strategy.params,
           FinishBacktest(w)
    PROVE  ~Unbacked'
<1>1. strategy'.params = strategy.params
    BY DEF FinishBacktest, Verdict, Shape, StrategyOK, Row
<1>2. \/ strategy'.status = "REJECTED"
      \/ strategy'.metrics = backtester[w]
    BY DEF FinishBacktest, Verdict, Shape, StrategyOK, Row
<1> QED
    BY <1>1, <1>2 DEF Unbacked

LEMMA UnbackingStep ==
    ASSUME Shape, Next, ~Unbacked, Unbacked'
    PROVE  StaleVerdict \/ StaleRequest
<1>1. ~BacktestsSame
    BY DEF BacktestsSame, Unbacked
<1>2. ASSUME NEW h \in Requests, SendBacktest(h) PROVE FALSE
    BY <1>2 DEF SendBacktest, Unbacked
<1>3. ASSUME NEW h \in Requests,
             CommitValidate(h) \/ CommitPromote(h) \/ CommitEdit(h) \/ CommitAccept(h)
      PROVE  StaleRequest
  <2>1. request[h].pc = "commit"
    BY <1>3 DEF CommitValidate, CommitPromote, CommitEdit, CommitAccept, At
  <2> QED
    BY <1>3, <2>1, CurrentCommitBacks DEF StaleRequest
<1>4. ASSUME NEW w \in Backtesters,
             TakeBacktest(w) \/ FailVerdict(w) \/ LoseBacktester(w)
      PROVE  FALSE
    BY <1>4 DEF TakeBacktest, FailVerdict, LoseBacktester, Unbacked
<1>5. ASSUME NEW w \in Backtesters, FinishBacktest(w) PROVE StaleVerdict
    BY <1>5, CurrentVerdictBacks DEF FinishBacktest, StaleVerdict
<1> QED
    BY <1>1, <1>2, <1>3, <1>4, <1>5, QuietSteps DEF Next, Serve, Backtest

-----------------------------------------------------------------------------
(* The theorems.                                                           *)

LEMMA Initially == Init => IInv
<1> SUFFICES ASSUME Init PROVE IInv
    OBVIOUS
<1>1. /\ strategy \in Row
      /\ strategy.status \in {"DRAFT", "VALIDATED"}
      /\ strategy.status = "VALIDATED" => passed
      /\ passed \in BOOLEAN
  <2>1. PICK p \in Params :
            \/ /\ strategy = [status |-> "DRAFT", params |-> p,
                           metrics |-> "generated"]
               /\ passed = FALSE
            \/ /\ strategy = [status |-> "VALIDATED", params |-> p, metrics |-> p]
               /\ passed = TRUE
    BY DEF Init
  <2>2. CASE /\ strategy = [status |-> "DRAFT", params |-> p,
                           metrics |-> "generated"]
             /\ passed = FALSE
    BY <2>2 DEF Row, Metrics
  <2>3. CASE /\ strategy = [status |-> "VALIDATED", params |-> p, metrics |-> p]
             /\ passed = TRUE
    BY <2>3 DEF Row, Metrics
  <2> QED
    BY <2>1, <2>2, <2>3
<1>2. /\ NoCampaign \in Campaign /\ IdleRequest \in Request
      /\ IdleOptimizer \in Optimizer
    BY DEF Campaign, CampaignStatus, NoCampaign, Request, IdleRequest, Optimizer,
           IdleOptimizer
<1>3. RequestsOK /\ ReadersKnow
    BY <1>2 DEF Init, RequestsOK, ReadersKnow, IdleRequest
<1>4. OptimizersOK /\ BacktestersOK
    BY <1>2 DEF Init, OptimizersOK, BacktestersOK, IdleOptimizer
<1>5. CampaignsOK /\ StrategyOK /\ CountersOK
    BY <1>1, <1>2, StrategyAssumption DEF Init, CampaignsOK, StrategyOK, CountersOK
<1>6. PromotedAfterValidation /\ NoStrandedBacktest
    BY <1>1 DEF PromotedAfterValidation, NoStrandedBacktest
<1>7. ActiveCampaignHasTask
    BY DEF Init, ActiveCampaignHasTask, NoCampaign, Active
<1> QED
    BY <1>3, <1>4, <1>5, <1>6, <1>7 DEF IInv, Shape

LEMMA Stuttering == ASSUME IInv, UNCHANGED vars PROVE IInv'
BY DEF vars, strategyVars, campaignVars, IInv, Shape, RequestsOK, OptimizersOK,
   BacktestersOK, CampaignsOK, StrategyOK, CountersOK, ReadersKnow,
   PromotedAfterValidation, NoStrandedBacktest, BacktestUnderWay,
   ActiveCampaignHasTask, SearchUnderWay, At, Working

\* Every step of requests and workers preserves the invariant.
THEOREM Invariance == Spec => []IInv
<1>1. IInv /\ [Next]_vars => IInv'
    BY ShapeStep, PassedStep, BacktestStep, SearchStep, Stuttering DEF IInv
<1> QED
    BY Initially, <1>1, PTL DEF Spec

\* Every variable keeps to its type.
THEOREM TypeCorrect == Spec => []TypeOK
<1>1. IInv => TypeOK
    BY ShapeTyped DEF IInv
<1> QED
    BY Invariance, <1>1, PTL

\* A strategy in BACKTESTING has a message, a running task or a request about
\* to enqueue one, unless its message was never sent or its task was killed by
\* the time limit.
THEOREM BacktestsNotStranded == Spec => []NoStrandedBacktest
<1>1. IInv => NoStrandedBacktest
    BY DEF IInv
<1> QED
    BY Invariance, <1>1, PTL

\* An active campaign has a message, a worker or a request about to enqueue
\* it, unless its message was never sent or its task was revoked or killed by
\* the time limit.
THEOREM CampaignsNotStranded == Spec => []ActiveCampaignHasTask
<1>1. IInv => ActiveCampaignHasTask
    BY DEF IInv
<1> QED
    BY Invariance, <1>1, PTL

\* A strategy is on paper or live only after a backtest of it has passed.
THEOREM PromotionsValidated == Spec => []PromotedAfterValidation
<1>1. IInv => PromotedAfterValidation
    BY DEF IInv
<1> QED
    BY Invariance, <1>1, PTL

\* A strategy that is validated, or trades, comes to parameters that were not
\* backtested only by a commit based on an outdated read.
THEOREM UnbackedByStaleCommits == Spec => OnlyStaleCommitsUnback
<1>1. IInv /\ [Next]_vars =>
          [~Unbacked /\ Unbacked' => StaleVerdict \/ StaleRequest]_vars
    BY UnbackingStep DEF IInv
<1> QED
    BY Invariance, <1>1, PTL DEF Spec, OnlyStaleCommitsUnback
=============================================================================
