--------------------------- MODULE StrategyMonitor ---------------------------
(***************************************************************************)
(* The monitor of trading strategies: every 30 seconds Beat sends a        *)
(* check_all task that looks at each monitored strategy, compares the last *)
(* signal of its candles with the one it has already acted on, and starts  *)
(* an analysis run for a new one.                                          *)
(*                                                                         *)
(*   backend/app/tasks/strategy_monitor_task.py  the task (a "tick" here)  *)
(*   backend/app/api/routes/strategies.py        promote, start, stop      *)
(*                                                                         *)
(* A tick may last 180 seconds, so that several overlap.  Each works on    *)
(* rows read when it began, or read again after a commit of its own, while *)
(* requests and other ticks write them.                                    *)
(***************************************************************************)
EXTENDS Naturals, FiniteSets

CONSTANTS
    Strategies,
    Signals,        \* keys of signals: the time and the side
    Ticks,          \* Celery workers a check_all task may run on
    Requests,       \* API requests in progress at the same time
    Faults,         \* faults that may happen
    MaxEvents,      \* bound: requests, faults and changes of the market
    None, Expired

FaultNames == {"fetch_fails", "commit_fails", "enqueue_fails", "killed"}

ASSUME MonitorAssumption ==
    /\ IsFiniteSet(Ticks)
    /\ Faults \subseteq FaultNames
    /\ MaxEvents \in Nat
    /\ None \notin Signals \cup Strategies
    /\ Expired \notin Signals \cup {None}

VARIABLES
    row,        \* the monitoring columns of the strategies table
    market,     \* the last signal in the candles, per strategy
    tick,       \* check_all tasks
    runs,       \* analysis_runs created by ticks: how many, of s and g,
                \* per status, and how many of them have been enqueued
    request,    \* API requests
    events,     \* requests, faults and changes so far (bounded)
    lost,       \* history: <<s, g>> whose run or dispatch a fault prevented
    late,       \* history: runs created since the monitoring of s stopped
    eras,       \* history: how often the row of s has come to differ from g
    triggers    \* history: how often tick k has marked g for s

history == <<lost, late, eras, triggers>>
vars == <<row, market, tick, runs, request, events, history>>

Row  == [monitoring: BOOLEAN, key: Signals \cup {None}]
Tick == [pc: {"idle", "next", "fetch", "mark", "create", "send", "note"},
         todo: SUBSET Strategies,
         \* last_signal_key as loaded, or Expired after a commit
         seen: [Strategies -> Signals \cup {None, Expired}],
         cur: Strategies \cup {None}, signal: Signals \cup {None}]
Request == [op: {"idle", "start", "stop"}, row: Row \cup {None},
            strategy: Strategies \cup {None}]

IdleTick == [pc |-> "idle", todo |-> {}, seen |-> [s \in Strategies |-> Expired],
             cur |-> None, signal |-> None]
IdleRequest == [op |-> "idle", row |-> None, strategy |-> None]
NoRuns == [pending |-> 0, queued |-> 0, sent |-> 0]

Init ==
    /\ row \in [Strategies -> {r \in Row : r.key = None}]
    /\ market \in [Strategies -> Signals \cup {None}]
    /\ tick = [k \in Ticks |-> IdleTick]
    /\ runs = [s \in Strategies |-> [g \in Signals |-> NoRuns]]
    /\ request = [h \in Requests |-> IdleRequest]
    /\ events = 0
    /\ lost = {}
    /\ late = [s \in Strategies |-> 0]
    /\ eras = [s \in Strategies |-> [g \in Signals |-> 1]]
    /\ triggers = [k \in Ticks |-> [s \in Strategies |-> [g \in Signals |-> 0]]]

TypeOK ==
    /\ row \in [Strategies -> Row]
    /\ market \in [Strategies -> Signals \cup {None}]
    /\ tick \in [Ticks -> Tick]
    /\ runs \in [Strategies -> [Signals ->
                    [pending: Nat, queued: Nat, sent: Nat]]]
    /\ request \in [Requests -> Request]
    /\ events \in 0..MaxEvents
    /\ lost \subseteq Strategies \X Signals
    /\ late \in [Strategies -> Nat]
    /\ eras \in [Strategies -> [Signals -> Nat]]
    /\ triggers \in [Ticks -> [Strategies -> [Signals -> Nat]]]

-----------------------------------------------------------------------------
\* Bound: something that only happens so often.
Event == events < MaxEvents /\ events' = events + 1

(* History: what a write of row s with key g does to the eras.             *)
Reopened(s, g) ==
    [eras EXCEPT ![s] = [x \in Signals |->
        IF row[s].key = x /\ g # x THEN @[x] + 1 ELSE @[x]]]

-----------------------------------------------------------------------------
(* API requests: read the row, assign columns, commit.  The ORM writes the *)
(* columns that differ from the row as it was read.                        *)
Flush(current, read, new) ==
    [f \in DOMAIN current |-> IF new[f] = read[f] THEN current[f] ELSE new[f]]

Begin(h, op, s) ==
    /\ request[h].op = "idle"
    /\ Event
    /\ request' = [request EXCEPT ![h] =
           [op |-> op, row |-> row[s], strategy |-> s]]
    /\ UNCHANGED <<row, market, tick, runs, history>>

\* The commit of a request that makes new of the row it has read.
Commit(h, new) ==
    LET s == request[h].strategy
        after == Flush(row[s], request[h].row, new)
    IN  /\ row' = [row EXCEPT ![s] = after]
        /\ eras' = Reopened(s, after.key)
        /\ late' = IF after.monitoring THEN [late EXCEPT ![s] = 0] ELSE late
        /\ request' = [request EXCEPT ![h] = IdleRequest]
        /\ UNCHANGED <<market, tick, runs, events, lost, triggers>>

\* POST /start-monitoring, and /promote, which sets the same columns.
ReadStart(h) == \E s \in Strategies : Begin(h, "start", s)

CommitStart(h) ==
    /\ request[h].op = "start"
    /\ Commit(h, [monitoring |-> TRUE, key |-> None])

\* POST /stop-monitoring
ReadStop(h) == \E s \in Strategies : Begin(h, "stop", s)

CommitStop(h) ==
    /\ request[h].op = "stop"
    /\ Commit(h, [request[h].row EXCEPT !.monitoring = FALSE])

-----------------------------------------------------------------------------
(* A tick                                                                  *)

Monitored == {s \in Strategies : row[s].monitoring}

Fault(f) == f \in Faults /\ Event

\* Done with a strategy: on to the next one, or the task returns.
Leave(k) ==
    IF tick[k].todo = {} THEN IdleTick
    ELSE [tick[k] EXCEPT !.pc = "next", !.cur = None, !.signal = None,
                         !.seen[tick[k].cur] = Expired]

\* Mutant: the query has no filter.
QueryAll(k) ==
    /\ tick[k].pc = "idle"
    /\ Strategies # {}
    /\ tick' = [tick EXCEPT ![k].pc = "next", ![k].todo = Strategies,
           ![k].seen = [s \in Strategies |-> row[s].key]]
    /\ UNCHANGED <<row, market, runs, request, events, history>>

\* The query loads the rows of the monitored strategies; without any, the
\* task ends.
Query(k) ==
    /\ tick[k].pc = "idle"
    /\ Monitored # {}
    /\ tick' = [tick EXCEPT ![k].pc = "next", ![k].todo = Monitored,
           ![k].seen = [s \in Strategies |->
               IF s \in Monitored THEN row[s].key ELSE Expired]]
    /\ UNCHANGED <<row, market, runs, request, events, history>>

\* The next strategy of the list; an expired row is loaded again.
Check(k, s) ==
    /\ tick[k].pc = "next"
    /\ s \in tick[k].todo
    /\ tick' = [tick EXCEPT ![k].pc = "fetch", ![k].cur = s,
           ![k].todo = @ \ {s},
           ![k].seen[s] = IF @ = Expired THEN row[s].key ELSE @]
    /\ UNCHANGED <<row, market, runs, request, events, history>>

\* Mutant: any key counts as the signal already acted on.
FetchAnyKey(k) ==
    /\ tick[k].pc = "fetch"
    /\ LET g == market[tick[k].cur]
       IN  tick' = [tick EXCEPT ![k] =
               IF g = None \/ tick[k].seen[tick[k].cur] # None
               THEN Leave(k)
               ELSE [tick[k] EXCEPT !.pc = "mark", !.signal = g]]
    /\ UNCHANGED <<row, market, runs, request, events, history>>

\* The candles arrive: no signal, the one already acted on, or a new one.
Fetch(k) ==
    /\ tick[k].pc = "fetch"
    /\ LET g == market[tick[k].cur]
       IN  tick' = [tick EXCEPT ![k] =
               IF g = None \/ g = tick[k].seen[tick[k].cur]
               THEN Leave(k)
               ELSE [tick[k] EXCEPT !.pc = "mark", !.signal = g]]
    /\ UNCHANGED <<row, market, runs, request, events, history>>

FetchFails(k) ==
    /\ tick[k].pc = "fetch"
    /\ Fault("fetch_fails")
    /\ tick' = [tick EXCEPT ![k] = Leave(k)]
    /\ UNCHANGED <<row, market, runs, request, history>>

\* Mutant: the key is assigned to a copy of the row and never committed.
MarkUncommitted(k) ==
    LET s == tick[k].cur
        g == tick[k].signal
    IN  /\ tick[k].pc = "mark"
        /\ triggers' = [triggers EXCEPT ![k][s][g] = @ + 1]
        /\ tick' = [tick EXCEPT ![k].pc = "create"]
        /\ UNCHANGED <<row, market, runs, request, events, lost, late, eras>>

\* last_signal_key is committed first; the commit expires the rows loaded.
Mark(k) ==
    LET s == tick[k].cur
        g == tick[k].signal
    IN  /\ tick[k].pc = "mark"
        /\ row' = [row EXCEPT ![s].key = g]
        /\ eras' = Reopened(s, g)
        /\ triggers' = [triggers EXCEPT ![k][s][g] = @ + 1]
        /\ tick' = [tick EXCEPT ![k].pc = "create",
                                ![k].seen = [x \in Strategies |-> Expired]]
        /\ UNCHANGED <<market, runs, request, events, lost, late>>

\* Mutant: monitoring is checked again between the two commits.
CreateIfMonitored(k) ==
    LET s == tick[k].cur
    IN  /\ tick[k].pc = "create"
        /\ IF row[s].monitoring
           THEN /\ runs' = [runs EXCEPT ![s][tick[k].signal].pending = @ + 1]
                /\ tick' = [tick EXCEPT ![k].pc = "send"]
           ELSE /\ runs' = runs
                /\ tick' = [tick EXCEPT ![k] = Leave(k)]
        /\ UNCHANGED <<row, market, request, events, history>>

\* Then the run, with the columns the row has by now.
Create(k) ==
    LET s == tick[k].cur
    IN  /\ tick[k].pc = "create"
        /\ runs' = [runs EXCEPT ![s][tick[k].signal].pending = @ + 1]
        /\ tick' = [tick EXCEPT ![k].pc = "send"]
        /\ late' = IF row[s].monitoring THEN late
                   ELSE [late EXCEPT ![s] = @ + 1]
        /\ UNCHANGED <<row, market, request, events, lost, eras, triggers>>

Send(k) ==
    /\ tick[k].pc = "send"
    /\ runs' = [runs EXCEPT ![tick[k].cur][tick[k].signal].sent = @ + 1]
    /\ tick' = [tick EXCEPT ![k].pc = "note"]
    /\ UNCHANGED <<row, market, request, events, history>>

\* An enqueue that fails, or that the soft time limit interrupts after the
\* message is out, is logged: the run stays pending and the tick goes on.
EnqueueFails(k) ==
    /\ tick[k].pc = "send"
    /\ Fault("enqueue_fails")
    /\ \E out \in {0, 1} :
           runs' = [runs EXCEPT ![tick[k].cur][tick[k].signal].sent = @ + out]
    /\ lost' = lost \cup {<<tick[k].cur, tick[k].signal>>}
    /\ tick' = [tick EXCEPT ![k] = Leave(k)]
    /\ UNCHANGED <<row, market, request, late, eras, triggers>>

MarkQueued(c) ==
    [pending |-> c.pending - 1, queued |-> c.queued + 1, sent |-> c.sent]

\* 'queued' is committed (over what the worker has made of the run by then,
\* which is AnalysisRun's concern).
Note(k) ==
    /\ tick[k].pc = "note"
    /\ runs' = [runs EXCEPT ![tick[k].cur][tick[k].signal] = MarkQueued(@)]
    /\ tick' = [tick EXCEPT ![k] = Leave(k)]
    /\ UNCHANGED <<row, market, request, events, history>>

\* The tick stops what it does for a strategy; between the two commits, or
\* before the dispatch, the signal is lost.
Abandon(k, f, next) ==
    /\ Fault(f)
    /\ lost' = IF tick[k].pc \in {"create", "send"}
               THEN lost \cup {<<tick[k].cur, tick[k].signal>>} ELSE lost
    /\ tick' = [tick EXCEPT ![k] = next]
    /\ UNCHANGED <<row, market, runs, request, late, eras, triggers>>

\* A commit fails, or the soft time limit interrupts the steps around it.  With
\* a session that needs a rollback the handler's own access to the strategy
\* fails too, and the strategies left are not checked; otherwise they are.
CommitFails(k) ==
    /\ tick[k].pc \in {"mark", "create", "note"}
    /\ \/ Abandon(k, "commit_fails", IdleTick)
       \/ Abandon(k, "commit_fails", [Leave(k) EXCEPT !.seen = IdleTick.seen])

\* The hard time limit or a lost worker ends the task.
Killed(k) ==
    /\ tick[k].pc # "idle"
    /\ Abandon(k, "killed", IdleTick)

-----------------------------------------------------------------------------
(* The market                                                              *)

\* A new candle brings a signal, takes it back, or (from a cache that is
\* behind) brings an older one again.
Shift(s) ==
    /\ Event
    /\ \E g \in (Signals \cup {None}) \ {market[s]} :
           market' = [market EXCEPT ![s] = g]
    /\ UNCHANGED <<row, tick, runs, request, history>>

RequestStep(h) == ReadStart(h) \/ CommitStart(h) \/ ReadStop(h) \/ CommitStop(h)

TickStep(k) ==
    \/ Query(k) \/ (\E s \in Strategies : Check(k, s)) \/ Fetch(k)
    \/ Mark(k) \/ Create(k) \/ Send(k) \/ Note(k)

TickFault(k) ==
    FetchFails(k) \/ EnqueueFails(k) \/ CommitFails(k) \/ Killed(k)

Next ==
    \/ \E h \in Requests : RequestStep(h)
    \/ \E k \in Ticks : TickStep(k) \/ TickFault(k)
    \/ \E s \in Strategies : Shift(s)

Spec == Init /\ [][Next]_vars

\* Beat sends ticks for ever and a worker carries each on to its end; a
\* request that has read its row commits.
Fairness ==
    /\ \A k \in Ticks : WF_vars(TickStep(k))
    /\ \A h \in Requests : WF_vars(CommitStart(h) \/ CommitStop(h))

FairSpec == Spec /\ Fairness

-----------------------------------------------------------------------------
(* Properties                                                              *)

Created(s, g) == runs[s][g].pending + runs[s][g].queued

\* The key of a signal is committed before its run exists: whenever a row
\* holds a key, a run of that signal exists, or a tick is about to create it,
\* or a crash or a failed commit in between has lost the signal for good
\* (strategy_monitor_task.py:107).
KeyHasRun ==
    \A s \in Strategies, g \in Signals :
        row[s].key = g =>
            \/ Created(s, g) > 0
            \/ \E k \in Ticks : tick[k].pc = "create" /\ tick[k].cur = s
                                                     /\ tick[k].signal = g
            \/ <<s, g>> \in lost

\* Overlapping ticks may act on the same signal (both have read the old key),
\* but each at most once for every time the row has come to hold another key.
NoTickTriggersTwice ==
    \A k \in Ticks, s \in Strategies, g \in Signals :
        triggers[k][s][g] <= eras[s][g]

\* A tick in flight does not notice that the monitoring was stopped, but it
\* creates one run for the strategy at most, and later ticks none.
LateRunsAreBounded ==
    \A s \in Strategies :
        ~row[s].monitoring => late[s] <= Cardinality(Ticks)

\* A signal that lasts while its strategy is monitored is acted on: a run of
\* it is enqueued, unless a fault has prevented the run or its dispatch.
SignalIsServed ==
    \A s \in Strategies, g \in Signals :
        <>[](row[s].monitoring /\ market[s] = g) =>
            <>(runs[s][g].sent > 0 \/ <<s, g>> \in lost)
=============================================================================
