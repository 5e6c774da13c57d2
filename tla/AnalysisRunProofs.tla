------------------------- MODULE AnalysisRunProofs -------------------------
(***************************************************************************)
(* AnalysisRun implements OrderLedger for any number of runs, trades,      *)
(* processes and faults, and what follows of orders and fills.             *)
(***************************************************************************)
EXTENDS AnalysisRun, FiniteSetTheorems, TLAPS

-----------------------------------------------------------------------------
(* The inductive invariant.                                                *)

\* Some row of the run, of whatever trade and status, or a rejection.
Backed(r) ==
    \/ \E t \in Trades, s \in OrderStatus : orders[r][t][s] > 0
    \/ r \in rejected

\* A caller is in a call of execute exactly while its pipeline orders, and for
\* the run it evaluates; a call that returned without raising has left a row,
\* or was rejected.
CallFits(c) ==
    /\ call[c].pc # "idle" <=> pipe[c].pc = "ordering"
    /\ call[c].pc # "idle" => call[c].run = pipe[c].run /\ call[c].trade \in Trades
    /\ pipe[c].pc # "idle" => pipe[c].run \in Runs
    /\ call[c].pc = "record" => call[c].status \in OrderStatus
    /\ call[c].pc = "returned" /\ call[c].status # "raised" => Backed(pipe[c].run)
    /\ pipe[c].told = "executed" => pipe[c].pc # "idle" /\ Backed(pipe[c].run)

Inv ==
    /\ TypeOK
    /\ \A c \in Callers : CallFits(c)
    /\ \A r \in Runs : run[r].told = "executed" => Backed(r)

\* Nothing but c's pipeline and call changes of all pipelines and calls.
OnlyCaller(c) ==
    \A d \in Callers \ {c} : pipe'[d] = pipe[d] /\ call'[d] = call[d]

OrdersKept == UNCHANGED <<orders, fills, strays, starts>>

-----------------------------------------------------------------------------
(* What the operators of the model return.                                 *)

\* A count one higher at the place of the call.
LEMMA OneMoreFacts ==
    ASSUME NEW f \in [Runs -> [Trades -> Nat]], NEW x,
           x.run \in Runs, x.trade \in Trades
    PROVE  /\ OneMore(f, x) \in [Runs -> [Trades -> Nat]]
           /\ OneMore(f, x) = [f EXCEPT ![x.run][x.trade] = @ + 1]
BY DEF OneMore

\* A call never runs out of a next attempt or a refusal.
LEMMA NextAttemptFacts ==
    ASSUME NEW x \in Call, x.pc \in {"sdk", "rest"}, x.run \in Runs, mode \in [Runs -> Modes]
    PROVE  /\ Refused(x) \in Call /\ Filled(x) \in Call /\ NextAttempt(x) \in Call
           /\ Refused(x).pc = "record" /\ Refused(x).status \in {"simulated", "failed"}
           /\ Refused(x).run = x.run /\ Refused(x).trade = x.trade
           /\ Filled(x).pc = "record" /\ Filled(x).status = "executed"
           /\ Filled(x).run = x.run /\ Filled(x).trade = x.trade
           /\ NextAttempt(x).run = x.run /\ NextAttempt(x).trade = x.trade
           /\ NextAttempt(x).pc \in {"sdk", "rest"} \/ NextAttempt(x) = Refused(x)
<1> USE OrderAssumption DEF Call, OrderStatus
<1>1. Degraded(mode[x.run]) \in {"simulated", "failed"}
  BY DEF Degraded
<1>2. /\ Refused(x) \in Call /\ Refused(x).pc = "record" /\ Refused(x).status \in {"simulated", "failed"}
      /\ Refused(x).run = x.run /\ Refused(x).trade = x.trade
  BY <1>1 DEF Refused, At
<1>3. /\ Filled(x) \in Call /\ Filled(x).pc = "record" /\ Filled(x).status = "executed"
      /\ Filled(x).run = x.run /\ Filled(x).trade = x.trade
  BY DEF Filled, At
<1>4. /\ NextAttempt(x) \in Call
      /\ NextAttempt(x).run = x.run /\ NextAttempt(x).trade = x.trade
      /\ NextAttempt(x).pc \in {"sdk", "rest"} \/ NextAttempt(x) = Refused(x)
  <2>1. CASE x.candidate < Candidates
    <3>1. NextAttempt(x) = [x EXCEPT !.candidate = x.candidate + 1]
      BY <2>1 DEF NextAttempt
    <3>2. x.candidate + 1 \in 1..Candidates
      BY <2>1
    <3> QED BY <3>1, <3>2
  <2>2. CASE ~(x.candidate < Candidates) /\ x.pc = "sdk"
    <3>1. NextAttempt(x) = [x EXCEPT !.pc = "rest", !.candidate = 1]
      BY <2>2 DEF NextAttempt
    <3>2. 1 \in 1..Candidates
      OBVIOUS
    <3> DEFINE y == [x EXCEPT !.pc = "rest"]
    <3>3. y \in Call /\ y.run = x.run /\ y.trade = x.trade /\ y.pc = "rest"
      OBVIOUS
    <3>4. NextAttempt(x) = [y EXCEPT !.candidate = 1]
      BY <3>1
    <3> HIDE DEF y
    <3> QED BY <3>2, <3>3, <3>4
  <2>3. CASE ~(x.candidate < Candidates) /\ x.pc = "rest"
    <3>1. NextAttempt(x) = Refused(x)
      BY <2>3 DEF NextAttempt
    <3> QED BY <1>2, <3>1
  <2> QED BY <2>1, <2>2, <2>3
<1> QED BY <1>2, <1>3, <1>4

\* execute starts at the broker, at the row, returns a replay whose row exists
\* or rejects its inputs; it never starts with a fill.
LEMMA SubmitFacts ==
    ASSUME OrderTypeOK, NEW r \in Runs, NEW t \in Trades
    PROVE  /\ Submit(r, t) \in Call /\ Submit(r, t).run = r /\ Submit(r, t).trade = t
           /\ \/ Submit(r, t).pc \in {"sdk", "rest"}
              \/ Submit(r, t).pc = "record" /\ Submit(r, t).status \in OrderStatus \ {"executed"}
              \/ Submit(r, t).pc = "returned" /\ (t \in Invalid \/ Backed(r))
<1>4. CASE t \in Invalid
  <2>1. Submit(r, t) = [pc |-> "returned", run |-> r, trade |-> t, candidate |-> 1,
                        status |-> "rejected"]
    BY <1>4 DEF Submit
  <2> QED BY <1>4, <2>1, OrderAssumption DEF Call
<1>1. CASE t \notin Invalid /\ IsReplay(r, t)
  <2>1. Backed(r)
    BY <1>1 DEF IsReplay, Replayable, Backed, OrderStatus
  <2>2. Submit(r, t) = [pc |-> "returned", run |-> r, trade |-> t, candidate |-> 1,
                        status |-> "replayed"]
    BY <1>1 DEF Submit
  <2> QED BY <2>1, <2>2, OrderAssumption DEF Call
<1>2. CASE t \notin Invalid /\ ~IsReplay(r, t) /\ Immediate(mode[r]) # None
  <2>1. Immediate(mode[r]) \in OrderStatus \ {"executed"}
    BY <1>2 DEF Immediate, OrderStatus
  <2>2. Submit(r, t) = [pc |-> "record", run |-> r, trade |-> t, candidate |-> 1,
                        status |-> Immediate(mode[r])]
    BY <1>2 DEF Submit
  <2> QED BY <2>1, <2>2, OrderAssumption DEF Call
<1>3. CASE t \notin Invalid /\ ~IsReplay(r, t) /\ Immediate(mode[r]) = None
  <2>1. \E p \in {"sdk", "rest"} :
          Submit(r, t) = [pc |-> p, run |-> r, trade |-> t, candidate |-> 1, status |-> None]
    BY <1>3 DEF Submit
  <2> QED BY <2>1, OrderAssumption DEF Call
<1> QED BY <1>1, <1>2, <1>3, <1>4

-----------------------------------------------------------------------------
(* What the callers hold, and what changes it.                             *)

\* What a caller holds, by the state of its pipeline and call.
LEMMA HandFacts ==
    ASSUME Inv, NEW c \in Callers
    PROVE  /\ call[c].pc = "record" /\ call[c].status = "executed" =>
                /\ call[c].run \in Runs /\ call[c].trade \in Trades
                /\ Hand(c) = Ledger!FillOf(call[c].run, call[c].trade)
           /\ MayOrder(c) =>
                pipe[c].run \in Runs /\ Hand(c) = Ledger!Licence(pipe[c].run)
           /\ ~MayOrder(c) /\ ~(call[c].pc = "record" /\ call[c].status = "executed") =>
                Hand(c) = Ledger!Nothing
<1>1. CallFits(c)
  BY DEF Inv
<1>2. call[c] \in Call /\ pipe[c] \in Pipe
  BY DEF Inv, TypeOK, OrderTypeOK
<1>3. MayOrder(c) => pipe[c].run \in Runs /\ call[c].pc # "record"
  BY <1>1, <1>2 DEF CallFits, MayOrder, Call, Pipe
<1>4. call[c].pc = "record" => call[c].run \in Runs /\ call[c].trade \in Trades
  BY <1>1, <1>2 DEF CallFits, Call, Pipe
<1> QED BY <1>3, <1>4 DEF Hand, Ledger!FillOf, Ledger!Licence, Ledger!Nothing

\* When only c moves, only what c holds changes.
LEMMA OneHand ==
    ASSUME NEW c \in Callers, OnlyCaller(c)
    PROVE  Hands' = [Hands EXCEPT ![c] = Hand(c)']
<1>1. \A d \in Callers \ {c} : Hand(d)' = Hand(d)
  BY DEF OnlyCaller, Hand, MayOrder
<1> QED BY <1>1 DEF Hands

\* A step that leaves orders, fills and what c holds alone is a stutter.
LEMMA Quiet ==
    ASSUME NEW c \in Callers, OnlyCaller(c), Hand(c)' = Hand(c), OrdersKept
    PROVE  UNCHANGED Ledger!ledgerVars
<1>1. Hands' = Hands
  BY OneHand DEF Hands
<1>2. UNCHANGED <<Hands, starts, fills, ToldRows, strays>>
  BY <1>1 DEF OrdersKept, ToldRows
<1> QED BY <1>2 DEF Ledger!ledgerVars, Hands, ToldRows

\* A caller that stops holding a licence withdraws it.
LEMMA Withdraws ==
    ASSUME NEW c \in Callers, NEW r \in Runs, OnlyCaller(c), OrdersKept,
           Hand(c) = Ledger!Licence(r), Hand(c)' = Ledger!Nothing
    PROVE  Ledger!Next
<1>1. Hands[c] = Ledger!Licence(r) /\ Hands' = [Hands EXCEPT ![c] = Ledger!Nothing]
  BY OneHand DEF Hands
<1>2. UNCHANGED <<starts, fills, ToldRows, strays>>
  BY DEF OrdersKept, ToldRows
<1>3. Ledger!Withdraw(c, r)
  BY <1>1, <1>2 DEF Ledger!Withdraw, Ledger!Holds, Hands, ToldRows
<1> QED BY <1>3 DEF Ledger!Next

\* A caller that gets a licence is a pipeline that starts.
LEMMA Licenses ==
    ASSUME NEW c \in Callers, NEW r \in Runs, OnlyCaller(c),
           UNCHANGED <<orders, fills, strays>>, starts' = [starts EXCEPT ![r] = @ + 1],
           Hand(c) = Ledger!Nothing, Hand(c)' = Ledger!Licence(r)
    PROVE  Ledger!Next
<1>1. Hands[c] = Ledger!Nothing /\ Hands' = [Hands EXCEPT ![c] = Ledger!Licence(r)]
  BY OneHand DEF Hands
<1>2. UNCHANGED <<fills, ToldRows, strays>>
  BY DEF ToldRows
<1>3. Ledger!License(c, r)
  BY <1>1, <1>2 DEF Ledger!License, Ledger!Holds, Hands, ToldRows
<1> QED BY <1>3 DEF Ledger!Next

\* A fill that is seen.
LEMMA Sees ==
    ASSUME NEW c \in Callers, NEW r \in Runs, NEW t \in Trades, OnlyCaller(c),
           UNCHANGED <<orders, strays, starts>>, fills' = Ledger!OneMore(fills, r, t),
           Hand(c) = Ledger!Licence(r), Hand(c)' = Ledger!FillOf(r, t)
    PROVE  Ledger!Next
<1>1. Hands[c] = Ledger!Licence(r) /\ Hands' = [Hands EXCEPT ![c] = Ledger!FillOf(r, t)]
  BY OneHand DEF Hands
<1>2. UNCHANGED <<starts, ToldRows, strays>>
  BY DEF ToldRows
<1>3. Ledger!Fill(c, r, t)
  BY <1>1, <1>2 DEF Ledger!Fill, Ledger!Holds, Hands, ToldRows
<1> QED BY <1>3 DEF Ledger!Next

\* A fill that is not.
LEMMA Misses ==
    ASSUME NEW c \in Callers, NEW r \in Runs, NEW t \in Trades, OnlyCaller(c),
           UNCHANGED <<orders, starts>>, fills' = Ledger!OneMore(fills, r, t),
           strays' = Ledger!OneMore(strays, r, t), Hand(c) = Ledger!Licence(r),
           Hand(c)' = Ledger!Licence(r) \/ Hand(c)' = Ledger!Nothing
    PROVE  Ledger!Next
<1>1. /\ Hands[c] = Ledger!Licence(r)
      /\ \/ Hands' = [Hands EXCEPT ![c] = Ledger!Licence(r)]
         \/ Hands' = [Hands EXCEPT ![c] = Ledger!Nothing]
  BY OneHand DEF Hands
<1>2. UNCHANGED <<starts, ToldRows>>
  BY DEF ToldRows
<1>3. Ledger!FillUnseen(c, r, t)
  BY <1>1, <1>2 DEF Ledger!FillUnseen, Ledger!Holds, Hands, ToldRows
<1> QED BY <1>3 DEF Ledger!Next

\* A fill that gets its row.
LEMMA Tells ==
    ASSUME NEW c \in Callers, NEW r \in Runs, NEW t \in Trades, OnlyCaller(c),
           UNCHANGED <<fills, strays, starts>>, ToldRows' = Ledger!OneMore(ToldRows, r, t),
           Hand(c) = Ledger!FillOf(r, t), Hand(c)' = Ledger!Nothing
    PROVE  Ledger!Next
<1>1. Hands[c] = Ledger!FillOf(r, t) /\ Hands' = [Hands EXCEPT ![c] = Ledger!Nothing]
  BY OneHand DEF Hands
<1>2. Ledger!Tell(c, r, t)
  BY <1>1 DEF Ledger!Tell, Ledger!Holds, Hands, ToldRows
<1> QED BY <1>2 DEF Ledger!Next

\* A fill that is forgotten before it has its row.
LEMMA Loses ==
    ASSUME NEW c \in Callers, NEW r \in Runs, NEW t \in Trades, OnlyCaller(c),
           UNCHANGED <<orders, fills, starts>>, strays' = Ledger!OneMore(strays, r, t),
           Hand(c) = Ledger!FillOf(r, t), Hand(c)' = Ledger!Nothing
    PROVE  Ledger!Next
<1>1. Hands[c] = Ledger!FillOf(r, t) /\ Hands' = [Hands EXCEPT ![c] = Ledger!Nothing]
  BY OneHand DEF Hands
<1>2. UNCHANGED <<starts, fills, ToldRows>>
  BY DEF ToldRows
<1>3. Ledger!Lose(c, r, t)
  BY <1>1, <1>2 DEF Ledger!Lose, Ledger!Holds, Hands, ToldRows
<1> QED BY <1>3 DEF Ledger!Next

-----------------------------------------------------------------------------
(* The actions.  Each keeps the invariant and is a step of the ledger or a *)
(* stutter.                                                                *)

Simulates == Ledger!Next \/ UNCHANGED Ledger!ledgerVars

\* What an action of one caller has to show for the invariant.
LEMMA CallerStep ==
    ASSUME Inv, NEW c \in Callers, OnlyCaller(c), TypeOK', CallFits(c)',
           \A r \in Runs : Backed(r) => Backed(r)',
           \A r \in Runs : run'[r].told = run[r].told \/ (run'[r].told = "executed" => Backed(r)')
    PROVE  Inv'
<1>1. ASSUME NEW d \in Callers \ {c} PROVE CallFits(d)'
  <2>1. CallFits(d) /\ pipe'[d] = pipe[d] /\ call'[d] = call[d] /\ pipe[d] \in Pipe
    BY DEF Inv, OnlyCaller, TypeOK
  <2>2. pipe[d].pc # "idle" /\ Backed(pipe[d].run) => Backed(pipe[d].run)'
    BY <2>1 DEF CallFits
  <2>3. call[d].pc = "returned" => pipe[d].pc # "idle"
    BY <2>1 DEF CallFits
  <2> QED BY <2>1, <2>2, <2>3 DEF CallFits
<1> QED BY <1>1 DEF Inv

\* No row, no order.
LEMMA RowsKept ==
    ASSUME orders' = orders, rejected \subseteq rejected'
    PROVE  \A r \in Runs : Backed(r) => Backed(r)'
BY DEF Backed

\* A run is created, with a handler to enqueue it.
LEMMA CreateRunKeeps ==
    ASSUME Inv, NEW h \in Handlers, NEW r \in Runs, CreateRun(h, r)
    PROVE  Inv' /\ Simulates
<1>1. /\ h \in Callers /\ CallFits(h) /\ call[h] \in Call /\ pipe[h] \in Pipe
      /\ pipe \in [Callers -> Pipe] /\ TypeOK
  BY RunAssumption DEF Inv, TypeOK, OrderTypeOK, CreateRun
<1>2. call[h].pc = "idle"
  BY <1>1 DEF CallFits, CreateRun
<1>3. pipe' \in [Callers -> Pipe]
  BY <1>1, OrderAssumption DEF CreateRun, Pipe, Told, IdlePipe, Goes, Ends
<1>4. /\ pipe'[h].pc = "enqueue" /\ pipe'[h].run = r /\ pipe'[h].told = None
      /\ OnlyCaller(h) /\ call' = call /\ UNCHANGED <<orders, rejected>>
  BY <1>1 DEF CreateRun, OnlyCaller, orderVars, Goes, Ends, IdlePipe, Pipe
<1>5. run' \in [Runs -> Run]
  BY <1>1 DEF CreateRun, CallFits, TypeOK, Run, Status, Active, Terminal, Writes, Pipe
<1>6. TypeOK'
  BY <1>1, <1>3, <1>5 DEF CreateRun, CallFits, TypeOK, OrderTypeOK, orderVars
<1>7. CallFits(h)'
  BY <1>1, <1>2, <1>4 DEF CreateRun, CallFits, Backed, None
<1>8. \A r1 \in Runs : run'[r1].told = run[r1].told \/ (run'[r1].told = "executed" => Backed(r1)')
  BY <1>1, <1>4 DEF CreateRun, CallFits, TypeOK, Run, Writes, Backed, None
<1>9. Inv'
  BY <1>1, <1>4, <1>6, <1>7, <1>8, CallerStep, RowsKept
<1>10. Hand(h)' = Hand(h) /\ OrdersKept
  BY <1>2, <1>4 DEF CreateRun, Hand, MayOrder, OrdersKept, orderVars
<1>11. Simulates
  BY <1>1, <1>4, <1>10, Quiet DEF Simulates
<1> QED BY <1>9, <1>11

\* Publishing its message changes no order.
LEMMA EnqueueKeeps ==
    ASSUME Inv, NEW h \in Handlers, Enqueue(h)
    PROVE  Inv' /\ Simulates
<1>1. /\ h \in Callers /\ CallFits(h) /\ call[h] \in Call /\ pipe[h] \in Pipe
      /\ pipe \in [Callers -> Pipe] /\ TypeOK
  BY RunAssumption DEF Inv, TypeOK, OrderTypeOK, Enqueue
<1>2. call[h].pc = "idle"
  BY <1>1 DEF CallFits, Enqueue
<1>3. pipe' \in [Callers -> Pipe]
  BY <1>1, OrderAssumption DEF Enqueue, Pipe, Told, IdlePipe, Goes, Ends
<1>4. /\ pipe'[h].pc = "mark" /\ pipe'[h].run = pipe[h].run /\ pipe'[h].told = pipe[h].told
      /\ OnlyCaller(h) /\ call' = call /\ UNCHANGED <<orders, rejected>>
  BY <1>1 DEF Enqueue, OnlyCaller, orderVars, Goes, Ends, IdlePipe, Pipe
<1>5. run' \in [Runs -> Run]
  BY <1>1 DEF Enqueue, CallFits, TypeOK, Run, Status, Active, Terminal, Writes, Pipe
<1>6. TypeOK'
  BY <1>1, <1>3, <1>5 DEF Enqueue, CallFits, TypeOK, OrderTypeOK, orderVars
<1>7. CallFits(h)'
  BY <1>1, <1>2, <1>4 DEF Enqueue, CallFits, Backed, None
<1>8. \A r1 \in Runs : run'[r1].told = run[r1].told \/ (run'[r1].told = "executed" => Backed(r1)')
  BY <1>1, <1>4 DEF Enqueue, CallFits, TypeOK, Run, Writes, Backed, None
<1>9. Inv'
  BY <1>1, <1>4, <1>6, <1>7, <1>8, CallerStep, RowsKept
<1>10. Hand(h)' = Hand(h) /\ OrdersKept
  BY <1>2, <1>4 DEF Enqueue, Hand, MayOrder, OrdersKept, orderVars
<1>11. Simulates
  BY <1>1, <1>4, <1>10, Quiet DEF Simulates
<1> QED BY <1>9, <1>11

\* A failed enqueue starts the pipeline in the request, without a licence yet.
LEMMA EnqueueFailsKeeps ==
    ASSUME Inv, NEW h \in Handlers, EnqueueFails(h)
    PROVE  Inv' /\ Simulates
<1>1. /\ h \in Callers /\ CallFits(h) /\ call[h] \in Call /\ pipe[h] \in Pipe
      /\ pipe \in [Callers -> Pipe] /\ TypeOK
  BY RunAssumption DEF Inv, TypeOK, OrderTypeOK, EnqueueFails
<1>2. call[h].pc = "idle"
  BY <1>1 DEF CallFits, EnqueueFails
<1>3. pipe' \in [Callers -> Pipe]
  BY <1>1, OrderAssumption DEF EnqueueFails, Pipe, Told, IdlePipe, Goes, Ends
<1>4. /\ pipe'[h].pc = "start" /\ pipe'[h].run = pipe[h].run /\ pipe'[h].told = pipe[h].told
      /\ OnlyCaller(h) /\ call' = call /\ UNCHANGED <<orders, rejected>>
  BY <1>1 DEF EnqueueFails, OnlyCaller, orderVars, Goes, Ends, IdlePipe, Pipe
<1>5. run' \in [Runs -> Run]
  BY <1>1 DEF EnqueueFails, CallFits, TypeOK, Run, Status, Active, Terminal, Writes, Pipe
<1>6. TypeOK'
  BY <1>1, <1>3, <1>5 DEF EnqueueFails, CallFits, TypeOK, OrderTypeOK, orderVars
<1>7. CallFits(h)'
  BY <1>1, <1>2, <1>4 DEF EnqueueFails, CallFits, Backed, None
<1>8. \A r1 \in Runs : run'[r1].told = run[r1].told \/ (run'[r1].told = "executed" => Backed(r1)')
  BY <1>1, <1>4 DEF EnqueueFails, CallFits, TypeOK, Run, Writes, Backed, None
<1>9. Inv'
  BY <1>1, <1>4, <1>6, <1>7, <1>8, CallerStep, RowsKept
<1>10. Hand(h)' = Hand(h) /\ OrdersKept
  BY <1>2, <1>4 DEF EnqueueFails, Hand, MayOrder, OrdersKept, orderVars
<1>11. Simulates
  BY <1>1, <1>4, <1>10, Quiet DEF Simulates
<1> QED BY <1>9, <1>11

\* So does a synchronous request.
LEMMA RunInRequestKeeps ==
    ASSUME Inv, NEW h \in Handlers, RunInRequest(h)
    PROVE  Inv' /\ Simulates
<1>1. /\ h \in Callers /\ CallFits(h) /\ call[h] \in Call /\ pipe[h] \in Pipe
      /\ pipe \in [Callers -> Pipe] /\ TypeOK
  BY RunAssumption DEF Inv, TypeOK, OrderTypeOK, RunInRequest
<1>2. call[h].pc = "idle"
  BY <1>1 DEF CallFits, RunInRequest
<1>3. pipe' \in [Callers -> Pipe]
  BY <1>1, OrderAssumption DEF RunInRequest, Pipe, Told, IdlePipe, Goes, Ends
<1>4. /\ pipe'[h].pc = "start" /\ pipe'[h].run = pipe[h].run /\ pipe'[h].told = pipe[h].told
      /\ OnlyCaller(h) /\ call' = call /\ UNCHANGED <<orders, rejected>>
  BY <1>1 DEF RunInRequest, OnlyCaller, orderVars, Goes, Ends, IdlePipe, Pipe
<1>5. run' \in [Runs -> Run]
  BY <1>1 DEF RunInRequest, CallFits, TypeOK, Run, Status, Active, Terminal, Writes, Pipe
<1>6. TypeOK'
  BY <1>1, <1>3, <1>5 DEF RunInRequest, CallFits, TypeOK, OrderTypeOK, orderVars
<1>7. CallFits(h)'
  BY <1>1, <1>2, <1>4 DEF RunInRequest, CallFits, Backed, None
<1>8. \A r1 \in Runs : run'[r1].told = run[r1].told \/ (run'[r1].told = "executed" => Backed(r1)')
  BY <1>1, <1>4 DEF RunInRequest, CallFits, TypeOK, Run, Writes, Backed, None
<1>9. Inv'
  BY <1>1, <1>4, <1>6, <1>7, <1>8, CallerStep, RowsKept
<1>10. Hand(h)' = Hand(h) /\ OrdersKept
  BY <1>2, <1>4 DEF RunInRequest, Hand, MayOrder, OrdersKept, orderVars
<1>11. Simulates
  BY <1>1, <1>4, <1>10, Quiet DEF Simulates
<1> QED BY <1>9, <1>11

\* Committing "queued" ends the request.
LEMMA MarkQueuedKeeps ==
    ASSUME Inv, NEW h \in Handlers, MarkQueued(h)
    PROVE  Inv' /\ Simulates
<1>1. /\ h \in Callers /\ CallFits(h) /\ call[h] \in Call /\ pipe[h] \in Pipe
      /\ pipe \in [Callers -> Pipe] /\ TypeOK
  BY RunAssumption DEF Inv, TypeOK, OrderTypeOK, MarkQueued
<1>2. call[h].pc = "idle"
  BY <1>1 DEF CallFits, MarkQueued
<1>3. pipe' \in [Callers -> Pipe]
  BY <1>1, OrderAssumption DEF MarkQueued, Pipe, Told, IdlePipe, Goes, Ends
<1>4. /\ pipe'[h].pc = "idle" /\ pipe'[h].run = None /\ pipe'[h].told = None
      /\ OnlyCaller(h) /\ call' = call /\ UNCHANGED <<orders, rejected>>
  BY <1>1 DEF MarkQueued, OnlyCaller, orderVars, Goes, Ends, IdlePipe, Pipe
<1>5. run' \in [Runs -> Run]
  <2> DEFINE named == [run EXCEPT ![pipe[h].run].status = "queued"]
  <2>1. pipe[h].run \in Runs /\ run \in [Runs -> Run] /\ pipe[h].told \in Told
    BY <1>1 DEF MarkQueued, CallFits, TypeOK, Pipe
  <2>2. named \in [Runs -> Run]
    BY <2>1 DEF Run, Status, Active, Terminal
  <2>3. run' = [named EXCEPT ![pipe[h].run].task = TRUE]
    BY DEF MarkQueued
  <2> HIDE DEF named
  <2> QED BY <2>1, <2>2, <2>3 DEF Run
<1>6. TypeOK'
  BY <1>1, <1>3, <1>5 DEF MarkQueued, CallFits, TypeOK, OrderTypeOK, orderVars
<1>7. CallFits(h)'
  BY <1>1, <1>2, <1>4 DEF MarkQueued, CallFits, Backed, None
<1>8. \A r1 \in Runs : run'[r1].told = run[r1].told \/ (run'[r1].told = "executed" => Backed(r1)')
  BY <1>1, <1>4 DEF MarkQueued, CallFits, TypeOK, Run, Writes, Backed, None
<1>9. Inv'
  BY <1>1, <1>4, <1>6, <1>7, <1>8, CallerStep, RowsKept
<1>10. Hand(h)' = Hand(h) /\ OrdersKept
  BY <1>2, <1>4 DEF MarkQueued, Hand, MayOrder, OrdersKept, orderVars
<1>11. Simulates
  BY <1>1, <1>4, <1>10, Quiet DEF Simulates
<1> QED BY <1>9, <1>11

\* When that commit fails the request goes on as an evaluation.
LEMMA MarkFailsKeeps ==
    ASSUME Inv, NEW h \in Handlers, MarkFails(h)
    PROVE  Inv' /\ Simulates
<1>1. /\ h \in Callers /\ CallFits(h) /\ call[h] \in Call /\ pipe[h] \in Pipe
      /\ pipe \in [Callers -> Pipe] /\ TypeOK
  BY RunAssumption DEF Inv, TypeOK, OrderTypeOK, MarkFails
<1>2. call[h].pc = "idle"
  BY <1>1 DEF CallFits, MarkFails
<1>3. pipe' \in [Callers -> Pipe]
  BY <1>1, OrderAssumption DEF MarkFails, Pipe, Told, IdlePipe, Goes, Ends
<1>4. /\ pipe'[h].pc = "start" /\ pipe'[h].run = pipe[h].run /\ pipe'[h].told = pipe[h].told
      /\ OnlyCaller(h) /\ call' = call /\ UNCHANGED <<orders, rejected>>
  BY <1>1 DEF MarkFails, OnlyCaller, orderVars, Goes, Ends, IdlePipe, Pipe
<1>5. run' \in [Runs -> Run]
  BY <1>1 DEF MarkFails, CallFits, TypeOK, Run, Status, Active, Terminal, Writes, Pipe
<1>6. TypeOK'
  BY <1>1, <1>3, <1>5 DEF MarkFails, CallFits, TypeOK, OrderTypeOK, orderVars
<1>7. CallFits(h)'
  BY <1>1, <1>2, <1>4 DEF MarkFails, CallFits, Backed, None
<1>8. \A r1 \in Runs : run'[r1].told = run[r1].told \/ (run'[r1].told = "executed" => Backed(r1)')
  BY <1>1, <1>4 DEF MarkFails, CallFits, TypeOK, Run, Writes, Backed, None
<1>9. Inv'
  BY <1>1, <1>4, <1>6, <1>7, <1>8, CallerStep, RowsKept
<1>10. Hand(h)' = Hand(h) /\ OrdersKept
  BY <1>2, <1>4 DEF MarkFails, Hand, MayOrder, OrdersKept, orderVars
<1>11. Simulates
  BY <1>1, <1>4, <1>10, Quiet DEF Simulates
<1> QED BY <1>9, <1>11

\* A worker takes a message of a run.
LEMMA TakeTaskKeeps ==
    ASSUME Inv, NEW w \in Workers, NEW r \in Runs, TakeTask(w, r)
    PROVE  Inv' /\ Simulates
<1>1. /\ w \in Callers /\ CallFits(w) /\ call[w] \in Call /\ pipe[w] \in Pipe
      /\ pipe \in [Callers -> Pipe] /\ TypeOK
  BY RunAssumption DEF Inv, TypeOK, OrderTypeOK, TakeTask
<1>2. call[w].pc = "idle"
  BY <1>1 DEF CallFits, TakeTask
<1>3. pipe' \in [Callers -> Pipe]
  BY <1>1, OrderAssumption DEF TakeTask, Pipe, Told, IdlePipe, Goes, Ends
<1>4. /\ pipe'[w].pc = "start" /\ pipe'[w].run = r /\ pipe'[w].told = None
      /\ OnlyCaller(w) /\ call' = call /\ UNCHANGED <<orders, rejected>>
  BY <1>1 DEF TakeTask, OnlyCaller, orderVars, Goes, Ends, IdlePipe, Pipe
<1>5. run' \in [Runs -> Run]
  BY <1>1 DEF TakeTask, CallFits, TypeOK, Run, Status, Active, Terminal, Writes, Pipe
<1>6. TypeOK'
  BY <1>1, <1>3, <1>5 DEF TakeTask, CallFits, TypeOK, OrderTypeOK, orderVars
<1>7. CallFits(w)'
  BY <1>1, <1>2, <1>4 DEF TakeTask, CallFits, Backed, None
<1>8. \A r1 \in Runs : run'[r1].told = run[r1].told \/ (run'[r1].told = "executed" => Backed(r1)')
  BY <1>1, <1>4 DEF TakeTask, CallFits, TypeOK, Run, Writes, Backed, None
<1>9. Inv'
  BY <1>1, <1>4, <1>6, <1>7, <1>8, CallerStep, RowsKept
<1>10. Hand(w)' = Hand(w) /\ OrdersKept
  BY <1>2, <1>4 DEF TakeTask, Hand, MayOrder, OrdersKept, orderVars
<1>11. Simulates
  BY <1>1, <1>4, <1>10, Quiet DEF Simulates
<1> QED BY <1>9, <1>11

\* A pipeline that starts gets its licence.
LEMMA StartPipelineKeeps ==
    ASSUME Inv, NEW c \in Callers, StartPipeline(c)
    PROVE  Inv' /\ Simulates
<1>1. /\ c \in Callers /\ CallFits(c) /\ call[c] \in Call /\ pipe[c] \in Pipe
      /\ pipe \in [Callers -> Pipe] /\ TypeOK
  BY RunAssumption DEF Inv, TypeOK, OrderTypeOK, StartPipeline
<1>2. call[c].pc = "idle"
  BY <1>1 DEF CallFits, StartPipeline
<1>3. pipe' \in [Callers -> Pipe]
  BY <1>1, OrderAssumption DEF StartPipeline, Pipe, Told, IdlePipe, Goes, Ends
<1>4. /\ pipe'[c].pc = "analyse" /\ pipe'[c].run = pipe[c].run /\ pipe'[c].told = pipe[c].told
      /\ OnlyCaller(c) /\ call' = call /\ UNCHANGED <<orders, rejected>>
  BY <1>1 DEF StartPipeline, OnlyCaller, orderVars, Goes, Ends, IdlePipe, Pipe
<1>5. run' \in [Runs -> Run]
  BY <1>1 DEF StartPipeline, CallFits, TypeOK, Run, Status, Active, Terminal, Writes, Pipe
<1>6. TypeOK'
  BY <1>1, <1>3, <1>5 DEF StartPipeline, CallFits, TypeOK, OrderTypeOK, orderVars
<1>7. CallFits(c)'
  BY <1>1, <1>2, <1>4 DEF StartPipeline, CallFits, Backed, None
<1>8. \A r1 \in Runs : run'[r1].told = run[r1].told \/ (run'[r1].told = "executed" => Backed(r1)')
  BY <1>1, <1>4 DEF StartPipeline, CallFits, TypeOK, Run, Writes, Backed, None
<1>9. Inv'
  BY <1>1, <1>4, <1>6, <1>7, <1>8, CallerStep, RowsKept
<1>10. /\ pipe[c].run \in Runs /\ Hand(c) = Ledger!Nothing
       /\ Hand(c)' = Ledger!Licence(pipe[c].run)
       /\ UNCHANGED <<orders, fills, strays>>
       /\ starts' = [starts EXCEPT ![pipe[c].run] = @ + 1]
  BY <1>1, <1>2, <1>4 DEF StartPipeline, CallFits, Hand, MayOrder, orderVars, Ledger!Nothing, Ledger!Licence
<1>11. Simulates
  BY <1>1, <1>4, <1>10, Licenses DEF Simulates
<1> QED BY <1>9, <1>11

\* A cancelled pipeline gives an unused licence back.
LEMMA AbortCancelledKeeps ==
    ASSUME Inv, NEW c \in Callers, AbortCancelled(c)
    PROVE  Inv' /\ Simulates
<1>1. /\ c \in Callers /\ CallFits(c) /\ call[c] \in Call /\ pipe[c] \in Pipe
      /\ pipe \in [Callers -> Pipe] /\ TypeOK
  BY RunAssumption DEF Inv, TypeOK, OrderTypeOK, AbortCancelled
<1>2. call[c].pc = "idle"
  BY <1>1 DEF CallFits, AbortCancelled
<1>3. pipe' \in [Callers -> Pipe]
  BY <1>1, OrderAssumption DEF AbortCancelled, Pipe, Told, IdlePipe, Goes, Ends
<1>4. /\ pipe'[c].pc = "idle" /\ pipe'[c].run = None /\ pipe'[c].told = None
      /\ OnlyCaller(c) /\ call' = call /\ UNCHANGED <<orders, rejected>>
  BY <1>1 DEF AbortCancelled, OnlyCaller, orderVars, Goes, Ends, IdlePipe, Pipe
<1>5. run' \in [Runs -> Run]
  BY <1>1 DEF AbortCancelled, CallFits, TypeOK, Run, Status, Active, Terminal, Writes, Pipe
<1>6. TypeOK'
  BY <1>1, <1>3, <1>5 DEF AbortCancelled, CallFits, TypeOK, OrderTypeOK, orderVars
<1>7. CallFits(c)'
  BY <1>1, <1>2, <1>4 DEF AbortCancelled, CallFits, Backed, None
<1>8. \A r1 \in Runs : run'[r1].told = run[r1].told \/ (run'[r1].told = "executed" => Backed(r1)')
  BY <1>1, <1>4 DEF AbortCancelled, CallFits, TypeOK, Run, Writes, Backed, None
<1>9. Inv'
  BY <1>1, <1>4, <1>6, <1>7, <1>8, CallerStep, RowsKept
<1>10. OrdersKept /\ Hand(c)' = Ledger!Nothing
  BY <1>2, <1>4 DEF AbortCancelled, Hand, MayOrder, OrdersKept, orderVars, Ledger!Nothing
<1>11. Hand(c) = Ledger!Nothing \/ \E r1 \in Runs : Hand(c) = Ledger!Licence(r1)
  BY <1>1, <1>2, HandFacts
<1>12. Simulates
  BY <1>1, <1>4, <1>10, <1>11, Quiet, Withdraws DEF Simulates
<1> QED BY <1>9, <1>12

\* The last check before the order keeps the licence.
LEMMA PassLastCheckKeeps ==
    ASSUME Inv, NEW c \in Callers, PassLastCheck(c)
    PROVE  Inv' /\ Simulates
<1>1. /\ c \in Callers /\ CallFits(c) /\ call[c] \in Call /\ pipe[c] \in Pipe
      /\ pipe \in [Callers -> Pipe] /\ TypeOK
  BY RunAssumption DEF Inv, TypeOK, OrderTypeOK, PassLastCheck
<1>2. call[c].pc = "idle"
  BY <1>1 DEF CallFits, PassLastCheck
<1>3. pipe' \in [Callers -> Pipe]
  BY <1>1, OrderAssumption DEF PassLastCheck, Pipe, Told, IdlePipe, Goes, Ends
<1>4. /\ pipe'[c].pc = "order" /\ pipe'[c].run = pipe[c].run /\ pipe'[c].told = pipe[c].told
      /\ OnlyCaller(c) /\ call' = call /\ UNCHANGED <<orders, rejected>>
  BY <1>1 DEF PassLastCheck, OnlyCaller, orderVars, Goes, Ends, IdlePipe, Pipe
<1>5. run' \in [Runs -> Run]
  BY <1>1 DEF PassLastCheck, CallFits, TypeOK, Run, Status, Active, Terminal, Writes, Pipe
<1>6. TypeOK'
  BY <1>1, <1>3, <1>5 DEF PassLastCheck, CallFits, TypeOK, OrderTypeOK, orderVars
<1>7. CallFits(c)'
  BY <1>1, <1>2, <1>4 DEF PassLastCheck, CallFits, Backed, None
<1>8. \A r1 \in Runs : run'[r1].told = run[r1].told \/ (run'[r1].told = "executed" => Backed(r1)')
  BY <1>1, <1>4 DEF PassLastCheck, CallFits, TypeOK, Run, Writes, Backed, None
<1>9. Inv'
  BY <1>1, <1>4, <1>6, <1>7, <1>8, CallerStep, RowsKept
<1>10. Hand(c)' = Hand(c) /\ OrdersKept
  BY <1>2, <1>4 DEF PassLastCheck, Hand, MayOrder, OrdersKept, orderVars
<1>11. Simulates
  BY <1>1, <1>4, <1>10, Quiet DEF Simulates
<1> QED BY <1>9, <1>11

\* Without an order the licence goes back.
LEMMA PlaceNoOrderKeeps ==
    ASSUME Inv, NEW c \in Callers, PlaceNoOrder(c)
    PROVE  Inv' /\ Simulates
<1>1. /\ c \in Callers /\ CallFits(c) /\ call[c] \in Call /\ pipe[c] \in Pipe
      /\ pipe \in [Callers -> Pipe] /\ TypeOK
  BY RunAssumption DEF Inv, TypeOK, OrderTypeOK, PlaceNoOrder
<1>2. call[c].pc = "idle"
  BY <1>1 DEF CallFits, PlaceNoOrder
<1>3. pipe' \in [Callers -> Pipe]
  BY <1>1, OrderAssumption DEF PlaceNoOrder, Pipe, Told, IdlePipe, Goes, Ends
<1>4. /\ pipe'[c].pc = "final" /\ pipe'[c].run = pipe[c].run /\ pipe'[c].told = "skipped"
      /\ OnlyCaller(c) /\ call' = call /\ UNCHANGED <<orders, rejected>>
  BY <1>1 DEF PlaceNoOrder, OnlyCaller, orderVars, Goes, Ends, IdlePipe, Pipe
<1>5. run' \in [Runs -> Run]
  BY <1>1 DEF PlaceNoOrder, CallFits, TypeOK, Run, Status, Active, Terminal, Writes, Pipe
<1>6. TypeOK'
  BY <1>1, <1>3, <1>5 DEF PlaceNoOrder, CallFits, TypeOK, OrderTypeOK, orderVars
<1>7. CallFits(c)'
  BY <1>1, <1>2, <1>4 DEF PlaceNoOrder, CallFits, Backed, None
<1>8. \A r1 \in Runs : run'[r1].told = run[r1].told \/ (run'[r1].told = "executed" => Backed(r1)')
  BY <1>1, <1>4 DEF PlaceNoOrder, CallFits, TypeOK, Run, Writes, Backed, None
<1>9. Inv'
  BY <1>1, <1>4, <1>6, <1>7, <1>8, CallerStep, RowsKept
<1>10. OrdersKept /\ Hand(c)' = Ledger!Nothing
  BY <1>2, <1>4 DEF PlaceNoOrder, Hand, MayOrder, OrdersKept, orderVars, Ledger!Nothing
<1>11. Hand(c) = Ledger!Nothing \/ \E r1 \in Runs : Hand(c) = Ledger!Licence(r1)
  BY <1>1, <1>2, HandFacts
<1>12. Simulates
  BY <1>1, <1>4, <1>10, <1>11, Quiet, Withdraws DEF Simulates
<1> QED BY <1>9, <1>12

\* After the order there is no licence left to change.
LEMMA PassFinalCheckKeeps ==
    ASSUME Inv, NEW c \in Callers, PassFinalCheck(c)
    PROVE  Inv' /\ Simulates
<1>1. /\ c \in Callers /\ CallFits(c) /\ call[c] \in Call /\ pipe[c] \in Pipe
      /\ pipe \in [Callers -> Pipe] /\ TypeOK
  BY RunAssumption DEF Inv, TypeOK, OrderTypeOK, PassFinalCheck
<1>2. call[c].pc = "idle"
  BY <1>1 DEF CallFits, PassFinalCheck
<1>3. pipe' \in [Callers -> Pipe]
  BY <1>1, OrderAssumption DEF PassFinalCheck, Pipe, Told, IdlePipe, Goes, Ends
<1>4. /\ pipe'[c].pc = "finish" /\ pipe'[c].run = pipe[c].run /\ pipe'[c].told = pipe[c].told
      /\ OnlyCaller(c) /\ call' = call /\ UNCHANGED <<orders, rejected>>
  BY <1>1 DEF PassFinalCheck, OnlyCaller, orderVars, Goes, Ends, IdlePipe, Pipe
<1>5. run' \in [Runs -> Run]
  BY <1>1 DEF PassFinalCheck, CallFits, TypeOK, Run, Status, Active, Terminal, Writes, Pipe
<1>6. TypeOK'
  BY <1>1, <1>3, <1>5 DEF PassFinalCheck, CallFits, TypeOK, OrderTypeOK, orderVars
<1>7. CallFits(c)'
  BY <1>1, <1>2, <1>4 DEF PassFinalCheck, CallFits, Backed, None
<1>8. \A r1 \in Runs : run'[r1].told = run[r1].told \/ (run'[r1].told = "executed" => Backed(r1)')
  BY <1>1, <1>4 DEF PassFinalCheck, CallFits, TypeOK, Run, Writes, Backed, None
<1>9. Inv'
  BY <1>1, <1>4, <1>6, <1>7, <1>8, CallerStep, RowsKept
<1>10. Hand(c)' = Hand(c) /\ OrdersKept
  BY <1>2, <1>4 DEF PassFinalCheck, Hand, MayOrder, OrdersKept, orderVars
<1>11. Simulates
  BY <1>1, <1>4, <1>10, Quiet DEF Simulates
<1> QED BY <1>9, <1>11

\* What the decision tells is what the pipeline has found.
LEMMA FinishPipelineKeeps ==
    ASSUME Inv, NEW c \in Callers, FinishPipeline(c)
    PROVE  Inv' /\ Simulates
<1>1. /\ c \in Callers /\ CallFits(c) /\ call[c] \in Call /\ pipe[c] \in Pipe
      /\ pipe \in [Callers -> Pipe] /\ TypeOK
  BY RunAssumption DEF Inv, TypeOK, OrderTypeOK, FinishPipeline
<1>2. call[c].pc = "idle"
  BY <1>1 DEF CallFits, FinishPipeline
<1>3. pipe' \in [Callers -> Pipe]
  BY <1>1, OrderAssumption DEF FinishPipeline, Pipe, Told, IdlePipe, Goes, Ends
<1>4. /\ pipe'[c].pc = "idle" /\ pipe'[c].run = None /\ pipe'[c].told = None
      /\ OnlyCaller(c) /\ call' = call /\ UNCHANGED <<orders, rejected>>
  BY <1>1 DEF FinishPipeline, OnlyCaller, orderVars, Goes, Ends, IdlePipe, Pipe
<1>5. run' \in [Runs -> Run]
  <2> DEFINE named == [run EXCEPT ![pipe[c].run].status = "completed"]
  <2>1. pipe[c].run \in Runs /\ run \in [Runs -> Run] /\ pipe[c].told \in Told
    BY <1>1 DEF FinishPipeline, CallFits, TypeOK, Pipe
  <2>2. named \in [Runs -> Run]
    BY <2>1 DEF Run, Status, Active, Terminal
  <2>3. run' = [named EXCEPT ![pipe[c].run].told = pipe[c].told]
    BY DEF FinishPipeline
  <2> HIDE DEF named
  <2> QED BY <2>1, <2>2, <2>3 DEF Run
<1>6. TypeOK'
  BY <1>1, <1>3, <1>5 DEF FinishPipeline, CallFits, TypeOK, OrderTypeOK, orderVars
<1>7. CallFits(c)'
  BY <1>1, <1>2, <1>4 DEF FinishPipeline, CallFits, Backed, None
<1>8. \A r1 \in Runs : run'[r1].told = run[r1].told \/ (run'[r1].told = "executed" => Backed(r1)')
  BY <1>1, <1>4 DEF FinishPipeline, CallFits, TypeOK, Run, Writes, Backed, None
<1>9. Inv'
  BY <1>1, <1>4, <1>6, <1>7, <1>8, CallerStep, RowsKept
<1>10. Hand(c)' = Hand(c) /\ OrdersKept
  BY <1>2, <1>4 DEF FinishPipeline, Hand, MayOrder, OrdersKept, orderVars
<1>11. Simulates
  BY <1>1, <1>4, <1>10, Quiet DEF Simulates
<1> QED BY <1>9, <1>11

\* A lost final commit gives an unused licence back.
LEMMA FinishFailsKeeps ==
    ASSUME Inv, NEW c \in Callers, FinishFails(c)
    PROVE  Inv' /\ Simulates
<1>1. /\ c \in Callers /\ CallFits(c) /\ call[c] \in Call /\ pipe[c] \in Pipe
      /\ pipe \in [Callers -> Pipe] /\ TypeOK
  BY RunAssumption DEF Inv, TypeOK, OrderTypeOK, FinishFails
<1>2. call[c].pc = "idle"
  BY <1>1 DEF CallFits, FinishFails
<1>3. pipe' \in [Callers -> Pipe]
  BY <1>1, OrderAssumption DEF FinishFails, Pipe, Told, IdlePipe, Goes, Ends
<1>4. /\ pipe'[c].pc = "idle" /\ pipe'[c].run = None /\ pipe'[c].told = None
      /\ OnlyCaller(c) /\ call' = call /\ UNCHANGED <<orders, rejected>>
  BY <1>1 DEF FinishFails, OnlyCaller, orderVars, Goes, Ends, IdlePipe, Pipe
<1>5. run' \in [Runs -> Run]
  BY <1>1 DEF FinishFails, CallFits, TypeOK, Run, Status, Active, Terminal, Writes, Pipe
<1>6. TypeOK'
  BY <1>1, <1>3, <1>5 DEF FinishFails, CallFits, TypeOK, OrderTypeOK, orderVars
<1>7. CallFits(c)'
  BY <1>1, <1>2, <1>4 DEF FinishFails, CallFits, Backed, None
<1>8. \A r1 \in Runs : run'[r1].told = run[r1].told \/ (run'[r1].told = "executed" => Backed(r1)')
  BY <1>1, <1>4 DEF FinishFails, CallFits, TypeOK, Run, Writes, Backed, None
<1>9. Inv'
  BY <1>1, <1>4, <1>6, <1>7, <1>8, CallerStep, RowsKept
<1>10. OrdersKept /\ Hand(c)' = Ledger!Nothing
  BY <1>2, <1>4 DEF FinishFails, Hand, MayOrder, OrdersKept, orderVars, Ledger!Nothing
<1>11. Hand(c) = Ledger!Nothing \/ \E r1 \in Runs : Hand(c) = Ledger!Licence(r1)
  BY <1>1, <1>2, HandFacts
<1>12. Simulates
  BY <1>1, <1>4, <1>10, <1>11, Quiet, Withdraws DEF Simulates
<1> QED BY <1>9, <1>12

\* So does a failing pipeline.
LEMMA PipelineFailsKeeps ==
    ASSUME Inv, NEW c \in Callers, PipelineFails(c)
    PROVE  Inv' /\ Simulates
<1>1. /\ c \in Callers /\ CallFits(c) /\ call[c] \in Call /\ pipe[c] \in Pipe
      /\ pipe \in [Callers -> Pipe] /\ TypeOK
  BY RunAssumption DEF Inv, TypeOK, OrderTypeOK, PipelineFails
<1>2. call[c].pc = "idle"
  BY <1>1 DEF CallFits, PipelineFails
<1>3. pipe' \in [Callers -> Pipe]
  BY <1>1, OrderAssumption DEF PipelineFails, Pipe, Told, IdlePipe, Goes, Ends
<1>4. /\ pipe'[c].pc = "idle" /\ pipe'[c].run = None /\ pipe'[c].told = None
      /\ OnlyCaller(c) /\ call' = call /\ UNCHANGED <<orders, rejected>>
  BY <1>1 DEF PipelineFails, OnlyCaller, orderVars, Goes, Ends, IdlePipe, Pipe
<1>5. run' \in [Runs -> Run]
  BY SMTT(30), <1>1 DEF PipelineFails, CallFits, TypeOK, Run, Status, Active, Terminal, Writes, Pipe
<1>6. TypeOK'
  BY <1>1, <1>3, <1>5 DEF PipelineFails, CallFits, TypeOK, OrderTypeOK, orderVars
<1>7. CallFits(c)'
  BY <1>1, <1>2, <1>4 DEF PipelineFails, CallFits, Backed, None
<1>8. \A r1 \in Runs : run'[r1].told = run[r1].told \/ (run'[r1].told = "executed" => Backed(r1)')
  BY <1>1, <1>4 DEF PipelineFails, CallFits, TypeOK, Run, Writes, Backed, None
<1>9. Inv'
  BY <1>1, <1>4, <1>6, <1>7, <1>8, CallerStep, RowsKept
<1>10. OrdersKept /\ Hand(c)' = Ledger!Nothing
  BY <1>2, <1>4 DEF PipelineFails, Hand, MayOrder, OrdersKept, orderVars, Ledger!Nothing
<1>11. Hand(c) = Ledger!Nothing \/ \E r1 \in Runs : Hand(c) = Ledger!Licence(r1)
  BY <1>1, <1>2, HandFacts
<1>12. Simulates
  BY <1>1, <1>4, <1>10, <1>11, Quiet, Withdraws DEF Simulates
<1> QED BY <1>9, <1>12
\* A call in progress, and what its caller holds.
LEMMA InCall ==
    ASSUME Inv, NEW c \in Callers, call[c].pc # "idle"
    PROVE  /\ call[c] \in Call /\ call[c].run = pipe[c].run /\ pipe[c].pc = "ordering"
           /\ call[c].run \in Runs /\ call[c].trade \in Trades
           /\ call[c].pc \in {"sdk", "rest"} => Hand(c) = Ledger!Licence(call[c].run)
           /\ call[c].pc = "record" /\ call[c].status = "executed" =>
                Hand(c) = Ledger!FillOf(call[c].run, call[c].trade)
           /\ call[c].pc = "record" /\ call[c].status # "executed" => Hand(c) = Ledger!Nothing
           /\ call[c].pc = "returned" => Hand(c) = Ledger!Nothing
<1>1. CallFits(c) /\ call[c] \in Call
  BY DEF Inv, TypeOK, OrderTypeOK
<1>2. /\ call[c].run = pipe[c].run /\ pipe[c].pc = "ordering"
      /\ call[c].run \in Runs /\ call[c].trade \in Trades
  BY <1>1 DEF CallFits
<1> QED BY <1>1, <1>2 DEF Hand, MayOrder, Ledger!Licence, Ledger!FillOf, Ledger!Nothing

\* What a step of a call has to show, and what its caller holds then.
LEMMA CallStep ==
    ASSUME Inv, NEW c \in Callers, NEW y \in Call, Continues(c, y),
           UNCHANGED <<settings, mode, rejected, runVars>>, call[c].pc # "idle",
           y.run = call[c].run, y.trade = call[c].trade, y.pc # "idle",
           y.pc = "record" => y.status \in OrderStatus,
           y.pc = "returned" /\ y.status # "raised" => Backed(call[c].run)',
           \A r \in Runs : Backed(r) => Backed(r)',
           orders' \in [Runs -> [Trades -> [OrderStatus -> Nat]]],
           fills' \in [Runs -> [Trades -> Nat]], strays' \in [Runs -> [Trades -> Nat]]
    PROVE  /\ Inv' /\ OnlyCaller(c)
           /\ y.pc \in {"sdk", "rest"} => Hand(c)' = Ledger!Licence(call[c].run)
           /\ y.pc = "record" /\ y.status = "executed" =>
                Hand(c)' = Ledger!FillOf(call[c].run, call[c].trade)
           /\ y.pc = "record" /\ y.status # "executed" => Hand(c)' = Ledger!Nothing
           /\ y.pc = "returned" => Hand(c)' = Ledger!Nothing
<1>1. /\ TypeOK /\ CallFits(c) /\ pipe[c].pc = "ordering" /\ pipe[c].run = call[c].run
      /\ call \in [Callers -> Call] /\ call[c].run \in Runs /\ call[c].trade \in Trades
  BY InCall DEF Inv, TypeOK, OrderTypeOK
<1>2. /\ call' \in [Callers -> Call] /\ call'[c] = y
      /\ \A d \in Callers \ {c} : call'[d] = call[d]
  BY <1>1 DEF Continues
<1>3. pipe' = pipe /\ run' = run
  BY DEF runVars
<1>4. OnlyCaller(c)
  BY <1>2, <1>3 DEF OnlyCaller
<1>5. TypeOK'
  BY <1>1, <1>2 DEF TypeOK, OrderTypeOK, runVars
<1>6. CallFits(c)'
  BY <1>1, <1>2, <1>3 DEF CallFits
<1>7. Inv'
  BY <1>3, <1>4, <1>5, <1>6, CallerStep
<1>8. /\ y.pc \in {"sdk", "rest"} => Hand(c)' = Ledger!Licence(call[c].run)
      /\ y.pc = "record" /\ y.status = "executed" =>
            Hand(c)' = Ledger!FillOf(call[c].run, call[c].trade)
      /\ y.pc = "record" /\ y.status # "executed" => Hand(c)' = Ledger!Nothing
      /\ y.pc = "returned" => Hand(c)' = Ledger!Nothing
  BY <1>1, <1>2, <1>3 DEF Hand, MayOrder, Ledger!Licence, Ledger!FillOf, Ledger!Nothing
<1> QED BY <1>4, <1>7, <1>8

\* Counts of fills and strays, in the model and in the ledger.
LEMMA CountFacts ==
    ASSUME Inv, NEW c \in Callers, call[c].pc # "idle"
    PROVE  /\ OneMore(fills, call[c]) = Ledger!OneMore(fills, call[c].run, call[c].trade)
           /\ OneMore(strays, call[c]) = Ledger!OneMore(strays, call[c].run, call[c].trade)
           /\ OneMore(fills, call[c]) \in [Runs -> [Trades -> Nat]]
           /\ OneMore(strays, call[c]) \in [Runs -> [Trades -> Nat]]
           /\ fills \in [Runs -> [Trades -> Nat]] /\ strays \in [Runs -> [Trades -> Nat]]
           /\ orders \in [Runs -> [Trades -> [OrderStatus -> Nat]]]
           /\ mode \in [Runs -> Modes]
BY InCall, OneMoreFacts DEF Inv, TypeOK, OrderTypeOK, Ledger!OneMore

\* Going over to REST keeps the licence.
LEMMA SdkUnavailableKeeps ==
    ASSUME Inv, NEW c \in Callers, SdkUnavailable(c), UNCHANGED runVars
    PROVE  Inv' /\ Simulates
<1> DEFINE y == [call[c] EXCEPT !.pc = "rest"]
<1>1. call[c].pc = "sdk"
  BY DEF SdkUnavailable
<1>2. y \in Call /\ y.pc = "rest" /\ y.run = call[c].run /\ y.trade = call[c].trade
  BY <1>1, InCall DEF Call
<1>3. /\ Continues(c, y) /\ UNCHANGED <<settings, mode, orders, fills, strays, rejected>>
  BY DEF SdkUnavailable
<1> HIDE DEF y
<1>4. Inv' /\ OnlyCaller(c) /\ Hand(c)' = Ledger!Licence(call[c].run)
  BY <1>1, <1>2, <1>3, CallStep, CountFacts, RowsKept
<1>5. Hand(c) = Ledger!Licence(call[c].run) /\ OrdersKept
  BY <1>1, <1>3, InCall DEF OrdersKept, runVars
<1> QED BY <1>4, <1>5, Quiet DEF Simulates

\* A candidate that fails keeps the licence or, the last one, gives it back.
LEMMA CandidateFailsKeeps ==
    ASSUME Inv, NEW c \in Callers, CandidateFails(c), UNCHANGED runVars
    PROVE  Inv' /\ Simulates
<1> DEFINE y == NextAttempt(call[c])
<1>1. call[c].pc \in {"sdk", "rest"} /\ call[c].pc # "idle"
  BY DEF CandidateFails
<1>2. /\ y \in Call /\ y.run = call[c].run /\ y.trade = call[c].trade
      /\ \/ y.pc \in {"sdk", "rest"}
         \/ y.pc = "record" /\ y.status \in {"simulated", "failed"}
  BY <1>1, InCall, CountFacts, NextAttemptFacts
<1>3. /\ Continues(c, y) /\ UNCHANGED <<settings, mode, orders, fills, strays, rejected>>
  BY DEF CandidateFails
<1> HIDE DEF y
<1>4. y.pc # "idle" /\ y.pc # "returned" /\ (y.pc = "record" => y.status \in OrderStatus)
  BY <1>2 DEF OrderStatus
<1>5. /\ Inv' /\ OnlyCaller(c)
      /\ Hand(c)' = Ledger!Licence(call[c].run) \/ Hand(c)' = Ledger!Nothing
  BY <1>1, <1>2, <1>3, <1>4, CallStep, CountFacts, RowsKept
<1>6. call[c].run \in Runs /\ Hand(c) = Ledger!Licence(call[c].run) /\ OrdersKept
  BY <1>1, <1>3, InCall DEF OrdersKept, runVars
<1> QED BY <1>5, <1>6, Quiet, Withdraws DEF Simulates

\* A refusal gives the licence back.
LEMMA BrokerRejectsKeeps ==
    ASSUME Inv, NEW c \in Callers, BrokerRejects(c), UNCHANGED runVars
    PROVE  Inv' /\ Simulates
<1> DEFINE y == Refused(call[c])
<1>1. call[c].pc \in {"sdk", "rest"} /\ call[c].pc # "idle"
  BY DEF BrokerRejects
<1>2. /\ y \in Call /\ y.run = call[c].run /\ y.trade = call[c].trade
      /\ y.pc = "record" /\ y.status \in {"simulated", "failed"}
  BY <1>1, InCall, CountFacts, NextAttemptFacts
<1>3. /\ Continues(c, y) /\ UNCHANGED <<settings, mode, orders, fills, strays, rejected>>
  BY DEF BrokerRejects
<1> HIDE DEF y
<1>4. y.pc # "idle" /\ y.pc # "returned" /\ y.status \in OrderStatus /\ y.status # "executed"
  BY <1>2 DEF OrderStatus
<1>5. Inv' /\ OnlyCaller(c) /\ Hand(c)' = Ledger!Nothing
  BY <1>1, <1>2, <1>3, <1>4, CallStep, CountFacts, RowsKept
<1>6. call[c].run \in Runs /\ Hand(c) = Ledger!Licence(call[c].run) /\ OrdersKept
  BY <1>1, <1>3, InCall DEF OrdersKept, runVars
<1> QED BY <1>5, <1>6, Withdraws DEF Simulates

\* A fill that is seen uses the licence up.
LEMMA BrokerFillsKeeps ==
    ASSUME Inv, NEW c \in Callers, BrokerFills(c), UNCHANGED runVars
    PROVE  Inv' /\ Simulates
<1> DEFINE y == Filled(call[c])
<1>1. call[c].pc \in {"sdk", "rest"} /\ call[c].pc # "idle"
  BY DEF BrokerFills
<1>2. /\ y \in Call /\ y.run = call[c].run /\ y.trade = call[c].trade
      /\ y.pc = "record" /\ y.status = "executed"
  BY <1>1, InCall, CountFacts, NextAttemptFacts
<1>3. /\ Continues(c, y) /\ UNCHANGED <<settings, mode, orders, strays, rejected>>
      /\ fills' = OneMore(fills, call[c])
  BY DEF BrokerFills
<1> HIDE DEF y
<1>4. y.pc # "idle" /\ y.pc # "returned" /\ y.status \in OrderStatus
  BY <1>2 DEF OrderStatus
<1>5. /\ Inv' /\ OnlyCaller(c)
      /\ Hand(c)' = Ledger!FillOf(call[c].run, call[c].trade)
  BY <1>1, <1>2, <1>3, <1>4, CallStep, CountFacts, RowsKept
<1>6. /\ call[c].run \in Runs /\ call[c].trade \in Trades
      /\ Hand(c) = Ledger!Licence(call[c].run)
      /\ UNCHANGED <<orders, strays, starts>>
      /\ fills' = Ledger!OneMore(fills, call[c].run, call[c].trade)
  BY <1>1, <1>3, InCall, CountFacts DEF runVars
<1> QED BY <1>5, <1>6, Sees DEF Simulates

\* A fill that is not seen is lost, and leaves the licence or gives it back.
LEMMA BrokerFillsUnseenKeeps ==
    ASSUME Inv, NEW c \in Callers, BrokerFillsUnseen(c), UNCHANGED runVars
    PROVE  Inv' /\ Simulates
<1>1. call[c].pc \in {"sdk", "rest"} /\ call[c].pc # "idle"
  BY DEF BrokerFillsUnseen
<1>2. PICK y : (y = NextAttempt(call[c]) \/ y = Refused(call[c])) /\ Continues(c, y)
  BY DEF BrokerFillsUnseen
<1>3. /\ y \in Call /\ y.run = call[c].run /\ y.trade = call[c].trade
      /\ \/ y.pc \in {"sdk", "rest"}
         \/ y.pc = "record" /\ y.status \in {"simulated", "failed"}
  BY <1>1, <1>2, InCall, CountFacts, NextAttemptFacts
<1>4. /\ UNCHANGED <<settings, mode, orders, rejected>>
      /\ fills' = OneMore(fills, call[c]) /\ strays' = OneMore(strays, call[c])
  BY DEF BrokerFillsUnseen
<1>5. y.pc # "idle" /\ y.pc # "returned" /\ (y.pc = "record" => y.status \in OrderStatus)
  BY <1>3 DEF OrderStatus
<1>6. /\ Inv' /\ OnlyCaller(c)
      /\ Hand(c)' = Ledger!Licence(call[c].run) \/ Hand(c)' = Ledger!Nothing
  BY <1>1, <1>2, <1>3, <1>4, <1>5, CallStep, CountFacts, RowsKept
<1>7. /\ call[c].run \in Runs /\ call[c].trade \in Trades
      /\ Hand(c) = Ledger!Licence(call[c].run)
      /\ UNCHANGED <<orders, starts>>
      /\ fills' = Ledger!OneMore(fills, call[c].run, call[c].trade)
      /\ strays' = Ledger!OneMore(strays, call[c].run, call[c].trade)
  BY <1>1, <1>4, InCall, CountFacts DEF runVars
<1> QED BY <1>6, <1>7, Misses DEF Simulates

\* A row tells of the fill its caller holds, or of none.
LEMMA RecordOrderKeeps ==
    ASSUME Inv, NEW c \in Callers, RecordOrder(c), UNCHANGED runVars
    PROVE  Inv' /\ Simulates
<1> DEFINE x == call[c]
           y == At(x, "returned", x.status)
<1>1. x.pc = "record" /\ x.pc # "idle"
  BY DEF RecordOrder
<1>2. x \in Call /\ x.run \in Runs /\ x.trade \in Trades /\ x.status \in OrderStatus
  <2>1. CallFits(c)
    BY DEF Inv
  <2> QED BY <1>1, <2>1, InCall DEF CallFits
<1>3. /\ y \in Call /\ y.run = x.run /\ y.trade = x.trade
      /\ y.pc = "returned" /\ y.status = x.status
  BY <1>2 DEF At, Call
<1>4. /\ Continues(c, y) /\ UNCHANGED <<settings, mode, fills, strays, rejected>>
      /\ orders' = [orders EXCEPT ![x.run][x.trade][x.status] = @ + 1]
  BY DEF RecordOrder
<1> HIDE DEF y
<1>5. PICK r \in Runs, t \in Trades, s \in OrderStatus :
          r = x.run /\ t = x.trade /\ s = x.status
  BY <1>2
<1>6. orders' = [orders EXCEPT ![r][t][s] = @ + 1]
  BY <1>4, <1>5
<1>7. orders \in [Runs -> [Trades -> [OrderStatus -> Nat]]]
  BY <1>1, CountFacts
<1>8. /\ orders' \in [Runs -> [Trades -> [OrderStatus -> Nat]]]
      /\ Backed(r)' /\ \A q \in Runs : Backed(q) => Backed(q)'
      /\ \A q \in Runs, u \in Trades : orders'[q][u]["executed"] =
            IF q = r /\ u = t /\ s = "executed"
            THEN orders[q][u]["executed"] + 1 ELSE orders[q][u]["executed"]
  <2>1. /\ orders' \in [Runs -> [Trades -> [OrderStatus -> Nat]]]
        /\ \A q \in Runs, u \in Trades, v \in OrderStatus : orders'[q][u][v] =
              IF q = r /\ u = t /\ v = s THEN orders[q][u][v] + 1 ELSE orders[q][u][v]
    BY <1>6, <1>7
  <2>2. \A q \in Runs, u \in Trades, v \in OrderStatus :
            orders[q][u][v] \in Nat /\ (orders[q][u][v] > 0 => orders'[q][u][v] > 0)
    <3> TAKE q \in Runs, u \in Trades, v \in OrderStatus
    <3>1. orders[q] \in [Trades -> [OrderStatus -> Nat]]
      BY <1>7
    <3>2. orders[q][u] \in [OrderStatus -> Nat]
      BY <3>1
    <3>3. orders[q][u][v] \in Nat
      BY <3>2
    <3>4. \/ orders'[q][u][v] = orders[q][u][v] + 1
          \/ orders'[q][u][v] = orders[q][u][v]
      BY <2>1
    <3> QED BY <3>3, <3>4
  <2>3. orders'[r][t][s] > 0
    BY <2>1, <2>2
  <2>4. Backed(r)' /\ \A q \in Runs : Backed(q) => Backed(q)'
    BY <1>4, <2>2, <2>3 DEF Backed
  <2> QED BY <2>1, <2>4 DEF OrderStatus
<1>9. call' = [call EXCEPT ![c] = y] /\ call \in [Callers -> Call]
  BY <1>4 DEF Continues, Inv, TypeOK, OrderTypeOK
<1>10. Backed(x.run)'
  <2>1. call'[c].run = r
    BY <1>3, <1>5, <1>9
  <2> QED BY <1>8, <2>1 DEF Backed
<1>11. Inv' /\ OnlyCaller(c) /\ Hand(c)' = Ledger!Nothing
  BY <1>1, <1>3, <1>4, <1>8, <1>10, CallStep, CountFacts
<1>12. UNCHANGED <<fills, strays, starts>>
  BY <1>4 DEF runVars
<1>13. CASE s = "executed"
  <2> DEFINE more == [ToldRows EXCEPT ![r][t] = @ + 1]
  <2>1. ASSUME NEW q \in Runs, NEW u \in Trades
        PROVE  ToldRows'[q][u] = IF q = r /\ u = t THEN ToldRows[q][u] + 1 ELSE ToldRows[q][u]
    BY <1>8, <1>13 DEF ToldRows
  <2>2. ASSUME NEW q \in Runs, NEW u \in Trades
        PROVE  more[q][u] = IF q = r /\ u = t THEN ToldRows[q][u] + 1 ELSE ToldRows[q][u]
    BY DEF ToldRows
  <2>3. /\ ToldRows' = [q \in Runs |-> [u \in Trades |-> ToldRows'[q][u]]]
        /\ more = [q \in Runs |-> [u \in Trades |-> more[q][u]]]
    BY DEF ToldRows
  <2>4. ToldRows' = Ledger!OneMore(ToldRows, r, t)
    BY <2>1, <2>2, <2>3 DEF Ledger!OneMore
  <2>5. Hand(c) = Ledger!FillOf(r, t)
    BY <1>1, <1>5, <1>13, InCall
  <2> QED BY <1>11, <1>12, <2>4, <2>5, Tells DEF Simulates
<1>14. CASE s # "executed"
  <2>1. ToldRows' = ToldRows
    BY <1>8, <1>14 DEF ToldRows
  <2>2. Hand(c) = Ledger!Nothing
    BY <1>1, <1>5, <1>14, InCall
  <2>3. Hands' = Hands
    BY <1>11, <2>2, OneHand DEF Hands
  <2> QED BY <1>11, <1>12, <2>1, <2>3 DEF Simulates, Ledger!ledgerVars, Hands, ToldRows
<1> QED BY <1>11, <1>13, <1>14

\* A call whose caller forgets it loses the fill it holds.
LEMMA Forgets ==
    ASSUME Inv, NEW c \in Callers, call[c].pc # "idle", OnlyCaller(c),
           strays' = Forget(call[c]), UNCHANGED <<orders, fills, starts>>,
           Hand(c)' = Ledger!Nothing
    PROVE  Simulates
<1>1. call[c] \in Call /\ call[c].run \in Runs /\ call[c].trade \in Trades
  BY InCall
<1>2. CASE call[c].pc = "record" /\ call[c].status = "executed"
  BY <1>1, <1>2, InCall, CountFacts, Loses DEF Simulates, Forget
<1>3. CASE call[c].pc \in {"sdk", "rest"}
  <2>1. OrdersKept /\ Hand(c) = Ledger!Licence(call[c].run)
    BY <1>3, InCall DEF OrdersKept, Forget
  <2> QED BY <1>1, <2>1, Withdraws DEF Simulates
<1>4. CASE ~(call[c].pc = "record" /\ call[c].status = "executed") /\ call[c].pc \notin {"sdk", "rest"}
  <2>1. OrdersKept /\ Hand(c) = Ledger!Nothing
    BY <1>1, <1>4, InCall DEF OrdersKept, Forget, Call
  <2> QED BY <2>1, Quiet DEF Simulates
<1> QED BY <1>2, <1>3, <1>4

\* Strays stay counts.
LEMMA ForgetType ==
    ASSUME Inv, NEW c \in Callers
    PROVE  Forget(call[c]) \in [Runs -> [Trades -> Nat]]
<1>1. CASE call[c].pc = "record"
  BY <1>1, CountFacts DEF Forget
<1>2. CASE call[c].pc # "record"
  BY <1>2 DEF Forget, Inv, TypeOK, OrderTypeOK
<1> QED BY <1>1, <1>2

\* A row that cannot be committed loses its fill.
LEMMA RecordFailsKeeps ==
    ASSUME Inv, NEW c \in Callers, RecordFails(c), UNCHANGED runVars
    PROVE  Inv' /\ Simulates
<1> DEFINE y == At(call[c], "returned", "raised")
<1>1. call[c].pc = "record" /\ call[c].pc # "idle"
  BY DEF RecordFails
<1>2. /\ y \in Call /\ y.run = call[c].run /\ y.trade = call[c].trade
      /\ y.pc = "returned" /\ y.status = "raised"
  BY <1>1, InCall DEF At, Call
<1>3. /\ Continues(c, y) /\ UNCHANGED <<settings, mode, orders, fills, rejected>>
      /\ strays' = Forget(call[c])
  BY DEF RecordFails
<1> HIDE DEF y
<1>4. Inv' /\ OnlyCaller(c) /\ Hand(c)' = Ledger!Nothing
  BY <1>1, <1>2, <1>3, CallStep, CountFacts, ForgetType, RowsKept
<1>5. UNCHANGED <<orders, fills, starts>>
  BY <1>3 DEF runVars
<1> QED BY <1>1, <1>3, <1>4, <1>5, Forgets

\* An order that is placed keeps the licence while it is at the broker.
LEMMA PlaceOrderKeeps ==
    ASSUME Inv, NEW c \in Callers, NEW t \in Trades, PlaceOrder(c, t)
    PROVE  Inv' /\ Simulates
<1>1. /\ CallFits(c) /\ TypeOK /\ OrderTypeOK /\ pipe[c] \in Pipe /\ pipe[c].pc = "order"
      /\ pipe \in [Callers -> Pipe] /\ call \in [Callers -> Call]
  BY DEF Inv, TypeOK, OrderTypeOK, PlaceOrder
<1>2. PICK r \in Runs : r = pipe[c].run
  BY <1>1 DEF CallFits
<1>3. PICK y : y = Submit(r, t)
  OBVIOUS
<1>4. /\ y \in Call /\ y.run = r /\ y.trade = t
      /\ \/ y.pc \in {"sdk", "rest"}
         \/ y.pc = "record" /\ y.status \in OrderStatus \ {"executed"}
         \/ y.pc = "returned" /\ (t \in Invalid \/ Backed(r))
  BY <1>1, <1>3, SubmitFacts
<1>5. /\ call' = [call EXCEPT ![c] = y] /\ orders' = orders /\ run' = run
      /\ rejected' = IF t \in Invalid THEN rejected \cup {r} ELSE rejected
      /\ UNCHANGED <<settings, mode, fills, strays, starts>>
      /\ UNCHANGED <<cancel, msgs, revoked, crashes, unsaved>>
  BY <1>2, <1>3 DEF PlaceOrder, BeginOrder, Continues
<1>6. pipe' \in [Callers -> Pipe]
  BY <1>1 DEF PlaceOrder, Goes, Pipe
<1>7. /\ pipe'[c].pc = "ordering" /\ pipe'[c].run = r /\ pipe'[c].told = pipe[c].told
      /\ call'[c] = y /\ call' \in [Callers -> Call] /\ OnlyCaller(c)
  BY <1>1, <1>2, <1>4, <1>5 DEF PlaceOrder, Goes, OnlyCaller, Pipe
<1>8. TypeOK'
  BY <1>1, <1>5, <1>6, <1>7 DEF TypeOK, OrderTypeOK
<1>9. \A q \in Runs : Backed(q) => Backed(q)'
  BY <1>5, RowsKept
<1>10. (y.pc = "returned" => Backed(r)') /\ (Backed(r) => Backed(r)')
  BY <1>4, <1>5, <1>9 DEF Backed
<1>11. CallFits(c)'
  BY <1>1, <1>2, <1>4, <1>7, <1>10 DEF CallFits
<1>12. Inv'
  BY <1>5, <1>7, <1>8, <1>9, <1>11, CallerStep
<1>13. Hand(c) = Ledger!Licence(r) /\ OrdersKept
  BY <1>1, <1>2, <1>5, HandFacts DEF MayOrder, OrdersKept
<1>14. Hand(c)' = Ledger!Licence(r) \/ Hand(c)' = Ledger!Nothing
  BY <1>4, <1>7 DEF Hand, MayOrder, Ledger!Licence, Ledger!Nothing
<1> QED BY <1>7, <1>12, <1>13, <1>14, Quiet, Withdraws DEF Simulates

\* A call that returns leaves its caller with nothing.
LEMMA OrderReturnsKeeps ==
    ASSUME Inv, NEW c \in Callers, OrderReturns(c)
    PROVE  Inv' /\ Simulates
<1>1. /\ CallFits(c) /\ TypeOK /\ pipe[c] \in Pipe /\ call[c].pc = "returned"
      /\ pipe \in [Callers -> Pipe] /\ call \in [Callers -> Call] /\ pipe[c].run \in Runs
  BY InCall DEF Inv, TypeOK, OrderTypeOK, OrderReturns
<1>2. /\ call' = [call EXCEPT ![c] = IdleCall] /\ run' = run
      /\ UNCHANGED <<orders, rejected>>
      /\ UNCHANGED <<settings, mode, fills, strays, starts>>
      /\ UNCHANGED <<cancel, msgs, revoked, crashes, unsaved>>
  BY DEF OrderReturns, EndCall, Continues
<1>3. PICK s \in {"failed", "executed"} :
          /\ s = "executed" => call[c].status # "raised"
          /\ pipe' = [pipe EXCEPT ![c].pc = "final", ![c].told = s]
  BY DEF OrderReturns
<1>4. pipe' \in [Callers -> Pipe]
  BY <1>1, <1>3 DEF Pipe, Told
<1>5. IdleCall \in Call /\ IdleCall.pc = "idle"
  BY OrderAssumption DEF IdleCall, Call
<1>6. /\ pipe'[c].pc = "final" /\ pipe'[c].run = pipe[c].run /\ pipe'[c].told = s
      /\ call'[c].pc = "idle" /\ call' \in [Callers -> Call] /\ OnlyCaller(c)
  BY <1>1, <1>2, <1>3, <1>5 DEF OnlyCaller, Pipe
<1>7. TypeOK'
  BY <1>1, <1>2, <1>4, <1>6 DEF TypeOK, OrderTypeOK
<1>8. CallFits(c)'
  BY <1>1, <1>2, <1>3, <1>6 DEF CallFits, Backed
<1>9. Inv'
  BY <1>2, <1>6, <1>7, <1>8, CallerStep, RowsKept
<1>10. Hand(c) = Ledger!Nothing /\ Hand(c)' = Ledger!Nothing /\ OrdersKept
  BY <1>1, <1>2, <1>6, InCall DEF Hand, MayOrder, OrdersKept, Ledger!Nothing
<1> QED BY <1>6, <1>9, <1>10, Quiet DEF Simulates

\* A worker that ends where it stands loses what it holds.
LEMMA WorkerGone ==
    ASSUME Inv, NEW c \in Callers, DropCall(c), Ends(c), run' = run, starts' = starts,
           UNCHANGED <<cancel, revoked>>, unsaved' \subseteq Runs,
           msgs' \in [Runs -> Nat], crashes' \in Nat
    PROVE  Inv' /\ Simulates
<1>1. /\ CallFits(c) /\ TypeOK /\ pipe[c] \in Pipe /\ call[c] \in Call
      /\ pipe \in [Callers -> Pipe] /\ call \in [Callers -> Call]
  BY DEF Inv, TypeOK, OrderTypeOK
<1>2. /\ call' = [call EXCEPT ![c] = IdleCall] /\ strays' = Forget(call[c])
      /\ UNCHANGED <<settings, mode, orders, fills, rejected>>
      /\ pipe' = [pipe EXCEPT ![c] = IdlePipe]
  BY DEF DropCall, Continues, Ends
<1>3. /\ IdleCall \in Call /\ IdleCall.pc = "idle"
      /\ IdlePipe \in Pipe /\ IdlePipe.pc = "idle" /\ IdlePipe.told = None
  BY OrderAssumption DEF IdleCall, Call, IdlePipe, Pipe, Told
<1>4. /\ pipe' \in [Callers -> Pipe] /\ call' \in [Callers -> Call] /\ OnlyCaller(c)
      /\ pipe'[c].pc = "idle" /\ pipe'[c].told = None /\ call'[c].pc = "idle"
  BY <1>1, <1>2, <1>3 DEF OnlyCaller
<1>5. TypeOK'
  BY <1>1, <1>2, <1>4, ForgetType DEF TypeOK, OrderTypeOK
<1>6. CallFits(c)'
  BY <1>4 DEF CallFits, None
<1>7. Inv'
  BY <1>2, <1>4, <1>5, <1>6, CallerStep, RowsKept
<1>8. Hand(c)' = Ledger!Nothing
  BY <1>4 DEF Hand, MayOrder, Ledger!Nothing
<1>9. CASE call[c].pc # "idle"
  BY <1>2, <1>4, <1>7, <1>8, <1>9, Forgets
<1>10. CASE call[c].pc = "idle"
  <2>1. OrdersKept
    BY <1>2, <1>10 DEF OrdersKept, Forget
  <2>2. Hand(c) = Ledger!Nothing \/ \E r \in Runs : Hand(c) = Ledger!Licence(r)
    BY <1>10, HandFacts
  <2> QED BY <1>4, <1>7, <1>8, <2>1, <2>2, Quiet, Withdraws DEF Simulates
<1> QED BY <1>9, <1>10

\* A time limit ends a task.
LEMMA CutOffKeeps ==
    ASSUME Inv, NEW w \in Workers, CutOff(w)
    PROVE  Inv' /\ Simulates
<1>1. /\ w \in Callers /\ msgs \in [Runs -> Nat] /\ crashes \in Nat
      /\ unsaved \subseteq Runs
  BY RunAssumption DEF Inv, TypeOK
<1>2. pipe[w].run \in Runs
  BY <1>1 DEF CutOff, Inv, CallFits
<1>3. unsaved' \subseteq Runs
  BY <1>1, <1>2 DEF CutOff
<1> QED BY <1>1, <1>3, WorkerGone DEF CutOff

\* A revoked task is killed.
LEMMA KillRevokedKeeps ==
    ASSUME Inv, NEW w \in Workers, KillRevoked(w)
    PROVE  Inv' /\ Simulates
<1>1. /\ w \in Callers /\ msgs \in [Runs -> Nat] /\ crashes \in Nat
      /\ unsaved \subseteq Runs
  BY RunAssumption DEF Inv, TypeOK
<1> QED BY <1>1, WorkerGone DEF KillRevoked

\* A worker is lost and its message delivered again.
LEMMA LoseWorkerKeeps ==
    ASSUME Inv, NEW w \in Workers, LoseWorker(w)
    PROVE  Inv' /\ Simulates
<1>1. /\ w \in Callers /\ msgs \in [Runs -> Nat] /\ crashes \in Nat
      /\ unsaved \subseteq Runs
  BY RunAssumption DEF Inv, TypeOK
<1>2. pipe[w].run \in Runs
  BY <1>1 DEF LoseWorker, Inv, CallFits
<1>3. msgs' \in [Runs -> Nat]
  BY <1>1, <1>2 DEF LoseWorker
<1>4. crashes' \in Nat
  BY <1>1 DEF LoseWorker
<1> QED BY <1>1, <1>3, <1>4, WorkerGone DEF LoseWorker

\* What no caller does concerns neither orders nor callers.
LEMMA OthersKeep ==
    ASSUME Inv, UNCHANGED <<orderVars, pipe, starts>>,
           run' \in [Runs -> Run], \A r \in Runs : run'[r].told = run[r].told,
           cancel' \in [Cancels -> Cancel], msgs' \in [Runs -> Nat],
           revoked' \subseteq Runs, crashes' \in Nat, unsaved' \subseteq Runs
    PROVE  Inv' /\ Simulates
<1>1. /\ UNCHANGED <<settings, mode, orders, call, fills, strays, rejected>>
  BY DEF orderVars
<1>2. TypeOK'
  BY <1>1 DEF Inv, TypeOK, OrderTypeOK
<1>3. (\A c \in Callers : CallFits(c)') /\ \A r \in Runs : Backed(r)' = Backed(r)
  BY <1>1 DEF Inv, CallFits, Backed
<1>4. Inv'
  BY <1>2, <1>3 DEF Inv
<1>5. UNCHANGED <<Hands, ToldRows>>
  BY <1>1 DEF Hands, ToldRows, Hand, MayOrder
<1>6. Simulates
  BY <1>1, <1>5 DEF Simulates, Ledger!ledgerVars, Hands, ToldRows
<1> QED BY <1>4, <1>6

\* A cancel request reads a run and may revoke its task.
LEMMA ReadAndRevokeKeeps ==
    ASSUME Inv, NEW k \in Cancels, NEW r \in Runs, ReadAndRevoke(k, r)
    PROVE  Inv' /\ Simulates
<1>1. TypeOK
  BY DEF Inv
<1>2. revoked' \subseteq Runs
  BY <1>1 DEF ReadAndRevoke, TypeOK
<1>3. cancel' \in [Cancels -> Cancel]
  <2>1. [pc |-> "commit", run |-> r, writes |-> run[r].status # "cancelled"] \in Cancel
    BY DEF Cancel
  <2> QED BY <1>1, <2>1 DEF ReadAndRevoke, TypeOK
<1> QED BY <1>1, <1>2, <1>3, OthersKeep DEF ReadAndRevoke, TypeOK

\* A cancel request commits.
LEMMA CommitCancelKeeps ==
    ASSUME Inv, NEW k \in Cancels, CommitCancel(k)
    PROVE  Inv' /\ Simulates
<1>1. TypeOK
  BY DEF Inv
<1>2. cancel' \in [Cancels -> Cancel]
  <2>1. IdleCancel \in Cancel
    BY DEF Cancel, IdleCancel
  <2> QED BY <1>1, <2>1 DEF CommitCancel, TypeOK
<1>3. run' \in [Runs -> Run] /\ \A r \in Runs : run'[r].told = run[r].told
  BY ZenonT(60), <1>1 DEF CommitCancel, TypeOK, Run, Status, Active, Terminal
<1> QED BY <1>1, <1>2, <1>3, OthersKeep DEF CommitCancel, TypeOK

\* The message of a revoked task is discarded.
LEMMA DiscardRevokedKeeps ==
    ASSUME Inv, NEW r \in Runs, DiscardRevoked(r)
    PROVE  Inv' /\ Simulates
<1>1. TypeOK
  BY DEF Inv
<1>2. msgs' \in [Runs -> Nat]
  BY <1>1 DEF DiscardRevoked, TypeOK
<1> QED BY <1>1, <1>2, OthersKeep DEF DiscardRevoked, TypeOK

\* A step of the broker call of c.
LEMMA BrokerStepKeeps ==
    ASSUME Inv, NEW c \in Callers, BrokerStep(c)
    PROVE  Inv' /\ Simulates
BY SdkUnavailableKeeps, CandidateFailsKeeps, BrokerRejectsKeeps, BrokerFillsKeeps,
   BrokerFillsUnseenKeeps, RecordOrderKeeps, RecordFailsKeeps DEF BrokerStep, OrderStep

\* A step of a create request.
LEMMA HandlerStepKeeps ==
    ASSUME Inv, NEW h \in Handlers, HandlerStep(h)
    PROVE  Inv' /\ Simulates
BY EnqueueKeeps, EnqueueFailsKeeps, RunInRequestKeeps, MarkQueuedKeeps, MarkFailsKeeps
   DEF HandlerStep

\* A step of a pipeline.
LEMMA PipelineStepKeeps ==
    ASSUME Inv, NEW c \in Callers, PipelineStep(c)
    PROVE  Inv' /\ Simulates
BY StartPipelineKeeps, AbortCancelledKeeps, PassLastCheckKeeps, PlaceNoOrderKeeps,
   PlaceOrderKeeps, BrokerStepKeeps, OrderReturnsKeeps, PassFinalCheckKeeps,
   FinishPipelineKeeps, FinishFailsKeeps, PipelineFailsKeeps DEF PipelineStep

\* Every step keeps the invariant and is a step of the ledger or a stutter.
LEMMA EveryStep == ASSUME Inv, [Next]_vars PROVE Inv' /\ Simulates
<1>1. CASE UNCHANGED vars
  <2>1. UNCHANGED <<orderVars, pipe, starts, run, cancel, msgs, revoked, crashes, unsaved>>
    BY <1>1 DEF vars, runVars
  <2> QED BY <2>1, OthersKeep DEF Inv, TypeOK
<1>2. CASE Next
  BY <1>2, HandlerStepKeeps, CreateRunKeeps, CommitCancelKeeps, ReadAndRevokeKeeps,
     CutOffKeeps, KillRevokedKeeps, LoseWorkerKeeps, TakeTaskKeeps, PipelineStepKeeps,
     DiscardRevokedKeeps DEF Next
<1> QED BY <1>1, <1>2

\* It holds at the start, which is the start of the ledger.
LEMMA Initially == ASSUME Init PROVE Inv /\ Ledger!Init
<1>1. /\ IdleCall \in Call /\ IdleCall.pc = "idle"
      /\ IdlePipe \in Pipe /\ IdlePipe.pc = "idle" /\ IdlePipe.told = None
      /\ IdleCancel \in Cancel
  BY OrderAssumption DEF IdleCall, Call, IdlePipe, Pipe, Told, IdleCancel, Cancel
<1>2. OrderTypeOK
  BY <1>1, OrderAssumption DEF Init, OrderInit, OrderTypeOK
<1>3. TypeOK
  BY <1>1, <1>2 DEF Init, TypeOK, Run, Status, Active, Terminal, Told
<1>4. (\A c \in Callers : CallFits(c)) /\ \A r \in Runs : run[r].told # "executed"
  BY <1>1 DEF Init, OrderInit, CallFits, None
<1>5. \A c \in Callers : Hand(c) = Ledger!Nothing
  BY <1>1 DEF Init, OrderInit, Hand, MayOrder, Ledger!Nothing
<1>6. Ledger!Init
  BY <1>5 DEF Init, OrderInit, Ledger!Init, OrderStatus, Hands, ToldRows
<1> QED BY <1>3, <1>4, <1>6 DEF Inv

-----------------------------------------------------------------------------
(* The theorems.                                                           *)

\* The inductive invariant: what a caller's pipeline and its call know of each
\* other and of the rows of their run.
THEOREM Invariance == Spec => []Inv
BY Initially, EveryStep, PTL DEF Spec

\* The state is typed for any number of runs, trades, processes and faults.
THEOREM TypeCorrect == Spec => []TypeOK
<1>1. Inv => TypeOK
  BY DEF Inv
<1> QED BY <1>1, Invariance, PTL

\* A decision that tells of an execution has an order row, unless execute has
\* rejected the inputs of an order of its run, whatever is lost, cut off,
\* cancelled, redelivered or not committed.
THEOREM ToldHasOrder == Spec => []ToldRunHasOrder
<1>1. Inv => ToldRunHasOrder
  BY DEF Inv, ToldRunHasOrder, Backed
<1> QED BY <1>1, Invariance, PTL

\* Requests, tasks, cancellations and crashes implement the ledger of orders.
THEOREM Refinement == Spec => ImplementsLedger
<1>1. Inv /\ [Next]_vars => [Ledger!Next]_(Ledger!ledgerVars)
  BY EveryStep DEF Simulates
<1>2. Init => Ledger!Init
  BY Initially
<1> QED BY <1>1, <1>2, Invariance, PTL DEF Spec, Ledger!Spec, ImplementsLedger

-----------------------------------------------------------------------------
(* What the ledger's steps keep, for any numbers of evaluators, runs and   *)
(* trades: its definitions are expanded, the mapping of its variables is   *)
(* not.                                                                    *)

Counts == [Runs -> [Trades -> Nat]]

HandValues == {Ledger!Nothing} \cup {Ledger!Licence(r) : r \in Runs}
                   \cup {Ledger!FillOf(r, t) : r \in Runs, t \in Trades}

LedgerType ==
    /\ Hands \in [Callers -> HandValues]
    /\ starts \in [Runs -> Nat]
    /\ fills \in Counts /\ ToldRows \in Counts /\ strays \in Counts

Holders(h) == {e \in Callers : Hands[e] = h}
Count(h)   == Cardinality(Holders(h))

\* Every fill is told, lost, or in one hand.
Accounted ==
    \A r \in Runs, t \in Trades :
        fills[r][t] = ToldRows[r][t] + Count(Ledger!FillOf(r, t)) + strays[r][t]

\* The fills that are not lost and the licences still held are at most as many
\* as the licences given.
Licensed ==
    \A r \in Runs, t \in Trades :
        fills[r][t] + Count(Ledger!Licence(r)) <= starts[r] + strays[r][t]

LedgerInv == LedgerType /\ Accounted /\ Licensed

-----------------------------------------------------------------------------
(* Counting.                                                               *)

\* The three things a hand may hold are different.
LEMMA HandsDiffer ==
    /\ \A r : Ledger!Licence(r) # Ledger!Nothing
    /\ \A r, t : Ledger!FillOf(r, t) # Ledger!Nothing
    /\ \A r, q, t : Ledger!Licence(r) # Ledger!FillOf(q, t)
    /\ \A r, q : Ledger!Licence(r) = Ledger!Licence(q) => r = q
    /\ \A r, q, t, u : Ledger!FillOf(r, t) = Ledger!FillOf(q, u) => r = q /\ t = u
BY SMT DEF Ledger!Nothing, Ledger!Licence, Ledger!FillOf

\* OneMore adds one at its place and keeps the rest.
LEMMA LedgerOneMore ==
    ASSUME NEW f \in Counts, NEW r \in Runs, NEW t \in Trades
    PROVE  /\ Ledger!OneMore(f, r, t) \in Counts
           /\ \A q \in Runs, u \in Trades :
                Ledger!OneMore(f, r, t)[q][u] = IF q = r /\ u = t THEN f[q][u] + 1 ELSE f[q][u]
BY SMT DEF Ledger!OneMore, Counts

\* The holders of h are finitely many.
LEMMA HoldersFinite ==
    ASSUME NEW h
    PROVE  IsFiniteSet(Holders(h)) /\ Count(h) \in Nat
BY OrderAssumption, FS_Subset, FS_CardinalityType DEF Holders, Count

\* When the hand of e goes from g to h, those who hold k are one less for g,
\* one more for h, and the same for all else.
LEMMA HandChanges ==
    ASSUME Hands \in [Callers -> HandValues],
           NEW e \in Callers, NEW h \in HandValues, Ledger!Holds(e, h), NEW k
    PROVE  /\ Hands' \in [Callers -> HandValues]
           /\ Hands[e] = k /\ h # k => Count(k)' = Count(k) - 1
           /\ Hands[e] # k /\ h = k => Count(k)' = Count(k) + 1
           /\ (Hands[e] = k <=> h = k) => Count(k)' = Count(k)
<1>1. Hands' \in [Callers -> HandValues]
  BY DEF Ledger!Holds
<1>2. /\ Hands'[e] = h
      /\ \A d \in Callers \ {e} : Hands'[d] = Hands[d]
  BY DEF Ledger!Holds
<1>3. CASE Hands[e] = k /\ h # k
  <2>1. Holders(k)' = Holders(k) \ {e} /\ e \in Holders(k)
    BY <1>2, <1>3 DEF Holders
  <2>2. IsFiniteSet(Holders(k))
    BY HoldersFinite
  <2>3. Count(k)' = Count(k) - 1
    BY <2>1, <2>2, FS_RemoveElement DEF Count
  <2> QED BY <1>1, <1>3, <2>3
<1>4. CASE Hands[e] # k /\ h = k
  <2>1. Holders(k)' = Holders(k) \cup {e} /\ e \notin Holders(k)
    BY <1>2, <1>4 DEF Holders
  <2>2. IsFiniteSet(Holders(k))
    BY HoldersFinite
  <2>3. Count(k)' = Count(k) + 1
    BY <2>1, <2>2, FS_AddElement DEF Count
  <2> QED BY <1>1, <1>4, <2>3
<1>5. CASE Hands[e] = k <=> h = k
  <2>0. \A d \in Callers : Hands'[d] = k <=> Hands[d] = k
    BY <1>2, <1>5
  <2>1. Holders(k)' = Holders(k)
    BY <2>0 DEF Holders
  <2> QED BY <1>1, <1>5, <2>1 DEF Count
<1> QED BY <1>3, <1>4, <1>5

-----------------------------------------------------------------------------
(* The invariant.                                                          *)

LEMMA LedgerInitially == ASSUME Ledger!Init PROVE LedgerInv
<1>1. LedgerType
  BY DEF Ledger!Init, LedgerType, HandValues, Counts
<1>2. ASSUME NEW r \in Runs, NEW t \in Trades
      PROVE  Count(Ledger!FillOf(r, t)) = 0 /\ Count(Ledger!Licence(r)) = 0
  <2>1. Holders(Ledger!FillOf(r, t)) = {} /\ Holders(Ledger!Licence(r)) = {}
    BY HandsDiffer DEF Ledger!Init, Holders
  <2> QED BY <2>1, FS_EmptySet DEF Count
<1>3. Accounted /\ Licensed
  BY <1>2 DEF Ledger!Init, Accounted, Licensed
<1> QED BY <1>1, <1>3 DEF LedgerInv

\* A new licence is given and held.
LEMMA LicenseKeeps ==
    ASSUME LedgerInv,
           NEW e \in Callers, NEW r \in Runs, Ledger!License(e, r)
    PROVE  LedgerInv'
<1>0. Ledger!Nothing \in HandValues /\ Ledger!Licence(r) \in HandValues
  BY DEF HandValues
<1>1. ASSUME NEW q \in Runs, NEW u \in Trades
      PROVE  /\ Count(Ledger!FillOf(q, u)) \in Nat /\ Count(Ledger!Licence(q)) \in Nat
             /\ Count(Ledger!FillOf(q, u))' = Count(Ledger!FillOf(q, u))
             /\ Count(Ledger!Licence(q))' = IF q = r THEN Count(Ledger!Licence(q)) + 1 ELSE Count(Ledger!Licence(q))
  <2>1. /\ Ledger!FillOf(q, u) = Ledger!Nothing <=> FALSE
        /\ Ledger!FillOf(q, u) = Ledger!Licence(r) <=> FALSE
        /\ Ledger!Licence(q) = Ledger!Nothing <=> FALSE
        /\ Ledger!Licence(q) = Ledger!Licence(r) <=> q = r
    BY HandsDiffer
  <2> QED BY <1>0, <2>1, HoldersFinite, HandChanges DEF Ledger!License, LedgerInv, LedgerType
<1>2. LedgerType'
  BY <1>0, HandChanges DEF Ledger!License, LedgerInv, LedgerType
<1>3. ASSUME NEW q \in Runs, NEW u \in Trades
      PROVE  /\ fills'[q][u] = fills[q][u]
             /\ ToldRows'[q][u] = ToldRows[q][u]
             /\ strays'[q][u] = strays[q][u]
             /\ starts'[q] = IF q = r THEN starts[q] + 1 ELSE starts[q]
  BY DEF Ledger!License, LedgerInv, LedgerType
<1>4. ASSUME NEW q \in Runs, NEW u \in Trades
      PROVE  /\ fills'[q][u] = ToldRows'[q][u] + Count(Ledger!FillOf(q, u))' + strays'[q][u]
             /\ fills'[q][u] + Count(Ledger!Licence(q))' <= starts'[q] + strays'[q][u]
  <2>1. /\ fills[q][u] = ToldRows[q][u] + Count(Ledger!FillOf(q, u)) + strays[q][u]
        /\ fills[q][u] + Count(Ledger!Licence(q)) <= starts[q] + strays[q][u]
    BY DEF LedgerInv, Accounted, Licensed
  <2>2. /\ fills[q][u] \in Nat /\ ToldRows[q][u] \in Nat /\ strays[q][u] \in Nat
        /\ starts[q] \in Nat
    BY DEF LedgerInv, LedgerType, Counts
  <2>3. Count(Ledger!FillOf(q, u)) \in Nat /\ Count(Ledger!Licence(q)) \in Nat
    BY <1>1
  <2>4. CASE q = r
    BY <1>1, <1>3, <2>1, <2>2, <2>3, <2>4
  <2>5. CASE q # r
    BY <1>1, <1>3, <2>1, <2>2, <2>3, <2>5
  <2> QED BY <2>4, <2>5
<1> QED BY <1>2, <1>4 DEF LedgerInv, Accounted, Licensed

\* A licence returned unused leaves room.
LEMMA WithdrawKeeps ==
    ASSUME LedgerInv,
           NEW e \in Callers, NEW r \in Runs, Ledger!Withdraw(e, r)
    PROVE  LedgerInv'
<1>0. Ledger!Licence(r) \in HandValues /\ Ledger!Nothing \in HandValues
  BY DEF HandValues
<1>1. ASSUME NEW q \in Runs, NEW u \in Trades
      PROVE  /\ Count(Ledger!FillOf(q, u)) \in Nat /\ Count(Ledger!Licence(q)) \in Nat
             /\ Count(Ledger!FillOf(q, u))' = Count(Ledger!FillOf(q, u))
             /\ Count(Ledger!Licence(q))' = IF q = r THEN Count(Ledger!Licence(q)) - 1 ELSE Count(Ledger!Licence(q))
  <2>1. /\ Ledger!FillOf(q, u) = Ledger!Licence(r) <=> FALSE
        /\ Ledger!FillOf(q, u) = Ledger!Nothing <=> FALSE
        /\ Ledger!Licence(q) = Ledger!Licence(r) <=> q = r
        /\ Ledger!Licence(q) = Ledger!Nothing <=> FALSE
    BY HandsDiffer
  <2> QED BY <1>0, <2>1, HoldersFinite, HandChanges DEF Ledger!Withdraw, LedgerInv, LedgerType
<1>2. LedgerType'
  BY <1>0, HandChanges DEF Ledger!Withdraw, LedgerInv, LedgerType
<1>3. ASSUME NEW q \in Runs, NEW u \in Trades
      PROVE  /\ fills'[q][u] = fills[q][u]
             /\ ToldRows'[q][u] = ToldRows[q][u]
             /\ strays'[q][u] = strays[q][u]
             /\ starts'[q] = starts[q]
  BY DEF Ledger!Withdraw, LedgerInv, LedgerType
<1>4. ASSUME NEW q \in Runs, NEW u \in Trades
      PROVE  /\ fills'[q][u] = ToldRows'[q][u] + Count(Ledger!FillOf(q, u))' + strays'[q][u]
             /\ fills'[q][u] + Count(Ledger!Licence(q))' <= starts'[q] + strays'[q][u]
  <2>1. /\ fills[q][u] = ToldRows[q][u] + Count(Ledger!FillOf(q, u)) + strays[q][u]
        /\ fills[q][u] + Count(Ledger!Licence(q)) <= starts[q] + strays[q][u]
    BY DEF LedgerInv, Accounted, Licensed
  <2>2. /\ fills[q][u] \in Nat /\ ToldRows[q][u] \in Nat /\ strays[q][u] \in Nat
        /\ starts[q] \in Nat
    BY DEF LedgerInv, LedgerType, Counts
  <2>3. Count(Ledger!FillOf(q, u)) \in Nat /\ Count(Ledger!Licence(q)) \in Nat
    BY <1>1
  <2>4. CASE q = r
    BY <1>1, <1>3, <2>1, <2>2, <2>3, <2>4
  <2>5. CASE q # r
    BY <1>1, <1>3, <2>1, <2>2, <2>3, <2>5
  <2> QED BY <2>4, <2>5
<1> QED BY <1>2, <1>4 DEF LedgerInv, Accounted, Licensed

\* A fill that is seen uses the licence up and is in the hand.
LEMMA FillKeeps ==
    ASSUME LedgerInv,
           NEW e \in Callers, NEW r \in Runs, NEW t \in Trades, Ledger!Fill(e, r, t)
    PROVE  LedgerInv'
<1>0. Ledger!Licence(r) \in HandValues /\ Ledger!FillOf(r, t) \in HandValues
  BY DEF HandValues
<1>1. ASSUME NEW q \in Runs, NEW u \in Trades
      PROVE  /\ Count(Ledger!FillOf(q, u)) \in Nat /\ Count(Ledger!Licence(q)) \in Nat
             /\ Count(Ledger!FillOf(q, u))' = IF q = r /\ u = t THEN Count(Ledger!FillOf(q, u)) + 1 ELSE Count(Ledger!FillOf(q, u))
             /\ Count(Ledger!Licence(q))' = IF q = r THEN Count(Ledger!Licence(q)) - 1 ELSE Count(Ledger!Licence(q))
  <2>1. /\ Ledger!FillOf(q, u) = Ledger!Licence(r) <=> FALSE
        /\ Ledger!FillOf(q, u) = Ledger!FillOf(r, t) <=> q = r /\ u = t
        /\ Ledger!Licence(q) = Ledger!Licence(r) <=> q = r
        /\ Ledger!Licence(q) = Ledger!FillOf(r, t) <=> FALSE
    BY HandsDiffer
  <2> QED BY <1>0, <2>1, HoldersFinite, HandChanges DEF Ledger!Fill, LedgerInv, LedgerType
<1>2. LedgerType'
  BY <1>0, HandChanges, LedgerOneMore DEF Ledger!Fill, LedgerInv, LedgerType
<1>3. ASSUME NEW q \in Runs, NEW u \in Trades
      PROVE  /\ fills'[q][u] = IF q = r /\ u = t THEN fills[q][u] + 1 ELSE fills[q][u]
             /\ ToldRows'[q][u] = ToldRows[q][u]
             /\ strays'[q][u] = strays[q][u]
             /\ starts'[q] = starts[q]
  BY LedgerOneMore DEF Ledger!Fill, LedgerInv, LedgerType
<1>4. ASSUME NEW q \in Runs, NEW u \in Trades
      PROVE  /\ fills'[q][u] = ToldRows'[q][u] + Count(Ledger!FillOf(q, u))' + strays'[q][u]
             /\ fills'[q][u] + Count(Ledger!Licence(q))' <= starts'[q] + strays'[q][u]
  <2>1. /\ fills[q][u] = ToldRows[q][u] + Count(Ledger!FillOf(q, u)) + strays[q][u]
        /\ fills[q][u] + Count(Ledger!Licence(q)) <= starts[q] + strays[q][u]
    BY DEF LedgerInv, Accounted, Licensed
  <2>2. /\ fills[q][u] \in Nat /\ ToldRows[q][u] \in Nat /\ strays[q][u] \in Nat
        /\ starts[q] \in Nat
    BY DEF LedgerInv, LedgerType, Counts
  <2>3. Count(Ledger!FillOf(q, u)) \in Nat /\ Count(Ledger!Licence(q)) \in Nat
    BY <1>1
  <2>4. CASE q = r /\ u = t
    <3>1. /\ Count(Ledger!FillOf(q, u))' = Count(Ledger!FillOf(q, u)) + 1
          /\ Count(Ledger!Licence(q))' = Count(Ledger!Licence(q)) - 1
      BY <1>1, <2>4
    <3>2. /\ fills'[q][u] = fills[q][u] + 1 /\ ToldRows'[q][u] = ToldRows[q][u]
          /\ strays'[q][u] = strays[q][u] /\ starts'[q] = starts[q]
      BY <1>3, <2>4
    <3> QED BY <2>1, <2>2, <2>3, <3>1, <3>2
  <2>5. CASE ~(q = r /\ u = t)
    BY <1>1, <1>3, <2>1, <2>2, <2>3, <2>5
  <2> QED BY <2>4, <2>5
<1> QED BY <1>2, <1>4 DEF LedgerInv, Accounted, Licensed

\* A fill nobody sees is lost at once, whatever becomes of the licence.
LEMMA FillUnseenKeeps ==
    ASSUME LedgerInv,
           NEW e \in Callers, NEW r \in Runs, NEW t \in Trades, Ledger!FillUnseen(e, r, t)
    PROVE  LedgerInv'
<1>0. Ledger!Nothing \in HandValues /\ Ledger!Licence(r) \in HandValues
  BY DEF HandValues
<1>1. ASSUME NEW q \in Runs, NEW u \in Trades
      PROVE  /\ Count(Ledger!FillOf(q, u)) \in Nat /\ Count(Ledger!Licence(q)) \in Nat
             /\ Count(Ledger!FillOf(q, u))' = Count(Ledger!FillOf(q, u))
             /\ \/ Count(Ledger!Licence(q))' = Count(Ledger!Licence(q))
                \/ q = r /\ Count(Ledger!Licence(q))' = Count(Ledger!Licence(q)) - 1
  <2>1. /\ Ledger!FillOf(q, u) # Ledger!Nothing /\ Ledger!FillOf(q, u) # Ledger!Licence(r)
        /\ Ledger!Licence(q) # Ledger!Nothing /\ (Ledger!Licence(q) = Ledger!Licence(r) <=> q = r)
    BY HandsDiffer
  <2>2. CASE Ledger!Holds(e, Ledger!Licence(r))
    BY <1>0, <2>1, <2>2, HoldersFinite, HandChanges DEF Ledger!FillUnseen, LedgerInv, LedgerType
  <2>3. CASE Ledger!Holds(e, Ledger!Nothing)
    BY <1>0, <2>1, <2>3, HoldersFinite, HandChanges DEF Ledger!FillUnseen, LedgerInv, LedgerType
  <2> QED BY <2>2, <2>3 DEF Ledger!FillUnseen
<1>2. LedgerType'
  BY <1>0, HandChanges, LedgerOneMore DEF Ledger!FillUnseen, LedgerInv, LedgerType
<1>3. ASSUME NEW q \in Runs, NEW u \in Trades
      PROVE  /\ fills'[q][u] = IF q = r /\ u = t THEN fills[q][u] + 1 ELSE fills[q][u]
             /\ ToldRows'[q][u] = ToldRows[q][u]
             /\ strays'[q][u] = IF q = r /\ u = t THEN strays[q][u] + 1 ELSE strays[q][u]
             /\ starts'[q] = starts[q]
  BY LedgerOneMore DEF Ledger!FillUnseen, LedgerInv, LedgerType
<1>4. ASSUME NEW q \in Runs, NEW u \in Trades
      PROVE  /\ fills'[q][u] = ToldRows'[q][u] + Count(Ledger!FillOf(q, u))' + strays'[q][u]
             /\ fills'[q][u] + Count(Ledger!Licence(q))' <= starts'[q] + strays'[q][u]
  <2>1. /\ fills[q][u] = ToldRows[q][u] + Count(Ledger!FillOf(q, u)) + strays[q][u]
        /\ fills[q][u] + Count(Ledger!Licence(q)) <= starts[q] + strays[q][u]
    BY DEF LedgerInv, Accounted, Licensed
  <2>2. /\ fills[q][u] \in Nat /\ ToldRows[q][u] \in Nat /\ strays[q][u] \in Nat
        /\ starts[q] \in Nat
    BY DEF LedgerInv, LedgerType, Counts
  <2>3. Count(Ledger!FillOf(q, u)) \in Nat /\ Count(Ledger!Licence(q)) \in Nat
    BY <1>1
  <2>4. CASE q = r /\ u = t
    BY <1>1, <1>3, <2>1, <2>2, <2>3, <2>4
  <2>5. CASE ~(q = r /\ u = t)
    BY <1>1, <1>3, <2>1, <2>2, <2>3, <2>5
  <2> QED BY <2>4, <2>5
<1> QED BY <1>2, <1>4 DEF LedgerInv, Accounted, Licensed

\* A row tells of the fill in the hand.
LEMMA TellKeeps ==
    ASSUME LedgerInv,
           NEW e \in Callers, NEW r \in Runs, NEW t \in Trades, Ledger!Tell(e, r, t)
    PROVE  LedgerInv'
<1>0. Ledger!FillOf(r, t) \in HandValues /\ Ledger!Nothing \in HandValues
  BY DEF HandValues
<1>1. ASSUME NEW q \in Runs, NEW u \in Trades
      PROVE  /\ Count(Ledger!FillOf(q, u)) \in Nat /\ Count(Ledger!Licence(q)) \in Nat
             /\ Count(Ledger!FillOf(q, u))' = IF q = r /\ u = t THEN Count(Ledger!FillOf(q, u)) - 1 ELSE Count(Ledger!FillOf(q, u))
             /\ Count(Ledger!Licence(q))' = Count(Ledger!Licence(q))
  <2>1. /\ Ledger!FillOf(q, u) = Ledger!FillOf(r, t) <=> q = r /\ u = t
        /\ Ledger!FillOf(q, u) = Ledger!Nothing <=> FALSE
        /\ Ledger!Licence(q) = Ledger!FillOf(r, t) <=> FALSE
        /\ Ledger!Licence(q) = Ledger!Nothing <=> FALSE
    BY HandsDiffer
  <2> QED BY <1>0, <2>1, HoldersFinite, HandChanges DEF Ledger!Tell, LedgerInv, LedgerType
<1>2. LedgerType'
  BY <1>0, HandChanges, LedgerOneMore DEF Ledger!Tell, LedgerInv, LedgerType
<1>3. ASSUME NEW q \in Runs, NEW u \in Trades
      PROVE  /\ fills'[q][u] = fills[q][u]
             /\ ToldRows'[q][u] = IF q = r /\ u = t THEN ToldRows[q][u] + 1 ELSE ToldRows[q][u]
             /\ strays'[q][u] = strays[q][u]
             /\ starts'[q] = starts[q]
  BY LedgerOneMore DEF Ledger!Tell, LedgerInv, LedgerType
<1>4. ASSUME NEW q \in Runs, NEW u \in Trades
      PROVE  /\ fills'[q][u] = ToldRows'[q][u] + Count(Ledger!FillOf(q, u))' + strays'[q][u]
             /\ fills'[q][u] + Count(Ledger!Licence(q))' <= starts'[q] + strays'[q][u]
  <2>1. /\ fills[q][u] = ToldRows[q][u] + Count(Ledger!FillOf(q, u)) + strays[q][u]
        /\ fills[q][u] + Count(Ledger!Licence(q)) <= starts[q] + strays[q][u]
    BY DEF LedgerInv, Accounted, Licensed
  <2>2. /\ fills[q][u] \in Nat /\ ToldRows[q][u] \in Nat /\ strays[q][u] \in Nat
        /\ starts[q] \in Nat
    BY DEF LedgerInv, LedgerType, Counts
  <2>3. Count(Ledger!FillOf(q, u)) \in Nat /\ Count(Ledger!Licence(q)) \in Nat
    BY <1>1
  <2>4. CASE q = r /\ u = t
    <3>1. /\ Count(Ledger!FillOf(q, u))' = Count(Ledger!FillOf(q, u)) - 1
          /\ Count(Ledger!Licence(q))' = Count(Ledger!Licence(q))
      BY <1>1, <2>4
    <3>2. /\ fills'[q][u] = fills[q][u] /\ ToldRows'[q][u] = ToldRows[q][u] + 1
          /\ strays'[q][u] = strays[q][u] /\ starts'[q] = starts[q]
      BY <1>3, <2>4
    <3> QED BY <2>1, <2>2, <2>3, <3>1, <3>2
  <2>5. CASE ~(q = r /\ u = t)
    BY <1>1, <1>3, <2>1, <2>2, <2>3, <2>5
  <2> QED BY <2>4, <2>5
<1> QED BY <1>2, <1>4 DEF LedgerInv, Accounted, Licensed

\* The fill in the hand is lost.
LEMMA LoseKeeps ==
    ASSUME LedgerInv,
           NEW e \in Callers, NEW r \in Runs, NEW t \in Trades, Ledger!Lose(e, r, t)
    PROVE  LedgerInv'
<1>0. Ledger!FillOf(r, t) \in HandValues /\ Ledger!Nothing \in HandValues
  BY DEF HandValues
<1>1. ASSUME NEW q \in Runs, NEW u \in Trades
      PROVE  /\ Count(Ledger!FillOf(q, u)) \in Nat /\ Count(Ledger!Licence(q)) \in Nat
             /\ Count(Ledger!FillOf(q, u))' = IF q = r /\ u = t THEN Count(Ledger!FillOf(q, u)) - 1 ELSE Count(Ledger!FillOf(q, u))
             /\ Count(Ledger!Licence(q))' = Count(Ledger!Licence(q))
  <2>1. /\ Ledger!FillOf(q, u) = Ledger!FillOf(r, t) <=> q = r /\ u = t
        /\ Ledger!FillOf(q, u) = Ledger!Nothing <=> FALSE
        /\ Ledger!Licence(q) = Ledger!FillOf(r, t) <=> FALSE
        /\ Ledger!Licence(q) = Ledger!Nothing <=> FALSE
    BY HandsDiffer
  <2> QED BY <1>0, <2>1, HoldersFinite, HandChanges DEF Ledger!Lose, LedgerInv, LedgerType
<1>2. LedgerType'
  BY <1>0, HandChanges, LedgerOneMore DEF Ledger!Lose, LedgerInv, LedgerType
<1>3. ASSUME NEW q \in Runs, NEW u \in Trades
      PROVE  /\ fills'[q][u] = fills[q][u]
             /\ ToldRows'[q][u] = ToldRows[q][u]
             /\ strays'[q][u] = IF q = r /\ u = t THEN strays[q][u] + 1 ELSE strays[q][u]
             /\ starts'[q] = starts[q]
  BY LedgerOneMore DEF Ledger!Lose, LedgerInv, LedgerType
<1>4. ASSUME NEW q \in Runs, NEW u \in Trades
      PROVE  /\ fills'[q][u] = ToldRows'[q][u] + Count(Ledger!FillOf(q, u))' + strays'[q][u]
             /\ fills'[q][u] + Count(Ledger!Licence(q))' <= starts'[q] + strays'[q][u]
  <2>1. /\ fills[q][u] = ToldRows[q][u] + Count(Ledger!FillOf(q, u)) + strays[q][u]
        /\ fills[q][u] + Count(Ledger!Licence(q)) <= starts[q] + strays[q][u]
    BY DEF LedgerInv, Accounted, Licensed
  <2>2. /\ fills[q][u] \in Nat /\ ToldRows[q][u] \in Nat /\ strays[q][u] \in Nat
        /\ starts[q] \in Nat
    BY DEF LedgerInv, LedgerType, Counts
  <2>3. Count(Ledger!FillOf(q, u)) \in Nat /\ Count(Ledger!Licence(q)) \in Nat
    BY <1>1
  <2>4. CASE q = r /\ u = t
    <3>1. /\ Count(Ledger!FillOf(q, u))' = Count(Ledger!FillOf(q, u)) - 1
          /\ Count(Ledger!Licence(q))' = Count(Ledger!Licence(q))
      BY <1>1, <2>4
    <3>2. /\ fills'[q][u] = fills[q][u] /\ ToldRows'[q][u] = ToldRows[q][u]
          /\ strays'[q][u] = strays[q][u] + 1 /\ starts'[q] = starts[q]
      BY <1>3, <2>4
    <3> QED BY <2>1, <2>2, <2>3, <3>1, <3>2
  <2>5. CASE ~(q = r /\ u = t)
    BY <1>1, <1>3, <2>1, <2>2, <2>3, <2>5
  <2> QED BY <2>4, <2>5
<1> QED BY <1>2, <1>4 DEF LedgerInv, Accounted, Licensed

\* Every step of the ledger keeps its invariant.
LEMMA LedgerStep ==
    ASSUME LedgerInv, [Ledger!Next]_(Ledger!ledgerVars)
    PROVE  LedgerInv'
<1>1. CASE UNCHANGED Ledger!ledgerVars
  BY <1>1 DEF Ledger!ledgerVars, LedgerInv, LedgerType, Accounted, Licensed, Count, Holders
<1>2. CASE Ledger!Next
  BY <1>2, LicenseKeeps, WithdrawKeeps, FillKeeps, FillUnseenKeeps, TellKeeps,
     LoseKeeps DEF Ledger!Next
<1> QED BY <1>1, <1>2

\* The ledger's own invariant, along the refinement.
LEMMA LedgerAlong == Spec => [](Inv /\ LedgerInv)
<1>1. Init => Inv /\ LedgerInv
  BY Initially, LedgerInitially
<1>2. Inv /\ LedgerInv /\ [Next]_vars => Inv' /\ LedgerInv'
  BY EveryStep, LedgerStep DEF Simulates
<1> QED BY <1>1, <1>2, PTL DEF Spec

-----------------------------------------------------------------------------
(* What follows of fills.                                                  *)

\* The fills that the ledger has in hands are those the calls hold.
LEMMA HeldFills ==
    ASSUME Inv, NEW r \in Runs, NEW t \in Trades
    PROVE  Count(Ledger!FillOf(r, t)) = Cardinality(Holding(r, t))
<1>1. ASSUME NEW c \in Callers
      PROVE  Hands[c] = Ledger!FillOf(r, t) <=> c \in Holding(r, t)
  BY <1>1, HandFacts DEF Hands, Hand, Holding, Ledger!FillOf
<1>2. Holders(Ledger!FillOf(r, t)) = Holding(r, t)
  BY <1>1 DEF Holders, Holding
<1> QED BY <1>2 DEF Count

\* Every fill of the broker is told, lost or in one hand, and the fills that
\* are not lost are at most as many as the licences given, for every number of
\* evaluators, runs and trades.
THEOREM LedgerHolds == Spec => []LedgerInv
BY LedgerAlong, PTL

\* Every fill of the broker is told by one executed row, held by one call, or
\* lost to a named fault, for every number of processes and every interleaving.
THEOREM FillsAccounted == Spec => []FillsAreAccounted
<1>1. Inv /\ LedgerInv => FillsAreAccounted
  <2> SUFFICES ASSUME Inv, LedgerInv, NEW r \in Runs, NEW t \in Trades
               PROVE  fills[r][t] = orders[r][t]["executed"]
                                    + Cardinality(Holding(r, t)) + strays[r][t]
    BY DEF FillsAreAccounted
  <2>1. fills[r][t] = ToldRows[r][t] + Count(Ledger!FillOf(r, t)) + strays[r][t]
    BY DEF LedgerInv, Accounted, ToldRows
  <2> QED BY <2>1, HeldFills DEF ToldRows
<1> QED BY <1>1, LedgerAlong, PTL

\* Each pipeline that starts adds at most one fill per trade beyond those the
\* client did not see, however often a run is evaluated.
THEOREM FillsPerStart == Spec => []OneFillPerStart
<1>1. Inv /\ LedgerInv => OneFillPerStart
  <2> SUFFICES ASSUME Inv, LedgerInv, NEW r \in Runs, NEW t \in Trades
               PROVE  fills[r][t] <= starts[r] + strays[r][t]
    BY DEF OneFillPerStart
  <2>1. fills[r][t] + Count(Ledger!Licence(r)) <= starts[r] + strays[r][t]
    BY DEF LedgerInv, Licensed
  <2>2. Count(Ledger!Licence(r)) \in Nat
    BY OrderAssumption, HoldersFinite
  <2>3. fills[r][t] \in Nat /\ starts[r] \in Nat /\ strays[r][t] \in Nat
    BY DEF Inv, TypeOK, OrderTypeOK
  <2> QED BY <2>1, <2>2, <2>3
<1> QED BY <1>1, LedgerAlong, PTL
=============================================================================
