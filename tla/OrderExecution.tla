--------------------------- MODULE OrderExecution ---------------------------
(***************************************************************************)
(* Order submission: ExecutionService.execute with the idempotent replay   *)
(* in front of it, and MetaApiClient.place_order behind it.                *)
(*                                                                         *)
(*   backend/app/services/execution/executor.py                            *)
(*   backend/app/services/trading/metaapi_client.py   place_order          *)
(*                                                                         *)
(* place_order tries the spellings of a symbol one after the other, over   *)
(* the SDK first and then over REST; a call that raises is taken as not    *)
(* executed.  The order row is flushed before the broker is called and     *)
(* committed after it has answered, so until then no other session sees    *)
(* it.                                                                     *)
(***************************************************************************)
EXTENDS Naturals, FiniteSets

CONSTANTS
    Runs,           \* analysis runs
    Trades,         \* what an order asks for: side, volume, stop, target
    Invalid,        \* those with a volume, a stop or a target that is no
                    \* positive number
    Callers,        \* processes that execute orders
    Candidates,     \* number of spellings of the symbol
    Configs,        \* the settings this instance explores
    Faults          \* the failures this instance allows

\* "ambiguous":     the broker fills and the client sees a failure
\* "failed_commit": a commit fails
\* "worker_lost":   a worker process dies and its message is redelivered
\* "cut_off":       a time limit ends a task, whose message is acknowledged
\* "enqueue_fails": the message is published and publishing raises, or it is
\*                  not published
FaultKinds == {"ambiguous", "failed_commit", "worker_lost", "cut_off",
               "enqueue_fails"}

None == "none"

\* enable_paper_execution, allow_live_trading, and whether there is an SDK
Settings == [paper: BOOLEAN, live: BOOLEAN, sdk: BOOLEAN]

ASSUME OrderAssumption ==
    /\ Candidates \in Nat \ {0}
    /\ Configs \subseteq Settings
    /\ Faults \subseteq FaultKinds
    /\ IsFiniteSet(Callers)
    /\ None \notin Trades /\ None \notin Runs
    /\ Invalid \subseteq Trades

Modes       == {"simulation", "paper", "live"}
OrderStatus == {"blocked", "simulated", "executed", "failed"}

VARIABLES
    settings,       \* the settings of this deployment
    mode,           \* the mode of each run
    orders,         \* committed execution_orders: rows by trade and status
    call,           \* execute in progress, by caller
    fills,          \* history: orders the broker filled
    strays,         \* history: fills no order row will ever tell of
    rejected        \* history: runs for which execute has rejected its inputs

orderVars == <<settings, mode, orders, call, fills, strays, rejected>>

Call == [pc: {"idle", "sdk", "rest", "record", "returned"},
         run: Runs \cup {None}, trade: Trades \cup {None},
         candidate: 1..Candidates,
         status: OrderStatus \cup {None, "replayed", "rejected", "raised"}]

IdleCall == [pc |-> "idle", run |-> None, trade |-> None, candidate |-> 1,
             status |-> None]

OrderTypeOK ==
    /\ settings \in Settings
    /\ mode \in [Runs -> Modes]
    /\ orders \in [Runs -> [Trades -> [OrderStatus -> Nat]]]
    /\ call \in [Callers -> Call]
    /\ fills \in [Runs -> [Trades -> Nat]]
    /\ strays \in [Runs -> [Trades -> Nat]]
    /\ rejected \subseteq Runs

OrderInit ==
    /\ settings \in Configs
    /\ mode \in [Runs -> Modes]
    /\ orders = [r \in Runs |-> [t \in Trades |-> [s \in OrderStatus |-> 0]]]
    /\ call = [c \in Callers |-> IdleCall]
    /\ fills = [r \in Runs |-> [t \in Trades |-> 0]]
    /\ strays = [r \in Runs |-> [t \in Trades |-> 0]]
    /\ rejected = {}

-----------------------------------------------------------------------------
(* The idempotent replay.                                                  *)

\* Statuses _find_replayable_order accepts that the executor ever writes
\* ("submitted" and "paper-simulated" are accepted too, but never written).
Replayable == {"simulated", "blocked"}

IsReplay(r, t) == \E s \in Replayable : orders[r][t][s] > 0

\* What a mode decides without the broker.
Immediate(m) ==
    CASE m = "simulation"                    -> "simulated"
      [] m = "paper" /\ ~settings.paper      -> "blocked"
      [] m = "live" /\ ~settings.live        -> "blocked"
      [] OTHER                               -> None

\* Mutant: the executor ignores the broker's "executed" flag.
DegradedUnread(m) == "executed"

\* A refusal of the broker, as the executor records it.
Degraded(m) == IF m = "paper" THEN "simulated" ELSE "failed"

-----------------------------------------------------------------------------
(* The steps of a call.                                                    *)

At(x, p, s)    == [x EXCEPT !.pc = p, !.status = s]
Refused(x)     == At(x, "record", Degraded(mode[x.run]))
Filled(x)      == At(x, "record", "executed")

\* The candidate after x's, over REST once the SDK has none left.
NextAttempt(x) ==
    IF x.candidate < Candidates THEN [x EXCEPT !.candidate = @ + 1]
    ELSE IF x.pc = "sdk"        THEN [x EXCEPT !.pc = "rest", !.candidate = 1]
    ELSE Refused(x)

OneMore(f, x) == [f EXCEPT ![x.run][x.trade] = @ + 1]

\* The call of c goes on as x.
Continues(c, x) == call' = [call EXCEPT ![c] = x]

\* execute up to the first call of the broker.  Invalid inputs are rejected
\* before anything is written.
Submit(r, t) ==
    LET Begun(p, s) == [pc |-> p, run |-> r, trade |-> t, candidate |-> 1, status |-> s]
        s0        == Immediate(mode[r])
    IN  IF t \in Invalid THEN Begun("returned", "rejected")
        ELSE IF IsReplay(r, t) THEN Begun("returned", "replayed")
        ELSE IF s0 # None THEN Begun("record", s0)
        ELSE Begun(IF settings.sdk THEN "sdk" ELSE "rest", None)

BeginOrder(c, r, t) ==
    /\ call[c].pc = "idle"
    /\ Continues(c, Submit(r, t))
    /\ rejected' = IF t \in Invalid THEN rejected \cup {r} ELSE rejected
    /\ UNCHANGED <<settings, mode, orders, fills, strays>>

\* The SDK cannot connect or synchronise: over to REST.
SdkUnavailable(c) ==
    /\ call[c].pc = "sdk" /\ call[c].candidate = 1
    /\ Continues(c, [call[c] EXCEPT !.pc = "rest"])
    /\ UNCHANGED <<settings, mode, orders, fills, strays, rejected>>

\* The candidate is no symbol of this account, or the attempt raises (over
\* REST: with an empty message) before the broker has seen the order.
CandidateFails(c) ==
    /\ call[c].pc \in {"sdk", "rest"}
    /\ Continues(c, NextAttempt(call[c]))
    /\ UNCHANGED <<settings, mode, orders, fills, strays, rejected>>

\* The account is not deployed, or the broker rejects the order.
BrokerRejects(c) ==
    /\ call[c].pc \in {"sdk", "rest"}
    /\ Continues(c, Refused(call[c]))
    /\ UNCHANGED <<settings, mode, orders, fills, strays, rejected>>

\* Mutant: the loop over the candidates goes on after a fill.
BrokerFillsGoesOn(c) ==
    /\ call[c].pc \in {"sdk", "rest"}
    /\ fills' = OneMore(fills, call[c])
    /\ Continues(c, NextAttempt(call[c]))
    /\ UNCHANGED <<settings, mode, orders, strays, rejected>>

BrokerFills(c) ==
    /\ call[c].pc \in {"sdk", "rest"}
    /\ fills' = OneMore(fills, call[c])
    /\ Continues(c, Filled(call[c]))
    /\ UNCHANGED <<settings, mode, orders, strays, rejected>>

\* The broker fills and the client does not see it.  After an exception of the
\* SDK, or an empty message over REST, as a timeout's is, the next attempt
\* follows; any other answer is read as a refusal.
BrokerFillsUnseen(c) ==
    /\ "ambiguous" \in Faults
    /\ call[c].pc \in {"sdk", "rest"}
    /\ fills' = OneMore(fills, call[c])
    /\ strays' = OneMore(strays, call[c])
    /\ Continues(c, NextAttempt(call[c])) \/ Continues(c, Refused(call[c]))
    /\ UNCHANGED <<settings, mode, orders, rejected>>

\* _safe_commit of the row with its final status.
RecordOrder(c) ==
    LET x == call[c]
    IN  /\ x.pc = "record"
        /\ orders' = [orders EXCEPT ![x.run][x.trade][x.status] = @ + 1]
        /\ Continues(c, At(x, "returned", x.status))
        /\ UNCHANGED <<settings, mode, fills, strays, rejected>>

\* What x holds of the broker's fills is forgotten.
Forget(x) ==
    IF x.pc = "record" /\ x.status = "executed" THEN OneMore(strays, x) ELSE strays

\* The commit fails: roll the row back and raise.
RecordFails(c) ==
    /\ "failed_commit" \in Faults
    /\ call[c].pc = "record"
    /\ strays' = Forget(call[c])
    /\ Continues(c, At(call[c], "returned", "raised"))
    /\ UNCHANGED <<settings, mode, orders, fills, rejected>>

OrderStep(c) ==
    \/ SdkUnavailable(c) \/ CandidateFails(c) \/ BrokerRejects(c)
    \/ BrokerFills(c) \/ BrokerFillsUnseen(c)
    \/ RecordOrder(c) \/ RecordFails(c)

\* The caller takes the result.
EndCall(c) ==
    /\ Continues(c, IdleCall)
    /\ UNCHANGED <<settings, mode, orders, fills, strays, rejected>>

\* The caller's process is gone, and its transaction with it.
DropCall(c) ==
    /\ strays' = Forget(call[c])
    /\ Continues(c, IdleCall)
    /\ UNCHANGED <<settings, mode, orders, fills, rejected>>

-----------------------------------------------------------------------------
(* Properties                                                              *)

\* Calls that hold a fill of trade t of run r they have not recorded yet.
Holding(r, t) ==
    {c \in Callers : /\ call[c].run = r /\ call[c].trade = t
                     /\ call[c].pc = "record" /\ call[c].status = "executed"}

\* Every fill of the broker is told by exactly one row with status executed,
\* is about to be, or is a stray of a named fault; and no row tells of a fill
\* that never was.
FillsAreAccounted ==
    \A r \in Runs, t \in Trades :
        fills[r][t] = orders[r][t]["executed"] + Cardinality(Holding(r, t))
                      + strays[r][t]

\* An executed order is not submitted again: the idempotency key prevents it.
NoDoubleSubmission ==
    [][\A r \in Runs, t \in Trades :
        orders[r][t]["executed"] > 0 => fills'[r][t] = fills[r][t]]_orderVars
=============================================================================
