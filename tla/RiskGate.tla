------------------------------ MODULE RiskGate ------------------------------
(***************************************************************************)
(* The gate between a decision to trade and the order: a pipeline reads    *)
(* the state of the account through a cache in Redis, the risk engine      *)
(* compares it with the limits, the risk manager (a language model) gives  *)
(* its own verdict, and preflight lets the order pass or not.              *)
(*                                                                         *)
(*   backend/app/services/trading/metaapi_client.py  cached reads, orders  *)
(*   backend/app/services/risk/portfolio_state.py    the account's state   *)
(*   backend/app/services/risk/rules.py              the risk engine       *)
(*   backend/app/services/mcp/trading_server.py      the engine as a tool  *)
(*   backend/app/services/agentscope/registry.py     verdicts are merged   *)
(*   backend/app/services/execution/preflight.py     the last checks       *)
(*                                                                         *)
(* One account.  Of the limits of the engine only the number of open       *)
(* positions is followed; whether a trade is within the others is a free   *)
(* choice, and so is whether account information can be read: without      *)
(* it the free margin is 0 and the engine refuses.  Its cached copy may    *)
(* expire at any time, so that its invalidation after an order changes     *)
(* nothing here.  The task that snapshots the portfolio writes positions   *)
(* under a key of its own ("metaapi:", not "metaapi:v1:"), which no other  *)
(* code reads.  What happens to an order that the gate lets pass is in     *)
(* OrderExecution; here it opens a position or is refused.                 *)
(***************************************************************************)
EXTENDS Naturals

CONSTANTS
    Pipes,         \* pipelines, of concurrent runs of one account
    MaxPositions,  \* max_positions of the mode (limits.py)
    AtStart,       \* how many positions may be open at the start
    MaxFills,      \* bound: positions opened in one behaviour
    Faults,        \* faults that may happen
    None

FaultNames == {"read_fails", "redis_down", "lock_expiry", "state_error",
               "worker_lost"}

ASSUME GateAssumption ==
    /\ MaxPositions \in Nat \ {0}
    /\ AtStart \subseteq Nat
    /\ MaxFills \in Nat
    /\ Faults \subseteq FaultNames
    /\ None \notin Pipes

VARIABLES
    open,       \* positions open at the broker
    positions,  \* metaapi:v1:positions, the cached positions, or None
    lock,       \* metaapi:v1:positions:lock, the pipeline it names, or None
    pipe,       \* where each pipeline is, and what it has read
    fills       \* positions opened so far (bounded)

vars == <<open, positions, lock, pipe, fills>>

\* What a read of the positions gave.  Only a "broker" read is one: "degraded"
\* is a failed one, "default" the state of build_defaults.  since counts the
\* positions opened since the broker was read.
Reading == [count: Nat, since: Nat,
            read: {"broker", "degraded", "default"}]
Empty(how) == [count |-> 0, since |-> 0, read |-> how]
Fresh == [count |-> open, since |-> 0, read |-> "broker"]

Phases == {"idle", "lookup", "lock", "wait", "fetch", "store",
           "release", "delete", "decide", "order"}
Pipe == [pc: Phases,
         cached: BOOLEAN,  \* Redis has not failed this client
         token: BOOLEAN,   \* it holds a token of the lock
         view: Reading,    \* positions as read
         tool: {"none", "accepted", "rejected"}]  \* the engine's answer
Idle == [pc |-> "idle", cached |-> TRUE, token |-> FALSE,
         view |-> Empty("default"), tool |-> "none"]

Init ==
    /\ open \in AtStart
    /\ positions = None
    /\ lock = None
    /\ pipe = [p \in Pipes |-> Idle]
    /\ fills = 0

TypeOK ==
    /\ open \in Nat
    /\ positions \in Reading \cup {None}
    /\ lock \in Pipes \cup {None}
    /\ pipe \in [Pipes -> Pipe]
    /\ fills \in 0..MaxFills

-----------------------------------------------------------------------------
At(p, pc) == pipe[p].pc = pc

Goes(p, pc) == pipe' = [pipe EXCEPT ![p].pc = pc]

\* p has read v and takes step pc.
Sees(p, v, pc) == pipe' = [pipe EXCEPT ![p].view = v, ![p].pc = pc]

\* The call for the positions returns v.
Returns(p, v) ==
    pipe' = [pipe EXCEPT ![p] = [Idle EXCEPT !.pc = "decide", !.view = v]]

Leaves(p) == pipe' = [pipe EXCEPT ![p] = Idle]

\* p has read v and gives the lock back if it holds a token.
Releases(p, v) ==
    IF pipe[p].token THEN Sees(p, v, "release") ELSE Returns(p, v)

broker == <<open, fills>>

-----------------------------------------------------------------------------
(* The state of the account is read before the decision                    *)

\* Account information has been asked for; the positions are next.
Begin(p) ==
    /\ At(p, "idle")
    /\ Goes(p, "lookup")
    /\ UNCHANGED <<broker, positions, lock>>

\* The account cannot be resolved: the pipeline takes the defaults, which have
\* no position and a free margin.
StateError(p) ==
    /\ "state_error" \in Faults
    /\ At(p, "idle")
    /\ Returns(p, Empty("default"))
    /\ UNCHANGED <<broker, positions, lock>>

-----------------------------------------------------------------------------
(* get_positions                                                           *)

Lookup(p) ==
    /\ At(p, "lookup")
    /\ IF positions # None THEN Returns(p, positions) ELSE Goes(p, "lock")
    /\ UNCHANGED <<broker, positions, lock>>

\* SET NX: the first miss fetches, the others wait for its answer.
Acquire(p) ==
    /\ At(p, "lock")
    /\ IF lock = None
       THEN /\ lock' = p
            /\ pipe' = [pipe EXCEPT ![p].token = TRUE, ![p].pc = "fetch"]
       ELSE Goes(p, "wait") /\ UNCHANGED lock
    /\ UNCHANGED <<broker, positions>>

\* A waiter polls the cache.
WaitHit(p) ==
    /\ At(p, "wait")
    /\ positions # None
    /\ Returns(p, positions)
    /\ UNCHANGED <<broker, positions, lock>>

\* After metaapi_cache_wait_timeout_seconds the waiter fetches for itself.
WaitTimeout(p) ==
    /\ At(p, "wait")
    /\ Goes(p, "fetch")
    /\ UNCHANGED <<broker, positions, lock>>

\* The broker answers, over the SDK or over REST.  A client that Redis has
\* failed does not use it for 15 seconds, which may be over by now.
Fetch(p) ==
    /\ At(p, "fetch")
    /\ \/ Sees(p, Fresh, "store")
       \/ ~pipe[p].cached /\ Returns(p, Fresh)
    /\ UNCHANGED <<broker, positions, lock>>

\* Mutant: a failed read is an empty list like any other.
FetchFailsUnmarked(p) ==
    /\ "read_fails" \in Faults
    /\ At(p, "fetch")
    /\ Releases(p, Empty("broker"))
    /\ UNCHANGED <<broker, positions, lock>>

\* Neither answers: no position is counted, and nothing is cached.
FetchFails(p) ==
    /\ "read_fails" \in Faults
    /\ At(p, "fetch")
    /\ Releases(p, Empty("degraded"))
    /\ UNCHANGED <<broker, positions, lock>>

Store(p) ==
    /\ At(p, "store")
    /\ positions' = pipe[p].view
    /\ Releases(p, pipe[p].view)
    /\ UNCHANGED <<broker, lock>>

\* The lock is read, and deleted if it still holds the token: in two calls.
Release(p) ==
    /\ At(p, "release")
    /\ IF lock = p THEN Goes(p, "delete") ELSE Returns(p, pipe[p].view)
    /\ UNCHANGED <<broker, positions, lock>>

Delete(p) ==
    /\ At(p, "delete")
    /\ lock' = None
    /\ Returns(p, pipe[p].view)
    /\ UNCHANGED <<broker, positions>>

\* A call to Redis raises: this client does without it for a while.  The call
\* may have had its effect; the lock is then nobody's until it expires.
RedisFails(p) ==
    /\ "redis_down" \in Faults
    /\ \/ /\ pipe[p].pc \in {"lookup", "lock", "wait"}
          /\ pipe' = [pipe EXCEPT ![p].cached = FALSE, ![p].pc = "fetch"]
          /\ lock' \in {lock} \cup IF At(p, "lock") /\ lock = None THEN {p} ELSE {}
          /\ UNCHANGED positions
       \/ /\ At(p, "store")
          /\ Returns(p, pipe[p].view)
          /\ positions' \in {positions, pipe[p].view}
          /\ UNCHANGED lock
       \/ /\ pipe[p].pc \in {"release", "delete"}
          /\ Returns(p, pipe[p].view)
          /\ lock' \in {lock} \cup IF At(p, "delete") THEN {None} ELSE {}
          /\ UNCHANGED positions
    /\ UNCHANGED <<broker>>

-----------------------------------------------------------------------------
(* The decision                                                            *)

\* Nothing is ordered: the trader holds, the risk manager does not approve
\* either, preflight finds another fault, or the run is a simulation.
Hold(p) ==
    /\ At(p, "decide")
    /\ Leaves(p)
    /\ UNCHANGED <<broker, positions, lock>>

\* Mutant: the limit itself is still free.
AcceptsAtLimit(v, within) == v.count <= MaxPositions /\ within

\* evaluate_portfolio.  within: the trade is within all limits but that on
\* positions; without account information it is not, the free margin being 0.
Accepts(v, within) == v.count < MaxPositions /\ within

\* What the tool answers, if the model calls it.
Answer(v) ==
    {"none"} \cup {IF Accepts(v, within) THEN "accepted" ELSE "rejected"
                      : within \in BOOLEAN}

\* An acceptance of the tool overrules a verdict against the trade; any other
\* answer leaves the verdict as it is.
Merged(tool, approves) == tool = "accepted" \/ approves

\* The model approves or not, whatever the tool has answered.  Preflight passes
\* what is accepted.
Decide(p) ==
    /\ At(p, "decide")
    /\ \E tool \in Answer(pipe[p].view), approves \in BOOLEAN :
          /\ Merged(tool, approves)
          /\ pipe' = [pipe EXCEPT ![p].tool = tool, ![p].pc = "order"]
    /\ UNCHANGED <<broker, positions, lock>>

\* A position more is open than a read has counted.
Older(v) == IF v.read = "broker" THEN [v EXCEPT !.since = @ + 1] ELSE v

\* The order of p is filled.  The account's information is dropped from the
\* cache; its positions are not.
Order(p) ==
    /\ At(p, "order")
    /\ fills < MaxFills
    /\ fills' = fills + 1
    /\ open' = open + 1
    /\ positions' = IF positions = None THEN None ELSE Older(positions)
    /\ pipe' = [q \in Pipes |->
                   IF q = p THEN Idle ELSE [pipe[q] EXCEPT !.view = Older(@)]]
    /\ UNCHANGED lock

\* The broker refuses it.
OrderRefused(p) ==
    /\ At(p, "order")
    /\ Leaves(p)
    /\ UNCHANGED <<broker, positions, lock>>

\* The worker dies; what it holds in Redis stays.
Lost(p) ==
    /\ "worker_lost" \in Faults
    /\ ~At(p, "idle")
    /\ Leaves(p)
    /\ UNCHANGED <<broker, positions, lock>>

-----------------------------------------------------------------------------
(* Redis and the broker                                                    *)

ExpirePositions ==
    /\ positions # None
    /\ positions' = None
    /\ UNCHANGED <<broker, lock, pipe>>

ExpireLock ==
    /\ "lock_expiry" \in Faults
    /\ lock # None
    /\ lock' = None
    /\ UNCHANGED <<broker, positions, pipe>>

\* A position is closed, by its levels or by a close request.
Closed ==
    /\ open > 0
    /\ open' = open - 1
    /\ UNCHANGED <<fills, positions, lock, pipe>>

-----------------------------------------------------------------------------
GetPositions(p) ==
    \/ Lookup(p) \/ Acquire(p) \/ WaitHit(p) \/ WaitTimeout(p) \/ Fetch(p)
    \/ Store(p) \/ Release(p) \/ Delete(p)

PipeStep(p) ==
    \/ GetPositions(p) \/ Hold(p) \/ Decide(p) \/ Order(p)
    \/ OrderRefused(p)

PipeFault(p) ==
    \/ StateError(p) \/ FetchFails(p) \/ RedisFails(p)
    \/ Lost(p)

Elsewhere == ExpirePositions \/ ExpireLock \/ Closed

Next ==
    \/ \E p \in Pipes : Begin(p) \/ PipeStep(p) \/ PipeFault(p)
    \/ Elsewhere

Spec == Init /\ [][Next]_vars

-----------------------------------------------------------------------------
(* Properties                                                              *)

\* A count misses no position but those opened since the broker was read.
Counts(v) == v.read = "broker" => open <= v.count + v.since

\* Whatever was read from the broker, and wherever it has been copied since,
\* into the cache by the lock's holder, by a waiter whose time was up or by a
\* writer whose lock had expired, and from there to others, misses no open
\* position but those opened after the read (metaapi_client.py:1070-1169).
ReadingsCount ==
    /\ positions # None => Counts(positions)
    /\ \A p \in Pipes : Counts(pipe[p].view)

\* An order that opens a position beyond max_positions has one of three
\* causes: the engine had not accepted it, the positions it was judged on were
\* not read from the broker, or another was opened after they were read
\* (rules.py:605, registry.py:1970, portfolio_state.py:145).
BreachIsExplained ==
    [][\A p \in Pipes :
          At(p, "order") /\ At(p, "idle")' /\ open' > open /\ open >= MaxPositions =>
             \/ pipe[p].tool # "accepted"
             \/ pipe[p].view.read # "broker"
             \/ pipe[p].view.since > 0]_vars
=============================================================================
