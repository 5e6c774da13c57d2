-------------------------- MODULE ExecutionPermits --------------------------
(***************************************************************************)
(* What the governance monitor promises of the broker calls it makes,      *)
(* without processes, messages, commits, locks and positions.  An approval *)
(* of a run gives one permit.  A permit is given up, or is spent on one    *)
(* broker call, which takes effect or is refused.  A call stays unsettled  *)
(* until its outcome is dealt with; only an unsettled call may turn into a *)
(* permit again (its worker is lost and the message comes back).           *)
(* Governance implements this.                                             *)
(***************************************************************************)
EXTENDS Naturals

CONSTANTS Runs, Actions, None

VARIABLES
    origin,         \* who the run waits for: nobody yet, a human, its loop
    decision,       \* what was decided for the run
    approvers,      \* who has approved it
    permits,        \* broker calls that may still be made
    unsettled,      \* calls whose outcome is not dealt with
    acts,           \* calls that took effect
    executed        \* the run is marked executed

permitVars == <<origin, decision, approvers, permits, unsettled, acts, executed>>

More(f, r) == [f EXCEPT ![r] = @ + 1]
Less(f, r) == [f EXCEPT ![r] = @ - 1]

Init ==
    /\ origin    = [r \in Runs |-> "none"]
    /\ decision  = [r \in Runs |-> None]
    /\ approvers = [r \in Runs |-> {}]
    /\ permits   = [r \in Runs |-> 0]
    /\ unsettled = [r \in Runs |-> 0]
    /\ acts      = [r \in Runs |-> 0]
    /\ executed  = [r \in Runs |-> FALSE]

Propose(r) ==
    /\ origin[r] = "none"
    /\ \E o \in {"supervised", "unattended"} : origin' = [origin EXCEPT ![r] = o]
    /\ UNCHANGED <<decision, approvers, permits, unsettled, acts, executed>>

\* Decided once, and before anyone has approved.
Decide(r) ==
    /\ origin[r] # "none" /\ decision[r] = None /\ approvers[r] = {}
    /\ \E a \in Actions : decision' = [decision EXCEPT ![r] = a]
    /\ UNCHANGED <<origin, approvers, permits, unsettled, acts, executed>>

ApproveByHuman(r) ==
    /\ decision[r] # None
    /\ approvers' = [approvers EXCEPT ![r] = @ \cup {"human"}]
    /\ permits' = More(permits, r)
    /\ UNCHANGED <<origin, decision, unsettled, acts, executed>>

\* Once, and only if the run is not supervised.
ApproveByLoop(r) ==
    /\ origin[r] = "unattended" /\ "auto" \notin approvers[r]
    /\ approvers' = [approvers EXCEPT ![r] = @ \cup {"auto"}]
    /\ permits' = More(permits, r)
    /\ UNCHANGED <<origin, decision, unsettled, acts, executed>>

\* The broker is called: it refuses, or it acts.
Call(r) ==
    /\ permits[r] > 0
    /\ unsettled' = More(unsettled, r)
    /\ permits' = Less(permits, r)
    /\ \/ acts' = acts
       \/ decision[r] \notin {"HOLD", None} /\ acts' = More(acts, r)
    /\ UNCHANGED <<origin, decision, approvers, executed>>

Settle(r) ==
    /\ unsettled[r] > 0
    /\ unsettled' = Less(unsettled, r)
    /\ executed' = executed \/ executed' = [executed EXCEPT ![r] = TRUE]
    /\ UNCHANGED <<origin, decision, approvers, permits, acts>>

Redeliver(r) ==
    /\ unsettled[r] > 0
    /\ unsettled' = Less(unsettled, r)
    /\ permits' = More(permits, r)
    /\ UNCHANGED <<origin, decision, approvers, acts, executed>>

\* A permit ends without a call: it lapses, or there was nothing to do.
Forgo(r) ==
    /\ permits[r] > 0
    /\ permits' = Less(permits, r)
    /\ \/ executed' = executed
       \/ decision[r] \in {"HOLD", None} /\ executed' = [executed EXCEPT ![r] = TRUE]
    /\ UNCHANGED <<origin, decision, approvers, unsettled, acts>>

Next ==
    \E r \in Runs :
        \/ Propose(r) \/ Decide(r)
        \/ ApproveByHuman(r) \/ ApproveByLoop(r)
        \/ Call(r) \/ Settle(r) \/ Redeliver(r) \/ Forgo(r)

Spec == Init /\ [][Next]_permitVars

-----------------------------------------------------------------------------
\* Approved by a human, or by its own loop if nobody supervises it.
Entitled(r) ==
    \/ "human" \in approvers[r]
    \/ origin[r] = "unattended" /\ "auto" \in approvers[r]

\* A permit, a call and an execution belong to a run that someone entitled to
\* it has approved, and a call that took effect to one that asks for a call.
Warranted ==
    \A r \in Runs :
        /\ permits[r] > 0 \/ unsettled[r] > 0 \/ executed[r] => Entitled(r)
        /\ acts[r] > 0 => Entitled(r) /\ decision[r] \notin {"HOLD", None}
=============================================================================
