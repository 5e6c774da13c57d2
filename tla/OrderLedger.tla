---------------------------- MODULE OrderLedger ----------------------------
(***************************************************************************)
(* What the analysis runs promise of the broker's account, without         *)
(* messages, cancellations, retries, modes or symbols.  Each evaluation of *)
(* a run gets one licence.  The broker fills orders of licensed            *)
(* evaluations only; a fill that the evaluation has seen uses its licence  *)
(* up and is told by one order row, or by none when the evaluation is lost *)
(* before it is written.  A fill nobody has seen leaves the licence.       *)
(* AnalysisRun implements this.                                            *)
(***************************************************************************)
EXTENDS Naturals

CONSTANTS Evaluators, Runs, Trades, None

VARIABLES
    hand,           \* what each evaluator holds
    licensed,       \* licences given, by run
    filled,         \* orders the broker has filled
    told,           \* rows that tell of a fill
    lost            \* fills no row will ever tell of

ledgerVars == <<hand, licensed, filled, told, lost>>

Nothing        == [holds |-> "nothing", run |-> None, trade |-> None]
Licence(r)     == [holds |-> "licence", run |-> r, trade |-> None]
FillOf(r, t)   == [holds |-> "fill", run |-> r, trade |-> t]

OneMore(f, r, t) == [f EXCEPT ![r][t] = @ + 1]
Holds(e, h)      == hand' = [hand EXCEPT ![e] = h]

Init ==
    /\ hand = [e \in Evaluators |-> Nothing]
    /\ licensed = [r \in Runs |-> 0]
    /\ filled = [r \in Runs |-> [t \in Trades |-> 0]]
    /\ told   = [r \in Runs |-> [t \in Trades |-> 0]]
    /\ lost   = [r \in Runs |-> [t \in Trades |-> 0]]

License(e, r) ==
    /\ hand[e] = Nothing
    /\ Holds(e, Licence(r))
    /\ licensed' = [licensed EXCEPT ![r] = @ + 1]
    /\ UNCHANGED <<filled, told, lost>>

Withdraw(e, r) ==
    /\ hand[e] = Licence(r)
    /\ Holds(e, Nothing)
    /\ UNCHANGED <<licensed, filled, told, lost>>

Fill(e, r, t) ==
    /\ hand[e] = Licence(r)
    /\ Holds(e, FillOf(r, t))
    /\ filled' = OneMore(filled, r, t)
    /\ UNCHANGED <<licensed, told, lost>>

FillUnseen(e, r, t) ==
    /\ hand[e] = Licence(r)
    /\ Holds(e, Licence(r)) \/ Holds(e, Nothing)
    /\ filled' = OneMore(filled, r, t)
    /\ lost' = OneMore(lost, r, t)
    /\ UNCHANGED <<licensed, told>>

Tell(e, r, t) ==
    /\ hand[e] = FillOf(r, t)
    /\ Holds(e, Nothing)
    /\ told' = OneMore(told, r, t)
    /\ UNCHANGED <<licensed, filled, lost>>

Lose(e, r, t) ==
    /\ hand[e] = FillOf(r, t)
    /\ Holds(e, Nothing)
    /\ lost' = OneMore(lost, r, t)
    /\ UNCHANGED <<licensed, filled, told>>

Next ==
    \E e \in Evaluators, r \in Runs :
        \/ License(e, r) \/ Withdraw(e, r)
        \/ \E t \in Trades : \/ Fill(e, r, t) \/ FillUnseen(e, r, t)
                             \/ Tell(e, r, t) \/ Lose(e, r, t)

Spec == Init /\ [][Next]_ledgerVars
=============================================================================
