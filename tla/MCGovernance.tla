---------------------------- MODULE MCGovernance ----------------------------
(* Model-checking instances of Governance. *)
EXTENDS Governance, TLC

CONSTANTS t1, b1, b2, f1, h1, h2, w1, w2

OneTicket   == {t1}
OneBeat     == {b1}
TwoBeats    == {b1, b2}
OneForced   == {f1}
OneHandler  == {h1}
TwoHandlers == {h1, h2}
OneWorker   == {w1}
TwoWorkers  == {w1, w2}

\* Handlers and workers are interchangeable; no property names one.
Symmetry == Permutations(TwoHandlers) \cup Permutations(TwoWorkers)

\* A view without `dropped`, which guards no action and which only
\* ApprovedSettles reads.
WithoutDropped == <<rows, autoApprove, lock, loop, api, queue, worker, pos,
                    acts, approvers, misread, bounds>>
=============================================================================
