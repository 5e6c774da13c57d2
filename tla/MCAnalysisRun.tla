--------------------------- MODULE MCAnalysisRun ---------------------------
(* Model-checking instances of AnalysisRun. *)
EXTENDS AnalysisRun

CONSTANTS r1, t1, t2, w1, w2, h1, k1

OneRun     == {r1}
OneTrade   == {t1}
TwoTrades  == {t1, t2}
OneWorker  == {w1}
TwoWorkers == {w1, w2}
OneHandler == {h1}
OneCancel  == {k1}

\* Paper over SDK and REST with live disabled; live over REST, paper disabled.
PaperBySdk == [paper |-> TRUE, live |-> FALSE, sdk |-> TRUE]
LiveByRest == [paper |-> FALSE, live |-> TRUE, sdk |-> FALSE]
TwoConfigs == {PaperBySdk, LiveByRest}
=============================================================================
