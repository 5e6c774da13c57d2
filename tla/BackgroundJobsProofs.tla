----------------------- MODULE BackgroundJobsProofs -----------------------
(* Proofs about backtests and benchmarks: the inductive invariant and the  *)
(* safety properties of BackgroundJobs.                                    *)
EXTENDS BackgroundJobs, FiniteSetTheorems, TLAPS

\* Where the request and the worker of each kind can be.
Places ==
    /\ proc["worker"].pc \in {"idle", "start", "run", "store", "settle", "fail"}
    /\ proc["request"].pc \in {"new", "enqueue", "note", "reload", "start",
                               "run", "store", "fail", "done"}
    /\ proc["worker"].pc \in {"run", "store"} => starts > 0
    /\ kind = "benchmark" =>
           /\ proc["request"].pc \in {"new", "enqueue", "note", "done"}
           /\ proc["worker"].pc # "store"
           /\ 0 \notin results
    /\ kind = "backtest" =>
           /\ proc["worker"].pc # "settle"
           /\ cancel = "idle"
           /\ ~revoked
           /\ status \notin {"cancelled", "skipped"}

\* One message: before it is out nobody works, and a worker holds it.
Message ==
    /\ proc["request"].pc \in {"new", "enqueue"} =>
           queue = 0 /\ proc["worker"].pc = "idle" /\ results = {}
    /\ proc["worker"].pc # "idle" => queue = 0 /\ proc["worker"].seen \notin Final
    /\ status \in Final => ended

\* Once the results of a worker are stored, no execution of a worker follows.
Stored ==
    /\ kind = "backtest" /\ results \ {0} # {} =>
           queue = 0 /\ proc["worker"].pc = "idle"
    /\ kind = "benchmark" /\ results # {} =>
           /\ status \in Final
           /\ proc["worker"].pc \in {"idle", "settle", "fail"}
    /\ \E n \in Nat : results \subseteq {0, n}

\* Somebody will bring the job to an end, has done so, or it is lost.
Served ==
    /\ \/ queue = 1
       \/ proc["worker"].pc # "idle"
       \/ proc["request"].pc \notin {"note", "done"}
       \/ revoked
       \/ ended
       \/ lost
    /\ revoked => cancel = "commit" \/ ended \/ lost

\* The row is inserted first.
Created == proc["request"].pc = "new" => status = "none" /\ cancel = "idle"

IInv ==
    /\ TypeOK
    /\ Created
    /\ Places
    /\ Message
    /\ Stored
    /\ MetricsHaveTrades
    /\ CompletedHasResults
    /\ Served

-----------------------------------------------------------------------------
LEMMA InitIInv == Init => IInv
<1> SUFFICES ASSUME Init PROVE IInv
  OBVIOUS
<1>1. TypeOK
  <2>1. Idle \in Proc /\ [Idle EXCEPT !.pc = "new"] \in Proc
    BY DEF Idle, Proc, Statuses
  <2>2. proc \in [Procs -> Proc]
    BY <2>1 DEF Init
  <2>3. /\ results \subseteq 0..starts /\ metrics \in (0..starts) \cup {None}
        /\ starts \in Nat /\ faults \in 0..MaxFaults
    BY JobsAssumption DEF Init
  <2>4. /\ kind \in Kinds /\ status \in Statuses /\ queue \in {0, 1}
        /\ cancel \in {"idle", "revoke", "commit"}
    BY DEF Init, Statuses
  <2>5. /\ task \in BOOLEAN /\ revoked \in BOOLEAN /\ ended \in BOOLEAN
        /\ overruled \in BOOLEAN /\ lost \in BOOLEAN
    BY DEF Init
  <2> QED BY <2>2, <2>3, <2>4, <2>5 DEF TypeOK
<1>2. Created /\ Places /\ Message /\ Served
  BY DEF Init, Created, Places, Message, Served, Idle, Procs, Final, Kinds
<1>3. Stored /\ MetricsHaveTrades /\ CompletedHasResults
  BY DEF Init, Stored, MetricsHaveTrades, CompletedHasResults
<1> QED BY <1>1, <1>2, <1>3 DEF IInv

LEMMA CreateKeepsIInv ==
    ASSUME IInv, Create
    PROVE  IInv'
<1>1. TypeOK'
  <2>1. proc' \in [Procs -> Proc]
    <3> DEFINE new(pc) == [Idle EXCEPT !.pc = pc, !.seen = "pending"]
    <3>1. new("enqueue") \in Proc /\ new("start") \in Proc
      BY DEF Idle, Proc, Statuses
    <3>2. proc' = [proc EXCEPT !["request"] = new("enqueue")]
            \/ proc' = [proc EXCEPT !["request"] = new("start")]
      BY DEF Create
    <3> HIDE DEF new
    <3> QED BY <3>1, <3>2 DEF IInv, TypeOK
  <2> QED
    BY <2>1 DEF IInv, TypeOK, Create, At, history, Procs, Statuses, Final,
           Kinds
<1>2. Created'
  BY DEF IInv, TypeOK, Create, At, Idle, history, Created, Places, Message,
         Procs, Proc
<1>3. Places'
  BY DEF IInv, TypeOK, Create, At, Idle, history, Places, Procs, Proc,
         Statuses, Final, Kinds
<1>4. Message'
  BY DEF IInv, TypeOK, Create, At, Idle, history, Places, Message, Procs, Proc,
         Statuses, Final, Kinds
<1>5. Stored'
  BY DEF IInv, TypeOK, Create, At, Idle, history, Places, Message, Stored,
         Procs, Proc, Statuses, Final, Kinds
<1>6. MetricsHaveTrades'
  BY DEF IInv, TypeOK, Create, At, Idle, history, MetricsHaveTrades, Procs,
         Proc
<1>7. CompletedHasResults'
  BY DEF IInv, TypeOK, Create, At, Idle, history, CompletedHasResults
<1>8. Served'
  BY DEF IInv, TypeOK, Create, At, Idle, history, Places, Message, Served,
         Procs, Proc, Statuses, Final, Kinds
<1> QED BY <1>1, <1>2, <1>3, <1>4, <1>5, <1>6, <1>7, <1>8 DEF IInv

LEMMA EnqueueKeepsIInv ==
    ASSUME IInv, Enqueue
    PROVE  IInv'
<1>1. TypeOK'
  <2>1. proc' \in [Procs -> Proc]
    BY DEF IInv, TypeOK, Enqueue, At, Goto, row, history, Procs, Proc,
           Statuses, Final
  <2> QED
    BY <2>1 DEF IInv, TypeOK, Enqueue, At, Goto, row, history, Procs, Statuses,
           Final, Kinds
<1>2. Created'
  BY DEF IInv, TypeOK, Enqueue, At, Goto, row, history, Created, Places,
         Message, Procs, Proc
<1>3. Places'
  BY DEF IInv, TypeOK, Enqueue, At, Goto, row, history, Places, Procs, Proc,
         Statuses, Final, Kinds
<1>4. Message'
  BY DEF IInv, TypeOK, Enqueue, At, Goto, row, history, Places, Message, Procs,
         Proc, Statuses, Final, Kinds
<1>5. Stored'
  BY DEF IInv, TypeOK, Enqueue, At, Goto, row, history, Places, Message,
         Stored, Procs, Proc, Statuses, Final, Kinds
<1>6. MetricsHaveTrades'
  BY DEF IInv, TypeOK, Enqueue, At, Goto, row, history, MetricsHaveTrades,
         Procs, Proc
<1>7. CompletedHasResults'
  BY DEF IInv, TypeOK, Enqueue, At, Goto, row, history, CompletedHasResults
<1>8. Served'
  BY DEF IInv, TypeOK, Enqueue, At, Goto, row, history, Places, Message,
         Served, Procs, Proc, Statuses, Final, Kinds
<1> QED BY <1>1, <1>2, <1>3, <1>4, <1>5, <1>6, <1>7, <1>8 DEF IInv

LEMMA EnqueueFailsKeepsIInv ==
    ASSUME IInv, EnqueueFails
    PROVE  IInv'
<1>1. TypeOK'
  <2>1. proc' \in [Procs -> Proc]
    BY DEF IInv, TypeOK, EnqueueFails, At, Goto, Leave, Idle, Done, row, Procs,
           Proc, Statuses, Final
  <2>2. lost' \in BOOLEAN
    BY Zenon DEF IInv, TypeOK, EnqueueFails
  <2> QED
    BY <2>1, <2>2, JobsAssumption DEF IInv, TypeOK, EnqueueFails, At, Goto,
           Fault, row, Procs, Statuses, Final, Kinds
<1>2. Created'
  BY DEF IInv, TypeOK, EnqueueFails, At, Goto, Leave, Idle, Done, Fault, row,
         Created, Places, Message, Procs, Proc
<1>3. Places'
  BY DEF IInv, TypeOK, EnqueueFails, At, Goto, Leave, Idle, Done, Fault, row,
         Places, Procs, Proc, Statuses, Final, Kinds
<1>4. Message'
  BY DEF IInv, TypeOK, EnqueueFails, At, Goto, Leave, Idle, Done, Fault, row,
         Places, Message, Procs, Proc, Statuses, Final, Kinds
<1>5. Stored'
  BY DEF IInv, TypeOK, EnqueueFails, At, Goto, Leave, Idle, Done, Fault, row,
         Places, Message, Stored, Procs, Proc, Statuses, Final, Kinds
<1>6. MetricsHaveTrades'
  BY DEF IInv, TypeOK, EnqueueFails, At, Goto, Leave, Idle, Done, Fault, row,
         MetricsHaveTrades, Procs, Proc
<1>7. CompletedHasResults'
  BY DEF IInv, TypeOK, EnqueueFails, At, Goto, Leave, Idle, Done, Fault, row,
         CompletedHasResults
<1>8. Served'
  BY DEF IInv, TypeOK, EnqueueFails, At, Goto, Leave, Idle, Done, Fault, row,
         Places, Message, Served, Procs, Proc, Statuses, Final, Kinds
<1> QED BY <1>1, <1>2, <1>3, <1>4, <1>5, <1>6, <1>7, <1>8 DEF IInv

LEMMA NoteKeepsIInv ==
    ASSUME IInv, Note
    PROVE  IInv'
<1>1. TypeOK'
  <2>1. proc' \in [Procs -> Proc]
    BY DEF IInv, TypeOK, Note, At, Leave, Idle, Done, Flush, history, Procs,
           Proc, Statuses, Final
  <2>2. task' \in BOOLEAN /\ status' \in Statuses
    <3>1. CASE kind = "backtest"
      BY <3>1 DEF IInv, TypeOK, Note, Flush, Statuses
    <3>2. CASE kind # "backtest"
      BY <3>2 DEF IInv, TypeOK, Note, Flush, Statuses
    <3> QED BY <3>1, <3>2
  <2> QED
    BY <2>1, <2>2 DEF IInv, TypeOK, Note, At, history, Statuses, Final, Kinds
<1>2. Created'
  BY DEF IInv, TypeOK, Note, At, Leave, Idle, Done, Flush, history, Created,
         Places, Message, Procs, Proc
<1>3. Places'
  BY DEF IInv, TypeOK, Note, At, Leave, Idle, Done, Flush, history, Places,
         Procs, Proc, Statuses, Final, Kinds
<1>4. Message'
  BY DEF IInv, TypeOK, Note, At, Leave, Idle, Done, Flush, history, Places,
         Message, Procs, Proc, Statuses, Final, Kinds
<1>5. Stored'
  BY DEF IInv, TypeOK, Note, At, Leave, Idle, Done, Flush, history, Places,
         Message, Stored, Procs, Proc, Statuses, Final, Kinds
<1>6. MetricsHaveTrades'
  BY DEF IInv, TypeOK, Note, At, Leave, Idle, Done, Flush, history,
         MetricsHaveTrades, Procs, Proc
<1>7. CompletedHasResults'
  BY DEF IInv, TypeOK, Note, At, Leave, Idle, Done, Flush, history,
         CompletedHasResults
<1>8. Served'
  BY DEF IInv, TypeOK, Note, At, Leave, Idle, Done, Flush, history, Places,
         Message, Served, Procs, Proc, Statuses, Final, Kinds
<1> QED BY <1>1, <1>2, <1>3, <1>4, <1>5, <1>6, <1>7, <1>8 DEF IInv

LEMMA NoteFailsKeepsIInv ==
    ASSUME IInv, NoteFails
    PROVE  IInv'
<1>1. TypeOK'
  <2>1. proc' \in [Procs -> Proc]
    BY DEF IInv, TypeOK, NoteFails, history, At, Goto, Leave, Idle, Done,
           Flush, Procs, Proc, Statuses, Final
  <2> QED
    BY <2>1, JobsAssumption DEF IInv, TypeOK, NoteFails, history, At, Goto,
           Leave, Flush, Fault, Procs, Statuses, Final, Kinds
<1>2. Created'
  BY DEF IInv, TypeOK, NoteFails, history, At, Goto, Leave, Idle, Done, Flush,
         Fault, Created, Places, Message, Procs, Proc
<1>3. Places'
  BY DEF IInv, TypeOK, NoteFails, history, At, Goto, Leave, Idle, Done, Flush,
         Fault, Places, Procs, Proc, Statuses, Final, Kinds
<1>4. Message'
  BY DEF IInv, TypeOK, NoteFails, history, At, Goto, Leave, Idle, Done, Flush,
         Fault, Places, Message, Procs, Proc, Statuses, Final, Kinds
<1>5. Stored'
  BY DEF IInv, TypeOK, NoteFails, history, At, Goto, Leave, Idle, Done, Flush,
         Fault, Places, Message, Stored, Procs, Proc, Statuses, Final, Kinds
<1>6. MetricsHaveTrades'
  BY DEF IInv, TypeOK, NoteFails, history, At, Goto, Leave, Idle, Done, Flush,
         Fault, MetricsHaveTrades, Procs, Proc
<1>7. CompletedHasResults'
  BY DEF IInv, TypeOK, NoteFails, history, At, Goto, Leave, Idle, Done, Flush,
         Fault, CompletedHasResults
<1>8. Served'
  BY DEF IInv, TypeOK, NoteFails, history, At, Goto, Leave, Idle, Done, Flush,
         Fault, Places, Message, Served, Procs, Proc, Statuses, Final, Kinds
<1> QED BY <1>1, <1>2, <1>3, <1>4, <1>5, <1>6, <1>7, <1>8 DEF IInv

LEMMA ReloadKeepsIInv ==
    ASSUME IInv, Reload
    PROVE  IInv'
<1>1. TypeOK'
  <2>1. proc' \in [Procs -> Proc]
    BY DEF IInv, TypeOK, Reload, At, row, history, Procs, Proc, Statuses, Final
  <2> QED
    BY <2>1 DEF IInv, TypeOK, Reload, At, row, history, Procs, Statuses, Final,
           Kinds
<1>2. Created'
  BY DEF IInv, TypeOK, Reload, At, row, history, Created, Places, Message,
         Procs, Proc
<1>3. Places'
  BY DEF IInv, TypeOK, Reload, At, row, history, Places, Procs, Proc, Statuses,
         Final, Kinds
<1>4. Message'
  BY DEF IInv, TypeOK, Reload, At, row, history, Places, Message, Procs, Proc,
         Statuses, Final, Kinds
<1>5. Stored'
  BY DEF IInv, TypeOK, Reload, At, row, history, Places, Message, Stored,
         Procs, Proc, Statuses, Final, Kinds
<1>6. MetricsHaveTrades'
  BY DEF IInv, TypeOK, Reload, At, row, history, MetricsHaveTrades, Procs, Proc
<1>7. CompletedHasResults'
  BY DEF IInv, TypeOK, Reload, At, row, history, CompletedHasResults
<1>8. Served'
  BY DEF IInv, TypeOK, Reload, At, row, history, Places, Message, Served,
         Procs, Proc, Statuses, Final, Kinds
<1> QED BY <1>1, <1>2, <1>3, <1>4, <1>5, <1>6, <1>7, <1>8 DEF IInv

LEMMA ReceiveKeepsIInv ==
    ASSUME IInv, Receive
    PROVE  IInv'
<1>1. TypeOK'
  <2>1. proc' \in [Procs -> Proc]
    BY DEF IInv, TypeOK, Receive, At, Skips, Idle, row, history, Procs, Proc,
           Statuses, Final
  <2> QED
    BY <2>1 DEF IInv, TypeOK, Receive, At, Skips, row, history, Procs,
           Statuses, Final, Kinds
<1>2. Created'
  BY DEF IInv, TypeOK, Receive, At, Skips, Idle, row, history, Created, Places,
         Message, Procs, Proc
<1>3. Places'
  BY DEF IInv, TypeOK, Receive, At, Skips, Idle, row, history, Places, Procs,
         Proc, Statuses, Final, Kinds
<1>4. Message'
  BY DEF IInv, TypeOK, Receive, At, Skips, Idle, row, history, Places, Message,
         Procs, Proc, Statuses, Final, Kinds
<1>5. Stored'
  BY DEF IInv, TypeOK, Receive, At, Skips, Idle, row, history, Places, Message,
         Stored, Procs, Proc, Statuses, Final, Kinds
<1>6. MetricsHaveTrades'
  BY DEF IInv, TypeOK, Receive, At, Skips, Idle, row, history,
         MetricsHaveTrades, Procs, Proc
<1>7. CompletedHasResults'
  BY DEF IInv, TypeOK, Receive, At, Skips, Idle, row, history,
         CompletedHasResults
<1>8. Served'
  BY DEF IInv, TypeOK, Receive, At, Skips, Idle, row, history, Places, Message,
         Served, Procs, Proc, Statuses, Final, Kinds
<1> QED BY <1>1, <1>2, <1>3, <1>4, <1>5, <1>6, <1>7, <1>8 DEF IInv

LEMMA DiscardKeepsIInv ==
    ASSUME IInv, Discard
    PROVE  IInv'
<1>1. TypeOK'
  <2>1. proc' \in [Procs -> Proc]
    BY DEF IInv, TypeOK, Discard, At, row, history, Procs, Proc, Statuses,
           Final
  <2> QED
    BY <2>1 DEF IInv, TypeOK, Discard, At, row, history, Procs, Statuses,
           Final, Kinds
<1>2. Created'
  BY DEF IInv, TypeOK, Discard, At, row, history, Created, Places, Message,
         Procs, Proc
<1>3. Places'
  BY DEF IInv, TypeOK, Discard, At, row, history, Places, Procs, Proc,
         Statuses, Final, Kinds
<1>4. Message'
  BY DEF IInv, TypeOK, Discard, At, row, history, Places, Message, Procs, Proc,
         Statuses, Final, Kinds
<1>5. Stored'
  BY DEF IInv, TypeOK, Discard, At, row, history, Places, Message, Stored,
         Procs, Proc, Statuses, Final, Kinds
<1>6. MetricsHaveTrades'
  BY DEF IInv, TypeOK, Discard, At, row, history, MetricsHaveTrades, Procs,
         Proc
<1>7. CompletedHasResults'
  BY DEF IInv, TypeOK, Discard, At, row, history, CompletedHasResults
<1>8. Served'
  BY DEF IInv, TypeOK, Discard, At, row, history, Places, Message, Served,
         Procs, Proc, Statuses, Final, Kinds
<1> QED BY <1>1, <1>2, <1>3, <1>4, <1>5, <1>6, <1>7, <1>8 DEF IInv

LEMMA StartKeepsIInv ==
    ASSUME IInv, NEW p \in Procs, Start(p)
    PROVE  IInv'
<1>1. TypeOK'
  <2>1. proc' \in [Procs -> Proc]
    BY DEF IInv, TypeOK, Start, history, At, Goto, Flush, Procs, Proc,
           Statuses, Final
  <2> QED
    BY <2>1 DEF IInv, TypeOK, Start, history, At, Goto, Flush, Procs, Statuses,
           Final, Kinds
<1>2. Created'
  BY DEF IInv, TypeOK, Start, history, At, Goto, Flush, Created, Places,
         Message, Procs, Proc
<1>3. Places'
  BY DEF IInv, TypeOK, Start, history, At, Goto, Flush, Places, Procs, Proc,
         Statuses, Final, Kinds
<1>4. Message'
  BY DEF IInv, TypeOK, Start, history, At, Goto, Flush, Places, Message, Procs,
         Proc, Statuses, Final, Kinds
<1>5. Stored'
  BY DEF IInv, TypeOK, Start, history, At, Goto, Flush, Places, Message,
         Stored, Procs, Proc, Statuses, Final, Kinds
<1>6. MetricsHaveTrades'
  BY DEF IInv, TypeOK, Start, history, At, Goto, Flush, MetricsHaveTrades,
         Procs, Proc
<1>7. CompletedHasResults'
  BY DEF IInv, TypeOK, Start, history, At, Goto, Flush, CompletedHasResults
<1>8. Served'
  BY DEF IInv, TypeOK, Start, history, At, Goto, Flush, Places, Message,
         Served, Procs, Proc, Statuses, Final, Kinds
<1> QED BY <1>1, <1>2, <1>3, <1>4, <1>5, <1>6, <1>7, <1>8 DEF IInv

LEMMA DeleteKeepsIInv ==
    ASSUME IInv, NEW p \in Procs, Delete(p)
    PROVE  IInv'
<1>1. TypeOK'
  <2>1. proc' \in [Procs -> Proc]
    <3>1. results \subseteq Nat  BY DEF IInv, TypeOK
    <3>2. [proc[p] EXCEPT !.pc = "store", !.deleted = results] \in Proc
      BY <3>1 DEF IInv, TypeOK, Proc
    <3> QED BY <3>2 DEF Delete, IInv, TypeOK
  <2> QED
    BY <2>1 DEF IInv, TypeOK, Delete, At, row, history, Procs, Statuses, Final,
           Kinds
<1>2. Created'
  BY DEF IInv, TypeOK, Delete, At, row, history, Created, Places, Message,
         Procs, Proc
<1>3. Places'
  BY DEF IInv, TypeOK, Delete, At, row, history, Places, Procs, Proc, Statuses,
         Final, Kinds
<1>4. Message'
  BY DEF IInv, TypeOK, Delete, At, row, history, Places, Message, Procs, Proc,
         Statuses, Final, Kinds
<1>5. Stored'
  BY DEF IInv, TypeOK, Delete, At, row, history, Places, Message, Stored,
         Procs, Proc, Statuses, Final, Kinds
<1>6. MetricsHaveTrades'
  BY DEF IInv, TypeOK, Delete, At, row, history, MetricsHaveTrades, Procs, Proc
<1>7. CompletedHasResults'
  BY DEF IInv, TypeOK, Delete, At, row, history, CompletedHasResults
<1>8. Served'
  BY DEF IInv, TypeOK, Delete, At, row, history, Places, Message, Served,
         Procs, Proc, Statuses, Final, Kinds
<1> QED BY <1>1, <1>2, <1>3, <1>4, <1>5, <1>6, <1>7, <1>8 DEF IInv

LEMMA StoreKeepsIInv ==
    ASSUME IInv, NEW p \in Procs, Store(p)
    PROVE  IInv'
<1>1. TypeOK'
  <2>1. proc' \in [Procs -> Proc]
    BY DEF IInv, TypeOK, Store, At, Leave, Idle, Done, End, Procs, Proc,
           Statuses, Final
  <2>2. Execution(p) \in 0..starts
    BY DEF IInv, TypeOK, Execution
  <2> QED
    BY <2>1, <2>2 DEF IInv, TypeOK, Store, At, End, Statuses, Final, Kinds
<1>2. Created'
  BY DEF IInv, TypeOK, Store, At, Leave, Idle, Done, End, Execution, Created,
         Places, Message, Procs, Proc
<1>3. Places'
  BY DEF IInv, TypeOK, Store, At, Leave, Idle, Done, End, Execution, Places,
         Procs, Proc, Statuses, Final, Kinds
<1>4. Message'
  BY DEF IInv, TypeOK, Store, At, Leave, Idle, Done, End, Execution, Places,
         Message, Procs, Proc, Statuses, Final, Kinds
<1>5. Stored'
  BY DEF IInv, TypeOK, Store, At, Leave, Idle, Done, End, Execution, Places,
         Message, Stored, Procs, Proc, Statuses, Final, Kinds
<1>6. MetricsHaveTrades'
  BY DEF IInv, TypeOK, Store, At, Leave, Idle, Done, End, Execution,
         MetricsHaveTrades, Procs, Proc
<1>7. CompletedHasResults'
  BY DEF IInv, TypeOK, Store, At, Leave, Idle, Done, End, Execution,
         CompletedHasResults
<1>8. Served'
  BY DEF IInv, TypeOK, Store, At, Leave, Idle, Done, End, Execution, Places,
         Message, Served, Procs, Proc, Statuses, Final, Kinds
<1> QED BY <1>1, <1>2, <1>3, <1>4, <1>5, <1>6, <1>7, <1>8 DEF IInv

LEMMA CompleteKeepsIInv ==
    ASSUME IInv, Complete
    PROVE  IInv'
<1>1. TypeOK'
  <2>1. proc' \in [Procs -> Proc]
    BY DEF IInv, TypeOK, Complete, At, Goto, End, Procs, Proc, Statuses, Final
  <2> QED
    BY <2>1 DEF IInv, TypeOK, Complete, At, Goto, End, Procs, Statuses, Final,
           Kinds
<1>2. Created'
  BY DEF IInv, TypeOK, Complete, At, Goto, End, Created, Places, Message,
         Procs, Proc
<1>3. Places'
  BY DEF IInv, TypeOK, Complete, At, Goto, End, Places, Procs, Proc, Statuses,
         Final, Kinds
<1>4. Message'
  BY DEF IInv, TypeOK, Complete, At, Goto, End, Places, Message, Procs, Proc,
         Statuses, Final, Kinds
<1>5. Stored'
  BY DEF IInv, TypeOK, Complete, At, Goto, End, Places, Message, Stored, Procs,
         Proc, Statuses, Final, Kinds
<1>6. MetricsHaveTrades'
  BY DEF IInv, TypeOK, Complete, At, Goto, End, MetricsHaveTrades, Procs, Proc
<1>7. CompletedHasResults'
  BY DEF IInv, TypeOK, Complete, At, Goto, End, CompletedHasResults
<1>8. Served'
  BY DEF IInv, TypeOK, Complete, At, Goto, End, Places, Message, Served, Procs,
         Proc, Statuses, Final, Kinds
<1> QED BY <1>1, <1>2, <1>3, <1>4, <1>5, <1>6, <1>7, <1>8 DEF IInv

LEMMA SkipDebateKeepsIInv ==
    ASSUME IInv, SkipDebate
    PROVE  IInv'
<1>1. TypeOK'
  <2>1. proc' \in [Procs -> Proc]
    BY DEF IInv, TypeOK, SkipDebate, At, Goto, End, Procs, Proc, Statuses,
           Final
  <2> QED
    BY <2>1 DEF IInv, TypeOK, SkipDebate, At, Goto, End, Procs, Statuses,
           Final, Kinds
<1>2. Created'
  BY DEF IInv, TypeOK, SkipDebate, At, Goto, End, Created, Places, Message,
         Procs, Proc
<1>3. Places'
  BY DEF IInv, TypeOK, SkipDebate, At, Goto, End, Places, Procs, Proc,
         Statuses, Final, Kinds
<1>4. Message'
  BY DEF IInv, TypeOK, SkipDebate, At, Goto, End, Places, Message, Procs, Proc,
         Statuses, Final, Kinds
<1>5. Stored'
  BY DEF IInv, TypeOK, SkipDebate, At, Goto, End, Places, Message, Stored,
         Procs, Proc, Statuses, Final, Kinds
<1>6. MetricsHaveTrades'
  BY DEF IInv, TypeOK, SkipDebate, At, Goto, End, MetricsHaveTrades, Procs,
         Proc
<1>7. CompletedHasResults'
  BY DEF IInv, TypeOK, SkipDebate, At, Goto, End, CompletedHasResults
<1>8. Served'
  BY DEF IInv, TypeOK, SkipDebate, At, Goto, End, Places, Message, Served,
         Procs, Proc, Statuses, Final, Kinds
<1> QED BY <1>1, <1>2, <1>3, <1>4, <1>5, <1>6, <1>7, <1>8 DEF IInv

LEMMA SettleKeepsIInv ==
    ASSUME IInv, Settle
    PROVE  IInv'
<1>1. TypeOK'
  <2>1. proc' \in [Procs -> Proc]
    BY DEF IInv, TypeOK, Settle, At, Leave, Idle, Done, End, Procs, Proc,
           Statuses, Final
  <2> QED
    BY ZenonT(60), <2>1 DEF IInv, TypeOK, Settle, At, Leave, End, Procs, Statuses, Final,
           Kinds
<1>2. Created'
  BY DEF IInv, TypeOK, Settle, At, Leave, Idle, Done, End, Created, Places,
         Message, Procs, Proc
<1>3. Places'
  BY DEF IInv, TypeOK, Settle, At, Leave, Idle, Done, End, Places, Procs, Proc,
         Statuses, Final, Kinds
<1>4. Message'
  BY DEF IInv, TypeOK, Settle, At, Leave, Idle, Done, End, Places, Message,
         Procs, Proc, Statuses, Final, Kinds
<1>5. Stored'
  BY DEF IInv, TypeOK, Settle, At, Leave, Idle, Done, End, Places, Message,
         Stored, Procs, Proc, Statuses, Final, Kinds
<1>6. MetricsHaveTrades'
  BY DEF IInv, TypeOK, Settle, At, Leave, Idle, Done, End, MetricsHaveTrades,
         Procs, Proc
<1>7. CompletedHasResults'
  BY DEF IInv, TypeOK, Settle, At, Leave, Idle, Done, End, CompletedHasResults
<1>8. Served'
  BY DEF IInv, TypeOK, Settle, At, Leave, Idle, Done, End, Places, Message,
         Served, Procs, Proc, Statuses, Final, Kinds
<1> QED BY <1>1, <1>2, <1>3, <1>4, <1>5, <1>6, <1>7, <1>8 DEF IInv

LEMMA RunFailsKeepsIInv ==
    ASSUME IInv, NEW p \in Procs, RunFails(p)
    PROVE  IInv'
<1>1. TypeOK'
  <2>1. proc' \in [Procs -> Proc]
    BY DEF IInv, TypeOK, RunFails, At, Goto, row, history, Procs, Proc,
           Statuses, Final
  <2> QED
    BY <2>1, JobsAssumption DEF IInv, TypeOK, RunFails, At, Goto, Fault, row,
           history, Procs, Statuses, Final, Kinds
<1>2. Created'
  BY DEF IInv, TypeOK, RunFails, At, Goto, Fault, row, history, Created,
         Places, Message, Procs, Proc
<1>3. Places'
  BY DEF IInv, TypeOK, RunFails, At, Goto, Fault, row, history, Places, Procs,
         Proc, Statuses, Final, Kinds
<1>4. Message'
  BY DEF IInv, TypeOK, RunFails, At, Goto, Fault, row, history, Places,
         Message, Procs, Proc, Statuses, Final, Kinds
<1>5. Stored'
  BY DEF IInv, TypeOK, RunFails, At, Goto, Fault, row, history, Places,
         Message, Stored, Procs, Proc, Statuses, Final, Kinds
<1>6. MetricsHaveTrades'
  BY DEF IInv, TypeOK, RunFails, At, Goto, Fault, row, history,
         MetricsHaveTrades, Procs, Proc
<1>7. CompletedHasResults'
  BY DEF IInv, TypeOK, RunFails, At, Goto, Fault, row, history,
         CompletedHasResults
<1>8. Served'
  BY DEF IInv, TypeOK, RunFails, At, Goto, Fault, row, history, Places,
         Message, Served, Procs, Proc, Statuses, Final, Kinds
<1> QED BY <1>1, <1>2, <1>3, <1>4, <1>5, <1>6, <1>7, <1>8 DEF IInv

LEMMA CommitFailsKeepsIInv ==
    ASSUME IInv, NEW p \in Procs, CommitFails(p)
    PROVE  IInv'
<1>1. TypeOK'
  <2>1. proc' \in [Procs -> Proc]
    <3>1. [proc[p] EXCEPT !.pc = "fail", !.deleted = {}] \in Proc
      BY DEF IInv, TypeOK, Proc
    <3>2. Idle \in Proc /\ Done \in Proc  BY DEF Idle, Done, Proc, Statuses
    <3> QED BY <3>1, <3>2 DEF CommitFails, Leave, IInv, TypeOK
  <2>2. lost' \in BOOLEAN
    BY Zenon DEF IInv, TypeOK, CommitFails
  <2> QED
    BY <2>1, <2>2, JobsAssumption DEF IInv, TypeOK, CommitFails, Fault, row,
           Procs, Statuses, Final, Kinds
<1>2. Created'
  BY DEF IInv, TypeOK, CommitFails, Leave, Idle, Done, Fault, row, Created,
         Places, Message, Procs, Proc
<1>3. Places'
  BY ZenonT(60) DEF IInv, TypeOK, CommitFails, Leave, Idle, Done, Fault, row, Places,
         Procs, Proc, Statuses, Final, Kinds
<1>4. Message'
  <2>1. CASE /\ proc' = [proc EXCEPT ![p] =
                      [proc[p] EXCEPT !.pc = "fail", !.deleted = {}]]
             /\ lost' = lost
    BY <2>1 DEF IInv, TypeOK, CommitFails, Fault, row, Places, Message, Procs,
           Proc, Statuses, Final, Kinds
  <2>2. CASE p = "request" /\ Leave(p) /\ lost' = TRUE
    BY <2>2 DEF IInv, TypeOK, CommitFails, Leave, Idle, Done, Fault, row,
           Places, Message, Procs, Proc, Statuses, Final, Kinds
  <2> QED BY <2>1, <2>2 DEF CommitFails
<1>5. Stored'
  BY DEF IInv, TypeOK, CommitFails, Leave, Idle, Done, Fault, row, Places,
         Message, Stored, Procs, Proc, Statuses, Final, Kinds
<1>6. MetricsHaveTrades'
  BY DEF IInv, TypeOK, CommitFails, Leave, Idle, Done, Fault, row,
         MetricsHaveTrades, Procs, Proc
<1>7. CompletedHasResults'
  BY DEF IInv, TypeOK, CommitFails, Leave, Idle, Done, Fault, row,
         CompletedHasResults
<1>8. Served'
  <2>1. CASE /\ proc' = [proc EXCEPT ![p] =
                      [proc[p] EXCEPT !.pc = "fail", !.deleted = {}]]
             /\ lost' = lost
    BY <2>1 DEF IInv, TypeOK, CommitFails, Fault, row, Places, Message, Served,
           Procs, Proc, Statuses, Final, Kinds
  <2>2. CASE p = "request" /\ Leave(p) /\ lost' = TRUE
    BY <2>2 DEF IInv, TypeOK, CommitFails, Leave, Idle, Done, Fault, row,
           Places, Message, Served, Procs, Proc, Statuses, Final, Kinds
  <2> QED BY <2>1, <2>2 DEF CommitFails
<1> QED BY <1>1, <1>2, <1>3, <1>4, <1>5, <1>6, <1>7, <1>8 DEF IInv

LEMMA FailKeepsIInv ==
    ASSUME IInv, NEW p \in Procs, Fail(p)
    PROVE  IInv'
<1>1. TypeOK'
  <2>1. proc' \in [Procs -> Proc]
    BY DEF IInv, TypeOK, Fail, At, Leave, Idle, Done, End, Procs, Proc,
           Statuses, Final
  <2> QED
    BY <2>1 DEF IInv, TypeOK, Fail, At, Leave, End, Procs, Statuses, Final,
           Kinds
<1>2. Created'
  BY DEF IInv, TypeOK, Fail, At, Leave, Idle, Done, End, Created, Places,
         Message, Procs, Proc
<1>3. Places'
  BY DEF IInv, TypeOK, Fail, At, Leave, Idle, Done, End, Places, Procs, Proc,
         Statuses, Final, Kinds
<1>4. Message'
  BY DEF IInv, TypeOK, Fail, At, Leave, Idle, Done, End, Places, Message,
         Procs, Proc, Statuses, Final, Kinds
<1>5. Stored'
  BY DEF IInv, TypeOK, Fail, At, Leave, Idle, Done, End, Places, Message,
         Stored, Procs, Proc, Statuses, Final, Kinds
<1>6. MetricsHaveTrades'
  BY DEF IInv, TypeOK, Fail, At, Leave, Idle, Done, End, MetricsHaveTrades,
         Procs, Proc
<1>7. CompletedHasResults'
  BY DEF IInv, TypeOK, Fail, At, Leave, Idle, Done, End, CompletedHasResults
<1>8. Served'
  BY DEF IInv, TypeOK, Fail, At, Leave, Idle, Done, End, Places, Message,
         Served, Procs, Proc, Statuses, Final, Kinds
<1> QED BY <1>1, <1>2, <1>3, <1>4, <1>5, <1>6, <1>7, <1>8 DEF IInv

LEMMA FailLostKeepsIInv ==
    ASSUME IInv, NEW p \in Procs, FailLost(p)
    PROVE  IInv'
<1>1. TypeOK'
  <2>1. proc' \in [Procs -> Proc]
    BY DEF IInv, TypeOK, FailLost, At, Leave, Idle, Done, row, Procs, Proc,
           Statuses, Final
  <2> QED
    BY <2>1, JobsAssumption DEF IInv, TypeOK, FailLost, At, Leave, Fault, row,
           Procs, Statuses, Final, Kinds
<1>2. Created'
  BY DEF IInv, TypeOK, FailLost, At, Leave, Idle, Done, Fault, row, Created,
         Places, Message, Procs, Proc
<1>3. Places'
  BY DEF IInv, TypeOK, FailLost, At, Leave, Idle, Done, Fault, row, Places,
         Procs, Proc, Statuses, Final, Kinds
<1>4. Message'
  BY DEF IInv, TypeOK, FailLost, At, Leave, Idle, Done, Fault, row, Places,
         Message, Procs, Proc, Statuses, Final, Kinds
<1>5. Stored'
  BY DEF IInv, TypeOK, FailLost, At, Leave, Idle, Done, Fault, row, Places,
         Message, Stored, Procs, Proc, Statuses, Final, Kinds
<1>6. MetricsHaveTrades'
  BY DEF IInv, TypeOK, FailLost, At, Leave, Idle, Done, Fault, row,
         MetricsHaveTrades, Procs, Proc
<1>7. CompletedHasResults'
  BY DEF IInv, TypeOK, FailLost, At, Leave, Idle, Done, Fault, row,
         CompletedHasResults
<1>8. Served'
  BY DEF IInv, TypeOK, FailLost, At, Leave, Idle, Done, Fault, row, Places,
         Message, Served, Procs, Proc, Statuses, Final, Kinds
<1> QED BY <1>1, <1>2, <1>3, <1>4, <1>5, <1>6, <1>7, <1>8 DEF IInv

LEMMA LoseWorkerKeepsIInv ==
    ASSUME IInv, LoseWorker
    PROVE  IInv'
<1>1. TypeOK'
  <2>1. proc' \in [Procs -> Proc]
    BY DEF IInv, TypeOK, LoseWorker, At, Idle, row, history, Procs, Proc,
           Statuses, Final
  <2> QED
    BY <2>1, JobsAssumption DEF IInv, TypeOK, LoseWorker, At, Fault, row,
           history, Procs, Statuses, Final, Kinds
<1>2. Created'
  BY DEF IInv, TypeOK, LoseWorker, At, Idle, Fault, row, history, Created,
         Places, Message, Procs, Proc
<1>3. Places'
  BY DEF IInv, TypeOK, LoseWorker, At, Idle, Fault, row, history, Places,
         Procs, Proc, Statuses, Final, Kinds
<1>4. Message'
  BY DEF IInv, TypeOK, LoseWorker, At, Idle, Fault, row, history, Places,
         Message, Procs, Proc, Statuses, Final, Kinds
<1>5. Stored'
  BY DEF IInv, TypeOK, LoseWorker, At, Idle, Fault, row, history, Places,
         Message, Stored, Procs, Proc, Statuses, Final, Kinds
<1>6. MetricsHaveTrades'
  BY DEF IInv, TypeOK, LoseWorker, At, Idle, Fault, row, history,
         MetricsHaveTrades, Procs, Proc
<1>7. CompletedHasResults'
  BY DEF IInv, TypeOK, LoseWorker, At, Idle, Fault, row, history,
         CompletedHasResults
<1>8. Served'
  BY DEF IInv, TypeOK, LoseWorker, At, Idle, Fault, row, history, Places,
         Message, Served, Procs, Proc, Statuses, Final, Kinds
<1> QED BY <1>1, <1>2, <1>3, <1>4, <1>5, <1>6, <1>7, <1>8 DEF IInv

LEMMA TimeLimitKeepsIInv ==
    ASSUME IInv, TimeLimit
    PROVE  IInv'
<1>1. TypeOK'
  <2>1. proc' \in [Procs -> Proc]
    BY DEF IInv, TypeOK, TimeLimit, At, Idle, row, Procs, Proc, Statuses, Final
  <2> QED
    BY <2>1, JobsAssumption DEF IInv, TypeOK, TimeLimit, At, Fault, row, Procs,
           Statuses, Final, Kinds
<1>2. Created'
  BY DEF IInv, TypeOK, TimeLimit, At, Idle, Fault, row, Created, Places,
         Message, Procs, Proc
<1>3. Places'
  BY DEF IInv, TypeOK, TimeLimit, At, Idle, Fault, row, Places, Procs, Proc,
         Statuses, Final, Kinds
<1>4. Message'
  BY DEF IInv, TypeOK, TimeLimit, At, Idle, Fault, row, Places, Message, Procs,
         Proc, Statuses, Final, Kinds
<1>5. Stored'
  BY DEF IInv, TypeOK, TimeLimit, At, Idle, Fault, row, Places, Message,
         Stored, Procs, Proc, Statuses, Final, Kinds
<1>6. MetricsHaveTrades'
  BY DEF IInv, TypeOK, TimeLimit, At, Idle, Fault, row, MetricsHaveTrades,
         Procs, Proc
<1>7. CompletedHasResults'
  BY DEF IInv, TypeOK, TimeLimit, At, Idle, Fault, row, CompletedHasResults
<1>8. Served'
  BY DEF IInv, TypeOK, TimeLimit, At, Idle, Fault, row, Places, Message,
         Served, Procs, Proc, Statuses, Final, Kinds
<1> QED BY <1>1, <1>2, <1>3, <1>4, <1>5, <1>6, <1>7, <1>8 DEF IInv

LEMMA ReadCancelKeepsIInv ==
    ASSUME IInv, ReadCancel
    PROVE  IInv'
<1>1. TypeOK'
  <2>1. proc' \in [Procs -> Proc]
    BY DEF IInv, TypeOK, ReadCancel, row, history, Procs, Proc, Statuses, Final
  <2> QED
    BY <2>1 DEF IInv, TypeOK, ReadCancel, row, history, Procs, Statuses, Final,
           Kinds
<1>2. Created'
  BY DEF IInv, TypeOK, ReadCancel, row, history, Created, Places, Message,
         Procs, Proc
<1>3. Places'
  BY DEF IInv, TypeOK, ReadCancel, row, history, Places, Procs, Proc, Statuses,
         Final, Kinds
<1>4. Message'
  BY DEF IInv, TypeOK, ReadCancel, row, history, Places, Message, Procs, Proc,
         Statuses, Final, Kinds
<1>5. Stored'
  BY DEF IInv, TypeOK, ReadCancel, row, history, Places, Message, Stored,
         Procs, Proc, Statuses, Final, Kinds
<1>6. MetricsHaveTrades'
  BY DEF IInv, TypeOK, ReadCancel, row, history, MetricsHaveTrades, Procs, Proc
<1>7. CompletedHasResults'
  BY DEF IInv, TypeOK, ReadCancel, row, history, CompletedHasResults
<1>8. Served'
  BY DEF IInv, TypeOK, ReadCancel, row, history, Places, Message, Served,
         Procs, Proc, Statuses, Final, Kinds
<1> QED BY <1>1, <1>2, <1>3, <1>4, <1>5, <1>6, <1>7, <1>8 DEF IInv

LEMMA RevokeKeepsIInv ==
    ASSUME IInv, Revoke
    PROVE  IInv'
<1>1. TypeOK'
  <2>1. proc' \in [Procs -> Proc]
    BY DEF IInv, TypeOK, Revoke, row, history, Procs, Proc, Statuses, Final
  <2> QED
    BY <2>1 DEF IInv, TypeOK, Revoke, row, history, Procs, Statuses, Final,
           Kinds
<1>2. Created'
  BY DEF IInv, TypeOK, Revoke, row, history, Created, Places, Message, Procs,
         Proc
<1>3. Places'
  BY DEF IInv, TypeOK, Revoke, row, history, Places, Procs, Proc, Statuses,
         Final, Kinds
<1>4. Message'
  BY DEF IInv, TypeOK, Revoke, row, history, Places, Message, Procs, Proc,
         Statuses, Final, Kinds
<1>5. Stored'
  BY DEF IInv, TypeOK, Revoke, row, history, Places, Message, Stored, Procs,
         Proc, Statuses, Final, Kinds
<1>6. MetricsHaveTrades'
  BY DEF IInv, TypeOK, Revoke, row, history, MetricsHaveTrades, Procs, Proc
<1>7. CompletedHasResults'
  BY DEF IInv, TypeOK, Revoke, row, history, CompletedHasResults
<1>8. Served'
  BY DEF IInv, TypeOK, Revoke, row, history, Places, Message, Served, Procs,
         Proc, Statuses, Final, Kinds
<1> QED BY <1>1, <1>2, <1>3, <1>4, <1>5, <1>6, <1>7, <1>8 DEF IInv

LEMMA TerminateKeepsIInv ==
    ASSUME IInv, Terminate
    PROVE  IInv'
<1>1. TypeOK'
  <2>1. proc' \in [Procs -> Proc]
    BY DEF IInv, TypeOK, Terminate, At, Idle, row, history, Procs, Proc,
           Statuses, Final
  <2> QED
    BY <2>1 DEF IInv, TypeOK, Terminate, At, row, history, Procs, Statuses,
           Final, Kinds
<1>2. Created'
  BY DEF IInv, TypeOK, Terminate, At, Idle, row, history, Created, Places,
         Message, Procs, Proc
<1>3. Places'
  BY DEF IInv, TypeOK, Terminate, At, Idle, row, history, Places, Procs, Proc,
         Statuses, Final, Kinds
<1>4. Message'
  BY DEF IInv, TypeOK, Terminate, At, Idle, row, history, Places, Message,
         Procs, Proc, Statuses, Final, Kinds
<1>5. Stored'
  BY DEF IInv, TypeOK, Terminate, At, Idle, row, history, Places, Message,
         Stored, Procs, Proc, Statuses, Final, Kinds
<1>6. MetricsHaveTrades'
  BY DEF IInv, TypeOK, Terminate, At, Idle, row, history, MetricsHaveTrades,
         Procs, Proc
<1>7. CompletedHasResults'
  BY DEF IInv, TypeOK, Terminate, At, Idle, row, history, CompletedHasResults
<1>8. Served'
  BY DEF IInv, TypeOK, Terminate, At, Idle, row, history, Places, Message,
         Served, Procs, Proc, Statuses, Final, Kinds
<1> QED BY <1>1, <1>2, <1>3, <1>4, <1>5, <1>6, <1>7, <1>8 DEF IInv

LEMMA CommitCancelKeepsIInv ==
    ASSUME IInv, CommitCancel
    PROVE  IInv'
<1>1. TypeOK'
  <2>1. proc' \in [Procs -> Proc]
    BY DEF IInv, TypeOK, CommitCancel, End, Procs, Proc, Statuses, Final
  <2> QED
    BY <2>1 DEF IInv, TypeOK, CommitCancel, End, Procs, Statuses, Final, Kinds
<1>2. Created'
  BY DEF IInv, TypeOK, CommitCancel, End, Created, Places, Message, Procs, Proc
<1>3. Places'
  BY DEF IInv, TypeOK, CommitCancel, End, Places, Procs, Proc, Statuses, Final,
         Kinds
<1>4. Message'
  BY DEF IInv, TypeOK, CommitCancel, End, Places, Message, Procs, Proc,
         Statuses, Final, Kinds
<1>5. Stored'
  BY DEF IInv, TypeOK, CommitCancel, End, Places, Message, Stored, Procs, Proc,
         Statuses, Final, Kinds
<1>6. MetricsHaveTrades'
  BY DEF IInv, TypeOK, CommitCancel, End, MetricsHaveTrades, Procs, Proc
<1>7. CompletedHasResults'
  BY DEF IInv, TypeOK, CommitCancel, End, CompletedHasResults
<1>8. Served'
  BY DEF IInv, TypeOK, CommitCancel, End, Places, Message, Served, Procs, Proc,
         Statuses, Final, Kinds
<1> QED BY <1>1, <1>2, <1>3, <1>4, <1>5, <1>6, <1>7, <1>8 DEF IInv

LEMMA CancelFailsKeepsIInv ==
    ASSUME IInv, CancelFails
    PROVE  IInv'
<1>1. TypeOK'
  <2>1. proc' \in [Procs -> Proc]
    BY DEF IInv, TypeOK, CancelFails, row, Procs, Proc, Statuses, Final
  <2>2. lost' \in BOOLEAN
    BY Zenon DEF IInv, TypeOK, CancelFails
  <2> QED
    BY <2>1, <2>2, JobsAssumption DEF IInv, TypeOK, CancelFails, Fault, row,
           Procs, Statuses, Final, Kinds
<1>2. Created'
  BY DEF IInv, TypeOK, CancelFails, Fault, row, Created, Places, Message,
         Procs, Proc
<1>3. Places'
  BY DEF IInv, TypeOK, CancelFails, Fault, row, Places, Procs, Proc, Statuses,
         Final, Kinds
<1>4. Message'
  BY DEF IInv, TypeOK, CancelFails, Fault, row, Places, Message, Procs, Proc,
         Statuses, Final, Kinds
<1>5. Stored'
  BY DEF IInv, TypeOK, CancelFails, Fault, row, Places, Message, Stored, Procs,
         Proc, Statuses, Final, Kinds
<1>6. MetricsHaveTrades'
  BY DEF IInv, TypeOK, CancelFails, Fault, row, MetricsHaveTrades, Procs, Proc
<1>7. CompletedHasResults'
  BY DEF IInv, TypeOK, CancelFails, Fault, row, CompletedHasResults
<1>8. Served'
  BY DEF IInv, TypeOK, CancelFails, Fault, row, Places, Message, Served, Procs,
         Proc, Statuses, Final, Kinds
<1> QED BY <1>1, <1>2, <1>3, <1>4, <1>5, <1>6, <1>7, <1>8 DEF IInv

-----------------------------------------------------------------------------
LEMMA NextIInv == IInv /\ [Next]_vars => IInv'
<1> SUFFICES ASSUME IInv, [Next]_vars PROVE IInv'
  OBVIOUS
<1>1. CASE RequestStep
  BY <1>1, CreateKeepsIInv, EnqueueKeepsIInv, NoteKeepsIInv, ReloadKeepsIInv,
     StartKeepsIInv, DeleteKeepsIInv, StoreKeepsIInv, FailKeepsIInv
     DEF RequestStep, Work, Procs
<1>2. CASE WorkerStep
  BY <1>2, ReceiveKeepsIInv, DiscardKeepsIInv, StartKeepsIInv, DeleteKeepsIInv,
     StoreKeepsIInv, FailKeepsIInv, CompleteKeepsIInv, SkipDebateKeepsIInv,
     SettleKeepsIInv
     DEF WorkerStep, Work, Procs
<1>3. CASE CancelStep \/ ReadCancel \/ Terminate
  BY <1>3, RevokeKeepsIInv, CommitCancelKeepsIInv, ReadCancelKeepsIInv,
     TerminateKeepsIInv
     DEF CancelStep
<1>4. CASE FaultStep
  BY <1>4, EnqueueFailsKeepsIInv, NoteFailsKeepsIInv, LoseWorkerKeepsIInv,
     TimeLimitKeepsIInv, CancelFailsKeepsIInv, RunFailsKeepsIInv,
     CommitFailsKeepsIInv, FailLostKeepsIInv
     DEF FaultStep
<1>5. CASE UNCHANGED vars
  BY <1>5 DEF vars, row, history, IInv, TypeOK, Created, Places, Message, Stored,
     MetricsHaveTrades, CompletedHasResults, Served
<1> QED BY <1>1, <1>2, <1>3, <1>4, <1>5 DEF Next

\* The inductive invariant holds of every behaviour: who works on a job, and
\* with which results and message, is as backtests.py, runs_service.py and the
\* two tasks leave it, for every number of faults.
THEOREM Invariance == Spec => []IInv
  BY InitIInv, NextIInv, PTL DEF Spec

\* The state of a job is typed in every reachable state.
THEOREM TypeCorrect == Spec => []TypeOK
<1>1. IInv => TypeOK
  BY DEF IInv
<1> QED BY <1>1, Invariance, PTL

\* However many workers are lost, one execution of a worker has its results
\* stored at most, and beside it only that of the request of a backtest.
THEOREM ResultsOfOneExecution == Spec => []OneExecutionPerSide
<1>1. IInv => OneExecutionPerSide
  <2> SUFFICES ASSUME IInv PROVE OneExecutionPerSide
    OBVIOUS
  <2>1. PICK n \in Nat : results \subseteq {0, n}
    BY DEF IInv, Stored
  <2>2. results \ {0} \subseteq {n}
    BY <2>1
  <2>3. Cardinality(results \ {0}) <= Cardinality({n})
    BY <2>2, FS_Singleton, FS_Subset
  <2>4. Cardinality({n}) = 1
    BY FS_Singleton
  <2>5. IsFiniteSet(results \ {0})
    BY <2>2, FS_Singleton, FS_Subset
  <2>6. Cardinality(results \ {0}) <= 1
    BY <2>3, <2>4
  <2>7. kind = "benchmark" => 0 \notin results
    BY DEF IInv, Places
  <2> QED BY <2>6, <2>7 DEF OneExecutionPerSide
<1> QED BY <1>1, Invariance, PTL

\* The metrics a backtest shows are always those of trades it has stored.
THEOREM MetricsAreBacked == Spec => []MetricsHaveTrades
<1>1. IInv => MetricsHaveTrades
  BY DEF IInv
<1> QED BY <1>1, Invariance, PTL

\* A job shown as completed has results, or a skipped benchmark was cancelled.
THEOREM CompletedIsBacked == Spec => []CompletedHasResults
<1>1. IInv => CompletedHasResults
  BY DEF IInv
<1> QED BY <1>1, Invariance, PTL

\* A job that nobody works on has ended once, or a fault has left it.
THEOREM JobsNotStranded == Spec => []NoStrandedJob
<1>1. IInv => NoStrandedJob
  BY DEF IInv, Served, NoStrandedJob, At
<1> QED BY <1>1, Invariance, PTL

\* Nothing but a task that had read the row before overwrites a cancellation.
THEOREM CancellationHolds == Spec => OnlyStartedOverrules
<1>1. IInv /\ [Next]_vars =>
        [status = "cancelled" /\ status' # "cancelled" =>
            ~At("worker", "idle") /\ proc["worker"].seen # "cancelled"]_vars
  <2> SUFFICES ASSUME IInv, Next, status = "cancelled", status' # "cancelled"
               PROVE  ~At("worker", "idle") /\ proc["worker"].seen # "cancelled"
    BY DEF vars, row
  <2>1. kind = "benchmark"
    BY DEF IInv, Places, TypeOK, Kinds
  <2>2. proc["worker"].pc # "idle" => proc["worker"].seen # "cancelled"
    BY DEF IInv, Message, Final
  <2>3. proc["request"].pc \in {"new", "enqueue", "note", "done"}
    BY <2>1 DEF IInv, Places
  <2>4. CASE RequestStep
    <3>1. proc["request"].pc # "new"
      BY DEF IInv, Created
    <3> QED BY <2>1, <2>3, <2>4, <3>1 DEF RequestStep, Create, Enqueue, Note,
               Reload, Work, Start, Delete, Store, Fail, At, row
  <2>5. CASE WorkerStep
    BY <2>2, <2>5 DEF WorkerStep, Receive, Discard, Work, Start, Delete, Store,
       Fail, Complete, SkipDebate, Settle, At, row
  <2>6. CASE CancelStep \/ ReadCancel \/ Terminate
    BY <2>6 DEF CancelStep, Revoke, CommitCancel, ReadCancel, Terminate, End, row
  <2>7. CASE FaultStep
    BY <2>1, <2>7 DEF FaultStep, EnqueueFails, NoteFails, LoseWorker, TimeLimit,
       CancelFails, RunFails, CommitFails, FailLost, row
  <2> QED BY <2>4, <2>5, <2>6, <2>7 DEF Next
<1> QED BY <1>1, Invariance, PTL DEF Spec, OnlyStartedOverrules
=============================================================================
