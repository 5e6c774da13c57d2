--------------------------- MODULE ActiveRowsProofs ---------------------------
(***************************************************************************)
(* Theorems about ActiveRows, for any tables, rows and requests.           *)
(*                                                                         *)
(* A request nobody has overlapped knows the table: its UPDATE has every   *)
(* row in use in hand, and the flag it has loaded is the committed one, so *)
(* what the ORM leaves unwritten is already as it should be.  An           *)
(* activation of a prompt has in any case cleared the flag in memory and   *)
(* writes its own row, whoever overlaps it.                                *)
(***************************************************************************)
EXTENDS ActiveRows, TLAPS

Inserted == {"clear", "lock", "commit"}
Activations == {"activate", "create_active"}

\* What holds of any transaction.
TxFits(t) ==
    /\ tx[t].pc \in Inserted \cup {"insert"} => tx[t].own \in Rows
    /\ tx[t].pc \in {"clear", "lock"} => tx[t].op \in Activations
    /\ tx[t].pc \in Inserted => (tx[t].new <=> tx[t].op \in {"create", "create_active"})
    /\ tx[t].pc \notin Inserted => ~tx[t].new
    /\ tx[t].pc \in {"number", "insert"} => tx[t].op \in {"create", "create_active"}
    /\ tx[t].op \in {"create", "create_active"} => ~tx[t].set
    /\ tx[t].new => tx[t].own \notin Present
    /\ tx[t].pc \in Inserted /\ ~tx[t].new => tx[t].own \in Present
    /\ tx[t].todo \cup tx[t].cleared \subseteq Present
    /\ tx[t].op \notin Activations => tx[t].cleared = {}
    /\ tx[t].pc \notin {"lock", "commit"} => tx[t].cleared = {} /\ tx[t].todo = {}
    /\ kind # "prompt" => tx[t].own \notin tx[t].todo \cup tx[t].cleared
    /\ kind = "prompt" => tx[t].op \in {"create", "activate"}
    /\ kind = "prompt" /\ tx[t].pc \in {"lock", "commit"} => ~tx[t].set

\* No two transactions have inserted the same row.
NewRowsDiffer ==
    \A t, u \in Txs : t # u /\ tx[t].new /\ tx[u].new => tx[t].own # tx[u].own

\* What a transaction nobody has overlapped knows of the table.
AloneKnows(t) ==
    /\ Busy(t)
    /\ Others(t) = {}
    /\ tx[t].op = "activate" /\ tx[t].set => flag[tx[t].own] = "active"
    /\ tx[t].pc = "lock" => InUse \ {tx[t].own} \subseteq tx[t].todo \cup tx[t].cleared
    /\ tx[t].pc = "commit" /\ tx[t].op \in Activations
          => InUse \ {tx[t].own} \subseteq tx[t].cleared

IInv ==
    /\ TypeOK
    /\ \A t \in Txs : TxFits(t)
    /\ NewRowsDiffer
    /\ \A t \in alone : AloneKnows(t)
    /\ SoloActivationStands

-----------------------------------------------------------------------------
(* What one transaction does leaves the facts about the others alone.      *)

\* A transaction that is in progress is the only one that may be alone.
LEMMA AloneIsBusy ==
    ASSUME IInv, NEW t \in Txs, Busy(t)
    PROVE  alone \subseteq {t}
BY DEF IInv, TypeOK, AloneKnows, Others

\* A step of t that commits nothing: what is to be shown is about t.
LEMMA StepFrame ==
    ASSUME IInv, NEW t \in Txs, Busy(t),
           tx' \in [Txs -> Tx],
           \A u \in Txs \ {t} : tx'[u] = tx[u],
           UNCHANGED <<kind, flag, begun, stands>>,
           alone' \subseteq alone,
           TxFits(t)',
           t \in alone' => AloneKnows(t)',
           tx'[t].new => \/ tx[t].new /\ tx'[t].own = tx[t].own
                         \/ Free(t, tx'[t].own)
    PROVE  IInv'
<1>1. TypeOK'
    BY DEF IInv, TypeOK
<1>2. Present' = Present /\ InUse' = InUse
    BY DEF Present, InUse
<1>3. ASSUME NEW u \in Txs PROVE TxFits(u)'
    <2>1. CASE u = t
        BY <2>1
    <2>2. CASE u # t
        BY <1>2, <2>2 DEF IInv, TxFits
    <2>3. QED BY <2>1, <2>2
<1>4. NewRowsDiffer'
    <2>1. ASSUME NEW u \in Txs, u # t, tx'[t].new, tx'[u].new
          PROVE  tx'[t].own # tx'[u].own
        <3>1. tx'[u] = tx[u] /\ TxFits(u)
            BY <2>1 DEF IInv
        <3>2. u \in Others(t) /\ tx[u].own \in Held(u)
            BY <2>1, <3>1 DEF TxFits, Others, Busy, Held, Inserted
        <3>3. QED BY <2>1, <3>1, <3>2 DEF IInv, NewRowsDiffer, Free
    <2>2. ASSUME NEW u \in Txs, NEW v \in Txs, u # v, tx'[u].new, tx'[v].new
          PROVE  tx'[u].own # tx'[v].own
        <3>1. CASE u = t
            BY <2>1, <2>2, <3>1
        <3>2. CASE v = t
            BY <2>1, <2>2, <3>2
        <3>3. CASE u # t /\ v # t
            BY <2>2, <3>3 DEF IInv, NewRowsDiffer
        <3>4. QED BY <3>1, <3>2, <3>3
    <2>3. QED BY <2>2 DEF NewRowsDiffer
<1>5. \A u \in alone' : AloneKnows(u)'
    BY AloneIsBusy
<1>6. SoloActivationStands'
    BY <1>2 DEF IInv, SoloActivationStands
<1>7. QED BY <1>1, <1>3, <1>4, <1>5, <1>6 DEF IInv

\* A request that is refused, or whose transaction is ended.
LEMMA EndKeeps ==
    ASSUME IInv, NEW t \in Txs, Busy(t), End(t),
           UNCHANGED <<kind, flag, begun, stands>>
    PROVE  IInv'
<1>1. tx' = [tx EXCEPT ![t] = IdleTx] /\ alone' = alone \ {t}
    BY DEF End
<1>2. IdleTx \in Tx
    BY DEF IdleTx, Begun, Tx
<1>3. tx' \in [Txs -> Tx] /\ tx'[t] = IdleTx /\ \A u \in Txs \ {t} : tx'[u] = tx[u]
    BY <1>1, <1>2 DEF IInv, TypeOK
<1>4. TxFits(t)'
    <2>1. /\ tx'[t].pc = "idle" /\ tx'[t].op = "create" /\ tx'[t].new = FALSE
          /\ tx'[t].cleared = {} /\ tx'[t].todo = {} /\ tx'[t].set = FALSE
        BY <1>3 DEF IdleTx, Begun
    <2>2. QED BY <2>1 DEF TxFits, Inserted, Activations
<1>5. tx'[t].new = FALSE
    BY <1>3 DEF IdleTx, Begun
<1>6. QED BY <1>1, <1>3, <1>4, <1>5, StepFrame

LEMMA EnterKeeps ==
    ASSUME IInv, NEW t \in Txs,
           NEW p \in {"number", "clear", "commit"},
           NEW o \in {"create", "activate", "create_active", "unset"},
           NEW w \in Rows \cup {None}, NEW b \in BOOLEAN,
           Enter(t, Begun(p, o, w, b)),
           p \in Inserted => w \in Present /\ (b => flag[w] = "active"),
           p = "clear" => o = "activate",
           p = "commit" => o = "unset",
           p = "number" <=> o \in {"create", "create_active"},
           p = "number" => ~b,
           kind = "prompt" => o \in {"create", "activate"}
    PROVE  IInv'
<1> DEFINE state == Begun(p, o, w, b)
<1>0. /\ state \in Tx /\ state.pc = p /\ state.op = o /\ state.own = w
      /\ state.set = b /\ ~state.new /\ state.todo = {} /\ state.cleared = {}
    BY DEF Begun, Tx
<1>1. /\ tx' = [tx EXCEPT ![t] = state] /\ begun' = begun + 1
      /\ UNCHANGED <<kind, flag, stands>> /\ ~Busy(t) /\ begun < MaxTxs
      /\ alone' = IF Others(t) = {} THEN {t} ELSE {}
    BY DEF Enter
<1> HIDE DEF state
<1>2. /\ tx' \in [Txs -> Tx] /\ \A u \in Txs \ {t} : tx'[u] = tx[u]
      /\ tx'[t].pc = p /\ tx'[t].op = o /\ tx'[t].own = w /\ tx'[t].set = b
      /\ ~tx'[t].new /\ tx'[t].todo = {} /\ tx'[t].cleared = {}
    BY <1>0, <1>1 DEF IInv, TypeOK
<1>3. TypeOK'
    BY <1>1, <1>2, ActiveRowsAssumption DEF IInv, TypeOK
<1>4. Present' = Present /\ InUse' = InUse /\ Present \subseteq Rows
    BY <1>1 DEF Present, InUse
<1>5. ASSUME NEW u \in Txs PROVE TxFits(u)'
    <2>1. CASE u = t
        BY <1>1, <1>2, <1>4, <2>1 DEF TxFits, Inserted, Activations
    <2>2. CASE u # t
        BY <1>1, <1>2, <1>4, <2>2 DEF IInv, TxFits
    <2>3. QED BY <2>1, <2>2
<1>6. NewRowsDiffer'
    BY <1>2 DEF IInv, NewRowsDiffer
<1>7. ASSUME t \in alone' PROVE AloneKnows(t)'
    <2>1. Others(t)' = {}
        BY <1>1, <1>2, <1>7 DEF Others, Busy
    <2>2. QED BY <1>1, <1>2, <2>1 DEF AloneKnows, Busy, Inserted, Activations
<1>8. SoloActivationStands'
    BY <1>1, <1>4 DEF IInv, SoloActivationStands
<1>9. QED BY <1>1, <1>3, <1>5, <1>6, <1>7, <1>8 DEF IInv

-----------------------------------------------------------------------------
(* Requests begin.                                                         *)

LEMMA LoadKeeps ==
    ASSUME IInv, NEW t \in Txs, NEW r \in Rows, Load(t, r)
    PROVE  IInv'
<1>1. PICK b \in BOOLEAN : b <=> flag[r] = "active"
    OBVIOUS
<1>2. r \in Present /\ Enter(t, Begun("clear", "activate", r, b))
    BY <1>1 DEF Load
<1>3. QED BY <1>1, <1>2, EnterKeeps DEF Inserted

LEMMA LoadToUnsetKeeps ==
    ASSUME IInv, NEW t \in Txs, NEW r \in Rows, LoadToUnset(t, r)
    PROVE  IInv'
<1>1. PICK b \in BOOLEAN : b <=> flag[r] = "active"
    OBVIOUS
<1>2. kind = "account" /\ r \in Present /\ Enter(t, Begun("commit", "unset", r, b))
    BY <1>1 DEF LoadToUnset
<1>3. QED BY <1>1, <1>2, EnterKeeps DEF Inserted

LEMMA StartCreateKeeps ==
    ASSUME IInv, NEW t \in Txs, NEW op \in {"create", "create_active"},
           StartCreate(t, op)
    PROVE  IInv'
<1>1. (kind = "prompt" => op = "create") /\ Enter(t, Begun("number", op, None, FALSE))
    BY DEF StartCreate
<1>2. QED BY <1>1, EnterKeeps DEF Inserted

-----------------------------------------------------------------------------
(* Steps that commit nothing.                                              *)

LEMMA NumberKeeps ==
    ASSUME IInv, NEW t \in Txs, Number(t)
    PROVE  IInv'
<1>1. PICK r \in Rows \ Taken(t) :
          tx' = [tx EXCEPT ![t].pc = "insert", ![t].own = r]
    BY DEF Number
<1>2. tx[t].pc = "number" /\ UNCHANGED <<kind, flag, begun, alone, stands>>
    BY DEF Number, history
<1>3. /\ tx' \in [Txs -> Tx] /\ \A u \in Txs \ {t} : tx'[u] = tx[u]
      /\ tx'[t].pc = "insert" /\ tx'[t].own = r
      /\ tx'[t].op = tx[t].op /\ tx'[t].set = tx[t].set /\ tx'[t].new = tx[t].new
      /\ tx'[t].todo = tx[t].todo /\ tx'[t].cleared = tx[t].cleared
    BY <1>1 DEF IInv, TypeOK, Tx
<1>4. TxFits(t) /\ Present' = Present
    BY <1>2 DEF IInv, Present
<1>5. TxFits(t)'
    BY <1>2, <1>3, <1>4 DEF TxFits, Inserted, Activations
<1>6. ASSUME t \in alone' PROVE AloneKnows(t)'
    BY <1>2, <1>3, <1>4, <1>6
    DEF IInv, AloneKnows, Busy, Others, TxFits
<1>7. Busy(t) /\ ~tx'[t].new
    BY <1>2, <1>3, <1>4 DEF Busy, TxFits, Inserted
<1>8. QED BY <1>2, <1>3, <1>5, <1>6, <1>7, StepFrame

LEMMA InsertKeeps ==
    ASSUME IInv, NEW t \in Txs, Insert(t)
    PROVE  IInv'
<1>1. tx[t].pc = "insert" /\ Free(t, tx[t].own) /\ Busy(t)
      /\ UNCHANGED <<kind, flag, begun, stands>>
    BY DEF Insert, Busy
<1>2. CASE tx[t].own \in Present
    BY <1>1, <1>2, EndKeeps DEF Insert
<1>3. CASE tx[t].own \notin Present
    <2>1. tx' = [tx EXCEPT ![t].new = TRUE, ![t].pc =
                     IF tx[t].op = "create" THEN "commit" ELSE "clear"]
          /\ UNCHANGED alone
        BY <1>3 DEF Insert
    <2> DEFINE state == [tx[t] EXCEPT !.new = TRUE, !.pc =
                             IF tx[t].op = "create" THEN "commit" ELSE "clear"]
    <2>2. tx[t] \in Tx /\ tx \in [Txs -> Tx]
        BY DEF IInv, TypeOK
    <2>3. /\ state \in Tx
          /\ state.pc = (IF tx[t].op = "create" THEN "commit" ELSE "clear")
          /\ state.new = TRUE /\ state.own = tx[t].own
          /\ state.op = tx[t].op /\ state.set = tx[t].set
          /\ state.todo = tx[t].todo /\ state.cleared = tx[t].cleared
        BY <2>2 DEF Tx
    <2>4. tx' = [tx EXCEPT ![t] = state]
        BY <2>1
    <2> HIDE DEF state
    <2>5. /\ tx' \in [Txs -> Tx] /\ \A u \in Txs \ {t} : tx'[u] = tx[u]
          /\ tx'[t].pc = (IF tx[t].op = "create" THEN "commit" ELSE "clear")
          /\ tx'[t].new = TRUE /\ tx'[t].own = tx[t].own
          /\ tx'[t].op = tx[t].op /\ tx'[t].set = tx[t].set
          /\ tx'[t].todo = tx[t].todo /\ tx'[t].cleared = tx[t].cleared
        BY <2>2, <2>3, <2>4
    <2>6. /\ tx[t].op \in {"create", "create_active"} /\ tx[t].own \in Rows
          /\ tx[t].todo = {} /\ tx[t].cleared = {}
          /\ kind = "prompt" => tx[t].op = "create"
          /\ ~tx[t].set /\ Present' = Present
        BY <1>1 DEF IInv, TxFits, Inserted, Present
    <2>7. TxFits(t)'
        <3>1. tx'[t].pc \in {"clear", "commit"}
            BY <2>5
        <3>2. tx'[t].pc = "clear" => tx'[t].op = "create_active"
            BY <2>5, <2>6
        <3>3. ~tx'[t].set
            BY <2>5, <2>6
        <3>4. CASE tx[t].op = "create"
            BY <1>1, <1>3, <2>5, <2>6, <3>3, <3>4 DEF TxFits, Inserted, Activations
        <3>5. CASE tx[t].op = "create_active"
            BY <1>1, <1>3, <2>5, <2>6, <3>3, <3>5 DEF TxFits, Inserted, Activations
        <3>6. QED BY <2>6, <3>4, <3>5
    <2>8. ASSUME t \in alone' PROVE AloneKnows(t)'
        <3>1. AloneKnows(t)
            BY <2>1, <2>8 DEF IInv
        <3>2. Others(t)' = Others(t) /\ Busy(t)'
            BY <2>5 DEF Others, Busy
        <3>3. QED BY <1>1, <2>5, <2>6, <3>1, <3>2 DEF AloneKnows, Activations
    <2>9. QED BY <1>1, <2>1, <2>5, <2>7, <2>8, StepFrame
<1>4. QED BY <1>2, <1>3

\* Of the rows in use the UPDATE misses none but its own, and of others than
\* prompts it never takes its own.
LEMMA MatchesUse ==
    ASSUME IInv, NEW t \in Txs
    PROVE  /\ Matches(t) \subseteq Present /\ Present \subseteq Rows
           /\ InUse \ {tx[t].own} \subseteq Matches(t)
           /\ kind # "prompt" => tx[t].own \notin Matches(t)
<1>1. kind \in {"prompt", "skill", "account"}
    BY ActiveRowsAssumption DEF IInv, TypeOK, TableKinds
<1>2. InUse \subseteq Present /\ Present \subseteq Rows
    BY DEF InUse, Present
<1>3. CASE kind = "prompt"
    BY <1>2, <1>3 DEF Matches
<1>4. CASE kind = "skill"
    BY <1>2, <1>4 DEF Matches
<1>5. CASE kind = "account"
    BY <1>2, <1>5 DEF Matches
<1>6. QED BY <1>1, <1>3, <1>4, <1>5

LEMMA ClearKeeps ==
    ASSUME IInv, NEW t \in Txs, Clear(t)
    PROVE  IInv'
<1>1. tx[t].pc = "clear" /\ Busy(t)
      /\ UNCHANGED <<kind, flag, begun, alone, stands>>
    BY DEF Clear, Busy, history
<1>2. /\ tx' \in [Txs -> Tx] /\ \A u \in Txs \ {t} : tx'[u] = tx[u]
      /\ tx'[t].pc = "lock" /\ tx'[t].todo = Matches(t)
      /\ tx'[t].set = (IF kind = "prompt" THEN FALSE ELSE tx[t].set)
      /\ tx'[t].own = tx[t].own /\ tx'[t].op = tx[t].op
      /\ tx'[t].new = tx[t].new /\ tx'[t].cleared = tx[t].cleared
    <2> DEFINE state == [tx[t] EXCEPT !.pc = "lock", !.todo = Matches(t),
                             !.set = IF kind = "prompt" THEN FALSE ELSE tx[t].set]
    <2>1. tx[t] \in Tx /\ tx \in [Txs -> Tx] /\ Matches(t) \subseteq Rows
        BY MatchesUse DEF IInv, TypeOK
    <2>2. /\ state \in Tx /\ state.pc = "lock" /\ state.todo = Matches(t)
          /\ state.set = (IF kind = "prompt" THEN FALSE ELSE tx[t].set)
          /\ state.own = tx[t].own /\ state.op = tx[t].op
          /\ state.new = tx[t].new /\ state.cleared = tx[t].cleared
        BY <2>1 DEF Tx
    <2>3. tx' = [tx EXCEPT ![t] = state]
        BY DEF Clear
    <2> HIDE DEF state
    <2>4. QED BY <2>1, <2>2, <2>3
<1>3. TxFits(t) /\ Present' = Present /\ InUse' = InUse
    BY <1>1 DEF IInv, Present, InUse
<1>4. TxFits(t)'
    BY <1>1, <1>2, <1>3, MatchesUse DEF TxFits, Inserted, Activations
<1>5. ASSUME t \in alone' PROVE AloneKnows(t)'
    <2>1. AloneKnows(t)
        BY <1>1, <1>5 DEF IInv
    <2>2. Others(t)' = Others(t) /\ Busy(t)'
        BY <1>2 DEF Others, Busy
    <2>3. QED BY <1>1, <1>2, <1>3, <2>1, <2>2, MatchesUse DEF AloneKnows
<1>6. QED BY <1>1, <1>2, <1>4, <1>5, StepFrame

LEMMA LockKeeps ==
    ASSUME IInv, NEW t \in Txs, NEW r \in Rows, Lock(t, r)
    PROVE  IInv'
<1>1. tx[t].pc = "lock" /\ r \in tx[t].todo /\ Busy(t)
      /\ UNCHANGED <<kind, flag, begun, alone, stands>>
    BY DEF Lock, Busy, history
<1>2. /\ tx' \in [Txs -> Tx] /\ \A u \in Txs \ {t} : tx'[u] = tx[u]
      /\ tx'[t].pc = "lock" /\ tx'[t].todo = tx[t].todo \ {r}
      /\ tx'[t].cleared = (IF r \in Matches(t) THEN tx[t].cleared \cup {r}
                           ELSE tx[t].cleared)
      /\ tx'[t].set = tx[t].set /\ tx'[t].own = tx[t].own
      /\ tx'[t].op = tx[t].op /\ tx'[t].new = tx[t].new
    <2> DEFINE grown == IF r \in Matches(t) THEN tx[t].cleared \cup {r}
                        ELSE tx[t].cleared
               state == [tx[t] EXCEPT !.todo = tx[t].todo \ {r}, !.cleared = grown]
    <2>1. tx[t] \in Tx /\ tx \in [Txs -> Tx]
        BY DEF IInv, TypeOK
    <2>2. grown \in SUBSET Rows /\ tx[t].todo \ {r} \in SUBSET Rows
        BY <2>1 DEF Tx
    <2>3. tx' = [tx EXCEPT ![t] = state]
        BY DEF Lock
    <2>4. /\ state \in Tx /\ state.pc = tx[t].pc
          /\ state.todo = tx[t].todo \ {r} /\ state.cleared = grown
          /\ state.set = tx[t].set /\ state.own = tx[t].own
          /\ state.op = tx[t].op /\ state.new = tx[t].new
        <3> HIDE DEF grown
        <3>1. QED BY <2>1, <2>2 DEF Tx
    <2> HIDE DEF state
    <2>5. QED BY <1>1, <2>1, <2>3, <2>4
<1>3. TxFits(t) /\ Present' = Present /\ InUse' = InUse
    BY <1>1 DEF IInv, Present, InUse
<1>4. TxFits(t)'
    BY <1>1, <1>2, <1>3 DEF TxFits, Inserted, Activations
<1>5. ASSUME t \in alone' PROVE AloneKnows(t)'
    <2>1. AloneKnows(t)
        BY <1>1, <1>5 DEF IInv
    <2>2. Others(t)' = Others(t) /\ Busy(t)'
        BY <1>1, <1>2 DEF Others, Busy
    <2>3. InUse \ {tx[t].own} \subseteq tx'[t].todo \cup tx'[t].cleared
        BY <1>1, <1>2, <2>1, MatchesUse DEF AloneKnows
    <2>4. QED BY <1>1, <1>2, <1>3, <2>1, <2>2, <2>3 DEF AloneKnows
<1>6. QED BY <1>1, <1>2, <1>4, <1>5, StepFrame

LEMMA ClearedKeeps ==
    ASSUME IInv, NEW t \in Txs, Cleared(t)
    PROVE  IInv'
<1>1. tx[t].pc = "lock" /\ tx[t].todo = {} /\ Busy(t)
      /\ UNCHANGED <<kind, flag, begun, alone, stands>>
    BY DEF Cleared, Busy, history
<1>2. /\ tx' \in [Txs -> Tx] /\ \A u \in Txs \ {t} : tx'[u] = tx[u]
      /\ tx'[t].pc = "commit" /\ tx'[t].todo = tx[t].todo
      /\ tx'[t].cleared = tx[t].cleared
      /\ tx'[t].set = tx[t].set /\ tx'[t].own = tx[t].own
      /\ tx'[t].op = tx[t].op /\ tx'[t].new = tx[t].new
    BY DEF Cleared, Goto, IInv, TypeOK, Tx
<1>3. TxFits(t) /\ Present' = Present /\ InUse' = InUse
    BY <1>1 DEF IInv, Present, InUse
<1>4. TxFits(t)'
    BY <1>1, <1>2, <1>3 DEF TxFits, Inserted, Activations
<1>5. ASSUME t \in alone' PROVE AloneKnows(t)'
    <2>1. AloneKnows(t)
        BY <1>1, <1>5 DEF IInv
    <2>2. Others(t)' = Others(t) /\ Busy(t)'
        BY <1>1, <1>2 DEF Others, Busy
    <2>3. QED BY <1>1, <1>2, <1>3, <2>1, <2>2 DEF AloneKnows
<1>6. QED BY <1>1, <1>2, <1>4, <1>5, StepFrame

LEMMA NoNumberKeeps ==
    ASSUME IInv, NEW t \in Txs, NoNumber(t)
    PROVE  IInv'
BY EndKeeps DEF NoNumber, Busy

LEMMA VictimKeeps ==
    ASSUME IInv, NEW t \in Txs, Victim(t)
    PROVE  IInv'
<1>1. Busy(t)
    BY DEF Victim, WaitsFor, Busy
<1>2. QED BY <1>1, EndKeeps DEF Victim

-----------------------------------------------------------------------------
(* The commit.                                                             *)

\* What the commit makes of each row.
LEMMA CommitFlags ==
    ASSUME IInv, NEW t \in Txs, Commit(t)
    PROVE  /\ flag' \in [Rows -> {"absent", "inactive", "active"}]
           /\ Present' = Present \cup (IF tx[t].new THEN {tx[t].own} ELSE {})
           /\ \A r \in Rows : r # tx[t].own =>
                 (flag'[r] = "active" <=> flag[r] = "active" /\ r \notin tx[t].cleared)
           /\ flag'[tx[t].own] =
                 IF Writes(t) THEN Own(t)
                 ELSE IF tx[t].own \in tx[t].cleared THEN "inactive" ELSE flag[tx[t].own]
<1>1. /\ flag \in [Rows -> {"absent", "inactive", "active"}]
      /\ tx[t].pc = "commit" /\ TxFits(t)
    BY DEF IInv, TypeOK, Commit
<1>2. /\ tx[t].own \in Rows /\ tx[t].cleared \subseteq Present
      /\ tx[t].new => tx[t].own \notin Present
      /\ ~tx[t].new => tx[t].own \in Present
      /\ Own(t) \in {"inactive", "active"}
      /\ tx[t].new => Writes(t)
    BY <1>1 DEF TxFits, Inserted, Own, Writes
<1>3. flag' = [r \in Rows |->
           IF r = tx[t].own /\ Writes(t) THEN Own(t)
           ELSE IF r \in tx[t].cleared THEN "inactive" ELSE flag[r]]
    BY DEF Commit
<1> HIDE DEF Own, Writes
<1>4. flag' \in [Rows -> {"absent", "inactive", "active"}]
    BY <1>1, <1>2, <1>3
<1>5. \A r \in Rows : r # tx[t].own =>
          (flag'[r] = "active" <=> flag[r] = "active" /\ r \notin tx[t].cleared)
    BY <1>1, <1>3
<1>6. flag'[tx[t].own] =
          IF Writes(t) THEN Own(t)
          ELSE IF tx[t].own \in tx[t].cleared THEN "inactive" ELSE flag[tx[t].own]
    BY <1>2, <1>3
<1>7. \A r \in Rows : flag'[r] # "absent" <=>
          flag[r] # "absent" \/ (tx[t].new /\ r = tx[t].own)
    <2>1. ASSUME NEW r \in Rows, r = tx[t].own
          PROVE  flag'[r] # "absent" /\ (flag[r] # "absent" \/ tx[t].new)
        BY <1>2, <1>6, <2>1 DEF Present
    <2>2. ASSUME NEW r \in Rows, r # tx[t].own
          PROVE  flag'[r] # "absent" <=> flag[r] # "absent"
        BY <1>2, <1>3, <2>2 DEF Present
    <2>3. QED BY <2>1, <2>2
<1>8. Present' = Present \cup (IF tx[t].new THEN {tx[t].own} ELSE {})
    BY <1>2, <1>7 DEF Present
<1>9. QED BY <1>4, <1>5, <1>6, <1>8

\* The commit leaves a row in use: its own, or of a request that was alone and
\* has nothing to write, the one it has found in use.
LEMMA CommitStands ==
    ASSUME IInv, NEW t \in Txs, Commit(t)
    PROVE  SoloActivationStands'
<1>1. /\ tx[t].pc = "commit" /\ TxFits(t) /\ SoloActivationStands
      /\ stands' = IF tx[t].op = "create" THEN stands
                   ELSE IF t \in alone /\ Own(t) = "active" THEN tx[t].own ELSE None
    BY DEF IInv, Commit
<1>2. tx[t].own \in Rows /\ (tx[t].new <=> tx[t].op \in {"create", "create_active"})
    BY <1>1 DEF TxFits, Inserted
<1>3. CASE tx[t].op = "create"
    <2>1. /\ tx[t].new /\ Own(t) = "inactive" /\ Writes(t) /\ tx[t].cleared = {}
          /\ flag[tx[t].own] # "active" /\ stands' = stands
        BY <1>1, <1>2, <1>3 DEF Own, Writes, TxFits, Activations, Present
    <2>2. flag'[tx[t].own] = "inactive"
        BY <2>1, CommitFlags
    <2>3. InUse' = InUse
        BY <2>1, <2>2, CommitFlags DEF InUse
    <2>4. QED BY <1>1, <2>1, <2>3 DEF SoloActivationStands
<1>4. CASE tx[t].op # "create" /\ ~(t \in alone /\ Own(t) = "active")
    BY <1>1, <1>4 DEF SoloActivationStands
<1>5. CASE tx[t].op # "create" /\ t \in alone /\ Own(t) = "active"
    <2>1. AloneKnows(t) /\ stands' = tx[t].own
        BY <1>1, <1>5 DEF IInv
    <2>2. tx[t].op \in Activations
        BY <1>5 DEF Own, Activations, IInv, TypeOK, Tx
    <2>3. InUse \ {tx[t].own} \subseteq tx[t].cleared
        BY <1>1, <2>1, <2>2 DEF AloneKnows
    <2>4. flag'[tx[t].own] = "active"
        <3>1. CASE Writes(t)
            BY <1>5, <3>1, CommitFlags
        <3>2. CASE ~Writes(t)
            <4>1. ~tx[t].new /\ tx[t].set
                BY <1>5, <3>2 DEF Writes
            <4>2. tx[t].op = "activate" /\ kind # "prompt"
                BY <1>1, <1>2, <2>2, <4>1 DEF TxFits, Activations
            <4>3. flag[tx[t].own] = "active" /\ tx[t].own \notin tx[t].cleared
                BY <1>1, <2>1, <4>1, <4>2 DEF AloneKnows, TxFits
            <4>4. QED BY <3>2, <4>3, CommitFlags
        <3>3. QED BY <3>1, <3>2
    <2>5. InUse' = {tx[t].own}
        BY <1>2, <2>3, <2>4, CommitFlags DEF InUse
    <2>6. QED BY <2>1, <2>5 DEF SoloActivationStands
<1>6. QED BY <1>3, <1>4, <1>5

LEMMA CommitKeeps ==
    ASSUME IInv, NEW t \in Txs, Commit(t)
    PROVE  IInv'
<1>1. /\ tx' = [tx EXCEPT ![t] = IdleTx] /\ alone' = alone \ {t}
      /\ tx[t].pc = "commit" /\ Busy(t) /\ UNCHANGED <<kind, begun>>
      /\ TxFits(t) /\ tx[t].own \in Rows
    BY DEF Commit, End, Busy, IInv, TxFits, Inserted
<1>2. IdleTx \in Tx
    BY DEF IdleTx, Begun, Tx
<1>3. tx' \in [Txs -> Tx] /\ tx'[t] = IdleTx /\ \A u \in Txs \ {t} : tx'[u] = tx[u]
    BY <1>1, <1>2 DEF IInv, TypeOK
<1>4. /\ tx'[t].pc = "idle" /\ tx'[t].op = "create" /\ tx'[t].new = FALSE
      /\ tx'[t].cleared = {} /\ tx'[t].todo = {} /\ tx'[t].set = FALSE
    BY <1>3 DEF IdleTx, Begun
<1>5. stands' \in Rows \cup {None}
    BY <1>1 DEF Commit, IInv, TypeOK
<1>6. TypeOK'
    BY <1>1, <1>3, <1>5, CommitFlags DEF IInv, TypeOK
<1>7. ASSUME NEW u \in Txs PROVE TxFits(u)'
    <2>1. CASE u = t
        BY <1>4, <2>1 DEF TxFits, Inserted, Activations
    <2>2. CASE u # t
        <3>1. tx'[u] = tx[u] /\ TxFits(u)
            BY <1>3, <2>2 DEF IInv
        <3>2. Present \subseteq Present'
            BY CommitFlags
        <3>3. tx[u].new => tx[u].own \notin Present'
            BY <2>2, <3>1, CommitFlags DEF IInv, NewRowsDiffer, TxFits
        <3>4. QED BY <1>1, <3>1, <3>2, <3>3 DEF TxFits
    <2>3. QED BY <2>1, <2>2
<1>8. NewRowsDiffer'
    BY <1>3, <1>4 DEF IInv, NewRowsDiffer
<1>9. \A u \in alone' : AloneKnows(u)'
    BY <1>1, AloneIsBusy
<1>10. QED BY <1>6, <1>7, <1>8, <1>9, CommitStands DEF IInv

-----------------------------------------------------------------------------
LEMMA InitEstablishes == Init => IInv
<1> SUFFICES ASSUME Init PROVE IInv
    OBVIOUS
<1>1. IdleTx \in Tx
    BY DEF IdleTx, Begun, Tx
<1>2. TypeOK
    BY <1>1, ActiveRowsAssumption DEF Init, TypeOK
<1>3. ASSUME NEW t \in Txs PROVE TxFits(t)
    <2>1. /\ tx[t].pc = "idle" /\ tx[t].op = "create" /\ tx[t].new = FALSE
          /\ tx[t].cleared = {} /\ tx[t].todo = {} /\ tx[t].set = FALSE
        BY DEF Init, IdleTx, Begun
    <2>2. QED BY <2>1 DEF TxFits, Inserted, Activations
<1>4. \A t \in Txs : tx[t].new = FALSE
    BY DEF Init, IdleTx, Begun
<1>5. QED BY <1>2, <1>3, <1>4 DEF Init, IInv, NewRowsDiffer, SoloActivationStands

LEMMA StepKeeps == IInv /\ [Next]_vars => IInv'
<1> SUFFICES ASSUME IInv, [Next]_vars PROVE IInv'
    OBVIOUS
<1>1. ASSUME NEW t \in Txs, Start(t) PROVE IInv'
    BY <1>1, LoadKeeps, LoadToUnsetKeeps, StartCreateKeeps DEF Start
<1>2. ASSUME NEW t \in Txs, Step(t) PROVE IInv'
    BY <1>2, NumberKeeps, NoNumberKeeps, InsertKeeps, ClearKeeps, LockKeeps,
       ClearedKeeps, CommitKeeps, VictimKeeps DEF Step
<1>3. CASE UNCHANGED vars
    BY <1>3 DEF vars, history, IInv, TypeOK, TxFits, NewRowsDiffer, AloneKnows,
                SoloActivationStands, Busy, Others, Present, InUse
<1>4. QED BY <1>1, <1>2, <1>3 DEF Next

\* The inductive invariant holds of every state of the specification.
THEOREM IInvHolds == Spec => []IInv
<1>1. QED BY InitEstablishes, StepKeeps, PTL DEF Spec

\* Types: in particular a version number and a row in use stay those of the
\* table (prompts/registry.py, skills/service.py, trading.py).
THEOREM TypeCorrect == Spec => []TypeOK
<1>1. IInv => TypeOK
    BY DEF IInv
<1>2. QED BY <1>1, IInvHolds, PTL

\* What a request nobody overlaps puts in use is alone in use until the next
\* commit, whatever earlier requests that overlapped have left behind.
THEOREM SoloActivationIsAloneInUse == Spec => []SoloActivationStands
<1>1. IInv => SoloActivationStands
    BY DEF IInv
<1>2. QED BY <1>1, IInvHolds, PTL

-----------------------------------------------------------------------------
(* A prompt stays in use.                                                  *)

\* An activation of a prompt has cleared the flag it holds in memory, so its
\* commit writes its own row; a new prompt takes nothing from the others.
LEMMA CommitOfPrompt ==
    ASSUME IInv, NEW t \in Txs, Commit(t), kind = "prompt", InUse # {}
    PROVE  InUse' # {}
<1>1. tx[t].pc = "commit" /\ TxFits(t) /\ tx[t].own \in Rows
    BY DEF Commit, IInv, TxFits, Inserted
<1>2. CASE tx[t].op = "create"
    <2>1. tx[t].new /\ tx[t].cleared = {} /\ tx[t].own \notin Present
        BY <1>1, <1>2 DEF TxFits, Inserted, Activations
    <2>2. PICK r \in Rows : flag[r] = "active"
        BY DEF InUse
    <2>3. r # tx[t].own
        BY <2>1, <2>2 DEF Present
    <2>4. flag'[r] = "active"
        BY <2>1, <2>2, <2>3, CommitFlags
    <2>5. QED BY <2>4 DEF InUse
<1>3. CASE tx[t].op = "activate"
    <2>1. Writes(t) /\ Own(t) = "active"
        BY <1>1, <1>3 DEF TxFits, Writes, Own
    <2>2. flag'[tx[t].own] = "active"
        BY <2>1, CommitFlags
    <2>3. QED BY <1>1, <2>2 DEF InUse
<1>4. QED BY <1>1, <1>2, <1>3 DEF TxFits

\* An agent whose prompt is in use is never left without one
\* (prompts/registry.py, activate), whatever two activations do to each other.
THEOREM PromptNeverLost == Spec => PromptStaysInUse
<1>1. ASSUME IInv, [Next]_vars
      PROVE  [kind = "prompt" /\ InUse # {} => InUse' # {}]_vars
    <2>1. ASSUME NEW t \in Txs, Commit(t), kind = "prompt", InUse # {}
          PROVE  InUse' # {}
        BY <1>1, <2>1, CommitOfPrompt
    <2>2. ASSUME NEW t \in Txs, Start(t) \/ Step(t), ~Commit(t)
          PROVE  flag' = flag
        BY <2>2 DEF Start, Load, LoadToUnset, StartCreate, Enter, Step, Number,
                    NoNumber, Insert, Clear, Lock, Cleared, Victim
    <2>3. CASE UNCHANGED vars
        BY <2>3
    <2>4. CASE Next /\ flag' = flag
        BY <2>4 DEF InUse
    <2>5. CASE Next /\ flag' # flag
        BY <2>1, <2>2, <2>5 DEF Next
    <2>6. QED BY <1>1, <2>3, <2>4, <2>5
<1>2. QED BY <1>1, IInvHolds, PTL DEF Spec, PromptStaysInUse
=============================================================================
