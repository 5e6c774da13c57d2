------------------------------ MODULE ActiveRows ------------------------------
(***************************************************************************)
(* Tables of which one row is in use: the active version of an agent's     *)
(* prompt, the active version of its skills, the default broker account.   *)
(*                                                                         *)
(*   backend/app/services/prompts/registry.py   create_version, activate   *)
(*   backend/app/services/skills/service.py     create_version, activate   *)
(*   backend/app/api/routes/trading.py          create and update account  *)
(*                                                                         *)
(* Each puts a row in use in one transaction: load it, clear the flag of   *)
(* the other rows with one UPDATE, set the flag of its own, commit.  Two   *)
(* things decide what two such transactions do to each other: PostgreSQL   *)
(* (READ COMMITTED: a statement sees what was committed when it began,     *)
(* waits for rows others have written, and looks at them again), and the   *)
(* ORM, which writes the flag only if it differs from what it has loaded.  *)
(***************************************************************************)
EXTENDS Naturals, FiniteSets

CONSTANTS
    Kinds,          \* the tables looked at
    MaxRow,         \* bound: rows, numbered by version (an account: by id)
    Txs,            \* requests in progress at the same time
    MaxTxs,         \* bound: transactions begun
    None

TableKinds == {"prompt", "skill", "account"}
Rows == 1..MaxRow

ASSUME ActiveRowsAssumption ==
    /\ Kinds \subseteq TableKinds
    /\ MaxRow \in Nat /\ MaxTxs \in Nat
    /\ IsFiniteSet(Txs)
    /\ None \notin Rows /\ None \notin Txs

VARIABLES
    kind,       \* which of the three tables this is
    flag,       \* committed: no row, or whether it is in use
    tx,         \* transactions
    begun,      \* transactions begun (bounded)
    alone,      \* history: transactions no other has overlapped
    stands      \* history: the row put in use by the last commit that
                \* changed flags, if its transaction was alone

history == <<alone, stands>>
vars == <<kind, flag, tx, begun, history>>

Tx == [pc: {"idle", "number", "insert", "clear", "lock", "commit"},
       op: {"create", "activate", "create_active", "unset"},
       own: Rows \cup {None},
       set: BOOLEAN,            \* the flag of its own row, in memory
       new: BOOLEAN,            \* it has inserted its own row
       todo: SUBSET Rows,       \* rows its UPDATE has still to write
       cleared: SUBSET Rows]    \* rows its UPDATE has written

Begun(pc, op, own, set) ==
    [pc |-> pc, op |-> op, own |-> own, set |-> set,
     new |-> FALSE, todo |-> {}, cleared |-> {}]

IdleTx == Begun("idle", "create", None, FALSE)

Present == {r \in Rows : flag[r] # "absent"}
InUse == {r \in Rows : flag[r] = "active"}

\* seed_defaults inserts version 1 in use; an agent may have no version, and of
\* accounts none may be the default.
Init ==
    /\ kind \in Kinds
    /\ flag \in [Rows -> {"absent", "inactive", "active"}]
    /\ \E n \in 0..MaxRow : Present = 1..n
    /\ Cardinality(InUse) <= 1
    /\ kind # "account" /\ Present # {} => InUse # {}
    /\ tx = [t \in Txs |-> IdleTx]
    /\ begun = 0
    /\ alone = {}
    /\ stands = None

TypeOK ==
    /\ kind \in Kinds
    /\ flag \in [Rows -> {"absent", "inactive", "active"}]
    /\ tx \in [Txs -> Tx]
    /\ begun \in 0..MaxTxs
    /\ alone \subseteq Txs
    /\ stands \in Rows \cup {None}

-----------------------------------------------------------------------------
Busy(t) == tx[t].pc # "idle"
Others(t) == {u \in Txs \ {t} : Busy(u)}

\* Rows t has written and not yet committed, which others must wait for.
Held(t) == tx[t].cleared \cup (IF tx[t].new THEN {tx[t].own} ELSE {})
Free(t, r) == \A u \in Others(t) : r \notin Held(u)

End(t) ==
    /\ tx' = [tx EXCEPT ![t] = IdleTx]
    /\ alone' = alone \ {t}

Goto(t, pc) == tx' = [tx EXCEPT ![t].pc = pc]

-----------------------------------------------------------------------------
Enter(t, state) ==
    /\ ~Busy(t)
    /\ begun < MaxTxs
    /\ begun' = begun + 1
    /\ tx' = [tx EXCEPT ![t] = state]
    /\ alone' = IF Others(t) = {} THEN {t} ELSE {}
    /\ UNCHANGED <<kind, flag, stands>>

\* activate, update_account: load the row.
Load(t, r) ==
    /\ r \in Present
    /\ Enter(t, Begun("clear", "activate", r, flag[r] = "active"))

\* update_account may also take the default from an account, and clears no other.
LoadToUnset(t, r) ==
    /\ kind = "account"
    /\ r \in Present
    /\ Enter(t, Begun("commit", "unset", r, flag[r] = "active"))

\* create_version, create_account: with or without putting the row in use.
StartCreate(t, op) ==
    /\ kind = "prompt" => op = "create"
    /\ Enter(t, Begun("number", op, None, FALSE))

\* The version is one more than the highest; an id is the next of a sequence.
Taken(t) ==
    Present \cup (IF kind = "account" THEN {tx[u].own : u \in Others(t)} ELSE {})

Number(t) ==
    /\ tx[t].pc = "number"
    /\ \E r \in Rows \ Taken(t) :
          /\ \A q \in Rows \ Taken(t) : r <= q
          /\ tx' = [tx EXCEPT ![t].pc = "insert", ![t].own = r]
    /\ UNCHANGED <<kind, flag, begun, history>>

\* More rows than the bound allows: the request is not followed further.
NoNumber(t) ==
    /\ tx[t].pc = "number"
    /\ Rows \subseteq Taken(t)
    /\ End(t)
    /\ UNCHANGED <<kind, flag, begun, stands>>

\* Mutant: a number that is taken when the insert comes is not refused.
InsertWhenFree(t) ==
    /\ tx[t].pc = "insert"
    /\ Free(t, tx[t].own)
    /\ tx[t].own \notin Present
    /\ tx' = [tx EXCEPT ![t].new = TRUE, ![t].pc =
                  IF tx[t].op = "create" THEN "commit" ELSE "clear"]
    /\ UNCHANGED <<kind, flag, begun, history>>

\* The unique constraint of (agent, version): the second insert waits for the
\* first, and fails when that has committed.
Insert(t) ==
    /\ tx[t].pc = "insert"
    /\ Free(t, tx[t].own)
    /\ IF tx[t].own \in Present
       THEN End(t)
       ELSE /\ tx' = [tx EXCEPT ![t].new = TRUE, ![t].pc =
                         IF tx[t].op = "create" THEN "commit" ELSE "clear"]
            /\ UNCHANGED alone
    /\ UNCHANGED <<kind, flag, begun, stands>>

-----------------------------------------------------------------------------
\* Mutant: only the version that is used is cleared, the highest in use.
MatchesHighest(t) == {r \in InUse \ {tx[t].own} : \A q \in InUse : q <= r}

\* The rows the UPDATE of transaction t matches, by what is committed.
Matches(t) ==
    CASE kind = "prompt" -> InUse
      [] kind = "skill" -> InUse \ {tx[t].own}
      [] kind = "account" -> Present \ {tx[t].own}

\* Mutant: the flag in memory is not synchronised.
ClearUnsynchronised(t) ==
    /\ tx[t].pc = "clear"
    /\ tx' = [tx EXCEPT ![t].pc = "lock", ![t].todo = Matches(t)]
    /\ UNCHANGED <<kind, flag, begun, history>>

\* The UPDATE begins.  That of prompts also matches its own row, and the ORM
\* clears the flag it holds in memory when it does.
Clear(t) ==
    /\ tx[t].pc = "clear"
    /\ tx' = [tx EXCEPT ![t].pc = "lock", ![t].todo = Matches(t),
                        ![t].set = IF kind = "prompt" THEN FALSE ELSE @]
    /\ UNCHANGED <<kind, flag, begun, history>>

\* It writes a row nobody else has written, if that row still matches.
Lock(t, r) ==
    /\ tx[t].pc = "lock"
    /\ r \in tx[t].todo
    /\ Free(t, r)
    /\ tx' = [tx EXCEPT ![t].todo = @ \ {r},
                        ![t].cleared = IF r \in Matches(t) THEN @ \cup {r} ELSE @]
    /\ UNCHANGED <<kind, flag, begun, history>>

Cleared(t) ==
    /\ tx[t].pc = "lock"
    /\ tx[t].todo = {}
    /\ Goto(t, "commit")
    /\ UNCHANGED <<kind, flag, begun, history>>

Own(t) == IF tx[t].op \in {"create", "unset"} THEN "inactive" ELSE "active"

\* What the flush before the commit writes to its own row: nothing if the flag
\* was the same when it was loaded.
Writes(t) == tx[t].new \/ tx[t].set # (Own(t) = "active")

Commit(t) ==
    /\ tx[t].pc = "commit"
    /\ Writes(t) => Free(t, tx[t].own)
    /\ flag' = [r \in Rows |->
           IF r = tx[t].own /\ Writes(t) THEN Own(t)
           ELSE IF r \in tx[t].cleared THEN "inactive" ELSE flag[r]]
    /\ stands' = IF tx[t].op = "create" THEN stands
                 ELSE IF t \in alone /\ Own(t) = "active" THEN tx[t].own ELSE None
    /\ End(t)
    /\ UNCHANGED <<kind, begun>>

-----------------------------------------------------------------------------
\* t waits for a row u has written.
WaitsFor(t, u) ==
    /\ u \in Others(t)
    /\ \/ tx[t].pc = "lock" /\ tx[t].todo \cap Held(u) # {}
       \/ tx[t].pc = "insert" /\ tx[t].own \in Held(u)
       \/ tx[t].pc = "commit" /\ Writes(t) /\ tx[t].own \in Held(u)

\* PostgreSQL ends one of the transactions that wait for one another.
Victim(t) ==
    /\ \E S \in SUBSET Txs :
          t \in S /\ \A u \in S : \E v \in S : WaitsFor(u, v)
    /\ End(t)
    /\ UNCHANGED <<kind, flag, begun, stands>>

Step(t) ==
    \/ Number(t) \/ NoNumber(t) \/ Insert(t)
    \/ Clear(t) \/ (\E r \in Rows : Lock(t, r)) \/ Cleared(t) \/ Commit(t)
    \/ Victim(t)

Start(t) ==
    \/ \E r \in Rows : Load(t, r) \/ LoadToUnset(t, r)
    \/ \E op \in {"create", "create_active"} : StartCreate(t, op)

Next == \E t \in Txs : Start(t) \/ Step(t)

Spec == Init /\ [][Next]_vars

\* A request goes on until it has its answer.
FairSpec == Spec /\ \A t \in Txs : WF_vars(Step(t))

-----------------------------------------------------------------------------
\* What one request puts in use while no other is in progress is alone in use,
\* whatever overlapping requests have left behind, until the next commit.
SoloActivationStands == stands # None => InUse = {stands}

\* An agent whose prompt is in use is never left without one: whatever two
\* activations do to each other, each writes its own row.
PromptStaysInUse == [][kind = "prompt" /\ InUse # {} => InUse' # {}]_vars

\* A request ends, although the UPDATEs of two may wait for one another.
RequestsEnd == \A t \in Txs : Busy(t) ~> ~Busy(t)
=============================================================================
