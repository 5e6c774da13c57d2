----------------------------- MODULE TradingConfig -----------------------------
(***************************************************************************)
(* The trading parameters an operator sets, their history of versions, and *)
(* the runs that use them.                                                 *)
(*                                                                         *)
(*   backend/app/api/routes/connectors.py       replace, scoped save,      *)
(*                                              restore                    *)
(*   backend/app/services/config/trading_config.py   scoped settings, the  *)
(*                                              version in force           *)
(*   backend/app/services/connectors/runtime_settings.py   the settings a  *)
(*                                              process keeps for a while  *)
(*   backend/app/services/agentscope/registry.py     what a run records    *)
(*                                                                         *)
(* The settings of all profiles are one JSON column of one row.  A request *)
(* loads the row, later reads the highest version number, and commits both *)
(* the row and a version (sessions do not flush before a query).  The row  *)
(* is written only if it differs from what was loaded, but for the scoped  *)
(* save, which marks it as modified.  A run reads the settings through a   *)
(* cache of its process, which saves in other processes do not clear.      *)
(***************************************************************************)
EXTENDS Naturals, FiniteSets

CONSTANTS
    Profiles,       \* pairs of a decision and an execution mode
    Flat,           \* the settings outside of the profiles
    Values,         \* what a profile can hold
    Unset,          \* nothing: one of Values
    Requests,       \* API requests in progress at the same time
    Runs,           \* analysis runs
    Processes,      \* API processes and Celery workers
    MaxSaves,       \* bound: requests
    None

Scopes == Profiles \cup {Flat}
Settings == [Scopes -> Values]

ASSUME TradingConfigAssumption ==
    /\ Flat \notin Profiles
    /\ Unset \in Values
    /\ None \notin Settings /\ None \notin Profiles /\ None \notin Processes
    /\ MaxSaves \in Nat

Initial == [s \in Scopes |-> Unset]

VARIABLES
    row,        \* the settings of the connector
    versions,   \* trading_config_versions
    request,    \* API requests
    run,        \* analysis runs
    cache,      \* the settings each process keeps
    saves,      \* requests begun (bounded)
    alone,      \* history: requests no other has overlapped
    stands      \* history: the last commit was that of such a request

vars == <<row, versions, request, run, cache, saves, alone, stands>>

Version == [id: 1..MaxSaves, version: 1..MaxSaves, snapshot: Settings]
Request == [pc: {"idle", "number", "commit"},
            op: {"replace", "scoped", "restore"},
            scope: Profiles \cup {None},
            loaded: Settings, new: Settings, version: 0..MaxSaves]
\* steady is history: the settings were read from the row after a save that
\* none had overlapped, and nothing has been saved since.
Entry == [kept: BOOLEAN, settings: Settings, steady: BOOLEAN]
Run == [pc: {"ready", "loaded", "decided", "done"},
        process: Processes \cup {None},
        used: Settings,         \* the settings it decides with
        steady: BOOLEAN,
        version: 0..MaxSaves]   \* trading_params_version

IdleRequest == [pc |-> "idle", op |-> "replace", scope |-> None,
                loaded |-> Initial, new |-> Initial, version |-> 0]
NoEntry == [kept |-> FALSE, settings |-> Initial, steady |-> FALSE]
NewRun == [pc |-> "ready", process |-> None, used |-> Initial, steady |-> FALSE,
           version |-> 0]

Init ==
    /\ row = Initial
    /\ versions = {}
    /\ request = [q \in Requests |-> IdleRequest]
    /\ run = [r \in Runs |-> NewRun]
    /\ cache = [p \in Processes |-> NoEntry]
    /\ saves = 0
    /\ alone = {}
    /\ stands = FALSE

TypeOK ==
    /\ row \in Settings
    /\ versions \subseteq Version
    /\ request \in [Requests -> Request]
    /\ run \in [Runs -> Run]
    /\ cache \in [Processes -> Entry]
    /\ saves \in 0..MaxSaves
    /\ alone \subseteq Requests
    /\ stands \in BOOLEAN

-----------------------------------------------------------------------------
\* get_active_config_version: the highest number, or 0.
ActiveVersion ==
    IF versions = {} THEN 0
    ELSE CHOOSE n \in {v.version : v \in versions} :
            \A v \in versions : v.version <= n

Busy == {q \in Requests : request[q].pc # "idle"}

Begin(q, op, scope, new) ==
    /\ request[q].pc = "idle"
    /\ saves < MaxSaves
    /\ saves' = saves + 1
    /\ request' = [request EXCEPT ![q] =
           [pc |-> "number", op |-> op, scope |-> scope,
            loaded |-> row, new |-> new, version |-> 0]]
    /\ alone' = IF Busy = {} THEN {q} ELSE {}
    /\ UNCHANGED <<row, versions, run, cache, stands>>

\* PUT /connectors/trading: all of the settings.
BeginReplace(q) == \E new \in Settings : Begin(q, "replace", None, new)

\* Mutant: the settings of the profile replace all others.
BuildScopedAlone(settings, p, value) == [Initial EXCEPT ![p] = value]

\* PUT /connectors/trading-config: one profile of the settings it has loaded.
BuildScopedTradingSettings(settings, p, value) == [settings EXCEPT ![p] = value]

BeginScoped(q) == \E p \in Profiles, value \in Values :
    Begin(q, "scoped", p, BuildScopedTradingSettings(row, p, value))

\* POST /connectors/trading-config/versions/{version}/restore: the snapshot of
\* a version with that number.
BeginRestore(q) == \E v \in versions : Begin(q, "restore", None, v.snapshot)

\* Mutant: the number counts the version that has just been added.
NumberTwice(q) ==
    /\ request[q].pc = "number"
    /\ request' = [request EXCEPT ![q].pc = "commit",
                                  ![q].version = ActiveVersion + 2]
    /\ UNCHANGED <<row, versions, run, cache, saves, alone, stands>>

\* The number of the new version.
Number(q) ==
    /\ request[q].pc = "number"
    /\ request' = [request EXCEPT ![q].pc = "commit",
                                  ![q].version = ActiveVersion + 1]
    /\ UNCHANGED <<row, versions, run, cache, saves, alone, stands>>

\* Mutant: the history keeps what the settings were before.
VersionOfLoaded(r) ==
    [id |-> Cardinality(versions) + 1, version |-> r.version,
     snapshot |-> r.loaded]

\* The row that records the version of a request.
VersionOf(r) ==
    [id |-> Cardinality(versions) + 1, version |-> r.version,
     snapshot |-> r.new]

\* Mutant: a scoped save is not marked as modified.
WritesUnmarked(r) == r.op # "scoped" /\ r.new # r.loaded

\* Whether the ORM writes the row: the scoped save marks it as modified.
Writes(r) == r.op = "scoped" \/ r.new # r.loaded

Commit(q) ==
    LET r == request[q]
    IN  /\ r.pc = "commit"
        /\ row' = IF Writes(r) THEN r.new ELSE row
        /\ versions' = versions \cup {VersionOf(r)}
        /\ request' = [request EXCEPT ![q] = IdleRequest]
        /\ stands' = (q \in alone)
        /\ alone' = alone \ {q}
        /\ run' = [n \in Runs |->
               IF run[n].pc = "done" THEN run[n]
               ELSE [run[n] EXCEPT !.steady = FALSE]]
        /\ cache' = [p \in Processes |-> [cache[p] EXCEPT !.steady = FALSE]]
        /\ UNCHANGED saves

-----------------------------------------------------------------------------
(* A run reads its settings where its agents need them; any one of these   *)
(* readings is followed.                                                   *)

\* The process keeps nothing: the row is read.  Without an answer there are no
\* settings, and the defaults apply.
Load(r, p) ==
    /\ run[r].pc = "ready" /\ ~ cache[p].kept
    /\ \/ run' = [run EXCEPT ![r] = [@ EXCEPT !.pc = "loaded", !.process = p,
                                            !.used = row, !.steady = stands]]
       \/ run' = [run EXCEPT ![r] = [@ EXCEPT !.pc = "loaded", !.process = p,
                                            !.used = Initial, !.steady = FALSE]]
    /\ UNCHANGED <<row, versions, request, cache, saves, alone, stands>>

\* What was read is kept, also when saves have come between.
Keep(r) ==
    /\ run[r].pc = "loaded"
    /\ cache' = [cache EXCEPT ![run[r].process] =
           [kept |-> TRUE, settings |-> run[r].used, steady |-> run[r].steady]]
    /\ run' = [run EXCEPT ![r].pc = "decided"]
    /\ UNCHANGED <<row, versions, request, saves, alone, stands>>

\* The process keeps settings that are not too old.
Decide(r, p) ==
    /\ run[r].pc = "ready" /\ cache[p].kept
    /\ run' = [run EXCEPT ![r] = [@ EXCEPT !.pc = "decided",
           !.used = cache[p].settings, !.steady = cache[p].steady]]
    /\ UNCHANGED <<row, versions, request, cache, saves, alone, stands>>

\* Five seconds are over, or a request of the process clears its cache, which
\* it does after it has committed.
Forget(p) ==
    /\ cache[p].kept
    /\ cache' = [cache EXCEPT ![p] = NoEntry]
    /\ UNCHANGED <<row, versions, request, run, saves, alone, stands>>

\* Mutant: the versions are counted.
FinishCounts(r) ==
    /\ run[r].pc = "decided"
    /\ run' = [run EXCEPT ![r].pc = "done", ![r].version = Cardinality(versions)]
    /\ UNCHANGED <<row, versions, request, cache, saves, alone, stands>>

\* At its end it records the version in force, or 0 if that cannot be read.
Finish(r) ==
    /\ run[r].pc = "decided"
    /\ \/ run' = [run EXCEPT ![r].pc = "done", ![r].version = ActiveVersion]
       \/ run' = [run EXCEPT ![r].pc = "done", ![r].steady = FALSE]
    /\ UNCHANGED <<row, versions, request, cache, saves, alone, stands>>

Next ==
    \/ \E q \in Requests : BeginReplace(q) \/ BeginScoped(q) \/ BeginRestore(q)
    \/ \E q \in Requests : Number(q) \/ Commit(q)
    \/ \E r \in Runs : Keep(r) \/ Finish(r)
    \/ \E p \in Processes :
           Forget(p) \/ \E r \in Runs : Load(r, p) \/ Decide(r, p)

Spec == Init /\ [][Next]_vars

-----------------------------------------------------------------------------
\* After a save that no other has overlapped, the highest version, which is the
\* one a run records, is one row, and it holds the settings in force: whatever
\* overlapping saves have done to the history before.
SoloSaveStands == stands =>
    /\ \A v \in versions : v.version = ActiveVersion => v.snapshot = row
    /\ Cardinality({v \in versions : v.version = ActiveVersion}) = 1

\* The settings in force can be restored: they are those of some version, even
\* after saves have overwritten one another, or nothing was ever saved.
SettingsAreInHistory ==
    row = Initial \/ \E v \in versions : v.snapshot = row

\* A save of one profile that no other request has overlapped leaves the other
\* profiles and the flat settings as they are, although it writes them all
\* (connectors.py:285-304).
ScopedSaveKeepsOthers ==
    [][\A q \in alone : Commit(q) /\ request[q].op = "scoped" =>
          \A s \in Scopes \ {request[q].scope} : row'[s] = row[s]]_vars

\* The version a run records at its end is that of the settings it has decided
\* with, unless something was saved since they were read from the row, by
\* whichever run has put them into the cache, or a read has failed; and the last
\* save before was alone: whatever gaps and doubles overlapping saves have left
\* in the numbers (registry.py:2161).
RunVersionIsTheOneUsed ==
    \A r \in Runs : run[r].pc = "done" /\ run[r].steady =>
        LET recorded == {v \in versions : v.version = run[r].version}
        IN  recorded # {} /\ \A v \in recorded : v.snapshot = run[r].used
=============================================================================
