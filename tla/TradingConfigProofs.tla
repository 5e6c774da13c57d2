------------------------- MODULE TradingConfigProofs -------------------------
(***************************************************************************)
(* Theorems about TradingConfig, for any profiles, values, requests, runs  *)
(* and number of saves.                                                    *)
(*                                                                         *)
(* Every request adds one version, so the versions and the requests in     *)
(* progress are together as many as the requests begun.  A request that    *)
(* nobody has overlapped has loaded the row as it is, and its number is    *)
(* above all others when it commits; a request that commits after it has   *)
(* read its number later, so no version takes a number at or below the     *)
(* one a run has recorded meanwhile.  What a cache keeps, and what a run   *)
(* has read, is the row as long as nothing has been saved since.           *)
(***************************************************************************)
EXTENDS TradingConfig, FiniteSetTheorems, TLAPS

\* Versions and requests in progress are the requests begun.
Counted ==
    /\ IsFiniteSet(versions) /\ IsFiniteSet(Busy)
    /\ Cardinality(versions) + Cardinality(Busy) = saves

\* Ids count the versions, and no number is above its id.
NumbersFit ==
    /\ \A v \in versions : v.version <= v.id /\ v.id <= Cardinality(versions)
    /\ versions = {} \/ \E v \in versions : \A w \in versions : w.version <= v.version

RequestFits(q) ==
    /\ request[q].pc = "commit" => request[q].version \in 1..(Cardinality(versions) + 1)
    /\ request[q].op = "scoped" =>
          /\ request[q].scope \in Profiles
          /\ \A s \in Scopes \ {request[q].scope} :
                request[q].new[s] = request[q].loaded[s]

\* What a request nobody has overlapped knows.
AloneKnows(q) ==
    /\ Busy = {q}
    /\ request[q].loaded = row
    /\ request[q].pc = "commit" => request[q].version = ActiveVersion + 1

\* The requests in progress have begun after a commit that stands.
NumbersFollow ==
    stands => \A q \in Requests :
        request[q].pc = "commit" => request[q].version = ActiveVersion + 1

\* The version a run has recorded for the settings it has used.
Recorded(r) == {v \in versions : v.version = run[r].version}

RunKnows(r) ==
    /\ run[r].pc \in {"loaded", "decided"} /\ run[r].steady =>
          stands /\ run[r].used = row
    /\ run[r].pc = "done" /\ run[r].steady =>
          /\ Recorded(r) # {} /\ \A v \in Recorded(r) : v.snapshot = run[r].used
          /\ \A q \in Requests :
                request[q].pc = "commit" => run[r].version < request[q].version

\* What a process keeps.
CacheKnows(p) == cache[p].steady => stands /\ cache[p].settings = row

IInv ==
    /\ TypeOK
    /\ Counted
    /\ NumbersFit
    /\ \A q \in Requests : RequestFits(q)
    /\ \A q \in alone : AloneKnows(q)
    /\ SoloSaveStands
    /\ NumbersFollow
    /\ SettingsAreInHistory
    /\ \A r \in Runs : RunKnows(r)
    /\ \A p \in Processes : CacheKnows(p)

-----------------------------------------------------------------------------
(* The operators of the model.                                             *)

\* The highest number of some versions is found, whichever of them has it.
LEMMA HighestIs ==
    ASSUME NEW S \in SUBSET Version, NEW v \in S,
           \A w \in S : w.version <= v.version
    PROVE  (CHOOSE n \in {w.version : w \in S} : \A w \in S : w.version <= n) = v.version
<1> DEFINE Highest(n) == n \in {w.version : w \in S} /\ \A w \in S : w.version <= n
<1>1. Highest(v.version)
    OBVIOUS
<1>2. Highest(CHOOSE n : Highest(n))
    BY <1>1
<1>3. PICK w \in S : w.version = CHOOSE n : Highest(n)
    BY <1>2
<1>4. v.version \in Nat /\ w.version \in Nat
    BY DEF Version
<1>5. (CHOOSE n : Highest(n)) = v.version
    BY <1>2, <1>3, <1>4
<1>6. QED BY <1>5

\* The version in force is the highest number, or 0, and at most as many as
\* there are versions.
LEMMA ActiveVersionFacts ==
    ASSUME TypeOK, IsFiniteSet(versions), NumbersFit
    PROVE  /\ ActiveVersion \in 0..Cardinality(versions)
           /\ \A v \in versions : v.version <= ActiveVersion
           /\ versions # {} => \E v \in versions : v.version = ActiveVersion
<1>1. Cardinality(versions) \in Nat /\ versions \subseteq Version
    BY FS_CardinalityType DEF TypeOK
<1>2. CASE versions = {}
    BY <1>1, <1>2 DEF ActiveVersion
<1>3. CASE versions # {}
    <2>1. PICK v \in versions : \A w \in versions : w.version <= v.version
        BY <1>3 DEF NumbersFit
    <2>2. ActiveVersion = v.version
        BY <1>1, <1>3, <2>1, HighestIs DEF ActiveVersion
    <2>3. v.version \in Nat /\ v.id \in Nat /\ v.version <= v.id
          /\ v.id <= Cardinality(versions)
        BY <1>1 DEF NumbersFit, Version
    <2>4. QED BY <1>1, <2>1, <2>2, <2>3
<1>4. QED BY <1>2, <1>3

\* A request in progress is one of the saves, and not yet one of the versions.
LEMMA RoomForVersion ==
    ASSUME IInv, NEW q \in Requests, request[q].pc # "idle"
    PROVE  /\ Cardinality(versions) \in Nat
           /\ Cardinality(versions) + 1 \in 1..MaxSaves
<1>1. Cardinality(versions) \in Nat /\ Cardinality(Busy) \in Nat
    BY FS_CardinalityType DEF IInv, Counted
<1>2. Cardinality(Busy) # 0
    BY FS_EmptySet DEF IInv, Counted, Busy
<1>3. saves \in 0..MaxSaves /\ Cardinality(versions) + Cardinality(Busy) = saves
    BY DEF IInv, TypeOK, Counted
<1>4. QED BY <1>1, <1>2, <1>3, TradingConfigAssumption

\* A request nobody has overlapped is the only one in progress.
LEMMA AloneIsOnly ==
    ASSUME IInv, NEW q \in Requests, request[q].pc # "idle"
    PROVE  alone \subseteq {q}
BY DEF IInv, TypeOK, AloneKnows, Busy

-----------------------------------------------------------------------------
(* A request begins.                                                       *)

LEMMA InitialTyped == Initial \in Settings
BY TradingConfigAssumption DEF Initial, Settings

LEMMA IdleTyped ==
    /\ IdleRequest \in Request
    /\ IdleRequest.pc = "idle" /\ IdleRequest.op = "replace"
BY InitialTyped, TradingConfigAssumption DEF IdleRequest, Request

LEMMA BeginKeeps ==
    ASSUME IInv, NEW q \in Requests, NEW op \in {"replace", "scoped", "restore"},
           NEW scope \in Profiles \cup {None}, NEW new \in Settings,
           op = "scoped" => /\ scope \in Profiles
                            /\ \A s \in Scopes \ {scope} : new[s] = row[s],
           Begin(q, op, scope, new)
    PROVE  IInv'
<1> DEFINE begun == [pc |-> "number", op |-> op, scope |-> scope,
                     loaded |-> row, new |-> new, version |-> 0]
<1>1. /\ TypeOK /\ Counted /\ NumbersFit /\ SoloSaveStands
      /\ request[q].pc = "idle" /\ saves < MaxSaves /\ saves' = saves + 1
      /\ request' = [request EXCEPT ![q] = begun]
      /\ alone' = IF Busy = {} THEN {q} ELSE {}
      /\ UNCHANGED <<row, versions, run, cache, stands>>
    BY DEF IInv, Begin
<1>2. begun \in Request
    BY <1>1, TradingConfigAssumption DEF Request, TypeOK
<1>3. /\ begun.pc = "number" /\ begun.op = op /\ begun.scope = scope
      /\ begun.loaded = row /\ begun.new = new
    OBVIOUS
<1> HIDE DEF begun
<1>4. /\ request' \in [Requests -> Request] /\ request'[q] = begun
      /\ \A p \in Requests \ {q} : request'[p] = request[p]
    BY <1>1, <1>2 DEF TypeOK
<1>5. TypeOK'
    BY <1>1, <1>4, TradingConfigAssumption DEF TypeOK
<1>6. Busy' = Busy \cup {q} /\ q \notin Busy
    BY <1>1, <1>3, <1>4 DEF Busy
<1>7. Counted'
    <2>1. IsFiniteSet(Busy') /\ Cardinality(Busy') = Cardinality(Busy) + 1
        BY <1>1, <1>6, FS_AddElement DEF Counted
    <2>2. Cardinality(versions) \in Nat /\ Cardinality(Busy) \in Nat
        BY <1>1, FS_CardinalityType DEF Counted
    <2>3. QED BY <1>1, <2>1, <2>2 DEF Counted
<1>8. ActiveVersion' = ActiveVersion
    BY <1>1 DEF ActiveVersion
<1>9. NumbersFit' /\ SoloSaveStands' /\ SettingsAreInHistory'
    BY <1>1, <1>8 DEF IInv, NumbersFit, SoloSaveStands, SettingsAreInHistory
<1>10. ASSUME NEW p \in Requests PROVE RequestFits(p)'
    BY <1>1, <1>3, <1>4 DEF IInv, RequestFits
<1>11. ASSUME NEW p \in alone' PROVE AloneKnows(p)'
    <2>1. Busy = {} /\ p = q
        BY <1>1, <1>11
    <2>2. QED BY <1>1, <1>3, <1>4, <1>6, <2>1 DEF AloneKnows
<1>12. NumbersFollow'
    BY <1>1, <1>3, <1>4, <1>8 DEF IInv, NumbersFollow
<1>13. ASSUME NEW r \in Runs PROVE RunKnows(r)'
    <2>1. RunKnows(r) /\ Recorded(r)' = Recorded(r)
        BY <1>1 DEF IInv, Recorded
    <2>2. QED BY <1>1, <1>3, <1>4, <2>1 DEF RunKnows
<1>14. \A p \in Processes : CacheKnows(p)'
    BY <1>1 DEF IInv, CacheKnows
<1>15. QED BY <1>5, <1>7, <1>9, <1>10, <1>11, <1>12, <1>13, <1>14 DEF IInv

LEMMA BeginReplaceKeeps ==
    ASSUME IInv, NEW q \in Requests, BeginReplace(q)
    PROVE  IInv'
BY BeginKeeps DEF BeginReplace

LEMMA BeginScopedKeeps ==
    ASSUME IInv, NEW q \in Requests, BeginScoped(q)
    PROVE  IInv'
<1>1. PICK p \in Profiles, value \in Values :
          Begin(q, "scoped", p, BuildScopedTradingSettings(row, p, value))
    BY DEF BeginScoped
<1>2. row \in Settings
    BY DEF IInv, TypeOK
<1>3. /\ BuildScopedTradingSettings(row, p, value) \in Settings
      /\ \A s \in Scopes \ {p} : BuildScopedTradingSettings(row, p, value)[s] = row[s]
    BY <1>2 DEF BuildScopedTradingSettings, Settings, Scopes
<1>4. QED BY <1>1, <1>3, BeginKeeps

LEMMA BeginRestoreKeeps ==
    ASSUME IInv, NEW q \in Requests, BeginRestore(q)
    PROVE  IInv'
<1>1. \A v \in versions : v.snapshot \in Settings
    BY DEF IInv, TypeOK, Version
<1>2. QED BY <1>1, BeginKeeps DEF BeginRestore

-----------------------------------------------------------------------------
(* The number and the commit.                                              *)

LEMMA NumberKeeps ==
    ASSUME IInv, NEW q \in Requests, Number(q)
    PROVE  IInv'
<1>1. /\ TypeOK /\ Counted /\ NumbersFit /\ request[q].pc = "number"
      /\ UNCHANGED <<row, versions, run, cache, saves, alone, stands>>
    BY DEF IInv, Number
<1>2. /\ ActiveVersion \in 0..Cardinality(versions)
      /\ \A v \in versions : v.version <= ActiveVersion
    BY <1>1, ActiveVersionFacts DEF Counted
<1>3. ActiveVersion + 1 \in 1..MaxSaves
      /\ ActiveVersion + 1 \in 1..(Cardinality(versions) + 1)
    BY <1>1, <1>2, RoomForVersion, TradingConfigAssumption
<1> DEFINE numbered == [request[q] EXCEPT !.pc = "commit", !.version = ActiveVersion + 1]
<1>4. request' = [request EXCEPT ![q] = numbered]
    BY DEF Number
<1>5. request[q] \in Request
    BY <1>1 DEF TypeOK
<1>6. /\ numbered \in Request /\ numbered.pc = "commit"
      /\ numbered.version = ActiveVersion + 1
      /\ numbered.op = request[q].op /\ numbered.scope = request[q].scope
      /\ numbered.loaded = request[q].loaded /\ numbered.new = request[q].new
    <2>1. ActiveVersion + 1 \in 0..MaxSaves
        BY <1>3, TradingConfigAssumption
    <2>2. QED BY <1>5, <2>1 DEF Request
<1> HIDE DEF numbered
<1>7. /\ request' \in [Requests -> Request] /\ request'[q] = numbered
      /\ \A p \in Requests \ {q} : request'[p] = request[p]
    BY <1>1, <1>4, <1>6 DEF TypeOK
<1>8. TypeOK'
    BY <1>1, <1>7 DEF TypeOK
<1>9. Busy' = Busy /\ ActiveVersion' = ActiveVersion
    BY <1>1, <1>6, <1>7 DEF Busy, ActiveVersion
<1>10. Counted' /\ NumbersFit' /\ SoloSaveStands' /\ SettingsAreInHistory'
    BY <1>1, <1>9 DEF IInv, Counted, NumbersFit, SoloSaveStands, SettingsAreInHistory
<1>11. ASSUME NEW p \in Requests PROVE RequestFits(p)'
    <2>1. RequestFits(p)
        BY DEF IInv
    <2>2. CASE p = q
        BY <1>1, <1>3, <1>6, <1>7, <2>1, <2>2 DEF RequestFits
    <2>3. CASE p # q
        BY <1>1, <1>7, <2>1, <2>3 DEF RequestFits
    <2>4. QED BY <2>2, <2>3
<1>12. ASSUME NEW p \in alone' PROVE AloneKnows(p)'
    <2>1. AloneKnows(p) /\ p = q
        BY <1>1, <1>12, AloneIsOnly DEF IInv
    <2>2. QED BY <1>1, <1>6, <1>7, <1>9, <2>1 DEF AloneKnows
<1>13. NumbersFollow'
    BY <1>1, <1>6, <1>7, <1>9 DEF IInv, NumbersFollow
<1>14. ASSUME NEW r \in Runs PROVE RunKnows(r)'
    <2>1. RunKnows(r) /\ Recorded(r)' = Recorded(r)
        BY <1>1 DEF IInv, Recorded
    <2>2. CASE run[r].pc = "done" /\ run[r].steady
        <3>1. PICK v \in versions : v.version = run[r].version
            BY <2>1, <2>2 DEF RunKnows, Recorded
        <3>2. v.version \in Nat /\ v.version <= ActiveVersion
            BY <1>1, <1>2 DEF TypeOK, Version
        <3>3. run[r].version < ActiveVersion + 1
            BY <1>2, <3>1, <3>2
        <3>4. QED BY <1>1, <1>6, <1>7, <2>1, <2>2, <3>3 DEF RunKnows
    <2>3. CASE ~(run[r].pc = "done" /\ run[r].steady)
        BY <1>1, <2>1, <2>3 DEF RunKnows
    <2>4. QED BY <2>2, <2>3
<1>15. \A p \in Processes : CacheKnows(p)'
    BY <1>1 DEF IInv, CacheKnows
<1>16. QED BY <1>8, <1>10, <1>11, <1>12, <1>13, <1>14, <1>15 DEF IInv

\* What a commit makes of the row and of the versions.
LEMMA CommitFacts ==
    ASSUME IInv, NEW q \in Requests, Commit(q)
    PROVE  LET v == VersionOf(request[q])
           IN  /\ v \in Version /\ v \notin versions
               /\ v.id = Cardinality(versions) + 1
               /\ v.version = request[q].version /\ v.snapshot = request[q].new
               /\ versions' = versions \cup {v}
               /\ IsFiniteSet(versions')
               /\ Cardinality(versions') = Cardinality(versions) + 1
               /\ row' = row \/ row' = request[q].new
<1> DEFINE v == VersionOf(request[q])
<1>1. /\ TypeOK /\ Counted /\ NumbersFit /\ RequestFits(q)
      /\ request[q].pc = "commit" /\ request[q] \in Request
    BY DEF IInv, Commit, TypeOK
<1>2. /\ Cardinality(versions) \in Nat /\ Cardinality(versions) + 1 \in 1..MaxSaves
    BY <1>1, RoomForVersion
<1>3. request[q].version \in 1..MaxSaves /\ request[q].new \in Settings
    BY <1>1, <1>2, TradingConfigAssumption DEF RequestFits, Request
<1>4. /\ v \in Version /\ v.id = Cardinality(versions) + 1
      /\ v.version = request[q].version /\ v.snapshot = request[q].new
    BY <1>2, <1>3 DEF VersionOf, Version
<1>5. versions' = versions \cup {v}
    BY DEF Commit
<1> HIDE DEF v
<1>6. v \notin versions
    <2>1. SUFFICES ASSUME v \in versions PROVE FALSE
        OBVIOUS
    <2>2. v.id <= Cardinality(versions)
        BY <1>1, <2>1 DEF NumbersFit
    <2>3. QED BY <1>2, <1>4, <2>2
<1>7. IsFiniteSet(versions') /\ Cardinality(versions') = Cardinality(versions) + 1
    BY <1>1, <1>5, <1>6, FS_AddElement DEF Counted
<1>8. row' = row \/ row' = request[q].new
    BY DEF Commit
<1>9. QED BY <1>4, <1>5, <1>6, <1>7, <1>8 DEF v

\* The number of a request nobody has overlapped becomes the highest, of its
\* version alone, and the row is what that version holds: the ORM has left it
\* unwritten only if it was the same.
LEMMA SoloCommit ==
    ASSUME IInv, NEW q \in Requests, Commit(q), q \in alone
    PROVE  /\ ActiveVersion' = request[q].version
           /\ row' = request[q].new
           /\ {v \in versions' : v.version = ActiveVersion'} = {VersionOf(request[q])}
<1> DEFINE v == VersionOf(request[q])
<1>1. /\ TypeOK /\ NumbersFit /\ IsFiniteSet(versions) /\ AloneKnows(q)
      /\ request[q].pc = "commit"
    BY DEF IInv, Counted, Commit
<1>2. /\ ActiveVersion \in Nat
      /\ \A w \in versions : w.version <= ActiveVersion
    BY <1>1, ActiveVersionFacts, FS_CardinalityType
<1>3. request[q].version = ActiveVersion + 1 /\ request[q].loaded = row
    BY <1>1 DEF AloneKnows
<1>4. /\ versions' = versions \cup {v} /\ v \in Version
      /\ v.version = request[q].version
    BY CommitFacts
<1> HIDE DEF v
<1>5. \A w \in versions : w.version \in Nat /\ w.version < v.version
    BY <1>1, <1>2, <1>3, <1>4 DEF TypeOK, Version
<1>6. versions' \subseteq Version /\ v \in versions'
      /\ \A w \in versions' : w.version <= v.version
    <2>1. v.version \in Nat
        BY <1>2, <1>3, <1>4
    <2>2. QED BY <1>1, <1>4, <1>5, <2>1 DEF TypeOK
<1>7. ActiveVersion' = v.version
    BY <1>6, HighestIs DEF ActiveVersion
<1>8. {w \in versions' : w.version = ActiveVersion'} = {v}
    BY <1>4, <1>5, <1>7
<1>9. row' = request[q].new
    BY <1>3 DEF Commit, Writes
<1>10. QED BY <1>4, <1>7, <1>8, <1>9 DEF v

\* What a commit makes of the requests ...
LEMMA CommitFrame ==
    ASSUME IInv, NEW q \in Requests, Commit(q)
    PROVE  /\ request' \in [Requests -> Request] /\ request'[q] = IdleRequest
           /\ \A p \in Requests \ {q} : request'[p] = request[p]
           /\ Busy' = Busy \ {q} /\ q \in Busy
<1>1. /\ request \in [Requests -> Request]
      /\ request[q].pc = "commit" /\ request' = [request EXCEPT ![q] = IdleRequest]
    BY DEF IInv, TypeOK, Commit
<1>2. /\ request' \in [Requests -> Request] /\ request'[q] = IdleRequest
      /\ \A p \in Requests \ {q} : request'[p] = request[p]
    BY <1>1, IdleTyped
<1>3. Busy' = Busy \ {q} /\ q \in Busy
    BY <1>1, <1>2, IdleTyped DEF Busy
<1>4. QED BY <1>2, <1>3

\* ... and of the runs and the caches.
LEMMA CommitUnsettles ==
    ASSUME IInv, NEW q \in Requests, Commit(q)
    PROVE  /\ run' \in [Runs -> Run]
           /\ \A r \in Runs : /\ run'[r].pc = run[r].pc /\ run'[r].used = run[r].used
                             /\ run'[r].version = run[r].version
                             /\ run'[r].steady = (run[r].steady /\ run[r].pc = "done")
           /\ cache' \in [Processes -> Entry]
           /\ \A p \in Processes : cache'[p].steady = FALSE
<1>1. /\ run \in [Runs -> Run]
      /\ run' = [n \in Runs |->
              IF run[n].pc = "done" THEN run[n] ELSE [run[n] EXCEPT !.steady = FALSE]]
      /\ cache \in [Processes -> Entry]
      /\ cache' = [p \in Processes |-> [cache[p] EXCEPT !.steady = FALSE]]
    BY DEF IInv, TypeOK, Commit
<1>2. ASSUME NEW r \in Runs
      PROVE  /\ run'[r] \in Run
             /\ run'[r].pc = run[r].pc /\ run'[r].used = run[r].used
             /\ run'[r].version = run[r].version
             /\ run'[r].steady = (run[r].steady /\ run[r].pc = "done")
    <2>1. run[r] \in Run
        BY <1>1
    <2>2. CASE run[r].pc # "done"
        <3>1. run'[r] = [run[r] EXCEPT !.steady = FALSE]
            BY <1>1, <2>2
        <3>2. QED BY <2>1, <2>2, <3>1 DEF Run
    <2>3. CASE run[r].pc = "done"
        <3>1. run'[r] = run[r]
            BY <1>1, <2>3
        <3>2. QED BY <2>1, <2>3, <3>1 DEF Run
    <2>4. QED BY <2>2, <2>3
<1>3. run' \in [Runs -> Run]
    BY <1>1, <1>2
<1>4. ASSUME NEW p \in Processes
      PROVE  cache'[p] \in Entry /\ cache'[p].steady = FALSE
    <2>1. cache[p] \in Entry /\ cache'[p] = [cache[p] EXCEPT !.steady = FALSE]
        BY <1>1
    <2>2. QED BY <2>1 DEF Entry
<1>5. cache' \in [Processes -> Entry]
    BY <1>1, <1>4
<1>6. QED BY <1>2, <1>3, <1>4, <1>5

LEMMA CommitKeeps ==
    ASSUME IInv, NEW q \in Requests, Commit(q)
    PROVE  IInv'
<1> DEFINE v == VersionOf(request[q])
<1>1. /\ TypeOK /\ Counted /\ NumbersFit /\ RequestFits(q)
      /\ request[q].pc = "commit" /\ request[q] \in Request
      /\ stands' = (q \in alone) /\ alone' = alone \ {q} /\ saves' = saves
    BY DEF IInv, Commit, TypeOK
<1>2. /\ v \in Version /\ v \notin versions /\ v.id = Cardinality(versions) + 1
      /\ v.version = request[q].version /\ v.snapshot = request[q].new
      /\ versions' = versions \cup {v} /\ IsFiniteSet(versions')
      /\ Cardinality(versions') = Cardinality(versions) + 1
      /\ row' = row \/ row' = request[q].new
    BY CommitFacts
<1> HIDE DEF v
<1>3. Cardinality(versions) \in Nat /\ v.version \in 1..(Cardinality(versions) + 1)
    BY <1>1, <1>2, RoomForVersion DEF RequestFits
<1>4. alone \subseteq {q}
    BY <1>1, AloneIsOnly
<1>5. TypeOK'
    <2>1. /\ request' \in [Requests -> Request] /\ run' \in [Runs -> Run]
          /\ cache' \in [Processes -> Entry]
        BY CommitFrame, CommitUnsettles
    <2>2. row' \in Settings /\ versions' \subseteq Version
        BY <1>1, <1>2 DEF TypeOK, Request
    <2>3. saves' \in 0..MaxSaves /\ alone' \subseteq Requests /\ stands' \in BOOLEAN
        BY <1>1 DEF TypeOK
    <2>4. QED BY <2>1, <2>2, <2>3 DEF TypeOK
<1>6. Counted'
    <2>1. IsFiniteSet(Busy') /\ Cardinality(Busy') = Cardinality(Busy) - 1
        BY <1>1, CommitFrame, FS_RemoveElement DEF Counted
    <2>2. Cardinality(Busy) \in Nat
        BY <1>1, FS_CardinalityType DEF Counted
    <2>3. QED BY <1>1, <1>2, <1>3, <2>1, <2>2 DEF Counted
<1>7. NumbersFit'
    <2>1. \A w \in versions : w.version \in Nat /\ w.id \in Nat
        BY <1>1 DEF TypeOK, Version
    <2>2. \A w \in versions' : w.version <= w.id /\ w.id <= Cardinality(versions')
        BY <1>1, <1>2, <1>3, <2>1 DEF NumbersFit
    <2>3. \E w \in versions' : \A x \in versions' : x.version <= w.version
        <3>1. CASE \A x \in versions : x.version <= v.version
            BY <1>2, <1>3, <3>1
        <3>2. CASE \E x \in versions : ~(x.version <= v.version)
            <4>1. PICK w \in versions : \A x \in versions : x.version <= w.version
                BY <1>1, <3>2 DEF NumbersFit
            <4>2. v.version <= w.version
                BY <1>3, <2>1, <3>2, <4>1
            <4>3. QED BY <1>2, <4>1, <4>2
        <3>3. QED BY <3>1, <3>2
    <2>4. QED BY <2>2, <2>3 DEF NumbersFit
<1>8. ASSUME NEW p \in Requests PROVE RequestFits(p)'
    <2>1. CASE p = q
        BY <2>1, CommitFrame, IdleTyped DEF RequestFits
    <2>2. CASE p # q
        BY <1>2, <1>3, <2>2, CommitFrame DEF IInv, RequestFits
    <2>3. QED BY <2>1, <2>2
<1>9. \A p \in alone' : AloneKnows(p)'
    BY <1>1, <1>4
<1>10. SoloSaveStands' /\ NumbersFollow'
    <2>1. SUFFICES ASSUME q \in alone PROVE SoloSaveStands' /\ NumbersFollow'
        BY <1>1 DEF SoloSaveStands, NumbersFollow
    <2>2. row' = request[q].new /\ {w \in versions' : w.version = ActiveVersion'} = {v}
        BY <2>1, SoloCommit DEF v
    <2>3. SoloSaveStands'
        BY <1>2, <2>2, FS_Singleton DEF SoloSaveStands
    <2>4. Busy' = {}
        BY <2>1, CommitFrame DEF IInv, AloneKnows
    <2>5. NumbersFollow'
        BY <2>4, CommitFrame DEF NumbersFollow, Busy
    <2>6. QED BY <2>3, <2>5
<1>11. SettingsAreInHistory'
    <2>1. CASE row' = request[q].new
        BY <1>2, <2>1 DEF SettingsAreInHistory
    <2>2. CASE row' = row
        BY <1>2, <2>2 DEF IInv, SettingsAreInHistory
    <2>3. QED BY <1>2, <2>1, <2>2
<1>12. ASSUME NEW r \in Runs PROVE RunKnows(r)'
    <2>1. RunKnows(r) /\ run[r] \in Run
        BY <1>1 DEF IInv, TypeOK
    <2>2. CASE run[r].pc = "done" /\ run[r].steady
        <3>1. run[r].version < v.version /\ run[r].version \in Nat
            BY <1>1, <1>2, <2>1, <2>2 DEF RunKnows, Run
        <3>2. run'[r].pc = "done" /\ run'[r].used = run[r].used
              /\ run'[r].version = run[r].version
            BY <2>2, CommitUnsettles
        <3>3. \A p \in Requests : request'[p].pc = "commit" => request'[p] = request[p]
            BY CommitFrame, IdleTyped
        <3>4. Recorded(r)' = Recorded(r)
            BY <1>2, <1>3, <3>1, <3>2 DEF Recorded
        <3>5. \A p \in Requests :
                  request'[p].pc = "commit" => run'[r].version < request'[p].version
            BY <2>1, <2>2, <3>2, <3>3 DEF RunKnows
        <3>6. /\ Recorded(r)' # {}
              /\ \A w \in Recorded(r)' : w.snapshot = run'[r].used
            BY <2>1, <2>2, <3>2, <3>4 DEF RunKnows
        <3>7. QED BY <3>2, <3>5, <3>6 DEF RunKnows
    <2>3. CASE ~(run[r].pc = "done" /\ run[r].steady)
        BY <2>3, CommitUnsettles DEF RunKnows
    <2>4. QED BY <2>2, <2>3
<1>13. \A p \in Processes : CacheKnows(p)'
    BY CommitUnsettles DEF CacheKnows
<1>14. QED BY <1>5, <1>6, <1>7, <1>8, <1>9, <1>10, <1>11, <1>12, <1>13 DEF IInv

-----------------------------------------------------------------------------
(* The runs and the caches they read through.                              *)

\* A step of runs or caches leaves what is known of requests and versions alone.
LEMMA RunFrame ==
    ASSUME IInv, run' \in [Runs -> Run], cache' \in [Processes -> Entry],
           \A n \in Runs : run'[n] = run[n] \/ RunKnows(n)',
           \A p \in Processes : cache'[p] = cache[p] \/ CacheKnows(p)',
           UNCHANGED <<row, versions, request, saves, alone, stands>>
    PROVE  IInv'
<1>1. /\ TypeOK' /\ Counted' /\ NumbersFit'
      /\ \A q \in Requests : RequestFits(q)'
    BY DEF IInv, TypeOK, Counted, NumbersFit, RequestFits, Busy
<1>2. ActiveVersion' = ActiveVersion /\ Busy' = Busy
    BY DEF ActiveVersion, Busy
<1>3. /\ \A q \in alone' : AloneKnows(q)'
      /\ SoloSaveStands' /\ NumbersFollow' /\ SettingsAreInHistory'
    BY <1>2 DEF IInv, AloneKnows, SoloSaveStands, NumbersFollow, SettingsAreInHistory
<1>4. ASSUME NEW n \in Runs PROVE RunKnows(n)'
    <2>1. CASE run'[n] = run[n]
        BY <2>1 DEF IInv, RunKnows, Recorded
    <2>2. QED BY <2>1
<1>5. \A p \in Processes : CacheKnows(p)'
    BY DEF IInv, CacheKnows
<1>6. QED BY <1>1, <1>3, <1>4, <1>5 DEF IInv

\* A run that has just read knows of its settings what is known of the entry, or
\* of the row, it has read.
LEMMA ReadKeeps ==
    ASSUME IInv, NEW r \in Runs, NEW p \in Processes, Load(r, p) \/ Decide(r, p)
    PROVE  IInv'
<1>1. /\ run \in [Runs -> Run] /\ cache \in [Processes -> Entry] /\ row \in Settings
      /\ stands \in BOOLEAN /\ CacheKnows(p)
      /\ UNCHANGED <<row, versions, request, cache, saves, alone, stands>>
    BY DEF IInv, TypeOK, Load, Decide
<1>2. run[r] \in Run /\ cache[p] \in Entry
    BY <1>1
<1>3. PICK x \in Run : /\ run' = [run EXCEPT ![r] = x]
                       /\ x.pc \in {"loaded", "decided"}
                       /\ x.steady => stands /\ x.used = row
    <2>1. CASE Load(r, p)
        <3> DEFINE read == [run[r] EXCEPT !.pc = "loaded", !.process = p,
                                          !.used = row, !.steady = stands]
                   failed == [run[r] EXCEPT !.pc = "loaded", !.process = p,
                                            !.used = Initial, !.steady = FALSE]
        <3>1. /\ read \in Run /\ read.pc = "loaded" /\ read.used = row
              /\ read.steady = stands
              /\ failed \in Run /\ failed.pc = "loaded" /\ failed.steady = FALSE
            BY <1>1, <1>2, InitialTyped DEF Run
        <3>2. run' = [run EXCEPT ![r] = read] \/ run' = [run EXCEPT ![r] = failed]
            BY <2>1 DEF Load
        <3> HIDE DEF read, failed
        <3>3. QED BY <3>1, <3>2
    <2>2. CASE Decide(r, p)
        <3> DEFINE read == [run[r] EXCEPT !.pc = "decided",
                              !.used = cache[p].settings, !.steady = cache[p].steady]
        <3>1. /\ read \in Run /\ read.pc = "decided"
              /\ read.used = cache[p].settings /\ read.steady = cache[p].steady
            BY <1>2 DEF Run, Entry
        <3>2. run' = [run EXCEPT ![r] = read]
            BY <2>2 DEF Decide
        <3> HIDE DEF read
        <3>3. QED BY <1>1, <3>1, <3>2 DEF CacheKnows
    <2>3. QED BY <2>1, <2>2
<1>4. run' \in [Runs -> Run] /\ run'[r] = x /\ \A n \in Runs \ {r} : run'[n] = run[n]
    BY <1>1, <1>3
<1>5. RunKnows(r)'
    BY <1>1, <1>3, <1>4 DEF RunKnows
<1>6. QED BY <1>1, <1>4, <1>5, RunFrame

\* What a run has read is kept with what is known of it.
LEMMA KeepKeeps ==
    ASSUME IInv, NEW r \in Runs, Keep(r)
    PROVE  IInv'
<1> DEFINE decided == [run[r] EXCEPT !.pc = "decided"]
           entry == [kept |-> TRUE, settings |-> run[r].used, steady |-> run[r].steady]
<1>1. /\ run \in [Runs -> Run] /\ cache \in [Processes -> Entry]
      /\ RunKnows(r) /\ run[r].pc = "loaded"
      /\ run' = [run EXCEPT ![r] = decided]
      /\ cache' = [cache EXCEPT ![run[r].process] = entry]
      /\ UNCHANGED <<row, versions, request, saves, alone, stands>>
    BY DEF IInv, TypeOK, Keep
<1>2. run[r] \in Run
    BY <1>1
<1>3. /\ decided \in Run /\ decided.pc = "decided" /\ decided.used = run[r].used
      /\ decided.steady = run[r].steady
      /\ entry \in Entry /\ entry.settings = run[r].used /\ entry.steady = run[r].steady
    BY <1>2 DEF Run, Entry
<1> HIDE DEF decided, entry
<1>4. run' \in [Runs -> Run] /\ run'[r] = decided
      /\ \A n \in Runs \ {r} : run'[n] = run[n]
    BY <1>1, <1>3
<1>5. RunKnows(r)'
    BY <1>1, <1>3, <1>4 DEF RunKnows
<1>6. cache' \in [Processes -> Entry]
    BY <1>1, <1>3
<1>7. ASSUME NEW p \in Processes PROVE cache'[p] = cache[p] \/ CacheKnows(p)'
    <2>1. CASE p = run[r].process
        BY <1>1, <1>3, <2>1 DEF RunKnows, CacheKnows
    <2>2. QED BY <1>1, <2>1
<1>8. QED BY <1>1, <1>4, <1>5, <1>6, <1>7, RunFrame

LEMMA ForgetKeeps ==
    ASSUME IInv, NEW p \in Processes, Forget(p)
    PROVE  IInv'
<1>1. /\ cache \in [Processes -> Entry] /\ run \in [Runs -> Run]
      /\ cache' = [cache EXCEPT ![p] = NoEntry]
      /\ UNCHANGED <<row, versions, request, run, saves, alone, stands>>
    BY DEF IInv, TypeOK, Forget
<1>2. NoEntry \in Entry /\ NoEntry.steady = FALSE
    BY InitialTyped DEF NoEntry, Entry
<1>3. /\ cache' \in [Processes -> Entry]
      /\ \A o \in Processes : cache'[o] = cache[o] \/ CacheKnows(o)'
    BY <1>1, <1>2 DEF CacheKnows
<1>4. QED BY <1>1, <1>3, RunFrame

\* The version in force is that of the row a run has used if no save came
\* between, and requests in progress have numbers above it.
LEMMA FinishKeeps ==
    ASSUME IInv, NEW r \in Runs, Finish(r)
    PROVE  IInv'
<1> DEFINE done == [run[r] EXCEPT !.pc = "done", !.version = ActiveVersion]
           unread == [run[r] EXCEPT !.pc = "done", !.steady = FALSE]
<1>1. /\ TypeOK /\ Counted /\ NumbersFit /\ RunKnows(r) /\ run[r].pc = "decided"
      /\ run' = [run EXCEPT ![r] = done] \/ run' = [run EXCEPT ![r] = unread]
      /\ UNCHANGED <<row, versions, request, cache, saves, alone, stands>>
    BY DEF IInv, Finish
<1>2. run[r] \in Run
    BY <1>1 DEF TypeOK
<1>3. ActiveVersion \in Nat /\ ActiveVersion \in 0..MaxSaves
    <2>1. ActiveVersion \in 0..Cardinality(versions)
        BY <1>1, ActiveVersionFacts DEF Counted
    <2>2. Cardinality(versions) \in Nat /\ Cardinality(Busy) \in Nat
        BY <1>1, FS_CardinalityType DEF Counted
    <2>3. QED BY <1>1, <2>1, <2>2, TradingConfigAssumption DEF Counted, TypeOK
<1>4. /\ done \in Run /\ done.pc = "done" /\ done.used = run[r].used
      /\ done.steady = run[r].steady /\ done.version = ActiveVersion
      /\ unread \in Run /\ unread.pc = "done" /\ unread.steady = FALSE
    BY <1>2, <1>3 DEF Run
<1> HIDE DEF done, unread
<1>5. run' \in [Runs -> Run] /\ run'[r] \in {done, unread} /\ \A n \in Runs \ {r} : run'[n] = run[n]
    BY <1>1, <1>4 DEF TypeOK
<1>6. RunKnows(r)'
    <2>1. SUFFICES ASSUME run'[r] = done, run[r].steady
                   PROVE  /\ Recorded(r)' # {}
                          /\ \A v \in Recorded(r)' : v.snapshot = run[r].used
                          /\ \A q \in Requests :
                                request[q].pc = "commit" => ActiveVersion < request[q].version
        BY <1>1, <1>4, <1>5 DEF RunKnows
    <2>2. stands /\ run[r].used = row
        BY <1>1, <2>1 DEF RunKnows
    <2>3. Recorded(r)' = {v \in versions : v.version = ActiveVersion}
        BY <1>1, <1>4, <1>5, <2>1 DEF Recorded
    <2>4. /\ \A v \in versions : v.version = ActiveVersion => v.snapshot = row
          /\ Cardinality({v \in versions : v.version = ActiveVersion}) = 1
        BY <2>2 DEF IInv, SoloSaveStands
    <2>5. {v \in versions : v.version = ActiveVersion} # {}
        BY <2>4, FS_EmptySet
    <2>6. \A q \in Requests : request[q].pc = "commit" => ActiveVersion < request[q].version
        BY <1>3, <2>2 DEF IInv, NumbersFollow
    <2>7. QED BY <2>2, <2>3, <2>4, <2>5, <2>6
<1>7. QED BY <1>1, <1>5, <1>6, RunFrame DEF IInv, TypeOK

-----------------------------------------------------------------------------
LEMMA InitEstablishes == Init => IInv
<1> SUFFICES ASSUME Init PROVE IInv
    OBVIOUS
<1>1. /\ row = Initial /\ versions = {} /\ saves = 0 /\ alone = {} /\ stands = FALSE
      /\ request = [q \in Requests |-> IdleRequest]
      /\ \A r \in Runs : run[r].pc = "ready"
      /\ \A p \in Processes : cache[p].steady = FALSE
    BY DEF Init, NewRun, NoEntry
<1>2. TypeOK
    <2>1. NewRun \in Run /\ NoEntry \in Entry
        BY InitialTyped, TradingConfigAssumption DEF NewRun, Run, NoEntry, Entry
    <2>2. run \in [Runs -> Run] /\ cache \in [Processes -> Entry]
        BY <2>1 DEF Init
    <2>3. request \in [Requests -> Request]
        BY <1>1, IdleTyped
    <2>4. saves \in 0..MaxSaves
        BY <1>1, TradingConfigAssumption
    <2>5. QED BY <1>1, <2>2, <2>3, <2>4, InitialTyped DEF TypeOK
<1>3. Busy = {} /\ \A q \in Requests : request[q].pc = "idle" /\ request[q].op = "replace"
    BY <1>1, IdleTyped DEF Busy
<1>4. Counted /\ NumbersFit
    BY <1>1, <1>3, FS_EmptySet DEF Counted, NumbersFit
<1>5. \A q \in Requests : RequestFits(q)
    BY <1>3 DEF RequestFits
<1>6. QED BY <1>1, <1>2, <1>4, <1>5 DEF IInv, SoloSaveStands, NumbersFollow,
                                        SettingsAreInHistory, RunKnows, CacheKnows

LEMMA StepKeeps == IInv /\ [Next]_vars => IInv'
<1> SUFFICES ASSUME IInv, [Next]_vars PROVE IInv'
    OBVIOUS
<1>1. ASSUME NEW q \in Requests, BeginReplace(q) \/ BeginScoped(q) \/ BeginRestore(q)
      PROVE  IInv'
    BY <1>1, BeginReplaceKeeps, BeginScopedKeeps, BeginRestoreKeeps
<1>2. ASSUME NEW q \in Requests, Number(q) \/ Commit(q) PROVE IInv'
    BY <1>2, NumberKeeps, CommitKeeps
<1>3. ASSUME NEW r \in Runs, Keep(r) \/ Finish(r) PROVE IInv'
    BY <1>3, KeepKeeps, FinishKeeps
<1>4. CASE UNCHANGED vars
    <2>1. Busy' = Busy /\ ActiveVersion' = ActiveVersion
        BY <1>4 DEF vars, Busy, ActiveVersion
    <2>2. /\ TypeOK' /\ Counted' /\ NumbersFit' /\ SettingsAreInHistory'
          /\ \A q \in Requests : RequestFits(q)'
        BY <1>4, <2>1 DEF vars, IInv, TypeOK, Counted, NumbersFit,
                          SettingsAreInHistory, RequestFits
    <2>3. /\ \A q \in alone' : AloneKnows(q)'
          /\ SoloSaveStands' /\ NumbersFollow'
        BY <1>4, <2>1 DEF vars, IInv, AloneKnows, SoloSaveStands, NumbersFollow
    <2>4. /\ \A r \in Runs : RunKnows(r)'
          /\ \A p \in Processes : CacheKnows(p)'
        BY <1>4 DEF vars, IInv, RunKnows, Recorded, CacheKnows
    <2>5. QED BY <2>2, <2>3, <2>4 DEF IInv
<1>5. ASSUME NEW p \in Processes, NEW r \in Runs, Load(r, p) \/ Decide(r, p)
      PROVE  IInv'
    BY <1>5, ReadKeeps
<1>6. ASSUME NEW p \in Processes, Forget(p) PROVE IInv'
    BY <1>6, ForgetKeeps
<1>7. QED BY <1>1, <1>2, <1>3, <1>4, <1>5, <1>6 DEF Next

\* The inductive invariant holds of every state of the specification.
THEOREM Invariance == Spec => []IInv
<1>1. QED BY InitEstablishes, StepKeeps, PTL DEF Spec

\* Types: in particular every number a save takes and every number a run
\* records is at most the number of saves (trading_config.py, connectors.py).
THEOREM TypeCorrect == Spec => []TypeOK
<1>1. IInv => TypeOK
    BY DEF IInv
<1>2. QED BY <1>1, Invariance, PTL

\* After a save that no other has overlapped, the highest version is one row,
\* and it holds the settings in force, until the next save commits.
THEOREM SoloSaveIsInForce == Spec => []SoloSaveStands
<1>1. IInv => SoloSaveStands
    BY DEF IInv
<1>2. QED BY <1>1, Invariance, PTL

\* The settings in force are always some version's, whatever saves overlap.
THEOREM SettingsRestorable == Spec => []SettingsAreInHistory
<1>1. IInv => SettingsAreInHistory
    BY DEF IInv
<1>2. QED BY <1>1, Invariance, PTL

\* The version a run records is that of the settings it has used, if nothing was
\* saved since they were read from the row, by it or by whoever has put them into
\* the cache of its process, no read has failed, and the last save before was
\* alone; also when requests that commit later double numbers or leave some out
\* (registry.py:2161, runtime_settings.py:42).
THEOREM RecordedVersionIsUsed == Spec => []RunVersionIsTheOneUsed
<1>1. IInv => RunVersionIsTheOneUsed
    BY DEF IInv, RunKnows, Recorded, RunVersionIsTheOneUsed
<1>2. QED BY <1>1, Invariance, PTL

\* A save of one profile that no other request has overlapped leaves all other
\* settings as they are (connectors.py:285-304).
THEOREM ScopedSaveIsScoped == Spec => ScopedSaveKeepsOthers
<1>1. ASSUME IInv, NEW q \in alone, Commit(q), request[q].op = "scoped",
             NEW s \in Scopes \ {request[q].scope}
      PROVE  row'[s] = row[s]
    <2>1. q \in Requests
        BY <1>1 DEF IInv, TypeOK
    <2>2. AloneKnows(q) /\ RequestFits(q)
        BY <1>1, <2>1 DEF IInv
    <2>3. request[q].new[s] = row[s]
        BY <1>1, <2>2 DEF AloneKnows, RequestFits
    <2>4. QED BY <1>1, <2>1, <2>3, CommitFacts
<1>2. IInv /\ [Next]_vars =>
          [\A q \in alone : Commit(q) /\ request[q].op = "scoped" =>
              \A s \in Scopes \ {request[q].scope} : row'[s] = row[s]]_vars
    BY <1>1
<1>3. QED BY <1>2, Invariance, PTL DEF Spec, ScopedSaveKeepsOthers
=============================================================================
