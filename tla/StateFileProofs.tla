--------------------------- MODULE StateFileProofs ---------------------------
(***************************************************************************)
(* What is proved about StateFile for any number of processes, any         *)
(* cadence and any length of time: the lock excludes as long as its file   *)
(* is not removed, the watermark is backed by the graph until somebody     *)
(* clears it, and a loop that is alone keeps its cadence across restarts.  *)
(***************************************************************************)
EXTENDS StateFile, TLAPS

\* Every step is one of these.
LEMMA Steps ==
  ASSUME [Next]_vars
  PROVE  \/ Tick
         \/ \E p \in Procs, f \in BOOLEAN : Acquire(p, f)
         \/ \E p \in Procs : Load(p) \/ Ingest(p) \/ SaveState(p) \/ Fail(p)
         \/ StartLoop \/ BeginCycle \/ SaveFullScanCadence \/ Skip \/ Crash
         \/ clearMemgraph \/ PurgeState \/ PurgeLock
         \/ UNCHANGED vars
  BY DEF Next, EtlStep, Loop

LEMMA InitType == Init => TypeOK
<1> SUFFICES ASSUME Init PROVE TypeOK
  OBVIOUS
<1>1. deltas \in 0 .. (FullScanEvery + 1)
  BY NumbersAssumption DEF Init
<1>2. NoState \in State /\ CadenceOf(NoState) \in Cadence
  BY DEF State, NoState, Cadence, CadenceOf
<1>3. /\ clock \in Nat /\ graph \in Nat /\ lockFile \in Nat \ {0}
      /\ phase \in {"down", "sleep", "saving", "etl"}
      /\ clearer \in {"none", "wiped", "purged", "over"}
  BY DEF Init
<1>4. forced \in BOOLEAN
  BY Zenon DEF Init
<1>5. /\ pc \in [Procs -> {"idle", "locked", "running", "done"}]
      /\ held \in [Procs -> Nat] /\ full \in [Procs -> BOOLEAN]
      /\ ts \in [Procs -> Nat]
  BY DEF Init
<1>6. file \in State /\ buf \in State /\ ls \in Cadence /\ st \in [Procs -> State]
  BY <1>2 DEF Init
<1> QED
  BY <1>1, <1>3, <1>4, <1>5, <1>6 DEF TypeOK

LEMMA NextType == TypeOK /\ [Next]_vars => TypeOK'
<1> SUFFICES ASSUME TypeOK, [Next]_vars PROVE TypeOK'
  OBVIOUS
<1> USE NumbersAssumption
    DEF TypeOK, State, NoState, Cadence, CadenceOf, runVars, loopVars
<1>1. CASE Tick
  BY <1>1 DEF Tick
<1>2. ASSUME NEW p \in Procs, NEW f \in BOOLEAN, Acquire(p, f)
      PROVE  TypeOK'
  BY <1>2 DEF Acquire
<1>3. ASSUME NEW p \in Procs, Load(p)
      PROVE  TypeOK'
  BY <1>3 DEF Load
<1>4. ASSUME NEW p \in Procs, Ingest(p)
      PROVE  TypeOK'
  BY <1>4 DEF Ingest, Latest
<1>5. ASSUME NEW p \in Procs, SaveState(p)
      PROVE  TypeOK'
  BY <1>5 DEF SaveState, Advanced, Release
<1>6. ASSUME NEW p \in Procs, Fail(p)
      PROVE  TypeOK'
  BY <1>6 DEF Fail, NotAdvanced, Release
<1>7. CASE StartLoop
  BY <1>7 DEF StartLoop
<1>8. CASE BeginCycle
  BY <1>8 DEF BeginCycle, ShouldForceFullScan, CountedCycle
<1>9. CASE SaveFullScanCadence
  BY <1>9 DEF SaveFullScanCadence, Merged
<1>10. CASE Skip
  BY <1>10 DEF Skip
<1>11. CASE Crash
  BY <1>11 DEF Crash
<1>12. CASE clearMemgraph \/ PurgeState \/ PurgeLock
  BY <1>12 DEF clearMemgraph, PurgeState, PurgeLock
<1>13. CASE UNCHANGED vars
  BY <1>13 DEF vars
<1> QED
  BY Steps, <1>1, <1>2, <1>3, <1>4, <1>5, <1>6, <1>7, <1>8, <1>9, <1>10,
     <1>11, <1>12, <1>13

\* The file, the buffers and the runs keep their types.
THEOREM TypeCorrect == Spec => []TypeOK
  BY InitType, NextType, PTL DEF Spec

-----------------------------------------------------------------------------
(***************************************************************************)
(* Exclusion.  A run holds the inode that is at the path, so that whoever  *)
(* opens the path meets its lock.                                          *)
(***************************************************************************)
Locked ==
  /\ \A p \in Procs : held[p] \in {0, lockFile}
  /\ \A p \in Procs : pc[p] # "idle" => held[p] = lockFile
  /\ \A p, q \in Procs : p # q => held[p] = 0 \/ held[q] = 0

LEMMA NextLocked == ~LockPurged /\ TypeOK /\ Locked /\ [Next]_vars => Locked'
<1> SUFFICES ASSUME ~LockPurged, TypeOK, Locked, [Next]_vars PROVE Locked'
  OBVIOUS
<1> USE DEF Locked, TypeOK, runVars
<1>1. ASSUME NEW p \in Procs, NEW f \in BOOLEAN, Acquire(p, f)
      PROVE  Locked'
  BY <1>1 DEF Acquire, LockFree
<1>2. ASSUME NEW p \in Procs, Load(p) \/ Ingest(p)
      PROVE  Locked'
  BY <1>2 DEF Load, Ingest
<1>3. ASSUME NEW p \in Procs, SaveState(p) \/ Fail(p)
      PROVE  Locked'
  BY <1>3 DEF SaveState, Fail, Release
<1>4. CASE Crash
  BY <1>4 DEF Crash, Procs
<1>5. CASE Tick \/ StartLoop \/ BeginCycle \/ SaveFullScanCadence \/ Skip
  BY <1>5 DEF Tick, StartLoop, BeginCycle, SaveFullScanCadence, Skip
<1>6. CASE clearMemgraph \/ PurgeState \/ PurgeLock
  BY <1>6 DEF clearMemgraph, PurgeState, PurgeLock
<1>7. CASE UNCHANGED vars
  BY <1>7 DEF vars
<1> QED
  BY Steps, <1>1, <1>2, <1>3, <1>4, <1>5, <1>6, <1>7

\* Unless clear-db removes the lock file, runs exclude each other: etlFileLock.
THEOREM Excludes == ~LockPurged => (Spec => []MutualExclusion)
<1> SUFFICES ASSUME ~LockPurged PROVE Spec => []MutualExclusion
  OBVIOUS
<1>1. Init => Locked
  BY DEF Init, Locked
<1>2. TypeOK /\ Locked => MutualExclusion
  BY DEF TypeOK, Locked, MutualExclusion
<1>3. TypeOK /\ Locked /\ [Next]_vars => Locked'
  BY NextLocked
<1> QED
  BY <1>1, <1>2, <1>3, TypeCorrect, PTL DEF Spec

-----------------------------------------------------------------------------
(***************************************************************************)
(* The watermark.  Whatever copy of the state is about to be written back, *)
(* its watermark is backed by the graph, because the graph only grows.     *)
(***************************************************************************)
Backed ==
  clearer = "none" =>
    /\ file.wm <= graph /\ buf.wm <= graph
    /\ \A p \in Procs : st[p].wm <= graph
    /\ \A p \in Procs : pc[p] = "done" => ts[p] <= graph

LEMMA NextBacked == TypeOK /\ Backed /\ [Next]_vars => Backed'
<1> SUFFICES ASSUME TypeOK, Backed, [Next]_vars, clearer' = "none"
             PROVE  Backed'
  BY DEF Backed
<1> USE DEF Backed, TypeOK, State, NoState, Cadence, runVars, loopVars
<1>1. ASSUME NEW p \in Procs, NEW f \in BOOLEAN, Acquire(p, f)
      PROVE  Backed'
  BY <1>1 DEF Acquire
<1>2. ASSUME NEW p \in Procs, Load(p)
      PROVE  Backed'
  BY <1>2 DEF Load
<1>3. ASSUME NEW p \in Procs, Ingest(p)
      PROVE  Backed'
  <2>1. Since(p) <= graph
    BY <1>3 DEF Since, Ingest
  <2>2. graph <= graph' /\ ts[p] <= graph' /\ graph' \in Nat
    BY <1>3, <2>1 DEF Ingest, Latest
  <2> QED
    BY <1>3, <2>2 DEF Ingest
<1>4. ASSUME NEW p \in Procs, SaveState(p)
      PROVE  Backed'
  BY <1>4 DEF SaveState, Advanced, Release
<1>5. ASSUME NEW p \in Procs, Fail(p)
      PROVE  Backed'
  BY <1>5 DEF Fail, NotAdvanced, Release
<1>6. CASE Tick \/ StartLoop \/ BeginCycle \/ Skip
  BY <1>6 DEF Tick, StartLoop, BeginCycle, Skip
<1>7. CASE SaveFullScanCadence
  BY <1>7 DEF SaveFullScanCadence, Merged
<1>8. CASE Crash
  BY <1>8 DEF Crash
<1>9. CASE clearMemgraph \/ PurgeState \/ PurgeLock
  BY <1>9 DEF clearMemgraph, PurgeState, PurgeLock
<1>10. CASE UNCHANGED vars
  BY <1>10 DEF vars
<1> QED
  BY Steps, <1>1, <1>2, <1>3, <1>4, <1>5, <1>6, <1>7, <1>8, <1>9, <1>10

\* Until clear-db begins, no interleaving of runs, cadence updates, failures
\* and crashes leaves a watermark ahead of the graph.
THEOREM WatermarkSafe == Spec => []WatermarkBacked
<1>1. Init => Backed
  BY DEF Init, Backed, NoState
<1>2. Backed => WatermarkBacked
  BY DEF Backed, WatermarkBacked
<1>3. TypeOK /\ Backed /\ [Next]_vars => Backed'
  BY NextBacked
<1> QED
  BY <1>1, <1>2, <1>3, TypeCorrect, PTL DEF Spec

-----------------------------------------------------------------------------
(***************************************************************************)
(* The cadence of a loop that is alone with its file.                      *)
(***************************************************************************)
Alone == Runners = {} /\ ~Clears /\ "save" \notin Faults

Kept ==
  /\ clearer = "none"
  /\ phase \in {"sleep", "etl"} => CadenceOf(file) = ls
  /\ phase = "saving" => /\ CadenceOf(buf) = CadenceOf(file)
                         /\ forced => ls.cycles = 0
                         /\ ~forced => ls.cycles = file.cycles + 1
                         /\ ~forced /\ FullScanEvery > 0
                              => file.cycles < FullScanEvery
  /\ pc[ooda] # "idle" => phase = "etl"
  /\ pc[ooda] \in {"running", "done"} => CadenceOf(st[ooda]) = CadenceOf(file)
  /\ FullScanEvery > 0 => /\ deltas <= file.cycles
                          /\ file.cycles <= FullScanEvery

LEMMA NextKept == Alone /\ TypeOK /\ Kept /\ [Next]_vars => Kept'
<1> SUFFICES ASSUME Alone, TypeOK, Kept, [Next]_vars PROVE Kept'
  OBVIOUS
<1> USE NumbersAssumption
    DEF Alone, Kept, TypeOK, State, NoState, Cadence, CadenceOf, runVars,
        loopVars
<1>0. \A p \in Procs : p = ooda
  BY DEF Procs
<1>1. ASSUME NEW p \in Procs, NEW f \in BOOLEAN, Acquire(p, f)
      PROVE  Kept'
  BY <1>0, <1>1 DEF Acquire
<1>2. ASSUME NEW p \in Procs, Load(p)
      PROVE  Kept'
  BY <1>0, <1>2 DEF Load
<1>3. ASSUME NEW p \in Procs, Ingest(p)
      PROVE  Kept'
  BY <1>0, <1>3 DEF Ingest
<1>4. ASSUME NEW p \in Procs, SaveState(p)
      PROVE  Kept'
  BY <1>0, <1>4 DEF SaveState, Advanced, Release
<1>5. ASSUME NEW p \in Procs, Fail(p)
      PROVE  Kept'
  BY <1>0, <1>5 DEF Fail, NotAdvanced, Release
<1>6. CASE Tick \/ StartLoop \/ Skip
  BY <1>6 DEF Tick, StartLoop, Skip
<1>7. CASE BeginCycle
  <2>1. ~ShouldForceFullScan /\ FullScanEvery > 0 => ls.cycles < FullScanEvery
    BY DEF ShouldForceFullScan
  <2>2. ShouldForceFullScan \in BOOLEAN
    BY DEF ShouldForceFullScan
  <2> QED
    BY <1>7, <2>1, <2>2 DEF BeginCycle, CountedCycle
<1>8. CASE SaveFullScanCadence
  BY <1>8 DEF SaveFullScanCadence, Merged
<1>9. CASE Crash
  BY <1>9 DEF Crash, Procs
<1>10. CASE clearMemgraph \/ PurgeState \/ PurgeLock
  BY <1>10 DEF clearMemgraph, PurgeState, PurgeLock
<1>11. CASE UNCHANGED vars
  BY <1>11 DEF vars
<1> QED
  BY Steps, <1>1, <1>2, <1>3, <1>4, <1>5, <1>6, <1>7, <1>8, <1>9, <1>10, <1>11

LEMMA InitKept == Init => Kept
  BY NumbersAssumption DEF Init, Kept, NoState, CadenceOf, Procs

LEMMA AlwaysKept == Alone => (Spec => []Kept)
<1> SUFFICES ASSUME Alone PROVE Spec => []Kept
  OBVIOUS
<1>1. TypeOK /\ Kept /\ [Next]_vars => Kept'
  BY NextKept
<1> QED
  BY <1>1, InitKept, TypeCorrect, PTL DEF Spec

\* "Persist BEFORE the ETL": for a loop that is alone, what a restart reads
\* is the cadence of the run that was interrupted.
THEOREM CadenceSafe == Alone => (Spec => []CadenceKept)
<1>1. Kept => CadenceKept
  BY DEF Kept, CadenceKept
<1> QED
  BY <1>1, AlwaysKept, PTL

\* For a loop that is alone, at most FullScanEvery cycles pass between two
\* forced full scans, however often it is restarted.
THEOREM FullScansDue == Alone => (Spec => []FullScanDue)
<1>1. TypeOK /\ Kept => FullScanDue
  BY NumbersAssumption DEF TypeOK, State, Kept, FullScanDue
<1> QED
  BY <1>1, AlwaysKept, TypeCorrect, PTL
=============================================================================
