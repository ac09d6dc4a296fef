------------------------------ MODULE StateFile ------------------------------
(***************************************************************************)
(* .state.json and .etl.lock, and the processes that use them: the OODA    *)
(* loop, ETL runs started by hand, and clear-db.  An ETL run reads the     *)
(* whole file when it begins and writes the whole file when it ends, under *)
(* the lock; the loop updates its full-scan cadence in the same file       *)
(* without the lock; clear-db removes the files without the lock.  A write *)
(* is a rename, hence atomic; a read and the write that follows are not.   *)
(*                                                                         *)
(* Module EtlIngest says what a run does to the graph.  Here the graph is  *)
(* one number, the time up to which it holds what Fleet reported, and the  *)
(* watermarks of the teams are one watermark.                              *)
(***************************************************************************)
EXTENDS Naturals

CONSTANTS
  Runners,        \* processes of "fleethound etl"
  ooda,           \* the OODA loop
  FullScanEvery,  \* OODA_FULL_SCAN_EVERY
  Threshold,      \* FullScanEvery * intervalSec * 1.5, in ticks of the clock
  MaxTime,        \* bound on the clock
  Clears,         \* clear-db may run
  LockPurged,     \* clear-db removes the lock file that the runs use
  Faults          \* a subset of FaultKinds

(***************************************************************************)
(* "etl": a run fails or its process dies, "save": SaveState fails,        *)
(* "auth": the loop's run ends before it takes the lock, "crash": the      *)
(* process of the loop dies.                                               *)
(***************************************************************************)
FaultKinds == {"etl", "save", "auth", "crash"}

ASSUME LoopAssumption == ooda \notin Runners
ASSUME NumbersAssumption == /\ FullScanEvery \in Nat
                            /\ Threshold \in Nat /\ MaxTime \in Nat
ASSUME SwitchesAssumption == /\ Clears \in BOOLEAN /\ LockPurged \in BOOLEAN
                             /\ Faults \subseteq FaultKinds

Procs == Runners \cup {ooda}

VARIABLES
  clock,
  file,      \* .state.json
  graph,     \* the graph holds what Fleet reported up to this time
  lockFile,  \* the inode behind .etl.lock
  pc,        \* the ETL run of each process
  held,      \* the inode a process holds the flock of; 0: none
  full,      \* cfg.FullScan
  st,        \* the state a run loaded
  ts,        \* the watermark it saves if it completes
  phase,     \* where the loop is
  ls,        \* loopState, the cadence in memory
  forced,    \* the current cycle is a forced full scan
  buf,       \* the state SaveFullScanCadence loaded
  clearer,   \* where clear-db is
  deltas     \* history: cycles since the last forced one (up to a bound)

runVars  == <<pc, held, full, st, ts>>
loopVars == <<phase, ls, forced, buf, deltas>>
vars == <<clock, file, graph, lockFile, runVars, loopVars, clearer>>

\* A missing file or key reads as zero; last = 0 is the empty string.
State == [wm : Nat, cycles : Nat, last : Nat]
NoState == [wm |-> 0, cycles |-> 0, last |-> 0]
Cadence == [cycles : Nat, last : Nat]
CadenceOf(s) == [cycles |-> s.cycles, last |-> s.last]

TypeOK ==
  /\ clock \in Nat /\ file \in State /\ graph \in Nat
  /\ lockFile \in Nat \ {0}
  /\ pc \in [Procs -> {"idle", "locked", "running", "done"}]
  /\ held \in [Procs -> Nat] /\ full \in [Procs -> BOOLEAN]
  /\ st \in [Procs -> State] /\ ts \in [Procs -> Nat]
  /\ phase \in {"down", "sleep", "saving", "etl"}
  /\ ls \in Cadence /\ forced \in BOOLEAN /\ buf \in State
  /\ clearer \in {"none", "wiped", "purged", "over"}
  /\ deltas \in 0 .. (FullScanEvery + 1)

Init ==
  /\ clock = 1 /\ file = NoState /\ graph = 0 /\ lockFile = 1
  /\ pc = [p \in Procs |-> "idle"] /\ held = [p \in Procs |-> 0]
  /\ full = [p \in Procs |-> FALSE]
  /\ st = [p \in Procs |-> NoState] /\ ts = [p \in Procs |-> 0]
  /\ phase = "down" /\ ls = CadenceOf(NoState) /\ forced = FALSE
  /\ buf = NoState /\ clearer = "none" /\ deltas = 0

Tick ==
  /\ clock < MaxTime
  /\ clock' = clock + 1
  /\ UNCHANGED <<file, graph, lockFile, runVars, loopVars, clearer>>

-----------------------------------------------------------------------------
(***************************************************************************)
(* An ETL run.  The loop's run starts in phase "etl" of a cycle.           *)
(***************************************************************************)
FreeAlways == TRUE  \* no flock
LockFree == \A q \in Procs : held[q] # lockFile

\* etlFileLock, on the file that is there now.
Acquire(p, f) ==
  /\ pc[p] = "idle" /\ LockFree
  /\ p = ooda => phase = "etl" /\ f = forced
  /\ pc' = [pc EXCEPT ![p] = "locked"]
  /\ held' = [held EXCEPT ![p] = lockFile]
  /\ full' = [full EXCEPT ![p] = f]
  /\ UNCHANGED <<clock, file, graph, lockFile, st, ts, loopVars, clearer>>

Load(p) ==
  /\ pc[p] = "locked"
  /\ pc' = [pc EXCEPT ![p] = "running"]
  /\ st' = [st EXCEPT ![p] = file]
  /\ ts' = [ts EXCEPT ![p] = clock]
  /\ UNCHANGED <<clock, file, graph, lockFile, held, full, loopVars, clearer>>

\* A complete run brings the graph from its watermark to its own time; on a
\* graph that ends before that watermark it leaves a gap.
Since(p) == IF full[p] THEN 0 ELSE st[p].wm
Latest(a, b) == IF a > b THEN a ELSE b

Ingest(p) ==
  /\ pc[p] = "running"
  /\ pc' = [pc EXCEPT ![p] = "done"]
  /\ graph' = IF Since(p) <= graph THEN Latest(graph, ts[p]) ELSE graph
  /\ UNCHANGED <<clock, file, lockFile, held, full, st, ts, loopVars, clearer>>

\* The lock is released and the loop goes to sleep.
Release(p) ==
  /\ pc' = [pc EXCEPT ![p] = "idle"]
  /\ held' = [held EXCEPT ![p] = 0]
  /\ full' = [full EXCEPT ![p] = FALSE]
  /\ st' = [st EXCEPT ![p] = NoState]
  /\ ts' = [ts EXCEPT ![p] = 0]
  /\ phase' = IF p = ooda THEN "sleep" ELSE phase
  /\ UNCHANGED <<clock, graph, lockFile, ls, forced, buf, deltas, clearer>>

AdvancedAfresh(p) == [NoState EXCEPT !.wm = ts[p]]  \* not the state it loaded
AdvancedOnly(p) == [wm |-> ts[p]]  \* the other keys are dropped
Advanced(p) == [st[p] EXCEPT !.wm = ts[p]]

SaveState(p) ==
  /\ pc[p] = "done"
  /\ \/ file' = Advanced(p)
     \/ "save" \in Faults /\ UNCHANGED file
  /\ Release(p)

AdvancedAnyway(p) == [st[p] EXCEPT !.wm = ts[p]]  \* failures are not consulted
\* An error, truncErr or failed hosts: the watermark stays.
NotAdvanced(p) == file

Fail(p) ==
  /\ "etl" \in Faults
  /\ pc[p] # "idle"
  /\ file' = NotAdvanced(p)
  /\ Release(p)

-----------------------------------------------------------------------------
(***************************************************************************)
(* The loop.  One process is its leader (module Leader); when that one     *)
(* dies another starts from the file.                                      *)
(***************************************************************************)
StartLoop ==
  /\ phase = "down"
  /\ phase' = "sleep" /\ ls' = CadenceOf(file)
  /\ UNCHANGED <<clock, file, graph, lockFile, runVars, forced, buf, deltas,
                 clearer>>

ForceLater ==  \* one cycle too late
  /\ FullScanEvery > 0
  /\ \/ ls.cycles > FullScanEvery
     \/ ls.last = 0
     \/ clock >= ls.last + Threshold

\* By count, or because the last one is missing or too long ago.
ShouldForceFullScan ==
  /\ FullScanEvery > 0
  /\ \/ ls.cycles >= FullScanEvery
     \/ ls.last = 0
     \/ clock >= ls.last + Threshold

UncountedCycle == [ls EXCEPT !.last = IF @ = 0 THEN clock ELSE @]
CountedCycle == [cycles |-> ls.cycles + 1,
                 last |-> IF ls.last = 0 THEN clock ELSE ls.last]

\* The head of runCycle, up to the LoadState in SaveFullScanCadence.
BeginCycle ==
  /\ phase = "sleep"
  /\ phase' = "saving"
  /\ forced' = ShouldForceFullScan
  /\ ls' = IF ShouldForceFullScan THEN [cycles |-> 0, last |-> clock]
                                  ELSE CountedCycle
  /\ buf' = file
  /\ UNCHANGED <<clock, file, graph, lockFile, runVars, deltas, clearer>>

\* The other keys are preserved.
Merged == [wm |-> buf.wm, cycles |-> ls.cycles, last |-> ls.last]

SaveFullScanCadence ==
  /\ phase = "saving"
  /\ \/ file' = Merged
     \/ "save" \in Faults /\ UNCHANGED file
  /\ phase' = "etl" /\ buf' = NoState
  /\ deltas' = IF forced THEN 0
               ELSE IF deltas > FullScanEvery THEN deltas ELSE deltas + 1
  /\ UNCHANGED <<clock, graph, lockFile, runVars, ls, forced, clearer>>

\* SkippedDueToLock, or no credentials.
Skip ==
  /\ phase = "etl" /\ pc[ooda] = "idle"
  /\ ~LockFree \/ "auth" \in Faults
  /\ phase' = "sleep"
  /\ UNCHANGED <<clock, file, graph, lockFile, runVars, ls, forced, buf,
                 deltas, clearer>>

Crash ==
  /\ "crash" \in Faults
  /\ phase # "down"
  /\ phase' = "down" /\ ls' = CadenceOf(NoState) /\ forced' = FALSE
  /\ buf' = NoState
  /\ pc' = [pc EXCEPT ![ooda] = "idle"] /\ held' = [held EXCEPT ![ooda] = 0]
  /\ full' = [full EXCEPT ![ooda] = FALSE]
  /\ st' = [st EXCEPT ![ooda] = NoState] /\ ts' = [ts EXCEPT ![ooda] = 0]
  /\ UNCHANGED <<clock, file, graph, lockFile, deltas, clearer>>

-----------------------------------------------------------------------------
(***************************************************************************)
(* clear-db: the graph, then the state file, then the lock file if it is   *)
(* at the path clear-db was given.  Once.                                  *)
(***************************************************************************)
clearMemgraph ==
  /\ Clears /\ clearer = "none"
  /\ graph' = 0 /\ clearer' = "wiped"
  /\ UNCHANGED <<clock, file, lockFile, runVars, loopVars>>

PurgeState ==
  /\ clearer = "wiped"
  /\ file' = NoState /\ clearer' = "purged"
  /\ UNCHANGED <<clock, graph, lockFile, runVars, loopVars>>

\* Whoever opens the path next creates a new inode.
PurgeLock ==
  /\ clearer = "purged"
  /\ lockFile' = IF LockPurged THEN lockFile + 1 ELSE lockFile
  /\ clearer' = "over"
  /\ UNCHANGED <<clock, file, graph, runVars, loopVars>>

EtlStep(p) == Load(p) \/ Ingest(p) \/ SaveState(p) \/ Fail(p)
Loop == StartLoop \/ BeginCycle \/ SaveFullScanCadence \/ Skip \/ Crash
LoopRun == EtlStep(ooda) \/ \E f \in BOOLEAN : Acquire(ooda, f)

Next ==
  \/ Tick
  \/ \E p \in Procs : EtlStep(p) \/ \E f \in BOOLEAN : Acquire(p, f)
  \/ Loop
  \/ clearMemgraph \/ PurgeState \/ PurgeLock

Spec == Init /\ [][Next]_vars

\* The loop and its runs go on, and its process is not killed every time at the
\* same line; nobody has to start a run by hand.
FairSpec == /\ Spec
            /\ WF_vars(StartLoop) /\ SF_vars(BeginCycle)
            /\ SF_vars(SaveFullScanCadence)
            /\ WF_vars(Skip) /\ WF_vars(LoopRun)

-----------------------------------------------------------------------------
\* Two runs never work at the same time (.etl.lock).
MutualExclusion ==
  \A p, q \in Procs : p # q => pc[p] = "idle" \/ pc[q] = "idle"

\* Until clear-db begins, the watermark in the file never claims more than the
\* graph holds, whatever the loop's updates of the file overwrite or are
\* overwritten by.
WatermarkBacked == clearer = "none" => file.wm <= graph

\* From the save on, during a cycle's run and after it, the file holds the
\* cadence the loop has in memory: a crash then does not repeat or postpone a
\* forced full scan.
CadenceKept == phase \in {"etl", "sleep"} => CadenceOf(file) = ls

\* At most FullScanEvery cycles in a row are not full scans, restarts included.
FullScanDue == FullScanEvery > 0 => deltas <= FullScanEvery

\* Forced full scans recur for ever, even when runs fail and the loop dies.
FullScansRecur == []<>(phase = "etl" /\ forced)
=============================================================================
