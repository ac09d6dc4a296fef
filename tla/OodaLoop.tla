------------------------------ MODULE OodaLoop ------------------------------
(***************************************************************************)
(* The OODA loop as a worker of the server: each server process tries the  *)
(* leader lock once, the one that gets it runs cycles for as long as it    *)
(* lives, sleeps until a deadline or a trigger, and mirrors its status to  *)
(* a file that the next leader starts from (internal/ooda, workerutil,     *)
(* server).  Servers are shut down, killed and started again.  The         *)
(* enricher and the extension worker are started, triggered and stopped by *)
(* the same code; what a cycle does to the state file is module StateFile. *)
(***************************************************************************)
EXTENDS Naturals, Sequences, FiniteSets

CONSTANTS
  Servers,     \* processes of "fleethound serve" on one config directory
  NoOne,       \* no holder of the lock
  Overlap,     \* a server may start while another one is up
  Interval,    \* IntervalSec, in ticks
  Cooldown,    \* OODAManualTriggerCooldown, in ticks
  CyclesKeep,  \* rows kept of the history
  MaxTime,     \* bound on the clock
  MaxStops,    \* bound on how often servers go down or cycles panic
  MaxRequests, \* bound on trigger requests under way
  Faults       \* what may fail, a subset of FaultKinds

(***************************************************************************)
(* "kill": the process dies, or StopWorkers gives up waiting.  "panic": a  *)
(* cycle panics and is recovered.  "findings", "append": the write of the  *)
(* findings, or of the history (its append or its trim), failed.           *)
(***************************************************************************)
FaultKinds == {"kill", "panic", "findings", "append"}

ASSUME ServersAssumption == NoOne \notin Servers
ASSUME NumbersAssumption == /\ Interval \in Nat \ {0} /\ Cooldown \in Nat
                            /\ CyclesKeep \in Nat \ {0} /\ MaxTime \in Nat
                            /\ MaxStops \in Nat /\ MaxRequests \in Nat
ASSUME SwitchesAssumption == Overlap \in BOOLEAN /\ Faults \subseteq FaultKinds

VARIABLES
  clock,
  srv,          \* each server process
  once,         \* how far its sync.Once has come
  lock,         \* the holder of the flock
  statusFile,   \* running and next_cycle_id of the status file
  mem,          \* sharedStatus of each process
  pc,           \* the loop of each process
  deadline, lastTrigger,  \* of SleepUntil
  cut,          \* the queries of Decide were cut short by a shutdown
  trigger,      \* mtime of the trigger file; only compared, so touches count
  touchedAt,    \* when that was
  requests,     \* trigger requests that passed the cooldown check
  findings,     \* the findings file
  cycles,       \* the ids in the history
  begun,        \* history variable: trigger when the last cycle began
  stops, crashes  \* history variables: how often; those of a kill or a panic

files == <<statusFile, findings, cycles>>
triggerVars == <<trigger, touchedAt, requests>>
sleepVars == <<deadline, lastTrigger>>
vars == <<clock, srv, once, lock, files, mem, pc, sleepVars, cut, triggerVars,
          begun, stops, crashes>>

Status == [running : BOOLEAN, next : Nat \ {0}]
NoStatus == [running |-> FALSE, next |-> 1]
Cycle == {"observe", "decide", "write", "append", "record"}
Active == {"start", "wake", "sleep"} \cup Cycle

TypeOK ==
  /\ clock \in Nat
  /\ srv \in [Servers -> {"down", "up", "stopping"}]
  /\ once \in [Servers -> {"no", "loaded", "leader", "follower"}]
  /\ lock \in Servers \cup {NoOne}
  /\ statusFile \in Status /\ mem \in [Servers -> Status]
  /\ pc \in [Servers -> Active \cup {"none", "done"}]
  /\ deadline \in [Servers -> Nat] /\ lastTrigger \in [Servers -> Nat]
  /\ cut \in [Servers -> BOOLEAN]
  /\ trigger \in Nat /\ touchedAt \in Nat /\ requests \in Nat
  /\ findings \in [id : Nat, cut : BOOLEAN]
  /\ cycles \in Seq(Nat \ {0}) /\ begun \in Nat
  /\ "append" \notin Faults => Len(cycles) <= CyclesKeep
  /\ stops \in Nat /\ crashes \in Nat

Init ==
  /\ clock = 1
  /\ srv = [s \in Servers |-> "down"] /\ once = [s \in Servers |-> "no"]
  /\ lock = NoOne
  /\ statusFile = NoStatus /\ mem = [s \in Servers |-> NoStatus]
  /\ pc = [s \in Servers |-> "none"]
  /\ deadline = [s \in Servers |-> 0] /\ lastTrigger = [s \in Servers |-> 0]
  /\ cut = [s \in Servers |-> FALSE]
  /\ trigger = 0 /\ touchedAt = 0 /\ requests = 0
  /\ findings = [id |-> 0, cut |-> FALSE] /\ cycles = <<>> /\ begun = 0
  /\ stops = 0 /\ crashes = 0

Tick ==
  /\ clock < MaxTime
  /\ clock' = clock + 1
  /\ UNCHANGED <<srv, once, lock, files, mem, pc, sleepVars, cut, triggerVars,
                 begun, stops, crashes>>

-----------------------------------------------------------------------------
(***************************************************************************)
(* Life of a server.                                                       *)
(***************************************************************************)
Boot(s) ==
  /\ srv[s] = "down"
  /\ Overlap \/ \A t \in Servers : srv[t] = "down"
  /\ srv' = [srv EXCEPT ![s] = "up"]
  /\ UNCHANGED <<clock, once, lock, files, mem, pc, sleepVars, cut,
                 triggerVars, begun, stops, crashes>>

PublishedOnLoad(s) == [statusFile EXCEPT !.running = FALSE]  \* flushed at once
\* newSharedStatus reads the file and deliberately does not write it.
LoadedFile(s) == statusFile

\* Start, called by a healthy probe or a request, once per process; requests
\* still being drained may call it in a server that is stopping.
newSharedStatus(s) ==
  /\ srv[s] # "down" /\ once[s] = "no"
  /\ once' = [once EXCEPT ![s] = "loaded"]
  /\ mem' = [mem EXCEPT ![s] = [statusFile EXCEPT !.running = FALSE]]
  /\ statusFile' = LoadedFile(s)
  /\ UNCHANGED <<clock, srv, lock, findings, cycles, pc, sleepVars, cut,
                 triggerVars, begun, stops, crashes>>

\* TryAcquireLock; the leader publishes itself, the others never try again.
Lead(s) ==
  /\ once[s] = "loaded" /\ lock = NoOne
  /\ once' = [once EXCEPT ![s] = "leader"]
  /\ lock' = s
  /\ mem' = [mem EXCEPT ![s].running = TRUE]
  /\ statusFile' = mem'[s]
  /\ pc' = [pc EXCEPT ![s] = "start"]
  /\ UNCHANGED <<clock, srv, findings, cycles, sleepVars, cut, triggerVars,
                 begun, stops, crashes>>

Follow(s) ==
  /\ once[s] = "loaded" /\ lock # NoOne
  /\ once' = [once EXCEPT ![s] = "follower"]
  /\ UNCHANGED <<clock, srv, lock, files, mem, pc, sleepVars, cut,
                 triggerVars, begun, stops, crashes>>

\* StopWorkers: the context of the workers is cancelled.
Shutdown(s) ==
  /\ srv[s] = "up" /\ stops < MaxStops
  /\ srv' = [srv EXCEPT ![s] = "stopping"]
  /\ stops' = stops + 1
  /\ UNCHANGED <<clock, once, lock, files, mem, pc, sleepVars, cut,
                 triggerVars, begun, crashes>>

ReleasedAtStop(s) == pc[s] \in Active \cup {"done"}  \* not waited for
\* The loop has ended.
Waited(s) == pc[s] = "done"

\* Handle.Wait closes the lock file.
Wait(s) ==
  /\ srv[s] = "stopping" /\ lock = s /\ Waited(s)
  /\ lock' = NoOne
  /\ UNCHANGED <<clock, srv, once, files, mem, pc, sleepVars, cut,
                 triggerVars, begun, stops, crashes>>

\* The end of a process frees its lock and loses its memory.
Ends(s) ==
  /\ srv' = [srv EXCEPT ![s] = "down"] /\ once' = [once EXCEPT ![s] = "no"]
  /\ lock' = IF lock = s THEN NoOne ELSE lock
  /\ mem' = [mem EXCEPT ![s] = NoStatus] /\ pc' = [pc EXCEPT ![s] = "none"]
  /\ deadline' = [deadline EXCEPT ![s] = 0]
  /\ lastTrigger' = [lastTrigger EXCEPT ![s] = 0]
  /\ cut' = [cut EXCEPT ![s] = FALSE]
  /\ UNCHANGED <<clock, files, triggerVars, begun>>

Exit(s) ==
  /\ srv[s] = "stopping" /\ pc[s] \in {"none", "done"}
  /\ Ends(s)
  /\ UNCHANGED <<stops, crashes>>

Kill(s) ==
  /\ "kill" \in Faults
  /\ srv[s] # "down" /\ stops < MaxStops
  /\ Ends(s)
  /\ stops' = stops + 1 /\ crashes' = crashes + 1

-----------------------------------------------------------------------------
(***************************************************************************)
(* FireTrigger: the cooldown is checked against the file's mtime, then the *)
(* file is touched.  Two touches never share an mtime.                     *)
(***************************************************************************)
CheckCooldown ==
  /\ \E s \in Servers : srv[s] = "up"
  /\ requests < MaxRequests
  /\ trigger = 0 \/ clock - touchedAt >= Cooldown
  /\ requests' = requests + 1
  /\ UNCHANGED <<clock, srv, once, lock, files, mem, pc, sleepVars, cut,
                 trigger, touchedAt, begun, stops, crashes>>

touch ==
  /\ requests > 0
  /\ requests' = requests - 1
  /\ trigger' = trigger + 1 /\ touchedAt' = clock
  /\ UNCHANGED <<clock, srv, once, lock, files, mem, pc, sleepVars, cut, begun,
                 stops, crashes>>

-----------------------------------------------------------------------------
(***************************************************************************)
(* The loop.  A cycle's id is the next_cycle_id in memory, which moves     *)
(* when the cycle is recorded.  last_phase, last_error, the counters and   *)
(* the audit line are left out.                                            *)
(***************************************************************************)
At(s, from, to) == pc[s] = from /\ pc' = [pc EXCEPT ![s] = to]
procVars == <<clock, srv, once, lock, triggerVars, stops, crashes>>

loop(s) ==
  /\ At(s, "start", "wake")
  /\ lastTrigger' = [lastTrigger EXCEPT ![s] = trigger]
  /\ UNCHANGED <<procVars, files, mem, deadline, cut, begun>>

BeginCycle(s) ==
  /\ srv[s] = "up"
  /\ At(s, "wake", "observe")
  /\ begun' = trigger
  /\ UNCHANGED <<procVars, files, mem, sleepVars, cut>>

ServedAtEnd(s) == trigger  \* what came during the cycle counts as served
\* SleepUntil goes on comparing with the mtime it was last woken by.
Served(s) == lastTrigger[s]

\* The cycle is over: sleep until the interval has passed.
EndCycle(s, from) ==
  /\ At(s, from, "sleep")
  /\ deadline' = [deadline EXCEPT ![s] = clock + Interval]
  /\ lastTrigger' = [lastTrigger EXCEPT ![s] = Served(s)]
  /\ cut' = [cut EXCEPT ![s] = FALSE]

NeverAbandons(s) == FALSE  \* the context is not looked at
\* A cancelled context is noticed after the ETL run and after the queries.
Abandons(s) == srv[s] = "stopping"

Abandon(s) ==
  /\ Abandons(s)
  /\ EndCycle(s, "observe") \/ EndCycle(s, "write")
  /\ UNCHANGED <<procVars, files, mem, begun>>

\* The ETL run, then the triggers of the other two workers.  Without
\* credentials nothing is run, and the context is not looked at either.
Orient(s) ==
  /\ At(s, "observe", "decide")
  /\ UNCHANGED <<procVars, files, mem, sleepVars, cut, begun>>

\* Queries fail under a cancelled context and leave their part empty.
decidePhase(s) ==
  /\ At(s, "decide", "write")
  /\ cut' = [cut EXCEPT ![s] = srv[s] = "stopping"]
  /\ UNCHANGED <<procVars, files, mem, sleepVars, begun>>

WriteFindings(s) ==
  /\ ~Abandons(s)
  /\ At(s, "write", "append")
  /\ \/ findings' = [id |-> mem[s].next, cut |-> cut[s]]
     \/ "findings" \in Faults /\ UNCHANGED findings
  /\ UNCHANGED <<procVars, statusFile, cycles, mem, sleepVars, cut, begun>>

TrimmedLate(q) == IF Len(q) > CyclesKeep + 1 THEN Tail(q) ELSE q  \* too late
\* trimJSONL keeps the last rows.
Trimmed(q) == IF Len(q) > CyclesKeep
              THEN SubSeq(q, Len(q) - CyclesKeep + 1, Len(q)) ELSE q

appendJSONL(s) ==
  /\ At(s, "append", "record")
  /\ \/ cycles' = Trimmed(Append(cycles, mem[s].next))
     \/ "append" \in Faults /\ cycles' \in {cycles, Append(cycles, mem[s].next)}
  /\ UNCHANGED <<procVars, statusFile, findings, mem, sleepVars, cut, begun>>

NextUnmoved(s) == mem[s].next  \* the id is not moved on
NextId(s) == mem[s].next + 1

recordCycle(s) ==
  /\ mem' = [mem EXCEPT ![s].next = NextId(s)]
  /\ statusFile' = mem'[s]
  /\ EndCycle(s, "record")
  /\ UNCHANGED <<procVars, findings, cycles, begun>>

\* The deferred recover flushes the status.
Panic(s) ==
  /\ "panic" \in Faults /\ stops < MaxStops
  /\ \E from \in Cycle : EndCycle(s, from)
  /\ statusFile' = mem[s]
  /\ stops' = stops + 1 /\ crashes' = crashes + 1
  /\ UNCHANGED <<clock, srv, once, lock, triggerVars, findings, cycles, mem,
                 begun>>

WakeByTrigger(s) ==
  /\ srv[s] = "up" /\ clock < deadline[s] /\ trigger > lastTrigger[s]
  /\ At(s, "sleep", "wake")
  /\ lastTrigger' = [lastTrigger EXCEPT ![s] = trigger]
  /\ UNCHANGED <<procVars, files, mem, deadline, cut, begun>>

\* The trigger is not looked at any more.
WakeByDeadline(s) ==
  /\ srv[s] = "up" /\ clock >= deadline[s]
  /\ At(s, "sleep", "wake")
  /\ UNCHANGED <<procVars, files, mem, sleepVars, cut, begun>>

LoopExits(s) ==
  /\ srv[s] = "stopping"
  /\ At(s, "sleep", "done") \/ At(s, "wake", "done")
  /\ mem' = [mem EXCEPT ![s].running = FALSE]
  /\ statusFile' = mem'[s]
  /\ UNCHANGED <<procVars, findings, cycles, sleepVars, cut, begun>>

Start(s) == newSharedStatus(s) \/ Lead(s) \/ Follow(s)

runCycle(s) ==
  \/ BeginCycle(s) \/ Abandon(s) \/ Orient(s) \/ decidePhase(s)
  \/ WriteFindings(s) \/ appendJSONL(s) \/ recordCycle(s)

Loop(s) == \/ loop(s) \/ runCycle(s)
           \/ WakeByTrigger(s) \/ WakeByDeadline(s) \/ LoopExits(s)

Next ==
  \/ Tick \/ CheckCooldown \/ touch
  \/ \E s \in Servers : \/ Boot(s) \/ Start(s) \/ Loop(s) \/ Panic(s)
                        \/ Shutdown(s) \/ Wait(s) \/ Exit(s) \/ Kill(s)

Spec == Init /\ [][Next]_vars

(***************************************************************************)
(* A server that is down is started again, is probed, and goes on; time    *)
(* need not pass.                                                          *)
(***************************************************************************)
FairSpec ==
  /\ Spec
  /\ \A s \in Servers : WF_vars(Boot(s) \/ Start(s) \/ Loop(s) \/ Exit(s))

-----------------------------------------------------------------------------
\* At most one server runs the loop.
OneLoop ==
  \A s, t \in Servers : pc[s] \in Active /\ pc[t] \in Active => s = t

\* While a loop runs, the status file says so: neither a server that is not
\* the leader nor one that is stopping writes over it.
LoopShown == \A s \in Servers : pc[s] \in Active => statusFile.running

\* With one server at a time, ids in the history never go back, and only a
\* kill or a panic can make an id appear twice, once each.
HistoryOrdered ==
  ~Overlap =>
    /\ \A i, j \in DOMAIN cycles : i < j => cycles[i] <= cycles[j]
    /\ Len(cycles) <= Cardinality({cycles[i] : i \in DOMAIN cycles}) + crashes

\* A shutdown does not replace the findings by what its cut-short queries left.
FindingsWhole == ~findings.cut

\* A trigger is followed by a cycle that begins after it, however long the
\* interval, whatever the loop was doing, and across restarts.
TriggerServed ==
  \A n \in 1 .. (MaxTime + MaxRequests) : trigger >= n ~> begun >= n
=============================================================================
