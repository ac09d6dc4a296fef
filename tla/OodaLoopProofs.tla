--------------------------- MODULE OodaLoopProofs ---------------------------
(***************************************************************************)
(* What is proved about OodaLoop for any number of servers, started,       *)
(* stopped and killed at any time: one of them runs the loop, the status   *)
(* file says so, a shutdown leaves the findings alone, and the history is  *)
(* in order.                                                               *)
(***************************************************************************)
EXTENDS OodaLoop, SequenceTheorems, FiniteSetTheorems, TLAPS

\* Every step is one of these.
LEMMA Steps ==
  ASSUME [Next]_vars
  PROVE  \/ Tick \/ CheckCooldown \/ touch \/ UNCHANGED vars
         \/ \E s \in Servers :
              \/ Boot(s) \/ newSharedStatus(s) \/ Lead(s) \/ Follow(s)
              \/ Shutdown(s) \/ Wait(s) \/ Exit(s) \/ Kill(s)
              \/ loop(s) \/ BeginCycle(s) \/ Abandon(s) \/ Orient(s)
              \/ decidePhase(s) \/ WriteFindings(s) \/ appendJSONL(s)
              \/ recordCycle(s) \/ Panic(s) \/ WakeByTrigger(s)
              \/ WakeByDeadline(s) \/ LoopExits(s)
  BY DEF Next, Start, Loop, runCycle

-----------------------------------------------------------------------------
(***************************************************************************)
(* Types.                                                                  *)
(***************************************************************************)
\* A row more and the trim leave a history, at most CyclesKeep rows if there
\* were no more before.
LEMMA TrimmedHistory ==
  ASSUME NEW q \in Seq(Nat \ {0}), NEW n \in Nat \ {0}
  PROVE  /\ Append(q, n) \in Seq(Nat \ {0})
         /\ Trimmed(Append(q, n)) \in Seq(Nat \ {0})
         /\ Len(Trimmed(Append(q, n))) <= CyclesKeep
<1> DEFINE r == Append(q, n)
           from == Len(r) - CyclesKeep + 1
<1>1. r \in Seq(Nat \ {0}) /\ Len(r) = Len(q) + 1
  BY AppendProperties
<1>2. CASE Len(r) > CyclesKeep
  <2>1. Len(r) \in Nat /\ from \in 1 .. Len(r)
    BY <1>1, <1>2, NumbersAssumption
  <2>2. \A i \in from .. Len(r) : r[i] \in Nat \ {0}
    BY <1>1, <2>1, ElementOfSeq
  <2> HIDE DEF r
  <2>3. /\ SubSeq(r, from, Len(r)) \in Seq(Nat \ {0})
        /\ Len(SubSeq(r, from, Len(r))) = Len(r) - from + 1
    BY <2>1, <2>2, SubSeqProperties
  <2>4. Len(r) - from + 1 = CyclesKeep
    BY <2>1, NumbersAssumption
  <2>5. Trimmed(r) = SubSeq(r, from, Len(r))
    BY <1>2 DEF Trimmed
  <2>6. Trimmed(r) \in Seq(Nat \ {0}) /\ Len(Trimmed(r)) <= CyclesKeep
    BY <2>3, <2>4, <2>5, NumbersAssumption
  <2> QED
    BY <1>1, <2>6 DEF r
<1>3. CASE ~(Len(r) > CyclesKeep)
  <2>1. Trimmed(r) = r
    BY <1>3 DEF Trimmed
  <2> QED
    BY <1>1, <1>3, <2>1, NumbersAssumption
<1> QED
  BY <1>2, <1>3

LEMMA InitType == Init => TypeOK
<1> SUFFICES ASSUME Init PROVE TypeOK
  OBVIOUS
<1>1. NoStatus \in Status
  BY DEF NoStatus, Status
<1>2. cycles \in Seq(Nat \ {0}) /\ Len(cycles) <= CyclesKeep
  BY NumbersAssumption DEF Init
<1> QED
  BY <1>1, <1>2 DEF Init, TypeOK

LEMMA NextType == TypeOK /\ [Next]_vars => TypeOK'
<1> SUFFICES ASSUME TypeOK, [Next]_vars PROVE TypeOK'
  OBVIOUS
<1> USE NumbersAssumption DEF TypeOK, files, triggerVars, sleepVars
<1>1. CASE Tick \/ CheckCooldown \/ touch
  BY <1>1, SMTT(30) DEF Tick, CheckCooldown, touch
<1>2. ASSUME NEW s \in Servers, Boot(s)
      PROVE  TypeOK'
  BY <1>2 DEF Boot
<1>3. ASSUME NEW s \in Servers, Shutdown(s)
      PROVE  TypeOK'
  BY <1>3 DEF Shutdown
<1>4. ASSUME NEW s \in Servers, newSharedStatus(s)
      PROVE  TypeOK'
  <2>1. mem' \in [Servers -> Status]
    BY <1>4 DEF newSharedStatus, Status
  <2>2. statusFile' \in Status
    BY <1>4 DEF newSharedStatus, LoadedFile, Status
  <2>3. once' \in [Servers -> {"no", "loaded", "leader", "follower"}]
    BY <1>4 DEF newSharedStatus
  <2> QED
    BY <1>4, <2>1, <2>2, <2>3 DEF newSharedStatus
<1>5. ASSUME NEW s \in Servers, Lead(s)
      PROVE  TypeOK'
  <2>1. mem' \in [Servers -> Status]
    BY <1>5 DEF Lead, Status
  <2>2. statusFile' \in Status
    BY <1>5 DEF Lead, Status
  <2>3. once' \in [Servers -> {"no", "loaded", "leader", "follower"}]
    BY <1>5 DEF Lead
  <2>4. pc' \in [Servers -> Active \cup {"none", "done"}]
    BY <1>5 DEF Lead, Active
  <2> QED
    BY <1>5, <2>1, <2>2, <2>3, <2>4 DEF Lead
<1>6. ASSUME NEW s \in Servers, Follow(s)
      PROVE  TypeOK'
  BY <1>6 DEF Follow
<1>7. ASSUME NEW s \in Servers, Wait(s)
      PROVE  TypeOK'
  BY <1>7 DEF Wait
<1>8. ASSUME NEW s \in Servers, Ends(s)
      PROVE  /\ mem' \in [Servers -> Status] /\ cut' \in [Servers -> BOOLEAN]
             /\ deadline' \in [Servers -> Nat]
             /\ lastTrigger' \in [Servers -> Nat]
             /\ pc' \in [Servers -> Active \cup {"none", "done"}]
             /\ lock' \in Servers \cup {NoOne}
  <2>1. mem' \in [Servers -> Status]
    BY <1>8 DEF Ends, Status, NoStatus
  <2>2. cut' \in [Servers -> BOOLEAN]
    BY <1>8 DEF Ends
  <2>3. deadline' \in [Servers -> Nat] /\ lastTrigger' \in [Servers -> Nat]
    BY <1>8 DEF Ends
  <2>4. pc' \in [Servers -> Active \cup {"none", "done"}]
    BY <1>8 DEF Ends
  <2> QED
    BY <1>8, <2>1, <2>2, <2>3, <2>4 DEF Ends
<1>9. ASSUME NEW s \in Servers, Exit(s)
      PROVE  TypeOK'
  <2>1. mem' \in [Servers -> Status] /\ cut' \in [Servers -> BOOLEAN]
    BY <1>9, <1>8 DEF Exit
  <2>2. deadline' \in [Servers -> Nat] /\ lastTrigger' \in [Servers -> Nat]
    BY <1>9, <1>8 DEF Exit
  <2>3. pc' \in [Servers -> Active \cup {"none", "done"}]
    BY <1>9, <1>8 DEF Exit
  <2> QED
    BY <1>9, <2>1, <2>2, <2>3 DEF Exit, Ends
<1>10. ASSUME NEW s \in Servers, Kill(s)
       PROVE  TypeOK'
  <2>1. mem' \in [Servers -> Status] /\ cut' \in [Servers -> BOOLEAN]
    BY <1>10, <1>8 DEF Kill
  <2>2. deadline' \in [Servers -> Nat] /\ lastTrigger' \in [Servers -> Nat]
    BY <1>10, <1>8 DEF Kill
  <2>3. pc' \in [Servers -> Active \cup {"none", "done"}]
    BY <1>10, <1>8 DEF Kill
  <2> QED
    BY <1>10, <2>1, <2>2, <2>3 DEF Kill, Ends
<1>11. ASSUME NEW s \in Servers, loop(s)
       PROVE  TypeOK'
  <2>1. pc' \in [Servers -> Active \cup {"none", "done"}]
    BY <1>11 DEF loop, At, Active, Cycle
  <2> QED
    BY <1>11, <2>1 DEF loop, procVars
<1>12. ASSUME NEW s \in Servers, BeginCycle(s)
       PROVE  TypeOK'
  <2>1. pc' \in [Servers -> Active \cup {"none", "done"}]
    BY <1>12 DEF BeginCycle, At, Active, Cycle
  <2> QED
    BY <1>12, <2>1 DEF BeginCycle, procVars
<1>13. ASSUME NEW s \in Servers, Orient(s)
       PROVE  TypeOK'
  <2>1. pc' \in [Servers -> Active \cup {"none", "done"}]
    BY <1>13 DEF Orient, At, Active, Cycle
  <2> QED
    BY <1>13, <2>1 DEF Orient, procVars
<1>14. ASSUME NEW s \in Servers, NEW from, EndCycle(s, from)
       PROVE  /\ pc' \in [Servers -> Active \cup {"none", "done"}]
              /\ deadline' \in [Servers -> Nat]
              /\ lastTrigger' \in [Servers -> Nat]
              /\ cut' \in [Servers -> BOOLEAN]
  <2>1. pc' \in [Servers -> Active \cup {"none", "done"}]
    BY <1>14 DEF EndCycle, At, Active
  <2>2. deadline' \in [Servers -> Nat] /\ lastTrigger' \in [Servers -> Nat]
    BY <1>14 DEF EndCycle, Served
  <2>3. cut' \in [Servers -> BOOLEAN]
    BY <1>14 DEF EndCycle
  <2> QED
    BY <2>1, <2>2, <2>3
<1>15. ASSUME NEW s \in Servers, Abandon(s)
       PROVE  TypeOK'
  <2>1. pc' \in [Servers -> Active \cup {"none", "done"}]
    BY <1>15, <1>14 DEF Abandon
  <2>2. deadline' \in [Servers -> Nat] /\ lastTrigger' \in [Servers -> Nat]
    BY <1>15, <1>14 DEF Abandon
  <2>3. cut' \in [Servers -> BOOLEAN]
    BY <1>15, <1>14 DEF Abandon
  <2> QED
    BY <1>15, <2>1, <2>2, <2>3 DEF Abandon, procVars
<1>16. ASSUME NEW s \in Servers, decidePhase(s)
       PROVE  TypeOK'
  <2>1. pc' \in [Servers -> Active \cup {"none", "done"}]
    BY <1>16 DEF decidePhase, At, Active, Cycle
  <2>2. cut' \in [Servers -> BOOLEAN]
    BY <1>16 DEF decidePhase
  <2> QED
    BY <1>16, <2>1, <2>2 DEF decidePhase, procVars
<1>17. ASSUME NEW s \in Servers, WriteFindings(s)
       PROVE  TypeOK'
  <2>1. pc' \in [Servers -> Active \cup {"none", "done"}]
    BY <1>17 DEF WriteFindings, At, Active, Cycle
  <2>2. findings' \in [id : Nat, cut : BOOLEAN]
    BY <1>17 DEF WriteFindings, Status
  <2> QED
    BY <1>17, <2>1, <2>2 DEF WriteFindings, procVars
<1>18. ASSUME NEW s \in Servers, appendJSONL(s)
       PROVE  TypeOK'
  <2>1. pc' \in [Servers -> Active \cup {"none", "done"}]
    BY <1>18 DEF appendJSONL, At, Active, Cycle
  <2>2. mem[s].next \in Nat \ {0}
    BY <1>18 DEF Status
  <2>3. cycles' \in Seq(Nat \ {0})
    <3>1. cycles' \in {Trimmed(Append(cycles, mem[s].next)), cycles,
                      Append(cycles, mem[s].next)}
      BY <1>18 DEF appendJSONL
    <3>2. /\ Trimmed(Append(cycles, mem[s].next)) \in Seq(Nat \ {0})
          /\ Append(cycles, mem[s].next) \in Seq(Nat \ {0})
          /\ cycles \in Seq(Nat \ {0})
      BY <2>2, TrimmedHistory
    <3> QED
      BY <3>1, <3>2
  <2>4. "append" \notin Faults => Len(cycles') <= CyclesKeep
    <3>1. "append" \notin Faults =>
            cycles' = Trimmed(Append(cycles, mem[s].next))
      BY <1>18 DEF appendJSONL
    <3>2. Len(Trimmed(Append(cycles, mem[s].next))) <= CyclesKeep
      BY <2>2, TrimmedHistory
    <3> QED
      BY <3>1, <3>2
  <2> QED
    BY <1>18, <2>1, <2>2, <2>3, <2>4 DEF appendJSONL, procVars
<1>19. ASSUME NEW s \in Servers, recordCycle(s)
       PROVE  TypeOK'
  <2>1. pc' \in [Servers -> Active \cup {"none", "done"}]
    BY <1>19, <1>14 DEF recordCycle
  <2>2. deadline' \in [Servers -> Nat] /\ lastTrigger' \in [Servers -> Nat]
    BY <1>19, <1>14 DEF recordCycle
  <2>3. cut' \in [Servers -> BOOLEAN]
    BY <1>19, <1>14 DEF recordCycle
  <2>4. mem' \in [Servers -> Status]
    <3>1. NextId(s) \in Nat \ {0}
      BY DEF NextId, Status
    <3>2. [mem[s] EXCEPT !.next = NextId(s)] \in Status
      BY <3>1 DEF Status
    <3> QED
      BY <1>19, <3>2 DEF recordCycle
  <2>5. statusFile' \in Status
    BY <1>19, <2>4 DEF recordCycle, Status
  <2> QED
    BY <1>19, <2>1, <2>2, <2>3, <2>4, <2>5 DEF recordCycle, procVars
<1>20. ASSUME NEW s \in Servers, Panic(s)
       PROVE  TypeOK'
  <2>1. pc' \in [Servers -> Active \cup {"none", "done"}]
    BY <1>20, <1>14 DEF Panic
  <2>2. deadline' \in [Servers -> Nat] /\ lastTrigger' \in [Servers -> Nat]
    BY <1>20, <1>14 DEF Panic
  <2>3. cut' \in [Servers -> BOOLEAN]
    BY <1>20, <1>14 DEF Panic
  <2> QED
    BY <1>20, <2>1, <2>2, <2>3 DEF Panic
<1>21. ASSUME NEW s \in Servers, WakeByTrigger(s)
       PROVE  TypeOK'
  <2>1. pc' \in [Servers -> Active \cup {"none", "done"}]
    BY <1>21 DEF WakeByTrigger, At, Active
  <2> QED
    BY <1>21, <2>1 DEF WakeByTrigger, procVars
<1>22. ASSUME NEW s \in Servers, WakeByDeadline(s)
       PROVE  TypeOK'
  <2>1. pc' \in [Servers -> Active \cup {"none", "done"}]
    BY <1>22 DEF WakeByDeadline, At, Active
  <2> QED
    BY <1>22, <2>1 DEF WakeByDeadline, procVars
<1>23. ASSUME NEW s \in Servers, LoopExits(s)
       PROVE  TypeOK'
  <2>1. pc' \in [Servers -> Active \cup {"none", "done"}]
    BY <1>23 DEF LoopExits, At
  <2>2. mem' \in [Servers -> Status]
    BY <1>23 DEF LoopExits, Status
  <2>3. statusFile' \in Status
    BY <1>23 DEF LoopExits, Status
  <2> QED
    BY <1>23, <2>1, <2>2, <2>3 DEF LoopExits, procVars
<1>24. CASE UNCHANGED vars
  BY <1>24 DEF vars
<1> QED
    BY Steps, <1>1, <1>2, <1>3, <1>4, <1>5, <1>6, <1>7, <1>9, <1>10, <1>11,
     <1>12, <1>13, <1>15, <1>16, <1>17, <1>18, <1>19, <1>20, <1>21, <1>22,
     <1>23, <1>24

\* Every variable has its type, and a history whose writes do not fail never
\* has more than CyclesKeep rows (appendJSONL, trimJSONL).
THEOREM TypeCorrect == Spec => []TypeOK
  BY InitType, NextType, PTL DEF Spec

-----------------------------------------------------------------------------
(***************************************************************************)
(* Leadership.  A loop holds the lock, is its process's only one, and has  *)
(* published itself; nobody writes the status file but the loop.           *)
(***************************************************************************)
Elected == \A s \in Servers : pc[s] # "none" => once[s] = "leader"
Holds   == \A s \in Servers : pc[s] \in Active => lock = s
Shown   == \A s \in Servers :
             pc[s] \in Active => mem[s].running /\ statusFile.running
Leadership == TypeOK /\ Elected /\ Holds /\ Shown

LEMMA InitLeadership == Init => Leadership
<1> SUFFICES ASSUME Init PROVE Elected /\ Holds /\ Shown
  BY InitType DEF Leadership
<1> QED
  BY DEF Init, Elected, Holds, Shown, Active, Cycle

LEMMA NextLeadership == Leadership /\ [Next]_vars => Leadership'
<1> SUFFICES ASSUME Leadership, [Next]_vars PROVE (Elected /\ Holds /\ Shown)'
  BY NextType DEF Leadership
<1>0. /\ Elected /\ Holds /\ Shown
      /\ mem \in [Servers -> Status] /\ statusFile \in Status
      /\ pc \in [Servers -> Active \cup {"none", "done"}]
      /\ once \in [Servers -> {"no", "loaded", "leader", "follower"}]
      /\ lock \in Servers \cup {NoOne}
  BY DEF Leadership, TypeOK
<1> USE <1>0, ServersAssumption
    DEF Status, NoStatus, Elected, Holds, Shown, Active, Cycle, files,
        triggerVars, sleepVars, procVars, At, EndCycle
<1>1. CASE Tick \/ CheckCooldown \/ touch
  BY <1>1 DEF Tick, CheckCooldown, touch
<1>2. ASSUME NEW s \in Servers, Boot(s)
      PROVE  (Elected /\ Holds /\ Shown)'
  BY <1>2 DEF Boot
<1>3. ASSUME NEW s \in Servers, Shutdown(s)
      PROVE  (Elected /\ Holds /\ Shown)'
  BY <1>3 DEF Shutdown
<1>4. ASSUME NEW s \in Servers, newSharedStatus(s)
      PROVE  (Elected /\ Holds /\ Shown)'
  BY <1>4 DEF newSharedStatus, LoadedFile
<1>5. ASSUME NEW s \in Servers, Lead(s)
      PROVE  (Elected /\ Holds /\ Shown)'
  BY <1>5 DEF Lead
<1>6. ASSUME NEW s \in Servers, Follow(s)
      PROVE  (Elected /\ Holds /\ Shown)'
  BY <1>6 DEF Follow
<1>7. ASSUME NEW s \in Servers, Wait(s)
      PROVE  (Elected /\ Holds /\ Shown)'
  BY <1>7 DEF Wait, Waited
<1>8. ASSUME NEW s \in Servers, Exit(s)
      PROVE  (Elected /\ Holds /\ Shown)'
  BY <1>8 DEF Exit, Ends
<1>9. ASSUME NEW s \in Servers, Kill(s)
      PROVE  (Elected /\ Holds /\ Shown)'
  BY <1>9 DEF Kill, Ends
<1>10. ASSUME NEW s \in Servers, loop(s)
       PROVE  (Elected /\ Holds /\ Shown)'
  BY <1>10 DEF loop
<1>11. ASSUME NEW s \in Servers, BeginCycle(s)
       PROVE  (Elected /\ Holds /\ Shown)'
  BY <1>11 DEF BeginCycle
<1>12. ASSUME NEW s \in Servers, Orient(s)
       PROVE  (Elected /\ Holds /\ Shown)'
  BY <1>12 DEF Orient
<1>13. ASSUME NEW s \in Servers, Abandon(s)
       PROVE  (Elected /\ Holds /\ Shown)'
  BY <1>13 DEF Abandon
<1>14. ASSUME NEW s \in Servers, decidePhase(s)
       PROVE  (Elected /\ Holds /\ Shown)'
  BY <1>14 DEF decidePhase
<1>15. ASSUME NEW s \in Servers, WriteFindings(s)
       PROVE  (Elected /\ Holds /\ Shown)'
  BY <1>15 DEF WriteFindings
<1>16. ASSUME NEW s \in Servers, appendJSONL(s)
       PROVE  (Elected /\ Holds /\ Shown)'
  BY <1>16 DEF appendJSONL
<1>17. ASSUME NEW s \in Servers, recordCycle(s)
       PROVE  (Elected /\ Holds /\ Shown)'
  BY <1>17 DEF recordCycle
<1>18. ASSUME NEW s \in Servers, Panic(s)
       PROVE  (Elected /\ Holds /\ Shown)'
  BY <1>18 DEF Panic, Cycle
<1>19. ASSUME NEW s \in Servers, WakeByTrigger(s)
       PROVE  (Elected /\ Holds /\ Shown)'
  BY <1>19 DEF WakeByTrigger
<1>20. ASSUME NEW s \in Servers, WakeByDeadline(s)
       PROVE  (Elected /\ Holds /\ Shown)'
  BY <1>20 DEF WakeByDeadline
<1>21. ASSUME NEW s \in Servers, LoopExits(s)
       PROVE  (Elected /\ Holds /\ Shown)'
  BY <1>21 DEF LoopExits
<1>22. CASE UNCHANGED vars
  BY <1>22 DEF vars
<1> QED
    BY Steps, <1>1, <1>2, <1>3, <1>4, <1>5, <1>6, <1>7, <1>8, <1>9, <1>10,
     <1>11, <1>12, <1>13, <1>14, <1>15, <1>16, <1>17, <1>18, <1>19, <1>20,
     <1>21, <1>22

\* At most one server runs the loop, through shutdowns, kills and restarts:
\* the lock is given up when the loop has ended, not when it is told to.
THEOREM OneLeader == Spec => []OneLoop
<1>1. Leadership => OneLoop
  BY DEF Leadership, Holds, OneLoop
<1> QED
  BY <1>1, InitLeadership, NextLeadership, PTL DEF Spec

\* While a loop runs the status file says running: a server that only looks
\* at the file on its way to the lock never writes it.
THEOREM LeaderShown == Spec => []LoopShown
<1>1. Leadership => LoopShown
  BY DEF Leadership, Shown, LoopShown
<1> QED
  BY <1>1, InitLeadership, NextLeadership, PTL DEF Spec

-----------------------------------------------------------------------------
(***************************************************************************)
(* Findings.  Queries are cut short only in a server that is stopping, and *)
(* its cycle ends before it writes.                                        *)
(***************************************************************************)
CutStops == \A s \in Servers :
              cut[s] => pc[s] = "write" /\ srv[s] = "stopping"
Whole == Leadership /\ CutStops /\ FindingsWhole

LEMMA InitWhole == Init => Whole
<1> SUFFICES ASSUME Init PROVE CutStops /\ FindingsWhole
  BY InitLeadership DEF Whole
<1> QED
  BY DEF Init, CutStops, FindingsWhole

LEMMA NextWhole == Whole /\ [Next]_vars => Whole'
<1> SUFFICES ASSUME Whole, [Next]_vars PROVE (CutStops /\ FindingsWhole)'
  BY NextLeadership DEF Whole
<1>0. /\ Elected /\ CutStops /\ FindingsWhole
      /\ pc \in [Servers -> Active \cup {"none", "done"}]
      /\ srv \in [Servers -> {"down", "up", "stopping"}]
      /\ cut \in [Servers -> BOOLEAN]
  BY DEF Whole, Leadership, TypeOK
<1> USE <1>0 DEF Elected, CutStops, FindingsWhole, files, triggerVars,
                 sleepVars, procVars, At, EndCycle
<1>1. CASE Tick \/ CheckCooldown \/ touch
  BY <1>1 DEF Tick, CheckCooldown, touch
<1>2. ASSUME NEW s \in Servers, Boot(s)
      PROVE  (CutStops /\ FindingsWhole)'
  BY <1>2 DEF Boot
<1>3. ASSUME NEW s \in Servers, Shutdown(s)
      PROVE  (CutStops /\ FindingsWhole)'
  BY <1>3 DEF Shutdown
<1>4. ASSUME NEW s \in Servers, newSharedStatus(s)
      PROVE  (CutStops /\ FindingsWhole)'
  BY <1>4 DEF newSharedStatus, LoadedFile
<1>5. ASSUME NEW s \in Servers, Lead(s)
      PROVE  (CutStops /\ FindingsWhole)'
  BY <1>5 DEF Lead
<1>6. ASSUME NEW s \in Servers, Follow(s)
      PROVE  (CutStops /\ FindingsWhole)'
  BY <1>6 DEF Follow
<1>7. ASSUME NEW s \in Servers, Wait(s)
      PROVE  (CutStops /\ FindingsWhole)'
  BY <1>7 DEF Wait, Waited
<1>8. ASSUME NEW s \in Servers, Exit(s)
      PROVE  (CutStops /\ FindingsWhole)'
  BY <1>8 DEF Exit, Ends
<1>9. ASSUME NEW s \in Servers, Kill(s)
      PROVE  (CutStops /\ FindingsWhole)'
  BY <1>9 DEF Kill, Ends
<1>10. ASSUME NEW s \in Servers, loop(s)
       PROVE  (CutStops /\ FindingsWhole)'
  BY <1>10 DEF loop
<1>11. ASSUME NEW s \in Servers, BeginCycle(s)
       PROVE  (CutStops /\ FindingsWhole)'
  BY <1>11 DEF BeginCycle
<1>12. ASSUME NEW s \in Servers, Orient(s)
       PROVE  (CutStops /\ FindingsWhole)'
  BY <1>12 DEF Orient
<1>13. ASSUME NEW s \in Servers, Abandon(s)
       PROVE  (CutStops /\ FindingsWhole)'
  BY <1>13 DEF Abandon
<1>14. ASSUME NEW s \in Servers, decidePhase(s)
       PROVE  (CutStops /\ FindingsWhole)'
  BY <1>14 DEF decidePhase
<1>15. ASSUME NEW s \in Servers, WriteFindings(s)
       PROVE  (CutStops /\ FindingsWhole)'
  BY <1>15 DEF WriteFindings, Abandons
<1>16. ASSUME NEW s \in Servers, appendJSONL(s)
       PROVE  (CutStops /\ FindingsWhole)'
  BY <1>16 DEF appendJSONL
<1>17. ASSUME NEW s \in Servers, recordCycle(s)
       PROVE  (CutStops /\ FindingsWhole)'
  BY <1>17 DEF recordCycle
<1>18. ASSUME NEW s \in Servers, Panic(s)
       PROVE  (CutStops /\ FindingsWhole)'
  BY <1>18 DEF Panic, Cycle
<1>19. ASSUME NEW s \in Servers, WakeByTrigger(s)
       PROVE  (CutStops /\ FindingsWhole)'
  BY <1>19 DEF WakeByTrigger
<1>20. ASSUME NEW s \in Servers, WakeByDeadline(s)
       PROVE  (CutStops /\ FindingsWhole)'
  BY <1>20 DEF WakeByDeadline
<1>21. ASSUME NEW s \in Servers, LoopExits(s)
       PROVE  (CutStops /\ FindingsWhole)'
  BY <1>21 DEF LoopExits
<1>22. CASE UNCHANGED vars
  BY <1>22 DEF vars
<1> QED
    BY Steps, <1>1, <1>2, <1>3, <1>4, <1>5, <1>6, <1>7, <1>8, <1>9, <1>10,
     <1>11, <1>12, <1>13, <1>14, <1>15, <1>16, <1>17, <1>18, <1>19, <1>20,
     <1>21, <1>22

\* A shutdown never leaves the findings of cut-short queries in the file: the
\* context is looked at between the queries and the write (runCycle).
THEOREM FindingsKept == Spec => []FindingsWhole
<1>1. Whole => FindingsWhole
  BY DEF Whole
<1> QED
  BY <1>1, InitWhole, NextWhole, PTL DEF Spec

-----------------------------------------------------------------------------
(***************************************************************************)
(* The history.  With one server at a time, the status in memory and the   *)
(* one in the file name the same next id, no row is above it, and a row    *)
(* that has it before its cycle is recorded is one that a crash has left.  *)
(***************************************************************************)
Ids(q) == {q[i] : i \in DOMAIN q}
Ordered(q) == \A i, j \in DOMAIN q : i < j => q[i] <= q[j]
Within(q, n) == \A i \in DOMAIN q : q[i] <= n

\* The rows of a history are at least as many as its ids.
LEMMA IdsFinite ==
  ASSUME NEW q \in Seq(Nat \ {0})
  PROVE  /\ IsFiniteSet(Ids(q))
         /\ Cardinality(Ids(q)) \in Nat /\ Cardinality(Ids(q)) <= Len(q)
<1>1. Len(q) \in Nat /\ DOMAIN q = 1 .. Len(q)
  OBVIOUS
<1>2. IsFiniteSet(1 .. Len(q)) /\ Cardinality(1 .. Len(q)) = Len(q)
  <2>1. 1 \in Int /\ Len(q) \in Int
    BY <1>1
  <2>2. /\ IsFiniteSet(1 .. Len(q))
        /\ Cardinality(1 .. Len(q)) = IF 1 > Len(q) THEN 0 ELSE Len(q) - 1 + 1
    BY <2>1, FS_Interval, Zenon
  <2> QED
    BY <1>1, <2>2
<1>3. q \in Surjection(1 .. Len(q), Ids(q))
  BY <1>1 DEF Surjection, Ids
<1>4. IsFiniteSet(Ids(q)) /\ Cardinality(Ids(q)) <= Len(q)
  BY <1>2, <1>3, FS_Surjection
<1> QED
  BY <1>4, FS_CardinalityType

\* A row that is appended has the highest id, and either adds it or repeats it.
LEMMA AppendedHistory ==
  ASSUME NEW q \in Seq(Nat \ {0}), NEW n \in Nat \ {0},
         Ordered(q), Within(q, n)
  PROVE  /\ Ordered(Append(q, n)) /\ Within(Append(q, n), n)
         /\ Len(Append(q, n)) = Len(q) + 1
         /\ Cardinality(Ids(Append(q, n))) =
              IF n \in Ids(q) THEN Cardinality(Ids(q))
                              ELSE Cardinality(Ids(q)) + 1
<1> DEFINE r == Append(q, n)
<1>1. /\ r \in Seq(Nat \ {0}) /\ Len(r) = Len(q) + 1
      /\ \A i \in 1 .. Len(q) : r[i] = q[i]
      /\ r[Len(q) + 1] = n
  BY AppendProperties
<1>2. /\ Len(q) \in Nat /\ DOMAIN q = 1 .. Len(q)
      /\ DOMAIN r = 1 .. Len(q) + 1
      /\ \A i \in DOMAIN q : q[i] \in Nat
  BY <1>1
<1> HIDE DEF r
<1>3. \A i \in DOMAIN r : i \in DOMAIN q \/ i = Len(q) + 1
  BY <1>2
<1>4. Within(r, n)
  BY <1>1, <1>2, <1>3, SMTT(30) DEF Within
<1>5. Ordered(r)
  <2> SUFFICES ASSUME NEW i \in DOMAIN r, NEW j \in DOMAIN r, i < j
               PROVE  r[i] <= r[j]
    BY DEF Ordered
  <2>1. i \in DOMAIN q
    BY <1>2
  <2>2. CASE j \in DOMAIN q
    BY <1>1, <1>2, <2>1, <2>2 DEF Ordered
  <2>3. CASE j = Len(q) + 1
    BY <1>1, <1>2, <2>1, <2>3 DEF Within
  <2> QED
    BY <1>3, <2>2, <2>3
<1>6. Ids(r) = Ids(q) \cup {n}
  <2>1. \A x \in Ids(r) : x \in Ids(q) \cup {n}
    BY <1>1, <1>2, <1>3 DEF Ids
  <2>2. \A x \in Ids(q) : x \in Ids(r)
    BY <1>1, <1>2 DEF Ids
  <2>3. n \in Ids(r)
    <3>1. Len(q) + 1 \in DOMAIN r
      BY <1>2
    <3> QED
      BY <1>1, <3>1 DEF Ids
  <2> QED
    BY <2>1, <2>2, <2>3
<1>7. IsFiniteSet(Ids(q))
  BY IdsFinite
<1>8. Cardinality(Ids(r)) = IF n \in Ids(q) THEN Cardinality(Ids(q))
                                            ELSE Cardinality(Ids(q)) + 1
  BY <1>6, <1>7, FS_AddElement
<1> QED
  BY <1>1, <1>4, <1>5, <1>8 DEF r

\* A trim leaves the order, and takes no more ids away than rows.
LEMMA TrimLoses ==
  ASSUME NEW q \in Seq(Nat \ {0}), NEW n \in Nat, Ordered(q), Within(q, n)
  PROVE  /\ Ordered(Trimmed(q)) /\ Within(Trimmed(q), n)
         /\ Trimmed(q) \in Seq(Nat \ {0})
         /\ Len(Trimmed(q)) - Cardinality(Ids(Trimmed(q)))
              <= Len(q) - Cardinality(Ids(q))
<1>1. CASE ~(Len(q) > CyclesKeep)
  <2>1. Trimmed(q) = q
    BY <1>1 DEF Trimmed
  <2>2. Cardinality(Ids(q)) \in Nat
    BY IdsFinite
  <2> QED
    BY <2>1, <2>2
<1>2. CASE Len(q) > CyclesKeep
  <2> DEFINE k == Len(q) - CyclesKeep
             r == Trimmed(q)
             gone == {q[i] : i \in 1 .. k}
  <2>1. /\ Len(q) \in Nat /\ k \in Nat /\ k + 1 \in 1 .. Len(q)
        /\ DOMAIN q = 1 .. Len(q) /\ \A i \in DOMAIN q : q[i] \in Nat \ {0}
    BY <1>2, NumbersAssumption
  <2>2. r = SubSeq(q, k + 1, Len(q))
    BY <1>2 DEF Trimmed
  <2> HIDE DEF k, r
  <2>3. \A i \in k + 1 .. Len(q) : q[i] \in Nat \ {0}
    BY <2>1
  <2>4. /\ r \in Seq(Nat \ {0}) /\ Len(r) = Len(q) - k
        /\ \A i \in 1 .. Len(q) - k : r[i] = q[k + i]
    <3>1. /\ r \in Seq(Nat \ {0})
          /\ Len(r) = IF k + 1 <= Len(q) THEN Len(q) - (k + 1) + 1 ELSE 0
          /\ \A i \in 1 .. Len(q) - (k + 1) + 1 : r[i] = q[(k + 1) + i - 1]
      BY <2>1, <2>2, <2>3, SubSeqProperties
    <3> QED
      BY <2>1, <3>1
  <2>5. DOMAIN r = 1 .. Len(q) - k
    BY <2>4
  <2>6. \A i \in DOMAIN r : k + i \in DOMAIN q /\ r[i] = q[k + i]
    <3> SUFFICES ASSUME NEW i \in 1 .. Len(q) - k
                 PROVE  k + i \in 1 .. Len(q) /\ r[i] = q[k + i]
      BY <2>1, <2>5
    <3> QED
      BY <2>1, <2>4
  <2>7. Within(r, n)
    BY <2>6 DEF Within
  <2>8. Ordered(r)
    <3> SUFFICES ASSUME NEW i \in DOMAIN r, NEW j \in DOMAIN r, i < j
                 PROVE  r[i] <= r[j]
      BY DEF Ordered
    <3>1. k + i \in DOMAIN q /\ k + j \in DOMAIN q /\ k + i < k + j
      BY <2>1, <2>5, <2>6
    <3> QED
      BY <2>6, <3>1 DEF Ordered
  <2>9. /\ IsFiniteSet(gone) /\ Cardinality(gone) \in Nat
        /\ Cardinality(gone) <= k
    <3> DEFINE f == [i \in 1 .. k |-> q[i]]
    <3>1. f \in Surjection(1 .. k, gone)
      BY DEF Surjection
    <3>2. IsFiniteSet(1 .. k) /\ Cardinality(1 .. k) = k
      <4>1. /\ IsFiniteSet(1 .. k)
            /\ Cardinality(1 .. k) = IF 1 > k THEN 0 ELSE k - 1 + 1
        <5>1. 1 \in Int /\ k \in Int
          BY <2>1
        <5> QED
          BY ONLY <5>1, FS_Interval, Zenon
      <4> QED
        BY <2>1, <4>1
    <3> HIDE DEF f, gone
    <3>3. IsFiniteSet(gone) /\ Cardinality(gone) <= k
      BY <3>1, <3>2, FS_Surjection
    <3> QED
      BY <3>3, FS_CardinalityType
  <2>10. Ids(q) \subseteq Ids(r) \cup gone
    <3> SUFFICES ASSUME NEW i \in DOMAIN q, q[i] \notin gone
                 PROVE  q[i] \in Ids(r)
      BY DEF Ids
    <3>1. i > k
      BY <2>1
    <3>2. i - k \in DOMAIN r /\ k + (i - k) = i
      BY <2>1, <2>5, <3>1
    <3> QED
      BY <2>6, <3>2 DEF Ids
  <2> HIDE DEF gone
  <2>11. /\ IsFiniteSet(Ids(r)) /\ Cardinality(Ids(r)) \in Nat
         /\ Cardinality(Ids(q)) \in Nat
    BY <2>4, IdsFinite
  <2>12. Cardinality(Ids(q)) <= Cardinality(Ids(r)) + Cardinality(gone)
    <3>1. /\ IsFiniteSet(Ids(r) \cup gone)
          /\ Cardinality(Ids(r) \cup gone) =
               Cardinality(Ids(r)) + Cardinality(gone)
                 - Cardinality(Ids(r) \cap gone)
      BY <2>9, <2>11, FS_Union
    <3>2. Cardinality(Ids(q)) <= Cardinality(Ids(r) \cup gone)
      BY <2>10, <3>1, FS_Subset
    <3>3. Cardinality(Ids(r) \cap gone) \in Nat
      <4>1. IsFiniteSet(Ids(r) \cap gone)
        BY <2>11, FS_Subset
      <4> QED
        BY <4>1, FS_CardinalityType
    <3> QED
      BY <2>9, <2>11, <3>1, <3>2, <3>3
  <2>13. Len(r) - Cardinality(Ids(r)) <= Len(q) - Cardinality(Ids(q))
    BY <2>1, <2>4, <2>9, <2>11, <2>12
  <2> QED
    BY <2>4, <2>7, <2>8, <2>13 DEF r
<1> QED
  BY <1>1, <1>2

Alone == \A s, t \in Servers : srv[s] # "down" /\ srv[t] # "down" => s = t
Fresh == \A s \in Servers : srv[s] = "down" => once[s] = "no"
Agree == \A s \in Servers : once[s] # "no" => mem[s].next = statusFile.next
Single == Leadership /\ Alone /\ Fresh /\ Agree

LEMMA InitSingle == Init => Single
<1> SUFFICES ASSUME Init PROVE Alone /\ Fresh /\ Agree
  BY InitLeadership DEF Single
<1> QED
  BY DEF Init, Alone, Fresh, Agree

LEMMA NextSingle == ~Overlap /\ Single /\ [Next]_vars => Single'
<1> SUFFICES ASSUME ~Overlap, Single, [Next]_vars
             PROVE  (Alone /\ Fresh /\ Agree)'
  BY NextLeadership DEF Single
<1>0. /\ Elected /\ Alone /\ Fresh /\ Agree
      /\ srv \in [Servers -> {"down", "up", "stopping"}]
      /\ once \in [Servers -> {"no", "loaded", "leader", "follower"}]
      /\ mem \in [Servers -> Status] /\ statusFile \in Status
      /\ pc \in [Servers -> Active \cup {"none", "done"}]
  BY DEF Single, Leadership, TypeOK
<1> USE <1>0
    DEF Status, NoStatus, Elected, Alone, Fresh, Agree, files, triggerVars,
        sleepVars, procVars, At, EndCycle
<1>1. CASE Tick \/ CheckCooldown \/ touch
  BY <1>1 DEF Tick, CheckCooldown, touch
<1>2. ASSUME NEW s \in Servers, Boot(s)
      PROVE  (Alone /\ Fresh /\ Agree)'
  BY <1>2 DEF Boot
<1>3. ASSUME NEW s \in Servers, Shutdown(s)
      PROVE  (Alone /\ Fresh /\ Agree)'
  BY <1>3 DEF Shutdown
<1>4. ASSUME NEW s \in Servers, newSharedStatus(s)
      PROVE  (Alone /\ Fresh /\ Agree)'
  BY <1>4 DEF newSharedStatus, LoadedFile
<1>5. ASSUME NEW s \in Servers, Lead(s)
      PROVE  (Alone /\ Fresh /\ Agree)'
  BY <1>5 DEF Lead
<1>6. ASSUME NEW s \in Servers, Follow(s)
      PROVE  (Alone /\ Fresh /\ Agree)'
  BY <1>6 DEF Follow
<1>7. ASSUME NEW s \in Servers, Wait(s)
      PROVE  (Alone /\ Fresh /\ Agree)'
  BY <1>7 DEF Wait, Waited
<1>8. ASSUME NEW s \in Servers, Exit(s)
      PROVE  (Alone /\ Fresh /\ Agree)'
  BY <1>8 DEF Exit, Ends
<1>9. ASSUME NEW s \in Servers, Kill(s)
      PROVE  (Alone /\ Fresh /\ Agree)'
  BY <1>9 DEF Kill, Ends
<1>10. ASSUME NEW s \in Servers, loop(s)
       PROVE  (Alone /\ Fresh /\ Agree)'
  BY <1>10 DEF loop
<1>11. ASSUME NEW s \in Servers, BeginCycle(s)
       PROVE  (Alone /\ Fresh /\ Agree)'
  BY <1>11 DEF BeginCycle
<1>12. ASSUME NEW s \in Servers, Orient(s)
       PROVE  (Alone /\ Fresh /\ Agree)'
  BY <1>12 DEF Orient
<1>13. ASSUME NEW s \in Servers, Abandon(s)
       PROVE  (Alone /\ Fresh /\ Agree)'
  BY <1>13 DEF Abandon
<1>14. ASSUME NEW s \in Servers, decidePhase(s)
       PROVE  (Alone /\ Fresh /\ Agree)'
  BY <1>14 DEF decidePhase
<1>15. ASSUME NEW s \in Servers, WriteFindings(s)
       PROVE  (Alone /\ Fresh /\ Agree)'
  BY <1>15 DEF WriteFindings
<1>16. ASSUME NEW s \in Servers, appendJSONL(s)
       PROVE  (Alone /\ Fresh /\ Agree)'
  BY <1>16 DEF appendJSONL
<1>17. ASSUME NEW s \in Servers, recordCycle(s)
       PROVE  (Alone /\ Fresh /\ Agree)'
  BY <1>17 DEF recordCycle, NextId
<1>18. ASSUME NEW s \in Servers, Panic(s)
       PROVE  (Alone /\ Fresh /\ Agree)'
  BY <1>18 DEF Panic, Cycle
<1>19. ASSUME NEW s \in Servers, WakeByTrigger(s)
       PROVE  (Alone /\ Fresh /\ Agree)'
  BY <1>19 DEF WakeByTrigger
<1>20. ASSUME NEW s \in Servers, WakeByDeadline(s)
       PROVE  (Alone /\ Fresh /\ Agree)'
  BY <1>20 DEF WakeByDeadline
<1>21. ASSUME NEW s \in Servers, LoopExits(s)
       PROVE  (Alone /\ Fresh /\ Agree)'
  BY <1>21 DEF LoopExits
<1>22. CASE UNCHANGED vars
  BY <1>22 DEF vars
<1> QED
  BY Steps, <1>1, <1>2, <1>3, <1>4, <1>5, <1>6, <1>7, <1>8, <1>9, <1>10, <1>11,
     <1>12, <1>13, <1>14, <1>15, <1>16, <1>17, <1>18, <1>19, <1>20, <1>21,
     <1>22

\* A row of the id that is next, with no cycle about to record it.
Again == statusFile.next \in Ids(cycles) /\ \A s \in Servers : pc[s] # "record"
Paid == Len(cycles) + (IF Again THEN 1 ELSE 0)
          <= Cardinality(Ids(cycles)) + crashes
Ledger == Ordered(cycles) /\ Within(cycles, statusFile.next) /\ Paid

\* A step that leaves the history and the next id keeps the account, if it
\* is a crash or leaves every cycle that is about to be recorded.
LEMMA LedgerKept ==
  ASSUME TypeOK, Ledger, UNCHANGED cycles,
         statusFile'.next = statusFile.next,
         \/ crashes' = crashes + 1
         \/ /\ crashes' = crashes
            /\ \A s \in Servers : pc[s] = "record" => pc'[s] = "record"
  PROVE  Ledger'
<1> DEFINE card == Cardinality(Ids(cycles))
<1>1. /\ card \in Nat /\ Len(cycles) \in Nat /\ crashes \in Nat
      /\ Cardinality(Ids(cycles))' = card
  BY IdsFinite DEF TypeOK
<1>2. Ordered(cycles)' /\ Within(cycles, statusFile.next)'
  BY DEF Ledger, Ordered, Within
<1>3. Ids(cycles)' = Ids(cycles)
  BY DEF Ids
<1>4. /\ Len(cycles) <= card + crashes
      /\ Again => Len(cycles) + 1 <= card + crashes
  <2> HIDE DEF card
  <2> QED
    BY <1>1 DEF Ledger, Paid, card
<1>5. CASE crashes' = crashes + 1
  <2>1. Len(cycles) + 1 <= card + crashes'
    BY <1>1, <1>4, <1>5
  <2> QED
    BY <1>1, <1>2, <2>1 DEF Ledger, Paid
<1>6. CASE /\ crashes' = crashes
           /\ \A s \in Servers : pc[s] = "record" => pc'[s] = "record"
  <2>1. Again' => Again
    BY <1>3, <1>6 DEF Again
  <2> QED
    BY <1>1, <1>2, <1>4, <1>6, <2>1 DEF Ledger, Paid
<1> QED
  BY <1>5, <1>6

\* The history of a cycle about to be recorded (appendJSONL).
LEMMA LedgerAppended ==
  ASSUME TypeOK, Ledger, NEW s \in Servers, appendJSONL(s),
         mem[s].next = statusFile.next,
         \A t \in Servers : pc[t] # "record"
  PROVE  Ledger'
<1> DEFINE n == statusFile.next
           r == Append(cycles, n)
           card == Cardinality(Ids(cycles))
<1>1. /\ cycles \in Seq(Nat \ {0}) /\ n \in Nat \ {0} /\ crashes \in Nat
      /\ Len(cycles) \in Nat
      /\ Ordered(cycles) /\ Within(cycles, n)
      /\ statusFile' = statusFile /\ crashes' = crashes /\ pc'[s] = "record"
  BY DEF TypeOK, Status, Ledger, appendJSONL, procVars, At
<1>2. card \in Nat
  BY <1>1, IdsFinite
<1>3. /\ Len(cycles) <= card + crashes
      /\ n \in Ids(cycles) => Len(cycles) + 1 <= card + crashes
  <2> HIDE DEF card
  <2> QED
    BY <1>1, <1>2 DEF Ledger, Paid, Again, card
<1>4. r \in Seq(Nat \ {0})
  BY <1>1, AppendProperties
<1>5. /\ Ordered(r) /\ Within(r, n)
      /\ Len(r) = Len(cycles) + 1
      /\ Cardinality(Ids(r)) = IF n \in Ids(cycles) THEN card ELSE card + 1
  BY <1>1, AppendedHistory
<1>6. ~Again'
  BY <1>1 DEF Again
<1> DEFINE Good(q) == /\ Ordered(q) /\ Within(q, n)
                      /\ Len(q) <= Cardinality(Ids(q)) + crashes
<1>7. Good(cycles)
  BY <1>1, <1>3
<1>8. Good(r)
  <2> HIDE DEF card, r
  <2>1. Len(r) <= Cardinality(Ids(r)) + crashes
    BY <1>1, <1>2, <1>3, <1>5
  <2> QED
    BY <1>5, <2>1
<1>9. Good(Trimmed(r))
  <2>1. /\ Ordered(Trimmed(r)) /\ Within(Trimmed(r), n)
        /\ Trimmed(r) \in Seq(Nat \ {0})
        /\ Len(Trimmed(r)) - Cardinality(Ids(Trimmed(r)))
             <= Len(r) - Cardinality(Ids(r))
    BY <1>1, <1>4, <1>5, TrimLoses
  <2>2. /\ Cardinality(Ids(Trimmed(r))) \in Nat
        /\ Cardinality(Ids(r)) \in Nat
        /\ Len(r) \in Nat /\ Len(Trimmed(r)) \in Nat
    <3>1. \A q \in Seq(Nat \ {0}) :
            Cardinality(Ids(q)) \in Nat /\ Len(q) \in Nat
      BY IdsFinite
    <3> HIDE DEF r
    <3> QED
      BY <1>4, <2>1, <3>1
  <2>3. Len(r) <= Cardinality(Ids(r)) + crashes
    BY <1>8
  <2> HIDE DEF r
  <2>4. Len(Trimmed(r)) <= Cardinality(Ids(Trimmed(r))) + crashes
    BY <1>1, <2>1, <2>2, <2>3
  <2> QED
    BY <2>1, <2>4
<1>10. cycles' \in {cycles, r, Trimmed(r)}
  BY DEF appendJSONL
<1>11. Good(cycles')
  BY <1>7, <1>8, <1>9, <1>10
<1>12. /\ Ordered(cycles') /\ Within(cycles', n)
       /\ Len(cycles') <= Cardinality(Ids(cycles')) + crashes
  BY <1>11
<1>13. Len(cycles') + 0 = Len(cycles')
  <2>1. cycles' \in Seq(Nat \ {0})
    BY <1>1, <1>4, <1>9, <1>10, TrimLoses, <1>5
  <2> QED
    BY <2>1
<1> QED
  BY <1>1, <1>6, <1>12, <1>13 DEF Ledger, Paid

History == ~Overlap => Single /\ Ledger

LEMMA InitHistory == Init => History
<1> SUFFICES ASSUME Init PROVE Ledger
  BY InitSingle DEF History
<1>1. TypeOK /\ cycles = <<>> /\ statusFile.next = 1 /\ crashes = 0
  BY InitType DEF Init, NoStatus
<1>2. /\ Cardinality(Ids(cycles)) \in Nat /\ Len(cycles) = 0
      /\ Ids(cycles) = {}
  <2>1. Cardinality(Ids(cycles)) \in Nat
    BY <1>1, IdsFinite DEF TypeOK
  <2>2. Len(cycles) = 0 /\ Ids(cycles) = {}
    BY <1>1 DEF Ids
  <2> QED
    BY <2>1, <2>2
<1>3. ~Again
  BY <1>2 DEF Again
<1> QED
  BY <1>1, <1>2, <1>3 DEF Ledger, Paid, Ordered, Within

LEMMA NextHistory == History /\ [Next]_vars => History'
<1> SUFFICES ASSUME ~Overlap, Single, Ledger, [Next]_vars
             PROVE  Ledger'
  BY NextSingle DEF History
<1>0. /\ TypeOK /\ Elected /\ Holds /\ Alone /\ Fresh /\ Agree
      /\ mem \in [Servers -> Status] /\ statusFile \in Status
      /\ pc \in [Servers -> Active \cup {"none", "done"}]
  BY DEF Single, Leadership, TypeOK
\* A step that leaves the history, the next id, and what is about to be recorded.
<1> DEFINE Keeps == /\ cycles' = cycles /\ statusFile'.next = statusFile.next
                    /\ crashes' = crashes
                    /\ \A t \in Servers :
                         pc[t] = "record" => pc'[t] = "record"
<1>1. Keeps => Ledger'
  BY <1>0, LedgerKept
<1>2. CASE Tick \/ CheckCooldown \/ touch
  <2>1. Keeps
    BY <1>2 DEF Tick, CheckCooldown, touch, files
  <2> QED
    BY <1>1, <2>1
<1>3. ASSUME NEW s \in Servers, Boot(s)
      PROVE  Ledger'
  <2>1. Keeps
    BY <1>0, <1>3 DEF Boot, files
  <2> QED
    BY <1>1, <2>1
<1>4. ASSUME NEW s \in Servers, Shutdown(s)
      PROVE  Ledger'
  <2>1. Keeps
    BY <1>0, <1>4 DEF Shutdown, files
  <2> QED
    BY <1>1, <2>1
<1>5. ASSUME NEW s \in Servers, newSharedStatus(s)
      PROVE  Ledger'
  <2>1. Keeps
    BY <1>0, <1>5 DEF newSharedStatus, LoadedFile, files
  <2> QED
    BY <1>1, <2>1
<1>6. ASSUME NEW s \in Servers, Follow(s)
      PROVE  Ledger'
  <2>1. Keeps
    BY <1>0, <1>6 DEF Follow, files
  <2> QED
    BY <1>1, <2>1
<1>7. ASSUME NEW s \in Servers, Wait(s)
      PROVE  Ledger'
  <2>1. Keeps
    BY <1>0, <1>7 DEF Wait, Waited, files
  <2> QED
    BY <1>1, <2>1
<1>8. ASSUME NEW s \in Servers, Exit(s)
      PROVE  Ledger'
  <2>1. Keeps
    BY <1>0, <1>8 DEF Exit, Ends, files
  <2> QED
    BY <1>1, <2>1
<1>9. ASSUME NEW s \in Servers, loop(s)
      PROVE  Ledger'
  <2>1. Keeps
    BY <1>0, <1>9 DEF loop, files, procVars, At
  <2> QED
    BY <1>1, <2>1
<1>10. ASSUME NEW s \in Servers, BeginCycle(s)
       PROVE  Ledger'
  <2>1. Keeps
    BY <1>0, <1>10 DEF BeginCycle, files, procVars, At
  <2> QED
    BY <1>1, <2>1
<1>11. ASSUME NEW s \in Servers, Orient(s)
       PROVE  Ledger'
  <2>1. Keeps
    BY <1>0, <1>11 DEF Orient, files, procVars, At
  <2> QED
    BY <1>1, <2>1
<1>12. ASSUME NEW s \in Servers, Abandon(s)
       PROVE  Ledger'
  <2>1. Keeps
    BY <1>0, <1>12 DEF Abandon, EndCycle, files, procVars, At
  <2> QED
    BY <1>1, <2>1
<1>13. ASSUME NEW s \in Servers, decidePhase(s)
       PROVE  Ledger'
  <2>1. Keeps
    BY <1>0, <1>13 DEF decidePhase, files, procVars, At
  <2> QED
    BY <1>1, <2>1
<1>14. ASSUME NEW s \in Servers, WriteFindings(s)
       PROVE  Ledger'
  <2>1. Keeps
    BY <1>0, <1>14 DEF WriteFindings, files, procVars, At
  <2> QED
    BY <1>1, <2>1
<1>15. ASSUME NEW s \in Servers, WakeByTrigger(s)
       PROVE  Ledger'
  <2>1. Keeps
    BY <1>0, <1>15 DEF WakeByTrigger, files, procVars, At
  <2> QED
    BY <1>1, <2>1
<1>16. ASSUME NEW s \in Servers, WakeByDeadline(s)
       PROVE  Ledger'
  <2>1. Keeps
    BY <1>0, <1>16 DEF WakeByDeadline, files, procVars, At
  <2> QED
    BY <1>1, <2>1
<1>17. ASSUME NEW s \in Servers, Lead(s)
       PROVE  Ledger'
  <2>1. Keeps
    BY <1>0, <1>17 DEF Lead, files, Elected, Agree, Status
  <2> QED
    BY <1>1, <2>1
<1>18. ASSUME NEW s \in Servers, LoopExits(s)
       PROVE  Ledger'
  <2>1. Keeps
    BY <1>0, <1>18 DEF LoopExits, files, procVars, At, Elected, Agree, Status
  <2> QED
    BY <1>1, <2>1
<1>19. ASSUME NEW s \in Servers, Kill(s)
       PROVE  Ledger'
  <2>1. /\ cycles' = cycles /\ statusFile' = statusFile
        /\ crashes' = crashes + 1
    BY <1>19 DEF Kill, Ends, files
  <2> QED
    BY <1>0, <2>1, LedgerKept
<1>20. ASSUME NEW s \in Servers, Panic(s)
       PROVE  Ledger'
  <2>1. cycles' = cycles /\ crashes' = crashes + 1
    BY <1>20 DEF Panic
  <2>2. pc[s] # "none"
    BY <1>20 DEF Panic, EndCycle, At, Cycle
  <2>3. statusFile'.next = statusFile.next
    BY <1>0, <1>20, <2>2 DEF Panic, Elected, Agree
  <2> QED
    BY <1>0, <2>1, <2>3, LedgerKept
<1>21. ASSUME NEW s \in Servers, appendJSONL(s)
       PROVE  Ledger'
  <2>1. pc[s] = "append"
    BY <1>21 DEF appendJSONL, At
  <2>2. mem[s].next = statusFile.next
    BY <1>0, <2>1 DEF Elected, Agree
  <2>3. \A t \in Servers : pc[t] # "record"
    BY <1>0, <2>1, ServersAssumption DEF Holds, Active, Cycle
  <2> QED
    BY <1>0, <1>21, <2>2, <2>3, LedgerAppended
<1>22. ASSUME NEW s \in Servers, recordCycle(s)
       PROVE  Ledger'
  <2>1. pc[s] = "record"
    BY <1>22 DEF recordCycle, EndCycle, At
  <2>2. /\ cycles' = cycles /\ crashes' = crashes
        /\ statusFile'.next = statusFile.next + 1
        /\ statusFile.next \in Nat
    BY <1>0, <1>22, <2>1
       DEF recordCycle, NextId, Elected, Agree, Status, procVars
  <2>3. Ordered(cycles') /\ Within(cycles', statusFile'.next)
    <3>1. \A i \in DOMAIN cycles : cycles[i] \in Nat
      BY <1>0 DEF TypeOK
    <3> QED
      BY <2>2, <3>1 DEF Ledger, Within
  <2>4. ~Again'
    <3>1. \A i \in DOMAIN cycles : cycles[i] # statusFile.next + 1
      <4>1. \A i \in DOMAIN cycles : cycles[i] \in Nat
        BY <1>0 DEF TypeOK
      <4> QED
        BY <2>2, <4>1 DEF Ledger, Within
    <3> QED
      BY <2>2, <3>1 DEF Again, Ids
  <2>5. Len(cycles) <= Cardinality(Ids(cycles)) + crashes
    <3>1. /\ Len(cycles) \in Nat /\ crashes \in Nat
          /\ Cardinality(Ids(cycles)) \in Nat
      BY <1>0, IdsFinite DEF TypeOK
    <3> QED
      BY <3>1 DEF Ledger, Paid
  <2>6. Len(cycles) \in Nat
    BY <1>0 DEF TypeOK
  <2> QED
    BY <2>2, <2>3, <2>4, <2>5, <2>6 DEF Ledger, Paid
<1>23. CASE UNCHANGED vars
  <2>1. Keeps
    BY <1>23 DEF vars, files
  <2> QED
    BY <1>1, <2>1
<1> QED
  BY Steps, <1>2, <1>3, <1>4, <1>5, <1>6, <1>7, <1>8, <1>9, <1>10, <1>11, <1>12,
     <1>13, <1>14, <1>15, <1>16, <1>17, <1>18, <1>19, <1>20, <1>21, <1>22,
     <1>23

\* With one server at a time the ids of the history never go back, and an id
\* is repeated only once for each kill or panic: a cycle is recorded, and its
\* id left behind, before the next one begins (runCycle, recordCycle), and a
\* restart goes on from the id in the status file (newSharedStatus).
THEOREM HistoryInOrder == Spec => []HistoryOrdered
<1>1. Spec => []TypeOK
  BY TypeCorrect
<1>2. TypeOK /\ History => HistoryOrdered
  <2> SUFFICES ASSUME TypeOK, Ledger, ~Overlap
               PROVE  HistoryOrdered
    BY DEF History, HistoryOrdered
  <2>1. /\ Len(cycles) \in Nat /\ crashes \in Nat
        /\ Cardinality(Ids(cycles)) \in Nat
    BY IdsFinite DEF TypeOK
  <2>2. Len(cycles) <= Cardinality(Ids(cycles)) + crashes
    BY <2>1 DEF Ledger, Paid
  <2> QED
    BY <2>2 DEF HistoryOrdered, Ledger, Ordered, Ids
<1>3. Spec => []History
  BY InitHistory, NextHistory, PTL DEF Spec
<1> QED
  BY <1>1, <1>2, <1>3, PTL
=============================================================================
