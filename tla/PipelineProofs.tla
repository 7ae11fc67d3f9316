---------------------------- MODULE PipelineProofs ----------------------------
(***************************************************************************)
(* Theorems about Pipeline for any number of processes and any bounds.     *)
(***************************************************************************)
EXTENDS Pipeline, TLAPS

(* Processes and entries are records, and only a run schedules stages.     *)
Record(x) ==
  x = [cmd |-> x.cmd, step |-> x.step, at |-> x.at, last |-> x.last,
       cascade |-> x.cascade, up |-> x.up, input |-> x.input, found |-> x.found]

IsEntry(x) == x = [status |-> x.status, input |-> x.input, output |-> x.output]

ProcShape ==
  /\ proc = [p \in Procs |-> proc[p]]
  /\ \A p \in Procs : Record(proc[p])

LedgerShape ==
  /\ ledger = [s \in Stages |-> ledger[s]]
  /\ \A s \in Stages : IsEntry(ledger[s])

Shape == ProcShape /\ LedgerShape

OnlyRunsSchedule ==
  \A p \in Procs : proc[p].step = "schedule" => proc[p].cmd = "run"

IInv == Shape /\ OnlyRunsSchedule /\ OneCompile /\ NoPhantomRunning

------------------------------------------------------------------------------
(* What the two ways of saving an entry do to the others.                  *)
LEMMA SaveOthers ==
  ASSUME NEW s, NEW status, Shape, Save(s, status)
  PROVE  /\ LedgerShape'
         /\ \A x \in Stages :
              ledger'[x].status = IF x = s THEN status ELSE ledger[x].status
         /\ \A x \in Stages : x # s => ledger'[x] = ledger[x]
BY DEF Save, Shape, LedgerShape, IsEntry, NoEntry

LEMMA SavePassedOthers ==
  ASSUME NEW s, NEW input, NEW output, Shape, SavePassed(s, input, output)
  PROVE  /\ LedgerShape'
         /\ \A x \in Stages :
              ledger'[x].status = IF x = s THEN "PASSED" ELSE ledger[x].status
         /\ \A x \in Stages : x # s => ledger'[x] = ledger[x]
         /\ s \in Stages => ledger'[s].input = input /\ ledger'[s].output = output
BY DEF SavePassed, Shape, LedgerShape, IsEntry

(* A process takes a step: the records stay records, the others stay where *)
(* they are, and p is where it says.                                       *)
Moves(p, cmd, step, at) ==
  /\ ProcShape'
  /\ \A q \in Procs \ {p} : proc'[q] = proc[q]
  /\ proc'[p].cmd = cmd /\ proc'[p].step = step /\ proc'[p].at = at

LEMMA Becomes ==
  ASSUME NEW p \in Procs, NEW x, Shape, Record(x), proc' = [proc EXCEPT ![p] = x]
  PROVE  Moves(p, x.cmd, x.step, x.at)
<1>1. proc'[p] = x /\ \A q \in Procs \ {p} : proc'[q] = proc[q]
  BY DEF Shape, ProcShape
<1>2. proc' = [q \in Procs |-> proc'[q]]
  BY DEF Shape, ProcShape
<1>3. \A q \in Procs : Record(proc'[q])
  BY <1>1 DEF Shape, ProcShape
<1> QED
  BY <1>1, <1>2, <1>3 DEF Moves, ProcShape

(* What a step inside a stage leaves alone.                                *)
Carries(p) ==
  proc'[p].last = proc[p].last /\ proc'[p].cascade = proc[p].cascade
    /\ proc'[p].up = proc[p].up

LEMMA StepMoves ==
  ASSUME NEW p \in Procs, NEW step, Shape, Step(p, step)
  PROVE  /\ Moves(p, proc[p].cmd, step, proc[p].at) /\ Carries(p)
         /\ proc'[p].input = proc[p].input /\ proc'[p].found = proc[p].found
BY DEF Step, Shape, ProcShape, Record, Moves, Carries

LEMMA HoldsMoves ==
  ASSUME NEW p \in Procs, NEW step, NEW content, Shape, Holds(p, step, content)
  PROVE  /\ Moves(p, proc[p].cmd, step, proc[p].at) /\ Carries(p)
         /\ proc'[p].input = proc[p].input /\ proc'[p].found = content
<1> DEFINE y == [proc[p] EXCEPT !.step = step]
           x == [y EXCEPT !.found = content]
<1>1. Record(proc[p])
  BY DEF Shape, ProcShape, Record
<1>0. proc' = [proc EXCEPT ![p] = [@ EXCEPT !.step = step, !.found = content]]
  BY DEF Holds
<1>2. proc' = [proc EXCEPT ![p] = x]
  BY <1>0
<1>3. /\ Record(y) /\ y.cmd = proc[p].cmd /\ y.step = step /\ y.at = proc[p].at
      /\ y.last = proc[p].last /\ y.cascade = proc[p].cascade /\ y.up = proc[p].up
      /\ y.input = proc[p].input
  BY <1>1 DEF Record
<1> HIDE DEF y
<1>4. /\ Record(x) /\ x.cmd = y.cmd /\ x.step = y.step /\ x.at = y.at
      /\ x.last = y.last /\ x.cascade = y.cascade /\ x.up = y.up
      /\ x.input = y.input /\ x.found = content
  BY <1>3 DEF Record
<1> HIDE DEF x
<1>5. proc'[p] = x
  BY <1>2 DEF Shape, ProcShape
<1> QED
  BY <1>2, <1>3, <1>4, <1>5, Becomes DEF Carries

LEMMA EntersMoves ==
  ASSUME NEW p \in Procs, NEW input, Shape, Enters(p, input)
  PROVE  /\ Moves(p, proc[p].cmd, "run", proc[p].at) /\ Carries(p)
         /\ proc'[p].input = input
<1> DEFINE y == [proc[p] EXCEPT !.step = "run"]
           x == [y EXCEPT !.input = input]
<1>1. Record(proc[p])
  BY DEF Shape, ProcShape, Record
<1>2. proc' = [proc EXCEPT ![p] = x]
  BY DEF Enters
<1>3. /\ Record(y) /\ y.cmd = proc[p].cmd /\ y.step = "run" /\ y.at = proc[p].at
      /\ y.last = proc[p].last /\ y.cascade = proc[p].cascade /\ y.up = proc[p].up
  BY <1>1 DEF Record
<1> HIDE DEF y
<1>4. /\ Record(x) /\ x.cmd = y.cmd /\ x.step = y.step /\ x.at = y.at
      /\ x.last = y.last /\ x.cascade = y.cascade /\ x.up = y.up
      /\ x.input = input
  BY <1>3 DEF Record
<1> HIDE DEF x
<1>5. proc'[p] = x
  BY <1>2 DEF Shape, ProcShape
<1> QED
  BY <1>2, <1>3, <1>4, <1>5, Becomes DEF Carries

LEMMA OffIsRecord ==
  /\ Record(Off) /\ Off.cmd = "off" /\ Off.step = "off" /\ Off.at = Normalize
  /\ Off.cascade = FALSE
BY DEF Off, Record

LEMMA EndsMoves ==
  ASSUME NEW p \in Procs, Shape, Ends(p)
  PROVE  Moves(p, proc[p].cmd, "end", Normalize)
<1> DEFINE y == [Off EXCEPT !.cmd = proc[p].cmd]
           x == [y EXCEPT !.step = "end"]
<1>1. proc' = [proc EXCEPT ![p] = x]
  BY DEF Ends
<1>2. Record(y) /\ y.cmd = proc[p].cmd /\ y.at = Normalize
  BY OffIsRecord DEF Record
<1> HIDE DEF y
<1>3. Record(x) /\ x.cmd = proc[p].cmd /\ x.step = "end" /\ x.at = Normalize
  BY <1>2 DEF Record
<1> HIDE DEF x
<1> QED
  BY <1>1, <1>3, Becomes

(* The next stage of a run, or its end.                                    *)
GoesOn(p, output, cascade) ==
  \/ proc[p].at = proc[p].last /\ proc'[p].step = "end" /\ proc'[p].at = Normalize
  \/ /\ proc[p].at # proc[p].last /\ proc'[p].step = "schedule"
     /\ proc'[p].at = proc[p].at + 1 /\ proc'[p].up = output
     /\ proc'[p].cascade = cascade

LEMMA GoOnMoves ==
  ASSUME NEW p \in Procs, NEW output, NEW cascade, Shape, proc[p].cmd = "run",
         GoOn(p, output, cascade)
  PROVE  /\ \E step \in {"schedule", "end"} : Moves(p, proc[p].cmd, step, proc'[p].at)
         /\ GoesOn(p, output, cascade)
         /\ proc'[p].at \in {Normalize, proc[p].at + 1}
<1> DEFINE r == proc[p]
           a == [Off EXCEPT !.cmd = "run"]
           b == [a EXCEPT !.step = "end"]
           c == [r EXCEPT !.step = "schedule"]
           d == [c EXCEPT !.at = r.at + 1]
           e == [d EXCEPT !.up = output]
           f == [e EXCEPT !.cascade = cascade]
           g == [f EXCEPT !.input = NONE]
           h == [g EXCEPT !.found = NONE]
           x == IF r.at = r.last THEN b ELSE h
<1>1. Record(r)
  BY DEF Shape, ProcShape, Record
<1>2. proc' = [proc EXCEPT ![p] = x]
  BY DEF GoOn
<1>3. /\ Record(a) /\ a.cmd = r.cmd /\ a.at = Normalize
      /\ Record(c) /\ c.cmd = r.cmd /\ c.step = "schedule"
  BY <1>1, OffIsRecord DEF Record
<1> HIDE DEF a, c
<1>4. /\ Record(b) /\ b.cmd = a.cmd /\ b.step = "end" /\ b.at = a.at
      /\ Record(d) /\ d.cmd = c.cmd /\ d.step = c.step /\ d.at = r.at + 1
  BY <1>3 DEF Record
<1> HIDE DEF b, d
<1>5. Record(e) /\ e.cmd = d.cmd /\ e.step = d.step /\ e.at = d.at /\ e.up = output
  BY <1>4 DEF Record
<1> HIDE DEF e
<1>6. /\ Record(f) /\ f.cmd = e.cmd /\ f.step = e.step /\ f.at = e.at /\ f.up = e.up
      /\ f.cascade = cascade
  BY <1>5 DEF Record
<1> HIDE DEF f
<1>7. /\ Record(g) /\ g.cmd = f.cmd /\ g.step = f.step /\ g.at = f.at /\ g.up = f.up
      /\ g.cascade = f.cascade
  BY <1>6 DEF Record
<1> HIDE DEF g
<1>8. /\ Record(h) /\ h.cmd = g.cmd /\ h.step = g.step /\ h.at = g.at /\ h.up = g.up
      /\ h.cascade = g.cascade
  BY <1>7 DEF Record
<1> HIDE DEF h
<1>9. Record(x) /\ x.cmd = r.cmd /\ x.step \in {"schedule", "end"}
  BY <1>3, <1>4, <1>5, <1>6, <1>7, <1>8
<1>10. proc'[p] = x
  BY <1>2 DEF Shape, ProcShape
<1>11. GoesOn(p, output, cascade) /\ x.at \in {Normalize, r.at + 1}
  BY <1>3, <1>4, <1>5, <1>6, <1>7, <1>8, <1>10 DEF GoesOn
<1> HIDE DEF x
<1>12. Moves(p, x.cmd, x.step, x.at)
  BY <1>2, <1>9, Becomes
<1> QED
  BY <1>9, <1>10, <1>11, <1>12 DEF Moves

------------------------------------------------------------------------------
(* How commands start and end.                                             *)
LEMMA OffMoves ==
  ASSUME NEW p \in Procs, Shape, proc' = [proc EXCEPT ![p] = Off]
  PROVE  Moves(p, "off", "off", Normalize)
BY OffIsRecord, Becomes

LEMMA DirectIsRecord ==
  ASSUME NEW cmd, NEW s, NEW up
  PROVE  /\ Record(Direct(cmd, s, up)) /\ Direct(cmd, s, up).cmd = cmd
         /\ Direct(cmd, s, up).step = "run" /\ Direct(cmd, s, up).at = s
         /\ Direct(cmd, s, up).input = Inputs(up)[s]
<1> DEFINE i == Inputs(up)[s]
           a == [Off EXCEPT !.cmd = cmd]
           b == [a EXCEPT !.step = "run"]
           c == [b EXCEPT !.at = s]
           d == [c EXCEPT !.up = up]
           e == [d EXCEPT !.input = i]
           f == [e EXCEPT !.last = s]
<1> HIDE DEF i
<1>1. Record(a) /\ a.cmd = cmd
  BY OffIsRecord DEF Record
<1> HIDE DEF a
<1>2. Record(b) /\ b.cmd = cmd /\ b.step = "run"
  BY <1>1 DEF Record
<1> HIDE DEF b
<1>3. Record(c) /\ c.cmd = cmd /\ c.step = "run" /\ c.at = s
  BY <1>2 DEF Record
<1> HIDE DEF c
<1>4. Record(d) /\ d.cmd = cmd /\ d.step = "run" /\ d.at = s
  BY <1>3 DEF Record
<1> HIDE DEF d
<1>5. Record(e) /\ e.cmd = cmd /\ e.step = "run" /\ e.at = s /\ e.input = i
  BY <1>4 DEF Record
<1> HIDE DEF e
<1>6. Record(f) /\ f.cmd = cmd /\ f.step = "run" /\ f.at = s /\ f.input = i
  BY <1>5 DEF Record
<1>7. Direct(cmd, s, up) = f
  BY Zenon DEF Direct, i, a, b, c, d, e, f
<1> HIDE DEF f
<1>8. i = Inputs(up)[s]
  BY DEF i
<1> QED
  BY <1>6, <1>7, <1>8

LEMMA RunStartMoves ==
  ASSUME NEW p \in Procs, NEW last, Shape, RunStart(p, last)
  PROVE  Moves(p, "run", "schedule", Normalize) /\ proc'[p].cascade = FALSE
<1> DEFINE y == [Off EXCEPT !.cmd = "run"]
           z == [y EXCEPT !.step = "schedule"]
           x == [z EXCEPT !.last = last]
<1>2. proc' = [proc EXCEPT ![p] = x]
  BY DEF RunStart
<1>3. Record(y) /\ y.cmd = "run" /\ y.at = Normalize /\ y.cascade = FALSE
  BY OffIsRecord DEF Record
<1> HIDE DEF y
<1>4. /\ Record(z) /\ z.cmd = "run" /\ z.step = "schedule" /\ z.at = Normalize
      /\ z.cascade = FALSE
  BY <1>3 DEF Record
<1> HIDE DEF z
<1>1. /\ Record(x) /\ x.cmd = "run" /\ x.step = "schedule" /\ x.at = Normalize
      /\ x.cascade = FALSE
  BY <1>4 DEF Record
<1> HIDE DEF x
<1>5. proc'[p] = x
  BY <1>2 DEF Shape, ProcShape
<1> QED
  BY <1>1, <1>2, <1>5, Becomes

LEMMA CardsStartMoves ==
  ASSUME NEW p \in Procs, Shape, CardsStart(p)
  PROVE  /\ Moves(p, "cards", "run", Cards)
         /\ proc'[p].input = CardInputs(Recorded(Gate))
<1> DEFINE x == Direct("cards", Cards, Recorded(Gate))
<1>1. /\ Record(x) /\ x.cmd = "cards" /\ x.step = "run" /\ x.at = Cards
      /\ x.input = Inputs(Recorded(Gate))[Cards]
  BY DirectIsRecord
<1>2. proc' = [proc EXCEPT ![p] = x]
  BY DEF CardsStart
<1> HIDE DEF x
<1>3. proc'[p] = x
  BY <1>2 DEF Shape, ProcShape
<1>4. Inputs(Recorded(Gate))[Cards] = CardInputs(Recorded(Gate))
  BY DEF Inputs, Cards
<1> QED
  BY <1>1, <1>2, <1>3, <1>4, Becomes

LEMMA PackageStartMoves ==
  ASSUME NEW p \in Procs, Shape, PackageStart(p)
  PROVE  Moves(p, "package", "read", Package) /\ proc'[p].found = ReadNow
<1> DEFINE d == Direct("package", Package, Recorded(Cards))
           y == [d EXCEPT !.step = "read"]
           x == [y EXCEPT !.found = ReadNow]
<1>2. proc' = [proc EXCEPT ![p] = x]
  BY DEF PackageStart
<1>3. Record(d) /\ d.cmd = "package" /\ d.at = Package
  BY DirectIsRecord
<1> HIDE DEF d
<1>4. Record(y) /\ y.cmd = "package" /\ y.step = "read" /\ y.at = Package
  BY <1>3 DEF Record
<1> HIDE DEF y
<1>1. /\ Record(x) /\ x.cmd = "package" /\ x.step = "read" /\ x.at = Package
      /\ x.found = ReadNow
  BY <1>4 DEF Record
<1> HIDE DEF x
<1>5. proc'[p] = x
  BY <1>2 DEF Shape, ProcShape
<1> QED
  BY <1>1, <1>2, <1>5, Becomes

------------------------------------------------------------------------------
(* A step that marks nothing RUNNING, takes no lock and changes no command *)
(* keeps the invariant.                                                    *)
Working == {"run", "read", "write", "save"}

LEMMA QuietStep ==
  ASSUME NEW p \in Procs, NEW step, NEW at, IInv,
         Moves(p, proc[p].cmd, step, at), lock' = lock, LedgerShape',
         step = "schedule" => proc[p].cmd = "run",
         \A x \in Stages : ledger'[x].status = "RUNNING" => ledger[x].status = "RUNNING",
         proc[p].cmd = "run" =>
           \A x \in Stages :
             ledger'[x].status = "RUNNING" => at = x /\ step \in Working
  PROVE  IInv'
<1>1. Shape'
  BY DEF Shape, Moves
<1>2. OnlyRunsSchedule'
  BY DEF IInv, OnlyRunsSchedule, Moves
<1>3. OneCompile'
  BY DEF IInv, OneCompile, Locked, Moves
<1>4. NoPhantomRunning'
  BY DEF IInv, NoPhantomRunning, Moves, Working
<1> QED
  BY <1>1, <1>2, <1>3, <1>4 DEF IInv

(* Where a run schedules or stops, nothing is RUNNING; where it works,     *)
(* nothing but its stage is.                                               *)
LEMMA RunningIsHere ==
  ASSUME IInv, NEW p \in Procs, proc[p].cmd = "run", NEW x \in Stages,
         ledger[x].status = "RUNNING"
  PROVE  proc[p].at = x /\ proc[p].step \in Working
BY DEF IInv, NoPhantomRunning, Working

LEMMA ScheduleKeeps ==
  ASSUME IInv, NEW p \in Procs, Schedule(p)
  PROVE  IInv'
<1>1. Shape /\ lock' = lock /\ proc[p].step = "schedule" /\ proc[p].cmd = "run"
  BY DEF IInv, OnlyRunsSchedule, Schedule, Scheduling, HashFails, Skip, StopsBlocked, Begin
<1>2. \A x \in Stages : ledger[x].status # "RUNNING"
  BY <1>1, RunningIsHere DEF Working
<1>3. CASE HashFails(p)
  <2>1. Moves(p, "run", "end", Normalize)
    BY <1>1, <1>3, EndsMoves DEF HashFails
  <2>2. LedgerShape' /\ \A x \in Stages : ledger'[x].status # "RUNNING"
    BY <1>1, <1>2, <1>3, SaveOthers DEF HashFails
  <2> QED
    BY <1>1, <2>1, <2>2, QuietStep
<1>4. CASE Skip(p)
  <2>1. PICK step \in {"schedule", "end"} : Moves(p, "run", step, proc'[p].at)
    BY <1>1, <1>4, GoOnMoves DEF Skip
  <2>2. LedgerShape' /\ \A x \in Stages : ledger'[x].status # "RUNNING"
    BY <1>1, <1>2, <1>4 DEF Skip, Shape, LedgerShape
  <2> QED
    BY <1>1, <2>1, <2>2, QuietStep
<1>5. CASE StopsBlocked(p)
  <2>1. Moves(p, "run", "end", Normalize)
    BY <1>1, <1>5, EndsMoves DEF StopsBlocked
  <2>2. LedgerShape' /\ \A x \in Stages : ledger'[x].status # "RUNNING"
    BY <1>1, <1>2, <1>5 DEF StopsBlocked, Shape, LedgerShape
  <2> QED
    BY <1>1, <2>1, <2>2, QuietStep
<1>6. CASE Begin(p) /\ GateUnmet(p)
  <2>1. Moves(p, "run", "end", Normalize)
    BY <1>1, <1>6, EndsMoves DEF Begin
  <2>2. LedgerShape' /\ \A x \in Stages : ledger'[x].status # "RUNNING"
    BY <1>1, <1>2, <1>6, SaveOthers DEF Begin
  <2> QED
    BY <1>1, <2>1, <2>2, QuietStep
<1>7. CASE Begin(p) /\ ~GateUnmet(p)
  <2>1. Moves(p, "run", "run", proc[p].at)
    BY <1>1, <1>7, EntersMoves DEF Begin
  <2>2. LedgerShape' /\ \A x \in Stages :
          ledger'[x].status = "RUNNING" => x = proc[p].at
    BY <1>1, <1>2, <1>7, SaveOthers DEF Begin
  <2>3. \A q \in Procs \ {p} : proc[q].cmd # "run"
    BY <1>1 DEF IInv, OneCompile, Locked
  <2>4. NoPhantomRunning'
    BY <2>1, <2>2, <2>3 DEF NoPhantomRunning, Moves
  <2>5. OneCompile' /\ OnlyRunsSchedule'
    BY <1>1, <2>1 DEF IInv, OneCompile, Locked, OnlyRunsSchedule, Moves
  <2> QED
    BY <2>1, <2>2, <2>4, <2>5 DEF IInv, Shape, Moves
<1> QED
  BY <1>3, <1>4, <1>5, <1>6, <1>7 DEF Schedule

LEMMA WorkKeeps ==
  ASSUME IInv, NEW p \in Procs, Work(p)
  PROVE  IInv'
<1> DEFINE Still == LedgerShape' /\ \A x \in Stages : ledger'[x].status = ledger[x].status
           Done == LedgerShape' /\ \A x \in Stages :
                     ledger'[x].status = "RUNNING" =>
                       ledger[x].status = "RUNNING" /\ x # proc[p].at
<1>0. Shape
  BY DEF IInv
<1>1. ASSUME NEW step \in Working, Moves(p, proc[p].cmd, step, proc[p].at),
             proc[p].step \in Working, lock' = lock, Still
      PROVE  IInv'
  <2>1. \A x \in Stages : ledger'[x].status = "RUNNING" => ledger[x].status = "RUNNING"
    BY <1>1
  <2>2. proc[p].cmd = "run" =>
          \A x \in Stages : ledger'[x].status = "RUNNING" => proc[p].at = x
    BY <2>1, RunningIsHere
  <2>3. step # "schedule"
    BY DEF Working
  <2> QED
    BY <1>1, <2>1, <2>2, <2>3, QuietStep
<1>2. ASSUME NEW step, NEW at, Moves(p, proc[p].cmd, step, at), lock' = lock, Done,
             step = "schedule" => proc[p].cmd = "run"
      PROVE  IInv'
  BY <1>2, QuietStep, RunningIsHere
<1>3. UNCHANGED ledger => Still
  BY <1>0 DEF Shape, LedgerShape
<1>4. ASSUME NEW status \in {"OPEN", "BLOCKED"}, Save(proc[p].at, status)
      PROVE  Done
  BY <1>0, <1>4, SaveOthers
<1>5. ASSUME NEW input, NEW output, SavePassed(proc[p].at, input, output)
      PROVE  Done
  BY <1>0, <1>5, SavePassedOthers
<1> HIDE DEF Still, Done
<1>6. CASE OpenNormalized(p)
  BY <1>0, <1>1, <1>3, <1>6, HoldsMoves DEF OpenNormalized, Doing, Working
<1>7. CASE WriteNormalized(p)
  BY <1>0, <1>1, <1>3, <1>7, HoldsMoves DEF WriteNormalized, Doing, Working
<1>8. CASE GateAsks(p)
  BY <1>0, <1>2, <1>4, <1>8, EndsMoves DEF GateAsks, Doing
<1>9. CASE GatePasses(p)
  BY <1>0, <1>1, <1>3, <1>9, StepMoves DEF GatePasses, Doing, Working
<1>10. CASE OpenCards(p)
  BY <1>0, <1>1, <1>3, <1>10, HoldsMoves DEF OpenCards, Doing, Working
<1>11. CASE WriteCards(p)
  BY <1>0, <1>1, <1>3, <1>11, HoldsMoves DEF WriteCards, Doing, Working
<1>12. CASE ReadForPackage(p)
  BY <1>0, <1>1, <1>3, <1>12, HoldsMoves DEF ReadForPackage, Doing, Working
<1>17. CASE ReadCards(p)
  BY <1>0, <1>1, <1>3, <1>17, HoldsMoves DEF ReadCards, Doing, Working
<1>13. CASE WriteBundle(p)
  <2>1. SavePassed(proc[p].at, proc[p].input, NONE)
    BY <1>13 DEF WriteBundle, Doing
  <2>2. Moves(p, proc[p].cmd, "end", Normalize)
    BY <1>0, <1>13, EndsMoves DEF WriteBundle
  <2> QED
    BY <1>2, <1>5, <1>13, <2>1, <2>2 DEF WriteBundle
<1>14. CASE StagePasses(p)
  <2>1. Done
    BY <1>5, <1>14 DEF StagePasses
  <2>2. CASE proc[p].cmd = "run"
    <3>1. PICK step \in {"schedule", "end"} : Moves(p, "run", step, proc'[p].at)
      BY <1>0, <1>14, <2>2, GoOnMoves DEF StagePasses, Finish
    <3> QED
      BY <1>2, <1>14, <2>1, <2>2, <3>1 DEF StagePasses
  <2>3. CASE proc[p].cmd # "run"
    <3>1. Moves(p, proc[p].cmd, "end", Normalize)
      BY <1>0, <1>14, <2>3, EndsMoves DEF StagePasses, Finish
    <3> QED
      BY <1>2, <1>14, <2>1, <3>1 DEF StagePasses
  <2> QED
    BY <2>2, <2>3
<1>15. CASE StageFails(p)
  <2>1. Moves(p, proc[p].cmd, "end", Normalize) /\ lock' = lock
    BY <1>0, <1>15, EndsMoves DEF StageFails
  <2>2. CASE proc[p].cmd = "run"
    BY <1>2, <1>4, <1>15, <2>1, <2>2 DEF StageFails
  <2>3. CASE proc[p].cmd # "run"
    BY <1>3, <1>15, <2>1, <2>3, QuietStep DEF StageFails, Still
  <2> QED
    BY <2>2, <2>3
<1>16. CASE StageBlocks(p)
  BY <1>0, <1>2, <1>4, <1>16, EndsMoves DEF StageBlocks
<1> QED
  BY <1>6, <1>7, <1>8, <1>9, <1>10, <1>11, <1>12, <1>13, <1>14, <1>15, <1>16,
     <1>17 DEF Work

LEMMA RunStartKeeps ==
  ASSUME IInv, NEW p \in Procs, NEW last, RunStart(p, last)
  PROVE  IInv'
<1>1. Moves(p, "run", "schedule", Normalize)
  BY RunStartMoves DEF IInv
<1>2. \A q \in Procs : ~Locked(q)
  BY NoneAssumption DEF IInv, OneCompile, RunStart, LockFree
<1>3. LedgerShape' /\ \A s \in Stages : ledger'[s].status # "RUNNING"
  BY DEF IInv, Shape, LedgerShape, IsEntry, RunStart, Recovered, NoEntry
<1>4. OneCompile' /\ OnlyRunsSchedule' /\ NoPhantomRunning'
  BY <1>1, <1>2, <1>3
     DEF IInv, OneCompile, Locked, OnlyRunsSchedule, NoPhantomRunning, Moves, RunStart
<1> QED
  BY <1>1, <1>3, <1>4 DEF IInv, Shape, Moves

LEMMA DirectKeeps ==
  ASSUME IInv, NEW p \in Procs, CardsStart(p) \/ PackageStart(p)
  PROVE  IInv'
<1>1. LedgerShape' /\ ledger' = ledger
  BY DEF IInv, Shape, LedgerShape, CardsStart, PackageStart
<1>2. CASE CardsStart(p)
  <2>1. Moves(p, "cards", "run", Cards)
    BY <1>2, CardsStartMoves DEF IInv
  <2>2. \A q \in Procs : ~Locked(q)
    BY <1>2, NoneAssumption DEF IInv, OneCompile, CardsStart, LockFree
  <2>3. lock' = p
    BY <1>2 DEF CardsStart
  <2>4. OneCompile' /\ OnlyRunsSchedule' /\ NoPhantomRunning'
    BY <1>1, <2>1, <2>2, <2>3
       DEF IInv, OneCompile, Locked, OnlyRunsSchedule, NoPhantomRunning, Moves
  <2> QED
    BY <1>1, <2>1, <2>4 DEF IInv, Shape, Moves
<1>3. CASE PackageStart(p)
  <2>1. Moves(p, "package", "read", Package)
    BY <1>3, PackageStartMoves DEF IInv
  <2>2. lock' = lock
    BY <1>3 DEF PackageStart
  <2>3. OneCompile' /\ OnlyRunsSchedule' /\ NoPhantomRunning'
    BY <1>1, <2>1, <2>2
       DEF IInv, OneCompile, Locked, OnlyRunsSchedule, NoPhantomRunning, Moves
  <2> QED
    BY <1>1, <2>1, <2>3 DEF IInv, Shape, Moves
<1> QED
  BY <1>2, <1>3

(* A process that ends gives up its own lock only, one that dies none.     *)
LEMMA EndKeeps ==
  ASSUME IInv, NEW p \in Procs, End(p) \/ Die(p)
  PROVE  IInv'
<1>1. LedgerShape' /\ ledger' = ledger
  BY DEF IInv, Shape, LedgerShape, End, Die
<1>2. Moves(p, "off", "off", Normalize)
  BY OffMoves DEF IInv, End, Die
<1>3. lock' = lock \/ (lock = p /\ lock' = NONE)
  BY DEF End, Die
<1>4. OneCompile' /\ OnlyRunsSchedule' /\ NoPhantomRunning'
  BY <1>1, <1>2, <1>3
     DEF IInv, OneCompile, Locked, OnlyRunsSchedule, NoPhantomRunning, Moves
<1> QED
  BY <1>1, <1>2, <1>4 DEF IInv, Shape, Moves

LEMMA OthersKeep ==
  ASSUME IInv, Edit \/ Unlock \/ UNCHANGED vars
  PROVE  IInv'
<1>1. ledger' = ledger /\ proc' = proc
  BY DEF Edit, EditBook, ReviseVisual, EditRules, Ingest, Unlock, vars
<1>2. lock' = lock \/ \A p \in Procs : proc[p] = Off
  BY DEF Edit, EditBook, ReviseVisual, EditRules, Ingest, Unlock, vars
<1>3. OneCompile'
  BY <1>1, <1>2, OffIsRecord DEF IInv, OneCompile, Locked
<1> QED
  BY <1>1, <1>3 DEF IInv, Shape, ProcShape, LedgerShape, OnlyRunsSchedule, NoPhantomRunning

LEMMA InitHolds ==
  ASSUME Init
  PROVE  IInv
<1>1. \A p \in Procs : proc[p] = Off
  BY DEF Init
<1>2. \A s \in Stages : ledger[s] = NoEntry
  BY DEF Init
<1>3. ProcShape
  BY <1>1, OffIsRecord DEF Init, ProcShape
<1>4. LedgerShape
  BY <1>2 DEF Init, LedgerShape, IsEntry, NoEntry
<1>5. OneCompile /\ OnlyRunsSchedule /\ NoPhantomRunning
  BY <1>1, OffIsRecord DEF OneCompile, Locked, OnlyRunsSchedule, NoPhantomRunning
<1> QED
  BY <1>3, <1>4, <1>5 DEF IInv, Shape

(* The inductive invariant holds in every reachable state.                 *)
THEOREM Invariance == Spec => []IInv
<1>1. Init => IInv
  BY InitHolds
<1>2. IInv /\ [Next]_vars => IInv'
  BY ScheduleKeeps, WorkKeeps, RunStartKeeps, DirectKeeps, EndKeeps, OthersKeep DEF Next
<1> QED
  BY <1>1, <1>2, PTL DEF Spec

(* However many processes are started, die and are cleaned up after, one   *)
(* at a time compiles, and its lock is there (acquireWorkLock).            *)
THEOREM CompilesAreExclusive == Spec => []OneCompile
<1>1. IInv => OneCompile
  BY DEF IInv
<1> QED
  BY <1>1, Invariance, PTL

(* A run sees RUNNING on its own stage only: what a dead run left has been *)
(* recovered, and nobody else marks anything (runPipelineLocked).          *)
THEOREM RunningIsReal == Spec => []NoPhantomRunning
<1>1. IInv => NoPhantomRunning
  BY DEF IInv
<1> QED
  BY <1>1, Invariance, PTL

------------------------------------------------------------------------------
(* Cards that would be skipped are fresh.  Versions only grow, and each    *)
(* file and entry is bounded by what it was made of.                       *)
Older(r, t) == r.book <= t.book /\ r.visual <= t.visual
OlderCards(r, t) == Older(r, t) /\ r.queue <= t.queue /\ r.rules <= t.rules

(* The text that cards are of.                                             *)
TextOf(row) == [book |-> row.book, visual |-> row.visual]

TextsAndCards ==
  /\ sources \in CardRows
  /\ normalized \in TextRows \cup {NONE} /\ cards \in CardRows \cup {NONE}
  /\ normalized # NONE => Older(normalized, sources)
  /\ cards # NONE =>
       /\ OlderCards(cards, sources)
       /\ normalized # NONE => Older(cards, normalized)

TextInputs == [book : Nat]
GateInputs == [queue : Nat, up : TextRows]
CardsInputs == [queue : Nat, rules : Nat, up : {UnitsPassed, NONE}]

(* The text that the gate last passed.                                     *)
Upstream == ledger[Gate].input.up

EntriesAreOfTheFiles ==
  /\ Passed(Normalize) =>
       /\ normalized # NONE /\ ledger[Normalize].output = normalized
       /\ ledger[Normalize].input \in TextInputs
       /\ ledger[Normalize].input.book <= normalized.book
  /\ Passed(Gate) =>
       /\ ledger[Gate].output = UnitsPassed
       /\ ledger[Gate].input \in GateInputs
       /\ Older(Upstream, sources)
       /\ normalized # NONE => Older(Upstream, normalized)
  /\ Passed(Cards) =>
       /\ ledger[Cards].input \in CardsInputs
       /\ ledger[Cards].input.queue <= sources.queue
       /\ ledger[Cards].input.rules <= sources.rules

(* The next run would not make the cards again for their inputs.           *)
CardsCurrent ==
  /\ Passed(Gate) /\ Passed(Cards)
  /\ ledger[Cards].input = CardInputs(UnitsPassed)

(* A run that has passed the gate again and comes to the cards.            *)
Remaking == \E p \in Procs : Doing(p, "schedule", Cards) /\ proc[p].cascade

CardsFollow ==
  ~lost /\ ~Remaking =>
    /\ Passed(Gate) /\ Passed(Cards) /\ cards # NONE => Older(Upstream, cards)
    /\ CardsCurrent =>
         /\ cards # NONE /\ cards.queue = sources.queue /\ cards.rules = sources.rules
         /\ ledger[Cards].output = cards

(* What holds of the compile under way.                                    *)
In(p, s) == proc[p].at = s /\ proc[p].step \in Working

RunsInOrder(p) ==
  (proc[p].cmd = "run" /\ proc[p].step \in {"schedule"} \cup Working) =>
    /\ proc[p].at # Normalize => Passed(Normalize)
    /\ proc[p].at = Gate => proc[p].up = ledger[Normalize].output
    /\ proc[p].at \in {Cards, Package} =>
         Passed(Gate) /\ Upstream = ledger[Normalize].output
    /\ proc[p].at = Cards => proc[p].up = UnitsPassed

Normalizes(p) ==
  In(p, Normalize) =>
    /\ ~Passed(Normalize)
    /\ proc[p].input \in TextInputs /\ proc[p].input.book <= sources.book
    /\ proc[p].step = "write" =>
         /\ proc[p].found \in TextRows /\ Older(proc[p].found, sources)
         /\ proc[p].input.book <= proc[p].found.book
         /\ cards # NONE => Older(cards, proc[p].found)
         /\ Passed(Gate) => Older(Upstream, proc[p].found)
    /\ proc[p].step = "save" => normalized # NONE /\ proc[p].input.book <= normalized.book

Gates(p) ==
  In(p, Gate) => proc[p].input \in GateInputs /\ proc[p].input.up = ledger[Normalize].output

(* Rows are of the text there is, and of a queue and rules read later than *)
(* the hash.                                                               *)
MadeAfter(row, input) ==
  /\ row \in CardRows
  /\ input.queue <= row.queue /\ row.queue <= sources.queue
  /\ input.rules <= row.rules /\ row.rules <= sources.rules
  /\ normalized # NONE /\ TextOf(row) = normalized

MakesCards(p) ==
  In(p, Cards) =>
    /\ ~CardsCurrent
    /\ proc[p].input \in CardsInputs
    /\ proc[p].input.queue <= sources.queue /\ proc[p].input.rules <= sources.rules
    /\ proc[p].step = "write" => cards = NONE /\ MadeAfter(proc[p].found, proc[p].input)
    /\ proc[p].step = "save" => MadeAfter(cards, proc[p].input)

Packages(p) ==
  /\ Doing(p, "read", Package) =>
       /\ proc[p].found.text = normalized /\ normalized # NONE
       /\ Passed(Normalize) /\ Passed(Gate) /\ Passed(Cards)
  /\ (Doing(p, "write", Package) /\ proc[p].cmd = "run" /\ ~lost) =>
       proc[p].found.text = TextOf(proc[p].found.cards)

Compile(p) == RunsInOrder(p) /\ Normalizes(p) /\ Gates(p) /\ MakesCards(p) /\ Packages(p)

(* Text and gate are a run's, the cards a compile's; the direct package    *)
(* begins by writing, and ends without saving.                             *)
Placed(p) ==
  /\ proc[p].at \in Nat \ {0}
  /\ In(p, Normalize) \/ In(p, Gate) => proc[p].cmd = "run"
  /\ In(p, Cards) \/ proc[p].step = "run" => Locked(p)
  /\ proc[p].step = "save" => proc[p].at \in Predecessors

Places == \A p \in Procs : Placed(p)

FreshInv ==
  /\ TextsAndCards /\ EntriesAreOfTheFiles /\ CardsFollow /\ Places
  /\ \A p \in Procs : Locked(p) => Compile(p)

------------------------------------------------------------------------------
(* Steps that write no file and pass no entry.                             *)
Grown ==
  /\ sources' \in CardRows
  /\ OlderCards(sources, sources')

SameOrOpen ==
  \A s \in Predecessors : ledger'[s] = ledger[s] \/ ledger'[s].status # "PASSED"

SameEntries == \A s \in Predecessors : ledger'[s] = ledger[s]

LEMMA StagesAre ==
  /\ Normalize \in Predecessors /\ Gate \in Predecessors /\ Cards \in Predecessors
  /\ Predecessors \subseteq Stages /\ Package \in Stages /\ Package \notin Predecessors
  /\ Normalize # Gate /\ Gate # Cards /\ Cards # Normalize
BY DEF Normalize, Gate, Cards, Package, Stages, Predecessors

(* Inputs never become those of a hash again.                              *)
LEMMA CurrentWasCurrent ==
  ASSUME TextsAndCards, EntriesAreOfTheFiles, Grown, SameOrOpen, CardsCurrent'
  PROVE  CardsCurrent /\ sources'.queue = sources.queue /\ sources'.rules = sources.rules
<1>1. ledger'[Cards] = ledger[Cards] /\ Passed(Cards)
  BY StagesAre DEF SameOrOpen, CardsCurrent, Passed
<1>2. ledger'[Gate] = ledger[Gate] /\ Passed(Gate)
  BY StagesAre DEF SameOrOpen, CardsCurrent, Passed
<1>3. ledger[Cards].input = [queue |-> sources'.queue, rules |-> sources'.rules, up |-> UnitsPassed]
  BY <1>1 DEF CardsCurrent, CardInputs
<1>4. ledger[Cards].input.queue = sources'.queue /\ ledger[Cards].input.rules = sources'.rules
  BY <1>3
<1>5. ledger[Cards].input.queue <= sources.queue /\ ledger[Cards].input.rules <= sources.rules
  BY <1>1 DEF EntriesAreOfTheFiles
<1>6. sources \in CardRows /\ sources' \in CardRows
  BY DEF TextsAndCards, Grown
<1>7. sources'.queue = sources.queue /\ sources'.rules = sources.rules
  BY <1>4, <1>5, <1>6 DEF Grown, OlderCards, Older, CardRows
<1> QED
  BY <1>1, <1>2, <1>3, <1>7 DEF CardsCurrent, CardInputs

LEMMA FilesKept ==
  ASSUME TextsAndCards, EntriesAreOfTheFiles, CardsFollow,
         Grown, SameOrOpen, normalized' = normalized, cards' = cards,
         lost => lost', Remaking => Remaking' \/ lost' \/ ~Passed(Cards)'
  PROVE  TextsAndCards' /\ EntriesAreOfTheFiles' /\ CardsFollow'
<1>0. sources \in CardRows /\ sources' \in CardRows
  BY DEF TextsAndCards, Grown
<1>1. TextsAndCards'
  BY <1>0 DEF TextsAndCards, Grown, OlderCards, Older, CardRows, TextRows
<1>2. ASSUME NEW s \in Predecessors, Passed(s)'
      PROVE  ledger'[s] = ledger[s] /\ Passed(s)
  BY <1>2 DEF SameOrOpen, Passed
<1>3. EntriesAreOfTheFiles'
  <2>1. Passed(Normalize)' =>
          /\ normalized' # NONE /\ ledger'[Normalize].output = normalized'
          /\ ledger'[Normalize].input \in TextInputs
          /\ ledger'[Normalize].input.book <= normalized'.book
    BY <1>2, StagesAre DEF EntriesAreOfTheFiles
  <2>2. Passed(Gate)' =>
          /\ ledger'[Gate].output = UnitsPassed
          /\ ledger'[Gate].input \in GateInputs
          /\ Older(Upstream', sources')
          /\ normalized' # NONE => Older(Upstream', normalized')
    <3>1. SUFFICES ASSUME Passed(Gate)' PROVE
          /\ ledger'[Gate].output = UnitsPassed
          /\ ledger'[Gate].input \in GateInputs
          /\ Older(Upstream', sources')
          /\ normalized' # NONE => Older(Upstream', normalized')
      OBVIOUS
    <3>2. Passed(Gate) /\ ledger'[Gate] = ledger[Gate] /\ Upstream' = Upstream
      BY <1>2, <3>1, StagesAre DEF Upstream
    <3>3. Upstream \in TextRows
      BY <3>2 DEF EntriesAreOfTheFiles, GateInputs, Upstream
    <3>4. Older(Upstream, sources')
      BY <1>0, <3>2, <3>3 DEF EntriesAreOfTheFiles, Grown, OlderCards, Older, CardRows, TextRows
    <3> QED
      BY <3>2, <3>4 DEF EntriesAreOfTheFiles
  <2>3. Passed(Cards)' =>
          /\ ledger'[Cards].input \in CardsInputs
          /\ ledger'[Cards].input.queue <= sources'.queue
          /\ ledger'[Cards].input.rules <= sources'.rules
    BY <1>0, <1>2, StagesAre DEF EntriesAreOfTheFiles, Grown, OlderCards, Older, CardRows, CardsInputs
  <2> QED
    BY <2>1, <2>2, <2>3 DEF EntriesAreOfTheFiles
<1>4. CardsFollow'
  <2>1. SUFFICES ASSUME ~lost', ~Remaking'
        PROVE  /\ Passed(Gate)' /\ Passed(Cards)' /\ cards' # NONE => Older(Upstream', cards')
               /\ CardsCurrent' =>
                    /\ cards' # NONE /\ cards'.queue = sources'.queue
                    /\ cards'.rules = sources'.rules /\ ledger'[Cards].output = cards'
    BY DEF CardsFollow
  <2>2. CASE ~Passed(Cards)'
    BY <2>2 DEF CardsCurrent
  <2>3. CASE Passed(Cards)'
    <3>1. ~lost /\ ~Remaking
      BY <2>1, <2>3
    <3>2. Passed(Gate)' => Passed(Gate) /\ Upstream' = Upstream
      BY <1>2, StagesAre DEF Upstream
    <3>3. Passed(Cards) /\ ledger'[Cards] = ledger[Cards]
      BY <1>2, <2>3, StagesAre
    <3>4. CardsCurrent' =>
            CardsCurrent /\ sources'.queue = sources.queue /\ sources'.rules = sources.rules
      BY CurrentWasCurrent
    <3> QED
      BY <3>1, <3>2, <3>3, <3>4 DEF CardsFollow
  <2> QED
    BY <2>2, <2>3
<1> QED
  BY <1>1, <1>3, <1>4

(* A compile that stays where it is, while sources grow.                   *)
LEMMA CompileGoesOn ==
  ASSUME TextsAndCards, EntriesAreOfTheFiles, NEW p \in Procs, Compile(p),
         Grown, SameEntries, normalized' = normalized, cards' = cards,
         lost => lost', proc'[p] = proc[p]
  PROVE  Compile(p)'
<1>0. sources \in CardRows /\ sources' \in CardRows
  BY DEF TextsAndCards, Grown
<1>1. /\ ledger'[Normalize] = ledger[Normalize] /\ ledger'[Gate] = ledger[Gate]
      /\ ledger'[Cards] = ledger[Cards] /\ SameOrOpen
  BY StagesAre DEF SameEntries, SameOrOpen
<1>2. RunsInOrder(p)'
  BY <1>1 DEF Compile, RunsInOrder, Upstream, Passed
<1>3. Normalizes(p)'
  <2>1. SUFFICES ASSUME In(p, Normalize)'
                 PROVE  Normalizes(p)'
    BY DEF Normalizes
  <2>2. In(p, Normalize) /\ Normalizes(p)
    BY <2>1 DEF In, Compile
  <2>3. proc[p].input \in TextInputs /\ proc[p].input.book <= sources'.book
    BY <1>0, <2>2 DEF Normalizes, TextInputs, Grown, OlderCards, Older, CardRows
  <2>4. proc[p].step = "write" => proc[p].found \in TextRows /\ Older(proc[p].found, sources')
    BY <1>0, <2>2 DEF Normalizes, Grown, OlderCards, Older, CardRows, TextRows
  <2> QED
    BY <1>1, <2>2, <2>3, <2>4 DEF Normalizes, Passed, Upstream
<1>4. Gates(p)'
  BY <1>1 DEF Compile, Gates, In
<1>5. MakesCards(p)'
  <2>1. SUFFICES ASSUME In(p, Cards)'
                 PROVE  MakesCards(p)'
    BY DEF MakesCards
  <2>2. In(p, Cards)
    BY <2>1 DEF In
  <2>3. ~CardsCurrent'
    BY <1>1, <2>2, CurrentWasCurrent DEF Compile, MakesCards
  <2>4. proc[p].input \in CardsInputs /\ proc[p].input.queue \in Nat /\ proc[p].input.rules \in Nat
    BY <2>2 DEF Compile, MakesCards, CardsInputs
  <2>5. proc[p].input.queue <= sources'.queue /\ proc[p].input.rules <= sources'.rules
    BY <1>0, <2>2, <2>4 DEF Compile, MakesCards, Grown, OlderCards, Older, CardRows
  <2>6. ASSUME NEW row, MadeAfter(row, proc[p].input)
        PROVE  MadeAfter(row, proc[p].input)'
    <3>1. row \in CardRows
      BY <2>6 DEF MadeAfter
    <3>2. row.queue <= sources'.queue /\ row.rules <= sources'.rules
      BY <1>0, <2>6, <3>1 DEF MadeAfter, Grown, OlderCards, Older, CardRows
    <3> QED
      BY <2>6, <3>1, <3>2 DEF MadeAfter
  <2>7. proc[p].step = "write" => MadeAfter(proc[p].found, proc[p].input)'
    BY <2>2, <2>6 DEF Compile, MakesCards
  <2>8. proc[p].step = "save" => MadeAfter(cards, proc[p].input)'
    BY <2>2, <2>6 DEF Compile, MakesCards
  <2> QED
    <3>1. proc[p].step = "write" => cards' = NONE
      BY <2>2 DEF Compile, MakesCards
    <3> QED
      BY <2>3, <2>4, <2>5, <2>7, <2>8, <3>1 DEF MakesCards, MadeAfter
<1>6. Packages(p)'
  BY <1>1 DEF Compile, Packages, Doing, Passed
<1> QED
  BY <1>2, <1>3, <1>4, <1>5, <1>6 DEF Compile

(* A compile is alone: of the others nothing is claimed.                   *)
LEMMA Alone ==
  ASSUME IInv, NEW p \in Procs, Locked(p)
  PROVE  \A q \in Procs \ {p} : ~Locked(q)
BY DEF IInv, OneCompile

LEMMA RemakerIsLocked ==
  ASSUME IInv, NEW p \in Procs, Doing(p, "schedule", Cards)
  PROVE  Locked(p)
BY DEF IInv, OnlyRunsSchedule, Doing, Locked

(* p takes a step after which it makes nothing, or nothing but a package.  *)
Rests(p) ==
  \/ proc'[p].step \in {"end", "off"}
  \/ ~Locked(p)' /\ proc'[p].step \in {"read", "write"} /\ proc'[p].at = Package

LEMMA RestKeeps ==
  ASSUME IInv, FreshInv, NEW p \in Procs, Rests(p), proc'[p].at \in Nat \ {0},
         \A q \in Procs \ {p} : proc'[q] = proc[q],
         Grown, SameOrOpen, normalized' = normalized, cards' = cards, lost => lost',
         ~Locked(p) => SameEntries,
         Doing(p, "schedule", Cards) /\ proc[p].cascade => lost' \/ ~Passed(Cards)'
  PROVE  FreshInv'
<1>1. Remaking => Remaking' \/ lost' \/ ~Passed(Cards)'
  BY DEF Remaking, Doing
<1>2. TextsAndCards' /\ EntriesAreOfTheFiles' /\ CardsFollow'
  BY <1>1, FilesKept DEF FreshInv
<1>3. ~In(p, Normalize)' /\ ~In(p, Gate)' /\ ~In(p, Cards)'
  BY DEF Rests, In, Working, Normalize, Gate, Cards, Package
<1>4. Places'
  BY <1>3 DEF FreshInv, Places, Placed, Rests, In, Locked
<1>5. ASSUME NEW q \in Procs, Locked(q)' PROVE Compile(q)'
  <2>1. CASE q = p
    BY <1>3, <2>1, <1>5 DEF Compile, RunsInOrder, Normalizes, Gates, MakesCards, Packages,
                            Doing, Rests, Working, Locked
  <2>2. CASE q # p
    <3>1. Locked(q) /\ proc'[q] = proc[q]
      BY <1>5, <2>2 DEF Locked
    <3>2. SameEntries
      BY <2>2, <3>1, Alone
    <3> QED
      BY <3>1, <3>2, CompileGoesOn DEF FreshInv
  <2> QED
    BY <2>1, <2>2
<1> QED
  BY <1>2, <1>4, <1>5 DEF FreshInv

LEMMA EditKeepsFresh ==
  ASSUME IInv, FreshInv, Edit
  PROVE  FreshInv'
<1>1. sources \in CardRows
  BY DEF FreshInv, TextsAndCards
<1>2. Grown
  BY <1>1 DEF Edit, EditBook, ReviseVisual, EditRules, Ingest, Grown, OlderCards, Older, CardRows
<1>3. UNCHANGED <<ledger, normalized, cards, proc, lost>>
  BY DEF Edit, EditBook, ReviseVisual, EditRules, Ingest
<1>4. SameOrOpen /\ SameEntries /\ (Remaking => Remaking')
  BY <1>3 DEF SameOrOpen, SameEntries, Remaking, Doing
<1>5. TextsAndCards' /\ EntriesAreOfTheFiles' /\ CardsFollow'
  BY <1>2, <1>3, <1>4, FilesKept DEF FreshInv
<1>6. Places' /\ \A p \in Procs : Locked(p)' => Compile(p)'
  BY <1>2, <1>3, <1>4, CompileGoesOn DEF FreshInv, Places, Placed, Rests, In, Locked
<1> QED
  BY <1>5, <1>6 DEF FreshInv

LEMMA NotGrown ==
  ASSUME FreshInv, sources' = sources
  PROVE  Grown
BY DEF FreshInv, TextsAndCards, Grown, OlderCards, Older, CardRows

(* Whatever ends a stage without passing it, and the package commands.     *)
LEMMA EndsKeepFresh ==
  ASSUME IInv, FreshInv, NEW p \in Procs,
         \/ HashFails(p) \/ StopsBlocked(p) \/ (Begin(p) /\ GateUnmet(p))
         \/ GateAsks(p) \/ WriteBundle(p) \/ StageFails(p) \/ StageBlocks(p)
         \/ End(p) \/ Die(p) \/ PackageStart(p) \/ (ReadCards(p) /\ ~Locked(p))
  PROVE  FreshInv'
<1>0. Shape /\ proc[p].at \in Nat \ {0}
  BY DEF IInv, FreshInv, Places, Placed
<1> DEFINE Others == \A q \in Procs \ {p} : proc'[q] = proc[q]
           Asked == Doing(p, "schedule", Cards) /\ proc[p].cascade
<1>1. ASSUME Ends(p)
      PROVE  Rests(p) /\ Others /\ proc'[p].at \in Nat \ {0}
  BY <1>0, <1>1, EndsMoves DEF Moves, Rests, Normalize
<1>2. ASSUME proc' = [proc EXCEPT ![p] = Off]
      PROVE  Rests(p) /\ Others /\ proc'[p].at \in Nat \ {0}
  <2>1. Moves(p, "off", "off", Normalize)
    BY <1>0, <1>2, OffMoves
  <2> QED
    BY <2>1 DEF Moves, Rests, Normalize
<1>3. ASSUME NEW status \in {"OPEN", "BLOCKED"}, NEW s, Save(s, status)
      PROVE  /\ SameOrOpen
             /\ s = Cards => ~Passed(Cards)'
  BY <1>0, <1>3, SaveOthers, StagesAre DEF SameOrOpen, Passed
<1>4. UNCHANGED ledger => SameOrOpen /\ SameEntries
  BY DEF SameOrOpen, SameEntries
<1>5. sources' = sources => Grown
  BY NotGrown
<1>6. CASE HashFails(p)
  <2>1. proc[p].step = "schedule" /\ Locked(p)
    BY <1>6 DEF HashFails, Scheduling, IInv, OnlyRunsSchedule, Locked
  <2>2. SameOrOpen /\ (Asked => ~Passed(Cards)')
    BY <1>3, <1>6 DEF HashFails, Doing
  <2> QED
    BY <1>1, <1>5, <1>6, <2>1, <2>2, RestKeeps DEF HashFails
<1>7. CASE StopsBlocked(p)
  <2>1. Asked => ~Passed(Cards)'
    BY <1>7 DEF StopsBlocked, Doing, Passed
  <2> QED
    BY <1>1, <1>4, <1>5, <1>7, <2>1, RestKeeps DEF StopsBlocked
<1>8. CASE Begin(p) /\ GateUnmet(p)
  <2>1. proc[p].step = "schedule" /\ Locked(p) /\ Save(proc[p].at, "BLOCKED") /\ Ends(p)
    BY <1>8 DEF Begin, Scheduling, IInv, OnlyRunsSchedule, Locked
  <2>2. SameOrOpen /\ (Asked => ~Passed(Cards)')
    BY <1>3, <2>1 DEF Doing
  <2> QED
    BY <1>1, <1>5, <1>8, <2>1, <2>2, RestKeeps DEF Begin
<1>9. CASE GateAsks(p)
  <2>1. Grown
    <3>1. sources \in CardRows
      BY DEF FreshInv, TextsAndCards
    <3> QED
      BY <1>9, <3>1 DEF GateAsks, Grown, OlderCards, Older, CardRows
  <2>2. Locked(p) /\ ~Asked
    BY <1>9 DEF GateAsks, Doing, FreshInv, Places, Placed, In, Working, Locked
  <2>3. SameOrOpen
    BY <1>3, <1>9 DEF GateAsks
  <2> QED
    BY <1>1, <1>9, <2>1, <2>2, <2>3, RestKeeps DEF GateAsks
<1>10. CASE WriteBundle(p)
  <2>1. SameEntries /\ SameOrOpen
    BY <1>0, <1>10, SavePassedOthers, StagesAre DEF WriteBundle, SameEntries, SameOrOpen
  <2>2. ~Asked
    BY <1>10 DEF WriteBundle, Doing
  <2> QED
    BY <1>1, <1>5, <1>10, <2>1, <2>2, RestKeeps DEF WriteBundle
<1>11. CASE StageFails(p)
  <2>1. SameOrOpen /\ (~Locked(p) => SameEntries)
    BY <1>3, <1>4, <1>11 DEF StageFails, Locked
  <2>2. ~Asked
    BY <1>11 DEF StageFails, Doing
  <2> QED
    BY <1>1, <1>5, <1>11, <2>1, <2>2, RestKeeps DEF StageFails
<1>12. CASE StageBlocks(p)
  <2>1. SameOrOpen /\ Locked(p)
    BY <1>3, <1>12 DEF StageBlocks, Locked
  <2>2. ~Asked
    BY <1>12 DEF StageBlocks, Doing
  <2> QED
    BY <1>1, <1>5, <1>12, <2>1, <2>2, RestKeeps DEF StageBlocks
<1>13. CASE End(p)
  <2>1. ~Asked
    BY <1>13 DEF End, Doing
  <2> QED
    BY <1>2, <1>4, <1>5, <1>13, <2>1, RestKeeps DEF End
<1>14. CASE Die(p)
  <2>1. (lost => lost') /\ (Asked => lost')
    BY <1>14 DEF Die
  <2> QED
    BY <1>2, <1>4, <1>5, <1>14, <2>1, RestKeeps DEF Die
<1>15. CASE PackageStart(p)
  <2>1. Rests(p) /\ Others /\ proc'[p].at \in Nat \ {0}
    BY <1>0, <1>15, PackageStartMoves DEF Moves, Rests, Package, Locked
  <2>2. ~Asked
    BY <1>15, OffIsRecord DEF PackageStart, Doing
  <2> QED
    BY <1>4, <1>5, <1>15, <2>1, <2>2, RestKeeps DEF PackageStart
<1>16. CASE ReadCards(p) /\ ~Locked(p)
  <2>1. Moves(p, proc[p].cmd, "write", Package)
    BY <1>0, <1>16, HoldsMoves DEF ReadCards, Doing
  <2>2. Rests(p) /\ Others /\ proc'[p].at \in Nat \ {0}
    BY <1>16, <2>1 DEF Moves, Rests, Package, Locked
  <2>3. ~Asked
    BY <1>16 DEF ReadCards, Doing
  <2> QED
    BY <1>4, <1>5, <1>16, <2>2, <2>3, RestKeeps DEF ReadCards
<1> QED
  BY <1>6, <1>7, <1>8, <1>9, <1>10, <1>11, <1>12, <1>13, <1>14, <1>15, <1>16

------------------------------------------------------------------------------
(* The steps of the compile under way, which is alone.                     *)
LEMMA OneKeeps ==
  ASSUME FreshInv, NEW p \in Procs,
         \A q \in Procs \ {p} : proc'[q] = proc[q] /\ ~Locked(q),
         TextsAndCards', EntriesAreOfTheFiles', CardsFollow', Placed(p)', Compile(p)'
  PROVE  FreshInv'
<1>1. \A q \in Procs \ {p} : Placed(q)' /\ ~Locked(q)'
  BY DEF FreshInv, Places, Placed, In, Locked
<1> QED
  BY <1>1 DEF FreshInv, Places

(* Steps of the compile that write no file and pass no entry.              *)
LEMMA QuietKeepsFresh ==
  ASSUME IInv, FreshInv, NEW p \in Procs,
         \A q \in Procs \ {p} : proc'[q] = proc[q] /\ ~Locked(q),
         UNCHANGED <<sources, normalized, cards, lost>>, SameOrOpen,
         Doing(p, "schedule", Cards) /\ proc[p].cascade => ~Passed(Cards)',
         Placed(p)', Compile(p)'
  PROVE  FreshInv'
<1>1. Remaking => Remaking' \/ lost' \/ ~Passed(Cards)'
  BY DEF Remaking, Doing
<1>2. Grown
  BY NotGrown
<1> QED
  BY <1>1, <1>2, FilesKept, OneKeeps DEF FreshInv

LEMMA RunStartKeepsFresh ==
  ASSUME IInv, FreshInv, NEW p \in Procs, NEW last, RunStart(p, last)
  PROVE  FreshInv'
<1>1. Moves(p, "run", "schedule", Normalize)
  BY RunStartMoves DEF IInv
<1>2. \A q \in Procs : ~Locked(q)
  BY NoneAssumption DEF IInv, OneCompile, RunStart, LockFree
<1>3. SameOrOpen
  BY StagesAre DEF RunStart, Recovered, SameOrOpen, NoEntry
<1>4. ~Doing(p, "schedule", Cards)
  BY OffIsRecord DEF RunStart, Doing
<1>5. Placed(p)'
  BY <1>1 DEF Moves, Placed, In, Working, Normalize
<1>6. Compile(p)'
  BY <1>1 DEF Moves, Compile, RunsInOrder, Normalizes, Gates, MakesCards, Packages, In,
              Doing, Working, Normalize, Gate, Cards, Package
<1> QED
  BY <1>1, <1>2, <1>3, <1>4, <1>5, <1>6, QuietKeepsFresh DEF Moves, RunStart

LEMMA CardsStartKeepsFresh ==
  ASSUME IInv, FreshInv, NEW p \in Procs, CardsStart(p)
  PROVE  FreshInv'
<1>1. Moves(p, "cards", "run", Cards) /\ proc'[p].input = CardInputs(Recorded(Gate))
  BY CardsStartMoves DEF IInv
<1>2. \A q \in Procs : ~Locked(q)
  BY NoneAssumption DEF IInv, OneCompile, CardsStart, LockFree
<1>3. UNCHANGED <<sources, ledger, normalized, cards, lost>> /\ SameOrOpen
  BY DEF CardsStart, SameOrOpen
<1>4. ~Doing(p, "schedule", Cards)
  BY OffIsRecord DEF CardsStart, Doing
<1>5. Placed(p)'
  BY <1>1 DEF Moves, Placed, In, Working, Locked, Normalize, Gate, Cards
<1>6. ~CardsCurrent
  <2>1. SUFFICES ASSUME CardsCurrent PROVE FALSE
    OBVIOUS
  <2>2. Recorded(Gate) = UnitsPassed
    BY <2>1 DEF CardsCurrent, Recorded, FreshInv, EntriesAreOfTheFiles
  <2>3. Inputs(UnitsPassed)[Cards] = CardInputs(UnitsPassed)
    BY DEF Inputs, Cards
  <2>4. Matches(Cards, Recorded(Gate))
    BY <2>1, <2>2, <2>3 DEF CardsCurrent, Matches
  <2> QED
    BY <2>4 DEF CardsStart
<1>7. MakesCards(p)'
  <2>1. ~CardsCurrent'
    BY <1>3, <1>6 DEF CardsCurrent, Passed, CardInputs
  <2>2. Recorded(Gate) \in {UnitsPassed, NONE}
    BY DEF Recorded, FreshInv, EntriesAreOfTheFiles
  <2>3. proc'[p].input \in CardsInputs /\ proc'[p].input.queue = sources.queue
          /\ proc'[p].input.rules = sources.rules
    BY <1>1, <2>2 DEF CardInputs, CardsInputs, FreshInv, TextsAndCards, CardRows
  <2>4. sources.queue <= sources.queue /\ sources.rules <= sources.rules
    BY DEF FreshInv, TextsAndCards, CardRows
  <2> QED
    BY <1>1, <1>3, <2>1, <2>3, <2>4 DEF MakesCards, Moves
<1>8. Compile(p)'
  BY <1>1, <1>7 DEF Moves, Compile, RunsInOrder, Normalizes, Gates, Packages, In,
                    Doing, Normalize, Gate, Cards, Package
<1> QED
  BY <1>1, <1>2, <1>3, <1>4, <1>5, <1>8, QuietKeepsFresh DEF Moves

LEMMA InputsAre ==
  ASSUME NEW up
  PROVE  /\ Inputs(up)[Normalize] = [book |-> sources.book]
         /\ Inputs(up)[Gate] = [queue |-> sources.queue, up |-> up]
         /\ Inputs(up)[Cards] = CardInputs(up)
BY DEF Inputs, Normalize, Gate, Cards

LEMMA SkipKeepsFresh ==
  ASSUME IInv, FreshInv, NEW p \in Procs, Skip(p)
  PROVE  FreshInv'
<1> DEFINE s == proc[p].at
<1>1. proc[p].step = "schedule" /\ proc[p].cmd = "run" /\ Locked(p)
  BY DEF Skip, Scheduling, IInv, OnlyRunsSchedule, Locked
<1>2. PICK step \in {"schedule", "end"} : Moves(p, "run", step, proc'[p].at)
  BY <1>1, GoOnMoves DEF IInv, Skip
<1>3. GoesOn(p, ledger[s].output, FALSE) /\ proc'[p].at \in {Normalize, s + 1}
  BY <1>1, GoOnMoves DEF IInv, Skip
<1>4. UNCHANGED <<sources, ledger, normalized, cards, lost>> /\ SameOrOpen
  BY DEF Skip, SameOrOpen
<1>5. s \in Nat \ {0} /\ ~proc[p].cascade /\ Matches(s, proc[p].up)
  BY DEF FreshInv, Places, Placed, Skip, MaySkip
<1>6. Placed(p)'
  BY <1>2, <1>3, <1>5 DEF Moves, Placed, In, Working, Normalize
<1>7. RunsInOrder(p)'
  <2>1. CASE step = "end"
    BY <1>2, <2>1 DEF Moves, RunsInOrder, Working
  <2>2. CASE step = "schedule"
    <3>1. proc'[p].at = s + 1 /\ proc'[p].up = ledger[s].output
      BY <1>2, <1>3, <2>2 DEF Moves, GoesOn
    <3>2. Passed(Normalize)
      BY <1>1, <1>5 DEF FreshInv, Compile, RunsInOrder, Matches
    <3>3. CASE s = Normalize
      BY <1>4, <3>1, <3>2, <3>3 DEF RunsInOrder, Passed, Normalize, Gate, Cards, Package
    <3>4. CASE s = Gate
      <4>1. Passed(Gate) /\ ledger[Gate].input = [queue |-> sources.queue, up |-> proc[p].up]
        BY <1>5, <3>4, InputsAre DEF Matches
      <4>2. Upstream = ledger[Normalize].output
        BY <1>1, <3>4, <4>1 DEF Upstream, FreshInv, Compile, RunsInOrder
      <4>3. ledger[Gate].output = UnitsPassed
        BY <4>1 DEF FreshInv, EntriesAreOfTheFiles
      <4> QED
        BY <1>4, <3>1, <3>2, <3>4, <4>1, <4>2, <4>3
           DEF RunsInOrder, Passed, Upstream, Normalize, Gate, Cards, Package
    <3>5. CASE s = Cards
      <4>1. Passed(Gate) /\ Upstream = ledger[Normalize].output
        BY <1>1, <3>5 DEF FreshInv, Compile, RunsInOrder
      <4> QED
        BY <1>4, <3>1, <3>2, <3>5, <4>1
           DEF RunsInOrder, Passed, Upstream, Normalize, Gate, Cards, Package
    <3>6. CASE s \notin {Normalize, Gate, Cards}
      BY <1>4, <1>5, <3>1, <3>2, <3>6
         DEF RunsInOrder, Passed, Normalize, Gate, Cards, Package
    <3> QED
      BY <3>3, <3>4, <3>5, <3>6
  <2> QED
    BY <2>1, <2>2
<1>8. Compile(p)'
  BY <1>2, <1>7 DEF Moves, Compile, Normalizes, Gates, MakesCards, Packages, In, Doing, Working
<1> QED
  BY <1>1, <1>2, <1>4, <1>5, <1>6, <1>8, Alone, QuietKeepsFresh DEF Moves

LEMMA BeginKeepsFresh ==
  ASSUME IInv, FreshInv, NEW p \in Procs, Begin(p), ~GateUnmet(p)
  PROVE  FreshInv'
<1> DEFINE s == proc[p].at
           input == Inputs(proc[p].up)[s]
<1>1. proc[p].step = "schedule" /\ proc[p].cmd = "run" /\ Locked(p)
  BY DEF Begin, Scheduling, IInv, OnlyRunsSchedule, Locked
<1>2. Moves(p, "run", "run", s) /\ Carries(p) /\ proc'[p].input = input
  BY <1>1, EntersMoves DEF IInv, Begin
<1>3. UNCHANGED <<sources, normalized, cards, lost>>
  BY DEF Begin
<1>4. /\ \A x \in Stages : ledger'[x].status = IF x = s THEN "RUNNING" ELSE ledger[x].status
      /\ \A x \in Stages : x # s => ledger'[x] = ledger[x]
  BY SaveOthers DEF IInv, Begin
<1>5. SameOrOpen /\ (s = Cards => ~Passed(Cards)')
  BY <1>4, StagesAre DEF SameOrOpen, Passed
<1>6. Placed(p)'
  BY <1>2 DEF Moves, Placed, In, Locked, FreshInv, Places
<1>7. RunsInOrder(p) /\ sources \in CardRows
  BY <1>1 DEF FreshInv, Compile, TextsAndCards
<1>8. RunsInOrder(p)'
  <2>1. /\ Passed(Normalize) /\ s # Normalize => Passed(Normalize)'
        /\ s # Normalize => ledger'[Normalize] = ledger[Normalize]
        /\ s # Gate => (Passed(Gate) => Passed(Gate)') /\ Upstream' = Upstream
    BY <1>4, StagesAre DEF Passed, Upstream
  <2>2. proc'[p].at = s /\ proc'[p].up = proc[p].up
    BY <1>2 DEF Moves, Carries
  <2> QED
    BY <1>1, <1>7, <2>1, <2>2 DEF RunsInOrder, Normalize, Gate, Cards, Package
<1>9. Normalizes(p)'
  <2>1. SUFFICES ASSUME s = Normalize PROVE Normalizes(p)'
    BY <1>2 DEF Moves, Normalizes, In
  <2>2. ~Passed(Normalize)'
    BY <1>4, <2>1, StagesAre DEF Passed
  <2>3. proc'[p].input = [book |-> sources.book]
    BY <1>2, <2>1, InputsAre
  <2>4. proc'[p].input \in TextInputs /\ proc'[p].input.book <= sources'.book
    BY <1>3, <1>7, <2>3 DEF TextInputs, CardRows
  <2> QED
    BY <1>2, <2>2, <2>4 DEF Moves, Normalizes
<1>10. Gates(p)'
  <2>1. SUFFICES ASSUME s = Gate PROVE Gates(p)'
    BY <1>2 DEF Moves, Gates, In
  <2>2. proc'[p].input = [queue |-> sources.queue, up |-> ledger[Normalize].output]
    BY <1>1, <1>2, <1>7, <2>1, InputsAre DEF RunsInOrder
  <2>3. Passed(Normalize) /\ ledger'[Normalize] = ledger[Normalize]
    BY <1>1, <1>4, <1>7, <2>1, StagesAre DEF RunsInOrder
  <2>4. ledger[Normalize].output \in TextRows
    BY <2>3 DEF FreshInv, EntriesAreOfTheFiles, TextsAndCards
  <2> QED
    BY <1>7, <2>2, <2>3, <2>4 DEF Gates, GateInputs, CardRows
<1>11. MakesCards(p)'
  <2>1. SUFFICES ASSUME s = Cards PROVE MakesCards(p)'
    BY <1>2 DEF Moves, MakesCards, In
  <2>2. proc'[p].input = CardInputs(UnitsPassed)
    BY <1>1, <1>2, <1>7, <2>1, InputsAre DEF RunsInOrder
  <2>3. ~CardsCurrent'
    BY <1>5, <2>1 DEF CardsCurrent
  <2>4. /\ proc'[p].input \in CardsInputs
        /\ proc'[p].input.queue <= sources'.queue /\ proc'[p].input.rules <= sources'.rules
    BY <1>3, <1>7, <2>2 DEF CardInputs, CardsInputs, CardRows
  <2> QED
    BY <1>2, <2>3, <2>4 DEF Moves, MakesCards
<1>12. Compile(p)'
  BY <1>2, <1>8, <1>9, <1>10, <1>11 DEF Moves, Compile, Packages, Doing
<1> QED
  BY <1>1, <1>2, <1>3, <1>5, <1>6, <1>12, Alone, QuietKeepsFresh DEF Moves, Doing

LEMMA GatePassesKeepsFresh ==
  ASSUME IInv, FreshInv, NEW p \in Procs, GatePasses(p)
  PROVE  FreshInv'
<1>1. proc[p].step = "run" /\ proc[p].at = Gate /\ proc[p].cmd = "run" /\ Locked(p)
  BY DEF GatePasses, Doing, FreshInv, Places, Placed, In, Working, Locked
<1>2. Moves(p, "run", "save", Gate) /\ Carries(p) /\ proc'[p].input = proc[p].input
  BY <1>1, StepMoves DEF IInv, GatePasses
<1>3. UNCHANGED <<sources, ledger, normalized, cards, lost>> /\ SameOrOpen
  BY DEF GatePasses, SameOrOpen
<1>4. Placed(p)'
  BY <1>2, StagesAre DEF Moves, Placed, In, Locked, Gate
<1>5. RunsInOrder(p) /\ Gates(p)
  BY <1>1 DEF FreshInv, Compile
<1>6. RunsInOrder(p)'
  BY <1>1, <1>2, <1>3, <1>5
     DEF Moves, Carries, RunsInOrder, Working, Passed, Upstream, Gate, Cards, Package
<1>7. Gates(p)'
  BY <1>1, <1>2, <1>3, <1>5 DEF Moves, Gates, In, Working
<1>8. Compile(p)'
  BY <1>2, <1>6, <1>7, StagesAre DEF Moves, Compile, Normalizes, MakesCards, Packages, In, Doing
<1> QED
  BY <1>1, <1>2, <1>3, <1>4, <1>8, Alone, QuietKeepsFresh DEF Moves, Doing

LEMMA ReadKeepsFresh ==
  ASSUME IInv, FreshInv, NEW p \in Procs, ReadForPackage(p)
  PROVE  FreshInv'
<1>1. proc[p].step = "run" /\ proc[p].at = Package /\ Locked(p)
  BY DEF ReadForPackage, Doing, FreshInv, Places, Placed
<1>2. Moves(p, proc[p].cmd, "read", Package) /\ Carries(p) /\ proc'[p].found = ReadNow
  BY <1>1, HoldsMoves DEF IInv, ReadForPackage
<1>3. UNCHANGED <<sources, ledger, normalized, cards, lost>> /\ SameOrOpen
  BY DEF ReadForPackage, SameOrOpen
<1>4. Placed(p)'
  BY <1>1, <1>2, StagesAre DEF Moves, Placed, In, Package
<1>5. RunsInOrder(p)
  BY <1>1 DEF FreshInv, Compile
<1>6. RunsInOrder(p)'
  BY <1>1, <1>2, <1>3, <1>5
     DEF Moves, Carries, RunsInOrder, Working, Passed, Upstream, Gate, Cards, Package
<1>7. Packages(p)'
  <2>1. Passed(Normalize) /\ Passed(Gate) /\ Passed(Cards) /\ normalized # NONE
    BY StagesAre DEF ReadForPackage, Ready
  <2> QED
    BY <1>2, <1>3, <2>1 DEF Packages, Moves, ReadNow, Doing, Passed
<1>8. Compile(p)'
  BY <1>2, <1>6, <1>7, StagesAre
     DEF Moves, Compile, Normalizes, Gates, MakesCards, In, Package, Normalize, Gate, Cards
<1> QED
  BY <1>1, <1>2, <1>3, <1>4, <1>8, Alone, QuietKeepsFresh DEF Moves, Doing

(* The cards a run reads are of the text it has read, which no one else    *)
(* has touched since.                                                      *)
LEMMA ReadCardsKeepsFresh ==
  ASSUME IInv, FreshInv, NEW p \in Procs, ReadCards(p), Locked(p)
  PROVE  FreshInv'
<1> DEFINE row == [proc[p].found EXCEPT !.cards = cards]
<1>1. proc[p].step = "read" /\ proc[p].at = Package
  BY DEF ReadCards, Doing
<1>2. Moves(p, proc[p].cmd, "write", Package) /\ Carries(p) /\ proc'[p].found = row
  BY <1>1, HoldsMoves DEF IInv, ReadCards
<1>3. UNCHANGED <<sources, ledger, normalized, cards, lost>> /\ SameOrOpen
  BY DEF ReadCards, SameOrOpen
<1>4. Placed(p)'
  BY <1>1, <1>2, StagesAre DEF Moves, Placed, In, Package
<1>5. RunsInOrder(p) /\ Packages(p)
  BY <1>1 DEF FreshInv, Compile
<1>6. RunsInOrder(p)'
  BY <1>1, <1>2, <1>3, <1>5
     DEF Moves, Carries, RunsInOrder, Working, Passed, Upstream, Gate, Cards, Package
<1>7. Packages(p)'
  <2>1. SUFFICES ASSUME ~lost, proc[p].cmd = "run"
                 PROVE  row.text = TextOf(row.cards)
    BY <1>2, <1>3 DEF Packages, Moves, Doing
  <2>2. /\ proc[p].found.text = normalized /\ normalized # NONE /\ cards # NONE
        /\ Passed(Normalize) /\ Passed(Gate) /\ Passed(Cards)
    BY <1>1, <1>5 DEF Packages, Doing, ReadCards
  <2>3. Upstream = normalized
    BY <1>1, <1>5, <2>1, <2>2 DEF RunsInOrder, Working, Package, Normalize, Cards, Gate,
                                  FreshInv, EntriesAreOfTheFiles
  <2>4. ~Remaking
    BY <1>1, Alone, RemakerIsLocked DEF Remaking, Doing
  <2>5. Older(normalized, cards) /\ Older(cards, normalized)
    BY <2>1, <2>2, <2>3, <2>4 DEF FreshInv, CardsFollow, TextsAndCards
  <2>6. normalized \in TextRows /\ cards \in CardRows
    BY <2>2 DEF FreshInv, TextsAndCards
  <2>7. normalized = TextOf(cards)
    BY <2>5, <2>6 DEF TextOf, Older, TextRows, CardRows
  <2>8. row.text = proc[p].found.text /\ row.cards = cards
    <3>1. proc[p].found.text = normalized
      BY <2>2
    <3> QED
      BY <1>1, <1>5 DEF Packages, Doing
  <2> QED
    BY <2>2, <2>7, <2>8
<1>8. Compile(p)'
  BY <1>2, <1>6, <1>7, StagesAre
     DEF Moves, Compile, Normalizes, Gates, MakesCards, In, Package, Normalize, Gate, Cards
<1> QED
  BY <1>1, <1>2, <1>3, <1>4, <1>8, Alone, QuietKeepsFresh DEF Moves, Doing

(* The text is emptied, then filled with what was read of the book.        *)
LEMMA NormalizedKeepsFresh ==
  ASSUME IInv, FreshInv, NEW p \in Procs, OpenNormalized(p) \/ WriteNormalized(p)
  PROVE  FreshInv'
<1>1. /\ In(p, Normalize) /\ proc[p].cmd = "run" /\ Locked(p)
      /\ ~Doing(p, "schedule", Cards)
  BY DEF OpenNormalized, WriteNormalized, Doing, FreshInv, Places, Placed, In, Working, Locked
<1>2. UNCHANGED <<sources, ledger, cards, lost>>
  BY DEF OpenNormalized, WriteNormalized
<1>3. /\ Normalizes(p) /\ ~Passed(Normalize) /\ TextsAndCards /\ EntriesAreOfTheFiles
      /\ CardsFollow /\ ~Remaking
  BY <1>1, Alone, RemakerIsLocked DEF FreshInv, Compile, Normalizes, Remaking
<1>4. CardsFollow'
  BY <1>2, <1>3 DEF CardsFollow, Upstream, Passed, CardsCurrent, CardInputs
<1>5. \E step \in {"write", "save"} : Moves(p, "run", step, Normalize)
  BY <1>1, HoldsMoves DEF IInv, OpenNormalized, WriteNormalized, Doing
<1>6. Placed(p)'
  BY <1>5, StagesAre DEF Moves, Placed, In, Locked, Normalize
<1>7. RunsInOrder(p)' /\ Gates(p)' /\ MakesCards(p)' /\ Packages(p)'
  BY <1>5, StagesAre DEF Moves, RunsInOrder, Gates, MakesCards, Packages, In, Doing,
                         Normalize, Gate, Cards, Package
<1>8. CASE OpenNormalized(p)
  <2>1. normalized' = NONE
    BY <1>8 DEF OpenNormalized
  <2>2. TextsAndCards' /\ EntriesAreOfTheFiles'
    BY <1>2, <1>3, <2>1 DEF TextsAndCards, EntriesAreOfTheFiles, Passed, Upstream
  <2>3. /\ Moves(p, "run", "write", Normalize) /\ proc'[p].input = proc[p].input
        /\ proc'[p].found = [book |-> sources.book, visual |-> sources.visual]
    BY <1>1, <1>8, HoldsMoves DEF IInv, OpenNormalized, Doing
  <2>4. proc[p].input \in TextInputs /\ proc[p].input.book <= sources.book
    BY <1>1, <1>3 DEF Normalizes
  <2>5. /\ proc'[p].found \in TextRows /\ proc'[p].found.book = sources.book
        /\ proc'[p].found.visual = sources.visual /\ Older(sources, sources)
    BY <1>3, <2>3 DEF TextsAndCards, CardRows, TextRows, Older
  <2>6. /\ cards # NONE => Older(cards, sources)
        /\ Passed(Gate) => Older(Upstream, sources)
    BY <1>3 DEF TextsAndCards, EntriesAreOfTheFiles, OlderCards
  <2>7. Normalizes(p)'
    BY <1>2, <1>3, <2>3, <2>4, <2>5, <2>6 DEF Normalizes, Moves, Passed, Upstream, Older
  <2> QED
    BY <1>1, <1>4, <1>6, <1>7, <2>2, <2>3, <2>7, Alone, OneKeeps DEF Moves, Compile
<1>9. CASE WriteNormalized(p)
  <2>1. /\ proc[p].step = "write" /\ normalized' = proc[p].found
        /\ Moves(p, "run", "save", Normalize) /\ proc'[p].input = proc[p].input
    BY <1>1, <1>9, HoldsMoves DEF IInv, WriteNormalized, Doing
  <2>2. /\ proc[p].found \in TextRows /\ Older(proc[p].found, sources)
        /\ proc[p].input \in TextInputs /\ proc[p].input.book <= sources.book
        /\ proc[p].input.book <= proc[p].found.book
        /\ cards # NONE => Older(cards, proc[p].found)
        /\ Passed(Gate) => Older(Upstream, proc[p].found)
    BY <1>1, <1>3, <2>1 DEF Normalizes
  <2>3. normalized' # NONE
    BY <2>1, <2>2, NoneAssumption
  <2>4. TextsAndCards'
    BY <1>2, <1>3, <2>1, <2>2 DEF TextsAndCards
  <2>5. EntriesAreOfTheFiles'
    BY <1>2, <1>3, <2>1, <2>2 DEF EntriesAreOfTheFiles, Passed, Upstream
  <2>6. Normalizes(p)'
    BY <1>2, <1>3, <2>1, <2>2, <2>3 DEF Normalizes, Moves, Passed
  <2> QED
    BY <1>1, <1>4, <1>6, <1>7, <2>1, <2>4, <2>5, <2>6, Alone, OneKeeps DEF Moves, Compile
<1> QED
  BY <1>8, <1>9

(* The cards are emptied, then filled with rows of the text there is.      *)
LEMMA CardsKeepFresh ==
  ASSUME IInv, FreshInv, NEW p \in Procs, OpenCards(p) \/ WriteCards(p)
  PROVE  FreshInv'
<1>1. In(p, Cards) /\ Locked(p) /\ ~Doing(p, "schedule", Cards)
  BY DEF OpenCards, WriteCards, Doing, FreshInv, Places, Placed, In, Working
<1>2. UNCHANGED <<sources, ledger, normalized, lost>>
  BY DEF OpenCards, WriteCards
<1>3. /\ MakesCards(p) /\ RunsInOrder(p) /\ TextsAndCards /\ EntriesAreOfTheFiles
      /\ ~CardsCurrent
  BY <1>1 DEF FreshInv, Compile, MakesCards
<1>4. EntriesAreOfTheFiles' /\ ~CardsCurrent'
  BY <1>2, <1>3 DEF EntriesAreOfTheFiles, Passed, Upstream, CardsCurrent, CardInputs
<1>5. PICK step \in {"write", "save"} : Moves(p, proc[p].cmd, step, Cards) /\ Carries(p)
  BY <1>1, HoldsMoves DEF IInv, OpenCards, WriteCards, Doing
<1>6. Placed(p)'
  BY <1>1, <1>5, StagesAre DEF Moves, Placed, In, Locked, Cards
<1>7. RunsInOrder(p)'
  BY <1>1, <1>2, <1>3, <1>5
     DEF Moves, Carries, RunsInOrder, In, Working, Passed, Upstream
<1>8. Normalizes(p)' /\ Gates(p)' /\ Packages(p)'
  BY <1>5, StagesAre DEF Moves, Normalizes, Gates, Packages, In, Doing,
                         Normalize, Gate, Cards, Package
<1>9. /\ proc[p].input \in CardsInputs
      /\ proc[p].input.queue <= sources.queue /\ proc[p].input.rules <= sources.rules
  BY <1>1, <1>3 DEF MakesCards
<1>10. CASE OpenCards(p)
  <2>1. /\ cards' = NONE /\ normalized # NONE /\ Moves(p, proc[p].cmd, "write", Cards)
        /\ proc'[p].input = proc[p].input
        /\ proc'[p].found =
             [book |-> normalized.book, visual |-> normalized.visual,
              queue |-> sources.queue, rules |-> sources.rules]
    BY <1>1, <1>10, HoldsMoves DEF IInv, OpenCards, Doing
  <2>2. TextsAndCards' /\ CardsFollow'
    BY <1>2, <1>3, <1>4, <2>1 DEF TextsAndCards, CardsFollow
  <2>3. MadeAfter([book |-> normalized.book, visual |-> normalized.visual,
                   queue |-> sources.queue, rules |-> sources.rules], proc[p].input)
    BY <1>3, <1>9, <2>1 DEF MadeAfter, TextsAndCards, TextRows, CardRows, TextOf
  <2>4. MakesCards(p)'
    BY <1>2, <1>4, <1>9, <2>1, <2>3 DEF MakesCards, Moves, MadeAfter
  <2> QED
    BY <1>1, <1>4, <1>6, <1>7, <1>8, <2>1, <2>2, <2>4, Alone, OneKeeps DEF Moves, Compile
<1>11. CASE WriteCards(p)
  <2>1. /\ cards' = proc[p].found /\ proc[p].step = "write"
        /\ Moves(p, proc[p].cmd, "save", Cards) /\ proc'[p].input = proc[p].input
    BY <1>1, <1>11, HoldsMoves DEF IInv, WriteCards, Doing
  <2>2. MadeAfter(proc[p].found, proc[p].input)
    BY <1>1, <1>3, <2>1 DEF MakesCards
  <2>3. /\ proc[p].found \in CardRows /\ normalized \in TextRows
        /\ TextOf(proc[p].found) = normalized /\ Older(normalized, sources)
        /\ proc[p].found.queue <= sources.queue /\ proc[p].found.rules <= sources.rules
    BY <1>3, <2>2 DEF MadeAfter, TextsAndCards
  <2>4. OlderCards(proc[p].found, sources) /\ Older(proc[p].found, normalized)
          /\ (Passed(Gate) => Older(Upstream, proc[p].found))
    <3>1. proc[p].found.book = normalized.book /\ proc[p].found.visual = normalized.visual
      BY <2>3 DEF TextOf
    <3>2. normalized # NONE /\ (Passed(Gate) => Older(Upstream, normalized))
      BY <1>3, <2>2 DEF MadeAfter, EntriesAreOfTheFiles
    <3> QED
      BY <2>3, <3>1, <3>2 DEF OlderCards, Older, TextRows
  <2>5. TextsAndCards'
    BY <1>2, <1>3, <2>1, <2>3, <2>4 DEF TextsAndCards
  <2>6. CardsFollow'
    BY <1>2, <1>3, <1>4, <2>1, <2>4 DEF CardsFollow, Passed, Upstream
  <2>7. MakesCards(p)'
    BY <1>2, <1>4, <1>9, <2>1, <2>2 DEF MakesCards, Moves, MadeAfter
  <2> QED
    BY <1>1, <1>4, <1>6, <1>7, <1>8, <2>1, <2>5, <2>6, <2>7, Alone, OneKeeps
       DEF Moves, Compile
<1> QED
  BY <1>10, <1>11

------------------------------------------------------------------------------
(* A stage passes: its entry is of its file, and the run goes on or ends.  *)
LEMMA PassMoves ==
  ASSUME IInv, FreshInv, NEW p \in Procs, StagePasses(p), NEW s \in Predecessors,
         s = proc[p].at
  PROVE  /\ Locked(p) /\ In(p, s) /\ Passed(s)'
         /\ ledger'[s].input = proc[p].input /\ ledger'[s].output = OutputOf(p)
         /\ \A x \in Predecessors : x # s => ledger'[x] = ledger[x]
         /\ \A q \in Procs \ {p} : proc'[q] = proc[q] /\ ~Locked(q)
         /\ proc'[p].step \in {"end", "schedule"} /\ proc'[p].at \in {Normalize, s + 1}
         /\ proc'[p].step = "schedule" =>
              /\ GoesOn(p, OutputOf(p), TRUE) /\ proc[p].at # proc[p].last
              /\ proc'[p].at = s + 1 /\ proc'[p].up = OutputOf(p) /\ proc'[p].cascade = TRUE
         /\ Placed(p)'
<1>1. Locked(p) /\ In(p, s) /\ proc[p].step = "save"
  BY DEF StagePasses, FreshInv, Places, Placed, In, Working, Predecessors, Stages,
         Normalize, Gate, Cards, Package, Locked
<1>2. /\ Passed(s)' /\ ledger'[s].input = proc[p].input /\ ledger'[s].output = OutputOf(p)
      /\ \A x \in Predecessors : x # s => ledger'[x] = ledger[x]
  BY SavePassedOthers, StagesAre DEF StagePasses, IInv, Passed
<1>3. CASE proc[p].cmd = "run"
  <2>1. GoOn(p, OutputOf(p), TRUE)
    BY <1>3 DEF StagePasses, Finish
  <2>2. PICK step \in {"schedule", "end"} : Moves(p, "run", step, proc'[p].at)
    BY <1>3, <2>1, GoOnMoves DEF IInv
  <2>3. GoesOn(p, OutputOf(p), TRUE) /\ proc'[p].at \in {Normalize, s + 1}
    BY <1>3, <2>1, GoOnMoves DEF IInv
  <2>4. s \in Nat \ {0}
    BY DEF Predecessors, Stages, Normalize, Package
  <2>5. Placed(p)'
    BY <2>2, <2>3, <2>4 DEF Moves, Placed, In, Working, Normalize
  <2> QED
    BY <1>1, <1>2, <2>2, <2>3, <2>5, Alone DEF Moves, GoesOn
<1>4. CASE proc[p].cmd # "run"
  <2>1. Moves(p, proc[p].cmd, "end", Normalize)
    BY <1>4, EndsMoves DEF StagePasses, Finish, IInv
  <2>3. Placed(p)'
    BY <2>1 DEF Moves, Placed, In, Working, Normalize
  <2> QED
    BY <1>1, <1>2, <2>1, <2>3, Alone DEF Moves
<1> QED
  BY <1>3, <1>4

(* Once a stage has passed, only the order of the stages is left to show.  *)
LEMMA PassedCompile ==
  ASSUME NEW p \in Procs, proc'[p].step \in {"end", "schedule"}, RunsInOrder(p)'
  PROVE  Compile(p)'
BY DEF Compile, Normalizes, Gates, MakesCards, Packages, In, Doing, Working

LEMMA NormalizePassesKeepsFresh ==
  ASSUME IInv, FreshInv, NEW p \in Procs, StagePasses(p), proc[p].at = Normalize
  PROVE  FreshInv'
<1>1. /\ In(p, Normalize) /\ Locked(p) /\ Passed(Normalize)'
      /\ ledger'[Normalize].input = proc[p].input /\ ledger'[Normalize].output = OutputOf(p)
      /\ ledger'[Gate] = ledger[Gate] /\ ledger'[Cards] = ledger[Cards]
      /\ \A q \in Procs \ {p} : proc'[q] = proc[q] /\ ~Locked(q)
      /\ proc'[p].step \in {"end", "schedule"}
      /\ proc'[p].step = "schedule" =>
           proc'[p].at = Normalize + 1 /\ proc'[p].up = OutputOf(p)
      /\ Placed(p)'
  BY PassMoves, StagesAre
<1>2. /\ UNCHANGED <<sources, normalized, cards, lost>> /\ OutputOf(p) = normalized
      /\ proc[p].step = "save"
  BY StagesAre DEF StagePasses, OutputOf, Normalize, Gate, Cards
<1>3. /\ normalized # NONE /\ proc[p].input \in TextInputs
      /\ proc[p].input.book <= normalized.book
  BY <1>1, <1>2 DEF FreshInv, Compile, Normalizes
<1>4. TextsAndCards' /\ EntriesAreOfTheFiles'
  BY <1>1, <1>2, <1>3 DEF FreshInv, TextsAndCards, EntriesAreOfTheFiles, Passed, Upstream
<1>5. ~Remaking
  BY <1>1, <1>2, Alone, RemakerIsLocked DEF Remaking, Doing
<1>6. CardsFollow'
  BY <1>1, <1>2, <1>5 DEF FreshInv, CardsFollow, Upstream, Passed, CardsCurrent, CardInputs
<1>7. RunsInOrder(p)'
  BY <1>1, <1>2 DEF RunsInOrder, Working, Normalize, Gate, Cards, Package
<1> QED
  BY <1>1, <1>4, <1>6, <1>7, PassedCompile, OneKeeps

LEMMA GatePassedKeepsFresh ==
  ASSUME IInv, FreshInv, NEW p \in Procs, StagePasses(p), proc[p].at = Gate
  PROVE  FreshInv'
<1>1. /\ In(p, Gate) /\ Locked(p) /\ Passed(Gate)'
      /\ ledger'[Gate].input = proc[p].input /\ ledger'[Gate].output = OutputOf(p)
      /\ ledger'[Normalize] = ledger[Normalize] /\ ledger'[Cards] = ledger[Cards]
      /\ \A q \in Procs \ {p} : proc'[q] = proc[q] /\ ~Locked(q)
      /\ proc'[p].step \in {"end", "schedule"}
      /\ proc'[p].step = "schedule" =>
           /\ proc'[p].at = Gate + 1 /\ proc'[p].up = OutputOf(p)
           /\ proc'[p].cascade = TRUE /\ proc[p].at # proc[p].last
      /\ Placed(p)'
  BY PassMoves, StagesAre
<1>2. /\ UNCHANGED <<sources, normalized, cards>> /\ OutputOf(p) = UnitsPassed
      /\ proc[p].step = "save" /\ proc[p].cmd = "run"
  BY <1>1 DEF StagePasses, OutputOf, FreshInv, Places, Placed, Normalize, Gate, Cards
<1>3. /\ proc[p].input \in GateInputs /\ proc[p].input.up = ledger[Normalize].output
      /\ Passed(Normalize)
  BY <1>1, <1>2, StagesAre DEF FreshInv, Compile, Gates, RunsInOrder, In, Working
<1>4. ledger[Normalize].output = normalized /\ normalized \in TextRows
  BY <1>3 DEF FreshInv, EntriesAreOfTheFiles, TextsAndCards
<1>5. Older(normalized, sources) /\ Older(normalized, normalized)
  BY <1>3, <1>4 DEF FreshInv, EntriesAreOfTheFiles, TextsAndCards, TextRows, Older
<1>6. TextsAndCards' /\ EntriesAreOfTheFiles'
  BY <1>1, <1>2, <1>3, <1>4, <1>5
     DEF FreshInv, TextsAndCards, EntriesAreOfTheFiles, Passed, Upstream
<1>7. RunsInOrder(p)'
  BY <1>1, <1>2, <1>3
     DEF RunsInOrder, Working, Passed, Upstream, Normalize, Gate, Cards, Package
<1>8. lost' \/ Remaking'
  <2>1. CASE proc[p].at = proc[p].last
    BY <2>1 DEF StagePasses, Gate, Cards
  <2>2. CASE proc[p].at # proc[p].last
    <3>1. proc'[p].step = "schedule"
      <4>1. GoOn(p, OutputOf(p), TRUE)
        BY <1>2 DEF StagePasses, Finish
      <4> QED
        BY <1>2, <2>2, <4>1, GoOnMoves DEF GoesOn, IInv
    <3>2. proc'[p].at = Cards /\ proc'[p].cascade
      BY <1>1, <3>1 DEF Gate, Cards
    <3> QED
      BY <3>1, <3>2 DEF Remaking, Doing
  <2> QED
    BY <2>1, <2>2
<1>9. CardsFollow'
  BY <1>8 DEF CardsFollow
<1> QED
  BY <1>1, <1>6, <1>7, <1>9, PassedCompile, OneKeeps

LEMMA CardsPassedKeepsFresh ==
  ASSUME IInv, FreshInv, NEW p \in Procs, StagePasses(p), proc[p].at = Cards
  PROVE  FreshInv'
<1>1. /\ In(p, Cards) /\ Locked(p) /\ Passed(Cards)'
      /\ ledger'[Cards].input = proc[p].input /\ ledger'[Cards].output = cards
      /\ ledger'[Normalize] = ledger[Normalize] /\ ledger'[Gate] = ledger[Gate]
      /\ \A q \in Procs \ {p} : proc'[q] = proc[q] /\ ~Locked(q)
      /\ proc'[p].step \in {"end", "schedule"}
      /\ proc'[p].step = "schedule" => proc'[p].at = Cards + 1
      /\ Placed(p)'
  <2>1. OutputOf(p) = cards
    BY DEF OutputOf, Normalize, Gate, Cards
  <2>2. ledger'[Cards].output = OutputOf(p)
    BY PassMoves, StagesAre
  <2>3. ledger'[Cards].output = cards
    BY <2>1, <2>2
  <2> HIDE DEF OutputOf
  <2> QED
    BY <2>3, PassMoves, StagesAre
<1>2. UNCHANGED <<sources, normalized, cards>> /\ proc[p].step = "save"
  BY DEF StagePasses
<1>3. /\ proc[p].input \in CardsInputs /\ MadeAfter(cards, proc[p].input)
      /\ proc[p].input.queue <= sources.queue /\ proc[p].input.rules <= sources.rules
  BY <1>1, <1>2 DEF FreshInv, Compile, MakesCards
<1>4. TextsAndCards' /\ EntriesAreOfTheFiles'
  BY <1>1, <1>2, <1>3 DEF FreshInv, TextsAndCards, EntriesAreOfTheFiles, Passed, Upstream
<1>5. CardsFollow'
  <2>1. /\ cards \in CardRows /\ cards # NONE /\ normalized # NONE
        /\ cards.book = normalized.book /\ cards.visual = normalized.visual
    BY <1>3, NoneAssumption DEF MadeAfter, TextOf
  <2>2. Passed(Gate)' => Older(Upstream', cards')
    BY <1>1, <1>2, <2>1 DEF Passed, Upstream, FreshInv, EntriesAreOfTheFiles, Older
  <2>3. ASSUME CardsCurrent'
        PROVE  cards.queue = sources.queue /\ cards.rules = sources.rules
    <3>1. proc[p].input = [queue |-> sources.queue, rules |-> sources.rules, up |-> UnitsPassed]
      BY <1>1, <1>2, <2>3 DEF CardsCurrent, CardInputs
    <3>2. sources.queue <= cards.queue /\ cards.queue <= sources.queue
      BY <1>3, <3>1 DEF MadeAfter
    <3>3. sources.rules <= cards.rules /\ cards.rules <= sources.rules
      BY <1>3, <3>1 DEF MadeAfter
    <3> QED
      BY <2>1, <3>2, <3>3 DEF CardRows, FreshInv, TextsAndCards
  <2> QED
    BY <1>1, <1>2, <2>1, <2>2, <2>3 DEF CardsFollow
<1>6. RunsInOrder(p)'
  <2>1. SUFFICES ASSUME proc'[p].cmd = "run", proc'[p].step = "schedule"
                 PROVE  RunsInOrder(p)'
    BY <1>1 DEF RunsInOrder, Working
  <2>2. proc[p].cmd = "run"
    <3>1. CASE proc[p].cmd # "run"
      <4>1. Ends(p)
        BY <3>1 DEF StagePasses, Finish
      <4> QED
        BY <2>1, <4>1, EndsMoves DEF Moves, IInv
    <3> QED
      BY <3>1
  <2>3. Passed(Normalize) /\ Passed(Gate) /\ Upstream = ledger[Normalize].output
    BY <1>1, <2>2, StagesAre DEF FreshInv, Compile, RunsInOrder, In, Working
  <2> QED
    BY <1>1, <2>1, <2>3 DEF RunsInOrder, Passed, Upstream, Normalize, Gate, Cards, Package
<1> QED
  BY <1>1, <1>4, <1>5, <1>6, PassedCompile, OneKeeps

------------------------------------------------------------------------------
LEMMA FreshInit ==
  ASSUME Init
  PROVE  FreshInv
<1>1. \A p \in Procs : proc[p] = Off
  BY DEF Init
<1>2. \A s \in Stages : ~Passed(s)
  BY DEF Init, Passed, NoEntry
<1>3. TextsAndCards
  BY DEF Init, TextsAndCards, CardRows
<1>4. EntriesAreOfTheFiles /\ CardsFollow
  BY <1>2, StagesAre DEF EntriesAreOfTheFiles, CardsFollow, CardsCurrent
<1>5. \A p \in Procs : Placed(p) /\ ~Locked(p)
  <2>1. \A p \in Procs : proc[p].cmd = "off" /\ proc[p].step = "off" /\ proc[p].at = 1
    BY <1>1, OffIsRecord DEF Normalize
  <2>2. 1 \in Nat \ {0}
    OBVIOUS
  <2> QED
    BY <2>1, <2>2 DEF Placed, Locked, In, Working
<1> QED
  BY <1>3, <1>4, <1>5 DEF FreshInv, Places

LEMMA FreshNext ==
  ASSUME IInv, FreshInv, [Next]_vars
  PROVE  FreshInv'
<1>1. CASE Edit
  BY <1>1, EditKeepsFresh
<1>2. CASE Unlock \/ UNCHANGED vars
  <2>1. UNCHANGED <<sources, ledger, normalized, cards, proc, lost>>
    BY <1>2 DEF Unlock, vars
  <2>2. /\ TextsAndCards' /\ EntriesAreOfTheFiles'
        /\ SameOrOpen /\ SameEntries /\ Grown
    BY <2>1, NotGrown DEF FreshInv, TextsAndCards, EntriesAreOfTheFiles, Passed, Upstream,
                          SameOrOpen, SameEntries
  <2>3. CardsFollow'
    BY <2>1 DEF FreshInv, CardsFollow, Remaking, Doing, Passed, Upstream, CardsCurrent, CardInputs
  <2>4. \A p \in Procs : Placed(p)' /\ (Locked(p)' => Compile(p)')
    BY <2>1, <2>2, CompileGoesOn DEF FreshInv, Places, Placed, In, Locked
  <2> QED
    BY <2>2, <2>3, <2>4 DEF FreshInv, Places
<1>3. ASSUME NEW p \in Procs, NEW last, RunStart(p, last) PROVE FreshInv'
  BY <1>3, RunStartKeepsFresh
<1>4. ASSUME NEW p \in Procs, CardsStart(p) \/ PackageStart(p) PROVE FreshInv'
  BY <1>4, CardsStartKeepsFresh, EndsKeepFresh
<1>5. ASSUME NEW p \in Procs, Schedule(p) PROVE FreshInv'
  BY <1>5, SkipKeepsFresh, BeginKeepsFresh, EndsKeepFresh DEF Schedule
<1>6. ASSUME NEW p \in Procs, StagePasses(p) PROVE FreshInv'
  <2>1. proc[p].at \in Predecessors
    BY <1>6 DEF StagePasses, FreshInv, Places, Placed
  <2>2. proc[p].at \in {Normalize, Gate, Cards}
    BY <2>1 DEF Predecessors, Stages, Normalize, Gate, Cards, Package
  <2> QED
    BY <1>6, <2>2, NormalizePassesKeepsFresh, GatePassedKeepsFresh, CardsPassedKeepsFresh
<1>7. ASSUME NEW p \in Procs, Work(p) PROVE FreshInv'
  BY <1>6, <1>7, NormalizedKeepsFresh, GatePassesKeepsFresh, CardsKeepFresh, ReadKeepsFresh,
     ReadCardsKeepsFresh, EndsKeepFresh DEF Work
<1>8. ASSUME NEW p \in Procs, End(p) \/ Die(p) PROVE FreshInv'
  BY <1>8, EndsKeepFresh
<1> QED
  BY <1>1, <1>2, <1>3, <1>4, <1>5, <1>7, <1>8 DEF Next

(* The second inductive invariant holds in every reachable state.          *)
THEOREM FreshInvariance == Spec => []FreshInv
<1>1. Init => FreshInv
  BY FreshInit
<1>2. IInv /\ FreshInv /\ [Next]_vars => FreshInv'
  BY FreshNext
<1> QED
  BY <1>1, <1>2, Invariance, PTL DEF Spec

(* Where a run would skip everything, the cards are of the text there is.  *)
LEMMA SettledCards ==
  ASSUME IInv, FreshInv, Settled
  PROVE  /\ normalized \in TextRows /\ cards \in CardRows
         /\ ledger[Normalize].output = normalized /\ ledger[Cards].output = cards
         /\ normalized.book = sources.book /\ Older(normalized, sources)
         /\ TextOf(cards) = normalized
         /\ cards.queue = sources.queue /\ cards.rules = sources.rules
<1>1. ~lost /\ WouldSkipCards /\ \A p \in Procs : ~Locked(p)
  BY DEF Settled
<1>2. /\ Passed(Normalize) /\ ledger[Normalize].input = [book |-> sources.book]
      /\ Passed(Gate) /\ ledger[Gate].input.up = ledger[Normalize].output
      /\ Passed(Cards) /\ ledger[Cards].input = CardInputs(ledger[Gate].output)
  <2>1. /\ Matches(Normalize, NONE) /\ Matches(Gate, ledger[Normalize].output)
        /\ Matches(Cards, ledger[Gate].output)
    BY <1>1 DEF WouldSkipCards
  <2>2. Passed(Normalize) /\ ledger[Normalize].input = [book |-> sources.book]
    BY <2>1, InputsAre DEF Matches
  <2>3. /\ Passed(Gate)
        /\ ledger[Gate].input = [queue |-> sources.queue, up |-> ledger[Normalize].output]
    BY <2>1, InputsAre DEF Matches
  <2>4. Passed(Cards) /\ ledger[Cards].input = CardInputs(ledger[Gate].output)
    BY <2>1, InputsAre DEF Matches
  <2> QED
    BY <2>2, <2>3, <2>4
<1>3. /\ normalized \in TextRows /\ ledger[Normalize].output = normalized
      /\ normalized # NONE /\ sources.book <= normalized.book /\ Older(normalized, sources)
  BY <1>2 DEF FreshInv, EntriesAreOfTheFiles, TextsAndCards
<1>4. sources \in CardRows
  BY DEF FreshInv, TextsAndCards
<1>5. normalized.book = sources.book
  BY <1>3, <1>4 DEF TextRows, CardRows, Older
<1>6. CardsCurrent
  BY <1>2 DEF CardsCurrent, FreshInv, EntriesAreOfTheFiles
<1>7. ~Remaking
  BY <1>1, RemakerIsLocked DEF Remaking
<1>8. /\ cards # NONE /\ cards \in CardRows /\ cards.queue = sources.queue
      /\ cards.rules = sources.rules /\ Older(Upstream, cards)
      /\ ledger[Cards].output = cards
  BY <1>1, <1>2, <1>6, <1>7 DEF FreshInv, CardsFollow, TextsAndCards
<1>9. Upstream = normalized /\ Older(cards, normalized)
  BY <1>2, <1>3, <1>8 DEF Upstream, FreshInv, TextsAndCards
<1>10. TextOf(cards) = normalized
  BY <1>3, <1>8, <1>9 DEF TextRows, CardRows, Older, TextOf
<1> QED
  BY <1>3, <1>5, <1>8, <1>10

LEMMA SkippedCardsAreFresh ==
  ASSUME IInv, FreshInv
  PROVE  SkippedIsFresh
<1>1. SUFFICES ASSUME Settled
               PROVE  \E answers \in 0..sources.visual :
                        /\ normalized = [book |-> sources.book, visual |-> answers]
                        /\ cards = [sources EXCEPT !.visual = answers]
  BY DEF SkippedIsFresh
<1>2. /\ normalized \in TextRows /\ cards \in CardRows /\ sources \in CardRows
      /\ normalized.book = sources.book /\ Older(normalized, sources)
      /\ TextOf(cards) = normalized
      /\ cards.queue = sources.queue /\ cards.rules = sources.rules
  BY <1>1, SettledCards DEF FreshInv, TextsAndCards
<1>3. normalized.visual \in 0..sources.visual
  BY <1>2 DEF TextRows, CardRows, Older
<1>4. normalized = [book |-> sources.book, visual |-> normalized.visual]
  BY <1>2 DEF TextRows
<1>5. cards.book = sources.book /\ cards.visual = normalized.visual
  BY <1>2 DEF TextOf
<1>6. cards = [sources EXCEPT !.visual = normalized.visual]
  BY <1>2, <1>5 DEF CardRows
<1> QED
  BY <1>3, <1>4, <1>6

(* What a run would skip it would make the same, but for visual answers    *)
(* that were superseded: the text is that of the book and the cards those  *)
(* of the text, the queue and the rules, whatever was edited, died or was  *)
(* packaged meanwhile (runPipelineLocked).                                 *)
THEOREM SkippedCardsFresh == Spec => []SkippedIsFresh
<1>1. IInv /\ FreshInv => SkippedIsFresh
  BY SkippedCardsAreFresh
<1> QED
  BY <1>1, Invariance, FreshInvariance, PTL

------------------------------------------------------------------------------
(* A package command holds no lock: what it has read may be rewritten      *)
(* while it works.  But rows that are replaced never come back: all that   *)
(* is made later is made of later versions.                                *)
Ahead(c) ==
  /\ OlderCards(c, sources)
  /\ normalized # NONE => Older(c, normalized)
  /\ cards # NONE => OlderCards(c, cards)
  /\ \A q \in Procs :
       /\ Doing(q, "write", Normalize) => Older(c, proc[q].found)
       /\ Doing(q, "write", Cards) => OlderCards(c, proc[q].found)

(* What a package command that began in a settled directory has read.      *)
Bundles(p) ==
  (proc[p].cmd = "package" /\ proc[p].at = Package /\ proc[p].step \in {"read", "write"}
     /\ proc[p].found.settled) =>
    LET wanted == proc[p].found.wanted
    IN  /\ wanted.cards \in CardRows /\ Ahead(wanted.cards)
        /\ wanted.text = TextOf(wanted.cards) /\ proc[p].found.text = wanted.text
        /\ proc[p].step = "write" =>
             /\ proc[p].found.cards \in CardRows /\ Ahead(proc[p].found.cards)
             /\ OlderCards(wanted.cards, proc[p].found.cards)

Bundling == \A p \in Procs : Bundles(p)

LEMMA OlderGoesOn ==
  ASSUME NEW a, NEW b, NEW c, Older(a, b), Older(b, c),
         a \in TextRows \cup CardRows, b \in TextRows \cup CardRows, c \in TextRows \cup CardRows
  PROVE  Older(a, c)
BY DEF Older, TextRows, CardRows

LEMMA OlderCardsGoesOn ==
  ASSUME NEW a \in CardRows, NEW b \in CardRows, NEW c \in CardRows,
         OlderCards(a, b), OlderCards(b, c)
  PROVE  OlderCards(a, c)
BY DEF OlderCards, Older, CardRows

(* Whoever writes the text or the cards is the one compile.                *)
LEMMA WritersCompile ==
  ASSUME IInv, FreshInv, NEW q \in Procs,
         Doing(q, "write", Normalize) \/ Doing(q, "write", Cards)
  PROVE  /\ Compile(q)
         /\ Doing(q, "write", Normalize) =>
              proc[q].found \in TextRows /\ Older(proc[q].found, sources)
                /\ (cards # NONE => Older(cards, proc[q].found))
         /\ Doing(q, "write", Cards) =>
              /\ cards = NONE /\ proc[q].found \in CardRows /\ normalized \in TextRows
              /\ TextOf(proc[q].found) = normalized
<1>1. In(q, Normalize) \/ In(q, Cards)
  BY DEF Doing, In, Working
<1>2. Locked(q) /\ Compile(q)
  BY <1>1 DEF FreshInv, Places, Placed, Locked
<1>3. Doing(q, "write", Normalize) =>
        proc[q].found \in TextRows /\ Older(proc[q].found, sources)
          /\ (cards # NONE => Older(cards, proc[q].found))
  BY <1>2 DEF Compile, Normalizes, In, Doing, Working
<1>4. Doing(q, "write", Cards) => cards = NONE /\ MadeAfter(proc[q].found, proc[q].input)
  BY <1>2 DEF Compile, MakesCards, In, Doing, Working
<1>5. Doing(q, "write", Cards) =>
        /\ cards = NONE /\ proc[q].found \in CardRows /\ normalized \in TextRows
        /\ TextOf(proc[q].found) = normalized
  BY <1>4 DEF MadeAfter, FreshInv, TextsAndCards
<1> QED
  BY <1>2, <1>3, <1>5

(* Nothing is ahead of the cards there are.                                *)
LEMMA CardsAreAhead ==
  ASSUME IInv, FreshInv, cards # NONE
  PROVE  cards \in CardRows /\ Ahead(cards)
<1>1. /\ cards \in CardRows /\ OlderCards(cards, sources)
      /\ normalized # NONE => Older(cards, normalized)
  BY DEF FreshInv, TextsAndCards
<1>2. OlderCards(cards, cards)
  BY <1>1 DEF OlderCards, Older, CardRows
<1>3. ASSUME NEW q \in Procs
      PROVE  /\ Doing(q, "write", Normalize) => Older(cards, proc[q].found)
             /\ ~Doing(q, "write", Cards)
  BY WritersCompile
<1> QED
  BY <1>1, <1>2, <1>3 DEF Ahead

(* The files and the writers move on, to what is as new or newer.          *)
LEMMA AheadStays ==
  ASSUME IInv, FreshInv, Next, NEW c \in CardRows, Ahead(c)
  PROVE  Ahead(c)'
<1> DEFINE Versions ==
             /\ OlderCards(c, sources')
             /\ normalized' # NONE => Older(c, normalized')
             /\ cards' # NONE => OlderCards(c, cards')
           Writes(q) ==
             /\ Doing(q, "write", Normalize)' => Older(c, proc'[q].found)
             /\ Doing(q, "write", Cards)' => OlderCards(c, proc'[q].found)
<1>1. sources \in CardRows /\ OlderCards(c, sources)
  BY DEF FreshInv, TextsAndCards, Ahead
<1>2. ASSUME NEW q \in Procs, proc'[q] = proc[q]
      PROVE  Writes(q)
  BY <1>2 DEF Ahead, Doing
<1>3. ASSUME NEW q \in Procs,
             proc'[q].step # "write" \/ proc'[q].at \notin {Normalize, Cards}
      PROVE  Writes(q)
  BY <1>3 DEF Doing
<1>4. UNCHANGED <<sources, normalized, cards>> => Versions
  BY DEF Ahead
<1>5. ASSUME Grown
      PROVE  OlderCards(c, sources')
  BY <1>1, <1>5, OlderCardsGoesOn DEF Grown
<1>6. ASSUME Versions, \A q \in Procs : Writes(q)
      PROVE  Ahead(c)'
  BY <1>6 DEF Ahead
<1>7. Shape
  BY DEF IInv
<1>8. CASE Edit
  <2>1. Grown
    BY <1>1, <1>8
       DEF Edit, EditBook, ReviseVisual, EditRules, Ingest, Grown, OlderCards, Older, CardRows
  <2>2. UNCHANGED <<normalized, cards, proc>>
    BY <1>8 DEF Edit, EditBook, ReviseVisual, EditRules, Ingest
  <2> QED
    BY <1>2, <1>5, <1>6, <2>1, <2>2 DEF Ahead
<1>9. CASE Unlock
  BY <1>2, <1>4, <1>6, <1>9 DEF Unlock
<1>10. ASSUME NEW p \in Procs, NEW cmd, NEW step, NEW at, Moves(p, cmd, step, at),
              step # "write" \/ at \notin {Normalize, Cards}
       PROVE  \A q \in Procs : Writes(q)
  <2>1. \A q \in Procs \ {p} : Writes(q)
    BY <1>2, <1>10 DEF Moves
  <2>2. Writes(p)
    BY <1>3, <1>10 DEF Moves
  <2> QED
    BY <2>1, <2>2
<1> HIDE DEF Versions, Writes
<1>11. ASSUME NEW p \in Procs, NEW last, RunStart(p, last) PROVE Ahead(c)'
  BY <1>4, <1>6, <1>7, <1>10, <1>11, RunStartMoves DEF RunStart
<1>12. ASSUME NEW p \in Procs, CardsStart(p) PROVE Ahead(c)'
  BY <1>4, <1>6, <1>7, <1>10, <1>12, CardsStartMoves DEF CardsStart
<1>13. ASSUME NEW p \in Procs, PackageStart(p) PROVE Ahead(c)'
  BY <1>4, <1>6, <1>7, <1>10, <1>13, PackageStartMoves DEF PackageStart
<1>14. ASSUME NEW p \in Procs, End(p) \/ Die(p) PROVE Ahead(c)'
  BY <1>4, <1>6, <1>7, <1>10, <1>14, OffMoves DEF End, Die
<1>15. ASSUME NEW p \in Procs, Ends(p) PROVE \A q \in Procs : Writes(q)
  BY <1>7, <1>10, <1>15, EndsMoves
<1>16. ASSUME NEW p \in Procs, NEW output, NEW cascade, proc[p].cmd = "run",
              GoOn(p, output, cascade)
       PROVE  \A q \in Procs : Writes(q)
  BY <1>7, <1>10, <1>16, GoOnMoves
<1>17. ASSUME NEW p \in Procs, Schedule(p) PROVE Ahead(c)'
  <2>1. proc[p].cmd = "run" /\ UNCHANGED <<sources, normalized, cards>>
    BY <1>17 DEF Schedule, Scheduling, HashFails, Skip, StopsBlocked, Begin, IInv, OnlyRunsSchedule
  <2>2. ASSUME NEW input, Enters(p, input) PROVE \A q \in Procs : Writes(q)
    BY <1>7, <1>10, <2>2, EntersMoves
  <2>3. \A q \in Procs : Writes(q)
    BY <1>15, <1>16, <1>17, <2>1, <2>2 DEF Schedule, HashFails, Skip, StopsBlocked, Begin
  <2> QED
    BY <1>4, <1>6, <2>1, <2>3
<1>18. ASSUME NEW p \in Procs, OpenNormalized(p) PROVE Ahead(c)'
  <2>1. /\ Moves(p, proc[p].cmd, "write", Normalize)
        /\ proc'[p].found = [book |-> sources.book, visual |-> sources.visual]
    BY <1>7, <1>18, HoldsMoves DEF OpenNormalized, Doing
  <2>2. Older(c, proc'[p].found)
    BY <1>1, <2>1 DEF OlderCards, Older
  <2>3. Writes(p)
    BY <2>1, <2>2 DEF Writes, Moves, Doing, Normalize, Cards
  <2>4. \A q \in Procs \ {p} : Writes(q)
    BY <1>2, <2>1 DEF Moves
  <2>5. Versions
    BY <1>18 DEF Versions, OpenNormalized, Ahead
  <2> QED
    BY <1>6, <2>3, <2>4, <2>5
<1>19. ASSUME NEW p \in Procs, WriteNormalized(p) PROVE Ahead(c)'
  <2>1. Moves(p, proc[p].cmd, "save", Normalize)
    BY <1>7, <1>19, HoldsMoves DEF WriteNormalized, Doing
  <2>2. Versions
    BY <1>19 DEF Versions, WriteNormalized, Ahead
  <2> QED
    BY <1>6, <1>10, <2>1, <2>2
<1>20. ASSUME NEW p \in Procs, OpenCards(p) PROVE Ahead(c)'
  <2>1. /\ Moves(p, proc[p].cmd, "write", Cards)
        /\ proc'[p].found = [book |-> normalized.book, visual |-> normalized.visual,
                             queue |-> sources.queue, rules |-> sources.rules]
        /\ normalized # NONE
    BY <1>7, <1>20, HoldsMoves DEF OpenCards, Doing
  <2>2. OlderCards(c, proc'[p].found)
    BY <1>1, <2>1 DEF Ahead, OlderCards, Older
  <2>3. Writes(p)
    BY <2>1, <2>2 DEF Writes, Moves, Doing, Normalize, Cards
  <2>4. \A q \in Procs \ {p} : Writes(q)
    BY <1>2, <2>1 DEF Moves
  <2>5. Versions
    BY <1>20 DEF Versions, OpenCards, Ahead
  <2> QED
    BY <1>6, <2>3, <2>4, <2>5
<1>21. ASSUME NEW p \in Procs, WriteCards(p) PROVE Ahead(c)'
  <2>1. Moves(p, proc[p].cmd, "save", Cards)
    BY <1>7, <1>21, HoldsMoves DEF WriteCards, Doing
  <2>2. Versions
    BY <1>21 DEF Versions, WriteCards, Ahead
  <2> QED
    BY <1>6, <1>10, <2>1, <2>2
<1>22. ASSUME NEW p \in Procs, ReadForPackage(p) \/ ReadCards(p) PROVE Ahead(c)'
  <2>1. PICK step : Moves(p, proc[p].cmd, step, Package)
    BY <1>7, <1>22, HoldsMoves DEF ReadForPackage, ReadCards, Doing
  <2>2. \A q \in Procs : Writes(q)
    BY <1>10, <2>1 DEF Package, Normalize, Cards
  <2> QED
    BY <1>4, <1>6, <1>22, <2>2 DEF ReadForPackage, ReadCards
<1>23. ASSUME NEW p \in Procs, GateAsks(p) PROVE Ahead(c)'
  <2>1. Grown
    BY <1>1, <1>23 DEF GateAsks, Grown, OlderCards, Older, CardRows
  <2>2. Versions
    BY <1>5, <1>23, <2>1 DEF Versions, GateAsks, Ahead
  <2> QED
    BY <1>6, <1>15, <1>23, <2>2 DEF GateAsks
<1>24. ASSUME NEW p \in Procs, GatePasses(p) PROVE Ahead(c)'
  <2>1. Moves(p, proc[p].cmd, "save", proc[p].at)
    BY <1>7, <1>24, StepMoves DEF GatePasses
  <2> QED
    BY <1>4, <1>6, <1>10, <1>24, <2>1 DEF GatePasses
<1>25. ASSUME NEW p \in Procs, WriteBundle(p) \/ StageFails(p) \/ StageBlocks(p)
       PROVE  Ahead(c)'
  <2>1. Ends(p) /\ UNCHANGED <<sources, normalized, cards>>
    BY <1>25 DEF WriteBundle, StageFails, StageBlocks
  <2> QED
    BY <1>4, <1>6, <1>15, <2>1
<1>26. ASSUME NEW p \in Procs, StagePasses(p) PROVE Ahead(c)'
  <2>1. \A q \in Procs : Writes(q)
    BY <1>15, <1>16, <1>26 DEF StagePasses, Finish
  <2> QED
    BY <1>4, <1>6, <1>26, <2>1 DEF StagePasses
<1>27. ASSUME NEW p \in Procs, Work(p) PROVE Ahead(c)'
  BY <1>18, <1>19, <1>20, <1>21, <1>22, <1>23, <1>24, <1>25, <1>26, <1>27 DEF Work
<1> QED
  BY <1>8, <1>9, <1>11, <1>12, <1>13, <1>14, <1>17, <1>27 DEF Next

(* A package command reads at its start, and then the cards.               *)
LEMMA WhoReads ==
  ASSUME IInv, FreshInv, Next, NEW p \in Procs, proc'[p] # proc[p],
         proc'[p].cmd = "package", proc'[p].step \in {"read", "write"}
  PROVE  PackageStart(p) \/ ReadCards(p)
<1>1. Shape
  BY DEF IInv
<1>2. ASSUME NEW q \in Procs, NEW cmd, NEW step, NEW at, Moves(q, cmd, step, at),
             cmd # "package" \/ step \notin {"read", "write"}
      PROVE  FALSE
  BY <1>2 DEF Moves
<1>3. ~Edit /\ ~Unlock
  BY DEF Edit, EditBook, ReviseVisual, EditRules, Ingest, Unlock
<1>4. ASSUME NEW q \in Procs, NEW last, RunStart(q, last) PROVE FALSE
  BY <1>1, <1>2, <1>4, RunStartMoves
<1>5. ASSUME NEW q \in Procs, CardsStart(q) \/ End(q) \/ Die(q) PROVE FALSE
  BY <1>1, <1>2, <1>5, CardsStartMoves, OffMoves DEF End, Die
<1>6. ASSUME NEW q \in Procs, Ends(q) PROVE FALSE
  BY <1>1, <1>2, <1>6, EndsMoves
<1>7. ASSUME NEW q \in Procs, NEW output, NEW cascade, proc[q].cmd = "run",
             GoOn(q, output, cascade)
      PROVE  FALSE
  BY <1>1, <1>2, <1>7, GoOnMoves
<1>8. ASSUME NEW q \in Procs, Schedule(q) PROVE FALSE
  <2>1. proc[q].cmd = "run"
    BY <1>8 DEF Schedule, Scheduling, HashFails, Skip, StopsBlocked, Begin, IInv, OnlyRunsSchedule
  <2>2. ASSUME NEW input, Enters(q, input) PROVE FALSE
    BY <1>1, <1>2, <2>2, EntersMoves
  <2> QED
    BY <1>6, <1>7, <1>8, <2>1, <2>2 DEF Schedule, HashFails, Skip, StopsBlocked, Begin
<1>9. ASSUME NEW q \in Procs, NEW step, NEW content, Holds(q, step, content),
             proc[q].cmd # "package" \/ step = "save"
      PROVE  FALSE
  BY <1>1, <1>2, <1>9, HoldsMoves
<1>10. ASSUME NEW q \in Procs,
              \/ OpenNormalized(q) \/ WriteNormalized(q) \/ OpenCards(q)
              \/ WriteCards(q) \/ ReadForPackage(q)
       PROVE  FALSE
  <2>1. proc[q].step = "run" => proc[q].cmd # "package"
    BY DEF FreshInv, Places, Placed, Locked
  <2> QED
    BY <1>9, <1>10, <2>1
       DEF OpenNormalized, WriteNormalized, OpenCards, WriteCards, ReadForPackage, Doing
<1>11. ASSUME NEW q \in Procs, GatePasses(q) PROVE FALSE
  BY <1>1, <1>2, <1>11, StepMoves DEF GatePasses
<1>12. ASSUME NEW q \in Procs,
              GateAsks(q) \/ WriteBundle(q) \/ StageFails(q) \/ StageBlocks(q) \/ StagePasses(q)
       PROVE  FALSE
  BY <1>6, <1>7, <1>12
     DEF GateAsks, WriteBundle, StageFails, StageBlocks, StagePasses, Finish
<1>13. ASSUME NEW q \in Procs, PackageStart(q) \/ ReadCards(q)
       PROVE  q = p
  BY <1>1, <1>13, PackageStartMoves, HoldsMoves DEF ReadCards, Moves
<1> QED
  BY <1>3, <1>4, <1>5, <1>8, <1>10, <1>11, <1>12, <1>13 DEF Next, Work

LEMMA BundlingNext ==
  ASSUME IInv, FreshInv, Bundling, [Next]_vars
  PROVE  Bundling'
<1>1. CASE UNCHANGED vars
  BY <1>1 DEF vars, Bundling, Bundles, Ahead, Doing
<1>2. ASSUME Next, NEW p \in Procs, proc'[p].cmd = "package", proc'[p].at = Package,
             proc'[p].step \in {"read", "write"}, proc'[p].found.settled
      PROVE  Bundles(p)'
  <2>1. CASE proc'[p] = proc[p]
    BY <1>2, <2>1, AheadStays DEF Bundling, Bundles
  <2>2. CASE proc'[p] # proc[p] /\ PackageStart(p)
    <3>1. Moves(p, "package", "read", Package) /\ proc'[p].found = ReadNow
      BY <2>2, PackageStartMoves DEF IInv
    <3>2. Settled
      BY <1>2, <3>1 DEF ReadNow
    <3>3. /\ cards \in CardRows /\ cards # NONE /\ TextOf(cards) = normalized
          /\ ledger[Normalize].output = normalized /\ ledger[Cards].output = cards
      BY <3>2, SettledCards, NoneAssumption
    <3>4. /\ proc'[p].found.wanted.cards = cards /\ proc'[p].found.text = normalized
          /\ proc'[p].found.wanted.text = normalized
      BY <3>1, <3>3 DEF ReadNow
    <3>5. PICK c : c = cards
      OBVIOUS
    <3>6. c \in CardRows /\ Ahead(c)'
      BY <1>2, <3>3, <3>5, CardsAreAhead, AheadStays
    <3>7. proc'[p].step = "read"
      BY <3>1 DEF Moves
    <3> QED
      BY <3>3, <3>4, <3>5, <3>6, <3>7 DEF Bundles
  <2>3. CASE proc'[p] # proc[p] /\ ReadCards(p)
    <3> DEFINE old == proc[p].found
               new == [old EXCEPT !.cards = cards]
    <3>1. /\ proc'[p].cmd = proc[p].cmd /\ proc[p].step = "read" /\ proc[p].at = Package
          /\ proc'[p].found = new /\ cards # NONE
      BY <2>3, HoldsMoves DEF ReadCards, Doing, Moves, IInv
    <3> HIDE DEF old
    <3>2. /\ new.settled = old.settled /\ new.wanted = old.wanted /\ new.text = old.text
          /\ new.cards = cards
      OBVIOUS
    <3> HIDE DEF new
    <3>3. /\ old.wanted.cards \in CardRows /\ Ahead(old.wanted.cards)
          /\ old.wanted.text = TextOf(old.wanted.cards) /\ old.text = old.wanted.text
      BY <1>2, <3>1, <3>2 DEF Bundling, Bundles, old
    <3>4. cards \in CardRows /\ Ahead(cards) /\ OlderCards(old.wanted.cards, cards)
      BY <3>1, <3>3, CardsAreAhead DEF Ahead
    <3>5. PICK c, d : c = cards /\ d = old.wanted.cards
      OBVIOUS
    <3>6. Ahead(c)' /\ Ahead(d)'
      BY <1>2, <3>3, <3>4, <3>5, AheadStays
    <3> QED
      BY <3>1, <3>2, <3>3, <3>4, <3>5, <3>6 DEF Bundles
  <2> QED
    BY <1>2, <2>1, <2>2, <2>3, WhoReads
<1> QED
  BY <1>1, <1>2 DEF Bundling, Bundles

(* Only runs and package commands come to the package.                     *)
AtPackage == \A p \in Procs : proc[p].at = Package => proc[p].cmd \in {"run", "package"}

LEMMA AtPackageNext ==
  ASSUME IInv, AtPackage, Next
  PROVE  AtPackage'
<1>1. Shape
  BY DEF IInv
<1>2. ASSUME NEW p \in Procs, NEW cmd, NEW step, NEW at, Moves(p, cmd, step, at),
             \/ at \in {Normalize, Cards}
             \/ cmd \in {"run", "package"}
             \/ cmd = proc[p].cmd /\ at = proc[p].at
      PROVE  AtPackage'
  BY <1>2, StagesAre DEF Moves, AtPackage
<1>3. CASE Edit \/ Unlock
  BY <1>3 DEF Edit, EditBook, ReviseVisual, EditRules, Ingest, Unlock, AtPackage
<1>4. ASSUME NEW p \in Procs, NEW last, RunStart(p, last) PROVE AtPackage'
  BY <1>1, <1>2, <1>4, RunStartMoves
<1>5. ASSUME NEW p \in Procs, CardsStart(p) PROVE AtPackage'
  BY <1>1, <1>2, <1>5, CardsStartMoves
<1>6. ASSUME NEW p \in Procs, PackageStart(p) PROVE AtPackage'
  BY <1>1, <1>2, <1>6, PackageStartMoves
<1>7. ASSUME NEW p \in Procs, End(p) \/ Die(p) PROVE AtPackage'
  BY <1>1, <1>2, <1>7, OffMoves DEF End, Die
<1>8. ASSUME NEW p \in Procs, Ends(p) PROVE AtPackage'
  BY <1>1, <1>2, <1>8, EndsMoves
<1>9. ASSUME NEW p \in Procs, NEW output, NEW cascade, proc[p].cmd = "run",
             GoOn(p, output, cascade)
      PROVE  AtPackage'
  BY <1>1, <1>2, <1>9, GoOnMoves
<1>10. ASSUME NEW p \in Procs, NEW step, NEW content,
              Holds(p, step, content) \/ Step(p, step)
       PROVE  AtPackage'
  BY <1>1, <1>2, <1>10, HoldsMoves, StepMoves
<1>11. ASSUME NEW p \in Procs, Schedule(p) PROVE AtPackage'
  <2>1. proc[p].cmd = "run"
    BY <1>11 DEF Schedule, Scheduling, HashFails, Skip, StopsBlocked, Begin, IInv, OnlyRunsSchedule
  <2>2. ASSUME NEW input, Enters(p, input) PROVE AtPackage'
    BY <1>1, <1>2, <2>2, EntersMoves
  <2> QED
    BY <1>8, <1>9, <1>11, <2>1, <2>2 DEF Schedule, HashFails, Skip, StopsBlocked, Begin
<1>12. ASSUME NEW p \in Procs, Work(p) PROVE AtPackage'
  BY <1>8, <1>9, <1>10, <1>12
     DEF Work, OpenNormalized, WriteNormalized, GateAsks, GatePasses, OpenCards, WriteCards,
         ReadForPackage, ReadCards, WriteBundle, StageFails, StageBlocks, StagePasses, Finish
<1> QED
  BY <1>3, <1>4, <1>5, <1>6, <1>7, <1>11, <1>12 DEF Next

(* What a package command that began in a settled directory has read stays *)
(* behind all files, and whoever packages is at the package.               *)
THEOREM BundlingInvariance == Spec => [](Bundling /\ AtPackage)
<1>1. Init => Bundling /\ AtPackage
  <2>1. Init => \A p \in Procs : proc[p].cmd = "off" /\ proc[p].at = Normalize
    BY OffIsRecord DEF Init
  <2> QED
    BY <2>1, StagesAre DEF Bundling, Bundles, AtPackage
<1>2. IInv /\ FreshInv /\ Bundling /\ [Next]_vars => Bundling'
  BY BundlingNext
<1>3. IInv /\ AtPackage /\ [Next]_vars => AtPackage'
  BY AtPackageNext DEF vars, AtPackage
<1> QED
  BY <1>1, <1>2, <1>3, Invariance, FreshInvariance, PTL DEF Spec

(* What WriteBundle finds fresh is what was read: rows that were read      *)
(* after the entries would have been replaced for good.                    *)
LEMMA WrittenTogether ==
  ASSUME IInv, FreshInv, Bundling, AtPackage, NEW p \in Procs, WriteBundle(p),
         IF proc[p].cmd = "run" THEN ~lost ELSE proc[p].found.settled
  PROVE  proc[p].found.text =
           [book |-> proc[p].found.cards.book, visual |-> proc[p].found.cards.visual]
<1>1. proc[p].at = Package /\ proc[p].step = "write" /\ Fresh(proc[p].found)
  BY DEF WriteBundle, Doing
<1>2. CASE proc[p].cmd = "run"
  BY <1>1, <1>2 DEF FreshInv, Compile, Packages, Locked, Doing, TextOf
<1>3. CASE proc[p].cmd = "package"
  <2> DEFINE wanted == proc[p].found.wanted
             read == proc[p].found.cards
  <2>1. /\ wanted.cards \in CardRows /\ wanted.text = TextOf(wanted.cards)
        /\ proc[p].found.text = wanted.text
        /\ read \in CardRows /\ Ahead(read) /\ OlderCards(wanted.cards, read)
    BY <1>1, <1>3 DEF Bundling, Bundles
  <2>2. cards = wanted.cards
    BY <1>1 DEF Fresh
  <2>3. OlderCards(read, wanted.cards)
    BY <2>1, <2>2, NoneAssumption DEF Ahead
  <2>4. read.book = wanted.cards.book /\ read.visual = wanted.cards.visual
    BY <2>1, <2>3 DEF OlderCards, Older, CardRows
  <2> QED
    BY <2>1, <2>4 DEF TextOf
<1>4. proc[p].cmd \in {"run", "package"}
  BY <1>1 DEF AtPackage
<1> QED
  BY <1>2, <1>3, <1>4

(* The cards of a bundle are cards of its text: for a run, unless an       *)
(* earlier one ended between the gate and the cards; for release package,  *)
(* if the directory was settled when it began (createReleasePackageStage,  *)
(* assertFreshArtifacts).                                                  *)
THEOREM BundlesOfOneCompile == Spec => BundlesAreOfOneCompile
<1> DEFINE Together ==
      \A p \in Procs :
        (/\ WriteBundle(p)
         /\ IF proc[p].cmd = "run" THEN ~lost ELSE proc[p].found.settled)
          => proc[p].found.text = [book |-> proc[p].found.cards.book,
                                   visual |-> proc[p].found.cards.visual]
<1>1. IInv /\ FreshInv /\ Bundling /\ AtPackage => Together
  BY WrittenTogether
<1>2. IInv /\ FreshInv /\ Bundling /\ AtPackage /\ [Next]_vars => [Together]_vars
  BY <1>1
<1> HIDE DEF Together
<1>3. Spec => [][Together]_vars
  BY <1>2, Invariance, FreshInvariance, BundlingInvariance, PTL DEF Spec
<1> QED
  BY <1>3 DEF BundlesAreOfOneCompile, Together
=============================================================================
