------------------------------- MODULE Pipeline -------------------------------
(***************************************************************************)
(* The content compiler on one work directory: stages, their ledger and    *)
(* the work lock (tools/content-compiler/src/pipeline.ts, ledger.ts), and  *)
(* the two direct commands cards generate and release package (cli.ts).    *)
(*                                                                         *)
(* Four of the thirteen stages stand for all of them: one that writes what *)
(* others read (STRUCTURE_NORMALIZE), a gate on the agents' queue whose    *)
(* output only names the units it let pass (REPAIR_LOOP), the cards        *)
(* (CARD_GENERATE) and the package.  Hashes are compared, never computed:  *)
(* a hash is named by what it is taken of, which need not be all that the  *)
(* stage reads.                                                            *)
(***************************************************************************)
EXTENDS Integers

CONSTANTS
  Procs, NONE,
  MaxEdits,         \* bound on the edits of files, visual answers and rules
  Answers,          \* packets the agents answer before every unit has passed
  Throughs,         \* the stages at which a run may be told to end
  Blockable         \* the stages that may end BLOCKED

ASSUME BoundAssumption == {MaxEdits, Answers} \subseteq Nat
ASSUME ThroughAssumption == Throughs \subseteq 1..4 /\ Blockable \subseteq 1..4
TextRows == [book : Nat, visual : Nat]
CardRows == [book : Nat, visual : Nat, queue : Nat, rules : Nat]
ASSUME NoneAssumption ==
  NONE \notin Procs /\ NONE \notin Nat /\ NONE \notin TextRows /\ NONE \notin CardRows

VARIABLES
  sources,          \* versions of what people and agents edit
  ledger,           \* ledger/<STAGE>.json
  normalized,       \* normalized.jsonl: the versions it was made of
  cards,            \* cards.jsonl, NONE while half written
  lock,             \* compile.lock: the process whose token it holds
  proc,             \* the compiler processes
  lost              \* history: a run ended between re-passing the gate and
                    \* re-making the cards

vars == <<sources, ledger, normalized, cards, lock, proc, lost>>

Normalize == 1
Gate == 2
Cards == 3
Package == 4
Stages == Normalize..Package

(* Every unit "passed" is all that the gate's output says.                 *)
UnitsPassed == [units |-> "passed"]

(* What a stage folds into its input hash, given the hash of the output it *)
(* finds upstream.                                                         *)
CardInputs(up) == [queue |-> sources.queue, rules |-> sources.rules, up |-> up]

(* A fault: the hash of the cards leaves out the rules.                    *)
RulesUnhashed(up) ==
  << [book |-> sources.book],
     [queue |-> sources.queue, up |-> up],
     [CardInputs(up) EXCEPT !.rules = 0],
     [normalized |-> normalized, cards |-> cards, up |-> up] >>

(* The text is made of the book's files and of the answers of the visual   *)
(* review, but hashed by the files alone.                                  *)
Inputs(up) ==
  << [book |-> sources.book],
     [queue |-> sources.queue, up |-> up],
     CardInputs(up),
     [normalized |-> normalized, cards |-> cards, up |-> up] >>

(* A stage that is PENDING or FAILED is scheduled like one without entry.  *)
NoEntry == [status |-> "OPEN", input |-> NONE, output |-> NONE]

(* found is what a stage has read: the rows it will write, or, when it      *)
(* packages, the outputs on record and the rows.                           *)
Off == [cmd |-> "off", step |-> "off", at |-> Normalize, last |-> Package,
        cascade |-> FALSE, up |-> NONE, input |-> NONE, found |-> NONE]

Init ==
  /\ sources = [book |-> 0, visual |-> 0, queue |-> 0, rules |-> 0]
  /\ ledger = [s \in Stages |-> NoEntry]
  /\ normalized = NONE
  /\ cards = NONE
  /\ lock = NONE
  /\ proc = [p \in Procs |-> Off]
  /\ lost = FALSE

Doing(p, step, s) == proc[p].step = step /\ proc[p].at = s
Step(p, step) == proc' = [proc EXCEPT ![p].step = step]

Ends(p) == proc' = [proc EXCEPT ![p] = [Off EXCEPT !.cmd = proc[p].cmd, !.step = "end"]]

(* Only the hashes of a stage that passed are ever read again.             *)
Save(s, status) ==
  ledger' = [ledger EXCEPT ![s] = [NoEntry EXCEPT !.status = status]]

SavePassed(s, input, output) ==
  ledger' = [ledger EXCEPT ![s] = [status |-> "PASSED", input |-> input, output |-> output]]

Passed(s) == ledger[s].status = "PASSED"
Matches(s, up) == Passed(s) /\ ledger[s].input = Inputs(up)[s]
(* The upstream that the direct commands take from the ledger.             *)
Recorded(s) == IF Passed(s) THEN ledger[s].output ELSE NONE

------------------------------------------------------------------------------
(* People and agents, at any time.                                         *)

(* Settled files of the book (spacing, sense trims, parser version), and   *)
(* the card rules.  A file never goes back to an earlier version.          *)
MayEdit == sources.book + sources.visual + sources.rules < MaxEdits

EditBook ==
  /\ MayEdit
  /\ sources' = [sources EXCEPT !.book = @ + 1]
  /\ UNCHANGED <<ledger, normalized, cards, lock, proc, lost>>

(* A field is answered for, or its answer superseded by another.           *)
ReviseVisual ==
  /\ MayEdit
  /\ sources' = [sources EXCEPT !.visual = @ + 1]
  /\ UNCHANGED <<ledger, normalized, cards, lock, proc, lost>>

EditRules ==
  /\ MayEdit
  /\ sources' = [sources EXCEPT !.rules = @ + 1]
  /\ UNCHANGED <<ledger, normalized, cards, lock, proc, lost>>

(* The queue counts packets asked and answered; it is odd while one waits. *)
Awaiting == sources.queue % 2 = 1

AllAnswered == sources.queue = 2 * Answers

Ingest ==
  /\ Awaiting
  /\ sources' = [sources EXCEPT !.queue = @ + 1]
  /\ UNCHANGED <<ledger, normalized, cards, lock, proc, lost>>

------------------------------------------------------------------------------
(* A run: take the lock, recover what a dead run left, schedule each stage *)
(* of the prefix in order.                                                 *)

(* A fault: the lock file is opened without the exclusive flag.            *)
LockIgnored == TRUE

LockFree == lock = NONE

(* A fault: what a dead run left RUNNING stays so.                         *)
NotRecovered == ledger

Recovered ==
  [s \in Stages |->
     IF ledger[s].status = "RUNNING" THEN NoEntry
     ELSE ledger[s]]

RunStart(p, last) ==
  /\ proc[p] = Off
  /\ LockFree
  /\ lock' = p
  /\ ledger' = Recovered
  /\ proc' = [proc EXCEPT ![p] = [Off EXCEPT !.cmd = "run", !.step = "schedule", !.last = last]]
  /\ UNCHANGED <<sources, normalized, cards, lost>>

(* The next stage of the prefix sees the output upstream.                  *)
GoOn(p, output, cascade) ==
  LET at == proc[p].at
  IN  proc' = [proc EXCEPT ![p] =
        IF at = proc[p].last THEN [Off EXCEPT !.cmd = "run", !.step = "end"]
        ELSE [@ EXCEPT !.step = "schedule", !.at = at + 1, !.up = output,
                       !.cascade = cascade, !.input = NONE, !.found = NONE]]

MaySkip(p) == ~proc[p].cascade /\ Matches(proc[p].at, proc[p].up)

Scheduling(p) == proc[p].step = "schedule"

(* The hash cannot be taken, or the input does not parse, whatever the     *)
(* entry said before.                                                      *)
HashFails(p) ==
  /\ Scheduling(p)
  /\ Save(proc[p].at, "OPEN")
  /\ Ends(p)
  /\ UNCHANGED <<sources, normalized, cards, lock, lost>>

Skip(p) ==
  /\ Scheduling(p)
  /\ MaySkip(p)
  /\ GoOn(p, ledger[proc[p].at].output, FALSE)
  /\ UNCHANGED <<sources, ledger, normalized, cards, lock, lost>>

StopsBlocked(p) ==
  /\ Scheduling(p)
  /\ ~MaySkip(p)
  /\ ledger[proc[p].at].status = "BLOCKED"
  /\ Ends(p)
  /\ UNCHANGED <<sources, ledger, normalized, cards, lock, lost>>

Predecessors == Stages \ {Package}
GateUnmet(p) == proc[p].at = Package /\ \E s \in Predecessors : ~Passed(s)

Enters(p, input) ==
  proc' = [proc EXCEPT ![p] = [@ EXCEPT !.step = "run", !.input = input]]

Begin(p) ==
  LET s == proc[p].at
      input == Inputs(proc[p].up)[s]
  IN  /\ Scheduling(p)
      /\ ~MaySkip(p)
      /\ ledger[s].status # "BLOCKED"
      /\ IF GateUnmet(p)
         THEN Save(s, "BLOCKED") /\ Ends(p)
         ELSE /\ Save(s, "RUNNING")
              /\ Enters(p, input)
      /\ UNCHANGED <<sources, normalized, cards, lock, lost>>

------------------------------------------------------------------------------
(* What the stages do.  A stage reads, then writes its file in place:      *)
(* opened, then filled.                                                    *)
Holds(p, step, content) ==
  proc' = [proc EXCEPT ![p] = [@ EXCEPT !.step = step, !.found = content]]

OpenNormalized(p) ==
  /\ Doing(p, "run", Normalize)
  /\ normalized' = NONE
  /\ Holds(p, "write", [book |-> sources.book, visual |-> sources.visual])
  /\ UNCHANGED <<sources, ledger, cards, lock, lost>>

WriteNormalized(p) ==
  /\ Doing(p, "write", Normalize)
  /\ normalized' = proc[p].found
  /\ Holds(p, "save", NONE)
  /\ UNCHANGED <<sources, ledger, cards, lock, lost>>

(* The gate asks for what it misses and fails until it is answered.        *)
GateAsks(p) ==
  /\ Doing(p, "run", Gate)
  /\ ~AllAnswered
  /\ sources' = IF Awaiting THEN sources ELSE [sources EXCEPT !.queue = @ + 1]
  /\ Save(Gate, "OPEN")
  /\ Ends(p)
  /\ UNCHANGED <<normalized, cards, lock, lost>>

GatePasses(p) ==
  /\ Doing(p, "run", Gate)
  /\ AllAnswered
  /\ Step(p, "save")
  /\ UNCHANGED <<sources, ledger, normalized, cards, lock, lost>>

(* Cards are made of the file and of the queue; units are assessed again.  *)
OpenCards(p) ==
  /\ Doing(p, "run", Cards)
  /\ AllAnswered
  /\ normalized # NONE
  /\ cards' = NONE
  /\ Holds(p, "write", [book |-> normalized.book, visual |-> normalized.visual,
                        queue |-> sources.queue, rules |-> sources.rules])
  /\ UNCHANGED <<sources, ledger, normalized, lock, lost>>

WriteCards(p) ==
  /\ Doing(p, "write", Cards)
  /\ cards' = proc[p].found
  /\ Holds(p, "save", NONE)
  /\ UNCHANGED <<sources, ledger, normalized, lock, lost>>

(* What the next run would skip.                                           *)
WouldSkipCards ==
  /\ Matches(Normalize, NONE)
  /\ Matches(Gate, ledger[Normalize].output)
  /\ Matches(Cards, ledger[Gate].output)

Locked(p) == proc[p].cmd \in {"run", "cards"}

(* No compile is under way, none has ended between the gate and the cards, *)
(* and the next would have nothing to make.                                *)
Settled == ~lost /\ WouldSkipCards /\ \A p \in Procs : ~Locked(p)

(* Packaging reads the entries and the text, then the cards, and compares  *)
(* the files with the outputs on record much later, before it writes the   *)
(* bundle of what it read.  settled is for a property only.                *)
Ready(up) ==
  /\ \A s \in Predecessors : Passed(s)
  /\ ledger[Cards].output = up
  /\ normalized # NONE

ReadNow == [text |-> normalized, cards |-> NONE, settled |-> Settled,
            wanted |-> [text |-> ledger[Normalize].output, cards |-> ledger[Cards].output]]

ReadForPackage(p) ==
  /\ Doing(p, "run", Package)
  /\ Ready(proc[p].up)
  /\ Holds(p, "read", ReadNow)
  /\ UNCHANGED <<sources, ledger, normalized, cards, lock, lost>>

ReadCards(p) ==
  /\ Doing(p, "read", Package)
  /\ cards # NONE
  /\ Holds(p, "write", [proc[p].found EXCEPT !.cards = cards])
  /\ UNCHANGED <<sources, ledger, normalized, cards, lock, lost>>

(* A fault: what was read is not compared with the outputs on record.      *)
NeverStale(found) == TRUE

Fresh(found) == normalized = found.wanted.text /\ cards = found.wanted.cards

(* Nobody reads the output hash of the package again.                      *)
WriteBundle(p) ==
  /\ Doing(p, "write", Package)
  /\ Fresh(proc[p].found)
  /\ SavePassed(Package, proc[p].input, NONE)
  /\ Ends(p)
  /\ UNCHANGED <<sources, normalized, cards, lock, lost>>

------------------------------------------------------------------------------
(* How a stage ends.                                                       *)

OutputOf(p) ==
  CASE proc[p].at = Normalize -> normalized
    [] proc[p].at = Gate -> UnitsPassed
    [] proc[p].at = Cards -> cards

Finish(p) == IF proc[p].cmd = "run" THEN GoOn(p, OutputOf(p), TRUE) ELSE Ends(p)

(* The gate has passed and the run ends before the cards are made again:   *)
(* the cascade was in memory.                                              *)
StagePasses(p) ==
  /\ proc[p].step = "save"
  /\ SavePassed(proc[p].at, proc[p].input, OutputOf(p))
  /\ Finish(p)
  /\ lost' = CASE proc[p].at = Cards -> FALSE
               [] proc[p].at = Gate /\ proc[p].last = Gate -> TRUE
               [] OTHER -> lost
  /\ UNCHANGED <<sources, normalized, cards, lock>>

(* What goes wrong, at any moment of the stage.  A direct command leaves   *)
(* no trace of its failure.                                                *)
StageFails(p) ==
  /\ proc[p].step \in {"run", "read", "write"}
  /\ IF proc[p].cmd = "run" THEN Save(proc[p].at, "OPEN") ELSE UNCHANGED ledger
  /\ Ends(p)
  /\ UNCHANGED <<sources, normalized, cards, lock, lost>>

StageBlocks(p) ==
  /\ proc[p].cmd = "run"
  /\ proc[p].step = "run"
  /\ proc[p].at \in Blockable
  /\ Save(proc[p].at, "BLOCKED")
  /\ Ends(p)
  /\ UNCHANGED <<sources, normalized, cards, lock, lost>>

(* A lock is removed by its owner only.                                    *)
End(p) ==
  /\ proc[p].step = "end"
  /\ proc' = [proc EXCEPT ![p] = Off]
  /\ lock' = IF lock = p THEN NONE ELSE lock
  /\ UNCHANGED <<sources, ledger, normalized, cards, lost>>

------------------------------------------------------------------------------
(* The direct commands.  Neither marks its stage RUNNING; release package  *)
(* does not take the lock.                                                 *)

Direct(cmd, s, up) ==
  [Off EXCEPT !.cmd = cmd, !.step = "run", !.at = s, !.up = up,
              !.input = Inputs(up)[s], !.last = s]

CardsStart(p) ==
  /\ proc[p] = Off
  /\ LockFree
  /\ ~Matches(Cards, Recorded(Gate))
  /\ lock' = p
  /\ proc' = [proc EXCEPT ![p] = Direct("cards", Cards, Recorded(Gate))]
  /\ UNCHANGED <<sources, ledger, normalized, cards, lost>>

PackageStart(p) ==
  /\ proc[p] = Off
  /\ ~Matches(Package, Recorded(Cards))
  /\ Ready(Recorded(Cards))
  /\ proc' = [proc EXCEPT ![p] =
       [Direct("package", Package, Recorded(Cards)) EXCEPT !.step = "read", !.found = ReadNow]]
  /\ UNCHANGED <<sources, ledger, normalized, cards, lock, lost>>

------------------------------------------------------------------------------
(* A process dies between two steps; its lock stays until someone who has  *)
(* made sure that no compiler runs removes it.                             *)

Die(p) ==
  /\ proc[p] # Off
  /\ proc' = [proc EXCEPT ![p] = Off]
  /\ lost' = (lost \/ (Doing(p, "schedule", Cards) /\ proc[p].cascade))
  /\ UNCHANGED <<sources, ledger, normalized, cards, lock>>

Unlock ==
  /\ lock # NONE
  /\ \A p \in Procs : proc[p] = Off
  /\ lock' = NONE
  /\ UNCHANGED <<sources, ledger, normalized, cards, proc, lost>>

Edit == EditBook \/ ReviseVisual \/ EditRules \/ Ingest

Schedule(p) == HashFails(p) \/ Skip(p) \/ StopsBlocked(p) \/ Begin(p)

Work(p) ==
  \/ OpenNormalized(p) \/ WriteNormalized(p)
  \/ GateAsks(p) \/ GatePasses(p)
  \/ OpenCards(p) \/ WriteCards(p)
  \/ ReadForPackage(p) \/ ReadCards(p) \/ WriteBundle(p)
  \/ StagePasses(p)
  \/ StageFails(p) \/ StageBlocks(p)

Next ==
  \/ Edit
  \/ Unlock
  \/ \E p \in Procs :
       \/ \E last \in Throughs : RunStart(p, last)
       \/ CardsStart(p) \/ PackageStart(p)
       \/ Schedule(p) \/ Work(p)
       \/ End(p) \/ Die(p)

Spec == Init /\ [][Next]_vars

------------------------------------------------------------------------------
(* A work directory has one compile at a time, after any deaths and        *)
(* removals of the lock, and the lock is there as long as it runs          *)
(* (pipeline.ts:23-29).                                                    *)
OneCompile ==
  \A p \in Procs : Locked(p) => lock = p

(* While a run is under way, the only RUNNING entry is that of the stage   *)
(* it is in (pipeline.ts:13-16).                                           *)
NoPhantomRunning ==
  \A p \in Procs, s \in Stages :
    (proc[p].cmd = "run" /\ ledger[s].status = "RUNNING")
      => proc[p].at = s /\ proc[p].step \in {"run", "read", "write", "save"}

(* When no compile is under way, what the next run would skip is of the    *)
(* book, the queue and the rules as they are, and the cards are of the     *)
(* text, unless a run has ended between the gate and the cards             *)
(* (pipeline.ts:7-13).  Of the visual review the text has the answers that *)
(* stood when it was made: no hash tells that one was superseded           *)
(* (stage-registry.ts:802-821, 836-854).                                   *)
SkippedIsFresh ==
  Settled =>
    \E answers \in 0..sources.visual :
      /\ normalized = [book |-> sources.book, visual |-> answers]
      /\ cards = [sources EXCEPT !.visual = answers]

(* The cards of a bundle are cards of its text.  A run sees to it whatever *)
(* was edited meanwhile or was packaged beside it, but not in a directory  *)
(* where an earlier run ended (died, or was told to) after it had passed   *)
(* the gate again and before it made the cards again: what the gate and    *)
(* the cards are hashed by does not show it, and new text ships with old   *)
(* cards.  release package sees to it if the directory was settled when it *)
(* read the entries, whatever a compile rewrites before it has the cards   *)
(* (package.ts:371-474, 511-690); it asks no more of the entries than that *)
(* every stage has passed (package.ts:738-757).                            *)
BundlesAreOfOneCompile ==
  [][ \A p \in Procs :
        (/\ WriteBundle(p)
         /\ IF proc[p].cmd = "run" THEN ~lost ELSE proc[p].found.settled)
          => proc[p].found.text = [book |-> proc[p].found.cards.book,
                                   visual |-> proc[p].found.cards.visual] ]_vars

=============================================================================
