--------------------------- MODULE EmulatorProofs ---------------------------
(***************************************************************************)
(* Proofs about Emulator, for every program, image, configuration and      *)
(* schedule of the other workers.                                          *)
(*                                                                         *)
(* The argument.  A branch side that has to be explored is somewhere: it   *)
(* has been executed, it is pending, or it is where the engine stands; and *)
(* it leaves the second place only for the third, and the third only for   *)
(* the first.  The instruction budget is charged with the difference of a  *)
(* counter that grows at least as fast as the run executes.  The allowance *)
(* of a loop only grows, because no page becomes clean during a run, and a *)
(* loop is never taken more often in a row than its counter says; and the  *)
(* counter is, also across slices, how often the loop's branch was met     *)
(* since the loop was last given up.                                       *)
(***************************************************************************)
EXTENDS Emulator, FiniteSetTheorems, SequenceTheorems, TLAPS

\* Every branch marked visited is one the run has executed, and the pending ones are marked.
ScheduleInv ==
    /\ IsFiniteSet(visited)
    /\ \A key \in visited : key[1] \in covered
    /\ PendingScheduledOnce

\* Executed, pending, or where the engine stands.
Accounted(addr) ==
    \/ addr \in covered
    \/ \E n \in 1 .. Len(pending) : pending[n] = addr
    \/ phase \in {"top", "emulating"} /\ rip = addr

SidesAccounted(a) ==
    /\ is_inside_image(fallthrough(a)) => Accounted(fallthrough(a))
    /\ ~is_backward(a) /\ is_inside_image(raw[a].addr) => Accounted(raw[a].addr)

SidesInv ==
    ~truncated => \A a \in covered \cap decoded : raw[a].itype = "jcc" => SidesAccounted(a)

\* A run that nothing cut short has resumed every branch.
DoneInv == phase = "done" /\ ~truncated => pending = <<>>

\* What is left of the budget, while a slice runs and between slices.
BudgetInv ==
    limit_instr =>
        /\ ~cfg.pooled => instructions_executed = executed
        /\ phase \in {"emulating", "slice_over"} =>
               /\ executed + slice_left <= cfg.max_instr
               /\ executed + instructions_left + instr_before
                      <= cfg.max_instr + instructions_executed
               /\ ~cfg.pooled => instructions_left = cfg.max_instr - instr_before
        /\ phase \in {"top", "done"} =>
               /\ executed + instructions_left <= cfg.max_instr
               /\ ~cfg.pooled => instructions_left = cfg.max_instr - executed

\* The counter of a loop counts at least the iterations since the loop was entered.
LoopInv ==
    cfg.max_loops # 0 =>
        \A a \in BackBranches :
            /\ streak[a] <= Hits(a)
            /\ tried[a] = Hits(a)
            /\ streak[a] > 0 => streak[a] < allowance(a)

IInv ==
    /\ TypeOK
    /\ ScheduleInv
    /\ SidesInv
    /\ DoneInv
    /\ BudgetInv
    /\ LoopInv

-----------------------------------------------------------------------------
(* The program *)

\* What is known of every instruction.
LEMMA Program ==
    /\ decoded \subseteq Image /\ Image \subseteq Code /\ Code \subseteq Nat
    /\ BackBranches \subseteq decoded
    /\ \A a \in Code : /\ fallthrough(a) \in Nat
                       /\ raw[a].addr \in Nat
                       /\ \A next \in raw[a].succ : next \in Nat
                       /\ \A next \in successors(raw[a]) : next \in Nat
                       /\ resolves(raw[a]) => target(raw[a]) \in Nat
  <1>1. decoded \subseteq Image
    BY DEF decoded, capture_instruction_snapshot
  <1>2. Image \subseteq Code /\ Code \subseteq Nat
    BY ProgramAssumption
  <1>3. BackBranches \subseteq decoded
    BY DEF BackBranches
  <1>4. ASSUME NEW a \in Code
        PROVE  /\ fallthrough(a) \in Nat
               /\ raw[a].addr \in Nat
               /\ \A next \in raw[a].succ : next \in Nat
               /\ \A next \in successors(raw[a]) : next \in Nat
               /\ resolves(raw[a]) => target(raw[a]) \in Nat
    <2>1. /\ raw[a].size \in Nat /\ raw[a].addr \in Nat /\ raw[a].succ \in SUBSET Nat
          /\ \A p \in DOMAIN pointer : pointer[p] \in Nat
          /\ a \in Nat
      BY <1>2, ProgramAssumption
    <2>2. fallthrough(a) \in Nat
      BY <2>1 DEF fallthrough
    <2>3. resolves(raw[a]) => target(raw[a]) \in Nat
      BY <2>1 DEF resolves, target, InMemory
    <2>4. \A next \in successors(raw[a]) : next \in Nat
      BY <2>1, <2>3 DEF successors
    <2> QED
      BY <2>1, <2>2, <2>3, <2>4
  <1> QED
    BY <1>1, <1>2, <1>3, <1>4

\* What one instruction does to the run, whichever it is.
LEMMA InstructionShape ==
    ASSUME TypeOK, NEW a \in Code, Instruction(a)
    PROVE  /\ phase = "emulating" /\ rip = a /\ (limit_instr => slice_left > 0)
           /\ UNCHANGED <<cfg, phase, stop_requested, budgetVars>>
           /\ covered' = covered \cup {a}
           /\ slice_left' = IF limit_instr THEN slice_left - 1 ELSE slice_left
           /\ \/ UNCHANGED <<instructions_executed, executed>>
              \/ /\ limit_instr
                 /\ instructions_executed' = instructions_executed + 1
                 /\ executed' = executed + 1
  <1>1. CASE Undecoded(a)
    BY <1>1 DEF Undecoded, CanExecute, EngineCounts
  <1>2. CASE Hooked(a)
    BY <1>2 DEF Hooked, CanExecute, EngineCounts, CountInstruction
  <1> QED
    BY <1>1, <1>2 DEF Instruction, Skip, Handle, ExternalCall, Execute, ForwardBranch,
                      LoopCut, LoopContinues

\* The branches an instruction schedules are sides of its own.
Schedules(a) ==
    \/ UNCHANGED <<branchVars, truncated>>
    \/ /\ a \in decoded
       /\ \E to \in Nat, fails \in BOOLEAN : schedule_branch(a, to, fails)

\* Conditional branches and indirect jumps schedule, others do not.
LEMMA InstructionSchedules ==
    ASSUME TypeOK, NEW a \in Code, Instruction(a)
    PROVE  Schedules(a)
  <1>1. Fails \subseteq BOOLEAN
    BY DEF Fails
  <1>2. fallthrough(a) \in Nat /\ (resolves(raw[a]) => target(raw[a]) \in Nat)
    BY Program
  <1>3. CASE Undecoded(a) \/ Skip(a) \/ Handle(a) \/ ExternalCall(a)
    BY <1>3 DEF Undecoded, Skip, Handle, ExternalCall, Schedules
  <1>4. CASE Execute(a)
    BY <1>1, <1>2, <1>4 DEF Execute, Hooked, Schedules
  <1>5. CASE ForwardBranch(a) \/ LoopCut(a) \/ LoopContinues(a)
    <2>1. a \in decoded /\ \E fails \in Fails : schedule_branch(a, fallthrough(a), fails)
      BY <1>5 DEF ForwardBranch, LoopCut, LoopContinues, Hooked
    <2> QED
      BY <1>1, <1>2, <2>1 DEF Schedules
  <1> QED
    BY <1>3, <1>4, <1>5 DEF Instruction

\* Where the engine stands after an instruction.
LEMMA InstructionGoesOn ==
    ASSUME TypeOK, NEW a \in Code, Instruction(a)
    PROVE  rip' \in Nat
  <1>1. /\ fallthrough(a) \in Nat /\ raw[a].addr \in Nat
        /\ \A next \in raw[a].succ : next \in Nat
        /\ \A next \in successors(raw[a]) : next \in Nat
    BY Program
  <1>2. CASE Undecoded(a)
    BY <1>1, <1>2 DEF Undecoded
  <1>3. CASE Skip(a) \/ Handle(a) \/ ExternalCall(a) \/ LoopCut(a)
    BY <1>1, <1>3 DEF Skip, Handle, ExternalCall, LoopCut
  <1>4. CASE Execute(a)
    BY <1>1, <1>4 DEF Execute
  <1>5. CASE ForwardBranch(a)
    BY <1>1, <1>5 DEF ForwardBranch
  <1>6. CASE LoopContinues(a)
    BY <1>1, <1>6 DEF LoopContinues
  <1> QED
    BY <1>2, <1>3, <1>4, <1>5, <1>6 DEF Instruction

\* What an instruction does to the loop counters and to the marks of the pages.
LEMMA InstructionLoops ==
    ASSUME TypeOK, NEW a \in Code, Instruction(a)
    PROVE  /\ \/ UNCHANGED loopVars
              \/ LoopCut(a) /\ dirty' = dirty
              \/ LoopContinues(a) /\ dirty' = dirty
           /\ dirty \subseteq dirty'
           /\ UNCHANGED <<quiet, streak>> \/ \E page : Note(page)
  <1>1. CASE Undecoded(a)
    BY <1>1 DEF Undecoded, EngineWrite
  <1>2. CASE Skip(a)
    BY <1>2 DEF Skip, memoryVars, loopVars
  <1>3. CASE Handle(a)
    BY <1>3 DEF Handle, DirectWrite
  <1>4. CASE ExternalCall(a)
    BY <1>4 DEF ExternalCall, DirectWrite
  <1>5. CASE Execute(a)
    BY <1>5 DEF Execute, EngineWrite
  <1>6. CASE ForwardBranch(a)
    BY <1>6 DEF ForwardBranch, EngineWrite
  <1>7. CASE LoopCut(a)
    BY <1>7 DEF LoopCut, EngineWrite
  <1>8. CASE LoopContinues(a)
    BY <1>8 DEF LoopContinues, EngineWrite
  <1> QED
    BY <1>1, <1>2, <1>3, <1>4, <1>5, <1>6, <1>7, <1>8 DEF Instruction

-----------------------------------------------------------------------------
(* Types *)

\* The arguments of a run.
LEMMA Arguments ==
    ASSUME TypeOK
    PROVE  /\ cfg \in Configs /\ cfg.max_instr \in Nat
           /\ cfg.max_loops \in 0 .. MaxU64 /\ MaxU64 \in Nat /\ dirty_allowance \in Nat
           /\ MaxForeign \in Nat
  BY LimitAssumption DEF TypeOK

\* Scheduling keeps the branches what they are.
LEMMA ScheduleTypes ==
    ASSUME TypeOK, NEW a \in Code, Schedules(a)
    PROVE  /\ pending' \in Seq(Nat)
           /\ visited' \subseteq Image \X Nat
           /\ DOMAIN scheduled' \subseteq visited'
           /\ resumed' \in Nat
           /\ truncated' \in BOOLEAN
           /\ truncated => truncated'
  <1>1. CASE UNCHANGED <<branchVars, truncated>>
    BY <1>1 DEF TypeOK, branchVars
  <1>2. CASE /\ a \in decoded
             /\ \E to \in Nat, fails \in BOOLEAN : schedule_branch(a, to, fails)
    <2>1. PICK to \in Nat, fails \in BOOLEAN : schedule_branch(a, to, fails)
      BY <1>2
    <2>2. a \in Image
      BY <1>2, Program
    <2>3. pending' \in Seq(Nat)
      <3>1. pending \in Seq(Nat) /\ Append(pending, to) \in Seq(Nat)
        BY DEF TypeOK
      <3> QED
        BY <2>1, <3>1 DEF schedule_branch
    <2>4. visited' \subseteq Image \X Nat
      BY <2>1, <2>2 DEF schedule_branch, TypeOK
    <2>5. truncated' \in BOOLEAN /\ (truncated => truncated')
      BY <2>1 DEF schedule_branch, TypeOK
    <2>6. DOMAIN scheduled' \subseteq visited' /\ resumed' \in Nat
      <3>1. DOMAIN scheduled \subseteq visited /\ resumed \in Nat
        BY DEF TypeOK
      <3> QED
        BY <2>1, <3>1 DEF schedule_branch, Saved
    <2> QED
      BY <2>3, <2>4, <2>5, <2>6
  <1> QED
    BY <1>1, <1>2 DEF Schedules

\* So do the counters of the loops.
LEMMA LoopTypes ==
    ASSUME TypeOK, NEW a \in Code, Instruction(a)
    PROVE  /\ DOMAIN loop_iterations' \subseteq BackBranches
           /\ \A b \in DOMAIN loop_iterations' : loop_iterations'[b] \in Nat
           /\ streak' \in [BackBranches -> Nat]
           /\ tried' \in [BackBranches -> Nat]
           /\ quiet' \in [BackBranches -> BOOLEAN]
  <1>1. /\ DOMAIN loop_iterations \subseteq BackBranches
        /\ \A b \in DOMAIN loop_iterations : loop_iterations[b] \in Nat
        /\ streak \in [BackBranches -> Nat]
        /\ tried \in [BackBranches -> Nat]
        /\ quiet \in [BackBranches -> BOOLEAN]
    BY DEF TypeOK
  <1>2. CASE UNCHANGED loopVars
    BY <1>1, <1>2, InstructionLoops DEF Note, loopVars
  <1>3. ASSUME LoopCut(a) \/ LoopContinues(a)
        PROVE  quiet' \in [BackBranches -> BOOLEAN]
    BY <1>1, <1>3 DEF LoopCut, LoopContinues, EngineWrite, Note
  <1>4. CASE LoopCut(a)
    <2>1. /\ loop_iterations' = Restricted(loop_iterations, DOMAIN loop_iterations \ {a})
          /\ streak' = [streak EXCEPT ![a] = 0]
          /\ tried' = [tried EXCEPT ![a] = 0]
      BY <1>4 DEF LoopCut
    <2> QED
      BY <1>1, <1>3, <1>4, <2>1 DEF Restricted
  <1>5. CASE LoopContinues(a)
    <2>1. a \in BackBranches /\ Hits(a) \in Nat
      BY <1>1, <1>5 DEF LoopContinues, Hits
    <2>2. streak' \in [BackBranches -> Nat] /\ tried' \in [BackBranches -> Nat]
      <3>1. PICK next \in {raw[a].addr, fallthrough(a)} :
                streak' = [streak EXCEPT ![a] =
                              IF next = raw[a].addr /\ cfg.max_loops # 0 THEN @ + 1 ELSE 0]
        BY <1>5 DEF LoopContinues
      <3>2. streak[a] + 1 \in Nat /\ tried[a] + 1 \in Nat
        BY <1>1, <2>1
      <3>3. tried' = [tried EXCEPT ![a] = IF cfg.max_loops # 0 THEN @ + 1 ELSE 0]
        BY <1>5 DEF LoopContinues
      <3> QED
        BY <1>1, <3>1, <3>2, <3>3
    <2>3. CASE cfg.max_loops = 0
      <3>1. loop_iterations' = Restricted(loop_iterations, DOMAIN loop_iterations \ {a})
        BY <1>5, <2>3 DEF LoopContinues
      <3> QED
        BY <1>1, <1>3, <1>5, <2>2, <3>1 DEF Restricted
    <2>4. CASE cfg.max_loops # 0
      <3>1. loop_iterations' = [x \in DOMAIN loop_iterations \cup {a} |->
                                   IF x = a THEN Hits(a) + 1 ELSE loop_iterations[x]]
        BY <1>5, <2>4 DEF LoopContinues
      <3>2. Hits(a) + 1 \in Nat
        BY <2>1
      <3> HIDE DEF Hits
      <3> QED
        BY <1>1, <1>3, <1>5, <2>1, <2>2, <3>1, <3>2
    <2> QED
      BY <2>3, <2>4
  <1> QED
    BY <1>2, <1>4, <1>5, InstructionLoops

\* Types are kept by every instruction.
LEMMA InstructionTypes ==
    ASSUME TypeOK, NEW a \in Code, Instruction(a)
    PROVE  TypeOK'
  <1>1. /\ UNCHANGED <<cfg, phase, stop_requested, budgetVars>>
        /\ covered' = covered \cup {a}
        /\ slice_left' = IF limit_instr THEN slice_left - 1 ELSE slice_left
        /\ limit_instr => slice_left > 0
        /\ \/ UNCHANGED <<instructions_executed, executed>>
           \/ /\ instructions_executed' = instructions_executed + 1
              /\ executed' = executed + 1
    BY InstructionShape
  <1>2. slice_left' \in 0 .. cfg'.max_instr
    <2>1. slice_left \in 0 .. cfg.max_instr /\ cfg.max_instr \in Nat /\ cfg' = cfg
      BY <1>1, Arguments DEF TypeOK
    <2>2. CASE limit_instr
      BY <1>1, <2>1, <2>2
    <2>3. CASE ~limit_instr
      BY <1>1, <2>1, <2>3
    <2> QED
      BY <2>2, <2>3
  <1>3. /\ instructions_executed' \in Nat
        /\ instr_before' \in 0 .. instructions_executed'
        /\ executed' \in 0 .. instructions_executed'
    <2>1. /\ instructions_executed \in Nat
          /\ instr_before \in 0 .. instructions_executed
          /\ executed \in 0 .. instructions_executed
          /\ instr_before' = instr_before
      BY <1>1 DEF TypeOK, budgetVars
    <2> QED
      BY <1>1, <2>1
  <1>4. rip' \in Nat
    BY InstructionGoesOn
  <1>5. /\ pending' \in Seq(Nat) /\ visited' \subseteq Image \X Nat /\ truncated' \in BOOLEAN
        /\ DOMAIN scheduled' \subseteq visited' /\ resumed' \in Nat
    BY InstructionSchedules, ScheduleTypes
  <1>6. /\ DOMAIN loop_iterations' \subseteq BackBranches
        /\ \A b \in DOMAIN loop_iterations' : loop_iterations'[b] \in Nat
        /\ streak' \in [BackBranches -> Nat] /\ tried' \in [BackBranches -> Nat]
        /\ quiet' \in [BackBranches -> BOOLEAN]
    BY LoopTypes
  <1>7. /\ cfg' \in Configs /\ phase' \in Phases /\ stop_requested' \in BOOLEAN
        /\ instructions_left' \in 0 .. cfg'.max_instr
        /\ time_left' \in BOOLEAN /\ covered' \subseteq Code
    BY <1>1 DEF TypeOK, budgetVars
  <1> QED
    BY <1>2, <1>3, <1>4, <1>5, <1>6, <1>7 DEF TypeOK

\* The state run() sets up.
LEMMA InitTypes == Init => TypeOK
  <1> SUFFICES ASSUME Init PROVE TypeOK
    OBVIOUS
  <1> USE DEF Init
  <1>1. /\ cfg \in Configs /\ cfg.start \in Nat /\ cfg.max_instr \in Nat
    BY LimitAssumption
  <1>2. /\ phase \in Phases /\ rip \in Nat /\ pending \in Seq(Nat)
        /\ visited \subseteq Image \X Nat
    BY <1>1 DEF Phases
  <1>3. DOMAIN loop_iterations = {} /\ DOMAIN scheduled \subseteq visited /\ resumed \in Nat
    OBVIOUS
  <1>4. /\ instructions_executed \in Nat /\ instr_before \in 0 .. instructions_executed
        /\ instructions_left \in 0 .. cfg.max_instr /\ slice_left \in 0 .. cfg.max_instr
        /\ executed \in 0 .. instructions_executed
    BY <1>1
  <1>5. /\ time_left \in BOOLEAN /\ quiet \in [BackBranches -> BOOLEAN]
        /\ streak \in [BackBranches -> Nat] /\ tried \in [BackBranches -> Nat]
    OBVIOUS
  <1> QED
    BY <1>1, <1>2, <1>3, <1>4, <1>5, ZenonT(60) DEF TypeOK

\* The run loop and the other threads.
LEMMA OtherTypes ==
    ASSUME TypeOK,
           \/ StartSlice \/ GiveUp \/ Resume \/ RequestStop \/ ForeignInstruction
           \/ \E cutShort, expired \in BOOLEAN : EndSlice(cutShort, expired)
           \/ UNCHANGED vars
    PROVE  TypeOK'
  <1>1. /\ cfg.max_instr \in Nat /\ instructions_left \in 0 .. cfg.max_instr
        /\ instructions_executed \in Nat /\ instr_before \in 0 .. instructions_executed
        /\ executed \in 0 .. instructions_executed
    BY Arguments DEF TypeOK
  <1>2. CASE StartSlice
    <2>1. /\ instr_before' \in 0 .. instructions_executed
          /\ streak' \in [BackBranches -> Nat] /\ quiet' \in [BackBranches -> BOOLEAN]
      BY <1>1, <1>2 DEF StartSlice
    <2> QED
      BY <1>1, <1>2, <2>1 DEF StartSlice, TypeOK, Phases, branchVars
  <1>3. CASE GiveUp
    BY <1>3 DEF GiveUp, TypeOK, Phases, branchVars, loopVars, memoryVars, budgetVars
  <1>4. CASE Resume
    <2>1. instructions_left' \in 0 .. cfg.max_instr
      BY <1>1, <1>4 DEF Resume, Charge
    <2>2. time_left' \in BOOLEAN
      BY <1>4 DEF Resume, TypeOK
    <2>3. phase' \in Phases /\ rip' \in Nat /\ pending' \in Seq(Nat) /\ truncated' \in BOOLEAN
      <3>1. CASE pending = <<>>
        BY <1>4, <3>1 DEF Resume, TypeOK, Phases
      <3>2. CASE pending # <<>>
        <4>1. pending \in Seq(Nat) /\ Len(pending) \in Nat /\ Len(pending) # 0
          BY <3>2 DEF TypeOK
        <4>2. pending[Len(pending)] \in Nat
          BY <4>1
        <4>3. SubSeq(pending, 1, Len(pending) - 1) \in Seq(Nat)
          BY <4>1
        <4> QED
          BY <1>4, <3>2, <4>2, <4>3 DEF Resume, TypeOK, Phases
      <3> QED
        BY <3>1, <3>2
    <2>4. resumed' \in Nat
      BY <1>4 DEF Resume, TypeOK
    <2> QED
      BY <1>4, <2>1, <2>2, <2>3, <2>4 DEF Resume, TypeOK, loopVars, memoryVars
  <1>5. CASE RequestStop
    BY <1>5 DEF RequestStop, TypeOK, branchVars, loopVars, memoryVars, budgetVars
  <1>6. CASE ForeignInstruction
    <2>1. /\ instructions_executed' \in Nat
          /\ instr_before \in 0 .. instructions_executed'
          /\ executed \in 0 .. instructions_executed'
      BY <1>1, <1>6 DEF ForeignInstruction
    <2> QED
      BY <1>6, <2>1 DEF ForeignInstruction, TypeOK, branchVars, loopVars, memoryVars, budgetVars
  <1>7. CASE \E cutShort, expired \in BOOLEAN : EndSlice(cutShort, expired)
    BY <1>7 DEF EndSlice, TypeOK, Phases, branchVars, loopVars, memoryVars
  <1>8. CASE UNCHANGED vars
    BY <1>8 DEF vars, TypeOK
  <1> QED
    BY <1>2, <1>3, <1>4, <1>5, <1>6, <1>7, <1>8

\* A slice ends because a limit or the stop flag cut it short, or because control left the
\* code.
SliceEnds == \E cutShort, expired \in BOOLEAN :
                 EndSlice(cutShort, expired) /\ (cutShort \/ rip \notin Code)

\* The steps of the system, as the proofs distinguish them.
LEMMA NextCases ==
    ASSUME [Next]_vars
    PROVE  \/ \E a \in Code : Instruction(a)
           \/ StartSlice
           \/ GiveUp
           \/ SliceEnds
           \/ Resume
           \/ RequestStop
           \/ ForeignInstruction
           \/ UNCHANGED vars
  <1>1. EngineLeaves \/ StopSeen \/ CountReached \/ TimerExpires => SliceEnds
    BY DEF SliceEnds, EngineLeaves, StopSeen, CountReached, TimerExpires
  <1> QED
    BY <1>1 DEF Next, RunStep, Done

\* The arguments of a run do not change.
LEMMA ArgumentsStay ==
    ASSUME TypeOK, [Next]_vars PROVE cfg' = cfg
  <1>1. (\E a \in Code : Instruction(a)) => cfg' = cfg
    BY InstructionShape
  <1> QED
    BY <1>1, NextCases DEF StartSlice, GiveUp, SliceEnds, EndSlice, Resume, RequestStop,
                           ForeignInstruction, vars

\* Types are kept by every step.
LEMMA NextTypes ==
    ASSUME TypeOK, [Next]_vars PROVE TypeOK'
  BY NextCases, InstructionTypes, OtherTypes DEF SliceEnds

-----------------------------------------------------------------------------
(* Scheduled branches *)

\* A branch is saved at most once: its pair was not marked before.
LEMMA ScheduleStep ==
    ASSUME TypeOK, ScheduleInv, NEW a \in decoded, NEW to \in Nat, NEW fails \in BOOLEAN,
           schedule_branch(a, to, fails), covered' = covered \cup {a}
    PROVE  ScheduleInv'
  <1> DEFINE key == <<a, to>>
             keep == key \notin visited /\ is_inside_image(to) /\ ~fails
  <1> DEFINE kept == DOMAIN scheduled
  <1>1. /\ visited' = visited \cup {key}
        /\ pending' = IF keep THEN Append(pending, to) ELSE pending
        /\ IF keep THEN Saved(key) ELSE scheduled' = scheduled
        /\ resumed' = resumed
    BY DEF schedule_branch
  <1>2. /\ pending \in Seq(Nat) /\ Len(pending) \in Nat /\ resumed \in Nat
        /\ IsFiniteSet(visited) /\ kept \subseteq visited
    BY DEF TypeOK, ScheduleInv
  <1>3. /\ IsFiniteSet(kept) /\ Cardinality(kept) \in Nat
        /\ resumed + Len(pending) = Cardinality(kept)
        /\ \A k \in kept : scheduled[k] = 1
        /\ \A m \in 1 .. Len(pending) : /\ is_inside_image(pending[m])
                                        /\ \E k \in kept : k[2] = pending[m]
    BY <1>2, FS_Subset, FS_CardinalityType DEF ScheduleInv, PendingScheduledOnce
  <1>4. IsFiniteSet(visited') /\ \A k \in visited' : k[1] \in covered'
    <2>1. IsFiniteSet(visited \cup {key})
      BY <1>2, FS_AddElement
    <2>2. \A k \in visited : k[1] \in covered
      BY DEF ScheduleInv
    <2> QED
      BY <1>1, <2>1, <2>2
  <1>5. CASE keep
    <2>1. /\ pending' = Append(pending, to) /\ Len(pending') = Len(pending) + 1
          /\ pending'[Len(pending) + 1] = to
          /\ \A m \in 1 .. Len(pending) : pending'[m] = pending[m]
      BY <1>1, <1>2, <1>5
    <2>2. key \notin kept /\ key[2] = to /\ is_inside_image(to)
      BY <1>2, <1>5
    <2>3. scheduled' = [k \in kept \cup {key} |->
                           IF k \notin kept THEN 1
                           ELSE IF k = key THEN scheduled[k] + 1 ELSE scheduled[k]]
      BY <1>1, <1>5 DEF Saved
    <2> HIDE DEF key, keep
    <2>4. DOMAIN scheduled' = kept \cup {key} /\ \A k \in DOMAIN scheduled' : scheduled'[k] = 1
      BY <1>3, <2>2, <2>3
    <2>5. Cardinality(DOMAIN scheduled') = Cardinality(kept) + 1
      BY <1>3, <2>2, <2>4, FS_AddElement
    <2>6. resumed' + Len(pending') = Cardinality(DOMAIN scheduled')
      <3> HIDE DEF kept
      <3> QED
        BY <1>1, <1>2, <1>3, <2>1, <2>5
    <2>7. ASSUME NEW n \in 1 .. Len(pending')
          PROVE  is_inside_image(pending'[n]) /\ \E k \in DOMAIN scheduled' : k[2] = pending'[n]
      <3>1. n = Len(pending) + 1 \/ n \in 1 .. Len(pending)
        BY <1>2, <2>1
      <3>2. CASE n = Len(pending) + 1
        BY <2>1, <2>2, <2>4, <3>2
      <3>3. CASE n \in 1 .. Len(pending)
        BY <1>3, <2>1, <2>4, <3>3
      <3> QED
        BY <3>1, <3>2, <3>3
    <2> QED
      BY <1>4, <2>4, <2>6, <2>7 DEF ScheduleInv, PendingScheduledOnce
  <1>6. CASE ~keep
    <2>1. pending' = pending /\ scheduled' = scheduled /\ resumed' = resumed
      BY <1>1, <1>6
    <2> QED
      BY <1>3, <1>4, <2>1 DEF ScheduleInv, PendingScheduledOnce
  <1> QED
    BY <1>5, <1>6

\* Taking the newest branch leaves the others.
LEMMA ResumePops ==
    ASSUME TypeOK, Resume, pending # <<>>
    PROVE  /\ Len(pending) \in Nat \ {0}
           /\ Len(pending') = Len(pending) - 1
           /\ resumed' = resumed + 1
           /\ \A n \in 1 .. Len(pending') : pending'[n] = pending[n]
  <1>1. /\ pending \in Seq(Nat) /\ Len(pending) \in Nat /\ Len(pending) # 0
        /\ pending' = SubSeq(pending, 1, Len(pending) - 1)
        /\ resumed' = resumed + 1
    BY DEF TypeOK, Resume
  <1> DEFINE m == Len(pending) - 1
  <1>2. m \in Nat /\ 1 \in Int /\ m \in Int /\ \A i \in 1 .. m : pending[i] \in Nat
    BY <1>1
  <1>3. /\ Len(SubSeq(pending, 1, m)) = IF 1 <= m THEN m - 1 + 1 ELSE 0
        /\ \A i \in 1 .. (m - 1 + 1) : SubSeq(pending, 1, m)[i] = pending[1 + i - 1]
    BY <1>2, SubSeqProperties
  <1>4. /\ Len(pending') = m
        /\ \A i \in 1 .. m : pending'[i] = pending[i]
    <2> HIDE DEF m
    <2>1. /\ m - 1 + 1 = m /\ (IF 1 <= m THEN m - 1 + 1 ELSE 0) = m
          /\ \A i \in 1 .. m : 1 + i - 1 = i
      BY <1>2
    <2> QED
      BY <1>1, <1>3, <2>1 DEF m
  <1> QED
    BY <1>1, <1>4

\* Branches are only scheduled by instructions, and only resumed between slices.
LEMMA NextSchedule ==
    ASSUME TypeOK, ScheduleInv, [Next]_vars PROVE ScheduleInv'
  <1>1. CASE \E a \in Code : Instruction(a)
    <2>1. PICK a \in Code : Instruction(a)
      BY <1>1
    <2>2. covered' = covered \cup {a} /\ Schedules(a)
      BY <2>1, InstructionShape, InstructionSchedules
    <2>3. CASE UNCHANGED <<branchVars, truncated>>
      BY <2>2, <2>3 DEF branchVars, ScheduleInv, PendingScheduledOnce
    <2> QED
      BY <2>2, <2>3, ScheduleStep DEF Schedules
  <1>2. CASE Resume
    <2>1. UNCHANGED <<visited, covered, scheduled>>
      BY <1>2 DEF Resume
    <2>2. CASE pending = <<>>
      BY <1>2, <2>1, <2>2 DEF Resume, ScheduleInv, PendingScheduledOnce
    <2>3. CASE pending # <<>>
      <3>1. /\ Len(pending) \in Nat \ {0} /\ Len(pending') = Len(pending) - 1
            /\ resumed' = resumed + 1 /\ resumed \in Nat
            /\ \A n \in 1 .. Len(pending') : pending'[n] = pending[n]
        BY <1>2, <2>3, ResumePops DEF TypeOK
      <3>2. resumed + Len(pending) = Cardinality(DOMAIN scheduled)
        BY DEF ScheduleInv, PendingScheduledOnce
      <3>3. /\ resumed' + Len(pending') = Cardinality(DOMAIN scheduled)
            /\ 1 .. Len(pending') \subseteq 1 .. Len(pending)
        BY <3>1, <3>2
      <3> QED
        BY <2>1, <3>1, <3>3 DEF ScheduleInv, PendingScheduledOnce
    <2> QED
      BY <2>2, <2>3
  <1>3. CASE StartSlice \/ GiveUp \/ SliceEnds \/ RequestStop \/ ForeignInstruction \/ UNCHANGED vars
    <2>1. UNCHANGED <<branchVars, covered>>
      BY <1>3 DEF StartSlice, GiveUp, SliceEnds, EndSlice, RequestStop, ForeignInstruction, vars,
                  branchVars
    <2> QED
      BY <2>1 DEF branchVars, ScheduleInv, PendingScheduledOnce
  <1> QED
    BY <1>1, <1>2, <1>3, NextCases

-----------------------------------------------------------------------------
(* Both sides of every branch *)

\* The instruction at rip is executed, and what was pending still is.
LEMMA InstructionAccounts ==
    ASSUME TypeOK, NEW a \in Code, Instruction(a), NEW addr, Accounted(addr)
    PROVE  Accounted(addr)'
  <1>1. rip = a /\ covered' = covered \cup {a}
    BY InstructionShape
  <1>2. pending \in Seq(Nat)
    BY DEF TypeOK
  <1>3. \/ pending' = pending
        \/ \E to : pending' = Append(pending, to)
    BY InstructionSchedules DEF Schedules, schedule_branch, branchVars
  <1>4. ASSUME NEW n \in 1 .. Len(pending)
        PROVE  n \in 1 .. Len(pending') /\ pending'[n] = pending[n]
    <2>1. CASE pending' = pending
      BY <1>4, <2>1
    <2>2. ASSUME NEW to, pending' = Append(pending, to)
          PROVE  n \in 1 .. Len(pending') /\ pending'[n] = pending[n]
      BY <1>2, <1>4, <2>2
    <2> QED
      BY <1>3, <2>1, <2>2
  <1> QED
    BY <1>1, <1>4 DEF Accounted

\* A conditional branch seen for the first time has its sides put where they belong.
LEMMA NewBranchAccounted ==
    ASSUME TypeOK, ScheduleInv, NEW a \in decoded, Instruction(a), ~truncated',
           raw[a].itype = "jcc", a \notin covered
    PROVE  SidesAccounted(a)'
  <1>1. a \in Code /\ phase' = "emulating"
    BY Program, InstructionShape
  <1>2. ForwardBranch(a) \/ LoopCut(a) \/ LoopContinues(a)
    BY DEF Instruction, Undecoded, Skip, Handle, ExternalCall, is_external_call, Execute
  <1>3. PICK fails \in Fails : schedule_branch(a, fallthrough(a), fails)
    BY <1>2 DEF ForwardBranch, LoopCut, LoopContinues
  <1>4. is_inside_image(fallthrough(a)) => Accounted(fallthrough(a))'
    <2> SUFFICES ASSUME is_inside_image(fallthrough(a)) PROVE Accounted(fallthrough(a))'
      OBVIOUS
    <2>1. <<a, fallthrough(a)>> \notin visited
      BY DEF ScheduleInv
    <2>2. pending' = Append(pending, fallthrough(a))
      BY <1>3, <2>1 DEF schedule_branch
    <2>3. Len(pending') \in 1 .. Len(pending') /\ pending'[Len(pending')] = fallthrough(a)
      BY <2>2 DEF TypeOK
    <2> QED
      BY <2>3 DEF Accounted
  <1>5. ~is_backward(a) => Accounted(raw[a].addr)'
    <2>1. ~is_backward(a) => rip' = raw[a].addr
      BY <1>2 DEF ForwardBranch, LoopCut, LoopContinues, BackBranches
    <2> QED
      BY <1>1, <2>1 DEF Accounted
  <1> QED
    BY <1>4, <1>5 DEF SidesAccounted

\* No step loses a side: the engine leaves one only by executing it or by being stopped.
LEMMA NextSides ==
    ASSUME TypeOK, ScheduleInv, SidesInv, [Next]_vars PROVE SidesInv'
  <1> SUFFICES ASSUME ~truncated', NEW b \in covered' \cap decoded, raw[b].itype = "jcc"
               PROVE  SidesAccounted(b)'
    BY DEF SidesInv
  <1>1. CASE \E a \in Code : Instruction(a)
    <2>1. PICK a \in Code : Instruction(a)
      BY <1>1
    <2>2. covered' = covered \cup {a} /\ ~truncated
      BY <2>1, InstructionShape, InstructionSchedules, ScheduleTypes
    <2>3. CASE b \in covered
      <3>1. SidesAccounted(b)
        BY <2>2, <2>3 DEF SidesInv
      <3> QED
        BY <2>1, <3>1, InstructionAccounts DEF SidesAccounted
    <2>4. CASE b \notin covered
      <3>1. b = a
        BY <2>2, <2>4
      <3> QED
        BY <2>1, <2>4, <3>1, NewBranchAccounted
    <2> QED
      BY <2>3, <2>4
  <1>2. CASE Resume
    <2>1. phase = "slice_over" /\ covered' = covered /\ ~truncated
      BY <1>2 DEF Resume
    <2>2. SidesAccounted(b)
      BY <2>1 DEF SidesInv
    <2>3. ASSUME NEW addr, Accounted(addr) PROVE Accounted(addr)'
      <3>1. CASE addr \in covered
        BY <2>1, <3>1 DEF Accounted
      <3>2. CASE \E n \in 1 .. Len(pending) : pending[n] = addr
        <4>1. PICK n \in 1 .. Len(pending) : pending[n] = addr
          BY <3>2
        <4>2. pending # <<>>
          BY <4>1
        <4>3. phase' = "top" /\ rip' = pending[Len(pending)]
          BY <1>2, <2>1, <4>2 DEF Resume
        <4>4. /\ Len(pending) \in Nat \ {0} /\ Len(pending') = Len(pending) - 1
              /\ \A m \in 1 .. Len(pending') : pending'[m] = pending[m]
          BY <1>2, <4>2, ResumePops
        <4>5. n = Len(pending) \/ n \in 1 .. Len(pending')
          BY <4>4
        <4> QED
          BY <4>1, <4>3, <4>4, <4>5 DEF Accounted
      <3> QED
        BY <2>1, <2>3, <3>1, <3>2 DEF Accounted
    <2> QED
      BY <2>2, <2>3 DEF SidesAccounted
  <1>3. CASE SliceEnds
    <2>1. /\ UNCHANGED <<covered, pending>> /\ ~truncated /\ rip \notin Code
      BY <1>3 DEF SliceEnds, EndSlice, branchVars
    <2>2. SidesAccounted(b)
      BY <2>1 DEF SidesInv
    <2>3. ASSUME NEW addr \in Image, Accounted(addr) PROVE Accounted(addr)'
      BY <2>1, <2>3, Program DEF Accounted
    <2> QED
      BY <2>2, <2>3 DEF SidesAccounted, is_inside_image
  <1>4. CASE StartSlice \/ RequestStop \/ ForeignInstruction \/ UNCHANGED vars
    <2>1. /\ UNCHANGED <<covered, pending, rip, truncated>>
          /\ phase \in {"top", "emulating"} => phase' \in {"top", "emulating"}
      BY <1>4 DEF StartSlice, RequestStop, ForeignInstruction, vars, branchVars
    <2>2. SidesAccounted(b)
      BY <2>1 DEF SidesInv
    <2>3. ASSUME NEW addr, Accounted(addr) PROVE Accounted(addr)'
      BY <2>1, <2>3 DEF Accounted
    <2> QED
      BY <2>2, <2>3 DEF SidesAccounted
  <1>5. CASE GiveUp
    BY <1>5 DEF GiveUp
  <1> QED
    BY <1>1, <1>2, <1>3, <1>4, <1>5, NextCases

-----------------------------------------------------------------------------
(* The instruction budget *)

\* What is charged after a slice is what the counter moved, and the budget stops at zero.
LEMMA ChargeKeeps ==
    ASSUME TypeOK, BudgetInv, limit_instr, Resume
    PROVE  /\ executed + instructions_left' <= cfg.max_instr
           /\ ~cfg.pooled => instructions_left' = cfg.max_instr - executed
  <1>1. /\ phase = "slice_over"
        /\ instructions_left' = IF instructions_executed - instr_before >= instructions_left THEN 0
                                ELSE instructions_left - (instructions_executed - instr_before)
    BY DEF Resume, Charge
  <1>2. /\ executed \in Nat /\ slice_left \in Nat /\ instructions_left \in Nat
        /\ instr_before \in Nat /\ instructions_executed \in Nat /\ cfg.max_instr \in Nat
    BY Arguments DEF TypeOK
  <1>3. /\ executed + slice_left <= cfg.max_instr
        /\ executed + instructions_left + instr_before <= cfg.max_instr + instructions_executed
        /\ ~cfg.pooled => /\ instructions_executed = executed
                          /\ instructions_left = cfg.max_instr - instr_before
    BY <1>1 DEF BudgetInv
  <1> QED
    BY <1>1, <1>2, <1>3

\* The budget through slices and the other workers' instructions.
LEMMA NextBudget ==
    ASSUME TypeOK, BudgetInv, [Next]_vars PROVE BudgetInv'
  <1>1. cfg' = cfg
    BY ArgumentsStay
  <1> SUFFICES ASSUME limit_instr PROVE BudgetInv'
    BY <1>1 DEF BudgetInv, limit_instr
  <1>2. /\ executed \in Nat /\ slice_left \in Nat /\ instructions_left \in Nat
        /\ instr_before \in Nat /\ instructions_executed \in Nat /\ cfg.max_instr \in Nat
    BY Arguments DEF TypeOK
  <1>3. CASE \E a \in Code : Instruction(a)
    <2>1. /\ phase = "emulating" /\ phase' = "emulating"
          /\ UNCHANGED budgetVars
          /\ slice_left' = slice_left - 1
          /\ \/ UNCHANGED <<instructions_executed, executed>>
             \/ /\ instructions_executed' = instructions_executed + 1
                /\ executed' = executed + 1
      BY <1>3, InstructionShape
    <2>2. /\ executed + slice_left <= cfg.max_instr
          /\ executed + instructions_left + instr_before <= cfg.max_instr + instructions_executed
          /\ ~cfg.pooled => /\ instructions_executed = executed
                            /\ instructions_left = cfg.max_instr - instr_before
      BY <2>1 DEF BudgetInv
    <2>3. /\ executed' + slice_left' <= cfg.max_instr
          /\ executed' + instructions_left + instr_before
                 <= cfg.max_instr + instructions_executed'
          /\ ~cfg.pooled => instructions_executed' = executed'
      BY <1>2, <2>1, <2>2
    <2> QED
      BY <1>1, <2>1, <2>2, <2>3 DEF BudgetInv, budgetVars
  <1>4. CASE StartSlice
    <2>1. /\ phase = "top" /\ phase' = "emulating"
          /\ instr_before' = instructions_executed /\ slice_left' = instructions_left
          /\ UNCHANGED <<instructions_executed, instructions_left, executed>>
      BY <1>4 DEF StartSlice
    <2>2. /\ executed + instructions_left <= cfg.max_instr
          /\ ~cfg.pooled => /\ instructions_executed = executed
                            /\ instructions_left = cfg.max_instr - executed
      BY <2>1 DEF BudgetInv
    <2>3. executed + instructions_left + instructions_executed
              <= cfg.max_instr + instructions_executed
      BY <1>2, <2>2
    <2> QED
      BY <1>1, <2>1, <2>2, <2>3 DEF BudgetInv
  <1>5. CASE Resume
    <2>1. /\ phase = "slice_over" /\ phase' \in {"top", "done"}
          /\ UNCHANGED <<instructions_executed, executed>>
      BY <1>5 DEF Resume
    <2>2. ~cfg.pooled => instructions_executed = executed
      BY DEF BudgetInv
    <2> QED
      BY <1>1, <1>5, <2>1, <2>2, ChargeKeeps DEF BudgetInv
  <1>6. CASE ForeignInstruction
    <2>1. /\ cfg.pooled /\ instructions_executed' = instructions_executed + 1
          /\ UNCHANGED <<phase, executed, slice_left, instructions_left, instr_before>>
      BY <1>6 DEF ForeignInstruction, budgetVars
    <2>2. executed + instructions_left + instr_before <= cfg.max_instr + instructions_executed
             => executed + instructions_left + instr_before
                    <= cfg.max_instr + instructions_executed'
      BY <1>2, <2>1
    <2> QED
      BY <1>1, <2>1, <2>2 DEF BudgetInv
  <1>7. CASE GiveUp \/ SliceEnds \/ RequestStop \/ UNCHANGED vars
    <2>1. /\ UNCHANGED <<instructions_executed, executed, slice_left, instructions_left, instr_before>>
          /\ \/ phase' = phase
             \/ phase = "top" /\ phase' = "done"
             \/ phase = "emulating" /\ phase' = "slice_over"
      BY <1>7 DEF GiveUp, SliceEnds, EndSlice, RequestStop, vars, budgetVars
    <2> QED
      BY <1>1, <2>1 DEF BudgetInv
  <1> QED
    BY <1>3, <1>4, <1>5, <1>6, <1>7, NextCases

-----------------------------------------------------------------------------
(* Loops *)

\* No page becomes clean during a run, so the allowance of a loop only grows.
LEMMA AllowanceGrows ==
    ASSUME TypeOK, NEW a \in BackBranches, cfg' = cfg, dirty \subseteq dirty'
    PROVE  /\ allowance(a) \in Nat /\ allowance(a)' \in Nat
           /\ allowance(a) <= allowance(a)'
           /\ dirty' = dirty => allowance(a)' = allowance(a)
  <1> DEFINE large(d) == tracking /\ d # {} /\ dirty_allowance > cfg.max_loops
             base(d) == IF large(d) THEN dirty_allowance ELSE cfg.max_loops
             bonus == (a - raw[a].addr) \div 4
             capped(b) == IF bonus > MaxU64 - b THEN MaxU64 ELSE b + bonus
  <1>1. /\ allowance(a) = capped(base(dirty))
        /\ allowance(a)' = capped(base(dirty'))
    BY DEF allowance, tracking
  <1>2. /\ cfg.max_loops \in Nat /\ MaxU64 \in Nat /\ dirty_allowance \in Nat
        /\ bonus \in Nat
    <2>1. a \in Nat /\ raw[a].addr \in Nat /\ raw[a].addr <= a
      BY Program DEF BackBranches, is_backward
    <2> QED
      BY <2>1, Arguments
  <1> HIDE DEF bonus
  <1>3. base(dirty) \in Nat /\ base(dirty') \in Nat /\ base(dirty) <= base(dirty')
    BY <1>2
  <1> HIDE DEF base
  <1>4. \A b, c \in Nat : b <= c => capped(b) \in Nat /\ capped(b) <= capped(c)
    BY <1>2
  <1> HIDE DEF capped
  <1>5. base(dirty') = base(dirty') /\ base(dirty') <= base(dirty')
    BY <1>3
  <1> QED
    BY <1>1, <1>3, <1>4, <1>5

\* A loop is taken in a row at most as often as its counter says, and less than allowed.
LEMMA NextLoops ==
    ASSUME TypeOK, LoopInv, [Next]_vars PROVE LoopInv'
  <1>1. cfg' = cfg
    BY ArgumentsStay
  <1> SUFFICES ASSUME cfg.max_loops # 0, NEW b \in BackBranches
               PROVE  /\ streak'[b] <= Hits(b)'
                      /\ tried'[b] = Hits(b)'
                      /\ streak'[b] > 0 => streak'[b] < allowance(b)'
    BY <1>1 DEF LoopInv
  <1>2. /\ streak[b] <= Hits(b) /\ (streak[b] > 0 => streak[b] < allowance(b))
        /\ streak \in [BackBranches -> Nat] /\ streak[b] \in Nat
        /\ Hits(b) \in Nat /\ tried[b] = Hits(b) /\ tried \in [BackBranches -> Nat]
    BY DEF LoopInv, TypeOK, Hits
  <1>3. ASSUME UNCHANGED loopVars, dirty \subseteq dirty'
        PROVE  /\ streak'[b] <= Hits(b)'
               /\ tried'[b] = Hits(b)'
               /\ streak'[b] > 0 => streak'[b] < allowance(b)'
    <2>1. Hits(b)' = Hits(b) /\ streak' = streak /\ tried' = tried
      BY <1>3 DEF Hits, loopVars
    <2>2. allowance(b) \in Nat /\ allowance(b)' \in Nat /\ allowance(b) <= allowance(b)'
      BY <1>1, <1>3, AllowanceGrows
    <2> QED
      BY <1>2, <1>3, <2>1, <2>2
  <1>4. CASE \E a \in Code : Instruction(a)
    <2>1. PICK a \in Code : Instruction(a)
      BY <1>4
    <2>2. CASE UNCHANGED loopVars
      BY <1>3, <2>1, <2>2, InstructionLoops
    <2>3. ASSUME dirty' = dirty
          PROVE  allowance(b)' = allowance(b) /\ allowance(b) \in Nat
      BY <1>1, <2>3, AllowanceGrows
    <2>4. CASE LoopCut(a) /\ dirty' = dirty
      <3>1. /\ loop_iterations' = Restricted(loop_iterations, DOMAIN loop_iterations \ {a})
            /\ streak' = [streak EXCEPT ![a] = 0] /\ tried' = [tried EXCEPT ![a] = 0]
            /\ a \in BackBranches
        BY <2>4 DEF LoopCut
      <3>2. CASE b = a
        <4>1. streak'[b] = 0 /\ Hits(b)' = 0 /\ tried'[b] = 0
          BY <1>2, <3>1, <3>2 DEF Restricted, Hits
        <4> QED
          BY <4>1
      <3>3. CASE b # a
        <4>1. streak'[b] = streak[b] /\ Hits(b)' = Hits(b) /\ tried'[b] = tried[b]
          BY <1>2, <3>1, <3>3 DEF Restricted, Hits
        <4> QED
          BY <1>2, <2>3, <2>4, <4>1
      <3> QED
        BY <3>2, <3>3
    <2>5. CASE LoopContinues(a) /\ dirty' = dirty
      <3>1. PICK next \in {raw[a].addr, fallthrough(a)} :
                streak' = [streak EXCEPT ![a] =
                              IF next = raw[a].addr /\ cfg.max_loops # 0 THEN @ + 1 ELSE 0]
        BY <2>5 DEF LoopContinues
      <3>2. /\ loop_iterations' = [x \in DOMAIN loop_iterations \cup {a} |->
                                      IF x = a THEN Hits(a) + 1 ELSE loop_iterations[x]]
            /\ tried' = [tried EXCEPT ![a] = @ + 1]
            /\ a \in BackBranches /\ ~(Hits(a) + 1 >= allowance(a))
        BY <2>5 DEF LoopContinues, IsCut
      <3>3. CASE b = a
        <4>1. Hits(b)' = Hits(b) + 1 /\ tried'[b] = Hits(b) + 1
          BY <1>2, <3>2, <3>3 DEF Hits
        <4>2. streak'[b] \in {0, streak[b] + 1}
          BY <1>2, <3>1, <3>3
        <4> QED
          BY <1>2, <2>3, <2>5, <3>2, <3>3, <4>1, <4>2
      <3>4. CASE b # a
        <4>1. streak'[b] = streak[b] /\ Hits(b)' = Hits(b) /\ tried'[b] = tried[b]
          BY <1>2, <3>1, <3>2, <3>4 DEF Hits
        <4> QED
          BY <1>2, <2>3, <2>5, <4>1
      <3> QED
        BY <3>3, <3>4
    <2> QED
      BY <2>1, <2>2, <2>4, <2>5, InstructionLoops
  <1>5. CASE StartSlice
    <2>1. streak'[b] = 0 /\ loop_iterations' = loop_iterations /\ tried' = tried
      BY <1>5 DEF StartSlice
    <2>2. Hits(b)' = Hits(b)
      BY <2>1 DEF Hits
    <2> QED
      BY <1>2, <2>1, <2>2
  <1>6. CASE GiveUp \/ SliceEnds \/ Resume \/ RequestStop \/ ForeignInstruction \/ UNCHANGED vars
    <2>1. UNCHANGED loopVars /\ dirty' = dirty
      BY <1>6 DEF GiveUp, SliceEnds, EndSlice, Resume, RequestStop, ForeignInstruction, vars,
                  memoryVars, loopVars
    <2> QED
      BY <1>3, <2>1
  <1> QED
    BY <1>4, <1>5, <1>6, NextCases

-----------------------------------------------------------------------------
(* The theorems *)

\* A run ends either with nothing pending or cut short.
LEMMA NextDone ==
    ASSUME TypeOK, DoneInv, [Next]_vars PROVE DoneInv'
  <1>1. CASE \E a \in Code : Instruction(a)
    <2>1. phase' = "emulating"
      BY <1>1, InstructionShape
    <2> QED
      BY <2>1 DEF DoneInv
  <1>2. CASE Resume
    BY <1>2 DEF Resume, DoneInv
  <1>3. CASE StartSlice \/ SliceEnds \/ GiveUp
    BY <1>3 DEF StartSlice, SliceEnds, EndSlice, GiveUp, DoneInv
  <1>4. CASE RequestStop \/ ForeignInstruction \/ UNCHANGED vars
    BY <1>4 DEF RequestStop, ForeignInstruction, vars, branchVars, DoneInv
  <1> QED
    BY <1>1, <1>2, <1>3, <1>4, NextCases

\* Before its first instruction a run has seen nothing.
LEMMA InitIInv == Init => IInv
  <1> SUFFICES ASSUME Init PROVE IInv
    OBVIOUS
  <1>1. TypeOK
    BY InitTypes
  <1>2. ScheduleInv
    BY FS_EmptySet DEF Init, ScheduleInv, PendingScheduledOnce
  <1>3. SidesInv /\ DoneInv
    BY DEF Init, SidesInv, DoneInv
  <1>4. BudgetInv
    <2>1. cfg.max_instr \in Nat
      BY <1>1, Arguments
    <2> QED
      BY <2>1 DEF Init, BudgetInv
  <1>5. LoopInv
    BY DEF Init, LoopInv, Hits
  <1> QED
    BY <1>1, <1>2, <1>3, <1>4, <1>5 DEF IInv

\* The invariant holds in every reachable state.
THEOREM RunInductive == Spec => []IInv
  <1>1. IInv /\ [Next]_vars => IInv'
    BY NextTypes, NextSchedule, NextSides, NextDone, NextBudget, NextLoops DEF IInv
  <1> QED
    BY <1>1, InitIInv, PTL DEF Spec

\* Types: in particular no counter of the run is ever negative or above its limit
\* (emulator.cpp:802-897).
THEOREM RunTypes == Spec => []TypeOK
  <1>1. IInv => TypeOK
    BY DEF IInv
  <1> QED
    BY <1>1, RunInductive, PTL

\* Pending branches are in the image and marked, and none is scheduled twice
\* (emulator.cpp:198-224).
THEOREM BranchesScheduledOnce == Spec => []PendingScheduledOnce
  <1>1. IInv => PendingScheduledOnce
    BY DEF IInv, ScheduleInv
  <1> QED
    BY <1>1, RunInductive, PTL

\* A run that nothing cut short has executed both sides of every branch it met: hook_code
\* schedules the side it does not force (emulator.cpp:489-549).
THEOREM BothSidesExplored == Spec => []BranchSidesCovered
  <1>1. IInv => BranchSidesCovered
    <2> SUFFICES ASSUME IInv, phase = "done", ~truncated,
                        NEW a \in covered \cap decoded, raw[a].itype = "jcc"
                 PROVE  /\ is_inside_image(fallthrough(a)) => fallthrough(a) \in covered
                        /\ ~is_backward(a) /\ is_inside_image(raw[a].addr)
                               => raw[a].addr \in covered
      BY DEF BranchSidesCovered
    <2>1. SidesAccounted(a) /\ pending = <<>>
      BY DEF IInv, SidesInv, DoneInv
    <2>2. \A addr : Accounted(addr) => addr \in covered
      BY <2>1 DEF Accounted
    <2> QED
      BY <2>1, <2>2 DEF SidesAccounted
  <1> QED
    BY <1>1, RunInductive, PTL

\* The instruction budget holds, whatever the other workers add to the shared counter
\* (emulator.cpp:866).
THEOREM BudgetHolds == Spec => []BudgetKept
  <1>1. IInv => BudgetKept
    <2> SUFFICES ASSUME IInv, limit_instr
                 PROVE  /\ executed <= cfg.max_instr
                        /\ phase \in {"top", "done"} /\ ~cfg.pooled =>
                               instructions_left = cfg.max_instr - executed
      BY DEF BudgetKept
    <2>1. /\ executed \in Nat /\ slice_left \in Nat /\ instructions_left \in Nat
          /\ cfg.max_instr \in Nat /\ phase \in Phases
      BY Arguments DEF IInv, TypeOK
    <2>2. executed + slice_left <= cfg.max_instr \/ executed + instructions_left <= cfg.max_instr
      BY <2>1 DEF IInv, BudgetInv, Phases
    <2> QED
      BY <2>1, <2>2 DEF IInv, BudgetInv
  <1> QED
    BY <1>1, RunInductive, PTL

\* A loop is never taken as often in a row as its allowance, which changes while it runs
\* (emulator.cpp:522-524).
THEOREM LoopsStayBounded == Spec => []LoopsBounded
  <1>1. IInv => LoopsBounded
    BY DEF IInv, LoopInv, LoopsBounded
  <1> QED
    BY <1>1, RunInductive, PTL

\* What a loop is cut at is never less than its configured limit and a quarter of its
\* length, unless it is the largest number there is.
LEMMA AllowanceLeast ==
    ASSUME TypeOK, NEW a \in BackBranches
    PROVE  /\ allowance(a) \in Nat
           /\ \/ allowance(a) >= MaxU64
              \/ allowance(a) >= cfg.max_loops + (a - raw[a].addr) \div 4
  <1> DEFINE bonus == (a - raw[a].addr) \div 4
             base == IF tracking /\ dirty # {} /\ dirty_allowance > cfg.max_loops
                     THEN dirty_allowance ELSE cfg.max_loops
  <1>1. bonus \in Nat
    <2>1. a \in Nat /\ raw[a].addr \in Nat /\ raw[a].addr <= a
      BY Program DEF BackBranches, is_backward
    <2> QED
      BY <2>1
  <1>2. base \in Nat /\ cfg.max_loops <= base /\ cfg.max_loops \in Nat /\ MaxU64 \in Nat
    BY Arguments
  <1>3. allowance(a) = IF bonus > MaxU64 - base THEN MaxU64 ELSE base + bonus
    BY DEF allowance
  <1> HIDE DEF bonus, base
  <1>4. allowance(a) \in Nat /\ (allowance(a) >= MaxU64 \/ allowance(a) >= cfg.max_loops + bonus)
    BY <1>1, <1>2, <1>3
  <1> QED
    BY <1>4 DEF bonus

\* A loop is given up only after as many meetings as its configured limit and its length
\* allow, however many slices they are spread over (emulator.cpp:519-535).
THEOREM LoopsAreNotCutShort == Spec => LoopsGetTheirIterations
  <1> DEFINE InTime(a) ==
                 LoopCut(a) => \/ tried[a] + 1 >= MaxU64
                               \/ tried[a] + 1 >= cfg.max_loops + (a - raw[a].addr) \div 4
  <1>1. ASSUME IInv, NEW a \in BackBranches PROVE InTime(a)
    <2> SUFFICES ASSUME LoopCut(a) PROVE InTime(a)
      OBVIOUS
    <2>1. cfg.max_loops # 0 /\ Hits(a) + 1 >= allowance(a)
      BY DEF LoopCut, IsCut
    <2>2. tried[a] = Hits(a) /\ tried[a] \in Nat
      BY <1>1, <2>1 DEF IInv, LoopInv, TypeOK
    <2>3. /\ allowance(a) \in Nat
          /\ \/ allowance(a) >= MaxU64
             \/ allowance(a) >= cfg.max_loops + (a - raw[a].addr) \div 4
      BY <1>1, AllowanceLeast DEF IInv
    <2>4. (a - raw[a].addr) \div 4 \in Int /\ cfg.max_loops \in Nat /\ MaxU64 \in Nat
      <3>1. a \in Nat /\ raw[a].addr \in Nat
        BY Program DEF BackBranches
      <3> QED
        BY <1>1, <3>1, Arguments DEF IInv
    <2> QED
      BY <2>1, <2>2, <2>3, <2>4
  <1>2. IInv /\ [Next]_vars => [\A a \in BackBranches : InTime(a)]_vars
    BY <1>1
  <1> QED
    BY <1>2, RunInductive, PTL DEF Spec, LoopsGetTheirIterations
=============================================================================
