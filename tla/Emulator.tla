------------------------------ MODULE Emulator ------------------------------
(***************************************************************************)
(* emulator::run and the code hook of emulator.cpp: how one run explores a *)
(* function.  The run loop starts Unicorn at an entry address; hook_code   *)
(* sees every instruction before the engine executes it, schedules the     *)
(* side of a branch it does not take, forces the other, counts loop        *)
(* iterations, steps over what cannot be emulated, and replaces calls that *)
(* leave the image.  When the engine stops, the run loop charges its       *)
(* budgets and resumes the last branch scheduled.                          *)
(*                                                                         *)
(* A hook call and the instruction after it are one step: one thread does  *)
(* both, and the only state it shares with others, the stop flag and the   *)
(* instruction counter, is read at its start.  Registers and memory        *)
(* contents are abstracted: an instruction record says where the engine    *)
(* may continue after it and which page it writes.  The scans for strings  *)
(* change nothing a run is steered by; what they read, and when, is the    *)
(* matter of modules PageMemory and StringCollection.                      *)
(***************************************************************************)
EXTENDS Integers, Sequences, FiniteSets

CONSTANTS
    image_min, image_max,  \* addresses of the image: image_min .. image_max - 1
    raw,              \* address -> the instruction the engine executes there
    decodes,          \* address of the image -> size decode_insn finds there, 0 for none
    pointer,          \* address of a readable qword -> the address stored in it
    func_starts,      \* start_ea of the functions of the database
    imports,          \* import table slot -> name of the import
    stub_page,        \* name with a stub -> the page the stub writes
    StackPage,        \* page of the stack that calls push to
    NoPage,           \* nothing is written
    dirty_allowance,  \* 2000 in the code: iterations of loops while pages are dirty
    MaxU64,           \* numeric_limits<uint64_t>::max()
    Configs,          \* the arguments and conditions a run may be started with
    MaxForeign        \* bound: instructions other workers execute meanwhile

Image == image_min .. (image_max - 1)

\* Where the engine can execute: the image, and code unpacked onto other pages.
Code == DOMAIN raw

\* The sweep of capture_instruction_snapshot: from one instruction to the one after it, and
\* byte by byte where there is none.
capture_instruction_snapshot ==
    LET step(ea) == IF decodes[ea] = 0 THEN 1 ELSE decodes[ea]
        reached[ea \in Image] ==
            \/ ea = image_min
            \/ \E before \in image_min .. (ea - 1) : before + step(before) = ea /\ reached[before]
    IN {ea \in Image : decodes[ea] # 0 /\ reached[ea]}

\* The addresses in instruction_snapshot_.decoded.
decoded == capture_instruction_snapshot

Itypes == {"other", "skip", "vec", "flag", "jcc", "jmp", "call", "ret"}

\* "near" operands name their target; "mem" and "displ" operands the qword that holds
\* it, the address of a "displ" one being made of registers; nothing is known of the
\* target of any other operand.
Operands == {"near", "mem", "displ", "unknown"}
InMemory == {"mem", "displ"}

Pages == {NoPage} \cup Nat

ASSUME ProgramAssumption ==
    /\ image_min \in Nat /\ image_max \in Nat
    /\ Code \subseteq Nat /\ Image \subseteq Code
    /\ decodes \in [Image -> Nat] /\ \A a \in decoded : decodes[a] = raw[a].size
    /\ \A a \in Code :
           /\ raw[a].itype \in Itypes
           /\ raw[a].size \in Nat \ {0}
           /\ raw[a].op \in Operands
           /\ raw[a].addr \in Nat
           /\ raw[a].succ \in SUBSET Nat
           /\ raw[a].wr \in Pages
    /\ \A p \in DOMAIN pointer : pointer[p] \in Nat
    /\ \A name \in DOMAIN stub_page : stub_page[name] \in Pages
    /\ StackPage \in Nat /\ NoPage \notin Nat

ASSUME LimitAssumption ==
    /\ dirty_allowance \in Nat
    /\ MaxU64 \in Nat
    /\ MaxForeign \in Nat
    /\ \A c \in Configs :
           /\ c.start \in Nat
           /\ c.max_instr \in Nat
           /\ c.max_time_ms \in 0 .. MaxU64
           /\ c.max_loops \in 0 .. MaxU64
           /\ c.enable_write_tracking \in BOOLEAN
           /\ c.enable_heap_stubs \in BOOLEAN
           /\ c.scan_register_strings \in BOOLEAN
           /\ c.pooled \in BOOLEAN
           /\ c.snapshots_fail \in BOOLEAN

VARIABLES
    cfg,                    \* the arguments of this run, and whether others run beside it
    phase,                  \* "top", "emulating", "slice_over" or "done"
    rip,                    \* entry, then the engine's RIP
    pending,                \* branches_.pending_: entry addresses, newest last
    visited,                \* branches_.visited_: <<from, target>>
    loop_iterations,        \* backward branch -> hits
    dirty,                  \* write_tracker_.dirty_pages_
    stop_requested,         \* the flag the pool shares with this run
    instructions_executed,  \* counters::instructions_executed, shared by all workers
    instr_before,           \* its value when the slice began
    instructions_left,      \* what is left of max_instr
    slice_left,             \* what the engine's own instruction count leaves
    time_left,              \* remaining_time_us > 0
    \* history, read by the properties only
    executed,   \* decoded instructions this run executed
    covered,    \* addresses this run executed
    truncated,  \* a limit, the stop flag or a failed snapshot cut exploration short
    modified,   \* pages this run wrote to
    scheduled,  \* <<from, target>> -> how often it was saved for later
    resumed,    \* how many saved branches were taken up again
    streak,     \* backward branch -> how often it was taken since its loop was entered
    tried,      \* backward branch -> how often it was met since its loop was last given up
    quiet       \* backward branch -> nothing was written since then

branchVars == <<pending, visited, scheduled, resumed>>
loopVars == <<loop_iterations, streak, tried>>
budgetVars == <<instr_before, instructions_left, time_left>>
memoryVars == <<dirty, modified, quiet>>
vars == <<cfg, phase, rip, pending, visited, loop_iterations, dirty, stop_requested,
          instructions_executed, instr_before, instructions_left, slice_left, time_left,
          executed, covered, truncated, modified, scheduled, resumed, streak, tried, quiet>>

limit_instr == cfg.max_instr # 0
limit_time == cfg.max_time_ms # 0
tracking == cfg.enable_write_tracking

-----------------------------------------------------------------------------
(* Classification *)

is_inside_image(addr) == addr \in Image

\* resolve_operand_target: whether the target of a jump or call is known, and what
\* it is.
resolves(i) == i.op = "near" \/ (i.op \in InMemory /\ i.addr \in DOMAIN pointer)
target(i) == IF i.op \in InMemory THEN pointer[i.addr] ELSE i.addr

\* A function that only jumps out of the image.
is_external_thunk(addr) ==
    /\ addr \in decoded
    /\ raw[addr].itype = "jmp"
    /\ resolves(raw[addr])
    /\ ~is_inside_image(target(raw[addr]))

is_external_call(i) ==
    /\ i.itype = "call"
    /\ resolves(i)
    /\ ~is_inside_image(target(i)) \/ is_external_thunk(target(i))

\* A conditional branch whose target is not after it.
is_backward(a) == raw[a].itype = "jcc" /\ raw[a].addr <= a
BackBranches == {a \in decoded : is_backward(a)}

fallthrough(a) == a + raw[a].size

\* Functions that start with a jump through an import slot.
thunks ==
    {f \in func_starts :
        f \in Code /\ raw[f].itype = "jmp" /\ raw[f].op = "mem" /\ raw[f].addr \in DOMAIN imports}

\* The names of the import slots and of the thunks; a slot wins over a thunk.
build_import_map ==
    [k \in DOMAIN imports \cup thunks |->
        IF k \in DOMAIN imports THEN imports[k] ELSE imports[raw[k].addr]]

\* try_dispatch finds a stub for the import called at addr.
dispatches(addr) ==
    addr \in DOMAIN build_import_map /\ build_import_map[addr] \in DOMAIN stub_page

\* Where the engine continues after executing an instruction other than a branch.
successors(i) ==
    IF i.itype \in {"jmp", "call"} /\ resolves(i) THEN {target(i)} ELSE i.succ

-----------------------------------------------------------------------------
(* branch_manager and schedule_branch *)

\* One more branch is saved.
Saved(key) ==
    scheduled' = [k \in DOMAIN scheduled \cup {key} |->
                     IF k \notin DOMAIN scheduled THEN 1
                     ELSE IF k = key THEN scheduled[k] + 1 ELSE scheduled[k]]

\* A branch that was saved is not marked.
Mut_ScheduleNotMarked(from, to, fails) ==
    LET key == <<from, to>>
        keep == is_inside_image(to) /\ key \notin visited /\ ~fails
    IN /\ visited' = IF keep THEN visited ELSE visited \cup {key}
       /\ pending' = IF keep THEN Append(pending, to) ELSE pending
       /\ IF keep THEN Saved(key) ELSE UNCHANGED scheduled
       /\ UNCHANGED resumed
       /\ truncated' = (truncated \/ (fails /\ is_inside_image(to) /\ key \notin visited))

\* A branch is marked visited the first time it is seen, whether or not it could
\* be saved; only a saved one is resumed later.
schedule_branch(from, to, fails) ==
    LET key == <<from, to>>
        new == key \notin visited
        keep == new /\ is_inside_image(to) /\ ~fails
    IN /\ visited' = visited \cup {key}
       /\ pending' = IF keep THEN Append(pending, to) ELSE pending
       /\ IF keep THEN Saved(key) ELSE UNCHANGED scheduled
       /\ UNCHANGED resumed
       /\ truncated' = (truncated \/ (new /\ is_inside_image(to) /\ fails))

\* uc_context_alloc, _save and _restore may fail: the engine is out of memory.
Fails == IF cfg.snapshots_fail THEN BOOLEAN ELSE {FALSE}

-----------------------------------------------------------------------------
(* Write tracking *)

Note(page) ==
    quiet' = [a \in BackBranches |-> (streak'[a] = 0) \/ (quiet[a] /\ page = NoPage)]

\* A write by the engine: UC_HOOK_MEM_WRITE fires and marks the page dirty.
EngineWrite(page) ==
    LET pages == {page} \ {NoPage}
    IN /\ dirty' = IF tracking THEN dirty \cup pages ELSE dirty
       /\ modified' = modified \cup pages
       /\ Note(page)

\* A write by the plugin itself, with uc_mem_write: no hook fires.
DirectWrite(page) ==
    /\ dirty' = dirty
    /\ modified' = modified \cup ({page} \ {NoPage})
    /\ Note(page)

-----------------------------------------------------------------------------
(* hook_code followed by the instruction *)

\* Statistics are kept only where a limit reads them.
CountInstruction ==
    IF limit_instr
    THEN /\ instructions_executed' = instructions_executed + 1
         /\ executed' = executed + 1
    ELSE UNCHANGED <<instructions_executed, executed>>

EngineCounts == slice_left' = IF limit_instr THEN slice_left - 1 ELSE slice_left

CanExecute(a) ==
    /\ phase = "emulating"
    /\ rip = a
    /\ ~stop_requested
    /\ limit_instr => slice_left > 0

\* Common to every instruction the hook decodes.
Hooked(a) ==
    /\ CanExecute(a)
    /\ a \in decoded
    /\ CountInstruction
    /\ EngineCounts
    /\ covered' = covered \cup {a}
    /\ UNCHANGED <<cfg, phase, stop_requested, budgetVars>>

\* Not in the snapshot: the hook returns at once and the engine executes it.
Undecoded(a) ==
    /\ CanExecute(a)
    /\ a \in Code \ decoded
    /\ EngineCounts
    /\ covered' = covered \cup {a}
    /\ \E next \in raw[a].succ : rip' = next
    /\ UNCHANGED <<cfg, phase, stop_requested, budgetVars, branchVars, truncated,
                   loopVars, instructions_executed, executed>>
    /\ EngineWrite(raw[a].wr)

\* Privileged and trapping instructions are stepped over.
Skip(a) ==
    /\ Hooked(a)
    /\ raw[a].itype = "skip"
    /\ rip' = fallthrough(a)
    /\ UNCHANGED <<branchVars, truncated, loopVars, memoryVars>>

\* Vector instructions are emulated by handler::handle.
Handle(a) ==
    /\ Hooked(a)
    /\ raw[a].itype = "vec"
    /\ rip' = fallthrough(a)
    /\ UNCHANGED <<branchVars, truncated, loopVars>>
    /\ DirectWrite(raw[a].wr)

\* handle_call: the call is replaced by its stub, or by "return 0".
ExternalCall(a) ==
    LET i == raw[a]
        stubbed == cfg.enable_heap_stubs /\ dispatches(target(i))
        page == IF stubbed THEN stub_page[build_import_map[target(i)]] ELSE NoPage
    IN /\ Hooked(a)
       /\ is_external_call(i)
       /\ rip' = fallthrough(a)
       /\ UNCHANGED <<branchVars, truncated, loopVars>>
       /\ DirectWrite(page)

\* Everything the engine executes itself; indirect jumps and calls also schedule
\* the target they read from memory.
Execute(a) ==
    LET i == raw[a]
    IN /\ Hooked(a)
       /\ i.itype \in {"other", "flag", "jmp", "call", "ret"}
       /\ ~is_external_call(i)
       /\ IF i.itype \in {"jmp", "call"} /\ i.op \in InMemory /\ resolves(i)
          THEN \E fails \in Fails : schedule_branch(a, target(i), fails)
          ELSE UNCHANGED <<branchVars, truncated>>
       /\ \E next \in successors(i) : rip' = next
       /\ UNCHANGED loopVars
       /\ EngineWrite(IF i.itype = "call" THEN StackPage ELSE i.wr)

\* Only the fall-through of a branch is scheduled; without force_branch the engine
\* may take it at once.
Mut_ForwardNotForced(a) ==
    /\ Hooked(a)
    /\ raw[a].itype = "jcc" /\ ~is_backward(a)
    /\ \E fails \in Fails : schedule_branch(a, fallthrough(a), fails)
    /\ \E next \in {raw[a].addr, fallthrough(a)} : rip' = next
    /\ UNCHANGED loopVars
    /\ EngineWrite(NoPage)

\* A forward branch: the fall-through is for later, and force_branch sets the flags
\* (module ForceBranch) so that the branch is taken now.
ForwardBranch(a) ==
    /\ Hooked(a)
    /\ raw[a].itype = "jcc" /\ ~is_backward(a)
    /\ \E fails \in Fails : schedule_branch(a, fallthrough(a), fails)
    /\ rip' = raw[a].addr
    /\ UNCHANGED loopVars
    /\ EngineWrite(NoPage)

Restricted(f, S) == [x \in S |-> f[x]]
Hits(a) == IF a \in DOMAIN loop_iterations THEN loop_iterations[a] ELSE 0

\* The sum wraps like any other.
Mut_AllowanceWraps(a) ==
    LET base == IF tracking /\ dirty # {} /\ dirty_allowance > cfg.max_loops
                THEN dirty_allowance
                ELSE cfg.max_loops
    IN (base + (a - raw[a].addr) \div 4) % (MaxU64 + 1)

\* How many times a backward branch may be hit before it is no longer taken.
allowance(a) ==
    LET base == IF tracking /\ dirty # {} /\ dirty_allowance > cfg.max_loops
                THEN dirty_allowance
                ELSE cfg.max_loops
        bonus == (a - raw[a].addr) \div 4
    IN IF bonus > MaxU64 - base THEN MaxU64 ELSE base + bonus

IsCut(a) == cfg.max_loops # 0 /\ Hits(a) + 1 >= allowance(a)

\* The loop has used its allowance: its counter is dropped and the engine is sent
\* past the branch.
LoopCut(a) ==
    /\ Hooked(a)
    /\ a \in BackBranches
    /\ IsCut(a)
    /\ \E fails \in Fails : schedule_branch(a, fallthrough(a), fails)
    /\ loop_iterations' = Restricted(loop_iterations, DOMAIN loop_iterations \ {a})
    /\ rip' = fallthrough(a)
    /\ streak' = [streak EXCEPT ![a] = 0]
    /\ tried' = [tried EXCEPT ![a] = 0]
    /\ EngineWrite(NoPage)

\* The hit is not counted.
Mut_LoopContinuesUncounted(a) ==
    /\ Hooked(a)
    /\ a \in BackBranches
    /\ ~IsCut(a)
    /\ \E fails \in Fails : schedule_branch(a, fallthrough(a), fails)
    /\ UNCHANGED loop_iterations
    /\ \E next \in {raw[a].addr, fallthrough(a)} :
           /\ rip' = next
           /\ streak' = [streak EXCEPT ![a] =
                            IF next = raw[a].addr /\ @ <= allowance(a) THEN @ + 1 ELSE 0]
    /\ UNCHANGED tried
    /\ EngineWrite(NoPage)

\* The branch goes where the flags send it; the fall-through is scheduled as well.
LoopContinues(a) ==
    /\ Hooked(a)
    /\ a \in BackBranches
    /\ ~IsCut(a)
    /\ \E fails \in Fails : schedule_branch(a, fallthrough(a), fails)
    /\ loop_iterations' =
           IF cfg.max_loops = 0
           THEN Restricted(loop_iterations, DOMAIN loop_iterations \ {a})
           ELSE [x \in DOMAIN loop_iterations \cup {a} |->
                    IF x = a THEN Hits(a) + 1 ELSE loop_iterations[x]]
    /\ \E next \in {raw[a].addr, fallthrough(a)} :
           /\ rip' = next
           /\ streak' = [streak EXCEPT ![a] =
                            IF next = raw[a].addr /\ cfg.max_loops # 0 THEN @ + 1 ELSE 0]
    /\ tried' = [tried EXCEPT ![a] = IF cfg.max_loops # 0 THEN @ + 1 ELSE 0]
    /\ EngineWrite(NoPage)

-----------------------------------------------------------------------------
(* uc_emu_start returns *)

EndSlice(cutShort, expired) ==
    /\ phase = "emulating"
    /\ phase' = "slice_over"
    /\ truncated' = (truncated \/ cutShort)
    /\ time_left' = (time_left /\ ~expired)
    /\ UNCHANGED <<cfg, rip, branchVars, loopVars, stop_requested, memoryVars,
                   instructions_executed, instr_before, instructions_left, slice_left,
                   executed, covered>>

\* The last function returned to address 0, or control left the mapped code.
EngineLeaves == rip \notin Code /\ EndSlice(FALSE, FALSE)

Mut_StopNotSeen == FALSE /\ UNCHANGED vars

\* The hook sees the stop flag and calls uc_emu_stop.
StopSeen == rip \in Code /\ stop_requested /\ EndSlice(TRUE, FALSE)

CountReached == limit_instr /\ slice_left = 0 /\ EndSlice(TRUE, FALSE)

\* The engine's timer, started with the time that is left.
TimerExpires == limit_time /\ EndSlice(TRUE, TRUE)

-----------------------------------------------------------------------------
(* The run loop *)

StartSlice ==
    /\ phase = "top"
    /\ ~stop_requested
    /\ limit_time => time_left
    /\ limit_instr => instructions_left > 0
    /\ phase' = "emulating"
    /\ instr_before' = instructions_executed
    /\ slice_left' = instructions_left
    /\ streak' = [a \in BackBranches |-> 0]
    /\ quiet' = [a \in BackBranches |-> TRUE]
    /\ UNCHANGED <<cfg, rip, branchVars, loop_iterations, tried, stop_requested, dirty, modified,
                   instructions_executed, instructions_left, time_left, executed, covered,
                   truncated>>

GiveUp ==
    /\ phase = "top"
    /\ \/ stop_requested
       \/ limit_time /\ ~time_left
       \/ limit_instr /\ instructions_left = 0
    /\ phase' = "done"
    /\ truncated' = TRUE
    /\ UNCHANGED <<cfg, rip, branchVars, loopVars, stop_requested, memoryVars,
                   instructions_executed, budgetVars, slice_left, executed, covered>>

\* Without the clamp at 0.
Mut_ChargeUnclamped ==
    instructions_left' =
        IF limit_instr THEN instructions_left - (instructions_executed - instr_before)
        ELSE instructions_left

Mut_ChargeNothing == instructions_left' = instructions_left

\* instructions_left after a slice: the difference of the shared counter is charged.
Charge ==
    LET delta == instructions_executed - instr_before
    IN instructions_left' = IF ~limit_instr THEN instructions_left
                            ELSE IF delta >= instructions_left THEN 0
                            ELSE instructions_left - delta

\* After the engine stopped: charge the budgets, take the newest branch.
Resume ==
    /\ phase = "slice_over"
    /\ Charge
    /\ time_left' \in {time_left, time_left /\ ~limit_time}
    /\ \/ /\ pending = <<>>
          /\ phase' = "done"
          /\ UNCHANGED <<rip, pending, resumed, truncated>>
       \/ /\ pending # <<>>
          /\ pending' = SubSeq(pending, 1, Len(pending) - 1)
          /\ resumed' = resumed + 1
          /\ \/ /\ phase' = "top"
                /\ rip' = pending[Len(pending)]
                /\ UNCHANGED truncated
             \/ /\ cfg.snapshots_fail
                /\ phase' = "done"
                /\ truncated' = TRUE
                /\ UNCHANGED rip
    /\ UNCHANGED <<cfg, visited, scheduled, loopVars, stop_requested, memoryVars,
                   instructions_executed, instr_before, slice_left, executed, covered>>

-----------------------------------------------------------------------------
(* The other threads of the pool *)

RequestStop ==
    /\ cfg.pooled
    /\ ~stop_requested
    /\ stop_requested' = TRUE
    /\ UNCHANGED <<cfg, phase, rip, branchVars, loopVars, memoryVars,
                   instructions_executed, budgetVars, slice_left, executed, covered,
                   truncated>>

ForeignInstruction ==
    /\ cfg.pooled
    /\ limit_instr
    /\ phase # "done"
    /\ instructions_executed - executed < MaxForeign
    /\ instructions_executed' = instructions_executed + 1
    /\ UNCHANGED <<cfg, phase, rip, branchVars, loopVars, memoryVars, stop_requested,
                   budgetVars, slice_left, executed, covered, truncated>>

-----------------------------------------------------------------------------

\* The state run() sets up before its loop.
Init ==
    /\ cfg \in Configs
    /\ phase = "top"
    /\ rip = cfg.start
    /\ pending = <<>>
    /\ visited = {}
    /\ loop_iterations = [a \in {} |-> 0]
    /\ dirty = {}
    /\ stop_requested = FALSE
    /\ instructions_executed = 0
    /\ instr_before = 0
    /\ instructions_left = cfg.max_instr
    /\ slice_left = 0
    /\ time_left = ((cfg.max_time_ms * 1000) % (MaxU64 + 1) # 0)
    /\ executed = 0
    /\ covered = {}
    /\ truncated = FALSE
    /\ modified = {}
    /\ scheduled = [key \in {} |-> 0]
    /\ resumed = 0
    /\ streak = [a \in BackBranches |-> 0]
    /\ tried = [a \in BackBranches |-> 0]
    /\ quiet = [a \in BackBranches |-> TRUE]

Instruction(a) ==
    \/ Undecoded(a)
    \/ Skip(a)
    \/ Handle(a)
    \/ ExternalCall(a)
    \/ Execute(a)
    \/ ForwardBranch(a)
    \/ LoopCut(a)
    \/ LoopContinues(a)

RunStep ==
    \/ StartSlice
    \/ GiveUp
    \/ \E a \in Code : Instruction(a)
    \/ EngineLeaves
    \/ StopSeen
    \/ CountReached
    \/ Resume

Done == phase = "done" /\ UNCHANGED vars

Next == RunStep \/ TimerExpires \/ RequestStop \/ ForeignInstruction \/ Done

Spec == Init /\ [][Next]_vars

\* The worker's thread keeps running and the engine's timer fires; nobody has to
\* press Cancel.
FairSpec == Spec /\ WF_vars(RunStep) /\ WF_vars(TimerExpires)

-----------------------------------------------------------------------------
(* Properties *)

Phases == {"top", "emulating", "slice_over", "done"}

TypeOK ==
    /\ cfg \in Configs
    /\ phase \in Phases
    /\ rip \in Nat
    /\ pending \in Seq(Nat)
    /\ visited \subseteq Image \X Nat
    /\ DOMAIN loop_iterations \subseteq BackBranches
    /\ \A a \in DOMAIN loop_iterations : loop_iterations[a] \in Nat
    /\ stop_requested \in BOOLEAN
    /\ instructions_executed \in Nat
    /\ instr_before \in 0 .. instructions_executed
    /\ instructions_left \in 0 .. cfg.max_instr
    /\ slice_left \in 0 .. cfg.max_instr
    /\ time_left \in BOOLEAN
    /\ executed \in 0 .. instructions_executed
    /\ covered \subseteq Code
    /\ truncated \in BOOLEAN
    /\ DOMAIN scheduled \subseteq visited
    /\ resumed \in Nat
    /\ streak \in [BackBranches -> Nat]
    /\ tried \in [BackBranches -> Nat]
    /\ quiet \in [BackBranches -> BOOLEAN]

\* No <<from, target>> pair is saved twice in a run, also not after its branch was
\* resumed and the code at from is executed again, and none gets lost: what was saved and
\* not resumed yet is pending, and leads into the image (emulator.cpp:198-224).
PendingScheduledOnce ==
    /\ \A key \in DOMAIN scheduled : scheduled[key] = 1
    /\ resumed + Len(pending) = Cardinality(DOMAIN scheduled)
    /\ \A n \in 1 .. Len(pending) :
           /\ is_inside_image(pending[n])
           /\ \E key \in DOMAIN scheduled : key[2] = pending[n]

\* A run that no limit, stop request or failed snapshot cut short has executed
\* both sides of every conditional branch it met: the fall-through it scheduled,
\* and the target of every forward branch it forced.
BranchSidesCovered ==
    phase = "done" /\ ~truncated =>
        \A a \in covered \cap decoded :
            raw[a].itype = "jcc" =>
                /\ is_inside_image(fallthrough(a)) => fallthrough(a) \in covered
                /\ ~is_backward(a) /\ is_inside_image(raw[a].addr) => raw[a].addr \in covered

\* The instruction budget holds across any number of slices and whatever other
\* workers add to the shared counter: a run never executes more decoded
\* instructions than max_instr, and outside the pool it is charged exactly with
\* what it executed (emulator.cpp:853-869).
BudgetKept ==
    limit_instr =>
        /\ executed <= cfg.max_instr
        /\ phase \in {"top", "done"} /\ ~cfg.pooled =>
               instructions_left = cfg.max_instr - executed

\* A backward branch is never taken as often in a row as its allowance, although
\* the allowance changes while the loop runs and the counter survives from one
\* slice to the next (emulator.cpp:502-541).
LoopsBounded ==
    cfg.max_loops # 0 => \A a \in BackBranches : streak[a] > 0 => streak[a] < allowance(a)

\* A loop is given up only after its branch was met as often as the configured limit and a
\* quarter of the loop's length, in whatever slices that was; no sum near the end of the
\* range makes the limit of a long loop a small one (emulator.cpp:530-533).
LoopsGetTheirIterations ==
    [][\A a \in BackBranches :
           LoopCut(a) => \/ tried[a] + 1 >= MaxU64
                         \/ tried[a] + 1 >= cfg.max_loops + (a - raw[a].addr) \div 4]_vars

\* In a program whose every cycle goes through a conditional backward branch, the
\* loop limit alone ends the run: counters are dropped and branches are resumed,
\* but never so that the exploration goes on for ever.
LoopLimitEndsRun == (cfg.max_loops # 0) ~> (phase = "done")

\* A run with a limit ends, and so does every run that is told to stop, also in code
\* that loops for ever or that the hook cannot decode.
LimitedRunsEnd ==
    (limit_instr \/ limit_time \/ stop_requested) ~> (phase = "done")

-----------------------------------------------------------------------------
(* What the repository says of the program, and the code does not do *)

\* "Max instructions (per function)", plugin.cpp:54: a run that used up its
\* budget has itself executed that many instructions.
BudgetIsPerFunction ==
    phase = "done" /\ limit_instr /\ instructions_left = 0 => executed >= cfg.max_instr

\* "track memory modifications", README.md:15: every page the run modified is a
\* dirty page.
ModificationsTracked == tracking => modified \subseteq dirty

\* "If the loop is writing to memory, we grant a much larger allowance",
\* emulator.cpp:523: a loop that writes nothing gets the configured one.
LargeAllowanceNeedsWrites ==
    cfg.max_loops # 0 =>
        \A a \in BackBranches :
            quiet[a] => streak[a] < cfg.max_loops + (a - raw[a].addr) \div 4

\* "Intercepts IAT calls and direct jumps (thunks)", README.md:12: with stubs
\* enabled, a call through the slot of an import that has a stub runs the stub.
IatCallsIntercepted ==
    [][\A a \in Code :
           /\ ExternalCall(a) /\ cfg.enable_heap_stubs
           /\ raw[a].op = "mem" /\ raw[a].addr \in DOMAIN imports
           /\ imports[raw[a].addr] \in DOMAIN stub_page
           => dispatches(target(raw[a]))]_vars
=============================================================================
