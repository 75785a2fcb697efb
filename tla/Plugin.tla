------------------------------- MODULE Plugin -------------------------------
(***************************************************************************)
(* plugin.cpp: the runs of the emulator that one answer to the dialog      *)
(* leads to.  A database says which processor it is for, from where to     *)
(* where its bytes go and how many of them can be read, where the cursor   *)
(* and the entry point are and which addresses belong to which function; a *)
(* form is what the user left in the dialog.                               *)
(***************************************************************************)
EXTENDS Integers

\* The order of the radio buttons.
emulation_scope ==
    [n \in 0 .. 3 |-> <<"current_function", "every_function", "current_cursor", "entry_point">>[n + 1]]

scan_scope == [n \in 0 .. 1 |-> <<"stack_only", "stack_and_registers">>[n + 1]]

\* Nothing when the dialog is cancelled.
get_user_config(form) ==
    IF ~form.ok THEN {}
    ELSE {[scope |-> emulation_scope[form.scope_val],
           max_time_ms |-> form.max_time,
           max_instructions |-> form.max_instr,
           max_loop_iterations |-> form.max_loops,
           scan |-> scan_scope[form.scan_val],
           enable_heap_stubs |-> form.features % 2 = 1,
           enable_write_tracking |-> (form.features \div 2) % 2 = 1]}

\* The functions that hold an address: at most one.
get_func(db, ea) == {f \in db.functions : f.start_ea <= ea /\ ea < f.end_ea}

resolve_single_start(db, scope) ==
    CASE scope = "current_function" -> {f.start_ea : f \in get_func(db, db.screen_ea)}
      [] scope = "current_cursor" -> {db.screen_ea}
      [] scope = "entry_point" -> {db.start_ea}
      [] OTHER -> {}

\* The arguments of emulator::run.  flaky: snapshots of the engine may fail.
Arguments(start, config, pooled, flaky) ==
    [start |-> start,
     max_instr |-> config.max_instructions,
     max_loops |-> config.max_loop_iterations,
     max_time_ms |-> config.max_time_ms,
     scan_register_strings |-> (config.scan = "stack_and_registers"),
     enable_write_tracking |-> config.enable_write_tracking,
     enable_heap_stubs |-> config.enable_heap_stubs,
     pooled |-> pooled,
     snapshots_fail |-> flaky]

\* One run, whose caller has no flag to stop it with.
run_on_function(db, config, flaky) ==
    {Arguments(start, config, FALSE, flaky) : start \in resolve_single_start(db, config.scope)}

\* A run for every function, beside those of the other workers.
run_on_all_functions(db, config, flaky) ==
    {Arguments(f.start_ea, config, TRUE, flaky) : f \in db.functions}

\* The image's bytes; none when the database has no range or nothing of it can be read.
capture_image_snapshot(db) ==
    IF db.BADADDR \in {db.min_ea, db.max_ea} \/ db.max_ea <= db.min_ea \/ db.readable = 0
    THEN {}
    ELSE {[image_min |-> db.min_ea, image_max |-> db.max_ea]}

\* What it holds is a matter of module Emulator; it is made of every range that is one.
snapshot_possible(db, image) ==
    db.BADADDR \notin {image.image_min, image.image_max} /\ image.image_min < image.image_max

\* The plugin's run: what the emulators of one invocation are started with.  Nothing is
\* for a database of another processor, and without the two snapshots nothing is run.
run(db, form, flaky) ==
    IF ~db.x86_64 THEN {}
    ELSE UNION {IF ~snapshot_possible(db, image) THEN {}
                ELSE IF config.scope = "every_function"
                THEN run_on_all_functions(db, config, flaky)
                ELSE run_on_function(db, config, flaky) :
                    config \in get_user_config(form), image \in capture_image_snapshot(db)}
=============================================================================
