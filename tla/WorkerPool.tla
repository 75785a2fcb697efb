----------------------------- MODULE WorkerPool -----------------------------
(***************************************************************************)
(* run_on_all_functions of plugin.cpp: the IDA main thread starts          *)
(* thread_count workers, each with an emulator of its own, that take       *)
(* function indices from the atomic next_index, emulate them, and merge    *)
(* what they found into a set of their own.  The main thread polls         *)
(* completed, stop_requested and the Cancel button, joins the workers,     *)
(* aggregates the sets and opens the results window.                       *)
(*                                                                         *)
(* Every access to a shared atomic is a step of its own; what a worker     *)
(* does between two of them touches only data of its own and is one step.  *)
(* An emulator run is one step with an arbitrary result (module Emulator   *)
(* looks inside it).                                                       *)
(***************************************************************************)
EXTENDS Naturals, FiniteSets

CONSTANTS MaxFunctions,  \* bound: largest number of functions in the database
          Strings,       \* strings an emulation can report
          MaxHits,       \* bound: transient_limit_hits of one run
          hw,            \* std::thread::hardware_concurrency(), 0 when unknown
          NotRun         \* result of a function no run has finished

ASSUME PoolAssumption ==
    /\ MaxFunctions \in Nat
    /\ MaxHits \in Nat
    /\ hw \in Nat
    /\ \A S \in SUBSET Strings : S # NotRun

VARIABLES
    total,                \* starts.size()
    main,                 \* where the main thread is
    spawned,              \* worker_id of the creation loop
    wpc,                  \* where each worker is
    index,                \* the function each worker claimed last
    string_list,          \* string_list_ of each worker's emulator
    hits,                 \* transient_limit_hits_ of each worker's emulator
    partial_results,      \* one set of strings per worker
    next_index,           \* atomic: next function to claim
    completed,            \* atomic: functions done
    stop_requested,       \* atomic: everybody should stop
    limit_hit_functions,  \* atomic: runs that reached the transient limit
    limit_hit_total,      \* atomic: how often they reached it
    aggregated,           \* what the results window shows, NotRun before it opens
    reported              \* history: function -> what the run of it reported

claimVars == <<next_index, index>>
resultVars == <<string_list, hits, partial_results, reported>>
tallyVars == <<limit_hit_functions, limit_hit_total>>
mainVars == <<total, main, spawned, aggregated>>
vars == <<total, main, spawned, wpc, index, string_list, hits, partial_results,
          next_index, completed, stop_requested, limit_hit_functions,
          limit_hit_total, aggregated, reported>>

resolve_thread_count(tasks) ==
    LET preferred == IF hw = 0 THEN 4 ELSE hw
        least == IF preferred <= tasks THEN preferred ELSE tasks
    IN IF least >= 1 THEN least ELSE 1

thread_count == resolve_thread_count(total)

Functions == 0 .. (total - 1)
AllFunctions == 0 .. (MaxFunctions - 1)
\* Worker ids any database of this size can have; the live ones are below thread_count.
WorkerIds == 0 .. (resolve_thread_count(MaxFunctions) - 1)
Threads == 0 .. (thread_count - 1)

Idle == {"unborn", "construct", "check_stop", "claim", "exited"}
\* Claimed a function whose results are not in partial_results yet ...
Unmerged == {"run", "tally_functions", "tally_total", "merge"}
\* ... or merged them and has not counted the function as completed.
InFlight == Unmerged \cup {"complete"}

Goto(w, from, to) ==
    /\ wpc[w] = from
    /\ wpc' = [wpc EXCEPT ![w] = to]

-----------------------------------------------------------------------------
(* The worker's lambda *)

\* The worker builds its emulator; when it is not ready the whole batch stops.
Construct(w) ==
    /\ \/ /\ Goto(w, "construct", "check_stop")
          /\ UNCHANGED stop_requested
       \/ /\ Goto(w, "construct", "exited")
          /\ stop_requested' = TRUE
    /\ UNCHANGED <<completed, claimVars, resultVars, tallyVars, mainVars>>

CheckStop(w) ==
    /\ Goto(w, "check_stop", IF stop_requested THEN "exited" ELSE "claim")
    /\ UNCHANGED <<completed, stop_requested, claimVars, resultVars, tallyVars, mainVars>>

Mut_ClaimNoBound(w) ==
    /\ Goto(w, "claim", "run")
    /\ next_index' = next_index + 1
    /\ index' = [index EXCEPT ![w] = next_index]
    /\ UNCHANGED <<completed, stop_requested, resultVars, tallyVars, mainVars>>

\* A load and a later store instead of one fetch_add, when two workers collide.
Mut_ClaimNotAtomic(w) ==
    /\ wpc[w] = "claim"
    /\ \/ /\ next_index >= total
          /\ Goto(w, "claim", "exited")
          /\ UNCHANGED <<next_index, index>>
       \/ /\ next_index < total
          /\ Goto(w, "claim", "run")
          /\ index' = [index EXCEPT ![w] = next_index]
          /\ \E n \in {next_index, next_index + 1} : next_index' = n
    /\ UNCHANGED <<completed, stop_requested, resultVars, tallyVars, mainVars>>

\* next_index.fetch_add(1), and out of the loop when there is nothing left.
Claim(w) ==
    /\ next_index' = next_index + 1
    /\ \/ /\ next_index >= total
          /\ Goto(w, "claim", "exited")
          /\ UNCHANGED index
       \/ /\ next_index < total
          /\ Goto(w, "claim", "run")
          /\ index' = [index EXCEPT ![w] = next_index]
    /\ UNCHANGED <<completed, stop_requested, resultVars, tallyVars, mainVars>>

\* emu.run(starts[index], ...): string_list_ and the limit counters are cleared
\* first, so they describe this run alone.
EmuRun(w) ==
    \E found \in SUBSET Strings, n \in 0 .. MaxHits :
        /\ Goto(w, "run", IF n > 0 THEN "tally_functions" ELSE "merge")
        /\ string_list' = [string_list EXCEPT ![w] = found]
        /\ hits' = [hits EXCEPT ![w] = n]
        /\ reported' = [reported EXCEPT ![index[w]] = found]
        /\ UNCHANGED <<partial_results, completed, stop_requested, claimVars, tallyVars, mainVars>>

TallyFunctions(w) ==
    /\ Goto(w, "tally_functions", "tally_total")
    /\ limit_hit_functions' = limit_hit_functions + 1
    /\ UNCHANGED <<limit_hit_total, completed, stop_requested, claimVars, resultVars, mainVars>>

Mut_TallyStore(w) ==
    /\ Goto(w, "tally_total", "merge")
    /\ limit_hit_total' = hits[w]
    /\ UNCHANGED <<limit_hit_functions, completed, stop_requested, claimVars, resultVars, mainVars>>

TallyTotal(w) ==
    /\ Goto(w, "tally_total", "merge")
    /\ limit_hit_total' = limit_hit_total + hits[w]
    /\ UNCHANGED <<limit_hit_functions, completed, stop_requested, claimVars, resultVars, mainVars>>

Mut_MergeOverwrites(w) ==
    /\ Goto(w, "merge", "complete")
    /\ partial_results' = [partial_results EXCEPT ![w] = string_list[w]]
    /\ UNCHANGED <<string_list, hits, reported, completed, stop_requested,
                   claimVars, tallyVars, mainVars>>

\* local.insert(found.begin(), found.end())
Merge(w) ==
    /\ Goto(w, "merge", "complete")
    /\ partial_results' = [partial_results EXCEPT ![w] = @ \cup string_list[w]]
    /\ UNCHANGED <<string_list, hits, reported, completed, stop_requested,
                   claimVars, tallyVars, mainVars>>

\* The counter moves only for runs that found something.
Mut_CompleteSome(w) ==
    /\ Goto(w, "complete", "check_stop")
    /\ completed' = IF string_list[w] = {} THEN completed ELSE completed + 1
    /\ UNCHANGED <<stop_requested, claimVars, resultVars, tallyVars, mainVars>>

Complete(w) ==
    /\ Goto(w, "complete", "check_stop")
    /\ completed' = completed + 1
    /\ UNCHANGED <<stop_requested, claimVars, resultVars, tallyVars, mainVars>>

WorkerStep(w) ==
    \/ Construct(w)
    \/ CheckStop(w)
    \/ Claim(w)
    \/ EmuRun(w)
    \/ TallyFunctions(w)
    \/ TallyTotal(w)
    \/ Merge(w)
    \/ Complete(w)

-----------------------------------------------------------------------------
(* The main thread *)

workerVars == <<claimVars, resultVars, tallyVars, completed>>

\* "No functions in the database": nothing is started and no window opens.
NoFunctions ==
    /\ main = "start"
    /\ total = 0
    /\ main' = "returned"
    /\ UNCHANGED <<total, spawned, wpc, aggregated, stop_requested, workerVars>>

\* One turn of the creation loop; the new thread runs from here on.
SpawnWorker ==
    /\ main = "start"
    /\ total > 0
    /\ Goto(spawned, "unborn", "construct")
    /\ spawned' = spawned + 1
    /\ main' = IF spawned + 1 = thread_count THEN "poll_completed" ELSE "start"
    /\ UNCHANGED <<total, aggregated, stop_requested, workerVars>>

\* while (completed < total)
PollCompleted ==
    /\ main = "poll_completed"
    /\ main' = IF completed < total THEN "poll_stop" ELSE "join"
    /\ UNCHANGED <<total, spawned, wpc, aggregated, stop_requested, workerVars>>

Mut_PollStopIgnored ==
    /\ main = "poll_stop"
    /\ main' = "poll_user"
    /\ UNCHANGED <<total, spawned, wpc, aggregated, stop_requested, workerVars>>

PollStop ==
    /\ main = "poll_stop"
    /\ main' = IF stop_requested THEN "join" ELSE "poll_user"
    /\ UNCHANGED <<total, spawned, wpc, aggregated, stop_requested, workerVars>>

\* user_cancelled(), or sleep and poll again
PollUser ==
    /\ main = "poll_user"
    /\ \/ /\ main' = "join"
          /\ stop_requested' = TRUE
       \/ /\ main' = "poll_completed"
          /\ UNCHANGED stop_requested
    /\ UNCHANGED <<total, spawned, wpc, aggregated, workerVars>>

Mut_JoinFirst ==
    /\ main = "join"
    /\ wpc[0] = "exited"
    /\ main' = "aggregate"
    /\ UNCHANGED <<total, spawned, wpc, aggregated, stop_requested, workerVars>>

\* worker.join() for every worker
Join ==
    /\ main = "join"
    /\ \A w \in Threads : wpc[w] = "exited"
    /\ main' = "aggregate"
    /\ UNCHANGED <<total, spawned, wpc, aggregated, stop_requested, workerVars>>

\* The union of partial_results, the limit warning and the results window.
Display ==
    /\ main = "aggregate"
    /\ aggregated' = UNION {partial_results[w] : w \in Threads}
    /\ main' = "returned"
    /\ UNCHANGED <<total, spawned, wpc, stop_requested, workerVars>>

MainStep ==
    \/ NoFunctions
    \/ SpawnWorker
    \/ PollCompleted
    \/ PollStop
    \/ PollUser
    \/ Join
    \/ Display

Init ==
    /\ total \in 0 .. MaxFunctions
    /\ main = "start"
    /\ spawned = 0
    /\ wpc = [w \in WorkerIds |-> "unborn"]
    /\ index = [w \in WorkerIds |-> 0]
    /\ string_list = [w \in WorkerIds |-> {}]
    /\ hits = [w \in WorkerIds |-> 0]
    /\ partial_results = [w \in WorkerIds |-> {}]
    /\ next_index = 0
    /\ completed = 0
    /\ stop_requested = FALSE
    /\ limit_hit_functions = 0
    /\ limit_hit_total = 0
    /\ aggregated = NotRun
    /\ reported = [f \in AllFunctions |-> NotRun]

\* The call has returned.
Returned == main = "returned" /\ UNCHANGED vars

Next == MainStep \/ (\E w \in WorkerIds : WorkerStep(w)) \/ Returned

Spec == Init /\ [][Next]_vars

\* The operating system runs every thread; nothing forces the user to cancel.
FairSpec ==
    /\ Spec
    /\ WF_vars(MainStep)
    /\ \A w \in WorkerIds : WF_vars(WorkerStep(w))

-----------------------------------------------------------------------------
(* Properties *)

WorkerStates == Idle \cup InFlight
MainStates == {"start", "poll_completed", "poll_stop", "poll_user", "join",
               "aggregate", "returned"}

\* Types; in particular every claimed index is one of the functions.
TypeOK ==
    /\ total \in 0 .. MaxFunctions
    /\ main \in MainStates
    /\ spawned \in 0 .. thread_count
    /\ wpc \in [WorkerIds -> WorkerStates]
    /\ index \in [WorkerIds -> Nat]
    /\ \A w \in WorkerIds : wpc[w] \in InFlight => index[w] \in Functions
    /\ string_list \in [WorkerIds -> SUBSET Strings]
    /\ hits \in [WorkerIds -> 0 .. MaxHits]
    /\ partial_results \in [WorkerIds -> SUBSET Strings]
    /\ next_index \in Nat
    /\ completed \in Nat
    /\ stop_requested \in BOOLEAN
    /\ limit_hit_functions \in Nat
    /\ limit_hit_total \in Nat
    /\ aggregated \in {NotRun} \cup SUBSET Strings
    /\ reported \in [AllFunctions -> {NotRun} \cup SUBSET Strings]

\* No two workers ever emulate the same function at the same time: the index
\* handed out by fetch_add at plugin.cpp:185 is exclusive.
ExclusiveClaims ==
    \A v, w \in WorkerIds :
        v # w /\ wpc[v] \in InFlight /\ wpc[w] \in InFlight => index[v] # index[w]

\* A function is emulated at most once in a batch: once a run of it reported,
\* no later run changes what is on record for it.
RunOnce ==
    [][\A f \in AllFunctions : reported[f] # NotRun => reported'[f] = reported[f]]_vars

\* Nothing is lost on the way to the results window, whatever the interleaving of
\* merges, the Cancel button and a worker that failed to start: the window shows
\* exactly what the finished runs reported, and unless the batch was stopped every
\* function has been run by then.
NoResultLost ==
    main = "returned" /\ total > 0 =>
        /\ aggregated = UNION {reported[f] : f \in {g \in Functions : reported[g] # NotRun}}
        /\ stop_requested \/ \A f \in Functions : reported[f] # NotRun

\* The progress counter of the wait box never runs ahead of or behind the work:
\* claimed functions are completed or held by exactly one worker.
Accounting ==
    LET claimed == IF next_index <= total THEN next_index ELSE total
    IN completed + Cardinality({w \in WorkerIds : wpc[w] \in InFlight}) = claimed

\* The warning at plugin.cpp:231 is consistent although the two tallies are two
\* separate atomics: once the workers are joined, the total counts at least one
\* hit per function counted and never more than the runs completed allow.
LimitWarningConsistent ==
    main \in {"aggregate", "returned"} =>
        /\ limit_hit_functions <= limit_hit_total
        /\ limit_hit_total <= MaxHits * limit_hit_functions
        /\ limit_hit_functions <= completed

\* The main thread always comes back, also when every worker failed to start,
\* when the user cancels, and when completed never reaches total.
Terminates == <>(main = "returned")

\* The batch that the threads implement: a function's results are recorded when
\* they are merged into partial_results.
Recorded(f) ==
    IF \E w \in WorkerIds : wpc[w] \in Unmerged /\ index[w] = f
    THEN NotRun
    ELSE reported[f]

Batch == INSTANCE FunctionBatch WITH
             results <- [f \in AllFunctions |-> Recorded(f)],
             stopped <- stop_requested,
             shown <- aggregated

\* run_on_all_functions implements FunctionBatch.
ImplementsBatch == Batch!BatchSpec
=============================================================================
