--------------------------- MODULE FunctionBatch ---------------------------
(***************************************************************************)
(* What "Every function" promises, with no threads in it: every function   *)
(* of the database is emulated at most once, what its run reported is      *)
(* recorded, and the results window shows exactly what was recorded.  The  *)
(* window opens when every function is recorded or the batch was stopped   *)
(* (the user cancelled, or an emulator could not be built).                *)
(***************************************************************************)
EXTENDS Naturals

CONSTANTS MaxFunctions,  \* largest database considered
          Strings,       \* strings a run can report
          NotRun         \* result of a function that has not been recorded

VARIABLES total,    \* number of functions in the database
          results,  \* function -> the set of strings its run reported
          stopped,  \* the batch was told to stop
          shown     \* what the results window lists, NotRun before it opens

batchVars == <<total, results, stopped, shown>>

BatchFunctions == 0 .. (total - 1)

BatchInit ==
    /\ total \in 0 .. MaxFunctions
    /\ results = [f \in 0 .. (MaxFunctions - 1) |-> NotRun]
    /\ stopped = FALSE
    /\ shown = NotRun

\* The results of one function become part of the batch.
Record(f, found) ==
    /\ results[f] = NotRun
    /\ shown = NotRun
    /\ results' = [results EXCEPT ![f] = found]
    /\ UNCHANGED <<total, stopped, shown>>

Stop ==
    /\ stopped' = TRUE
    /\ UNCHANGED <<total, results, shown>>

\* The results window opens, once, on everything recorded so far.
Show ==
    /\ shown = NotRun
    /\ stopped \/ \A f \in BatchFunctions : results[f] # NotRun
    /\ shown' = UNION {results[f] : f \in {g \in BatchFunctions : results[g] # NotRun}}
    /\ UNCHANGED <<total, results, stopped>>

BatchNext ==
    \/ \E f \in BatchFunctions, found \in SUBSET Strings : Record(f, found)
    \/ Stop
    \/ Show

BatchSpec == BatchInit /\ [][BatchNext]_batchVars
=============================================================================
