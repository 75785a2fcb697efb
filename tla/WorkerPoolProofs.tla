-------------------------- MODULE WorkerPoolProofs --------------------------
(***************************************************************************)
(* Proofs about WorkerPool, for any number of functions, processors and    *)
(* strings.                                                                *)
(*                                                                         *)
(* The argument.  fetch_add hands out each index once, so an index below   *)
(* next_index belongs to a finished run or to exactly one worker that is   *)
(* emulating it.  What a run reported is, from then on, either still held  *)
(* by its worker or in some worker's partial set; nothing else ever gets   *)
(* into a partial set.  A worker only exits when the batch is stopped or   *)
(* the indices are used up, and the main thread aggregates only after all  *)
(* of them exited.                                                         *)
(*                                                                         *)
(* The counters.  A thread moves between sets of program points one at a   *)
(* time, and each counter moves with it: completed when a worker leaves    *)
(* the points where it holds a function, limit_hit_functions when it       *)
(* enters the point between the two tallies, limit_hit_total when it       *)
(* leaves it.  Once every worker has exited, the sets are empty and what   *)
(* is left is a relation of the counters alone.                            *)
(*                                                                         *)
(* The refinement.  What the threads do between claiming an index and      *)
(* merging the results is invisible to FunctionBatch, Merge records a      *)
(* function, a stop request is a Stop, and opening the window is Show.     *)
(***************************************************************************)
EXTENDS WorkerPool, FiniteSetTheorems, TLAPS

Holding == {"tally_functions", "tally_total", "merge"}

\* Who has which index.
IndexInv ==
    /\ \A w \in WorkerIds : wpc[w] \in InFlight => index[w] < next_index
    /\ \A v, w \in WorkerIds :
           v # w /\ wpc[v] \in InFlight /\ wpc[w] \in InFlight => index[v] # index[w]
    /\ \A f \in AllFunctions : reported[f] # NotRun => f < next_index
    /\ \A w \in WorkerIds : wpc[w] = "run" => reported[index[w]] = NotRun
    /\ \A f \in Functions :
           f < next_index => \/ reported[f] # NotRun
                             \/ \E w \in WorkerIds : wpc[w] = "run" /\ index[w] = f

\* Where the strings a run reported are.
StringsInv ==
    /\ \A w \in WorkerIds : wpc[w] \in Holding => reported[index[w]] = string_list[w]
    /\ \A f \in AllFunctions :
           reported[f] # NotRun =>
               \A s \in reported[f] :
                   \/ \E w \in WorkerIds : s \in partial_results[w]
                   \/ \E w \in WorkerIds : wpc[w] \in Holding /\ index[w] = f
    /\ \A w \in WorkerIds : \A s \in partial_results[w] :
           \E f \in Functions : reported[f] # NotRun /\ s \in reported[f]

\* Which threads there are, and when the main thread goes on without them.
ThreadsInv ==
    /\ main = "start" => spawned < thread_count
    /\ \A w \in WorkerIds : wpc[w] # "unborn" => w \in Threads
    /\ \A w \in WorkerIds : wpc[w] = "unborn" => partial_results[w] = {}
    /\ \A w \in WorkerIds : wpc[w] = "exited" => stop_requested \/ next_index >= total
    /\ main \in {"aggregate", "returned"} /\ total > 0 =>
           \A w \in Threads : wpc[w] = "exited"
    /\ main = "returned" /\ total > 0 =>
           aggregated = UNION {partial_results[w] : w \in Threads}

IInv == TypeOK /\ IndexInv /\ StringsInv /\ ThreadsInv

-----------------------------------------------------------------------------

\* The live workers are worker ids, and there is at least one (plugin.cpp:28-33).
LEMMA ThreadCount ==
    ASSUME total \in 0 .. MaxFunctions
    PROVE  /\ thread_count \in Nat \ {0}
           /\ Threads \subseteq WorkerIds
           /\ 0 \in Threads
           /\ Functions \subseteq AllFunctions
           /\ WorkerIds \subseteq Nat
  BY PoolAssumption
     DEF thread_count, resolve_thread_count, Threads, WorkerIds, Functions, AllFunctions

\* The number of functions, and with it the number of threads, is fixed.
LEMMA TotalFixed ==
    ASSUME [Next]_vars
    PROVE  /\ total' = total
           /\ thread_count' = thread_count
           /\ Threads' = Threads
           /\ Functions' = Functions
  <1>1. total' = total
    BY DEF Next, vars, MainStep, WorkerStep, Returned, NoFunctions, SpawnWorker,
           PollCompleted, PollStop, PollUser, Join, Display, Construct, CheckStop, Claim,
           EmuRun, TallyFunctions, TallyTotal, Merge, Complete, mainVars
  <1> QED
    BY <1>1 DEF thread_count, Threads, Functions, resolve_thread_count

\* The invariant holds when run_on_all_functions starts.
LEMMA InitIInv == Init => IInv
  <1> SUFFICES ASSUME Init PROVE IInv
    OBVIOUS
  <1> USE PoolAssumption
  <1>1. total \in 0 .. MaxFunctions
    BY DEF Init
  <1>2. TypeOK
    <2>1. wpc \in [WorkerIds -> WorkerStates]
      BY DEF Init, WorkerStates, Idle
    <2>2. \A w \in WorkerIds : wpc[w] \notin InFlight
      BY DEF Init, InFlight, Unmerged
    <2>3. /\ index \in [WorkerIds -> Nat]
          /\ string_list \in [WorkerIds -> SUBSET Strings]
          /\ hits \in [WorkerIds -> 0 .. MaxHits]
          /\ partial_results \in [WorkerIds -> SUBSET Strings]
          /\ reported \in [AllFunctions -> {NotRun} \cup SUBSET Strings]
      BY DEF Init
    <2>4. stop_requested \in BOOLEAN
      BY DEF Init
    <2>5. spawned \in 0 .. thread_count /\ main \in MainStates
      BY <1>1, ThreadCount DEF Init, MainStates
    <2> QED
      BY <1>1, <2>1, <2>2, <2>3, <2>4, <2>5 DEF Init, TypeOK
  <1>3. IndexInv
    BY <1>1, ThreadCount DEF Init, IndexInv, InFlight, Unmerged, Functions
  <1>4. StringsInv
    BY <1>1, ThreadCount DEF Init, StringsInv, Holding
  <1>5. ThreadsInv
    BY <1>1, ThreadCount DEF Init, ThreadsInv
  <1> QED
    BY <1>2, <1>3, <1>4, <1>5 DEF IInv

-----------------------------------------------------------------------------
(* Every step keeps the invariant *)

\* Types are kept; a claimed index is a function because Claim compared it with total.
LEMMA TypeStep ==
    ASSUME IInv, [Next]_vars PROVE TypeOK'
  <1> USE PoolAssumption, TotalFixed, ThreadCount DEF IInv, TypeOK
  <1>1. ASSUME NEW w \in WorkerIds, Construct(w) PROVE TypeOK'
    BY <1>1
       DEF Construct, Goto, claimVars, resultVars, tallyVars, mainVars, WorkerStates,
           MainStates, Idle, InFlight, Unmerged
  <1>2. ASSUME NEW w \in WorkerIds, CheckStop(w) PROVE TypeOK'
    BY <1>2
       DEF CheckStop, Goto, claimVars, resultVars, tallyVars, mainVars, WorkerStates,
           MainStates, Idle, InFlight, Unmerged
  <1>3. ASSUME NEW w \in WorkerIds, Claim(w) PROVE TypeOK'
    <2>1. UNCHANGED <<total, main, spawned, string_list, hits, partial_results, completed,
                      stop_requested, limit_hit_functions, limit_hit_total, aggregated, reported>>
      BY <1>3 DEF Claim, Goto, resultVars, tallyVars, mainVars
    <2>2. next_index' \in Nat
      BY <1>3 DEF Claim
    <2>3. CASE next_index >= total
      <3>1. wpc' = [wpc EXCEPT ![w] = "exited"] /\ index' = index
        BY <1>3, <2>3 DEF Claim, Goto
      <3>2. wpc' \in [WorkerIds -> WorkerStates]
        BY <3>1 DEF WorkerStates, Idle
      <3>3. \A v \in WorkerIds : wpc'[v] \in InFlight => index'[v] \in Functions'
        BY <3>1 DEF InFlight, Unmerged
      <3> QED
        BY <2>1, <2>2, <3>1, <3>2, <3>3
    <2>4. CASE next_index < total
      <3>1. wpc' = [wpc EXCEPT ![w] = "run"] /\ index' = [index EXCEPT ![w] = next_index]
        BY <1>3, <2>4 DEF Claim, Goto
      <3>2. wpc' \in [WorkerIds -> WorkerStates]
        BY <3>1 DEF WorkerStates, InFlight, Unmerged
      <3>3. next_index \in Functions
        BY <2>4 DEF Functions
      <3>4. \A v \in WorkerIds : wpc'[v] \in InFlight => index'[v] \in Functions'
        BY <3>1, <3>3 DEF InFlight, Unmerged
      <3> QED
        BY <2>1, <2>2, <3>1, <3>2, <3>4
    <2> QED
      BY <2>3, <2>4
  <1>4. ASSUME NEW w \in WorkerIds, EmuRun(w) PROVE TypeOK'
    BY <1>4
       DEF EmuRun, Goto, claimVars, tallyVars, mainVars, WorkerStates, MainStates, Idle,
           InFlight, Unmerged
  <1>5. ASSUME NEW w \in WorkerIds, TallyFunctions(w) PROVE TypeOK'
    BY <1>5
       DEF TallyFunctions, Goto, claimVars, resultVars, mainVars, WorkerStates,
           MainStates, Idle, InFlight, Unmerged
  <1>6. ASSUME NEW w \in WorkerIds, TallyTotal(w) PROVE TypeOK'
    BY <1>6
       DEF TallyTotal, Goto, claimVars, resultVars, mainVars, WorkerStates, MainStates,
           Idle, InFlight, Unmerged
  <1>7. ASSUME NEW w \in WorkerIds, Merge(w) PROVE TypeOK'
    BY <1>7
       DEF Merge, Goto, claimVars, tallyVars, mainVars, WorkerStates, MainStates, Idle,
           InFlight, Unmerged
  <1>8. ASSUME NEW w \in WorkerIds, Complete(w) PROVE TypeOK'
    BY <1>8
       DEF Complete, Goto, claimVars, resultVars, tallyVars, mainVars, WorkerStates,
           MainStates, Idle, InFlight, Unmerged
  <1>9. CASE NoFunctions
    BY <1>9
       DEF NoFunctions, workerVars, claimVars, resultVars, tallyVars, WorkerStates,
           MainStates, Idle, InFlight, Unmerged
  <1>10. CASE SpawnWorker
    <2>1. spawned \in WorkerIds /\ spawned + 1 \in 0 .. thread_count
      BY <1>10 DEF SpawnWorker, ThreadsInv, Threads
    <2>2. /\ UNCHANGED <<total, index, string_list, hits, partial_results, next_index, completed,
                         stop_requested, limit_hit_functions, limit_hit_total, aggregated, reported>>
          /\ spawned' = spawned + 1
          /\ wpc' = [wpc EXCEPT ![spawned] = "construct"]
      BY <1>10 DEF SpawnWorker, Goto, workerVars, claimVars, resultVars, tallyVars
    <2>3. main' \in MainStates
      BY <1>10 DEF SpawnWorker, MainStates
    <2>4. wpc' \in [WorkerIds -> WorkerStates]
      BY <2>1, <2>2 DEF WorkerStates, Idle
    <2>5. \A v \in WorkerIds : wpc'[v] \in InFlight => index'[v] \in Functions'
      BY <2>1, <2>2 DEF InFlight, Unmerged
    <2> QED
      BY <2>1, <2>2, <2>3, <2>4, <2>5
  <1>11. CASE PollCompleted
    BY <1>11
       DEF PollCompleted, workerVars, claimVars, resultVars, tallyVars, WorkerStates,
           MainStates, Idle, InFlight, Unmerged
  <1>12. CASE PollStop
    BY <1>12
       DEF PollStop, workerVars, claimVars, resultVars, tallyVars, WorkerStates,
           MainStates, Idle, InFlight, Unmerged
  <1>13. CASE PollUser
    BY <1>13
       DEF PollUser, workerVars, claimVars, resultVars, tallyVars, WorkerStates,
           MainStates, Idle, InFlight, Unmerged
  <1>14. CASE Join
    BY <1>14
       DEF Join, workerVars, claimVars, resultVars, tallyVars, WorkerStates, MainStates,
           Idle, InFlight, Unmerged
  <1>15. CASE Display
    BY <1>15
       DEF Display, workerVars, claimVars, resultVars, tallyVars, WorkerStates,
           MainStates, Idle, InFlight, Unmerged
  <1>16. CASE UNCHANGED vars
    BY <1>16 DEF vars, WorkerStates, MainStates, Idle, InFlight, Unmerged
  <1> QED
    BY <1>1, <1>2, <1>3, <1>4, <1>5, <1>6, <1>7, <1>8, <1>9, <1>10, <1>11, <1>12, <1>13,
       <1>14, <1>15, <1>16 DEF Next, WorkerStep, MainStep, Returned

\* fetch_add keeps the claims apart; a function's record changes only in its one run.
LEMMA IndexStep ==
    ASSUME IInv, [Next]_vars PROVE IndexInv'
  <1> USE PoolAssumption, TotalFixed, ThreadCount DEF IInv, TypeOK
  <1>1. ASSUME NEW w \in WorkerIds, Construct(w) PROVE IndexInv'
    BY <1>1
       DEF Construct, Goto, claimVars, resultVars, tallyVars, mainVars, IndexInv,
           InFlight, Unmerged
  <1>2. ASSUME NEW w \in WorkerIds, CheckStop(w) PROVE IndexInv'
    BY <1>2
       DEF CheckStop, Goto, claimVars, resultVars, tallyVars, mainVars, IndexInv,
           InFlight, Unmerged
  <1>3. ASSUME NEW w \in WorkerIds, Claim(w) PROVE IndexInv'
    <2>1. reported' = reported /\ next_index' = next_index + 1 /\ wpc[w] = "claim"
      BY <1>3 DEF Claim, Goto, resultVars
    <2>2. CASE next_index >= total
      <3>1. wpc' = [wpc EXCEPT ![w] = "exited"] /\ index' = index
        BY <1>3, <2>2 DEF Claim, Goto
      <3>2. \A v \in WorkerIds :
              /\ wpc'[v] \in InFlight => wpc[v] \in InFlight
              /\ wpc'[v] = "run" <=> wpc[v] = "run"
        BY <2>1, <3>1 DEF InFlight, Unmerged
      <3>3. \A f \in Functions : f < next_index
        BY <2>2 DEF Functions
      <3>4. \A f \in AllFunctions : f \in Nat
        BY DEF AllFunctions
      <3>5. next_index \in Nat /\ index \in [WorkerIds -> Nat]
        OBVIOUS
      <3> HIDE DEF TypeOK
      <3> QED
        BY <2>1, <3>1, <3>2, <3>3, <3>4, <3>5 DEF IndexInv
    <2>3. CASE next_index < total
      <3>1. wpc' = [wpc EXCEPT ![w] = "run"] /\ index' = [index EXCEPT ![w] = next_index]
        BY <1>3, <2>3 DEF Claim, Goto
      <3>2. next_index \in Functions
        BY <2>3 DEF Functions
      <3>3. \A v \in WorkerIds : v # w => wpc'[v] = wpc[v] /\ index'[v] = index[v]
        BY <3>1
      <3>4. wpc'[w] = "run" /\ index'[w] = next_index
        BY <3>1
      <3>5. \A v \in WorkerIds : wpc'[v] \in InFlight => index'[v] < next_index'
        BY <2>1, <3>3, <3>4 DEF IndexInv
      <3>6. \A u, v \in WorkerIds :
              u # v /\ wpc'[u] \in InFlight /\ wpc'[v] \in InFlight => index'[u] # index'[v]
        BY <3>3, <3>4 DEF IndexInv
      <3>7. \A f \in AllFunctions : reported'[f] # NotRun => f < next_index'
        BY <2>1 DEF IndexInv, AllFunctions
      <3>8. \A v \in WorkerIds : wpc'[v] = "run" => reported'[index'[v]] = NotRun
        BY <2>1, <3>2, <3>3, <3>4 DEF IndexInv
      <3>9. \A f \in Functions :
              f < next_index' => \/ reported'[f] # NotRun
                                 \/ \E v \in WorkerIds : wpc'[v] = "run" /\ index'[v] = f
        <4> SUFFICES ASSUME NEW f \in Functions, f < next_index', reported'[f] = NotRun
                     PROVE  \E v \in WorkerIds : wpc'[v] = "run" /\ index'[v] = f
          OBVIOUS
        <4>1. CASE f = next_index
          BY <4>1, <3>4
        <4>2. CASE f < next_index
          <5>1. PICK v \in WorkerIds : wpc[v] = "run" /\ index[v] = f
            BY <4>2, <2>1 DEF IndexInv
          <5>2. v # w
            BY <5>1, <2>1
          <5> QED
            BY <5>1, <5>2, <3>3
        <4> QED
          BY <4>1, <4>2, <2>1 DEF Functions
      <3> QED
        BY <3>5, <3>6, <3>7, <3>8, <3>9 DEF IndexInv
    <2> QED
      BY <2>2, <2>3
  <1>4. ASSUME NEW w \in WorkerIds, EmuRun(w) PROVE IndexInv'
    BY <1>4
       DEF EmuRun, Goto, claimVars, tallyVars, mainVars, IndexInv, InFlight, Unmerged
  <1>5. ASSUME NEW w \in WorkerIds, TallyFunctions(w) PROVE IndexInv'
    BY <1>5
       DEF TallyFunctions, Goto, claimVars, resultVars, mainVars, IndexInv, InFlight,
           Unmerged
  <1>6. ASSUME NEW w \in WorkerIds, TallyTotal(w) PROVE IndexInv'
    BY <1>6
       DEF TallyTotal, Goto, claimVars, resultVars, mainVars, IndexInv, InFlight,
           Unmerged
  <1>7. ASSUME NEW w \in WorkerIds, Merge(w) PROVE IndexInv'
    BY <1>7
       DEF Merge, Goto, claimVars, tallyVars, mainVars, IndexInv, InFlight, Unmerged
  <1>8. ASSUME NEW w \in WorkerIds, Complete(w) PROVE IndexInv'
    BY <1>8
       DEF Complete, Goto, claimVars, resultVars, tallyVars, mainVars, IndexInv,
           InFlight, Unmerged
  <1>9. CASE NoFunctions
    BY <1>9
       DEF NoFunctions, workerVars, claimVars, resultVars, tallyVars, IndexInv,
           InFlight, Unmerged
  <1>10. CASE SpawnWorker
    BY <1>10
       DEF SpawnWorker, Goto, workerVars, claimVars, resultVars, tallyVars, IndexInv,
           InFlight, Unmerged
  <1>11. CASE PollCompleted
    BY <1>11
       DEF PollCompleted, workerVars, claimVars, resultVars, tallyVars, IndexInv,
           InFlight, Unmerged
  <1>12. CASE PollStop
    BY <1>12
       DEF PollStop, workerVars, claimVars, resultVars, tallyVars, IndexInv, InFlight,
           Unmerged
  <1>13. CASE PollUser
    BY <1>13
       DEF PollUser, workerVars, claimVars, resultVars, tallyVars, IndexInv, InFlight,
           Unmerged
  <1>14. CASE Join
    BY <1>14
       DEF Join, workerVars, claimVars, resultVars, tallyVars, IndexInv, InFlight,
           Unmerged
  <1>15. CASE Display
    BY <1>15
       DEF Display, workerVars, claimVars, resultVars, tallyVars, IndexInv, InFlight,
           Unmerged
  <1>16. CASE UNCHANGED vars
    BY <1>16 DEF vars, IndexInv, InFlight, Unmerged
  <1> QED
    BY <1>1, <1>2, <1>3, <1>4, <1>5, <1>6, <1>7, <1>8, <1>9, <1>10, <1>11, <1>12, <1>13,
       <1>14, <1>15, <1>16 DEF Next, WorkerStep, MainStep, Returned

\* Strings move from the run to its worker and from there to the partial set.
LEMMA StringsStep ==
    ASSUME IInv, [Next]_vars PROVE StringsInv'
  <1> USE PoolAssumption, TotalFixed, ThreadCount DEF IInv, TypeOK
  <1>1. ASSUME NEW w \in WorkerIds, Construct(w) PROVE StringsInv'
    BY <1>1
       DEF Construct, Goto, claimVars, resultVars, tallyVars, mainVars, StringsInv,
           Holding, IndexInv, InFlight, Unmerged
  <1>2. ASSUME NEW w \in WorkerIds, CheckStop(w) PROVE StringsInv'
    BY <1>2
       DEF CheckStop, Goto, claimVars, resultVars, tallyVars, mainVars, StringsInv,
           Holding, IndexInv, InFlight, Unmerged
  <1>3. ASSUME NEW w \in WorkerIds, Claim(w) PROVE StringsInv'
    BY <1>3
       DEF Claim, Goto, resultVars, tallyVars, mainVars, StringsInv, Holding, IndexInv,
           InFlight, Unmerged
  <1>4. ASSUME NEW w \in WorkerIds, EmuRun(w) PROVE StringsInv'
    BY <1>4
       DEF EmuRun, Goto, claimVars, tallyVars, mainVars, StringsInv, Holding, IndexInv,
           InFlight, Unmerged
  <1>5. ASSUME NEW w \in WorkerIds, TallyFunctions(w) PROVE StringsInv'
    BY <1>5
       DEF TallyFunctions, Goto, claimVars, resultVars, mainVars, StringsInv, Holding,
           IndexInv, InFlight, Unmerged
  <1>6. ASSUME NEW w \in WorkerIds, TallyTotal(w) PROVE StringsInv'
    BY <1>6
       DEF TallyTotal, Goto, claimVars, resultVars, mainVars, StringsInv, Holding,
           IndexInv, InFlight, Unmerged
  <1>7. ASSUME NEW w \in WorkerIds, Merge(w) PROVE StringsInv'
    BY <1>7
       DEF Merge, Goto, claimVars, tallyVars, mainVars, StringsInv, Holding, IndexInv,
           InFlight, Unmerged
  <1>8. ASSUME NEW w \in WorkerIds, Complete(w) PROVE StringsInv'
    BY <1>8
       DEF Complete, Goto, claimVars, resultVars, tallyVars, mainVars, StringsInv,
           Holding, IndexInv, InFlight, Unmerged
  <1>9. CASE NoFunctions
    BY <1>9
       DEF NoFunctions, workerVars, claimVars, resultVars, tallyVars, StringsInv,
           Holding, IndexInv, InFlight, Unmerged
  <1>10. CASE SpawnWorker
    BY <1>10
       DEF SpawnWorker, Goto, workerVars, claimVars, resultVars, tallyVars, StringsInv,
           Holding, IndexInv, InFlight, Unmerged
  <1>11. CASE PollCompleted
    BY <1>11
       DEF PollCompleted, workerVars, claimVars, resultVars, tallyVars, StringsInv,
           Holding, IndexInv, InFlight, Unmerged
  <1>12. CASE PollStop
    BY <1>12
       DEF PollStop, workerVars, claimVars, resultVars, tallyVars, StringsInv, Holding,
           IndexInv, InFlight, Unmerged
  <1>13. CASE PollUser
    BY <1>13
       DEF PollUser, workerVars, claimVars, resultVars, tallyVars, StringsInv, Holding,
           IndexInv, InFlight, Unmerged
  <1>14. CASE Join
    BY <1>14
       DEF Join, workerVars, claimVars, resultVars, tallyVars, StringsInv, Holding,
           IndexInv, InFlight, Unmerged
  <1>15. CASE Display
    BY <1>15
       DEF Display, workerVars, claimVars, resultVars, tallyVars, StringsInv, Holding,
           IndexInv, InFlight, Unmerged
  <1>16. CASE UNCHANGED vars
    BY <1>16 DEF vars, StringsInv, Holding, IndexInv, InFlight, Unmerged
  <1> QED
    BY <1>1, <1>2, <1>3, <1>4, <1>5, <1>6, <1>7, <1>8, <1>9, <1>10, <1>11, <1>12, <1>13,
       <1>14, <1>15, <1>16 DEF Next, WorkerStep, MainStep, Returned

\* Workers exit, and the main thread joins them, only when the batch is over.
LEMMA ThreadsStep ==
    ASSUME IInv, [Next]_vars PROVE ThreadsInv'
  <1> USE PoolAssumption, TotalFixed, ThreadCount DEF IInv, TypeOK
  <1>1. ASSUME NEW w \in WorkerIds, Construct(w) PROVE ThreadsInv'
    BY <1>1 DEF Construct, Goto, claimVars, resultVars, tallyVars, mainVars, ThreadsInv
  <1>2. ASSUME NEW w \in WorkerIds, CheckStop(w) PROVE ThreadsInv'
    BY <1>2 DEF CheckStop, Goto, claimVars, resultVars, tallyVars, mainVars, ThreadsInv
  <1>3. ASSUME NEW w \in WorkerIds, Claim(w) PROVE ThreadsInv'
    BY <1>3 DEF Claim, Goto, resultVars, tallyVars, mainVars, ThreadsInv
  <1>4. ASSUME NEW w \in WorkerIds, EmuRun(w) PROVE ThreadsInv'
    BY <1>4 DEF EmuRun, Goto, claimVars, tallyVars, mainVars, ThreadsInv
  <1>5. ASSUME NEW w \in WorkerIds, TallyFunctions(w) PROVE ThreadsInv'
    BY <1>5 DEF TallyFunctions, Goto, claimVars, resultVars, mainVars, ThreadsInv
  <1>6. ASSUME NEW w \in WorkerIds, TallyTotal(w) PROVE ThreadsInv'
    BY <1>6 DEF TallyTotal, Goto, claimVars, resultVars, mainVars, ThreadsInv
  <1>7. ASSUME NEW w \in WorkerIds, Merge(w) PROVE ThreadsInv'
    BY <1>7 DEF Merge, Goto, claimVars, tallyVars, mainVars, ThreadsInv
  <1>8. ASSUME NEW w \in WorkerIds, Complete(w) PROVE ThreadsInv'
    BY <1>8 DEF Complete, Goto, claimVars, resultVars, tallyVars, mainVars, ThreadsInv
  <1>9. CASE NoFunctions
    BY <1>9 DEF NoFunctions, workerVars, claimVars, resultVars, tallyVars, ThreadsInv
  <1>10. CASE SpawnWorker
    <2>1. spawned \in Threads /\ spawned \in WorkerIds
      BY <1>10 DEF SpawnWorker, ThreadsInv, Threads
    <2>2. /\ UNCHANGED <<partial_results, stop_requested, next_index>>
          /\ wpc' = [wpc EXCEPT ![spawned] = "construct"]
          /\ spawned' = spawned + 1
          /\ main' = IF spawned + 1 = thread_count THEN "poll_completed" ELSE "start"
      BY <1>10 DEF SpawnWorker, Goto, workerVars, claimVars, resultVars
    <2>3. main' = "start" => spawned' < thread_count'
      BY <1>10, <2>2 DEF SpawnWorker, ThreadsInv
    <2>4. main' \notin {"aggregate", "returned"}
      BY <2>2
    <2> QED
      BY <2>1, <2>2, <2>3, <2>4 DEF ThreadsInv
  <1>11. CASE PollCompleted
    BY <1>11 DEF PollCompleted, workerVars, claimVars, resultVars, tallyVars, ThreadsInv
  <1>12. CASE PollStop
    BY <1>12 DEF PollStop, workerVars, claimVars, resultVars, tallyVars, ThreadsInv
  <1>13. CASE PollUser
    BY <1>13 DEF PollUser, workerVars, claimVars, resultVars, tallyVars, ThreadsInv
  <1>14. CASE Join
    BY <1>14 DEF Join, workerVars, claimVars, resultVars, tallyVars, ThreadsInv
  <1>15. CASE Display
    BY <1>15 DEF Display, workerVars, claimVars, resultVars, tallyVars, ThreadsInv
  <1>16. CASE UNCHANGED vars
    BY <1>16 DEF vars, ThreadsInv
  <1> QED
    BY <1>1, <1>2, <1>3, <1>4, <1>5, <1>6, <1>7, <1>8, <1>9, <1>10, <1>11, <1>12, <1>13,
       <1>14, <1>15, <1>16 DEF Next, WorkerStep, MainStep, Returned

-----------------------------------------------------------------------------
(* What follows from the invariant *)

\* IInv holds in every state of the batch.
THEOREM Inductive == Spec => []IInv
  <1>1. IInv /\ [Next]_vars => IInv'
    BY TypeStep, IndexStep, StringsStep, ThreadsStep DEF IInv
  <1> QED
    BY InitIInv, <1>1, PTL DEF Spec

\* Types are kept, and no worker ever holds an index past the end of starts
\* (plugin.cpp:185-187).
THEOREM TypeCorrect == Spec => []TypeOK
  <1>1. IInv => TypeOK
    BY DEF IInv
  <1> QED
    BY Inductive, <1>1, PTL

\* Two workers never emulate the same function at the same time, however many
\* workers and functions there are (plugin.cpp:185).
THEOREM ClaimsAreExclusive == Spec => []ExclusiveClaims
  <1>1. IInv => ExclusiveClaims
    BY DEF IInv, IndexInv, ExclusiveClaims
  <1> QED
    BY Inductive, <1>1, PTL

\* No function is emulated twice in a batch (plugin.cpp:182-201).
THEOREM RunsOnce == Spec => RunOnce
  <1>1. ASSUME IInv, [Next]_vars, NEW f \in AllFunctions, reported[f] # NotRun
        PROVE  reported'[f] = reported[f]
    <2>1. CASE \E w \in WorkerIds : EmuRun(w)
      <3>1. PICK w \in WorkerIds : EmuRun(w)
        BY <2>1
      <3>2. reported[index[w]] = NotRun
        BY <1>1, <3>1 DEF EmuRun, Goto, IInv, IndexInv
      <3>3. PICK found \in SUBSET Strings :
                 reported' = [reported EXCEPT ![index[w]] = found]
        BY <3>1 DEF EmuRun
      <3>4. reported \in [AllFunctions -> {NotRun} \cup SUBSET Strings]
        BY <1>1 DEF IInv, TypeOK
      <3> QED
        BY <1>1, <3>2, <3>3, <3>4
    <2>2. CASE ~ \E w \in WorkerIds : EmuRun(w)
      <3>1. reported' = reported
        BY <1>1, <2>2
           DEF Next, vars, MainStep, WorkerStep, Returned, NoFunctions, SpawnWorker,
               PollCompleted, PollStop, PollUser, Join, Display, Construct, CheckStop,
               Claim, TallyFunctions, TallyTotal, Merge, Complete, resultVars, workerVars
      <3> QED
        BY <3>1
    <2> QED
      BY <2>1, <2>2
  <1>2. IInv /\ [Next]_vars
          => \A f \in AllFunctions : reported[f] # NotRun => reported'[f] = reported[f]
    BY <1>1
  <1> QED
    BY Inductive, <1>2, PTL DEF Spec, RunOnce

\* When the main thread has joined the workers, no worker holds anything any more.
LEMMA NothingHeld ==
    ASSUME IInv, main = "returned", total > 0
    PROVE  /\ \A w \in WorkerIds : wpc[w] \in {"unborn", "exited"}
           /\ \A w \in WorkerIds : partial_results[w] # {} => w \in Threads
           /\ stop_requested \/ next_index >= total
  <1>1. \A w \in Threads : wpc[w] = "exited"
    BY DEF IInv, ThreadsInv
  <1>2. \A w \in WorkerIds : wpc[w] # "unborn" => w \in Threads
    BY DEF IInv, ThreadsInv
  <1>3. 0 \in Threads /\ 0 \in WorkerIds
    BY ThreadCount DEF IInv, TypeOK
  <1> QED
    BY <1>1, <1>2, <1>3 DEF IInv, ThreadsInv

\* With nothing held, the partial sets are what the finished runs reported.
LEMMA NothingLost == IInv => NoResultLost
  <1>1. ASSUME IInv, main = "returned", total > 0 PROVE NoResultLost
    <2> DEFINE Done == {f \in Functions : reported[f] # NotRun}
               Told == UNION {reported[f] : f \in Done}
    <2>1. aggregated = UNION {partial_results[w] : w \in Threads}
      BY <1>1 DEF IInv, ThreadsInv
    <2>2. Threads \subseteq WorkerIds /\ Functions \subseteq AllFunctions
      BY <1>1, ThreadCount DEF IInv, TypeOK
    <2>3. ASSUME NEW s \in aggregated PROVE s \in Told
      <3>1. PICK w \in Threads : s \in partial_results[w]
        BY <2>1
      <3>2. PICK f \in Functions : reported[f] # NotRun /\ s \in reported[f]
        BY <1>1, <2>2, <3>1 DEF IInv, StringsInv
      <3> QED
        BY <3>2
    <2>4. ASSUME NEW s \in Told PROVE s \in aggregated
      <3>1. PICK f \in Done : s \in reported[f]
        OBVIOUS
      <3>2. ~ \E w \in WorkerIds : wpc[w] \in Holding
        BY <1>1, NothingHeld DEF Holding
      <3>3. PICK w \in WorkerIds : s \in partial_results[w]
        BY <1>1, <2>2, <3>1, <3>2 DEF IInv, StringsInv
      <3>4. w \in Threads
        BY <1>1, <3>3, NothingHeld
      <3> QED
        BY <2>1, <3>3, <3>4
    <2>5. aggregated = Told
      BY <2>3, <2>4
    <2>6. stop_requested \/ \A f \in Functions : reported[f] # NotRun
      <3>1. CASE next_index >= total
        <4>1. \A f \in Functions : f < next_index
          BY <1>1, <3>1 DEF Functions, IInv, TypeOK
        <4>2. ~ \E w \in WorkerIds : wpc[w] = "run"
          BY <1>1, NothingHeld
        <4> QED
          BY <1>1, <4>1, <4>2 DEF IInv, IndexInv
      <3> QED
        BY <1>1, <3>1, NothingHeld
    <2> QED
      BY <2>5, <2>6 DEF NoResultLost
  <1> QED
    BY <1>1 DEF NoResultLost

\* The results window shows exactly what the finished runs reported, and a batch
\* that was not stopped has run every function (plugin.cpp:222-240).
THEOREM NoResultIsLost == Spec => []NoResultLost
  BY Inductive, NothingLost, PTL

-----------------------------------------------------------------------------
(* The counters *)

\* The workers at one of some program points.
At(points) == {w \in WorkerIds : wpc[w] \in points}

Between == {"tally_total"}                          \* one tally made, one to make
Counted == {"tally_total", "merge", "complete"}     \* past the first tally
Hitting == {"tally_functions", "tally_total"}       \* holding a run that reached the limit

\* Functions that are in both tallies.
TalliedTwice == limit_hit_functions - Cardinality(At(Between))

TallyInv ==
    /\ \A w \in WorkerIds : wpc[w] \in Hitting => hits[w] >= 1
    /\ TalliedTwice >= 0
    /\ TalliedTwice <= limit_hit_total
    /\ limit_hit_total <= MaxHits * TalliedTwice
    /\ limit_hit_functions <= completed + Cardinality(At(Counted))

\* Without a function no worker is started (plugin.cpp:140-146).
NoWorkers == total = 0 => \A w \in WorkerIds : wpc[w] = "unborn"

CountInv == IInv /\ Accounting /\ TallyInv /\ NoWorkers

-----------------------------------------------------------------------------

\* The workers at given points are finitely many, so that counting them makes sense.
LEMMA WorkersFinite ==
    ASSUME NEW points
    PROVE  IsFiniteSet(At(points)) /\ Cardinality(At(points)) \in Nat
  <1>1. resolve_thread_count(MaxFunctions) \in Nat
    BY PoolAssumption DEF resolve_thread_count
  <1>2. IsFiniteSet(WorkerIds)
    BY <1>1, FS_Interval DEF WorkerIds
  <1>3. At(points) \in SUBSET WorkerIds
    BY DEF At
  <1> QED
    BY <1>2, <1>3, FS_Subset, FS_CardinalityType

\* A worker that goes from one program point to another leaves the sets that hold the one
\* and enters those that hold the other.
LEMMA MoveCounts ==
    ASSUME wpc \in [WorkerIds -> WorkerStates], NEW w \in WorkerIds, NEW to,
           wpc' = [wpc EXCEPT ![w] = to], NEW points
    PROVE  /\ wpc[w] \notin points /\ to \in points =>
                  Cardinality(At(points)') = Cardinality(At(points)) + 1
           /\ wpc[w] \in points /\ to \notin points =>
                  Cardinality(At(points)') = Cardinality(At(points)) - 1
           /\ (wpc[w] \in points <=> to \in points) =>
                  Cardinality(At(points)') = Cardinality(At(points))
  <1>1. ASSUME wpc[w] \notin points, to \in points
        PROVE  Cardinality(At(points)') = Cardinality(At(points)) + 1
    <2>1. At(points)' = At(points) \cup {w} /\ w \notin At(points)
      BY <1>1 DEF At
    <2> QED
      BY <2>1, WorkersFinite, FS_AddElement
  <1>2. ASSUME wpc[w] \in points, to \notin points
        PROVE  Cardinality(At(points)') = Cardinality(At(points)) - 1
    <2>1. At(points)' = At(points) \ {w} /\ w \in At(points)
      BY <1>2 DEF At
    <2> QED
      BY <2>1, WorkersFinite, FS_RemoveElement
  <1>3. ASSUME wpc[w] \in points <=> to \in points
        PROVE  Cardinality(At(points)') = Cardinality(At(points))
    <2>1. At(points)' = At(points)
      BY <1>3 DEF At
    <2> QED
      BY <2>1
  <1> QED
    BY <1>1, <1>2, <1>3

\* Nobody moves in the steps of the main thread that start no worker.
LEMMA StayCounts ==
    ASSUME wpc' = wpc, NEW points
    PROVE  At(points)' = At(points)
  BY DEF At

-----------------------------------------------------------------------------

\* Before the threads exist every tally is 0.
LEMMA InitCountInv == Init => CountInv
  <1> SUFFICES ASSUME Init PROVE CountInv
    OBVIOUS
  <1>1. \A w \in WorkerIds : wpc[w] = "unborn"
    BY DEF Init
  <1>2. /\ At(InFlight) = {}
        /\ At(Between) = {}
        /\ At(Counted) = {}
    BY <1>1 DEF At, InFlight, Unmerged, Between, Counted
  <1>3. Cardinality({}) = 0
    BY FS_EmptySet
  <1>4. Accounting
    <2>1. {w \in WorkerIds : wpc[w] \in InFlight} = {}
      BY <1>2 DEF At
    <2> QED
      BY <1>3, <2>1, PoolAssumption DEF Init, Accounting
  <1>5. TallyInv
    BY <1>1, <1>2, <1>3, PoolAssumption DEF Init, TallyInv, TalliedTwice, Hitting
  <1> QED
    BY <1>1, <1>4, <1>5, InitIInv DEF CountInv, NoWorkers

\* Where a worker holds a function, and where it does not.
LEMMA HoldingPoints ==
    /\ {"run", "tally_functions", "tally_total", "merge", "complete"} \subseteq InFlight
    /\ \A p \in {"unborn", "construct", "check_stop", "claim", "exited"} : p \notin InFlight
  BY DEF InFlight, Unmerged

\* A worker holds a function from the claim to the count.
LEMMA AccountingStep ==
    ASSUME CountInv, [Next]_vars PROVE Accounting'
  <1> DEFINE Claimed == IF next_index <= total THEN next_index ELSE total
             Held == Cardinality(At(InFlight))
  <1>1. Accounting <=> completed + Held = Claimed
    BY DEF Accounting, At
  <1>2. Accounting' <=> completed' + Held' = Claimed'
    BY DEF Accounting, At
  <1>3. /\ completed \in Nat /\ next_index \in Nat /\ total \in Nat
        /\ wpc \in [WorkerIds -> WorkerStates]
    BY DEF CountInv, IInv, TypeOK
  <1>4. Held \in Nat /\ total' = total /\ completed + Held = Claimed
    BY <1>1, WorkersFinite, TotalFixed DEF CountInv
  <1> HIDE DEF Held
  <1>5. ASSUME NEW w \in WorkerIds, NEW from, NEW to, Goto(w, from, to),
               from \in InFlight <=> to \in InFlight,
               completed' = completed, next_index' = next_index
        PROVE  Accounting'
    <2>1. Held' = Held
      BY <1>3, <1>5, MoveCounts DEF Goto, Held
    <2> QED
      BY <1>2, <1>4, <1>5, <2>1
  <1>6. ASSUME wpc' = wpc, completed' = completed, next_index' = next_index
        PROVE  Accounting'
    <2>1. Held' = Held
      BY <1>6, StayCounts DEF Held
    <2> QED
      BY <1>2, <1>4, <1>6, <2>1
  <1>7. ASSUME NEW w \in WorkerIds, Construct(w) PROVE Accounting'
    BY <1>5, HoldingPoints, <1>7 DEF Construct, claimVars
  <1>8. ASSUME NEW w \in WorkerIds, CheckStop(w) PROVE Accounting'
    BY <1>5, HoldingPoints, <1>8 DEF CheckStop, claimVars
  <1>9. ASSUME NEW w \in WorkerIds, Claim(w) PROVE Accounting'
    <2>1. CASE next_index >= total
      <3>1. Goto(w, "claim", "exited") /\ completed' = completed /\ next_index' = next_index + 1
        BY <1>3, <1>9, <2>1 DEF Claim
      <3>2. Held' = Held
        BY <1>3, <3>1, MoveCounts, HoldingPoints DEF Goto, Held
      <3> QED
        BY <1>2, <1>3, <1>4, <2>1, <3>1, <3>2
    <2>2. CASE next_index < total
      <3>1. Goto(w, "claim", "run") /\ completed' = completed /\ next_index' = next_index + 1
        BY <1>3, <1>9, <2>2 DEF Claim
      <3>2. Held' = Held + 1
        BY <1>3, <3>1, MoveCounts, HoldingPoints DEF Goto, Held
      <3> QED
        BY <1>2, <1>3, <1>4, <2>2, <3>1, <3>2
    <2> QED
      BY <1>3, <2>1, <2>2
  <1>10. ASSUME NEW w \in WorkerIds, EmuRun(w) PROVE Accounting'
    BY <1>5, HoldingPoints, <1>10 DEF EmuRun, claimVars
  <1>11. ASSUME NEW w \in WorkerIds, TallyFunctions(w) PROVE Accounting'
    BY <1>5, HoldingPoints, <1>11 DEF TallyFunctions, claimVars
  <1>12. ASSUME NEW w \in WorkerIds, TallyTotal(w) PROVE Accounting'
    BY <1>5, HoldingPoints, <1>12 DEF TallyTotal, claimVars
  <1>13. ASSUME NEW w \in WorkerIds, Merge(w) PROVE Accounting'
    BY <1>5, HoldingPoints, <1>13 DEF Merge, claimVars
  <1>14. ASSUME NEW w \in WorkerIds, Complete(w) PROVE Accounting'
    <2>1. /\ Goto(w, "complete", "check_stop")
          /\ completed' = completed + 1 /\ next_index' = next_index
      BY <1>14 DEF Complete, claimVars
    <2>2. Held' = Held - 1
      BY <1>3, <2>1, MoveCounts, HoldingPoints DEF Goto, Held
    <2> QED
      BY <1>2, <1>3, <1>4, <2>1, <2>2
  <1>15. CASE SpawnWorker
    <2>1. spawned \in WorkerIds
      BY <1>15, ThreadCount DEF SpawnWorker, CountInv, IInv, ThreadsInv, Threads, TypeOK
    <2> QED
      BY <1>5, HoldingPoints, <1>15, <2>1 DEF SpawnWorker, workerVars, claimVars
  <1>16. CASE NoFunctions \/ PollCompleted \/ PollStop \/ PollUser \/ Join \/ Display
    BY <1>6, <1>16 DEF NoFunctions, PollCompleted, PollStop, PollUser, Join, Display,
                       workerVars, claimVars
  <1>17. CASE UNCHANGED vars
    BY <1>6, <1>17 DEF vars
  <1> QED
    BY <1>7, <1>8, <1>9, <1>10, <1>11, <1>12, <1>13, <1>14, <1>15, <1>16, <1>17
       DEF Next, WorkerStep, MainStep, Returned

\* Where the points of the tallies are.
LEMMA TallyPoints ==
    /\ Between \subseteq Counted /\ Between \subseteq Hitting
    /\ "tally_total" \in Between /\ "tally_functions" \in Hitting
    /\ "merge" \in Counted /\ "complete" \in Counted
    /\ "tally_functions" \notin Counted /\ "merge" \notin Hitting
    /\ \A p \in {"unborn", "construct", "check_stop", "claim", "exited", "run", "complete"} :
           p \notin Hitting /\ p \notin Between
    /\ \A p \in {"unborn", "construct", "check_stop", "claim", "exited", "run"} : p \notin Counted
    /\ "merge" \notin Between /\ "tally_functions" \notin Between
  BY DEF Between, Counted, Hitting

\* The two tallies move with the worker that is between them.
LEMMA TallyStep ==
    ASSUME CountInv, [Next]_vars PROVE TallyInv'
  <1> DEFINE B == Cardinality(At(Between))
             C == Cardinality(At(Counted))
             HitsKnown == \A w \in WorkerIds : wpc[w] \in Hitting => hits[w] >= 1
             Sums(lhf, lht, done, b, c) ==
                 /\ lhf - b >= 0
                 /\ lhf - b <= lht
                 /\ lht <= MaxHits * (lhf - b)
                 /\ lhf <= done + c
  <1>1. TallyInv <=> HitsKnown /\ Sums(limit_hit_functions, limit_hit_total, completed, B, C)
    BY DEF TallyInv, TalliedTwice
  <1>2. TallyInv' <=>
            HitsKnown' /\ Sums(limit_hit_functions', limit_hit_total', completed', B', C')
    BY DEF TallyInv, TalliedTwice
  <1>3. HitsKnown /\ Sums(limit_hit_functions, limit_hit_total, completed, B, C)
    BY <1>1 DEF CountInv
  <1>4. /\ wpc \in [WorkerIds -> WorkerStates]
        /\ hits \in [WorkerIds -> 0 .. MaxHits]
        /\ limit_hit_functions \in Nat /\ limit_hit_total \in Nat /\ completed \in Nat
    BY DEF CountInv, IInv, TypeOK
  <1>5. B \in Nat /\ C \in Nat /\ MaxHits \in Nat
    BY WorkersFinite, PoolAssumption
  <1> HIDE DEF B, C
  <1>6. ASSUME NEW w \in WorkerIds, NEW from, NEW to, Goto(w, from, to),
               from \in Between <=> to \in Between, from \in Counted <=> to \in Counted,
               to \notin Hitting, UNCHANGED <<hits, tallyVars, completed>>
        PROVE  TallyInv'
    <2>1. B' = B
      BY <1>4, <1>6, MoveCounts DEF Goto, B
    <2>2. C' = C
      BY <1>4, <1>6, MoveCounts DEF Goto, C
    <2>3. HitsKnown'
      BY <1>3, <1>4, <1>6 DEF Goto
    <2> QED
      BY <1>2, <1>3, <1>6, <2>1, <2>2, <2>3 DEF tallyVars
  <1>7. ASSUME wpc' = wpc, UNCHANGED <<hits, tallyVars, completed>>
        PROVE  TallyInv'
    <2>1. B' = B /\ C' = C
      BY <1>7, StayCounts DEF B, C
    <2>2. HitsKnown'
      BY <1>3, <1>7
    <2> QED
      BY <1>2, <1>3, <1>7, <2>1, <2>2 DEF tallyVars
  <1>8. ASSUME NEW w \in WorkerIds, Construct(w) PROVE TallyInv'
    BY <1>6, <1>8, TallyPoints DEF Construct, resultVars
  <1>9. ASSUME NEW w \in WorkerIds, CheckStop(w) PROVE TallyInv'
    BY <1>6, <1>9, TallyPoints DEF CheckStop, resultVars
  <1>10. ASSUME NEW w \in WorkerIds, Claim(w) PROVE TallyInv'
    BY <1>6, <1>10, TallyPoints DEF Claim, resultVars
  <1>11. ASSUME NEW w \in WorkerIds, EmuRun(w) PROVE TallyInv'
    <2>1. PICK n \in 0 .. MaxHits :
              /\ Goto(w, "run", IF n > 0 THEN "tally_functions" ELSE "merge")
              /\ hits' = [hits EXCEPT ![w] = n]
      BY <1>11 DEF EmuRun
    <2>2. limit_hit_functions' = limit_hit_functions /\ limit_hit_total' = limit_hit_total
          /\ completed' = completed
      BY <1>11 DEF EmuRun, tallyVars
    <2>3. B' = B
      BY <1>4, <2>1, MoveCounts, TallyPoints DEF Goto, B
    <2>4. C' = C \/ C' = C + 1
      BY <1>4, <2>1, MoveCounts, TallyPoints DEF Goto, C
    <2>5. HitsKnown'
      BY <1>3, <1>4, <2>1, TallyPoints DEF Goto
    <2>6. Sums(limit_hit_functions', limit_hit_total', completed', B', C')
      BY <1>3, <1>4, <1>5, <2>2, <2>3, <2>4
    <2> QED
      BY <1>2, <2>5, <2>6
  <1>12. ASSUME NEW w \in WorkerIds, TallyFunctions(w) PROVE TallyInv'
    <2>1. /\ Goto(w, "tally_functions", "tally_total")
          /\ limit_hit_functions' = limit_hit_functions + 1
          /\ UNCHANGED <<limit_hit_total, completed, hits>>
      BY <1>12 DEF TallyFunctions, resultVars
    <2>2. B' = B + 1
      BY <1>4, <2>1, MoveCounts, TallyPoints DEF Goto, B
    <2>3. C' = C + 1
      BY <1>4, <2>1, MoveCounts, TallyPoints DEF Goto, C
    <2>4. HitsKnown'
      BY <1>3, <1>4, <2>1, TallyPoints DEF Goto
    <2>5. limit_hit_functions' - B' = limit_hit_functions - B
      BY <1>4, <1>5, <2>1, <2>2
    <2>6. Sums(limit_hit_functions', limit_hit_total', completed', B', C')
      BY <1>3, <1>4, <1>5, <2>1, <2>3, <2>5
    <2> QED
      BY <1>2, <2>4, <2>6
  <1>13. ASSUME NEW w \in WorkerIds, TallyTotal(w) PROVE TallyInv'
    <2>1. /\ Goto(w, "tally_total", "merge")
          /\ limit_hit_total' = limit_hit_total + hits[w]
          /\ UNCHANGED <<limit_hit_functions, completed, hits>>
      BY <1>13 DEF TallyTotal, resultVars
    <2>2. B' = B - 1
      BY <1>4, <2>1, MoveCounts, TallyPoints DEF Goto, B
    <2>3. C' = C
      BY <1>4, <2>1, MoveCounts, TallyPoints DEF Goto, C
    <2>4. HitsKnown'
      BY <1>3, <1>4, <2>1, TallyPoints DEF Goto
    <2>5. hits[w] \in 1 .. MaxHits
      BY <1>3, <1>4, <2>1, TallyPoints DEF Goto
    <2>6. MaxHits * (limit_hit_functions' - B') = MaxHits * (limit_hit_functions - B) + MaxHits
      BY <1>4, <1>5, <2>1, <2>2
    <2>7. Sums(limit_hit_functions', limit_hit_total', completed', B', C')
      BY <1>3, <1>4, <1>5, <2>1, <2>2, <2>3, <2>5, <2>6
    <2> QED
      BY <1>2, <2>4, <2>7
  <1>14. ASSUME NEW w \in WorkerIds, Merge(w) PROVE TallyInv'
    BY <1>6, <1>14, TallyPoints DEF Merge
  <1>15. ASSUME NEW w \in WorkerIds, Complete(w) PROVE TallyInv'
    <2>1. /\ Goto(w, "complete", "check_stop")
          /\ completed' = completed + 1
          /\ UNCHANGED <<limit_hit_functions, limit_hit_total, hits>>
      BY <1>15 DEF Complete, resultVars, tallyVars
    <2>2. B' = B
      BY <1>4, <2>1, MoveCounts, TallyPoints DEF Goto, B
    <2>3. C' = C - 1
      BY <1>4, <2>1, MoveCounts, TallyPoints DEF Goto, C
    <2>4. HitsKnown'
      BY <1>3, <1>4, <2>1, TallyPoints DEF Goto
    <2>5. Sums(limit_hit_functions', limit_hit_total', completed', B', C')
      BY <1>3, <1>4, <1>5, <2>1, <2>2, <2>3
    <2> QED
      BY <1>2, <2>4, <2>5
  <1>16. CASE SpawnWorker
    <2>1. spawned \in WorkerIds
      BY <1>16, ThreadCount DEF SpawnWorker, CountInv, IInv, ThreadsInv, Threads, TypeOK
    <2> QED
      BY <1>6, <1>16, <2>1, TallyPoints DEF SpawnWorker, workerVars, resultVars
  <1>17. CASE NoFunctions \/ PollCompleted \/ PollStop \/ PollUser \/ Join \/ Display
    BY <1>7, <1>17 DEF NoFunctions, PollCompleted, PollStop, PollUser, Join, Display,
                       workerVars, resultVars
  <1>18. CASE UNCHANGED vars
    BY <1>7, <1>18 DEF vars, tallyVars
  <1> QED
    BY <1>8, <1>9, <1>10, <1>11, <1>12, <1>13, <1>14, <1>15, <1>16, <1>17, <1>18
       DEF Next, WorkerStep, MainStep, Returned

\* A batch of no functions never starts a worker (plugin.cpp:140-146).
LEMMA NoWorkersStep ==
    ASSUME CountInv, [Next]_vars PROVE NoWorkers'
  <1> SUFFICES ASSUME total' = 0 PROVE \A w \in WorkerIds : wpc'[w] = "unborn"
    BY DEF NoWorkers
  <1>1. total = 0 /\ \A w \in WorkerIds : wpc[w] = "unborn"
    BY TotalFixed DEF CountInv, NoWorkers
  <1>2. ~ \E w \in WorkerIds : WorkerStep(w)
    BY <1>1 DEF WorkerStep, Construct, CheckStop, Claim, EmuRun, TallyFunctions, TallyTotal,
                Merge, Complete, Goto
  <1>3. wpc' = wpc
    BY <1>1, <1>2 DEF Next, MainStep, Returned, vars, NoFunctions, SpawnWorker, PollCompleted,
                PollStop, PollUser, Join, Display
  <1> QED
    BY <1>1, <1>3

-----------------------------------------------------------------------------

\* CountInv holds in every state of the batch.
THEOREM CountInductive == Spec => []CountInv
  <1>1. CountInv /\ [Next]_vars => CountInv'
    <2>1. ASSUME CountInv, [Next]_vars PROVE IInv'
      BY <2>1, TypeStep, IndexStep, StringsStep, ThreadsStep DEF IInv, CountInv
    <2> QED
      BY <2>1, AccountingStep, TallyStep, NoWorkersStep DEF CountInv
  <1> QED
    BY InitCountInv, <1>1, PTL DEF Spec

\* The progress counter and the workers' functions together are what next_index has handed
\* out, in every interleaving and for any number of workers (plugin.cpp:182-201).
THEOREM ProgressAccounted == Spec => []Accounting
  <1>1. CountInv => Accounting
    BY DEF CountInv
  <1> QED
    BY CountInductive, <1>1, PTL

\* Once the main thread has joined the workers, nobody is on the way from one counter to
\* another.
LEMMA NobodyCounting ==
    ASSUME CountInv, main \in {"aggregate", "returned"}, NEW points, "unborn" \notin points,
           "exited" \notin points
    PROVE  At(points) = {}
  <1>1. ASSUME NEW w \in WorkerIds PROVE wpc[w] \in {"unborn", "exited"}
    <2>1. CASE total = 0
      BY <2>1 DEF CountInv, NoWorkers
    <2>2. CASE total > 0
      BY <2>2 DEF CountInv, IInv, ThreadsInv
    <2> QED
      BY <2>1, <2>2 DEF CountInv, IInv, TypeOK
  <1> QED
    BY <1>1 DEF At

\* The limit warning names no more functions than were run, and for each of them at least
\* one hit and at most what one run can have (plugin.cpp:192-196, 230-236).
THEOREM LimitWarningIsConsistent == Spec => []LimitWarningConsistent
  <1>1. ASSUME CountInv PROVE LimitWarningConsistent
    <2> SUFFICES ASSUME main \in {"aggregate", "returned"}
                 PROVE  /\ limit_hit_functions <= limit_hit_total
                        /\ limit_hit_total <= MaxHits * limit_hit_functions
                        /\ limit_hit_functions <= completed
      BY DEF LimitWarningConsistent
    <2>1. At(Between) = {} /\ At(Counted) = {}
      BY <1>1, NobodyCounting DEF Between, Counted
    <2>2. Cardinality(At(Between)) = 0 /\ Cardinality(At(Counted)) = 0
      BY <2>1, FS_EmptySet
    <2>3. limit_hit_functions \in Nat /\ completed \in Nat
      BY <1>1 DEF CountInv, IInv, TypeOK
    <2>4. TalliedTwice = limit_hit_functions
      BY <2>2, <2>3 DEF TalliedTwice
    <2> QED
      BY <1>1, <2>2, <2>3, <2>4 DEF CountInv, TallyInv
  <1>2. CountInv => LimitWarningConsistent
    BY <1>1
  <1> QED
    BY CountInductive, <1>2, PTL

-----------------------------------------------------------------------------
(* The refinement of FunctionBatch *)

\* results of FunctionBatch, as WorkerPool implements it.
Recording == [f \in AllFunctions |-> Recorded(f)]

\* The window has not opened before the main thread returns.
ShownInv ==
    /\ main # "returned" => aggregated = NotRun
    /\ main \notin {"start", "returned"} => total > 0

\* ShownInv holds in every state.
LEMMA ShownInvariant == Spec => []ShownInv
  <1>1. Init => ShownInv
    BY DEF Init, ShownInv
  <1>2. IInv /\ ShownInv /\ [Next]_vars => ShownInv'
    <2> SUFFICES ASSUME IInv, ShownInv, [Next]_vars PROVE ShownInv'
      OBVIOUS
    <2>1. ASSUME NEW w \in WorkerIds, WorkerStep(w) PROVE UNCHANGED mainVars
      BY <2>1 DEF WorkerStep, Construct, CheckStop, Claim, EmuRun, TallyFunctions,
                  TallyTotal, Merge, Complete
    <2>2. CASE UNCHANGED mainVars
      BY <2>2 DEF ShownInv, mainVars
    <2>3. CASE MainStep
      BY <2>3, TotalFixed DEF ShownInv, MainStep, NoFunctions, SpawnWorker, PollCompleted,
                              PollStop, PollUser, Join, Display
    <2>4. CASE UNCHANGED vars
      BY <2>4 DEF ShownInv, vars
    <2> QED
      BY <2>1, <2>2, <2>3, <2>4 DEF Next, Returned
  <1> QED
    BY Inductive, <1>1, <1>2, PTL DEF Spec

-----------------------------------------------------------------------------
(* What is recorded *)

\* Nothing is recorded or forgotten while no worker starts or ends holding results.
LEMMA RecordingKept ==
    ASSUME reported' = reported, index' = index,
           \A w \in WorkerIds : wpc'[w] \in Unmerged <=> wpc[w] \in Unmerged
    PROVE  Recording' = Recording
  BY DEF Recording, Recorded

\* A claimed function had not been recorded before.
LEMMA ClaimRecordsNothing ==
    ASSUME IInv, NEW w \in WorkerIds, Claim(w)
    PROVE  Recording' = Recording
  <1>1. wpc[w] = "claim" /\ reported' = reported
    BY DEF Claim, Goto, resultVars
  <1>2. /\ wpc \in [WorkerIds -> WorkerStates] /\ index \in [WorkerIds -> Nat]
        /\ next_index \in Nat /\ total \in Nat
    BY TotalFixed, ThreadCount DEF IInv, TypeOK
  <1>3. CASE next_index >= total
    <2>1. wpc' = [wpc EXCEPT ![w] = "exited"] /\ index' = index
      BY <1>2, <1>3 DEF Claim, Goto
    <2>2. \A v \in WorkerIds : wpc'[v] \in Unmerged <=> wpc[v] \in Unmerged
      BY <1>1, <1>2, <2>1 DEF Unmerged
    <2> QED
      BY <1>1, <2>1, <2>2, RecordingKept
  <1>4. CASE next_index < total
    <2>1. wpc' = [wpc EXCEPT ![w] = "run"] /\ index' = [index EXCEPT ![w] = next_index]
      BY <1>2, <1>4 DEF Claim, Goto
    <2>2. \A v \in WorkerIds : v # w => wpc'[v] = wpc[v] /\ index'[v] = index[v]
      BY <1>2, <2>1
    <2>3. wpc'[w] \in Unmerged /\ index'[w] = next_index /\ wpc[w] \notin Unmerged
      BY <1>1, <1>2, <2>1 DEF Unmerged
    <2>4. ASSUME NEW f \in AllFunctions PROVE Recorded(f)' = Recorded(f)
      <3>1. CASE f = next_index
        <4>1. reported[f] = NotRun
          BY <3>1 DEF IInv, IndexInv, TypeOK
        <4> QED
          BY <1>1, <2>3, <3>1, <4>1 DEF Recorded
      <3>2. CASE f # next_index
        <4>1. (\E v \in WorkerIds : wpc'[v] \in Unmerged /\ index'[v] = f)
                <=> (\E v \in WorkerIds : wpc[v] \in Unmerged /\ index[v] = f)
          BY <2>2, <2>3, <3>2
        <4> QED
          BY <1>1, <4>1 DEF Recorded
      <3> QED
        BY <3>1, <3>2
    <2> QED
      BY <2>4 DEF Recording
  <1> QED
    BY <1>2, <1>3, <1>4

\* What a run reports is recorded by the merge, not by the run.
LEMMA RunRecordsNothing ==
    ASSUME IInv, NEW w \in WorkerIds, EmuRun(w)
    PROVE  Recording' = Recording
  <1>1. PICK found \in SUBSET Strings, n \in 0 .. MaxHits :
             /\ wpc[w] = "run"
             /\ wpc' = [wpc EXCEPT ![w] = IF n > 0 THEN "tally_functions" ELSE "merge"]
             /\ reported' = [reported EXCEPT ![index[w]] = found]
             /\ index' = index
    BY DEF EmuRun, Goto, claimVars
  <1>2. /\ wpc \in [WorkerIds -> WorkerStates]
        /\ reported \in [AllFunctions -> {NotRun} \cup SUBSET Strings]
    BY DEF IInv, TypeOK
  <1>3. \A v \in WorkerIds : wpc'[v] \in Unmerged <=> wpc[v] \in Unmerged
    BY <1>1, <1>2 DEF Unmerged
  <1>4. wpc[w] \in Unmerged
    BY <1>1 DEF Unmerged
  <1>5. ASSUME NEW f \in AllFunctions PROVE Recorded(f)' = Recorded(f)
    <2>1. CASE f = index[w]
      BY <1>1, <1>3, <1>4, <2>1 DEF Recorded
    <2>2. CASE f # index[w]
      <3>1. reported'[f] = reported[f]
        BY <1>1, <1>2, <2>2
      <3> QED
        BY <1>1, <1>3, <3>1 DEF Recorded
    <2> QED
      BY <2>1, <2>2
  <1> QED
    BY <1>5 DEF Recording

\* A merge records the function the worker holds, and the strings its run reported.
LEMMA MergeRecords ==
    ASSUME IInv, NEW w \in WorkerIds, Merge(w)
    PROVE  /\ index[w] \in Functions
           /\ string_list[w] \in SUBSET Strings
           /\ Recording[index[w]] = NotRun
           /\ Recording' = [Recording EXCEPT ![index[w]] = string_list[w]]
  <1>1. /\ wpc[w] = "merge" /\ wpc' = [wpc EXCEPT ![w] = "complete"]
        /\ index' = index /\ reported' = reported
    BY DEF Merge, Goto, claimVars
  <1>2. wpc \in [WorkerIds -> WorkerStates] /\ string_list \in [WorkerIds -> SUBSET Strings]
    BY DEF IInv, TypeOK
  <1>3. wpc[w] \in Unmerged /\ wpc[w] \in InFlight /\ wpc[w] \in Holding
    BY <1>1 DEF Unmerged, InFlight, Holding
  <1>4. index[w] \in Functions /\ index[w] \in AllFunctions
    BY <1>3, ThreadCount DEF IInv, TypeOK
  <1>5. reported[index[w]] = string_list[w]
    BY <1>3 DEF IInv, StringsInv
  <1>6. \A v \in WorkerIds : v # w => wpc'[v] = wpc[v]
    BY <1>1, <1>2
  <1>7. wpc'[w] \notin Unmerged
    BY <1>1, <1>2 DEF Unmerged
  <1>8. Recorded(index[w]) = NotRun
    BY <1>3 DEF Recorded
  <1>9. Recorded(index[w])' = string_list[w]
    <2>1. ~ \E v \in WorkerIds : wpc'[v] \in Unmerged /\ index'[v] = index[w]
      BY <1>1, <1>3, <1>6, <1>7 DEF IInv, IndexInv, InFlight
    <2> QED
      BY <1>1, <1>5, <2>1 DEF Recorded
  <1>10. ASSUME NEW f \in AllFunctions, f # index[w] PROVE Recorded(f)' = Recorded(f)
    <2>1. (\E v \in WorkerIds : wpc'[v] \in Unmerged /\ index'[v] = f)
            <=> (\E v \in WorkerIds : wpc[v] \in Unmerged /\ index[v] = f)
      BY <1>1, <1>6, <1>7, <1>10
    <2> QED
      BY <1>1, <2>1 DEF Recorded
  <1>11. Recording' = [Recording EXCEPT ![index[w]] = string_list[w]]
    <2> DEFINE updated == [Recording EXCEPT ![index[w]] = string_list[w]]
    <2>1. ASSUME NEW f \in AllFunctions PROVE updated[f] = Recording'[f]
      <3>1. CASE f = index[w]
        BY <1>1, <1>9, <3>1 DEF Recording
      <3>2. CASE f # index[w]
        BY <1>10, <3>2 DEF Recording
      <3> QED
        BY <3>1, <3>2
    <2>2. /\ updated = [f \in AllFunctions |-> updated[f]]
          /\ Recording' = [f \in AllFunctions |-> Recording'[f]]
      BY DEF Recording
    <2> HIDE DEF updated
    <2>3. Recording' = updated
      BY <2>1, <2>2
    <2> QED
      BY <2>3 DEF updated
  <1> QED
    BY <1>2, <1>4, <1>8, <1>11 DEF Recording

-----------------------------------------------------------------------------
(* The refinement *)

\* The batch starts with nothing recorded.
LEMMA InitSimulated == Init => Batch!BatchInit
  <1> SUFFICES ASSUME Init PROVE Batch!BatchInit
    OBVIOUS
  <1>1. /\ total \in 0 .. MaxFunctions /\ stop_requested = FALSE /\ aggregated = NotRun
        /\ \A f \in AllFunctions : reported[f] = NotRun
    BY DEF Init
  <1>2. \A f \in AllFunctions : Recorded(f) = NotRun
    BY <1>1 DEF Recorded
  <1> QED
    BY <1>1, <1>2 DEF Batch!BatchInit, Batch!BatchFunctions, AllFunctions

\* A step that changes none of total, Recording, stop_requested and aggregated is a
\* stuttering step of the batch.
LEMMA Stutters ==
    ASSUME UNCHANGED <<total, Recording, stop_requested, aggregated>>
    PROVE  UNCHANGED Batch!batchVars
  BY DEF Batch!batchVars, Recording

\* Opening the window is Show.
LEMMA DisplaySimulated ==
    ASSUME IInv, IInv', ShownInv, Display
    PROVE  Batch!Show
  <1>1. main = "aggregate" /\ main' = "returned" /\ total > 0
    BY DEF Display, ShownInv
  <1>2. UNCHANGED <<total, wpc, index, reported, stop_requested>>
    BY DEF Display, workerVars, claimVars, resultVars
  <1>3. aggregated = NotRun
    BY <1>1 DEF ShownInv
  <1>4. NoResultLost'
    BY NothingLost, PTL
  <1>5. Functions' = Functions
    BY <1>2 DEF Functions
  <1>6. /\ aggregated' = UNION {reported[f] : f \in {g \in Functions : reported[g] # NotRun}}
        /\ stop_requested \/ \A f \in Functions : reported[f] # NotRun
    BY <1>1, <1>2, <1>4, <1>5 DEF NoResultLost
  <1>7. \A w \in WorkerIds : wpc[w] \notin Unmerged
    BY <1>1 DEF IInv, ThreadsInv, Unmerged
  <1>8. Functions \subseteq AllFunctions
    BY ThreadCount DEF IInv, TypeOK
  <1>9. \A f \in Functions : Recording[f] = reported[f]
    BY <1>7, <1>8 DEF Recording, Recorded
  <1>10. Recording' = Recording
    BY <1>2, RecordingKept
  <1>11. {g \in Functions : Recording[g] # NotRun} = {g \in Functions : reported[g] # NotRun}
    BY <1>9
  <1>12. aggregated' = UNION {Recording[f] : f \in {g \in Functions : Recording[g] # NotRun}}
    BY <1>6, <1>9, <1>11
  <1>13. stop_requested \/ \A f \in Functions : Recording[f] # NotRun
    BY <1>6, <1>9
  <1> QED
    BY <1>2, <1>3, <1>10, <1>12, <1>13
       DEF Batch!Show, Batch!BatchFunctions, Functions, Recording

\* Every step of the pool is a step of the batch, or leaves it as it is.
LEMMA StepSimulated ==
    ASSUME IInv, IInv', ShownInv, [Next]_vars
    PROVE  [Batch!BatchNext]_(Batch!batchVars)
  <1> USE DEF IInv, TypeOK
  <1>1. ASSUME NEW w \in WorkerIds, Construct(w)
        PROVE  [Batch!BatchNext]_(Batch!batchVars)
    <2>1. /\ UNCHANGED <<total, aggregated, reported, index>>
          /\ stop_requested' \in {stop_requested, TRUE}
          /\ \A v \in WorkerIds : wpc'[v] \in Unmerged <=> wpc[v] \in Unmerged
      BY <1>1 DEF Construct, Goto, mainVars, resultVars, claimVars, Unmerged
    <2>2. Recording' = Recording
      BY <2>1, RecordingKept
    <2>3. CASE stop_requested' = TRUE
      BY <2>1, <2>2, <2>3 DEF Batch!BatchNext, Batch!Stop, Recording
    <2> QED
      BY <2>1, <2>2, <2>3, Stutters
  <1>2. ASSUME NEW w \in WorkerIds,
               CheckStop(w) \/ TallyFunctions(w) \/ TallyTotal(w) \/ Complete(w)
        PROVE  [Batch!BatchNext]_(Batch!batchVars)
    <2>1. /\ UNCHANGED <<total, aggregated, reported, index, stop_requested>>
          /\ \A v \in WorkerIds : wpc'[v] \in Unmerged <=> wpc[v] \in Unmerged
      BY <1>2 DEF CheckStop, TallyFunctions, TallyTotal, Complete, Goto, mainVars,
                  resultVars, claimVars, Unmerged
    <2> QED
      BY <2>1, RecordingKept, Stutters
  <1>3. ASSUME NEW w \in WorkerIds, Claim(w) \/ EmuRun(w)
        PROVE  [Batch!BatchNext]_(Batch!batchVars)
    <2>1. UNCHANGED <<total, aggregated, stop_requested>>
      BY <1>3 DEF Claim, EmuRun, mainVars
    <2>2. Recording' = Recording
      BY <1>3, ClaimRecordsNothing, RunRecordsNothing
    <2> QED
      BY <2>1, <2>2, Stutters
  <1>4. ASSUME NEW w \in WorkerIds, Merge(w)
        PROVE  [Batch!BatchNext]_(Batch!batchVars)
    <2>1. UNCHANGED <<total, aggregated, stop_requested>> /\ wpc[w] = "merge"
      BY <1>4 DEF Merge, mainVars, Goto
    <2>2. /\ index[w] \in Functions
          /\ string_list[w] \in SUBSET Strings
          /\ Recording[index[w]] = NotRun
          /\ Recording' = [Recording EXCEPT ![index[w]] = string_list[w]]
      BY <1>4, MergeRecords
    <2>3. total > 0
      BY <2>2 DEF Functions
    <2>4. aggregated = NotRun
      BY <2>1, <2>3, NothingHeld DEF ShownInv
    <2>5. Batch!Record(index[w], string_list[w])
      BY <2>1, <2>2, <2>4 DEF Batch!Record, Recording
    <2> QED
      BY <2>2, <2>5 DEF Batch!BatchNext, Batch!BatchFunctions, Functions
  <1>5. ASSUME NoFunctions \/ PollCompleted \/ PollStop \/ Join
        PROVE  [Batch!BatchNext]_(Batch!batchVars)
    <2>1. UNCHANGED <<total, aggregated, reported, index, stop_requested, wpc>>
      BY <1>5 DEF NoFunctions, PollCompleted, PollStop, Join, workerVars, claimVars,
                  resultVars
    <2> QED
      BY <2>1, RecordingKept, Stutters
  <1>6. ASSUME SpawnWorker
        PROVE  [Batch!BatchNext]_(Batch!batchVars)
    <2>1. /\ UNCHANGED <<total, aggregated, reported, index, stop_requested>>
          /\ \A v \in WorkerIds : wpc'[v] \in Unmerged <=> wpc[v] \in Unmerged
      BY <1>6 DEF SpawnWorker, Goto, workerVars, claimVars, resultVars, Unmerged
    <2> QED
      BY <2>1, RecordingKept, Stutters
  <1>7. ASSUME PollUser
        PROVE  [Batch!BatchNext]_(Batch!batchVars)
    <2>1. /\ UNCHANGED <<total, aggregated, reported, index, wpc>>
          /\ stop_requested' \in {stop_requested, TRUE}
      BY <1>7 DEF PollUser, workerVars, claimVars, resultVars
    <2>2. Recording' = Recording
      BY <2>1, RecordingKept
    <2>3. CASE stop_requested' = TRUE
      BY <2>1, <2>2, <2>3 DEF Batch!BatchNext, Batch!Stop, Recording
    <2> QED
      BY <2>1, <2>2, <2>3, Stutters
  <1>8. ASSUME Display
        PROVE  [Batch!BatchNext]_(Batch!batchVars)
    BY <1>8, DisplaySimulated DEF Batch!BatchNext
  <1>9. ASSUME UNCHANGED vars
        PROVE  [Batch!BatchNext]_(Batch!batchVars)
    <2>1. UNCHANGED <<total, aggregated, reported, index, stop_requested, wpc>>
      BY <1>9 DEF vars
    <2> QED
      BY <2>1, RecordingKept, Stutters
  <1> QED
    BY <1>1, <1>2, <1>3, <1>4, <1>5, <1>6, <1>7, <1>8, <1>9
       DEF Next, MainStep, WorkerStep, Returned

\* The threads of run_on_all_functions implement the sequential promise: every
\* function is recorded at most once, with what its run reported, and the window
\* shows exactly what is recorded, once all is or the batch was stopped
\* (plugin.cpp:136-241).
THEOREM PoolImplementsBatch == Spec => ImplementsBatch
  BY Inductive, ShownInvariant, InitSimulated, StepSimulated, PTL
     DEF Spec, ImplementsBatch, Batch!BatchSpec
=============================================================================
