-------------------------- MODULE ProcessorUsage --------------------------
(***************************************************************************)
(* SystemPerformanceProvider: the use of the processors between two queries. *)
(* The system's counters grow as it likes; the kernel's time includes the    *)
(* idle time.  A query may fail, and the number of processors may change     *)
(* between two of them.                                                      *)
(***************************************************************************)
EXTENDS Integers

CONSTANTS Threads,    \* the largest number of processors
          MaxCount    \* bound on the counters

ASSUME UsageAssumption == Threads \in Nat \ {0} /\ MaxCount \in Nat

VARIABLES
    active,         \* the number of active processors
    times,          \* the system's counters of each processor
    previousCount,  \* previous_count_
    previousTimes,  \* previous_times_
    usage,          \* what the last Collect appended, as busy time of total time
    queried         \* the counters at the last query that succeeded (history)

usageVars == <<active, times, previousCount, previousTimes, usage, queried>>

Times == [idle : 0..MaxCount, kernel : 0..MaxCount, user : 0..MaxCount]
NoTime == [idle |-> 0, kernel |-> 0, user |-> 0]
None == [busy |-> 0, total |-> -1]

UsageTypeOK ==
    /\ active \in 1..Threads /\ previousCount \in 0..Threads
    /\ times \in [1..Threads -> Times]
    /\ previousTimes \in [1..Threads -> Times]
    /\ queried \in [1..Threads -> Times]
    /\ usage \in [1..Threads -> [busy : 0..2 * MaxCount, total : -1..2 * MaxCount]]

UsageInit ==
    /\ active \in 1..Threads
    /\ times = [t \in 1..Threads |-> NoTime]
    /\ previousTimes = times /\ queried = times
    /\ previousCount = 0
    /\ usage = [t \in 1..Threads |-> None]

\* Mutant: an idle counter that went back is not looked at.
ComputeIdleUnchecked(p, c) ==
    LET total == (c.kernel - p.kernel) + (c.user - p.user)
        idle == c.idle - p.idle
    IN IF \/ c.kernel < p.kernel \/ c.user < p.user
          \/ total = 0 \/ idle > total
       THEN [busy |-> 0, total |-> 0]
       ELSE [busy |-> total - idle, total |-> total]

\* ComputeProcessorUsage: zero for counters that went back, for no time at all and
\* for more idle time than there was; the division to percent is left out.
ComputeProcessorUsage(p, c) ==
    LET total == (c.kernel - p.kernel) + (c.user - p.user)
        idle == c.idle - p.idle
    IN IF \/ c.kernel < p.kernel \/ c.user < p.user \/ c.idle < p.idle
          \/ total = 0 \/ idle > total
       THEN [busy |-> 0, total |-> 0]
       ELSE [busy |-> total - idle, total |-> total]

\* Mutant: a previous sample is enough, of however many processors.
SampledOnce == [t \in 1..Threads |->
                  IF t <= active /\ previousCount # 0
                  THEN ComputeProcessorUsage(previousTimes[t], times[t]) ELSE None]
\* A usage needs two queries of as many processors.
Sampled == [t \in 1..Threads |->
               IF t <= active /\ previousCount = active
               THEN ComputeProcessorUsage(previousTimes[t], times[t]) ELSE None]

Query ==
    /\ usage' = Sampled
    /\ previousTimes' = [t \in 1..Threads |-> IF t <= active THEN times[t] ELSE NoTime]
    /\ previousCount' = active
    /\ queried' = times
    /\ UNCHANGED <<active, times>>

\* The query fails: nothing is appended and the previous sample stays.
QueryFails == /\ usage' = [t \in 1..Threads |-> None]
              /\ UNCHANGED <<active, times, previousCount, previousTimes, queried>>

\* What happens between two calls: some processor was idle, in its kernel or in
\* user code, or its idle time was taken back.
Run(t) ==
    /\ \/ times' = [times EXCEPT ![t].idle = @ + 1, ![t].kernel = @ + 1]
       \/ times' = [times EXCEPT ![t].kernel = @ + 1]
       \/ times' = [times EXCEPT ![t].user = @ + 1]
       \/ times' = [times EXCEPT ![t].idle = @ - 1]
    /\ times'[t] \in Times
    /\ UNCHANGED <<active, previousCount, previousTimes, usage, queried>>

ChangeActive == /\ active' \in (1..Threads) \ {active}
                /\ UNCHANGED <<times, previousCount, previousTimes, usage, queried>>

UsageNext == Query \/ QueryFails \/ ChangeActive \/ \E t \in 1..Threads : Run(t)
UsageSpec == UsageInit /\ [][UsageNext]_usageVars

-----------------------------------------------------------------------------
(* What is appended is the use since the last query that succeeded, however many *)
(* failed in between and whatever became of the number of processors: a          *)
(* processor is never shown against counters of another time                     *)
(* (system_performance_provider.cpp:71-79, 91-119).                                *)
UsageIsSinceLastQuery ==
    [][\A t \in 1..Threads :
          (usage'[t] # None /\ queried' = times /\ previousCount' = active /\ usage' # usage) =>
              usage'[t] = ComputeProcessorUsage(queried[t], times[t])]_usageVars

(* The share is at most the whole, also when no time has passed and when the     *)
(* idle counter was taken back (system_performance_provider.cpp:72-78).           *)
ShareIsAtMostTheWhole == \A t \in 1..Threads : usage[t] # None => usage[t].busy \in 0..usage[t].total
=============================================================================
