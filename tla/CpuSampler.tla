----------------------------- MODULE CpuSampler -----------------------------
(***************************************************************************)
(* The CPU shares of the admin dashboard (src/admin.cpp,                   *)
(* build_stats_json).  Each poll runs on a thread of its own: it lists the *)
(* workers and reads the system's counters, then takes cpu_mutex_ for the  *)
(* system's share, and once more for the workers' shares and to put its    *)
(* samples in the place of the last poll's.  Polls overlap, also those of  *)
(* one dashboard: its page starts one every two seconds, and one after     *)
(* each stop or reload, whether or not the last has been answered.  The    *)
(* counters only grow, and their differences are unsigned.  A worker that  *)
(* is gone reads as 0 ticks.                                               *)
(***************************************************************************)
EXTENDS Integers

CONSTANTS
    Workers,   \* the worker processes
    Pollers,   \* the polls that may be under way at a time
    MaxTicks,  \* bound on the ticks of the system
    CounterModulus    \* 2^64

\* The key of the system's sample: 0, which is no worker's pid.
System == "system"

ASSUME CpuSamplerOK ==
    /\ MaxTicks \in Nat /\ CounterModulus \in Nat /\ MaxTicks < CounterModulus
    /\ System \notin Workers

VARIABLES
    total, idle, ticks,  \* the counters of the system and of each worker
    alive,               \* the workers that run
    at,                  \* how far each poll is
    seen,                \* what each poll listed and read
    samples,             \* cpu_samples_
    system, share        \* the last shares computed: of the system, of each worker

clock == <<total, idle, ticks, alive>>
cpuVars  == <<clock, at, seen, samples, system, share>>

Counter == 0 .. MaxTicks
NoSample    == [proc |-> -1, total |-> -1]
Sample  == [proc : Counter, total : Counter] \cup {NoSample}

\* The two differences a share is made of; what is displayed is part / whole, or
\* for the system, whose part is the idle one, 1 - part / whole.
NoShare == [part |-> 0, whole |-> 0]
Shares  == [part : 0 .. CounterModulus - 1, whole : 0 .. CounterModulus - 1]

CpuTypeOK ==
    /\ total \in Counter /\ idle \in 0 .. total /\ ticks \in [Workers -> 0 .. total]
    /\ alive \subseteq Workers
    /\ at \in [Pollers -> {"off", "read", "half"}]
    /\ seen \in [Pollers -> [workers : SUBSET Workers, idle : Counter, total : Counter]]
    /\ samples \in [Workers \cup {System} -> Sample]
    /\ system \in Shares /\ share \in [Workers -> Shares]

CpuInit ==
    /\ total = 0 /\ idle = 0 /\ ticks = [w \in Workers |-> 0] /\ alive = Workers
    /\ at = [p \in Pollers |-> "off"]
    /\ seen = [p \in Pollers |-> [workers |-> {}, idle |-> 0, total |-> 0]]
    /\ samples = [x \in Workers \cup {System} |-> NoSample]
    /\ system = NoShare /\ share = [w \in Workers |-> NoShare]

Minus(a, b) == (a - b) % CounterModulus

\* What is computed from two counters and the sample of them, unless no tick of
\* the system is between them.
ShareOf(part, whole, old) ==
    IF old = NoSample \/ Minus(whole, old.total) = 0 THEN NoShare
    ELSE [part |-> Minus(part, old.proc), whole |-> Minus(whole, old.total)]

\* Time passes: the system is idle, runs a worker, or something else.
Tick ==
    /\ total < MaxTicks
    /\ total' = total + 1
    /\ \/ idle' = idle + 1 /\ UNCHANGED ticks
       \/ \E w \in alive : ticks' = [ticks EXCEPT ![w] = @ + 1] /\ UNCHANGED idle
       \/ UNCHANGED <<idle, ticks>>
    /\ UNCHANGED <<alive, at, seen, samples, system, share>>

Exit(w) ==
    /\ w \in alive
    /\ alive' = alive \ {w}
    /\ UNCHANGED <<total, idle, ticks, at, seen, samples, system, share>>

\* snapshot(), read_system_cpu()
Read(p) ==
    /\ at[p] = "off"
    /\ at' = [at EXCEPT ![p] = "read"]
    /\ seen' = [seen EXCEPT ![p] = [workers |-> alive, idle |-> idle, total |-> total]]
    /\ UNCHANGED <<clock, samples, system, share>>

\* The first time under cpu_mutex_.
ShareOfSystem(p) ==
    /\ at[p] = "read"
    /\ at' = [at EXCEPT ![p] = "half"]
    /\ system' = ShareOf(seen[p].idle, seen[p].total, samples[System])
    /\ UNCHANGED <<clock, seen, samples, share>>

\* read_proc_cpu_ticks()
TicksOf(w) == IF w \in alive THEN ticks[w] ELSE 0

SystemSample(p) == [proc |-> seen[p].idle, total |-> seen[p].total]

\* Faulty: the two numbers of a sample in the wrong order.
SampleSwapped(p, w) == [proc |-> seen[p].total, total |-> TicksOf(w)]

\* The ticks are read under the mutex, the system's counter was read before it.
WorkerSample(p, w) == [proc |-> TicksOf(w), total |-> seen[p].total]

\* The samples that replace the last poll's.
Fresh(p) ==
    [x \in Workers \cup {System} |->
        IF x = System THEN SystemSample(p)
        ELSE IF x \in seen[p].workers THEN WorkerSample(p, x)
        ELSE NoSample]

\* The second time.  The ticks of all workers are read at one instant: nothing
\* compares one worker's with another's.
ShareOfWorkers(p) ==
    /\ at[p] = "half"
    /\ at' = [at EXCEPT ![p] = "off"]
    /\ share' = [w \in Workers |->
           IF w \in seen[p].workers THEN ShareOf(TicksOf(w), seen[p].total, samples[w])
           ELSE NoShare]
    /\ samples' = Fresh(p)
    /\ UNCHANGED <<clock, seen, system>>

CpuNext ==
    \/ Tick \/ \E w \in Workers : Exit(w)
    \/ \E p \in Pollers : Read(p) \/ ShareOfSystem(p) \/ ShareOfWorkers(p)

CpuSpec == CpuInit /\ [][CpuNext]_cpuVars

-----------------------------------------------------------------------------
\* Another poll that read the system's counters later has left its sample first.
Overtaken(p) == samples[System] # NoSample /\ seen[p].total < samples[System].total

IsShare(s) == s.part <= s.whole /\ s.whole <= total

\* However polls overlap, the shares are those of an interval unless the poll was
\* overtaken; and overtaken or not, the ticks of a worker that still runs are not
\* below those of the sample they are compared with: only the system's counters
\* are read before the mutex is taken (admin.cpp:466, 498).
SharesAreSound ==
    [][\A p \in Pollers :
          /\ ShareOfSystem(p) /\ ~Overtaken(p) => IsShare(system)'
          /\ ShareOfWorkers(p) => \A w \in alive :
                /\ share'[w].part <= ticks[w]
                /\ ~Overtaken(p) => share'[w].whole <= total]_cpuVars
=============================================================================
