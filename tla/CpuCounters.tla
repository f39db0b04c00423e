------------------------------- MODULE CpuCounters -------------------------------
(***************************************************************************)
(* The part of HostMetricsReader.ReadCPU that works on differences: usage  *)
(* from the kernel's CPU times, per host and per core, and power from the  *)
(* RAPL energy counter.  The telemetry loop is the only caller; between    *)
(* two calls the counters move, go backwards (idle and iowait times do),   *)
(* wrap, cores come and go, and any of the three reads may fail, so that   *)
(* the next difference spans several ticks.  Every core has counters of    *)
(* its own, but the list gopsutil returns does not say whose they are: the *)
(* reader matches it with the last one by length alone.                    *)
(***************************************************************************)
EXTENDS Integers, Sequences, SequencesExt

CONSTANTS
    Nil,        \* no earlier sample
    MaxCores,   \* bound on the number of cores
    MaxTime,    \* bound on the busy time, in clock ticks
    MaxIdle,    \* bound on the idle time
    MaxEnergy,  \* the energy counter wraps here: max_energy_range_uj
    Width,      \* 2^64 in the code: uint64 subtraction wraps here
    Workloads,  \* what a host may go through
    MaxGap      \* bound on the time between two energy samples

Times == [busy : 0..MaxTime, idle : 0..MaxIdle]

\* A tick adds to the times of the host and of each core, and uses energy.
Ticks == [host : Times, cores : [1..MaxCores -> Times], used : Nat]

\* Both counters wrap somewhere, the bounds on the times are numbers, and a
\* workload is the ticks there may be, the times a new core may come with, and
\* whether those of the host or of the cores are ever corrected.
CountersAssumption ==
    /\ MaxEnergy \in Nat \ {0} /\ Width \in Nat \ {0}
    /\ MaxTime \in Nat /\ MaxIdle \in Nat /\ MaxCores \in Nat \ {0}
    /\ \A w \in Workloads : w.ticks \subseteq Ticks /\ w.plugs \subseteq Times /\ w.corrects \subseteq {"host", "cores"}

VARIABLES
    workload,    \* what this host goes through
    times,       \* the kernel's CPU times of the host
    cores,       \* and of each core that is online
    energy,      \* energy_uj
    lastCPUTimes, lastCoresCPUTimes, lastEnergy,   \* the reader's last samples
    gap,         \* time since the last energy sample
    usage, coresUsage, power,   \* the metrics just read
    spent,       \* history: energy used since the last energy sample
    back,        \* history: since the last sample, times of "host" or "cores" went
                 \* backwards, or cores were "plugged"
    owed         \* history: energy and time the last reported power is about

hostVars == <<workload, times, cores, energy>>
lastVars == <<lastCPUTimes, lastCoresCPUTimes, lastEnergy>>
metricVars == <<usage, coresUsage, power>>
historyVars == <<gap, spent, back>>
vars == <<hostVars, lastVars, metricVars, historyVars, owed>>

NoPower == [energy |-> 0, gap |-> 1]

\* The metrics of a read are gone with its payload.
Broadcast == usage' = 0 /\ coresUsage' = <<>> /\ power' = 0 /\ owed' = NoPower

\* NewHostMetricsReader takes a first sample of the CPU times if it can.
Init ==
    /\ workload \in Workloads
    /\ times = [busy |-> 0, idle |-> 0] /\ energy = 0
    /\ \E n \in 1..MaxCores : cores = [i \in 1..n |-> times]
    /\ lastCPUTimes \in {Nil, times} /\ lastCoresCPUTimes \in {Nil, cores}
    /\ lastEnergy = Nil
    /\ usage = 0 /\ coresUsage = <<>> /\ power = 0
    /\ gap = 0 /\ spent = 0 /\ back = {} /\ owed = NoPower

--------------------------------------------------------------------------------
(* The host                                                                *)

Later(t, more) == [busy |-> t.busy + more.busy, idle |-> t.idle + more.idle]

\* Time passes: the host and each core are busy or idle, energy is used.
Run(tick) ==
    /\ gap < MaxGap
    /\ times' = Later(times, tick.host) /\ times' \in Times
    /\ cores' = [i \in DOMAIN cores |-> Later(cores[i], tick.cores[i])]
    /\ \A i \in DOMAIN cores : cores'[i] \in Times
    /\ energy' = (energy + tick.used) % MaxEnergy
    /\ spent' = spent + tick.used /\ gap' = gap + 1
    /\ Broadcast
    /\ UNCHANGED <<workload, lastVars, back>>

\* Times of which one is less.
Earlier(t) == {[t EXCEPT !.busy = @ - 1] : x \in {1} \cap 1..t.busy}
              \cup {[t EXCEPT !.idle = @ - 1] : x \in {1} \cap 1..t.idle}

\* A counter the kernel estimates is corrected downwards.
StepBack ==
    /\ \/ /\ "host" \in workload.corrects
          /\ times' \in Earlier(times) /\ back' = back \cup {"host"} /\ UNCHANGED cores
       \/ /\ "cores" \in workload.corrects
          /\ \E i \in DOMAIN cores : \E t \in Earlier(cores[i]) : cores' = [cores EXCEPT ![i] = t]
          /\ back' = back \cup {"cores"} /\ UNCHANGED times
    /\ Broadcast
    /\ UNCHANGED <<workload, energy, lastVars, gap, spent>>

\* A core goes, or one comes anywhere in the list with counters of its own.
Hotplug ==
    /\ workload.plugs # {}
    /\ \/ Len(cores) > 1 /\ \E i \in DOMAIN cores : cores' = RemoveAt(cores, i)
       \/ /\ Len(cores) < MaxCores
          /\ \E i \in 1..Len(cores) + 1, t \in workload.plugs : cores' = InsertAt(cores, i, t)
    /\ back' = back \cup {"plugged"}
    /\ Broadcast
    /\ UNCHANGED <<workload, times, energy, lastVars, gap, spent>>

--------------------------------------------------------------------------------
(* ReadCPU                                                                 *)

CalculateCPUUsage(last, current) ==
    LET totalDiff == (current.busy + current.idle) - (last.busy + last.idle)
        busyDiff == current.busy - last.busy
    IN  IF totalDiff <= 0 THEN 0 ELSE (busyDiff * 100) \div totalDiff

UsageOf(ok) ==
    /\ usage' = IF ok /\ lastCPUTimes # Nil THEN CalculateCPUUsage(lastCPUTimes, times) ELSE 0
    /\ lastCPUTimes' = IF ok THEN times ELSE lastCPUTimes

MatchedShorter == lastCoresCPUTimes # Nil /\ Len(lastCoresCPUTimes) >= Len(cores)

\* A list of the same length counts as one of the same cores; with any
\* other, every core reports 0.
Matched == lastCoresCPUTimes # Nil /\ Len(lastCoresCPUTimes) = Len(cores)

CoresUsageOf(ok) ==
    /\ coresUsage' =
        IF ok THEN [i \in DOMAIN cores |-> IF Matched THEN CalculateCPUUsage(lastCoresCPUTimes[i], cores[i]) ELSE 0]
        ELSE <<>>
    /\ lastCoresCPUTimes' = IF ok THEN cores ELSE lastCoresCPUTimes

EnergyDiffWraps(now, last) == (now - last) % Width

\* A counter that wrapped counts for nothing.
EnergyDiff(now, last) == IF now >= last THEN (now - last) % Width ELSE 0

PowerOf(ok) ==
    /\ power' = IF ok /\ lastEnergy # Nil /\ gap > 0 THEN EnergyDiff(energy, lastEnergy) \div gap ELSE 0
    /\ lastEnergy' = IF ok THEN energy ELSE lastEnergy
    /\ owed' = IF ok /\ lastEnergy # Nil /\ gap > 0 THEN [energy |-> spent, gap |-> gap]
               ELSE NoPower
    /\ IF ok THEN spent' = 0 /\ gap' = 0 ELSE UNCHANGED <<spent, gap>>

ReadCPU(timesOk, coresOk, energyOk) ==
    /\ UsageOf(timesOk) /\ CoresUsageOf(coresOk) /\ PowerOf(energyOk)
    /\ back' = back \ ((IF timesOk THEN {"host"} ELSE {}) \cup (IF coresOk THEN {"cores", "plugged"} ELSE {}))
    /\ UNCHANGED hostVars

--------------------------------------------------------------------------------
Next ==
    \/ \E tick \in workload.ticks : Run(tick)
    \/ StepBack \/ Hotplug
    \/ \E timesOk, coresOk, energyOk \in BOOLEAN : ReadCPU(timesOk, coresOk, energyOk)

Spec == Init /\ [][Next]_vars

--------------------------------------------------------------------------------
(* Properties                                                              *)

(* The variables' types; the samples are of the times' shape.              *)
TypeOK ==
    /\ workload \in Workloads /\ times \in Times /\ energy \in 0..MaxEnergy - 1
    /\ cores \in Seq(Times) /\ Len(cores) \in 1..MaxCores
    /\ lastCPUTimes = Nil \/ lastCPUTimes \in Times
    /\ lastCoresCPUTimes = Nil \/ lastCoresCPUTimes \in Seq(Times)
    /\ lastEnergy = Nil \/ lastEnergy \in 0..MaxEnergy - 1
    /\ usage \in Int /\ coresUsage \in Seq(Int) /\ power \in Nat

\* The list now may be of other cores than the last one, or of earlier times.
Exchanged ==
    /\ lastCoresCPUTimes # Nil /\ Len(lastCoresCPUTimes) = Len(cores)
    /\ back \cap {"cores", "plugged"} # {}

ReportsPercentage ==
    /\ "host" \notin back => usage' \in 0..100
    /\ ~Exchanged => \A i \in DOMAIN coresUsage' : coresUsage'[i] \in 0..100

ReportsPower == power' * owed'.gap <= owed'.energy

(* Over failed reads, cores that come and go and intervals without any CPU *)
(* time, a reported usage is a percentage, and the sample after one that   *)
(* is not is one again.  Two exceptions: a counter of the host or of a     *)
(* core that went backwards since the sample the usage starts from, and    *)
(* cores that were exchanged since then for as many others, whose counters *)
(* are then subtracted from one another.  Between lists of different       *)
(* lengths nothing is ever subtracted.  The reported power never exceeds   *)
(* what the package really used since the previous sample, however often   *)
(* the counter wrapped or could not be read in between.                    *)
ReportsAreSound == [][ReportsPercentage /\ ReportsPower]_<<usage, coresUsage, power, owed>>
================================================================================
