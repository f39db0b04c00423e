--------------------------------- MODULE Sensors ---------------------------------
(***************************************************************************)
(* HostMetricsReader without its counters: where each metric of a payload  *)
(* comes from, and the support flags that go with it.                      *)
(*                                                                         *)
(* The files of sysfs, gopsutil's answers and nvidia-smi are "files" that  *)
(* are absent, garbled (there, but not parsed) or ok, and change between   *)
(* reads as drivers come and go.  A metric's value is the set of files it  *)
(* was computed from, empty for the zero value; of the CPU's usage and     *)
(* power, that is the sample, and CpuCounters has the difference.  The     *)
(* flags live in the reader: what a read does not assign, an earlier read  *)
(* decided.                                                                *)
(***************************************************************************)
EXTENDS Integers, Sequences, FiniteSets

CONSTANTS
    Hosts,     \* what the files may be: functions from Files
    DpmTable   \* a pp_dpm file: lines with a level, its clock and, on one, the active mark

\* The field of nvidia-smi's answer a metric of the GPU is parsed from, in
\* the order of the query.  A field is absent when the answer ends before it.
NvidiaField ==
    [gpuTemp |-> "nvTemp", gpuUsage |-> "nvUsage", vramUsed |-> "nvUsed", vramTotal |-> "nvTotal",
     gpuFreq |-> "nvClock", gpuPower |-> "nvPower", vramFreq |-> "nvMemory"]

Required == {"nvTemp", "nvUsage", "nvUsed", "nvTotal"}
NvidiaFields == Required \cup {"nvClock", "nvPower", "nvMemory"}

Files == {"stat", "cpus", "energy", "thermal", "hwmon", "scaling0", "scaling1", "info",
          "meminfo", "swapinfo", "zram0", "zram1",
          "smi", "drm", "busy", "pm", "used", "total", "temp1", "average", "input",
          "intel", "sclk", "freq1", "label", "temp2", "mclk", "freq2"} \cup NvidiaFields

HostMetrics == {"cpuUsage", "coresUsage", "cpuPower", "cpuTemp", "cpuFreq", "ram", "swap", "zram"}
GpuSensors == {"gpuUsage", "gpuTemp", "gpuFreq", "gpuPower", "vramTemp", "vramFreq"}
GpuMetrics == GpuSensors \cup {"vramUsed", "vramTotal"}
Metrics == HostMetrics \cup GpuMetrics
GpuFlags == {"gpu", "vram"} \cup GpuSensors
Flags == HostMetrics \cup GpuFlags

\* A host says of each file whether it is there and can be parsed.
SensorsAssumption == Hosts \subseteq [Files -> {"absent", "garbled", "ok"}]

VARIABLES
    host,    \* the files of the last read
    value,   \* the metrics: the files each was computed from
    clock,   \* what pp_dpm_sclk and pp_dpm_mclk were read as
    flags    \* r.flags: the supported metrics

vars == <<host, value, clock, flags>>

Init ==
    /\ host \in Hosts
    /\ value = [m \in Metrics |-> {}] /\ clock = 0 /\ flags = {}

--------------------------------------------------------------------------------
\* The first of several files that can be parsed.
First(h, seq) ==
    LET ok == {i \in DOMAIN seq : h[seq[i]] = "ok"}
    IN  IF ok = {} THEN {} ELSE {seq[CHOOSE i \in ok : \A j \in ok : i <= j]}

\* The second file is only looked at when the first is absent.
Else(h, f, g) == First(h, IF h[f] = "absent" THEN <<g>> ELSE <<f>>)

\* All that can be parsed.
Every(h, S) == {f \in S : h[f] = "ok"}

\* The CPU times, of the host and of the cores, and the RAPL counter.
ReadCPUTimes(h) == First(h, <<"stat">>)
ReadCoresTimes(h) == First(h, <<"cpus">>)
ReadEnergy(h) == First(h, <<"energy">>)

ReadCPUTemperature(h) == First(h, <<"thermal", "hwmon">>)

\* The average over the cores, or else cpu.Info.
ReadCPUFrequency(h) ==
    LET scaling == Every(h, {"scaling0", "scaling1"})
    IN  IF scaling = {} THEN First(h, <<"info">>) ELSE scaling

ReadRAM(h) == First(h, <<"meminfo">>)
ReadSwap(h) == First(h, <<"swapinfo">>)

\* Devices that cannot be read are left out of the totals.
ReadZRAM(h) == Every(h, {"zram0", "zram1"})

\* nvidia-smi ran, in time, and its answer has four fields at least.
NvidiaAnswers(h) == h["smi"] = "ok" /\ \A f \in Required : h[f] # "absent"

\* A field that is missing or not a number leaves its metric at zero.
ReadNvidiaGPU(h) ==
    [m \in GpuMetrics |-> IF m = "vramTemp" THEN {} ELSE Every(h, {NvidiaField[m]})]

ReadSysfsGPUFrequency(h) == First(h, <<"intel", "sclk", "freq1">>)
ReadSysfsVRAMTemperature(h) == First(h, <<"label", "temp2">>)
ReadSysfsVRAMFrequency(h) == First(h, <<"mclk", "freq2">>)

ReadSysfsGPU(h) ==
    [m \in GpuMetrics |->
        CASE m = "gpuUsage" -> Else(h, "busy", "pm")
          [] m = "vramUsed" -> First(h, <<"used">>)
          [] m = "vramTotal" -> First(h, <<"total">>)
          [] m = "gpuTemp" -> First(h, <<"temp1">>)
          [] m = "gpuPower" -> Else(h, "average", "input")
          [] m = "gpuFreq" -> ReadSysfsGPUFrequency(h)
          [] m = "vramTemp" -> ReadSysfsVRAMTemperature(h)
          [] m = "vramFreq" -> ReadSysfsVRAMFrequency(h)]

\* A pp_dpm line is "<level>: <clock>Mhz *"; its fields are tried in turn,
\* and the level with its colon trimmed is a number.
Fields(line) == <<line.level, line.mhz>>

ActiveLine(table) == table[CHOOSE i \in DOMAIN table : table[i].active /\ \A j \in 1..(i - 1) : ~table[j].active]

DpmReading(table) == Fields(ActiveLine(table))[1]

SysfsFlags(sysfs) ==
    {"gpu"} \cup {m \in GpuSensors : sysfs[m] # {}}
    \cup (IF sysfs["vramUsed"] # {} /\ sysfs["vramTotal"] # {} THEN {"vram"} ELSE {})

ReadGPUKeepsFlags(h) ==
    CASE NvidiaAnswers(h) -> [metrics |-> ReadNvidiaGPU(h), flags |-> GpuFlags \ {"vramTemp"}]
      [] ~NvidiaAnswers(h) /\ h["drm"] # "absent" ->
            LET sysfs == ReadSysfsGPU(h) IN [metrics |-> sysfs, flags |-> SysfsFlags(sysfs)]
      [] OTHER -> [metrics |-> [m \in GpuMetrics |-> {}], flags |-> (flags \cap GpuFlags) \ {"gpu"}]

\* nvidia-smi, whatever its fields are worth, else sysfs, else no GPU; every
\* flag is assigned.
ReadGPU(h) ==
    CASE NvidiaAnswers(h) -> [metrics |-> ReadNvidiaGPU(h), flags |-> GpuFlags \ {"vramTemp"}]
      [] ~NvidiaAnswers(h) /\ h["drm"] # "absent" ->
            LET sysfs == ReadSysfsGPU(h) IN [metrics |-> sysfs, flags |-> SysfsFlags(sysfs)]
      [] OTHER -> [metrics |-> [m \in GpuMetrics |-> {}], flags |-> {}]

ReadHost(h) ==
    [m \in HostMetrics |->
        CASE m = "cpuUsage" -> ReadCPUTimes(h)
          [] m = "coresUsage" -> ReadCoresTimes(h)
          [] m = "cpuPower" -> ReadEnergy(h)
          [] m = "cpuTemp" -> ReadCPUTemperature(h)
          [] m = "cpuFreq" -> ReadCPUFrequency(h)
          [] m = "ram" -> ReadRAM(h)
          [] m = "swap" -> ReadSwap(h)
          [] m = "zram" -> ReadZRAM(h)]

\* The energy counter counts as supported once its file can be read.
HostFlags(h, read) == {m \in HostMetrics : read[m] # {} \/ (m = "cpuPower" /\ h["energy"] # "absent")}

\* One tick: the five reads, then GetFlags.
Tick(h) ==
    LET read == ReadHost(h)
        gpu == ReadGPU(h)
    IN
    /\ host' = h
    /\ value' = [m \in Metrics |-> IF m \in HostMetrics THEN read[m] ELSE gpu.metrics[m]]
    /\ clock' = IF value'["gpuFreq"] = {"sclk"} \/ value'["vramFreq"] = {"mclk"} THEN DpmReading(DpmTable) ELSE 0
    /\ flags' = HostFlags(h, read) \cup gpu.flags

Next == \E h \in Hosts : Tick(h)

Spec == Init /\ [][Next]_vars

--------------------------------------------------------------------------------
(* Properties                                                              *)

(* The variables' types.                                                   *)
TypeOK ==
    /\ DOMAIN host = Files /\ flags \subseteq Flags
    /\ DOMAIN value = Metrics /\ \A m \in Metrics : value[m] \subseteq Files

FlagOf(m) == IF m \in {"vramUsed", "vramTotal"} THEN "vram" ELSE m

\* There, but not a number: the flag is set over a zero.
Unparsed(h, m) ==
    \/ m = "cpuPower" /\ h["energy"] = "garbled"
    \/ NvidiaAnswers(h) /\ m \in DOMAIN NvidiaField /\ h[NvidiaField[m]] # "ok"

(* The flags of a payload say which of its metrics were measured, although *)
(* drivers and sensors come and go between reads: a flag never survives    *)
(* the sensor and never misses one.  Two exceptions, both the reader's:    *)
(* what is there but cannot be parsed, a field of nvidia-smi's answer or   *)
(* the energy counter, counts as supported with a zero, and one of the two *)
(* VRAM sizes may be measured alone.                                       *)
FlagsMatchValues ==
    \A m \in Metrics :
        /\ FlagOf(m) \in flags /\ value[m] = {} => Unparsed(host, m)
        /\ FlagOf(m) \notin flags /\ value[m] # {} =>
                m \in {"vramUsed", "vramTotal"} /\ (value["vramUsed"] = {} \/ value["vramTotal"] = {})

(* The clock reported from a pp_dpm file is the frequency of the line      *)
(* marked active, as docs/specifications.md:96 has it.                     *)
ActiveClock == clock \in {0, ActiveLine(DpmTable).mhz}
================================================================================
