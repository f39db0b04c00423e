------------------------------ MODULE MCDaemonEdges ------------------------------
(* An instance of DaemonEdges for TLC.                                     *)
EXTENDS DaemonEdges, TLC

\* Files that stand in for each other, varied together.
FileGroups ==
    {{"thermal", "hwmon"}, {"scaling0", "scaling1", "info"}, {"meminfo", "swapinfo", "temp1"},
     {"zram0", "zram1"}, {"smi", "drm"}, {"busy", "pm"}, {"used", "total"}, {"average", "input"},
     {"intel", "sclk", "freq1"}, {"label", "temp2"}, {"mclk", "freq2"}, {"stat", "cpus"}, {"energy"}}

\* A bare host and one with everything but an NVIDIA card, each with the
\* files of one group in any state; one with an NVIDIA card whose answer
\* ends anywhere, with one field that is no number, or fails.
Answer == <<"nvTemp", "nvUsage", "nvUsed", "nvTotal", "nvClock", "nvPower", "nvMemory">>

MCHosts ==
    LET usual(f, bare) == IF bare \/ f = "smi" \/ f \in Sense!NvidiaFields THEN "absent" ELSE "ok"
        group(g, bare) == [f \in Sense!Files |-> IF f \in DOMAIN g THEN g[f] ELSE usual(f, bare)]
        card(state, n, k) ==
            [f \in Sense!Files |->
                IF f = "smi" THEN state
                ELSE IF \E i \in 1..n : Answer[i] = f
                     THEN IF k \in 1..n /\ Answer[k] = f THEN "garbled" ELSE "ok"
                     ELSE usual(f, FALSE)]
    IN  {group(g, bare) : g \in UNION {[G -> {"absent", "garbled", "ok"}] : G \in FileGroups}, bare \in BOOLEAN}
        \cup {card("ok", n, k) : n \in {3, 4, 6, 7}, k \in {0, 1, 4, 5, 7}} \cup {card("garbled", 7, 0)}

\* A card at the second of its two levels.
MCDpmTable == <<[level |-> 0, mhz |-> 300, active |-> FALSE], [level |-> 1, mhz |-> 800, active |-> TRUE]>>

\* A CPU is busy, idle or neither, one clock tick at a time.  A host that
\* uses energy and has its times corrected; one whose cores' times are; and
\* one whose cores, each with a load of its own, are exchanged.
Load(b, i) == [busy |-> b, idle |-> i]
Loads == {Load(1, 0), Load(0, 1)}
Alike(loads, energies) == {[host |-> l, cores |-> [c \in 1..2 |-> l], used |-> e] : l \in loads, e \in energies}

MCWorkloads ==
    {[ticks |-> Alike(Loads \cup {Load(0, 0)}, 0..1), plugs |-> {}, corrects |-> {"host"}],
     [ticks |-> Alike(Loads, {0}), plugs |-> {}, corrects |-> {"cores"}],
     [ticks |-> {[host |-> c[1], cores |-> c, used |-> 0] : c \in [1..2 -> Loads]},
      plugs |-> {Load(2, 0)}, corrects |-> {}]}

None == [s \in {} |-> Nil]

\* A section of the file that is there and null takes the place of the
\* defaults' section: each of its settings is zero.
NullServer == "host" :> "" @@ "port" :> 0
NullDaemon == "update_interval_ms" :> 0 @@ "log_level" :> ""

MCFileLayers ==
    {None, "host" :> "0.0.0.0" @@ "log_level" :> "warn", "update_interval_ms" :> -1,
     "update_interval_ms" :> 500, NullServer, NullDaemon}
MCEnvLayers ==
    {None, "host" :> "0.0.0.0" @@ "log_level" :> "error", "port" :> 8080, "port" :> Bad,
     "update_interval_ms" :> -1}
MCFlagLayers == {None, "port" :> 0 @@ "log_level" :> "", "port" :> 9090 @@ "log_level" :> "debug"}

\* A client's two frames and an RPC beside it.  Text is a sequence of bytes,
\* a volume is in hundredths.
Req(kind, arg) == [kind |-> kind, arg |-> arg]
Media(command, v) == Req("media", [command |-> command, value |-> v])
Note == Req("notification", <<"<", ">", "<", ">", "x">>)

MCScripts ==
    {<<Req("action", "suspend"), Req("ping", Nil)>>, <<Note, Media("set_volume", 120)>>,
     <<Req("garbled", Nil), Req("profile", "balanced")>>}
MCRpcRequests ==
    {Req("notification", Nil), Req("notification", <<"x", "x", "x", "<", ">">>),
     Media("set_volume", NaN), Media("set_position", -1), Req("profile", "turbo"),
     Req("unimplemented", Nil), Req("action", "suspend")}
================================================================================
