------------------------------ MODULE Configuration ------------------------------
(***************************************************************************)
(* LoadConfig and the start command: how defaults, configuration file,     *)
(* environment and flags become a running daemon.                          *)
(*                                                                         *)
(* A layer is a partial function from the settings.  Environment variables *)
(* get their setting's name by turning every underscore into a dot, so the *)
(* ones of settings with an underscore of their own name nothing.  Numbers *)
(* are checked for their type only.  The address the server binds and the  *)
(* ticker of the telemetry loop come from the result.  A section of the    *)
(* file that is null sets every setting of the section, to its zero value. *)
(***************************************************************************)
EXTENDS Integers, FiniteSets, Functions

CONSTANTS
    FileLayers, EnvLayers, FlagLayers,   \* what each layer may set
    Bad,                                 \* a value that does not parse as its type
    Nil                                  \* nothing bound yet

Settings == {"host", "port", "update_interval_ms", "log_level"}
Underscored == {"update_interval_ms", "log_level"}
Managers == {"notifications", "mpris", "lock", "power", "dpms"}

DefaultConfig == [s \in Settings |->
    CASE s = "host" -> "127.0.0.1" [] s = "port" -> 12345
      [] s = "update_interval_ms" -> 1000 [] s = "log_level" -> "info"]

\* The flags set two of the settings; an interval in a file is a number.
ConfigAssumption ==
    /\ \A f \in FileLayers \cup EnvLayers : DOMAIN f \subseteq Settings
    /\ \A f \in FlagLayers : DOMAIN f \subseteq {"port", "log_level"}
    /\ \A f \in FileLayers :
          "update_interval_ms" \in DOMAIN f => f["update_interval_ms"] \in Int \cup {Bad}
    /\ Nil \notin {"mock", "dbus"}

VARIABLES
    start,      \* where the start command is
    confFile,   \* the configuration file: none, unreadable, malformed or ok
    layer,      \* what file, environment and flags set
    conf,       \* the settings merged so far
    verbose,    \* --verbose
    mocked,     \* managers --emulate-metrics and the --mock flags ask for
    manager,    \* what each manager became
    bound       \* host and port the server listens on

vars == <<start, confFile, layer, conf, verbose, mocked, manager, bound>>

Init ==
    /\ start = "file" /\ conf = DefaultConfig
    /\ confFile \in {"none", "unreadable", "malformed", "ok"}
    /\ layer \in [file : FileLayers, env : EnvLayers, flag : FlagLayers]
    /\ verbose \in BOOLEAN
    /\ mocked \in {{}, {"mpris", "power", "dpms"}, Managers}
    /\ manager = [m \in Managers |-> Nil] /\ bound = Nil

\* Later settings override earlier ones, key by key.
Merge(old, new) == [s \in Settings |-> IF s \in DOMAIN new THEN new[s] ELSE old[s]]

--------------------------------------------------------------------------------
\* A missing file is no error, any other trouble with it is.
LoadFile ==
    /\ start = "file"
    /\ IF confFile \in {"unreadable", "malformed"}
       THEN start' = "failed" /\ UNCHANGED conf
       ELSE /\ start' = "env"
            /\ conf' = IF confFile = "none" THEN conf ELSE Merge(conf, layer.file)
    /\ UNCHANGED <<confFile, layer, verbose, mocked, manager, bound>>

LoadEnvDefaultsOnly ==
    /\ start = "env"
    /\ start' = "flags"
    /\ conf' = Merge(conf, Restrict(layer.env,
                 {s \in DOMAIN layer.env \ Underscored : conf[s] = DefaultConfig[s]}))
    /\ UNCHANGED <<confFile, layer, verbose, mocked, manager, bound>>

LoadEnv ==
    /\ start = "env"
    /\ start' = "flags"
    /\ conf' = Merge(conf, Restrict(layer.env, DOMAIN layer.env \ Underscored))
    /\ UNCHANGED <<confFile, layer, verbose, mocked, manager, bound>>

\* Zero and empty flags are flags not given.
GivenFlags(flags) == {s \in DOMAIN flags : flags[s] # (IF s = "port" THEN 0 ELSE "")}

\* Then the values are decoded.
ApplyFlags ==
    /\ start = "flags"
    /\ LET merged == Merge(conf, Restrict(layer.flag, GivenFlags(layer.flag)))
       IN  IF \E s \in Settings : merged[s] = Bad
           THEN start' = "failed" /\ UNCHANGED conf
           ELSE /\ start' = "managers"
                /\ conf' = [merged EXCEPT !.log_level = IF verbose THEN "debug" ELSE @]
    /\ UNCHANGED <<confFile, layer, verbose, mocked, manager, bound>>

\* A manager whose bus cannot be reached is replaced by its mock.
ResolveManagers ==
    /\ start = "managers"
    /\ start' = "server"
    /\ \E connects \in SUBSET Managers :
         manager' = [m \in Managers |-> IF m \in connects \ mocked THEN "dbus" ELSE "mock"]
    /\ UNCHANGED <<confFile, layer, conf, verbose, mocked, bound>>

Loopback == {"127.0.0.1", "::1", "localhost"}

\* websocket.NewServer: a loopback address, and port 0 is the default one.
NewServer ==
    /\ start = "server"
    /\ start' = "ticker"
    /\ bound' = [host |-> IF conf["host"] \in Loopback THEN conf["host"] ELSE "127.0.0.1",
                 port |-> IF conf["port"] = 0 THEN 12345 ELSE conf["port"]]
    /\ UNCHANGED <<confFile, layer, conf, verbose, mocked, manager>>

\* NewTicker panics on an interval that is not positive.
NewTicker ==
    /\ start = "ticker"
    /\ start' = IF conf["update_interval_ms"] > 0 THEN "running" ELSE "panicked"
    /\ UNCHANGED <<confFile, layer, conf, verbose, mocked, manager, bound>>

--------------------------------------------------------------------------------
Next == LoadFile \/ LoadEnv \/ ApplyFlags \/ ResolveManagers \/ NewServer \/ NewTicker

Spec == Init /\ [][Next]_vars

--------------------------------------------------------------------------------
(* Properties                                                              *)

(* The variables' types.                                                   *)
TypeOK ==
    /\ start \in {"file", "env", "flags", "managers", "server", "ticker", "running", "failed", "panicked"}
    /\ DOMAIN conf = Settings
    /\ manager \in [Managers -> {Nil, "mock", "dbus"}]

\* The layers that reach a setting, the strongest first.
Sets(l, s) ==
    CASE l = "flag" -> s \in GivenFlags(layer.flag)
      [] l = "env" -> s \in DOMAIN layer.env \ Underscored
      [] l = "file" -> confFile = "ok" /\ s \in DOMAIN layer.file

Reference(s) ==
    IF s = "log_level" /\ verbose THEN "debug"
    ELSE IF Sets("flag", s) THEN layer.flag[s]
    ELSE IF Sets("env", s) THEN layer.env[s]
    ELSE IF Sets("file", s) THEN layer.file[s]
    ELSE DefaultConfig[s]

(* A running daemon has, for every setting, the value of the strongest     *)
(* layer that reaches it, whatever the layers below say, with every        *)
(* manager in place although no bus may be reachable.                      *)
StrongestLayerWins ==
    start = "running" =>
        /\ \A s \in Settings : conf[s] = Reference(s)
        /\ \A m \in Managers : manager[m] # Nil

(* An environment variable sets its setting unless a flag does, as         *)
(* loader.go:97 and docs/specifications.md:294 have it.                    *)
EnvReachesSettings ==
    start = "running" =>
        \A s \in DOMAIN layer.env \ GivenFlags(layer.flag) :
            conf[s] = IF s = "log_level" /\ verbose THEN "debug" ELSE layer.env[s]

(* Whatever the layers ask for, the server only ever listens on loopback   *)
(* and on a fixed port.                                                    *)
BindsLoopback == bound # Nil => bound.host \in Loopback /\ bound.port # 0

(* Only a configuration file can make the daemon panic as it starts, by an *)
(* update interval that is not positive or a section that is null: no flag *)
(* does, and no environment variable only because none reaches the         *)
(* interval (EnvReachesSettings).                                          *)
PanicsOnlyByFile ==
    start = "panicked" => confFile = "ok" /\ "update_interval_ms" \in DOMAIN layer.file /\
                          layer.file["update_interval_ms"] <= 0

(* The daemon starts as its layers say or not at all: the strongest layer  *)
(* decides, the address is overridden to loopback, and only the file can   *)
(* make it panic.                                                          *)
StartsAsConfigured == StrongestLayerWins /\ BindsLoopback /\ PanicsOnlyByFile
================================================================================
