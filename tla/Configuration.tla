---------------------------- MODULE Configuration ----------------------------
(***************************************************************************)
(* Loading the configuration (otel-sqlite/src/config.rs and config/): the  *)
(* settings of a TOML file overlaid on the defaults, validation, and what  *)
(* the maintenance scheduler and the watchdog are then built from.         *)
(*                                                                         *)
(* Durations are milliseconds and an optional value is a set of at most    *)
(* one element.  A duration in a file is a record: whole seconds ("secs"), *)
(* tenths of a unit ("text"), a word that switches the knob off ("off"),   *)
(* text that does not parse ("bad"), or, for the retention, a table, with  *)
(* a retired or unknown key in it ("foreign").  Of addresses, certificates *)
(* and token files only what the code asks about is kept.                  *)
(***************************************************************************)
EXTENDS Integers, FiniteSets, TLC

CONSTANTS Settings,     \* of a key, the settings a file may give it
          Related,      \* keys that files set together
          MaxKeys,      \* how many other keys a file sets
          MaxMillis,    \* u64::MAX milliseconds, where `as u64` saturates
          MaxRetention  \* MAX_RETENTION in milliseconds

MaxTimeout == 3600000

ConfigAssumption ==
    /\ Related \subseteq DOMAIN Settings /\ MaxKeys \in Nat
    /\ MaxMillis \in Nat /\ MaxRetention \in Nat
    /\ MaxTimeout < MaxRetention /\ MaxRetention < MaxMillis

VARIABLES stage,   \* how far loading and starting got
          file, config,
          built    \* what the workers were constructed with

vars == <<stage, file, config, built>>

-----------------------------------------------------------------------------
(* Keys, defaults and limits *)

Sizes == [
    ingest_queue_capacity              |-> <<1, 50000, 1000000>>,
    command_queue_capacity             |-> <<1, 50000, 1000000>>,
    batcher_max_batch_records          |-> <<1, 500, 100000>>,
    grpc_max_recv_msg_size             |-> <<1024, 16777216, 268435456>>,
    grpc_max_concurrent_streams        |-> <<1, 64, 1024>>,
    mapping_concurrency                |-> <<1, 128, 512>>,
    max_records_per_request            |-> <<1, 100000, 1000000>>,
    max_attributes_per_record          |-> <<1, 1000, 100000>>,
    max_attribute_key_bytes            |-> <<1, 512, 16384>>,
    max_attribute_value_bytes          |-> <<1, 65536, 4194304>>,
    max_body_bytes                     |-> <<1, 1048576, 16777216>>,
    max_scope_metadata_expansion_bytes |-> <<1024, 16777216, 268435456>>]

RequiredDurations == [
    batcher_max_batch_age |-> 10, shutdown_timeout |-> 30000, retry_delay |-> 2000,
    tick_interval |-> 5000, degraded_after |-> 30000, unhealthy_after |-> 120000,
    ack_stall_after |-> 60000, maintenance_stall_after |-> 1800000]

Intervals == [
    purge_interval |-> {900000}, checkpoint_interval |-> {300000},
    optimize_interval |-> {43200000}, vacuum_interval |-> {86400000},
    rebuild_fts_interval |-> {}]

OptionalDurations == DOMAIN Intervals \cup {"retention"}
Durations == DOMAIN RequiredDurations \cup OptionalDurations

\* Config::default; the pressure ratio is in hundredths, below 0 when it is
\* not finite.
Default ==
    [k \in DOMAIN Sizes |-> Sizes[k][2]] @@ RequiredDurations @@ Intervals @@
    [retention |-> {}, queue_pressure_ratio |-> 75, max_db_bytes |-> {},
     checkpoint_mode |-> "passive", durability_mode |-> "commit",
     listen_address |-> "loopback", metrics_address |-> {},
     allow_remote_metrics |-> FALSE, allow_insecure_remote |-> FALSE,
     tls |-> {}, auth |-> {}]

NoFile == [k \in {} |-> 0]

Init ==
    /\ stage = "edit" /\ file = NoFile
    /\ config = Default /\ built = NoFile

\* The operator's file, a key at a time.
Edit ==
    /\ stage = "edit"
    /\ \E key \in DOMAIN Settings \ DOMAIN file :
         /\ Cardinality(DOMAIN file) < MaxKeys \/ DOMAIN file \cup {key} \subseteq Related
         /\ \E setting \in Settings[key] : file' = (key :> setting) @@ file
    /\ UNCHANGED <<stage, config, built>>

-----------------------------------------------------------------------------
(* The overlay *)

UnitMillis == [ms |-> 1, s |-> 1000, m |-> 60000, h |-> 3600000, d |-> 86400000]

\* Mutant of Millis: the conversion wraps instead of saturating.
MillisWrapped(raw) ==
    IF raw.kind = "secs"
    THEN raw.n * 1000
    ELSE ((raw.tenths * UnitMillis[raw.unit] + 5) \div 10) % (MaxMillis + 1)

\* RawDuration::parse and deserialize: round, and saturate at 64 bits.
Millis(raw) ==
    IF raw.kind = "secs"
    THEN raw.n * 1000
    ELSE LET exact == raw.tenths * UnitMillis[raw.unit]
         IN IF exact >= 10 * MaxMillis THEN MaxMillis ELSE (exact + 5) \div 10

\* The table form of the retention names the signal; an empty table keeps
\* what is there.
OptionalMillis(key, raw) ==
    CASE raw.kind = "off"   -> {}
      [] raw.kind = "table" -> IF raw.logs = {} THEN Default[key]
                               ELSE {Millis(r) : r \in {x \in raw.logs : x.kind # "off"}}
      [] OTHER              -> {Millis(raw)}

Value(key) ==
    LET raw == file[key]
    IN CASE key \in DOMAIN RequiredDurations -> Millis(raw)
         [] key \in OptionalDurations        -> OptionalMillis(key, raw)
         [] key = "tls"                      -> {raw}
         [] key = "auth"                     -> IF raw = "none" THEN {} ELSE {raw}
         [] key = "metrics_address"          -> IF raw = "off" THEN {} ELSE {raw}
         [] key = "max_db_bytes"             -> {raw}
         [] OTHER                            -> raw

\* What toml::from_str or FileConfig::apply_to refuses.
Refused(key) ==
    LET raw == file[key]
    IN \/ key = "unknown key"
       \/ key \in DOMAIN RequiredDurations /\ raw.kind \in {"off", "bad"}
       \/ key \in OptionalDurations
            /\ \/ raw.kind \in {"bad", "foreign"}
               \/ raw.kind = "table" /\ \E r \in raw.logs : r.kind = "bad"
       \/ key = "tls" /\ raw \in {"no cert", "no key"}
       \/ key = "auth" /\ raw \in {"none with file", "token without file", "unknown"}
       \/ key = "metrics_address" /\ raw = "garbage"
       \/ key \in {"checkpoint_mode", "durability_mode"} /\ raw = "unknown"

Overlay ==
    /\ stage = "edit"
    /\ IF \E k \in DOMAIN file : Refused(k)
       THEN stage' = "refused" /\ UNCHANGED config
       ELSE /\ stage' = "validate"
            /\ config' = [k \in DOMAIN file |-> Value(k)] @@ Default
    /\ UNCHANGED <<file, built>>

\* Reading the file fails, or it is not TOML.
Unreadable ==
    /\ stage = "edit" /\ file # NoFile
    /\ stage' = "refused" /\ UNCHANGED <<file, config, built>>

-----------------------------------------------------------------------------
(* Validation, one operator per section *)

InRange(key) == config[key] >= Sizes[key][1] /\ config[key] <= Sizes[key][3]

ValidDuration(key) == config[key] > 0 /\ config[key] <= MaxTimeout

ValidListen ==
    /\ config.listen_address \notin {"garbage", "port zero"}
    /\ config.listen_address = "loopback" \/ config.tls # {} \/ config.allow_insecure_remote

ValidQueues ==
    /\ \A key \in DOMAIN Sizes : InRange(key)
    /\ ValidDuration("batcher_max_batch_age") /\ ValidDuration("shutdown_timeout")

ValidQuota == \A quota \in config.max_db_bytes : quota >= 1048576

\* Mutant of ValidMaintenance: zero passes.
ValidMaintenanceWithZero ==
    /\ ValidDuration("retry_delay")
    /\ \A key \in OptionalDurations : \A d \in config[key] : d <= MaxRetention

ValidMaintenance ==
    /\ ValidDuration("retry_delay")
    /\ \A key \in OptionalDurations : \A d \in config[key] :
         /\ d > 0
         /\ d <= IF key \in {"purge_interval", "checkpoint_interval"}
                 THEN MaxTimeout ELSE MaxRetention

WatchdogDurations == {"tick_interval", "degraded_after", "unhealthy_after",
                      "ack_stall_after", "maintenance_stall_after"}

\* Mutant of ValidWatchdog: only the batch age is compared with a threshold.
ValidWatchdogUnordered ==
    /\ \A key \in WatchdogDurations : ValidDuration(key)
    /\ config.maintenance_stall_after >= config.unhealthy_after
    /\ config.batcher_max_batch_age < config.unhealthy_after
    /\ config.queue_pressure_ratio \in 1..100

ValidWatchdog ==
    /\ \A key \in WatchdogDurations : ValidDuration(key)
    /\ config.maintenance_stall_after >= config.unhealthy_after
    /\ config.degraded_after < config.unhealthy_after
    /\ config.batcher_max_batch_age < config.degraded_after
    /\ config.queue_pressure_ratio \in 1..100

ValidEndpoints ==
    \A address \in config.metrics_address :
        /\ address # "port zero"
        /\ address = "loopback" \/ config.allow_remote_metrics

\* readable_file: a regular file that opens.
ValidSecurity == config.tls \cup config.auth \subseteq {"complete", "token"}

Validate ==
    /\ stage = "validate"
    /\ stage' = IF /\ ValidListen /\ ValidQueues /\ ValidQuota /\ ValidMaintenance
                   /\ ValidWatchdog /\ ValidEndpoints /\ ValidSecurity
                THEN "start" ELSE "refused"
    /\ UNCHANGED <<file, config, built>>

-----------------------------------------------------------------------------
(* What the runtime makes of an accepted configuration *)

\* WatchdogConfig::validate, the library's own rules.
WatchdogAccepts ==
    /\ \A key \in WatchdogDurations \ {"tick_interval"} : config[key] # 0
    /\ config.degraded_after < config.unhealthy_after
    /\ config.maintenance_stall_after >= config.unhealthy_after
    /\ config.queue_pressure_ratio > 0 /\ config.queue_pressure_ratio <= 100

\* Task::new drops a zero interval; purge_interval needs a retention.
TaskInterval(key) ==
    {d \in config[key] : d # 0 /\ (key = "purge_interval" => config.retention # {})}

AtLeast(floor, d) == IF d < floor THEN floor ELSE d

Start ==
    /\ stage = "start"
    /\ built' = [tasks |-> [key \in DOMAIN Intervals |-> TaskInterval(key)],
                 retry |-> AtLeast(10, config.retry_delay),
                 tick  |-> AtLeast(10, config.tick_interval)]
    /\ stage' = IF WatchdogAccepts THEN "running" ELSE "start failed"
    /\ UNCHANGED <<file, config>>

Next == Edit \/ Overlay \/ Unreadable \/ Validate \/ Start

Spec == Init /\ [][Next]_vars

-----------------------------------------------------------------------------
(* Properties *)

\* Two validators were written for the watchdog's settings, the binary's and
\* the library's ("The binary applies the same rules while loading its config
\* file"): what the first accepts the second does too, so that main does not
\* fail with the storage already open, and the built-in defaults start.
AcceptedStarts ==
    /\ stage # "start failed"
    /\ file = NoFile => stage # "refused"

\* "Every key present in the file replaces the corresponding default; omitted
\* keys keep their defaults": in an accepted configuration a duration is within
\* half a millisecond of what the file says, so no value that was cut
\* off at 64 bits is ever accepted.
LoadedIsWritten ==
    stage \in {"start", "running"} =>
        \A key \in Durations :
            IF key \notin DOMAIN file THEN config[key] = Default[key]
            ELSE LET raw == file[key]
                     ds  == IF key \in OptionalDurations THEN config[key] ELSE {config[key]}
                 IN CASE raw.kind = "off"  -> ds = {}
                      [] raw.kind = "secs" -> ds = {raw.n * 1000}
                      [] raw.kind = "text" ->
                           /\ ds # {}
                           /\ \A d \in ds :
                                LET exact == raw.tenths * UnitMillis[raw.unit]
                                IN 10 * d - exact \in -5..5
                      [] OTHER             -> TRUE

\* An operation the configuration enables is really scheduled, at its interval:
\* the zero interval that Task::new silently turns off never gets past
\* validation, whatever rounding made of the text.  Purging needs a retention.
EnabledIsScheduled ==
    stage = "running" =>
        \A key \in DOMAIN Intervals :
            \/ key = "purge_interval" /\ config.retention = {}
            \/ built.tasks[key] = config[key]
=============================================================================
