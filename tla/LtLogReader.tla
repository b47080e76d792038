---------------------------- MODULE LtLogReader ----------------------------
(***************************************************************************)
(* How ltanalyze reads a log (analyze_file in ltanalyze/src/ltanalyze.cpp):*)
(* the header, then all sections by their sizes, and then what is in them. *)
(***************************************************************************)
EXTENDS LtSections

Header ==
  Tag(1, lt_t_start) \o Value(4, "version") \o Value(8, "timestamp") \o Text("productName")
    \o Values(8, <<"majorVersion", "minorVersion">>) \o Value(1, "isDebugBuild")
    \o Text("remoteHost")

\* The trace must fit into its buffer, and have a start, a hash and an end.
StackTrace == Stack(6, 10240)

Crash == Values(8, <<"timestamp", "errorCode">>) \o Text("description") \o StackTrace
Error ==
  Values(8, <<"timestamp", "subSystem", "errorCode">>) \o Text("description") \o StackTrace
Log == Values(8, <<"timestamp", "subSystem">>) \o Text("description")
PerfData == Values(8, <<"timestamp", "subSystem">>) \o Run("data", 8)

State == Values(8, <<"subSystem", "stateIndex", "subStateIndex", "timestamp">>)
Operation == Values(8, <<"subSystem", "operationType", "operationIndex", "timestamp">>)
PerfMetric == Values(8, <<"valueIndex", "value", "timestamp">>)

ObservedValue ==
  Kind(Value(8, "valueIndex"),
       lt_vt_u64 :> Value(8, "u64") @@ lt_vt_i64 :> Value(8, "i64")
         @@ lt_vt_f64 :> Value(8, "f64") @@ lt_vt_f32_2 :> Values(4, <<"x", "y">>))
    \o Value(8, "timestamp")

ObservedExactValue ==
  Kind(Value(8, "valueIndex"), lt_vt_u64 :> Value(8, "u64") @@ lt_vt_i64 :> Value(8, "i64"))
    \o Value(8, "timestamp")

ObservedExactString ==
  Kind(Values(8, <<"valueIndex", "timestamp">>), lt_vt_string :> Text("value"))

-----------------------------------------------------------------------------
(* The system information: parts in any order, until the end of the section. *)

Cpu == Text("cpuName") \o Value(4, "cpuCores")
Ram == Values(8, <<"totalPhysical", "availablePhysical", "totalVirtual", "availableVirtual">>)
Os == Text("osName")
Gpu ==
  Values(8, <<"dedicatedVRam", "sharedVRam", "totalVRam", "freeVRam", "driverVersion">>)
    \o Values(4, <<"vendorId", "deviceId", "revisionId", "boardId">>)
    \o Text("gpuName") \o Text("driverName")
Lang == Text("languages")
Elevated == Value(1, "elevated")
Monitor ==
  Counted("monitors", Values(4, <<"posX", "posY", "sizeX", "sizeY", "dpiX", "dpiY">>))
Storage == Values(8, <<"available", "total">>)
Device == Text("manufacturer") \o Text("model")
StorageQuality == Values(8, <<"total", "ssd">>)
Networking ==
  Values(8, <<"downLinkSpeed", "upLinkSpeed">>) \o Value(1, "isWireless") \o Value(4, "identifier")

SystemInfo ==
  Parts(lt_si_cpu :> Within("cpu", Cpu) @@ lt_si_ram :> Within("ram", Ram)
          @@ lt_si_os :> Within("os", Os) @@ lt_si_gpu :> Within("gpu", Gpu)
          @@ lt_si_lang :> Within("lang", Lang) @@ lt_si_elevated :> Within("elevated", Elevated)
          @@ lt_si_monitor :> Within("monitor", Monitor)
          @@ lt_si_storage :> Within("storage", Storage)
          @@ lt_si_device :> Within("device", Device)
          @@ lt_si_storage_quality :> Within("storageQuality", StorageQuality)
          @@ lt_si_networking :> Within("networking", Networking))

-----------------------------------------------------------------------------
Layouts ==
  lt_t_system_info :> SystemInfo @@ lt_t_crash :> Crash @@ lt_t_error :> Error
    @@ lt_t_warning :> Error @@ lt_t_log :> Log @@ lt_t_perf_data :> PerfData
    @@ lt_t_observed_exact_value_variable_length :> ObservedExactString
    @@ lt_t_state :> State @@ lt_t_operation :> Operation
    @@ lt_t_observed_value :> ObservedValue @@ lt_t_observed_exact_value :> ObservedExactValue
    @@ lt_t_perf_metric :> PerfMetric

ReadLog(log) == ReadSections(log, Header, Layouts)
=============================================================================
