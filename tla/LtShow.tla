------------------------------- MODULE LtShow -------------------------------
(***************************************************************************)
(* How ltshow reads a log to print it as JSON (ltshow/src/ltshow.cpp).     *)
(***************************************************************************)
EXTENDS LtSections

Header ==
  Tag(1, lt_t_start) \o Value(4, "version") \o Value(8, "timestamp") \o Text("productName")
    \o Values(8, <<"majorVersion", "minorVersion">>) \o Value(1, "isDebugBuild")
    \o Text("remoteHost")

\* A trace of any length is printed as it is.
StackTrace == Stack(0, 65535)

Crash == Values(8, <<"timestamp", "errorCode">>) \o Text("description") \o StackTrace
Error ==
  Values(8, <<"timestamp", "subSystem", "errorCode">>) \o Text("description") \o StackTrace
Log == Values(8, <<"timestamp", "subSystem">>) \o Text("description")
PerfData == Values(8, <<"timestamp", "subSystem">>) \o Run("data", 8)

State == Values(8, <<"subSystem", "stateIndex", "subStateIndex", "timestamp">>)
Operation == Values(8, <<"subSystem", "operationType", "operationIndex", "timestamp">>)
PerfMetric == Values(8, <<"valueIndex", "value", "timestamp">>)

Numbers ==
  lt_vt_u64 :> Value(8, "u64") @@ lt_vt_i64 :> Value(8, "i64") @@ lt_vt_f64 :> Value(8, "f64")
ObservedValue ==
  Kind(Value(8, "valueIndex"), Numbers @@ lt_vt_f32_2 :> Values(4, <<"x", "y">>))
    \o Value(8, "timestamp")
ObservedExactValue == Kind(Value(8, "valueIndex"), Numbers) \o Value(8, "timestamp")
ObservedExactString ==
  Kind(Values(8, <<"valueIndex", "timestamp">>), lt_vt_string :> Text("value"))

Gpu ==
  Values(8, <<"dedicatedVRam", "sharedVRam", "totalVRam", "freeVRam", "driverVersion">>)
    \o Values(4, <<"vendorId", "deviceId", "revisionId", "boardId">>)
    \o Text("gpuName") \o Text("driverName")
Ram == Values(8, <<"totalPhysical", "availablePhysical", "totalVirtual", "availableVirtual">>)
Monitor ==
  Counted("monitors", Values(4, <<"posX", "posY", "sizeX", "sizeY", "dpiX", "dpiY">>))
Networking ==
  Values(8, <<"downLinkSpeed", "upLinkSpeed">>) \o Value(1, "isWireless") \o Value(4, "identifier")

SystemInfo ==
  Parts(lt_si_cpu :> Within("cpu", Text("cpuName") \o Value(4, "cpuCores"))
          @@ lt_si_ram :> Within("ram", Ram) @@ lt_si_os :> Within("os", Text("osName"))
          @@ lt_si_gpu :> Within("gpu", Gpu) @@ lt_si_lang :> Within("lang", Text("languages"))
          @@ lt_si_elevated :> Within("elevated", Value(1, "elevated"))
          @@ lt_si_monitor :> Within("monitor", Monitor)
          @@ lt_si_storage :> Within("storage", Values(8, <<"available", "total">>))
          @@ lt_si_device :> Within("device", Text("manufacturer") \o Text("model"))
          @@ lt_si_storage_quality :> Within("storageQuality", Values(8, <<"total", "ssd">>))
          @@ lt_si_networking :> Within("networking", Networking))

-----------------------------------------------------------------------------
Layouts ==
  lt_t_system_info :> SystemInfo @@ lt_t_crash :> Crash @@ lt_t_error :> Error
    @@ lt_t_warning :> Error @@ lt_t_log :> Log @@ lt_t_perf_data :> PerfData
    @@ lt_t_observed_exact_value_variable_length :> ObservedExactString
    @@ lt_t_state :> State @@ lt_t_operation :> Operation
    @@ lt_t_observed_value :> ObservedValue @@ lt_t_observed_exact_value :> ObservedExactValue
    @@ lt_t_perf_metric :> PerfMetric

ShowLog(log) == ReadSections(log, Header, Layouts)
=============================================================================
