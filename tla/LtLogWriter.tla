---------------------------- MODULE LtLogWriter ----------------------------
(***************************************************************************)
(* How liblt writes a log (liblt/src/liblt.cpp): a header, the system      *)
(* information, and then a section for each call of a reporting function.  *)
(* A definition is the layout of what follows the type of the section, or  *)
(* its type and size.                                                      *)
(***************************************************************************)
EXTENDS LtLogTypes

Header ==
  Tag(1, lt_t_start) \o Value(4, "version") \o Value(8, "timestamp") \o Text("productName")
    \o Values(8, <<"majorVersion", "minorVersion">>) \o Value(1, "isDebugBuild")
    \o Text("remoteHost")

\* One layout for stack traces of the own and of another process; a text or a trace may
\* be empty.  lt_error and lt_warn write the same.
StackTrace == Stack(6, 10240)

Crash == Values(8, <<"timestamp", "errorCode">>) \o Text("description") \o StackTrace
Error ==
  Values(8, <<"timestamp", "subSystem", "errorCode">>) \o Text("description") \o StackTrace
Log == Values(8, <<"timestamp", "subSystem">>) \o Text("description")
PerfData == Values(8, <<"timestamp", "subSystem">>) \o Run("data", 8)

SetState == Values(8, <<"subSystem", "stateIndex", "subStateIndex", "timestamp">>)
LtOperation == Values(8, <<"subSystem", "operationType", "operationIndex", "timestamp">>)
PerfMetric == Values(8, <<"valueIndex", "value", "timestamp">>)

ObserveValue ==
  Kind(Value(8, "valueIndex"),
       lt_vt_u64 :> Value(8, "u64") @@ lt_vt_i64 :> Value(8, "i64")
         @@ lt_vt_f64 :> Value(8, "f64") @@ lt_vt_f32_2 :> Values(4, <<"x", "y">>))
    \o Value(8, "timestamp")

ObserveExactValue ==
  Kind(Value(8, "valueIndex"), lt_vt_u64 :> Value(8, "u64") @@ lt_vt_i64 :> Value(8, "i64"))
    \o Value(8, "timestamp")

ObserveExactString ==
  Kind(Values(8, <<"valueIndex", "timestamp">>), lt_vt_string :> Text("value"))

-----------------------------------------------------------------------------
(* The system information.  Whatever Windows does not tell is left out. *)

Cpu == Text("cpuName") \o Value(4, "cpuCores")
Ram == Values(8, <<"totalPhysical", "availablePhysical", "totalVirtual", "availableVirtual">>)
Os == Text("osName")
Gpu ==
  Values(8, <<"dedicatedVRam", "sharedVRam", "totalVRam", "freeVRam", "driverVersion">>)
    \o Values(4, <<"vendorId", "deviceId", "revisionId", "boardId">>)
    \o Text("gpuName") \o Text("driverName")
Lang == Text("languages")
Elevated == Value(1, "elevated")
Monitor ==
  Counted("monitors", Values(4, <<"posX", "posY", "sizeX", "sizeY", "dpiX", "dpiY">>))
Storage == Values(8, <<"available", "total">>)
Device == Text("manufacturer") \o Text("model")
StorageQuality == Values(8, <<"total", "ssd">>)
Networking ==
  Values(8, <<"downLinkSpeed", "upLinkSpeed">>) \o Value(1, "isWireless") \o Value(4, "identifier")

SystemInfo ==
  Part(lt_si_cpu, "cpu", Cpu) \o Part(lt_si_ram, "ram", Ram) \o Part(lt_si_os, "os", Os)
    \o Part(lt_si_gpu, "gpu", Gpu) \o Part(lt_si_lang, "lang", Lang)
    \o Part(lt_si_elevated, "elevated", Elevated) \o Part(lt_si_monitor, "monitor", Monitor)
    \o Part(lt_si_storage, "storage", Storage) \o Part(lt_si_device, "device", Device)
    \o Part(lt_si_storage_quality, "storageQuality", StorageQuality)
    \o Part(lt_si_networking, "networking", Networking)

-----------------------------------------------------------------------------
Layouts ==
  lt_t_system_info :> SystemInfo @@ lt_t_crash :> Crash @@ lt_t_error :> Error
    @@ lt_t_warning :> Error @@ lt_t_log :> Log @@ lt_t_perf_data :> PerfData
    @@ lt_t_observed_exact_value_variable_length :> ObserveExactString
    @@ lt_t_state :> SetState @@ lt_t_operation :> LtOperation
    @@ lt_t_observed_value :> ObserveValue @@ lt_t_observed_exact_value :> ObserveExactValue
    @@ lt_t_perf_metric :> PerfMetric

\* The buffers on the stack in which the sections are put together.
Buffer(type) ==
  CASE type \in {lt_t_crash, lt_t_error, lt_t_warning, lt_t_log} -> 10240
    [] type \in {lt_t_perf_data, lt_t_system_info} -> 3072
    [] type = lt_t_observed_exact_value_variable_length -> 276
    [] OTHER -> FixedLength[type]

\* Sized, counting the size but not the type.
Sized_NoType(type, body) ==
  Number(1, type)
    \o (IF type < lt_t_fixed_length THEN Number(2, 2 + Bytes(body)) ELSE <<>>) \o body

\* The size of a section counts its type and the size itself.
Sized(type, body) ==
  Number(1, type)
    \o (IF type < lt_t_fixed_length THEN Number(2, 3 + Bytes(body)) ELSE <<>>) \o body

\* The section of a type, of an object of a shape, at a place in the log.
Section(type, shape, place) == Sized(type, Written(Layouts[type], shape, place))
=============================================================================
