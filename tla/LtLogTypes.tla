----------------------------- MODULE LtLogTypes -----------------------------
(***************************************************************************)
(* What the writer of a log, liblt, and its readers, ltanalyze and ltshow, *)
(* have in common: the numbers in liblt/common/lt_common.h.                *)
(***************************************************************************)
EXTENDS LtLayout

lt_t_start == 0
lt_t_system_info == 1
lt_t_crash == 2
lt_t_error == 3
lt_t_warning == 4
lt_t_log == 5
lt_t_perf_data == 6
lt_t_observed_exact_value_variable_length == 8

\* The types from here on have a fixed length, and no length is written.
lt_t_fixed_length == 192
lt_t_state == 192
lt_t_operation == 193
lt_t_observed_value == 194
lt_t_observed_exact_value == 195
lt_t_perf_metric == 196

FixedLength ==
  lt_t_state :> 33 @@ lt_t_operation :> 33 @@ lt_t_observed_value :> 26
    @@ lt_t_observed_exact_value :> 26 @@ lt_t_perf_metric :> 25

lt_vt_u64 == 1
lt_vt_i64 == 2
lt_vt_f64 == 3
lt_vt_string == 4
lt_vt_f32_2 == 5

lt_si_cpu == 1
lt_si_ram == 2
lt_si_gpu == 3
lt_si_os == 4
lt_si_monitor == 5
lt_si_storage == 6
lt_si_device == 7
lt_si_lang == 8
lt_si_elevated == 9
lt_si_storage_quality == 10
lt_si_networking == 11
=============================================================================
