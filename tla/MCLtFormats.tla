---------------------------- MODULE MCLtFormats ----------------------------
(* An instance of LtFormats: objects that are empty and as large as they get. *)
EXTENDS LtFormats

Shape(text, stack, items, has, kind) ==
  [text |-> text, stack |-> stack, items |-> items, has |-> has, kind |-> kind]

MCHeaders == {Shape(0, 0, 0, {}, 0), Shape(255, 0, 0, {}, 0)}

\* Everything is known of the machine, with the most monitors there are; less; nothing.
MCInfos ==
  {Shape(255, 0, 31, {"cpu", "ram", "os", "gpu", "lang", "elevated", "monitor", "storage",
                      "device", "storageQuality", "networking"}, 0),
   Shape(0, 0, 1, {"cpu", "os", "monitor", "device"}, 0),
   Shape(3, 0, 0, {"ram", "elevated", "storage", "networking"}, 0),
   Shape(0, 0, 0, {}, 0)}

\* The longest stack trace: 32 addresses in libraries with the longest names, after one
\* that is in no module.
LongestTrace == 1 + 4 + 26 + 32 * (1 + 1 + 255 + 8 + 1 + 16) + 1

Of(type, shapes) == {[type |-> type, shape |-> s] : s \in shapes}
Kinds(kinds) == {Shape(0, 0, 0, {}, k) : k \in kinds}
WithTrace == {Shape(0, 0, 0, {}, 0), Shape(255, LongestTrace, 0, {}, 0), Shape(3, 6, 0, {}, 0)}

MCRecords ==
  Of(LW!lt_t_crash, WithTrace) \cup Of(LW!lt_t_error, WithTrace) \cup Of(LW!lt_t_warning, WithTrace)
    \cup Of(LW!lt_t_log, {Shape(0, 0, 0, {}, 0), Shape(255, 0, 0, {}, 0)})
    \cup Of(LW!lt_t_perf_data, {Shape(0, 0, 1, {}, 0), Shape(0, 0, 255, {}, 0)})
    \cup Of(LW!lt_t_observed_exact_value_variable_length,
            {Shape(0, 0, 0, {}, LW!lt_vt_string), Shape(255, 0, 0, {}, LW!lt_vt_string)})
    \cup Of(LW!lt_t_state, Kinds({0})) \cup Of(LW!lt_t_operation, Kinds({0}))
    \cup Of(LW!lt_t_observed_value,
            Kinds({LW!lt_vt_u64, LW!lt_vt_i64, LW!lt_vt_f64, LW!lt_vt_f32_2}))
    \cup Of(LW!lt_t_observed_exact_value, Kinds({LW!lt_vt_u64, LW!lt_vt_i64}))
    \cup Of(LW!lt_t_perf_metric, Kinds({0}))

\* Nothing in it; one of everything; two of everything, in the other kinds.
Flags == {"hasMinLastOperation", "hasMaxLastOperation", "hasDisasm", "hasDescription",
          "hasStackTrace", "hasStateIndex"}
MCAnalyses == {Shape(0, 0, 0, {}, 0), Shape(255, 0, 1, Flags, 2), Shape(3, 0, 1, {"hasStackTrace"}, 1),
               Shape(1, 0, 2, {"hasMaxLastOperation", "hasDescription", "hasStackTrace"}, 0)}

\* Two products, one of them with three versions.
Version(p, V, v) == [p |-> p, V |-> V, v |-> v]
MCReports ==
  {[version |-> Version(0, 0, 0), shape |-> Shape(0, 0, 0, {}, 0)],
   [version |-> Version(0, 0, 1), shape |-> Shape(1, 0, 2, Flags, 2)],
   [version |-> Version(0, 1, 0), shape |-> Shape(1, 0, 1, {"hasStackTrace"}, 1)],
   [version |-> Version(1, 0, 0),
    shape |-> Shape(1, 0, 3, {"hasMaxLastOperation", "hasDescription", "hasStackTrace"}, 0)]}

\* The name of the second product is that of the first, an ampersand and something else.
MCDecoded == 0 :> 0 @@ 1 :> 0

Word(module, offset, readable) == [module |-> module, offset |-> offset, readable |-> readable]
MCWords == {Word("app", 1, TRUE), Word("a", 1, TRUE), Word("a", 2, FALSE), Word("b", 1, FALSE),
            Word("none", 7, FALSE)}
=============================================================================
