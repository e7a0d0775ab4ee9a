------------------------------- MODULE Config -------------------------------
(***************************************************************************)
(* Config::Init: the options and limits of the library, from the two       *)
(* environment variables it reads.  A variable's text is what strtol makes *)
(* of it: Unset, a text that is not a number, or the number.               *)
(***************************************************************************)
EXTENDS Integers

CONSTANTS
  SIZE_MAX,    \* the largest size_t
  LONG_MAX,    \* the largest long
  MB,          \* 1024 * 1024
  MinDefault,  \* the 1024 bytes below which a recorded peak shows no backtrace
  Unset,       \* getenv returned null
  NotANumber   \* a text strtol does not read to its end

ASSUME SizeAssumption ==
  SIZE_MAX \in Nat /\ LONG_MAX \in 0 .. SIZE_MAX /\ MB \in 1 .. SIZE_MAX /\ MinDefault \in 0 .. SIZE_MAX

(* ParseValue: success, and the value, 0 when there is none.  strtol       *)
(* reports what does not fit a long.                                       *)
ParseValue(text) ==
  IF text \in {Unset, NotANumber} \/ text > LONG_MAX \/ text < 0
  THEN [ok |-> FALSE, value |-> 0]
  ELSE [ok |-> TRUE, value |-> text]

(* env.min is BACKTRACE_MIN_SIZE, env.peak DUMP_PEAK_VALUE_MB.             *)
ConfigInit(env) ==
  LET min  == ParseValue(env.min)
      peak == ParseValue(env.peak)
  IN  [options  |-> {"BACKTRACE_SPECIFIC_SIZES", "BACKTRACE", "TRACK_ALLOCS", "DUMP_ON_SIGNAL"}
                      \cup (IF peak.ok THEN {"RECORD_MEMORY_PEAK"} ELSE {}),
       min_size |-> IF peak.ok /\ env.min = Unset THEN MinDefault ELSE min.value,
       max_size |-> SIZE_MAX,
       dump_on_exit |-> peak.ok,
       dump_peak_val |-> (peak.value * MB) % (SIZE_MAX + 1)]
=============================================================================
