------------------------------- MODULE Limits -------------------------------
(***************************************************************************)
(* The two readings of a limit given to cspip run: cspip-runtime parses    *)
(* the text and applies it to the cgroup (internal/runtime/cgroup.c), and  *)
(* cspip parses the same text once more for the record (main.go).          *)
(*                                                                         *)
(* A memory limit is a sign, digits, perhaps a fraction, a unit, and       *)
(* perhaps a blank or a "b" behind it; its case does not matter to either. *)
(* A CPU limit is a number of hundredths, of cores or of per cent.  The    *)
(* texts are shorter than the 32 bytes that the runtime copies.            *)
(***************************************************************************)
EXTENDS Integers

CONSTANTS
  Kilo,   \* 1024 in the code
  Long    \* 2^63 in the code: signed integers are below it, unsigned below twice

ASSUME KiloAssumption == Kilo \in Nat \ {0}
ASSUME LongAssumption == Long \in Nat \ {0}

Units == {"", "k", "m", "g"}
MemTexts == [sign : {"", "+", "-"}, whole : Nat, fraction : BOOLEAN,
             unit : Units, tail : {"", "blank", "b"}]
CpuTexts == [hundredths : Int, percent : BOOLEAN]

Multiplier(unit) ==
  CASE unit = "" -> 1
    [] unit = "k" -> Kilo
    [] unit = "m" -> Kilo * Kilo
    [] unit = "g" -> Kilo * Kilo * Kilo

Unlimited == -1

\* parse_mem_limit and the write to memory.max: the unit counts when it is the
\* very last character; atoll takes the sign and the digits, stops there, and
\* saturates.  The product wraps, and a negative one is refused.
AppliedMem(t) ==
  LET base == IF t.whole < Long THEN t.whole ELSE Long - 1
      bytes == (base * Multiplier(IF t.tail = "" THEN t.unit ELSE "")) % (2 * Long)
  IN  IF t.sign = "-" \/ t.whole = 0 \/ bytes >= Long THEN Unlimited ELSE bytes

\* Fault: "256mb" is read as 256m.
RecordedMemBytes(t) ==
  IF t.sign = "" /\ ~t.fraction THEN (t.whole * Multiplier(t.unit)) % (2 * Long) ELSE 0

\* ParseUint, its error ignored: 0 for what is not digits only, the largest
\* number for one out of range, whatever follows the digits.
ParsedUint(t) ==
  IF t.sign # "" THEN 0
  ELSE IF t.whole >= 2 * Long THEN 2 * Long - 1
  ELSE IF t.fraction \/ t.tail = "b" THEN 0 ELSE t.whole

\* parseMemLimit: blanks are cut off before the unit is looked for, and the
\* product wraps.  0 is for "unknown".
RecordedMem(t) ==
  (ParsedUint(t) * Multiplier(IF t.tail = "b" THEN "" ELSE t.unit)) % (2 * Long)

\* The bytes that a text names fit a signed integer.
Fits(t) == t.whole * Multiplier(t.unit) < Long

Period == 100000       \* microseconds
MinQuota == 1000       \* what the kernel takes for cpu.max at least

\* parse_cpu_limit and the write to cpu.max: microseconds per Period.
AppliedCpu(t) ==
  LET quota == t.hundredths * (IF t.percent THEN Period \div 10000 ELSE Period \div 100)
  IN  IF (t.percent /\ t.hundredths > 10000000) \/ quota < MinQuota
        THEN Unlimited ELSE quota
=============================================================================
