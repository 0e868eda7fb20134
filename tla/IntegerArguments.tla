-------------------------- MODULE IntegerArguments --------------------------
(***************************************************************************)
(* The conversions of integer arguments in _core.pyx: a Python integer of  *)
(* any size becomes a C integer of the argument's type or is refused.  The *)
(* widths are constants: TLC takes small ones, the theorem holds for all   *)
(* that satisfy the assumption, the real ones included.                    *)
(***************************************************************************)
EXTENDS Integers

CONSTANTS
    PythonInts, \* the integers a caller may pass
    SettingMax, \* 0xFFFF
    IntMax,     \* 0x7FFFFFFF
    UIntMax,    \* 0xFFFFFFFF
    LongMax,    \* the largest long long
    ULongMax,   \* the largest uint64_t
    SizeMax,    \* the largest size_t
    SsizeMax    \* the largest Py_ssize_t, (<size_t>-1) >> 1

VARIABLE argument \* the integer argument of the next call

ASSUME PythonIntsAssumption == PythonInts \subseteq Int

(***************************************************************************)
(* A long long holds an uint32_t, and a size_t holds what is positive in a *)
(* long long: 64-bit platforms.  Where size_t is narrower the cast of      *)
(* _nonnegative_size drops the upper bits before they are compared.        *)
(***************************************************************************)
ASSUME Widths ==
    /\ SettingMax \in Nat /\ IntMax \in Nat /\ UIntMax \in Nat /\ LongMax \in Nat
    /\ ULongMax \in Nat /\ SizeMax \in Nat /\ SsizeMax \in Nat
    /\ SettingMax <= IntMax
    /\ IntMax <= UIntMax
    /\ UIntMax <= LongMax
    /\ LongMax <= SizeMax
    /\ SsizeMax <= LongMax

Rejected == [ok |-> FALSE, value |-> 0]
Accepted(v) == [ok |-> TRUE, value |-> v]

\* The casts <uint32_t>, <size_t> and <int>, <Py_ssize_t> of a C integer.
Unsigned(v, max) == IF v \in 0..max THEN v ELSE v % (max + 1)
Signed(v, max) == IF v \in (-max - 1)..max THEN v
                  ELSE ((v + max + 1) % (2 * max + 2)) - max - 1

\* PyLong_AsLongLongAndOverflow: the sign of the overflow, and -1 with it.
Overflow(v) == IF v > LongMax THEN 1 ELSE IF v < -LongMax - 1 THEN -1 ELSE 0
LongLong(v) == IF Overflow(v) = 0 THEN v ELSE -1

\* What the converters test before they return their result.
StreamIdRefuses(v) == Overflow(v) # 0 \/ LongLong(v) <= 0 \/ LongLong(v) > IntMax
Uint31Refuses(v) == Overflow(v) # 0 \/ LongLong(v) < 0 \/ LongLong(v) > IntMax
Uint32Refuses(v) == Overflow(v) # 0 \/ LongLong(v) < 0 \/ LongLong(v) > UIntMax
\* Mutant: the result is compared as it comes, without a look at overflow.
NonnegativeRefusesLate(v) ==
    Overflow(v) < 0 \/ Unsigned(LongLong(v), SizeMax) > SizeMax

NonnegativeRefuses(v) ==
    \/ Overflow(v) < 0 \/ (Overflow(v) = 0 /\ LongLong(v) < 0)
    \/ Overflow(v) # 0 \/ Unsigned(LongLong(v), SizeMax) > SsizeMax

\* The converter of each C type: its tests, then the cast of its return.
Stream_id(v) == IF StreamIdRefuses(v) THEN Rejected
                ELSE Accepted(Signed(LongLong(v), IntMax))
Uint31(v) == IF Uint31Refuses(v) THEN Rejected
             ELSE Accepted(Signed(LongLong(v), IntMax))
Uint32(v) == IF Uint32Refuses(v) THEN Rejected
             ELSE Accepted(Unsigned(LongLong(v), UIntMax))
Uint64(v) == IF v \in 0..ULongMax THEN Accepted(v) ELSE Rejected
Size(v) == IF v < 0 \/ v > SizeMax THEN Rejected ELSE Accepted(v)
PositiveSize(v) == IF Size(v).ok /\ Size(v).value # 0 THEN Size(v) ELSE Rejected
NonnegativeSize(v) == IF NonnegativeRefuses(v) THEN Rejected
                      ELSE Accepted(Signed(LongLong(v), SsizeMax))

\* _normalize_settings and _make_settings: an identifier and a value.
SettingRefuses(k, v) == k \notin 0..SettingMax \/ v \notin 0..UIntMax
SettingEntry(k, v) == IF SettingRefuses(k, v) THEN <<Rejected, Rejected>>
                      ELSE <<Accepted(Signed(k, IntMax)), Accepted(Unsigned(v, UIntMax))>>

-----------------------------------------------------------------------------
\* What is promised for the integers low..high.
Exact(result, v, low, high) ==
    result = IF v \in low..high THEN Accepted(v) ELSE Rejected

\* See IntegersExact, for one integer.
ExactFor(v) ==
    /\ Exact(Stream_id(v), v, 1, IntMax)
    /\ Exact(Uint31(v), v, 0, IntMax)
    /\ Exact(Uint32(v), v, 0, UIntMax)
    /\ Exact(Uint64(v), v, 0, ULongMax)
    /\ Exact(Size(v), v, 0, SizeMax)
    /\ Exact(PositiveSize(v), v, 1, SizeMax)
    /\ Exact(NonnegativeSize(v), v, 0, SsizeMax)
    /\ \A k \in {v, 0} :
          SettingEntry(k, v) = IF k \in 0..SettingMax /\ v \in 0..UIntMax
                               THEN <<Accepted(k), Accepted(v)>>
                               ELSE <<Rejected, Rejected>>

(***************************************************************************)
(* Every converter takes the integers of its range unchanged and refuses   *)
(* all others: no value is truncated or changes its sign between the       *)
(* Python integer and the native call (_stream_id, _uint31, _uint32,       *)
(* _uint64, _size, _positive_size, _nonnegative_size, _normalize_settings).*)
(***************************************************************************)
IntegersExact == ExactFor(argument)
=============================================================================
