------------------------------- MODULE Words -------------------------------
(***************************************************************************)
(* The unsigned 32-bit arithmetic of lib/bytes.h that sizes and offsets go *)
(* through.  UINT32_MAX is a parameter, so that the wrap-around at the end *)
(* of the range is reached on small numbers; ALIGN stands for 16 bytes, in *)
(* whatever unit the using module counts.                                  *)
(***************************************************************************)
EXTENDS Integers

CONSTANTS
    UINT32_MAX,   \* all ones: one less than a power of two
    ALIGN         \* the alignment of files in a ROM: a power of two, not 1

WORD == UINT32_MAX + 1
Word == 0..UINT32_MAX

(* No odd number but 1 divides a power of two.                             *)
IsPow2(n) == \A d \in 2..n : n % d = 0 => d % 2 = 0
AllOnes == {n \in Word : IsPow2(n + 1)}

ASSUME WordsAssumption ==
    /\ UINT32_MAX \in Nat \ {0}
    /\ UINT32_MAX \in AllOnes
    /\ ALIGN \in 2..UINT32_MAX
    /\ WORD % ALIGN = 0

(* The last multiple of ALIGN up to n. *)
align_down(n) == n - (n % ALIGN)

(* zelda64_align16: the next multiple of ALIGN, or 0 when there is none.   *)
zelda64_align16(n) ==
    LET m == (n + ALIGN - 1) % WORD IN m - (m % ALIGN)

(* The smear of zelda64_ceil_pow2: every bit below the highest one is set. *)
Smear(m) == CHOOSE ones \in AllOnes :
                ones >= m /\ \A o \in AllOnes : o >= m => ones <= o

(* zelda64_ceil_pow2: the next power of two, or 0 for 0 and for what lies  *)
(* above the largest power of two a word can hold.                         *)
zelda64_ceil_pow2(n) == (Smear((n - 1 + WORD) % WORD) + 1) % WORD
=============================================================================
