------------------------------ MODULE Descent -------------------------------
(***************************************************************************)
(* Why a loop ends: a tuple of numbers says what is left to do, its most   *)
(* significant part first, and every step makes it less.  In the order of  *)
(* dictionaries no tuple can become less for ever (NoEndlessDescent in     *)
(* RomFilesProofs), so a loop of which that is proved takes finitely many  *)
(* steps.                                                                  *)
(***************************************************************************)
EXTENDS Integers, Sequences

IsMeasure(u) == \A k \in 1..Len(u) : u[k] \in Nat

IsLess(u, v) ==
    \E k \in 1..Len(v) : u[k] < v[k] /\ \A j \in 1..(k - 1) : u[j] = v[j]

(* Measures of n parts, each less than the one before it, without end.     *)
IsDescent(f, n) ==
    \A m \in Nat : IsMeasure(f[m]) /\ Len(f[m]) = n /\ IsLess(f[m + 1], f[m])
=============================================================================
