------------------------------ MODULE SeqSums ------------------------------
(***************************************************************************)
(* The sum of a sequence of integers, as a recursive function so that it   *)
(* can be proved about (BufferProofs) as well as evaluated by TLC.         *)
(***************************************************************************)
EXTENDS Integers, Sequences

\* SumTo(f)[n] is f[1] + ... + f[n].
SumTo(f) ==
    LET sum[n \in Nat] == IF n = 0 THEN 0 ELSE sum[n - 1] + f[n]
    IN  sum

SeqSum(f) == SumTo(f)[Len(f)]
=============================================================================
