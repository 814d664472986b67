------------------------------ MODULE FileBytes ------------------------------
(***************************************************************************)
(* The content of a file as a sequence of bytes: what the system calls     *)
(* pwrite, ftruncate and pread do to it.                                   *)
(***************************************************************************)
EXTENDS Integers, Sequences

\* The size of a read up to the end of the file.
ToEof == -1

Least(a, b) == IF a < b THEN a ELSE b
Most(a, b) == IF a > b THEN a ELSE b

\* pwrite: the bytes `s' are laid over `f' at offset `at'.
Overlay(f, at, s, hole) ==
  [i \in 1..Most(Len(f), at + Len(s)) |->
     IF i > at /\ i <= at + Len(s) THEN s[i - at]
     ELSE IF i <= Len(f) THEN f[i] ELSE hole]

\* ftruncate: `f' cut or extended to n bytes.
Resize(f, n, hole) == [i \in 1..n |-> IF i <= Len(f) THEN f[i] ELSE hole]

\* pread of n bytes at offset `at'.
Slice(f, at, n) == SubSeq(f, at + 1, Least(at + n, Len(f)))
==============================================================================
