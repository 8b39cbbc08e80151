----------------------------- MODULE MCFdTable -----------------------------
(* FdTable with two connections at a time, for TLC. *)
EXTENDS FdTable, TLC

(* Workers and files are interchangeable, and so are paths of one kind. *)
Symmetry == Permutations(Workers) \cup Permutations(Inodes)
            \cup Permutations(LongPaths) \cup Permutations(Paths \ LongPaths)
=============================================================================
