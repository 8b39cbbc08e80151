---------------------------- MODULE MCWriteBack ----------------------------
(* WriteBack for TLC: one client. *)
EXTENDS WriteBack, TLC

Symmetry == Permutations(Handles) \cup Permutations(Paths) \cup Permutations(Inodes)

Budget(w, d, m, r, o, f, x) ==
  [writes |-> w, drops |-> d, moves |-> m, reads |-> r, open |-> o, files |-> f, fails |-> x]

(* Two open files; two, and a full disk; two, and a broken connection;     *)
(* one, with more writes; files that move; reads and truncates; moves and  *)
(* a broken connection; a truncate that is under way when the connection   *)
(* breaks.                                                                 *)
MCBudgets ==
  {Budget(4, 0, 0, 0, 2, 1, 0), Budget(3, 0, 0, 0, 2, 1, 1), Budget(2, 1, 0, 0, 2, 1, 1),
   Budget(3, 1, 0, 0, 1, 1, 1), Budget(3, 0, 2, 0, 1, 2, 1), Budget(3, 0, 0, 2, 1, 1, 0),
   Budget(2, 0, 0, 2, 1, 1, 1), Budget(2, 1, 1, 0, 1, 2, 1), Budget(1, 1, 0, 1, 1, 1, 1)}

(* Two files, of which a write can get from one into the other. *)
MCStale == {Budget(4, 1, 0, 0, 2, 2, 1)}
=============================================================================
