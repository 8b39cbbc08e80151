--------------------------- MODULE MCRegistration ---------------------------
EXTENDS Registration, TLC

(* Runs of --register, web workers and connections are interchangeable. *)
MCSymmetry == Permutations(Attempts) \cup Permutations(Approvers) \cup Permutations(Sessions)
=============================================================================
