------------------------------ MODULE MCSetup ------------------------------
EXTENDS Setup, TLC

MCSymmetry == Permutations(KeyPaths) \cup Permutations(Emails)
              \cup Permutations(Passwords) \cup Permutations(Logs)
=============================================================================
