---------------------------- MODULE MCWebRequest ----------------------------
EXTENDS WebRequest

CONSTANTS MaxParts, MaxHeaders

\* "_" stands for white space
MCTrimmed == [p \in Parts |-> CASE p = "a_" -> "a" [] p = ".._" -> ".." [] p = "_" -> ""
                               [] OTHER -> p]

SeqsOf(S, lo, hi) == UNION {[1..n -> S] : n \in lo..hi}

(* Every path with a bare request, and every request with a path that has  *)
(* all kinds of parts.                                                     *)
MCAsked ==
  [path : SeqsOf(Parts, 1, MaxParts), headers : {<<>>}, stated : {0}, body : {0}] \cup
  [path : {<<"", "a", ".", "..">>}, headers : SeqsOf(Lines, 0, MaxHeaders),
   stated : 0..MaxBody, body : 0..MaxBody + 1]
=============================================================================
