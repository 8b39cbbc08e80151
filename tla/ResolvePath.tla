---------------------------- MODULE ResolvePath ----------------------------
(***************************************************************************)
(* Common::resolveRelative: the path of a web request, split at its        *)
(* slashes, without empty, "." and ".." parts.  The loop edits the list it *)
(* walks over and sets its index back by one or two; a turn is a step.     *)
(* What is left is joined and trimmed: white space at the end of the last  *)
(* part goes, and only there, since the result begins with a slash.        *)
(***************************************************************************)
EXTENDS Integers, Sequences, SequencesExt

CONSTANTS Names,    \* parts other than "", "." and "..", with white space or without
          trimmed   \* a part without the white space at its end

Parts == Names \cup {"", ".", ".."}

ASSUME ResolvePathAssumption ==
  /\ Names \cap {"", ".", ".."} = {}
  /\ trimmed \in [Parts -> Parts] /\ \A part \in Parts \ Names : trimmed[part] = part

VARIABLES pathParts, i

resolving == <<pathParts, i>>

(* `path` is what split('/') gave. *)
Split(path) == pathParts' = path /\ i' = 0

More         == i < Len(pathParts)
At(k)        == pathParts[k + 1]
Without(s, k) == RemoveAt(s, k + 1)

(* for (...; i++), after "if (i < -1) i = -1" *)
NextIndex(k) == IF k < -1 THEN 0 ELSE k + 1

Name ==
  /\ More /\ At(i) \in Names
  /\ i' = NextIndex(i)
  /\ UNCHANGED pathParts

Dot ==
  /\ More /\ At(i) \in {"", "."}
  /\ pathParts' = Without(pathParts, i)
  /\ i' = NextIndex(i - 1)

(* Mutant: one step back for the two parts removed. *)
MutDotDot ==
  /\ More /\ At(i) = ".."
  /\ LET one == Without(pathParts, i)
     IN  pathParts' = IF i > 1 THEN Without(one, i - 1) ELSE one
  /\ i' = NextIndex(i - 1)

(* The part before goes as well, unless it is the first. *)
DotDot ==
  /\ More /\ At(i) = ".."
  /\ LET one == Without(pathParts, i)
     IN  pathParts' = IF i > 1 THEN Without(one, i - 1) ELSE one
  /\ i' = NextIndex(i - 2)

(* join('/'), a slash in front, and trimmed() *)
Trimmed(names) ==
  IF names = <<>> THEN names ELSE [names EXCEPT ![Len(names)] = trimmed[@]]
Join == ~More /\ pathParts' = Trimmed(pathParts) /\ UNCHANGED i

-----------------------------------------------------------------------------
(* What it should be, reading from left to right: a name is added, ".."    *)
(* takes the last name back, but never the first one.                      *)
Walk(names, part) ==
  CASE part \in Names -> Append(names, part)
    [] part = ".." /\ Len(names) > 1 -> Front(names)
    [] OTHER -> names
Walked(path) ==
  LET names[n \in 0..Len(path)] == IF n = 0 THEN <<>> ELSE Walk(names[n - 1], path[n])
  IN  names[Len(path)]
=============================================================================
