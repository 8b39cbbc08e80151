----------------------------- MODULE MCFraming -----------------------------
\* Names of one and of two characters, in ASCII and with one character of two bytes.
EXTENDS Framing

MCNames == {[c |-> 1, b |-> 1], [c |-> 1, b |-> 2], [c |-> 2, b |-> 2]}

\* A target below the mount point gets shorter, another one longer.
MCRelative == [n \in MCNames |-> IF n.c = 2 THEN [c |-> 1, b |-> 1] ELSE [c |-> 2, b |-> 2]]
=============================================================================
