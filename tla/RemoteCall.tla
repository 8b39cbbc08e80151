----------------------------- MODULE RemoteCall -----------------------------
(***************************************************************************)
(* What a client and its worker promise each other, with the bytes between *)
(* them left out: a connection is made for a session or for a              *)
(* registration; in a session there is one call at a time, the worker      *)
(* performs it once and as the operation it was made as, and the call      *)
(* returns what came of that.  A side may lose its place among the bytes;  *)
(* this happens to a few messages only, and then nothing more is done.     *)
(***************************************************************************)
EXTENDS Integers

CONSTANTS Requests,        \* the calls, each with its operation op
          Nothing,         \* what stands for a call before the first one
          Fragile,         \* calls that a worker may lose its place in
          FragileReplies,  \* operations with an answer that a client may lose its place in
          Silent           \* operations that do not return what came of them

VARIABLES stage, asked,    \* where the two are, and the last call
          performed,       \* the operation that the worker performed for it, or "none"
          failed, returned \* whether it failed there, and what the client returned last

remoteVars == <<stage, asked, performed, failed, returned>>

Init == /\ stage = "connected" /\ asked = Nothing /\ performed = "none"
        /\ failed = FALSE /\ returned = 0

Moves(from, to) == stage = from /\ stage' = to

Mount  == Moves("connected", "ready") /\ UNCHANGED <<asked, performed, failed, returned>>
Enroll == Moves("connected", "registering") /\ UNCHANGED <<asked, performed, failed, returned>>
End    == /\ Moves("connected", "ended") \/ Moves("registering", "ended")
          /\ UNCHANGED <<asked, performed, failed, returned>>

Ask(k) == /\ Moves("ready", "asked") /\ asked' = k /\ performed' = "none"
          /\ UNCHANGED <<failed, returned>>
Perform == /\ Moves("asked", "answered") /\ performed' = asked.op /\ failed' \in BOOLEAN
           /\ UNCHANGED <<asked, returned>>
Return == /\ Moves("answered", "ready") /\ returned' \in Int
          /\ asked.op \notin Silent => (returned' < 0 <=> failed)
          /\ UNCHANGED <<asked, performed, failed>>

Lose == /\ \/ Moves("registering", "lost")
           \/ Moves("asked", "lost") /\ asked \in Fragile
           \/ Moves("answered", "lost") /\ asked.op \in FragileReplies
        /\ UNCHANGED <<asked, performed, failed, returned>>

Next == Mount \/ Enroll \/ End \/ (\E k \in Requests : Ask(k)) \/ Perform \/ Return \/ Lose

Spec == Init /\ [][Next]_remoteVars
=============================================================================
