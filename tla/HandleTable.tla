---------------------------- MODULE HandleTable ----------------------------
(***************************************************************************)
(* What the worker threads of SSNFSd promise about file handles, with the  *)
(* kernel's descriptor numbers left out: every worker has a table from the *)
(* small numbers it gives its client (the FakeFds of ssnfsworker.cpp) to   *)
(* open files, and an entry denotes the file it was opened on from the     *)
(* open until the release, the end of the connection or the end of the     *)
(* process, whatever the other workers do.                                 *)
(***************************************************************************)
EXTENDS Naturals

CONSTANTS Workers,   \* worker threads, one for each connection
          Files,     \* what a handle can denote
          MaxFake,   \* the largest handle number
          None       \* the value of a number that is not in use

Fakes == 1..MaxFake

VARIABLE handle      \* handle[w][f]: the file handle f of worker w denotes

NoHandles == [f \in Fakes |-> None]

Init == handle = [w \in Workers |-> NoHandles]

(* Opening a file hands out the lowest number the worker does not use. *)
Open(w, f, i) ==
  /\ handle[w][f] = None
  /\ \A g \in Fakes : g < f => handle[w][g] # None
  /\ handle' = [handle EXCEPT ![w][f] = i]

Release(w, f) == handle' = [handle EXCEPT ![w][f] = None]

Disconnect(w) == handle' = [handle EXCEPT ![w] = NoHandles]

Restart == handle' = [w \in Workers |-> NoHandles]

Next ==
  \/ \E w \in Workers, f \in Fakes, i \in Files : Open(w, f, i)
  \/ \E w \in Workers, f \in Fakes : Release(w, f)
  \/ \E w \in Workers : Disconnect(w)
  \/ Restart

Spec == Init /\ [][Next]_handle
=============================================================================
