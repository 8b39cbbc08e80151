------------------------------ MODULE FdTable ------------------------------
(***************************************************************************)
(* The file descriptors of SSNFSd.  One worker thread serves one           *)
(* connection; all threads share the descriptor table of the process and   *)
(* the directory tree of the share.  A client never sees a kernel          *)
(* descriptor: the worker's hash `fds` maps the number it gave the client  *)
(* (FakeFd) to the kernel's (realFd), and before a descriptor is used the  *)
(* link /proc/self/fd/<realFd> is compared with the path the client sent.  *)
(*                                                                         *)
(* The system calls of a handler and its changes of the hash are steps of  *)
(* their own, and so is the comparison: other workers run in between.  In  *)
(* particular open() answers before the entry is made, and close() frees   *)
(* the number before the entry is removed.  A reply that reports an error  *)
(* without changing anything (EACCES, ENOENT, EMFILE) is a stuttering step *)
(* and has no action.                                                      *)
(***************************************************************************)
EXTENDS Integers, FiniteSets

CONSTANTS Workers,    \* worker slots; a slot is used again by a later connection
          Paths,      \* the file names of the share
          LongPaths,  \* those whose full name exceeds ProcLinkSize bytes
          Inodes,     \* regular files
          Root,       \* the share's directory itself
          Reals,      \* kernel descriptors left for files of the share
          MaxFake,    \* numeric_limits<int>::max() - 1 in the code
          None, Closed

Fakes == 1..MaxFake

Files == Inodes \cup {Root}

(* What QHash::value answers for a key that is not there; descriptor 0 is  *)
(* the daemon's standard input and stays open.                             *)
StdIn == 0

(* read, write and each request of a writebulk use a descriptor alike. *)
Ops == {"transfer", "release"}

ASSUME ConstantsAssumption ==
  /\ LongPaths \subseteq Paths
  /\ Reals \subseteq Nat \ {StdIn}
  /\ MaxFake \in Nat
  /\ Root \notin Inodes
  /\ None \notin Files
  /\ Closed \notin Files \cup {None}
  /\ None \notin Paths

VARIABLES
  dir,      \* dir[p]: the file at path p, or None
  kern,     \* kern[r]: the file descriptor r is open on, or Closed
  fds,      \* fds[w][f]: realFd of FakeFd f in worker w, StdIn when absent
  hand,     \* hand[w]: what open() returned to w, not in `fds` yet, or StdIn
  phase,    \* where worker w is in ReadyToRead
  req,      \* the request worker w is serving
  verdict,  \* what the comparison of the link with the path gave
  target    \* the file at the requested path when the comparison succeeded

vars == <<dir, kern, fds, hand, phase, req, verdict, target>>

NoReq == [op |-> "none", path |-> None, fake |-> 0]

Requests == {NoReq} \cup [op : Ops, path : Paths, fake : 0..MaxFake]

(* In which the worker of a connection can be: before or between requests, *)
(* after the comparison, after the open() of a request that came whole or  *)
(* was cut short, after the close(), and after a connection was lost.      *)
Phases == {"gone", "wait", "act", "opened", "cut", "closed", "end"}

NoFds == [f \in Fakes |-> StdIn]

TypeOK ==
  /\ dir \in [Paths -> Inodes \cup {None}]
  /\ kern \in [Reals -> Files \cup {Closed}]
  /\ fds \in [Workers -> [Fakes -> Reals \cup {StdIn}]]
  /\ hand \in [Workers -> Reals \cup {StdIn}]
  /\ phase \in [Workers -> Phases]
  /\ req \in [Workers -> Requests]
  /\ verdict \in [Workers -> {"none", "ok", "EBADF", "grew"}]
  /\ target \in [Workers -> Inodes \cup {None}]

Init ==
  /\ dir = [p \in Paths |-> None]
  /\ kern = [r \in Reals |-> Closed]
  /\ fds = [w \in Workers |-> NoFds]
  /\ hand = [w \in Workers |-> StdIn]
  /\ phase = [w \in Workers |-> "gone"]
  /\ req = [w \in Workers |-> NoReq]
  /\ verdict = [w \in Workers |-> "none"]
  /\ target = [w \in Workers |-> None]

-----------------------------------------------------------------------------
(* The kernel and QHash, as the handlers use them. *)

(* fds.value(fakeFd) *)
RealOf(w, f) == IF f \in Fakes THEN fds[w][f] ELSE StdIn

(* The name /proc shows for descriptor r: the file's present path.  None is *)
(* any text that is no path of the share: a "(deleted)" name, or standard  *)
(* input.                                                                  *)
LinkOf(r) ==
  IF r \in Reals /\ \E p \in Paths : dir[p] = kern[r]
  THEN CHOOSE p \in Paths : dir[p] = kern[r]
  ELSE None

(* open() takes the lowest descriptor that is free in the process. *)
NextReal(r) ==
  /\ r \in Reals
  /\ kern[r] = Closed
  /\ \A s \in Reals : s < r => kern[s] # Closed

(* A file that has neither a name nor an open descriptor can be created. *)
Fresh(i) ==
  /\ i \in Inodes
  /\ \A p \in Paths : dir[p] # i
  /\ \A r \in Reals : kern[r] # i
  /\ \A w \in Workers : target[w] # i

InUse(w) == {f \in Fakes : fds[w][f] # StdIn}

(* Mutant: the number after the count of entries, without a search. *)
MutCountPlusOne(w, f) == f \in Fakes /\ f = Cardinality(InUse(w)) + 1

(* The loop that looks for the first number missing from fds.keys(). *)
FirstFree(w, f) ==
  /\ f \in Fakes \ InUse(w)
  /\ \A g \in Fakes : g < f => g \in InUse(w)

-----------------------------------------------------------------------------
(* A connection is accepted: a new worker with an empty hash. *)
Accept(w) ==
  /\ phase[w] = "gone"
  /\ phase' = [phase EXCEPT ![w] = "wait"]
  /\ UNCHANGED <<dir, kern, fds, hand, req, verdict, target>>

(* The open() of an open operation.  O_CREAT makes the file when it is     *)
(* missing.                                                                *)
Open(w, p, create, r, i) ==
  /\ phase[w] = "wait"
  /\ NextReal(r)
  /\ IF dir[p] # None THEN i = dir[p] ELSE create /\ Fresh(i)
  /\ dir' = [dir EXCEPT ![p] = i]
  /\ kern' = [kern EXCEPT ![r] = i]
  /\ hand' = [hand EXCEPT ![w] = r]
  /\ phase' = [phase EXCEPT ![w] = "opened"]
  /\ UNCHANGED <<fds, req, verdict, target>>

(* The connection ends inside an open request: readExactBytes answers with *)
(* an empty array for what is missing, the missing fields become 0 and "", *)
(* and the operation runs: a read-only open of the share's directory, or   *)
(* of the file when only the flags were missing.                           *)
OpenCut(w, r, i) ==
  /\ phase[w] = "wait"
  /\ NextReal(r)
  /\ i \in {Root} \cup ({dir[p] : p \in Paths} \ {None})
  /\ kern' = [kern EXCEPT ![r] = i]
  /\ hand' = [hand EXCEPT ![w] = r]
  /\ phase' = [phase EXCEPT ![w] = "cut"]
  /\ UNCHANGED <<dir, fds, req, verdict, target>>

(* The rest of the open operation: the search for a FakeFd and the insert. *)
(* When none is left the reply is -EBADFD and the descriptor stays open.   *)
Insert(w) ==
  /\ phase[w] \in {"opened", "cut"}
  /\ \/ \E f \in Fakes : FirstFree(w, f) /\ fds' = [fds EXCEPT ![w][f] = hand[w]]
     \/ InUse(w) = Fakes /\ UNCHANGED fds
  /\ hand' = [hand EXCEPT ![w] = StdIn]
  /\ phase' = [phase EXCEPT ![w] = IF @ = "opened" THEN "wait" ELSE "end"]
  /\ UNCHANGED <<dir, kern, req, verdict, target>>

(* Mutant: any descriptor of a file of the share passes. *)
MutNoCompare(l, p) == IF l \in Paths THEN "ok" ELSE "EBADF"

(* lstat() reports 64 bytes as the size of every link in /proc/self/fd, so *)
(* a longer name makes readlink() return more than the size (r > st_size). *)
CompareLink(l, p) ==
  CASE l \in LongPaths -> "grew"
    [] l = p           -> "ok"
    [] OTHER           -> "EBADF"

(* read, write, each request of a writebulk, and release begin alike: the  *)
(* arguments are read, the hash is asked for the descriptor, lstat() and   *)
(* readlink() look at its link, the link is compared with the path.  When  *)
(* the comparison fails a transfer is over with an error, but a release    *)
(* goes on.                                                                *)
Check(w, o, p, f) ==
  /\ phase[w] = "wait"
  /\ req' = [req EXCEPT ![w] = [op |-> o, path |-> p, fake |-> f]]
  /\ verdict' = [verdict EXCEPT ![w] = CompareLink(LinkOf(RealOf(w, f)), p)]
  /\ target' = [target EXCEPT ![w] = IF verdict'[w] = "ok" THEN dir[p] ELSE None]
  /\ o = "release" \/ verdict'[w] = "ok"
  /\ phase' = [phase EXCEPT ![w] = "act"]
  /\ UNCHANGED <<dir, kern, fds, hand>>

(* The operation is over: the worker waits for the next one. *)
Reply(w) ==
  /\ phase' = [phase EXCEPT ![w] = "wait"]
  /\ req' = [req EXCEPT ![w] = NoReq]
  /\ verdict' = [verdict EXCEPT ![w] = "none"]
  /\ target' = [target EXCEPT ![w] = None]

(* pread() or pwrite().  What is read and written is the subject of        *)
(* WriteBack.                                                              *)
ReadOrWrite(w) ==
  /\ phase[w] = "act"
  /\ req[w].op = "transfer"
  /\ Reply(w)
  /\ UNCHANGED <<dir, kern, fds, hand>>

(* Mutant: every descriptor open on the path is closed. *)
MutCloseByPath(w) ==
  /\ phase[w] = "act"
  /\ req[w].op = "release"
  /\ kern' = [r \in Reals |-> IF LinkOf(r) = req[w].path THEN Closed ELSE kern[r]]
  /\ phase' = [phase EXCEPT ![w] = "closed"]
  /\ UNCHANGED <<dir, fds, hand, req, verdict, target>>

(* The close() of a release, only when the comparison succeeded. *)
Close(w) ==
  /\ phase[w] = "act"
  /\ req[w].op = "release"
  /\ kern' = IF verdict[w] = "ok"
             THEN [kern EXCEPT ![RealOf(w, req[w].fake)] = Closed]
             ELSE kern
  /\ phase' = [phase EXCEPT ![w] = "closed"]
  /\ UNCHANGED <<dir, fds, hand, req, verdict, target>>

(* Mutant: the entry is kept after close(). *)
MutRemoveNothing(w) ==
  /\ phase[w] = "closed"
  /\ Reply(w)
  /\ UNCHANGED <<dir, kern, fds, hand>>

(* The rest of the release: the answer, and fds.remove() in any case.  The *)
(* number has been free since the close().                                 *)
Remove(w) ==
  /\ phase[w] = "closed"
  /\ fds' = IF req[w].fake \in Fakes
            THEN [fds EXCEPT ![w][req[w].fake] = StdIn]
            ELSE fds
  /\ Reply(w)
  /\ UNCHANGED <<dir, kern, hand>>

Mknod(w, p, i) ==
  /\ phase[w] = "wait"
  /\ dir[p] = None
  /\ Fresh(i)
  /\ dir' = [dir EXCEPT ![p] = i]
  /\ UNCHANGED <<kern, fds, hand, phase, req, verdict, target>>

Unlink(w, p) ==
  /\ phase[w] = "wait"
  /\ dir[p] # None
  /\ dir' = [dir EXCEPT ![p] = None]
  /\ UNCHANGED <<kern, fds, hand, phase, req, verdict, target>>

(* rename() replaces what is at the new path. *)
Rename(w, p, q) ==
  /\ phase[w] = "wait"
  /\ p # q
  /\ dir[p] # None
  /\ dir' = [dir EXCEPT ![p] = None, ![q] = dir[p]]
  /\ UNCHANGED <<kern, fds, hand, phase, req, verdict, target>>

(* The connection ends: run() leaves its loop and the hash dies with the   *)
(* worker.  Nothing closes the descriptors that were in it.                *)
Disconnect(w) ==
  /\ phase[w] \in {"wait", "end"}
  /\ phase' = [phase EXCEPT ![w] = "gone"]
  /\ fds' = [fds EXCEPT ![w] = NoFds]
  /\ UNCHANGED <<dir, kern, hand, req, verdict, target>>

(* The daemon ends, by a crash or a restart: the kernel closes everything. *)
Restart ==
  /\ kern' = [r \in Reals |-> Closed]
  /\ fds' = [w \in Workers |-> NoFds]
  /\ hand' = [w \in Workers |-> StdIn]
  /\ phase' = [w \in Workers |-> "gone"]
  /\ req' = [w \in Workers |-> NoReq]
  /\ verdict' = [w \in Workers |-> "none"]
  /\ target' = [w \in Workers |-> None]
  /\ UNCHANGED dir

Next ==
  \/ \E w \in Workers :
       \/ Accept(w)
       \/ \E p \in Paths, create \in BOOLEAN, r \in Reals, i \in Inodes :
            Open(w, p, create, r, i)
       \/ \E r \in Reals, i \in Files : OpenCut(w, r, i)
       \/ Insert(w)
       \/ \E o \in Ops, p \in Paths, f \in 0..MaxFake : Check(w, o, p, f)
       \/ ReadOrWrite(w)
       \/ Close(w)
       \/ Remove(w)
       \/ \E p \in Paths, i \in Inodes : Mknod(w, p, i)
       \/ \E p \in Paths : Unlink(w, p)
       \/ \E p, q \in Paths : Rename(w, p, q)
       \/ Disconnect(w)
  \/ Restart

Spec == Init /\ [][Next]_vars
-----------------------------------------------------------------------------
(* Between close() and fds.remove() an entry names a number that is free,  *)
(* or another worker's by now; only the worker that is removing the entry  *)
(* could look at it.                                                       *)
Removing(w, f) == phase[w] = "closed" /\ req[w].fake = f

(* The FakeFds a request of worker w may still name. *)
Live(w) == {f \in Fakes : fds[w][f] # StdIn /\ ~Removing(w, f)}

(* lstat()'s result is not tested before st_size is used, so its structure *)
(* must be filled: an entry of `fds` (ssnfsworker.cpp, open and release)   *)
(* that a handler can look up names a descriptor that is open, whatever    *)
(* other workers close and open, and so does what open() just returned.    *)
FdsOpen ==
  \A w \in Workers :
    /\ \A f \in Live(w) : kern[fds[w][f]] # Closed
    /\ hand[w] # StdIn => kern[hand[w]] # Closed

(* The descriptor table is shared by all threads of the process, and a     *)
(* number is free before its entry is gone and taken before it has one: no *)
(* two entries that can be looked up, and no two descriptors on their way  *)
(* into a hash, are the same, so no client's release closes, and none of   *)
(* its writes reaches, another client's file.                              *)
FdsDistinct ==
  \A w, v \in Workers :
    /\ \A f \in Live(w), g \in Live(v) : fds[w][f] = fds[v][g] => w = v /\ f = g
    /\ \A f \in Live(w) : fds[w][f] # hand[v]
    /\ hand[w] # StdIn /\ hand[w] = hand[v] => w = v

(* pread(), pwrite() and close() run after the comparison of the link, with *)
(* other workers in between: when the comparison succeeded, they still act *)
(* on the file that was at the path the client named.                      *)
ActsOnNamed ==
  \A w \in Workers :
    phase[w] = "act" /\ verdict[w] = "ok" =>
      /\ target[w] # None
      /\ RealOf(w, req[w].fake) \in Reals
      /\ kern[RealOf(w, req[w].fake)] = target[w]

(* Descriptors no worker knows: those of a connection that ended, those of *)
(* an open that found no FakeFd, and those whose release found the file    *)
(* renamed or deleted.                                                     *)
Leaked ==
  {r \in Reals : /\ kern[r] # Closed
                  /\ \A w \in Workers :
                       hand[w] # r /\ \A f \in Live(w) : fds[w][f] # r}

(* Until the process ends, a descriptor that was lost stays lost: no later *)
(* client is given it, and none closes it (the daemon never gets it back). *)
LeakedNeverTouched ==
  [][ \/ \A r \in Leaked : r \in Leaked' /\ kern'[r] = kern[r]
      \/ \A w \in Workers : phase'[w] = "gone" ]_vars

(* A handle is given up with the close(), not when its entry goes. *)
Handle ==
  [w \in Workers |-> [f \in Fakes |->
     IF f \in Live(w) THEN kern[fds[w][f]] ELSE None]]

H == INSTANCE HandleTable WITH handle <- Handle

(* Seen through the kernel's table, the hashes are a table of handles in   *)
(* which an entry denotes the file it was opened on until its own worker   *)
(* releases it (open, release and ~SSNFSWorker of ssnfsworker.cpp).        *)
ImplementsHandleTable == H!Spec

(* The warning of the read, write, writebulk and release handlers, "The    *)
(* File Descriptor link in /proc increased in size between lstat() and     *)
(* readlink()!", is logged only when the link changed in between: never    *)
(* here, where lstat() and readlink() are one step.  Not so for a name in  *)
(* LongPaths.                                                              *)
NoSpuriousGrowth == \A w \in Workers : verdict[w] # "grew"
=============================================================================
