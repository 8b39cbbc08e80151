----------------------------- MODULE WriteBack -----------------------------
(***************************************************************************)
(* The write path of a mounted share: FuseClient (fs_open, fs_write,       *)
(* writeBuffer, fs_read, fs_truncate, fs_release, fs_rename, fs_destroy),  *)
(* the connection, and the worker that serves it.                          *)
(*                                                                         *)
(* FuseClient is single-threaded and runs one call at a time; a call sends *)
(* one or two requests.  A request is an operation code, the worker's OK,  *)
(* the arguments, and the result.  The connection may break at any point.  *)
(* The worker does not notice before it has read what arrived: it goes on  *)
(* with it while the client already serves its next call on a new          *)
(* connection (a "late" worker).  Fields that did not arrive are read as 0 *)
(* or empty, by both sides.                                                *)
(*                                                                         *)
(* The worker's descriptors are a table of handles here: FdTable, which    *)
(* models them as they are, implements HandleTable.                        *)
(***************************************************************************)
EXTENDS Integers, Sequences, FiniteSets, SequencesExt

CONSTANTS Handles,     \* files an application can hold open at a time
          Paths, Inodes,
          MaxFake,     \* handle numbers of a worker are 1..MaxFake
          MaxOff,      \* offsets are 0..MaxOff; the unit stands for any number of bytes
          MaxSize,     \* a write has 1..MaxSize units
          BatchLimit,  \* bytesPerBatch, 1048576 bytes in the code
          MaxWrites,   \* bound on the writes of a behaviour
          Budgets,     \* bounds that a behaviour has to stay in one of: on writes, broken
                       \* connections (drops), changes of the directory (moves), reads and
                       \* truncates (reads), files open at a time (open) and files (files),
                       \* and on whether anything may fail (fails)
          None, Garbage

Fakes   == 1..MaxFake
Ids     == 1..MaxWrites
Offsets == 0..MaxOff
Hole    == 0               \* a unit that was never written
Error   == -1              \* any negative result
ECOMM   == -2              \* the client's own error, of no result it read

ASSUME WriteBackAssumption ==
  /\ MaxFake \in Nat /\ MaxOff \in Nat /\ MaxSize \in Nat \ {0}
  /\ BatchLimit \in Nat /\ MaxWrites \in Nat
  /\ Budgets \subseteq [writes : 0..MaxWrites, drops : Nat, moves : Nat, reads : Nat,
                         open : Nat, files : Nat, fails : {0, 1}]
  /\ None \notin Inodes \cup Paths
  /\ Garbage \notin Ids \cup {Hole}

VARIABLES
  \* the server
  dir,      \* dir[p]: the file at path p
  data,     \* data[i][o]: the write that unit o of file i holds, Hole or Garbage
  fds,      \* fds[f]: the file that handle f of the present worker denotes
  todo,     \* what the present worker has still to do of a request
  res,      \* the result it has so far
  late,     \* workers of broken connections that still have something to do
  \* the client
  up,       \* the socket is connected
  hpath,    \* hpath[h]: the path of an open file, None when h is not open
  hfh,      \* hfh[h]: its fi->fh
  FdsUsed, buf, bytes,     \* clientWriteBuffer
  pc, call, rq,            \* the call, and the request it is at
  \* what happened, for the properties
  log,       \* the writes, in the order fs_write was called: what it was given, and the
             \* file its descriptor number denoted; `unchecked` marks the first one
             \* through a handle when it went into the buffer
  acked,     \* those that fs_write reported as written
  appliedOn, \* appliedOn[n]: the connection whose worker ran write n, 0 for none
  names,     \* names[i]: the paths file i has had
  hnew,      \* handles through which nothing has been written yet
  seen,      \* the last read: its handle number, the file and the unit it read, what it
             \* got, and the writes run so far
  cuts,      \* the truncates that were run: file, length, and the writes run so far
  held,      \* the most files that were open at a time
  reads, drops, moves, calm

server == <<dir, data, fds, todo, res, late>>
client == <<up, hpath, hfh, FdsUsed, buf, bytes, pc, call, rq>>
looks  == <<seen, cuts, reads>>
ghost  == <<log, acked, appliedOn, names, hnew, looks, held, drops, moves, calm>>
vars   == <<server, client, ghost>>

NoCall == [op |-> "none", h |-> None, path |-> None, to |-> None, at |-> 0]
NoRead == [fd |-> 0, file |-> None, at |-> 0, val |-> Hole, run |-> {}]

(* What a worker is asked to do. *)
OpenItem(p)            == [k |-> "open", path |-> p]
WriteItem(p, f, o, vs) == [k |-> "write", path |-> p, fd |-> f, off |-> o, vals |-> vs]
ReleaseItem(p, f)      == [k |-> "release", path |-> p, fd |-> f]
RenameItem(p, q)       == [k |-> "rename", path |-> p, to |-> q]
ReadItem(p, f, o)      == [k |-> "read", path |-> p, fd |-> f, off |-> o]
TruncateItem(p, l)     == [k |-> "truncate", path |-> p, len |-> l]

NoFds == [f \in Fakes |-> None]

(* Some budget has room for one more of x. *)
Room(x) ==
  LET extra(y) == IF x = y THEN 1 ELSE 0
      files    == Cardinality({i \in Inodes : names[i] # {}})
  IN  \E b \in Budgets :
        /\ Len(log) + extra("writes") <= b.writes
        /\ drops + extra("drops") <= b.drops
        /\ moves + extra("moves") <= b.moves
        /\ reads + extra("reads") <= b.reads
        /\ held + extra("open") <= b.open
        /\ files + extra("files") <= b.files
        /\ b.fails = 1 \/ (calm /\ x \notin {"fails", "drops", "moves"})

(* Any files may be in the share; the client has just mounted it. *)
Init ==
  /\ dir \in {d \in [Paths -> Inodes \cup {None}] :
                 \A p, q \in Paths : d[p] = d[q] /\ d[p] # None => p = q}
  /\ data = [i \in Inodes |-> [o \in Offsets |-> Hole]]
  /\ fds = NoFds /\ todo = <<>> /\ res = 0 /\ late = <<>>
  /\ up = TRUE
  /\ hpath = [h \in Handles |-> None] /\ hfh = [h \in Handles |-> 0]
  /\ FdsUsed = {} /\ buf = <<>> /\ bytes = 0
  /\ pc = "idle" /\ call = NoCall /\ rq = "none"
  /\ log = <<>> /\ acked = {} /\ appliedOn = [n \in Ids |-> 0]
  /\ names = [i \in Inodes |-> {p \in Paths : dir[p] = i}]
  /\ hnew = {} /\ seen = NoRead /\ cuts = {} /\ reads = 0
  /\ held = 0 /\ drops = 0 /\ moves = 0 /\ calm = TRUE

-----------------------------------------------------------------------------
(* The worker.  `tbl` is its table of handles, `cn` its connection. *)

(* Mutant: the descriptor is used without looking at the path. *)
MutNoPathCheck(tbl, it) == it.fd \in Fakes /\ tbl[it.fd] # None

(* fds.value(fakeFd), and finalPath == actualFdFilePath. *)
LinkMatches(tbl, it) == it.fd \in Fakes /\ tbl[it.fd] # None /\ tbl[it.fd] = dir[it.path]

(* pwrite() of the whole request. *)
Pwrite(tbl, it, cn) ==
  /\ LinkMatches(tbl, it)
  /\ data' = [data EXCEPT ![tbl[it.fd]] =
                [o \in Offsets |->
                   IF o \in it.off .. it.off + Len(it.vals) - 1
                   THEN it.vals[o - it.off + 1] ELSE @[o]]]
  /\ appliedOn' = [n \in Ids |-> IF n \in ToSet(it.vals) THEN cn ELSE appliedOn[n]]

(* The link does not match, or pwrite() fails (the disk is full). *)
WriteFails(tbl, it) ==
  /\ LinkMatches(tbl, it) => Room("fails")
  /\ calm' = (calm /\ ~LinkMatches(tbl, it))
  /\ UNCHANGED <<data, appliedOn>>

(* A name is moved; what was at the new name loses it. *)
MoveName(p, q) ==
  /\ dir[p] # None
  /\ dir' = [dir EXCEPT ![p] = None, ![q] = dir[p]]
  /\ names' = [names EXCEPT ![dir[p]] = @ \cup {q}]

FirstFree(f) == f \in Fakes /\ fds[f] = None /\ \A g \in Fakes : g < f => fds[g] # None

Serving(k) == todo # <<>> /\ Head(todo).k = k /\ todo' = Tail(todo)

ServeOpen ==
  /\ Serving("open")
  /\ \/ \E f \in Fakes :
          /\ dir[Head(todo).path] # None
          /\ FirstFree(f)
          /\ fds' = [fds EXCEPT ![f] = dir[Head(todo).path]]
          /\ res' = f
     \/ res' = Error /\ UNCHANGED fds      \* no permission, no file, no descriptor
  /\ UNCHANGED <<dir, data, late, client, ghost>>

(* One pwrite() of a write or of a writebulk, whose result is the last     *)
(* error, or 0.                                                            *)
ServeWrite ==
  LET it == Head(todo)
  IN  /\ Serving("write")
      /\ \/ /\ Pwrite(fds, it, drops + 1)
            /\ res' = IF rq = "bulk" THEN res ELSE Len(it.vals)
            /\ UNCHANGED calm
         \/ WriteFails(fds, it) /\ res' = Error
      /\ UNCHANGED <<dir, fds, late, client, log, acked, names, hnew, looks, drops, moves, held>>

(* fds.remove() runs whether or not close() did. *)
ServeRelease ==
  LET it == Head(todo)
  IN  /\ Serving("release")
      /\ res' = IF LinkMatches(fds, it) THEN 0 ELSE Error
      /\ fds' = IF it.fd \in Fakes THEN [fds EXCEPT ![it.fd] = None] ELSE fds
      /\ UNCHANGED <<dir, data, late, client, ghost>>

ServeRename ==
  LET it == Head(todo)
  IN  /\ Serving("rename")
      /\ \/ MoveName(it.path, it.to) /\ res' = 0 /\ calm' = FALSE
         \/ res' = Error /\ UNCHANGED <<dir, names, calm>>
      /\ UNCHANGED <<data, fds, late, client, log, acked, appliedOn, hnew, looks, drops, moves, held>>

(* ftruncate by name: the units from the length on are gone. *)
Truncate(it) ==
  /\ dir[it.path] # None
  /\ data' = [data EXCEPT ![dir[it.path]] =
                [o \in Offsets |-> IF o >= it.len THEN Hole ELSE @[o]]]
  /\ cuts' = cuts \cup {[file |-> dir[it.path], len |-> it.len,
                         run |-> {n \in DOMAIN log : appliedOn[n] # 0}]}

(* pread() of one unit, after the same comparison of paths as in a write. *)
ServeRead ==
  LET it == Head(todo)
  IN  /\ Serving("read")
      /\ IF LinkMatches(fds, it)
         THEN /\ res' = 1
              /\ seen' = [fd |-> it.fd, file |-> fds[it.fd], at |-> it.off,
                          val |-> data[fds[it.fd]][it.off],
                          run |-> {n \in DOMAIN log : appliedOn[n] # 0}]
         ELSE res' = Error /\ UNCHANGED seen
      /\ UNCHANGED <<dir, data, fds, late, client, log, acked, appliedOn, names, hnew,
                     cuts, reads, drops, moves, calm, held>>

ServeTruncate ==
  /\ Serving("truncate")
  /\ \/ Truncate(Head(todo)) /\ res' = 0
     \/ res' = Error /\ UNCHANGED <<data, cuts>>    \* no permission, no file
  /\ UNCHANGED <<dir, fds, late, client, log, acked, appliedOn, names, hnew,
                 seen, reads, drops, moves, calm, held>>

(* A late worker does one more thing; nobody reads the result. *)
ServeLate(n) ==
  LET w  == late[n]
      it == Head(w.todo)
  IN  /\ late' = IF Len(w.todo) = 1 THEN RemoveAt(late, n)
                 ELSE [late EXCEPT ![n].todo = Tail(@)]
      /\ \/ it.k = "write" /\ Pwrite(w.fds, it, w.conn) /\ UNCHANGED <<dir, names, cuts>>
         \/ it.k = "rename" /\ MoveName(it.path, it.to) /\ UNCHANGED <<data, appliedOn, cuts>>
         \/ it.k = "truncate" /\ Truncate(it) /\ UNCHANGED <<dir, names, appliedOn>>
         \/ UNCHANGED <<dir, names, data, appliedOn, cuts>>
      /\ UNCHANGED <<fds, todo, res, client, log, acked, hnew, seen, reads, drops, moves, calm, held>>

-----------------------------------------------------------------------------
(* The application calls. *)

Start(c, r) == pc' = "init" /\ call' = c /\ rq' = r

FsOpen(h, p) ==
  /\ pc = "idle" /\ hpath[h] = None
  /\ LET open == Cardinality({g \in Handles : hpath[g] # None})
     IN  IF open < held THEN UNCHANGED held
         ELSE Room("open") /\ held' = open + 1
  /\ Start([NoCall EXCEPT !.op = "open", !.h = h, !.path = p], "open")
  /\ UNCHANGED <<server, up, hpath, hfh, FdsUsed, buf, bytes,
                 log, acked, appliedOn, names, hnew, looks, drops, moves, calm>>

(* Mutant: the descriptor numbers are not compared. *)
MutContinuesAnyFd(f, o) == buf # <<>> /\ Last(buf).off + Len(Last(buf).vals) = o

(* A write that continues the last request of the same fd is appended to   *)
(* it; the request keeps its path.                                         *)
Continues(f, o) ==
  buf # <<>> /\ Last(buf).fd = f /\ Last(buf).off + Len(Last(buf).vals) = o

(* Mutant: a new request is put at the front. *)
MutPrepend(f, p, o, vs) ==
  IF Continues(f, o)
  THEN [buf EXCEPT ![Len(buf)].vals = @ \o vs]
  ELSE <<WriteItem(p, f, o, vs)>> \o buf

Combined(f, p, o, vs) ==
  IF Continues(f, o)
  THEN [buf EXCEPT ![Len(buf)].vals = @ \o vs]
  ELSE Append(buf, WriteItem(p, f, o, vs))

(* What is remembered of a write. *)
Entry(h, o, s, unchecked) ==
  [fd |-> hfh[h], path |-> hpath[h], off |-> o, size |-> s, unchecked |-> unchecked,
   file |-> IF hfh[h] \in Fakes THEN fds[hfh[h]] ELSE None]

(* The first write through a descriptor number goes to the server at once. *)
FsWriteDirect(h, o, s) ==
  LET f == hfh[h]
  IN  /\ pc = "idle" /\ hpath[h] # None
      /\ Room("writes") /\ o + s - 1 <= MaxOff
      /\ f \notin FdsUsed
      /\ FdsUsed' = FdsUsed \cup {f}
      /\ log' = Append(log, Entry(h, o, s, FALSE))
      /\ hnew' = hnew \ {h}
      /\ Start([NoCall EXCEPT !.op = "write", !.h = h, !.path = hpath[h]], "write")
      /\ UNCHANGED <<server, up, hpath, hfh, buf, bytes,
                     acked, appliedOn, names, looks, drops, moves, calm, held>>

(* Later ones wait in the buffer until it holds more than BatchLimit. *)
FsWriteBuffered(h, o, s) ==
  LET f == hfh[h]
      n == Len(log) + 1
  IN  /\ pc = "idle" /\ hpath[h] # None
      /\ Room("writes") /\ o + s - 1 <= MaxOff
      /\ f \in FdsUsed
      /\ buf' = Combined(f, hpath[h], o, [j \in 1..s |-> n])
      /\ bytes' = bytes + s
      /\ log' = Append(log, Entry(h, o, s, h \in hnew))
      /\ hnew' = hnew \ {h}
      /\ IF bytes' > BatchLimit
         THEN /\ Start([NoCall EXCEPT !.op = "write", !.h = h, !.path = hpath[h]], "bulk")
              /\ UNCHANGED acked
         ELSE acked' = acked \cup {n} /\ UNCHANGED <<pc, call, rq>>
      /\ UNCHANGED <<server, up, hpath, hfh, FdsUsed,
                     appliedOn, names, looks, drops, moves, calm, held>>

(* fs_release begins with writeBuffer(), which sends the whole buffer. *)
FsRelease(h) ==
  /\ pc = "idle" /\ hpath[h] # None
  /\ Start([NoCall EXCEPT !.op = "release", !.h = h, !.path = hpath[h]], "bulk")
  /\ UNCHANGED <<server, up, hpath, hfh, FdsUsed, buf, bytes, ghost>>

(* fs_read and fs_truncate send their request at once and leave the buffer *)
(* as it is.                                                               *)
FsRead(h, o) ==
  /\ pc = "idle" /\ hpath[h] # None
  /\ Room("reads") /\ reads' = reads + 1
  /\ Start([NoCall EXCEPT !.op = "read", !.h = h, !.path = hpath[h], !.at = o], "read")
  /\ UNCHANGED <<server, up, hpath, hfh, FdsUsed, buf, bytes,
                 log, acked, appliedOn, names, hnew, seen, cuts, drops, moves, calm, held>>

FsTruncate(p, l) ==
  /\ pc = "idle"
  /\ Room("reads") /\ reads' = reads + 1
  /\ Start([NoCall EXCEPT !.op = "truncate", !.path = p, !.at = l], "truncate")
  /\ UNCHANGED <<server, up, hpath, hfh, FdsUsed, buf, bytes,
                 log, acked, appliedOn, names, hnew, seen, cuts, drops, moves, calm, held>>

(* libfuse keeps the paths of open files up to date, and does not let a    *)
(* rename replace an open one.                                             *)
FsRename(p, q) ==
  /\ pc = "idle" /\ p # q /\ \A h \in Handles : hpath[h] # q
  /\ Room("moves") /\ moves' = moves + 1
  /\ Start([NoCall EXCEPT !.op = "rename", !.path = p, !.to = q], "rename")
  /\ UNCHANGED <<server, up, hpath, hfh, FdsUsed, buf, bytes,
                 log, acked, appliedOn, names, hnew, looks, drops, calm, held>>

(* The share is unmounted once no file is open. *)
FsDestroy ==
  /\ pc = "idle" /\ \A h \in Handles : hpath[h] = None
  /\ Start([NoCall EXCEPT !.op = "destroy"], "bulk")
  /\ UNCHANGED <<server, up, hpath, hfh, FdsUsed, buf, bytes, ghost>>

-----------------------------------------------------------------------------
(* The call's requests.  Return(r) is the end of a request with result r.  *)

Idle == pc' = "idle" /\ call' = NoCall /\ rq' = "none"

(* The result of open: fi->fh is set when it is positive, and fs_open      *)
(* fails when it is negative.                                              *)
Opened(r) ==
  /\ rq = "open"
  /\ IF r >= 0       \* fs_open fails on a negative result only
     THEN /\ hpath' = [hpath EXCEPT ![call.h] = call.path]
          /\ hfh' = [hfh EXCEPT ![call.h] = r]
          /\ hnew' = hnew \cup {call.h}
     ELSE UNCHANGED <<hpath, hfh, hnew>>
  /\ Idle
  /\ UNCHANGED <<buf, bytes, acked>>

WroteDirect(r) ==
  /\ rq = "write"
  /\ acked' = IF r > 0 THEN acked \cup {Len(log)} ELSE acked
  /\ Idle
  /\ UNCHANGED <<hpath, hfh, hnew, buf, bytes>>

(* Mutant: the whole batch is kept, to be sent again, after any error. *)
MutRetryBatch(r) ==
  /\ rq = "bulk"
  /\ IF r # 0 THEN UNCHANGED <<buf, bytes>> ELSE buf' = <<>> /\ bytes' = 0
  /\ acked' = IF call.op = "write" /\ r = 0 THEN acked \cup {Len(log)} ELSE acked
  /\ CASE call.op = "release" -> pc' = "init" /\ rq' = "release" /\ UNCHANGED call
       [] call.op = "destroy" -> pc' = "done" /\ rq' = "none" /\ call' = NoCall
       [] OTHER               -> Idle
  /\ UNCHANGED <<hpath, hfh, hnew>>

(* Mutant: fs_release calls writeBuffer() until it succeeds. *)
MutFlushForever(r) ==
  /\ rq = "bulk"
  /\ IF r # 0 THEN UNCHANGED <<buf, bytes>> ELSE buf' = <<>> /\ bytes' = 0
  /\ acked' = IF call.op = "write" /\ r = 0 THEN acked \cup {Len(log)} ELSE acked
  /\ CASE call.op = "release" ->
            /\ pc' = "init" /\ UNCHANGED call
            /\ rq' = IF r # 0 THEN "bulk" ELSE "release"
       [] call.op = "destroy" -> pc' = "done" /\ rq' = "none" /\ call' = NoCall
       [] OTHER               -> Idle
  /\ UNCHANGED <<hpath, hfh, hnew>>

(* writeBuffer() empties the buffer on any result it reads.  On -ECOMM it  *)
(* keeps the buffer; fs_release goes on in either case.                    *)
WroteBulk(r) ==
  /\ rq = "bulk"
  /\ IF r = ECOMM THEN UNCHANGED <<buf, bytes>> ELSE buf' = <<>> /\ bytes' = 0
  /\ acked' = IF call.op = "write" /\ r = 0 THEN acked \cup {Len(log)} ELSE acked
  /\ CASE call.op = "release" -> pc' = "init" /\ rq' = "release" /\ UNCHANGED call
       [] call.op = "destroy" -> pc' = "done" /\ rq' = "none" /\ call' = NoCall
       [] OTHER               -> Idle
  /\ UNCHANGED <<hpath, hfh, hnew>>

Released ==
  /\ rq = "release"
  /\ hpath' = [hpath EXCEPT ![call.h] = None]
  /\ hfh' = [hfh EXCEPT ![call.h] = 0]
  /\ hnew' = hnew \ {call.h}
  /\ Idle
  /\ UNCHANGED <<buf, bytes, acked>>

Renamed(r) ==
  /\ rq = "rename"
  /\ hpath' = IF r = 0 THEN [h \in Handles |-> IF hpath[h] = call.path THEN call.to
                                               ELSE hpath[h]]
              ELSE hpath
  /\ Idle
  /\ UNCHANGED <<hfh, hnew, buf, bytes, acked>>

(* A read, or a truncate. *)
Looked ==
  /\ rq \in {"read", "truncate"}
  /\ Idle
  /\ UNCHANGED <<hpath, hfh, hnew, buf, bytes, acked>>

Return(r) ==
  /\ Opened(r) \/ WroteDirect(r) \/ WroteBulk(r) \/ Released \/ Renamed(r) \/ Looked
  /\ UNCHANGED <<FdsUsed, log, appliedOn, names, looks, drops, moves, calm, held>>

(* initSocket(): a connection that is up is used, one that broke replaced. *)
InitSocket ==
  /\ pc = "init"
  /\ up' = TRUE
  /\ pc' = "sent"
  /\ UNCHANGED <<server, hpath, hfh, FdsUsed, buf, bytes, call, rq, ghost>>

(* maxRetryCount attempts failed. *)
InitSocketFails ==
  /\ pc = "init" /\ ~up
  /\ Return(ECOMM)
  /\ UNCHANGED <<server, up>>

(* Mutant: the last request of the batch is not sent. *)
MutItemsShort ==
  CASE rq = "open"    -> <<OpenItem(call.path)>>
    [] rq = "write"   -> LET w == Last(log)
                         IN <<WriteItem(w.path, w.fd, w.off, [j \in 1..w.size |-> Len(log)])>>
    [] rq = "bulk"    -> SubSeq(buf, 1, Len(buf) - 1)
    [] rq = "release" -> <<ReleaseItem(call.path, hfh[call.h])>>
    [] rq = "rename"  -> <<RenameItem(call.path, call.to)>>
    [] rq = "read"    -> <<ReadItem(call.path, hfh[call.h], call.at)>>
    [] rq = "truncate" -> <<TruncateItem(call.path, call.at)>>

(* Mutant: the worker does not wait for the data of a large batch. *)
MutNoData ==
  CASE rq = "open"    -> <<OpenItem(call.path)>>
    [] rq = "write"   -> LET w == Last(log)
                         IN <<WriteItem(w.path, w.fd, w.off, [j \in 1..w.size |-> Len(log)])>>
    [] rq = "bulk"    -> [n \in DOMAIN buf |->
                            [buf[n] EXCEPT !.vals = [j \in DOMAIN @ |-> Garbage]]]
    [] rq = "release" -> <<ReleaseItem(call.path, hfh[call.h])>>
    [] rq = "rename"  -> <<RenameItem(call.path, call.to)>>
    [] rq = "read"    -> <<ReadItem(call.path, hfh[call.h], call.at)>>
    [] rq = "truncate" -> <<TruncateItem(call.path, call.at)>>

(* The arguments each request sends. *)
Items ==
  CASE rq = "open"    -> <<OpenItem(call.path)>>
    [] rq = "write"   -> LET w == Last(log)
                         IN <<WriteItem(w.path, w.fd, w.off, [j \in 1..w.size |-> Len(log)])>>
    [] rq = "bulk"    -> buf
    [] rq = "release" -> <<ReleaseItem(call.path, hfh[call.h])>>
    [] rq = "rename"  -> <<RenameItem(call.path, call.to)>>
    [] rq = "read"    -> <<ReadItem(call.path, hfh[call.h], call.at)>>
    [] rq = "truncate" -> <<TruncateItem(call.path, call.at)>>

(* The worker's OK arrives and the arguments are sent. *)
SendArguments ==
  /\ pc = "sent" /\ up
  /\ todo' = Items
  /\ pc' = "args"
  /\ UNCHANGED <<dir, data, fds, res, late,
                 up, hpath, hfh, FdsUsed, buf, bytes, call, rq, ghost>>

(* The connection broke before the OK arrived, *)
NoOk ==
  /\ pc = "sent" /\ ~up
  /\ Return(ECOMM)
  /\ UNCHANGED <<server, up>>

(* or after it did: the arguments go nowhere and the result is read as 0. *)
NoResult ==
  /\ pc = "sent" /\ ~up
  /\ Return(0)
  /\ UNCHANGED <<server, up>>

(* Mutant: the read waits for a result whether or not it can come. *)
MutWaitsForResult ==
  /\ pc = "args" /\ todo = <<>> /\ up
  /\ Return(res)
  /\ res' = 0
  /\ UNCHANGED <<dir, data, fds, todo, late, up>>

(* The result arrives. *)
ReadResult ==
  /\ pc = "args" /\ todo = <<>>
  /\ Return(res)
  /\ res' = 0
  /\ UNCHANGED <<dir, data, fds, todo, late, up>>

-----------------------------------------------------------------------------
(* A write of which only the path, the descriptor and the size arrived, or *)
(* these and the offset: pwrite() takes that many bytes from an empty      *)
(* array, and an offset that did not arrive is 0.                          *)
Torn(it) ==
  LET headless == [it EXCEPT !.vals = [j \in DOMAIN it.vals |-> Garbage]]
  IN  {headless, [headless EXCEPT !.off = 0]}

(* What can have arrived of the rest of a request: some of its writes, and *)
(* of the next one a part.                                                 *)
Arrived(s) ==
  {SubSeq(s, 1, n) : n \in 0..Len(s)} \cup
  UNION {{Append(SubSeq(s, 1, n - 1), t) : t \in Torn(s[n])}
           : n \in {m \in DOMAIN s : s[m].k = "write"}}

(* An open, a read or a release of a late worker changes nothing but its   *)
(* own table, and is the whole request.                                    *)
Lingers(s) == IF s # <<>> /\ Head(s).k \in {"open", "read", "release"} THEN <<>> ELSE s

(* The connection breaks; the worker of the next one has an empty table.   *)
(* A result that did not arrive is read as 0.                              *)
Drop ==
  /\ up /\ Room("drops") /\ pc # "done"
  /\ up' = FALSE
  /\ drops' = drops + 1
  /\ calm' = FALSE
  /\ \E s \in Arrived(todo) :
       late' = IF Lingers(s) = <<>> THEN late
               ELSE Append(late, [fds |-> fds, conn |-> drops + 1, todo |-> Lingers(s)])
  /\ \/ todo = <<>> /\ UNCHANGED res
     \/ res' = 0
  /\ todo' = <<>>
  /\ fds' = NoFds
  /\ UNCHANGED <<dir, data, hpath, hfh, FdsUsed, buf, bytes, pc, call, rq,
                 log, acked, appliedOn, names, hnew, looks, moves, held>>

Other ==
  /\ Room("moves")
  /\ moves' = moves + 1
  /\ calm' = FALSE
  /\ UNCHANGED <<data, fds, todo, res, late, client, log, acked, appliedOn, hnew, looks, drops, held>>

(* Other clients rename, delete and create files of the share. *)
OtherRename(p, q) == p # q /\ MoveName(p, q) /\ Other

OtherUnlink(p) ==
  dir[p] # None /\ dir' = [dir EXCEPT ![p] = None] /\ UNCHANGED names /\ Other

OtherMknod(p, i) ==
  /\ dir[p] = None /\ names[i] = {} /\ Room("files")
  /\ dir' = [dir EXCEPT ![p] = i]
  /\ names' = [names EXCEPT ![i] = {p}]
  /\ Other

-----------------------------------------------------------------------------
Serve == ServeOpen \/ ServeWrite \/ ServeRelease \/ ServeRename \/ ServeRead \/ ServeTruncate

Request ==
  \/ InitSocket \/ InitSocketFails
  \/ SendArguments \/ NoOk \/ NoResult \/ ReadResult

Next ==
  \/ \E h \in Handles, p \in Paths : FsOpen(h, p)
  \/ \E h \in Handles, o \in Offsets, s \in 1..MaxSize : FsWriteDirect(h, o, s)
  \/ \E h \in Handles, o \in Offsets, s \in 1..MaxSize : FsWriteBuffered(h, o, s)
  \/ \E h \in Handles : FsRelease(h)
  \/ \E p, q \in Paths : FsRename(p, q)
  \/ \E h \in Handles, o \in Offsets : FsRead(h, o)
  \/ \E p \in Paths, l \in Offsets : FsTruncate(p, l)
  \/ FsDestroy
  \/ InitSocket \/ InitSocketFails
  \/ SendArguments \/ NoOk \/ NoResult \/ ReadResult
  \/ ServeOpen \/ ServeWrite \/ ServeRelease \/ ServeRename \/ ServeRead \/ ServeTruncate
  \/ \E n \in DOMAIN late : ServeLate(n)
  \/ Drop
  \/ \E p, q \in Paths : OtherRename(p, q)
  \/ \E p \in Paths : OtherUnlink(p)
  \/ \E p \in Paths, i \in Inodes : OtherMknod(p, i)

Spec == Init /\ [][Next]_vars
-----------------------------------------------------------------------------
Requests == [k : {"write"}, path : Paths, fd : 0..MaxFake, off : Offsets,
             vals : BoundedSeq(Ids \cup {Garbage}, MaxOff + 1)]

(* The variables of FuseClient and of the worker have the types of their   *)
(* declarations, and a request under way belongs to a call.                *)
TypeOK ==
  /\ dir \in [Paths -> Inodes \cup {None}]
  /\ data \in [Inodes -> [Offsets -> Ids \cup {Hole, Garbage}]]
  /\ fds \in [Fakes -> Inodes \cup {None}]
  /\ \A n \in DOMAIN buf : buf[n] \in Requests /\ Garbage \notin ToSet(buf[n].vals)
  /\ todo # <<>> => pc = "args"
  /\ res \in {Error} \cup 0..(MaxFake + MaxSize)
  /\ hpath \in [Handles -> Paths \cup {None}] /\ hfh \in [Handles -> 0..MaxFake]
  /\ FdsUsed \subseteq 0..MaxFake
  /\ pc \in {"idle", "init", "sent", "args", "done"}
  /\ pc \in {"init", "sent", "args"} <=> rq # "none"
  /\ acked \subseteq DOMAIN log
  /\ \A n \in DOMAIN late : late[n].todo # <<>>

(* Through every flush, failed flush and reconnection bytesInBatch is the  *)
(* number of bytes in clientWriteBuffer, and combining requests (fs_write) *)
(* keeps every write whole, at its offset, under its descriptor number,    *)
(* and in the order of the calls.                                          *)
BufferFaithful ==
  LET units    == UNION {{k} \X DOMAIN buf[k].vals : k \in DOMAIN buf}
      id(u)    == buf[u[1]].vals[u[2]]
      place(u) == <<buf[u[1]].fd, buf[u[1]].off + u[2] - 1>>
  IN  /\ bytes = Cardinality(units)
      /\ \A u, v \in units : u[1] < v[1] \/ (u[1] = v[1] /\ u[2] <= v[2]) => id(u) <= id(v)
      /\ \A u \in units :
           {place(v) : v \in {w \in units : id(w) = id(u)}} =
             {log[id(u)].fd} \X (log[id(u)].off .. log[id(u)].off + log[id(u)].size - 1)

(* Without a failure to blame (a broken connection, a full disk, a file    *)
(* renamed or deleted) no write that fs_write reported as done is lost: it *)
(* was run by a worker, or it waits in the buffer, between two calls for a *)
(* file that is still open: when fs_release has returned, all the writes   *)
(* through that handle were run.                                           *)
AckedNotLost ==
  calm => \A n \in acked :
            \/ appliedOn[n] # 0
            \/ \E k \in DOMAIN buf :
                 /\ n \in ToSet(buf[k].vals)
                 /\ pc = "idle" => \E h \in Handles : hpath[h] # None /\ hfh[h] = buf[k].fd

(* "If so, combine them." (fs_write): a write ends up in no file but one   *)
(* that had the name the application wrote to.                             *)
StaysInNamedFile ==
  \A i \in Inodes, o \in Offsets :
    data[i][o] \in Ids => log[data[i][o]].path \in names[i]

(* What the comparison of the paths in the write and writebulk handlers,   *)
(* and numbers that are given out again, do make sure of, through renames, *)
(* deletions and new files of any client: a write ends up in no file but   *)
(* one that had its name, or the name of an earlier write through the same *)
(* descriptor number, whose request it was combined with.  As long as no   *)
(* connection breaks it is the file that was opened.                       *)
WritesFindTheirFile ==
  \A i \in Inodes, o \in Offsets :
    LET n == data[i][o]
    IN  n \in Ids => /\ \E m \in 1..n : log[m].fd = log[n].fd /\ log[m].path \in names[i]
                     /\ drops = 0 => log[n].file = i

(* Bytes nobody wrote get into a file only when a connection broke in the  *)
(* middle of a write request, only into a file of the request's name, and  *)
(* never past the end of what was written through its descriptor number: a *)
(* torn write cannot extend a file further than the whole one.             *)
GarbageOnlyInTornWrite ==
  \A i \in Inodes, o \in Offsets :
    data[i][o] = Garbage =>
      drops > 0 /\ \E n, m \in DOMAIN log :
        /\ log[n].path \in names[i] /\ log[m].fd = log[n].fd
        /\ o < log[m].off + log[m].size

(* Writes through one descriptor number that the worker of one connection  *)
(* runs are run in the order of the calls: none is overwritten by an older *)
(* one (buffering, combining and the failed flushes that are run again).   *)
OrderKept ==
  [][ \A i \in Inodes, o \in Offsets :
        LET old == data[i][o]
            new == data'[i][o]
        IN  old # new /\ old \in Ids /\ new \in Ids /\ log[old].fd = log[new].fd
              /\ appliedOn[old] = appliedOn'[new] => old < new ]_vars

(* fs_read and fs_truncate do not send the buffer first, so a read can be  *)
(* older than an acknowledged write, and a write that was called before a  *)
(* truncate can come after it.  Only writes that still wait are passed so: *)
(* a read through a handle never gets less than an earlier write to the    *)
(* file, by the same number, that a worker has run, unless a truncate of   *)
(* the file took it, and what had been run and was cut off does not come   *)
(* back.                                                                   *)
PassesOnlyWaitingWrites ==
  calm =>
    /\ \A n \in seen.run :
         /\ log[n].fd = seen.fd /\ log[n].file = seen.file
         /\ seen.at \in log[n].off .. log[n].off + log[n].size - 1
         => \/ seen.val >= n
            \/ seen.val \in Ids /\ log[seen.val].fd # seen.fd
            \/ \E c \in cuts : c.file = seen.file /\ n \in c.run /\ c.len <= seen.at
    /\ \A c \in cuts, o \in Offsets :
         o >= c.len => data[c.file][o] \notin c.run

(* "Run first request directly to check for errors." (fs_write): the first *)
(* write after an open is sent at once.  Not so when the worker gives out  *)
(* a number again.                                                         *)
FirstWriteDirect == \A n \in DOMAIN log : ~log[n].unchecked

(* Where a call is: the requests it has yet to send, where the present     *)
(* one is, and what the worker has yet to do for it.                       *)
Rank ==
  LET requests == IF call.op = "release" /\ rq = "bulk" THEN 2 ELSE 1
      stage    == CASE pc = "init" -> 3 [] pc = "sent" -> 2 [] OTHER -> 1
  IN  <<requests, stage, Len(todo)>>

Lower(x, y) ==
  \E k \in DOMAIN x : x[k] < y[k] /\ \A j \in 1 .. k - 1 : x[j] = y[j]

(* Every call returns: no step takes it back, to a request it has sent or  *)
(* to one that failed.  fs_release after a failed writeBuffer, and the     *)
(* reconnection in initSocket, do not loop.                                *)
CallsProgress ==
  [][(rq # "none" /\ <<pc, rq, todo>> # <<pc, rq, todo>>') =>
       (pc' \in {"idle", "done"} \/ Lower(Rank', Rank))]_vars

(* A call that has not returned can go on, by its own thread or by its     *)
(* worker, wherever the connection broke: with CallsProgress and the       *)
(* threads' running it returns to the application.                         *)
NeverStuck == pc \in {"init", "sent", "args"} => ENABLED (Request \/ Serve)
=============================================================================
