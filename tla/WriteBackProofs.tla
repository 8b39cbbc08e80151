-------------------------- MODULE WriteBackProofs --------------------------
(***************************************************************************)
(* The write path for any number of files, writes, broken connections and  *)
(* changes of the directory.                                               *)
(*                                                                         *)
(* The invariant is built in layers, each kept by the steps given those    *)
(* before it: Types, Order, Files, Connected, Calm, Reading; Exact, of the *)
(* buffer, needs the first two.  Their definitions come first, then what   *)
(* is used of sequences and requests, then a part for each layer: what     *)
(* each action does to it, and the theorems that follow from it.           *)
(***************************************************************************)
EXTENDS WriteBack, FiniteSetTheorems, TLAPS

Inode == Inodes \cup {None}
Table == [Fakes -> Inode]

WriteItems == [k : {"write"}, path : Paths, fd : 0..MaxFake, off : Offsets,
               vals : Seq(Ids \cup {Garbage})]

Ops == [k : {"open"}, path : Paths]
       \cup [k : {"release"}, path : Paths, fd : 0..MaxFake]
       \cup [k : {"rename"}, path : Paths, to : Paths]
       \cup [k : {"read"}, path : Paths, fd : 0..MaxFake, off : Offsets]
       \cup [k : {"truncate"}, path : Paths, len : Offsets]

(* A request is a row of writes, or one of the other operations.           *)
Reqs == Seq(WriteItems) \cup {<<it>> : it \in Ops}

Entries == [fd : 0..MaxFake, path : Paths, off : Offsets, size : 1..MaxSize,
            unchecked : BOOLEAN, file : Inode]

Late == [fds : Table, conn : Nat \ {0}, todo : Reqs \ {<<>>}]

ServerTypes ==
  /\ dir \in [Paths -> Inode] /\ names \in [Inodes -> SUBSET Paths]
  /\ data \in [Inodes -> [Offsets -> Ids \cup {Hole, Garbage}]]
  /\ fds \in Table /\ todo \in Reqs /\ res \in {Error} \cup Nat
  /\ late \in Seq(Late)

ClientTypes ==
  /\ up \in BOOLEAN
  /\ hpath \in [Handles -> Paths \cup {None}] /\ hfh \in [Handles -> 0..MaxFake]
  /\ FdsUsed \subseteq 0..MaxFake /\ buf \in Seq(WriteItems)
  /\ log \in Seq(Entries) /\ Len(log) <= MaxWrites
  /\ appliedOn \in [Ids -> Nat] /\ drops \in Nat /\ calm \in BOOLEAN

(* The call under way, and where its request is.                           *)
CallTypes ==
  /\ pc \in {"idle", "init", "sent", "args", "done"}
  /\ rq \in {"none", "open", "write", "bulk", "release", "rename", "read", "truncate"}
  /\ rq = "none" <=> pc \in {"idle", "done"}
  /\ rq \in {"open", "release", "read", "rename", "truncate"} => call.path \in Paths
  /\ rq \in {"open", "release", "read"} \/ call.op = "release" => call.h \in Handles
  /\ rq = "release" => call.op = "release"
  /\ call.op = "release" =>
       rq \in {"bulk", "release"} /\ call.path \in Paths /\ hpath[call.h] # None
  /\ rq = "rename" => call.to \in Paths
  /\ rq \in {"read", "truncate"} => call.at \in Offsets
  /\ rq = "write" => log # <<>>
  /\ todo # <<>> => pc = "args"
  /\ rq \in {"write", "bulk"} => todo \in Seq(WriteItems)
  /\ rq \notin {"write", "bulk"} => todo = <<>> \/ todo = Items
  /\ rq = "open" => hpath[call.h] = None /\ res \in {Error} \cup 0..MaxFake
  /\ pc # "args" => res = 0

Types == ServerTypes /\ ClientTypes /\ CallTypes

-----------------------------------------------------------------------------
(* The writes of a request, given the writes L that were called: they were *)
(* called through its descriptor number; the first gave it its path, and   *)
(* the last its end.                                                       *)
IdsOf(it) == ToSet(it.vals) \cap Ids

ItemOK(it, L) ==
  /\ \A n \in IdsOf(it) : n \in DOMAIN L /\ L[n].fd = it.fd
  /\ \E m \in DOMAIN L : /\ L[m].path = it.path /\ L[m].fd = it.fd
                         /\ \A n \in IdsOf(it) : m <= n
  /\ \E m \in DOMAIN L : L[m].fd = it.fd /\ it.off + Len(it.vals) <= L[m].off + L[m].size

(* Each is there as a whole, at its offset.                                *)
Whole(it, L) ==
  /\ \A j \in DOMAIN it.vals : it.vals[j] \in Ids
  /\ \A n \in IdsOf(it) : \A o \in L[n].off .. L[n].off + L[n].size - 1 :
       /\ o - it.off + 1 \in 1..Len(it.vals)
       /\ it.vals[o - it.off + 1] = n

Ascending(s) ==
  \A j, k \in DOMAIN s : j < k => \A a \in IdsOf(s[j]), b \in IdsOf(s[k]) : a < b

(* What the worker of connection c has yet to run comes after what it ran, *)
(* where A tells by whom each write was run.                               *)
AfterRun(s, c, L, A) ==
  \A j \in DOMAIN s : \A n \in IdsOf(s[j]) : \A m \in DOMAIN L :
    A[m] = c /\ L[m].fd = s[j].fd => m < n

Queue(s, c, L, A) ==
  Ascending(s) /\ AfterRun(s, c, L, A) /\ \A j \in DOMAIN s : ItemOK(s[j], L)

IdsIn(s) == {n \in Ids : s \in Seq(WriteItems) /\ \E k \in DOMAIN s : n \in IdsOf(s[k])}

Waiting  == IdsIn(buf)
Run      == {n \in Ids : appliedOn[n] # 0}
InFlight == IdsIn(todo) \cup UNION {IdsIn(late[k].todo) : k \in DOMAIN late}

Buffer ==
  /\ Ascending(buf)
  /\ \A k \in DOMAIN buf : ItemOK(buf[k], log) /\ Whole(buf[k], log) /\ buf[k].fd \in FdsUsed
  /\ \A n \in Waiting, m \in DOMAIN log : log[m].fd = log[n].fd /\ m >= n => m \in Waiting

Flushing == pc = "args" /\ rq = "bulk"

(* What waits has not been sent, and neither has the direct write of a     *)
(* call that has not come to it.                                           *)
Unsent ==
  /\ ~Flushing => Waiting \cap (Run \cup InFlight) = {}
  /\ rq = "write" => Len(log) \notin Waiting
  /\ rq = "write" /\ pc \in {"init", "sent"} => Len(log) \notin Run \cup InFlight

(* The requests of the workers.                                            *)
Queues ==
  /\ todo \in Seq(WriteItems) =>
       Queue(todo, drops + 1, log, appliedOn) /\ \A j \in DOMAIN todo : Whole(todo[j], log)
  /\ \A k \in DOMAIN late :
       /\ late[k].conn <= drops
       /\ late[k].todo \in Seq(WriteItems) => Queue(late[k].todo, late[k].conn, log, appliedOn)
  /\ \A j, k \in DOMAIN late : j # k => late[j].conn # late[k].conn
  /\ \A n \in Ids : appliedOn[n] <= drops + 1 /\ (n \notin DOMAIN log => appliedOn[n] = 0)

Order == Buffer /\ Unsent /\ Queues

-----------------------------------------------------------------------------
(* Names                                                                   *)
NamesKept == \A p \in Paths : dir[p] # None => p \in names[dir[p]]

Named ==
  \A i \in Inodes, o \in Offsets :
    data[i][o] \in Ids =>
      /\ data[i][o] \in DOMAIN log
      /\ \E m \in 1..data[i][o] : log[m].fd = log[data[i][o]].fd /\ log[m].path \in names[i]

Files == NamesKept /\ Named /\ GarbageOnlyInTornWrite

-----------------------------------------------------------------------------
(* As long as no connection broke: a handle denotes its file until it is   *)
(* released, and no two share a number.                                    *)
Held(h) == hpath[h] # None /\ ~(rq = "release" /\ h = call.h)

JustOpened == rq = "open" /\ pc = "args" /\ todo = <<>> /\ res >= 0

Numbers ==
  /\ up /\ late = <<>>
  /\ \A h \in Handles : Held(h) => hfh[h] \in Fakes /\ fds[hfh[h]] # None
  /\ \A g, h \in Handles : hpath[g] # None /\ hpath[h] # None /\ g # h => hfh[g] # hfh[h]
  /\ JustOpened => /\ res \in Fakes /\ fds[res] # None
                   /\ \A h \in Handles : hpath[h] # None => hfh[h] # res
  /\ rq = "release" => buf = <<>>
  /\ \A k \in DOMAIN buf : \E h \in Handles : Held(h) /\ hfh[h] = buf[k].fd

(* The number of a request denotes the file that its writes were for.      *)
Denotes(it) == \A n \in IdsOf(it) : log[n].file = fds[it.fd]

Denoted ==
  /\ rq = "write" => log[Len(log)].fd \in Fakes /\ log[Len(log)].file = fds[log[Len(log)].fd]
  /\ \A k \in DOMAIN buf : Denotes(buf[k])
  /\ todo \in Seq(WriteItems) => \A k \in DOMAIN todo : Denotes(todo[k])

InPlace == \A i \in Inodes, o \in Offsets : data[i][o] \in Ids => log[data[i][o]].file = i

Connected == drops = 0 => Numbers /\ Denoted /\ InPlace

-----------------------------------------------------------------------------
(* As long as nothing failed: every name denotes the file it did when the  *)
(* handle was opened, so that no request is refused, and what fs_write     *)
(* reported was run or waits.                                              *)
At(h, it) == Held(h) /\ hfh[h] = it.fd /\ hpath[h] = it.path

Untouched ==
  /\ \A h \in Handles : Held(h) => fds[hfh[h]] = dir[hpath[h]]
  /\ JustOpened => fds[res] = dir[call.path]
  /\ rq = "rename" /\ pc = "args" /\ todo = <<>> => res = Error
  /\ \A k \in DOMAIN buf : \E h \in Handles : At(h, buf[k])
  /\ Flushing => \A k \in DOMAIN todo : \E h \in Handles : At(h, todo[k])

Kept ==
  /\ Flushing => Waiting \subseteq Run \cup IdsIn(todo)
  /\ rq = "write" /\ pc = "args" /\ todo # <<>> =>
       Tail(todo) = <<>> /\ Len(log) \in IdsOf(Head(todo))
  /\ rq = "write" /\ pc = "args" /\ todo = <<>> /\ res > 0 => Len(log) \in Run
  /\ rq = "bulk" /\ call.op = "write" => Len(log) \in Waiting
  /\ acked \subseteq Run \cup Waiting

Calm == calm => drops = 0 /\ Untouched /\ Kept

(* What a unit of a file shows of a write n to it that was run: that write *)
(* or a later one, one by another number, or that a truncate took it.      *)
Covers(n, o) == o \in log[n].off .. log[n].off + log[n].size - 1

Shown(v, n, o, L, C) ==
  \/ v >= n
  \/ v \in Ids /\ L[v].fd # L[n].fd
  \/ \E c \in C : c.file = L[n].file /\ n \in c.run /\ c.len <= o

CellsShown ==
  \A n \in Run, o \in Offsets :
    Covers(n, o) => log[n].file \in Inodes /\ Shown(data[log[n].file][o], n, o, log, cuts)

ReadShown ==
  /\ seen.run \subseteq Run /\ (seen.val \in Ids => seen.val \in DOMAIN log)
  /\ \A n \in seen.run :
       log[n].fd = seen.fd /\ log[n].file = seen.file /\ Covers(n, seen.at) =>
         Shown(seen.val, n, seen.at, log, cuts)

CutsKept ==
  \A c \in cuts : /\ c.file \in Inodes /\ c.run \subseteq Run
                  /\ \A o \in Offsets : o >= c.len => data[c.file][o] \notin c.run

Reading == calm => CellsShown /\ ReadShown /\ CutsKept

-----------------------------------------------------------------------------
(* Sequences, requests and records                                         *)

LEMMA TailFacts ==
  ASSUME NEW S, NEW s \in Seq(S), s # <<>>
  PROVE  /\ Head(s) \in S /\ Head(s) = s[1] /\ 1 \in DOMAIN s
         /\ Tail(s) \in Seq(S) /\ Len(Tail(s)) = Len(s) - 1
         /\ \A k \in DOMAIN Tail(s) : k + 1 \in DOMAIN s /\ Tail(s)[k] = s[k + 1]
  OBVIOUS

LEMMA AppendFacts ==
  ASSUME NEW S, NEW s \in Seq(S), NEW x \in S
  PROVE  /\ Append(s, x) \in Seq(S) /\ Len(Append(s, x)) = Len(s) + 1
         /\ Append(s, x)[Len(s) + 1] = x
         /\ \A k \in DOMAIN s : k \in DOMAIN Append(s, x) /\ Append(s, x)[k] = s[k]
         /\ \A k \in DOMAIN Append(s, x) : k \in DOMAIN s \/ k = Len(s) + 1
  OBVIOUS

LEMMA ExceptFacts ==
  ASSUME NEW S, NEW s \in Seq(S), NEW i \in DOMAIN s, NEW x \in S
  PROVE  /\ [s EXCEPT ![i] = x] \in Seq(S) /\ Len([s EXCEPT ![i] = x]) = Len(s)
         /\ DOMAIN [s EXCEPT ![i] = x] = DOMAIN s
         /\ [s EXCEPT ![i] = x][i] = x
         /\ \A k \in DOMAIN s : k # i => [s EXCEPT ![i] = x][k] = s[k]
  OBVIOUS

LEMMA RemoveFacts ==
  ASSUME NEW S, NEW s \in Seq(S), NEW n \in DOMAIN s
  PROVE  /\ RemoveAt(s, n) \in Seq(S) /\ Len(RemoveAt(s, n)) = Len(s) - 1
         /\ \A k \in DOMAIN RemoveAt(s, n) :
              RemoveAt(s, n)[k] = IF k < n THEN s[k] ELSE s[k + 1]
<1> DEFINE a == SubSeq(s, 1, n - 1)
           b == SubSeq(s, n + 1, Len(s))
<1>1. n \in 1..Len(s) /\ Len(s) \in Nat /\ n \in Int
      OBVIOUS
<1>2. a \in Seq(S) /\ Len(a) = n - 1 /\ \A k \in 1..(n - 1) : a[k] = s[k]
      BY <1>1
<1>3. b \in Seq(S) /\ Len(b) = Len(s) - n /\ \A k \in 1..(Len(s) - n) : b[k] = s[k + n]
      BY <1>1
<1>4. RemoveAt(s, n) = a \o b
      BY DEF RemoveAt
<1> HIDE DEF a, b
<1>5. a \o b \in Seq(S) /\ Len(a \o b) = Len(s) - 1
      BY <1>1, <1>2, <1>3
<1>6. ASSUME NEW k \in 1..(Len(s) - 1) PROVE (a \o b)[k] = IF k < n THEN s[k] ELSE s[k + 1]
  <2>1. CASE k < n
        BY <1>1, <1>2, <1>3, <2>1
  <2>2. CASE k >= n
    <3>1. (a \o b)[k] = b[k - (n - 1)]
          BY <1>1, <1>2, <1>3, <2>2
    <3>2. k - (n - 1) \in 1..(Len(s) - n) /\ k - (n - 1) + n = k + 1
          BY <1>1, <2>2
    <3> QED
        BY <1>1, <1>3, <2>2, <3>1, <3>2
  <2>3. k < n \/ k >= n
        BY <1>1
  <2> QED
      BY <2>1, <2>2, <2>3
<1>7. DOMAIN (a \o b) = 1..(Len(s) - 1)
      BY <1>5
<1> QED
    BY <1>4, <1>5, <1>6, <1>7

(* A request that begins with a write is one of writes; any other is one   *)
(* operation.                                                              *)
LEMMA ReqFacts ==
  ASSUME NEW s \in Reqs, s # <<>>
  PROVE  /\ Tail(s) \in Reqs
         /\ Head(s).k = "write" => /\ s \in Seq(WriteItems) /\ Head(s) \in WriteItems
                                   /\ Tail(s) \in Seq(WriteItems)
         /\ Head(s).k # "write" => /\ Head(s) \in Ops /\ s = <<Head(s)>> /\ Tail(s) = <<>>
                                   /\ s \notin Seq(WriteItems)
<1>1. CASE s \in Seq(WriteItems)
  <2>1. Head(s) \in WriteItems /\ Tail(s) \in Seq(WriteItems)
        BY <1>1, TailFacts
  <2>2. Head(s).k = "write"
        BY <2>1 DEF WriteItems
  <2> QED
      BY <1>1, <2>1, <2>2 DEF Reqs
<1>2. CASE \E it \in Ops : s = <<it>>
  <2>1. PICK it \in Ops : s = <<it>>
        BY <1>2
  <2>2. Head(s) = it /\ Tail(s) = <<>> /\ s = <<Head(s)>>
        BY <2>1
  <2>3. it.k # "write"
        BY DEF Ops
  <2>4. <<>> \in Reqs
        BY DEF Reqs
  <2>5. ASSUME s \in Seq(WriteItems) PROVE FALSE
    <3>1. s[1] \in WriteItems
          BY <2>5, TailFacts
    <3> QED
        BY <2>1, <2>3, <3>1 DEF WriteItems
  <2> QED
      BY <2>1, <2>2, <2>3, <2>4, <2>5
<1> QED
    BY <1>1, <1>2 DEF Reqs

LEMMA OpFacts ==
  ASSUME NEW it \in Ops
  PROVE  /\ it.path \in Paths /\ it.k \in {"open", "release", "rename", "read", "truncate"}
         /\ it.k = "rename" => it.to \in Paths
         /\ it.k \in {"release", "read"} => it.fd \in 0..MaxFake
         /\ it.k = "read" => it.off \in Offsets
         /\ it.k = "truncate" => it.len \in Offsets
  BY DEF Ops

LEMMA ItemFacts ==
  ASSUME NEW it \in WriteItems
  PROVE  /\ it.k = "write" /\ it.path \in Paths /\ it.fd \in 0..MaxFake /\ it.off \in Offsets
         /\ it.vals \in Seq(Ids \cup {Garbage}) /\ Len(it.vals) \in Nat
         /\ IdsOf(it) = {it.vals[j] : j \in DOMAIN it.vals} \cap Ids
  BY DEF WriteItems, IdsOf, ToSet

LEMMA EntryFacts ==
  ASSUME NEW e \in Entries
  PROVE  /\ e.fd \in 0..MaxFake /\ e.path \in Paths /\ e.off \in Offsets /\ e.off \in Nat
         /\ e.size \in Nat /\ e.size >= 1 /\ e.file \in Inode
  BY WriteBackAssumption DEF Entries, Offsets

LEMMA ConstSeq ==
  ASSUME NEW S, NEW x \in S, NEW n \in Nat
  PROVE  /\ [j \in 1..n |-> x] \in Seq(S) /\ Len([j \in 1..n |-> x]) = n
         /\ DOMAIN [j \in 1..n |-> x] = 1..n /\ \A i \in 1..n : [j \in 1..n |-> x][i] = x
  OBVIOUS

LEMMA ExtendFacts ==
  ASSUME NEW S, NEW a \in Seq(S), NEW b \in Seq(S), NEW n, \A j \in 1..Len(b) : b[j] = n
  PROVE  /\ a \o b \in Seq(S) /\ Len(a) \in Nat /\ Len(b) \in Nat /\ Len(a \o b) = Len(a) + Len(b)
         /\ DOMAIN (a \o b) = 1..(Len(a) + Len(b))
         /\ \A j \in 1..Len(a) : (a \o b)[j] = a[j] /\ j \in 1..(Len(a) + Len(b))
         /\ \A j \in 1..(Len(a) + Len(b)) : j \in 1..Len(a) \/ (a \o b)[j] = n
         /\ \A j \in 1..(Len(a) + Len(b)) : j > Len(a) => (a \o b)[j] = n
<1>1. /\ a \o b \in Seq(S) /\ Len(a) \in Nat /\ Len(b) \in Nat /\ Len(a \o b) = Len(a) + Len(b)
      /\ \A j \in 1..Len(a) : (a \o b)[j] = a[j]
      OBVIOUS
<1>2. ASSUME NEW j \in 1..(Len(a) + Len(b)), j > Len(a) PROVE (a \o b)[j] = n
  <2>1. (a \o b)[j] = b[j - Len(a)] /\ j - Len(a) \in 1..Len(b)
        BY <1>1, <1>2
  <2> QED
      BY <2>1
<1>3. /\ \A j \in 1..(Len(a) + Len(b)) : j \in 1..Len(a) \/ j > Len(a)
      /\ \A j \in 1..Len(a) : j \in 1..(Len(a) + Len(b))
      BY <1>1
<1>4. DOMAIN (a \o b) = 1..(Len(a) + Len(b))
      BY <1>1
<1> QED
    BY <1>1, <1>2, <1>3, <1>4

LEMMA PlaceFacts ==
  ASSUME NEW off \in Nat, NEW l \in Nat, NEW s \in Nat, NEW o \in off + l .. off + l + s - 1
  PROVE  o - off + 1 \in 1..(l + s) /\ o - off + 1 > l
  OBVIOUS

LEMMA LateType ==
  ASSUME Types, NEW k \in DOMAIN late
  PROVE  /\ late[k] \in Late /\ late[k].conn \in Nat \ {0} /\ late[k].fds \in Table
         /\ late[k].todo \in Reqs /\ late[k].todo # <<>>
<1>1. late[k] \in Late
      BY DEF Types, ServerTypes
<1> QED
    BY <1>1 DEF Late

LEMMA RoomToWrite == Types /\ Room("writes") => Len(log) + 1 <= MaxWrites
<1> SUFFICES ASSUME Types, Room("writes") PROVE Len(log) + 1 <= MaxWrites
    OBVIOUS
<1>1. PICK b \in Budgets : Len(log) + 1 <= b.writes
      BY DEF Room
<1>2. b.writes \in 0..MaxWrites
      BY WriteBackAssumption
<1>3. Len(log) \in Nat
      BY DEF Types, ClientTypes
<1> QED
    BY <1>1, <1>2, <1>3, WriteBackAssumption

-----------------------------------------------------------------------------
(* Types                                                                   *)

LEMMA InitTypes == Init => Types
<1> SUFFICES ASSUME Init PROVE Types
    OBVIOUS
<1>1. <<>> \in Reqs /\ NoFds \in Table
      BY DEF Reqs, NoFds, Table, Inode
<1>2. ServerTypes
      BY <1>1 DEF Init, ServerTypes, Inode
<1>3. ClientTypes
      BY WriteBackAssumption DEF Init, ClientTypes
<1>4. CallTypes
      BY DEF Init, CallTypes, NoCall
<1> QED
    BY <1>2, <1>3, <1>4 DEF Types

(* The beginning of a call: no request is under way.                       *)
LEMMA StartTypes ==
  ASSUME Types, pc = "idle", NEW c, NEW r, Start(c, r), UNCHANGED <<todo, res, hpath>>,
         r \in {"open", "write", "bulk", "rename", "read", "truncate"},
         r \in {"open", "read", "rename", "truncate"} \/ c.op = "release" => c.path \in Paths,
         r \in {"open", "read"} \/ c.op = "release" => c.h \in Handles,
         r = "rename" => c.to \in Paths,
         r \in {"read", "truncate"} => c.at \in Offsets,
         r = "write" => log' # <<>>,
         r = "open" => hpath[c.h] = None,
         c.op = "release" => r = "bulk" /\ hpath[c.h] # None
  PROVE  CallTypes'
<1>1. todo = <<>> /\ res = 0 /\ pc' = "init" /\ rq' = r /\ call' = c
      BY DEF Types, CallTypes, Start
<1> QED
    BY <1>1, WriteBackAssumption DEF CallTypes

LEMMA ServerKept == ServerTypes /\ UNCHANGED <<server, names>> => ServerTypes'
  BY DEF server, ServerTypes

(* The calls that write nothing, and what the other clients do.            *)
QuietCall ==
  \/ \E h \in Handles, p \in Paths : FsOpen(h, p)
  \/ \E h \in Handles : FsRelease(h)
  \/ \E p, q \in Paths : FsRename(p, q)
  \/ \E h \in Handles, o \in Offsets : FsRead(h, o)
  \/ \E p \in Paths, l \in Offsets : FsTruncate(p, l)
  \/ FsDestroy

Others ==
  \/ \E p, q \in Paths : OtherRename(p, q)
  \/ \E p \in Paths : OtherUnlink(p)
  \/ \E p \in Paths, i \in Inodes : OtherMknod(p, i)

LEMMA QuietFacts ==
  ASSUME QuietCall
  PROVE  /\ UNCHANGED <<server, names, up, hpath, hfh, FdsUsed, buf, log, acked, appliedOn, cuts,
                        seen, drops, calm>>
         /\ pc = "idle" /\ pc' = "init"
         /\ rq' \in {"open", "bulk", "rename", "read", "truncate"}
         /\ rq' = "bulk" => call'.op \in {"release", "destroy"}
<1>1. CASE \E h \in Handles, p \in Paths : FsOpen(h, p)
      BY <1>1 DEF FsOpen, looks, Start
<1>2. CASE \E h \in Handles : FsRelease(h)
      BY <1>2 DEF FsRelease, ghost, looks, Start, NoCall
<1>3. CASE \E p, q \in Paths : FsRename(p, q)
      BY <1>3 DEF FsRename, ghost, looks, Start
<1>4. CASE \E h \in Handles, o \in Offsets : FsRead(h, o)
      BY <1>4 DEF FsRead, Start
<1>5. CASE \E p \in Paths, l \in Offsets : FsTruncate(p, l)
      BY <1>5 DEF FsTruncate, Start
<1>6. CASE FsDestroy
      BY <1>6 DEF FsDestroy, ghost, looks, Start, NoCall
<1> QED
    BY <1>1, <1>2, <1>3, <1>4, <1>5, <1>6 DEF QuietCall

LEMMA QuietStart == Types /\ QuietCall => Types'
<1> SUFFICES ASSUME Types, QuietCall PROVE Types'
    OBVIOUS
<1>0. /\ UNCHANGED <<server, names, up, hpath, hfh, FdsUsed, buf, log, appliedOn, drops, calm>>
      /\ pc = "idle"
      BY QuietFacts
<1>1. ServerTypes' /\ ClientTypes'
  <2>1. ClientTypes'
        BY <1>0 DEF Types, ClientTypes
  <2> QED
      BY <1>0, <2>1, ServerKept DEF Types
<1>2. UNCHANGED <<todo, res, hpath, log>> /\ pc = "idle"
      BY <1>0 DEF server
<1>3. \A h \in Handles : hpath[h] \in Paths \cup {None}
      BY DEF Types, ClientTypes
<1>4. ASSUME NEW h \in Handles, NEW p \in Paths, FsOpen(h, p) PROVE Types'
  <2> DEFINE c == [NoCall EXCEPT !.op = "open", !.h = h, !.path = p]
  <2>1. c.op = "open" /\ c.h = h /\ c.path = p
        BY DEF NoCall
  <2>2. Start(c, "open") /\ hpath[h] = None
        BY <1>4 DEF FsOpen
  <2> HIDE DEF c
  <2> QED
      BY <1>1, <1>2, <1>3, <2>1, <2>2, StartTypes DEF Types
<1>5. ASSUME NEW h \in Handles, FsRelease(h) PROVE Types'
  <2> DEFINE c == [NoCall EXCEPT !.op = "release", !.h = h, !.path = hpath[h]]
  <2>1. c.op = "release" /\ c.h = h /\ c.path = hpath[h]
        BY DEF NoCall
  <2>2. Start(c, "bulk") /\ hpath[h] # None
        BY <1>5 DEF FsRelease
  <2> HIDE DEF c
  <2> QED
      BY <1>1, <1>2, <1>3, <2>1, <2>2, StartTypes DEF Types
<1>6. ASSUME NEW h \in Handles, NEW o \in Offsets, FsRead(h, o) PROVE Types'
  <2> DEFINE c == [NoCall EXCEPT !.op = "read", !.h = h, !.path = hpath[h], !.at = o]
  <2>1. c.op = "read" /\ c.h = h /\ c.path = hpath[h] /\ c.at = o
        BY DEF NoCall
  <2>2. Start(c, "read") /\ hpath[h] # None
        BY <1>6 DEF FsRead
  <2> HIDE DEF c
  <2> QED
      BY <1>1, <1>2, <1>3, <2>1, <2>2, StartTypes DEF Types
<1>7. ASSUME NEW p \in Paths, NEW o \in Offsets, FsTruncate(p, o) PROVE Types'
  <2> DEFINE c == [NoCall EXCEPT !.op = "truncate", !.path = p, !.at = o]
  <2>1. c.op = "truncate" /\ c.path = p /\ c.at = o
        BY DEF NoCall
  <2>2. Start(c, "truncate")
        BY <1>7 DEF FsTruncate
  <2> HIDE DEF c
  <2> QED
      BY <1>1, <1>2, <1>3, <2>1, <2>2, StartTypes DEF Types
<1>8. ASSUME NEW p \in Paths, NEW q \in Paths, FsRename(p, q) PROVE Types'
  <2> DEFINE c == [NoCall EXCEPT !.op = "rename", !.path = p, !.to = q]
  <2>1. c.op = "rename" /\ c.path = p /\ c.to = q
        BY DEF NoCall
  <2>2. Start(c, "rename")
        BY <1>8 DEF FsRename
  <2> HIDE DEF c
  <2> QED
      BY <1>1, <1>2, <1>3, <2>1, <2>2, StartTypes DEF Types
<1>9. CASE FsDestroy
  <2> DEFINE c == [NoCall EXCEPT !.op = "destroy"]
  <2>1. c.op = "destroy"
        BY DEF NoCall
  <2>2. Start(c, "bulk")
        BY <1>9 DEF FsDestroy
  <2> HIDE DEF c
  <2> QED
      BY <1>1, <1>2, <2>1, <2>2, StartTypes DEF Types
<1> QED
    BY <1>4, <1>5, <1>6, <1>7, <1>8, <1>9 DEF QuietCall

(* What fs_write remembers of a write.                                     *)
LEMMA EntryType ==
  ASSUME Types, NEW h \in Handles, NEW o \in Offsets, NEW s \in 1..MaxSize, NEW u \in BOOLEAN,
         hpath[h] # None
  PROVE  /\ Entry(h, o, s, u) \in Entries
         /\ Entry(h, o, s, u).fd = hfh[h] /\ Entry(h, o, s, u).path = hpath[h]
         /\ Entry(h, o, s, u).off = o /\ Entry(h, o, s, u).size = s
         /\ hfh[h] \in Fakes => Entry(h, o, s, u).file = fds[hfh[h]]
<1>1. hpath[h] \in Paths /\ hfh[h] \in 0..MaxFake
      BY DEF Types, ClientTypes
<1>2. (IF hfh[h] \in Fakes THEN fds[hfh[h]] ELSE None) \in Inode
      BY DEF Types, ServerTypes, Table, Inode
<1> QED
    BY <1>1, <1>2 DEF Entry, Entries

LEMMA LogGrows ==
  ASSUME Types, Room("writes"), NEW x \in Entries, log' = Append(log, x)
  PROVE  /\ log' \in Seq(Entries) /\ Len(log') = Len(log) + 1 /\ Len(log') <= MaxWrites
         /\ Len(log) \in Nat /\ Len(log') \in Ids
         /\ log'[Len(log')] = x /\ log' # <<>> /\ DOMAIN log = 1..Len(log)
         /\ DOMAIN log' = 1..Len(log')
         /\ \A n \in DOMAIN log : n \in DOMAIN log' /\ log'[n] = log[n]
<1>1. log \in Seq(Entries)
      BY DEF Types, ClientTypes
<1>2. Len(log) + 1 <= MaxWrites
      BY RoomToWrite
<1>3. /\ log' \in Seq(Entries) /\ Len(log') = Len(log) + 1
      /\ log'[Len(log) + 1] = x /\ \A k \in DOMAIN log : k \in DOMAIN log' /\ log'[k] = log[k]
      BY <1>1, AppendFacts
<1>4. Len(log) \in Nat /\ DOMAIN log = 1..Len(log) /\ DOMAIN log' = 1..Len(log')
      BY <1>1, <1>3
<1>5. log' # <<>>
      BY <1>3, <1>4
<1>6. Len(log') \in Ids
      BY <1>2, <1>3, <1>4, WriteBackAssumption DEF Ids
<1> QED
    BY <1>2, <1>3, <1>4, <1>5, <1>6

LEMMA DirectTypes ==
  ASSUME Types, NEW h \in Handles, NEW o \in Offsets, NEW s \in 1..MaxSize, FsWriteDirect(h, o, s)
  PROVE  Types'
<1>1. /\ pc = "idle" /\ hpath[h] # None /\ Room("writes")
      /\ FdsUsed' = FdsUsed \cup {hfh[h]} /\ log' = Append(log, Entry(h, o, s, FALSE))
      /\ UNCHANGED <<server, names, up, hpath, hfh, buf, appliedOn, drops, calm>>
      BY DEF FsWriteDirect
<1>2. Entry(h, o, s, FALSE) \in Entries
      BY <1>1, EntryType
<1>3. log' \in Seq(Entries) /\ Len(log') <= MaxWrites /\ log' # <<>>
      BY <1>1, <1>2, LogGrows
<1>4. ClientTypes'
      BY <1>1, <1>3 DEF Types, ClientTypes
<1>5. CallTypes'
  <2> DEFINE c == [NoCall EXCEPT !.op = "write", !.h = h, !.path = hpath[h]]
  <2>1. c.op = "write"
        BY DEF NoCall
  <2>2. Start(c, "write")
        BY DEF FsWriteDirect
  <2> HIDE DEF c
  <2> QED
      BY <1>1, <1>3, <2>1, <2>2, StartTypes DEF server
<1> QED
    BY <1>1, <1>4, <1>5, ServerKept DEF Types

(* A buffered write makes the last request longer, or a new one.           *)
LEMMA CombinedFacts ==
  ASSUME Types, NEW f \in 0..MaxFake, NEW p \in Paths, NEW o \in Offsets,
         NEW vs \in Seq(Ids)
  PROVE  /\ Combined(f, p, o, vs) \in Seq(WriteItems)
         /\ Continues(f, o) =>
              LET b == Combined(f, p, o, vs)
                  n == Len(buf)
              IN  /\ Len(b) = n /\ n \in 1..n
                  /\ \A k \in 1..n : k # n => b[k] = buf[k]
                  /\ buf[n].fd = f /\ buf[n].off + Len(buf[n].vals) = o
                  /\ b[n].fd = f /\ b[n].path = buf[n].path /\ b[n].off = buf[n].off
                  /\ b[n].vals = buf[n].vals \o vs
         /\ ~Continues(f, o) => Combined(f, p, o, vs) = Append(buf, WriteItem(p, f, o, vs))
         /\ WriteItem(p, f, o, vs) \in WriteItems
<1>1. buf \in Seq(WriteItems) /\ Len(buf) \in Nat /\ DOMAIN buf = 1..Len(buf)
      BY DEF Types, ClientTypes
<1>2. vs \in Seq(Ids \cup {Garbage})
      OBVIOUS
<1>3. WriteItem(p, f, o, vs) \in WriteItems
      BY <1>2 DEF WriteItem, WriteItems
<1>4. CASE Continues(f, o)
  <2> DEFINE n == Len(buf)
             x == [buf[n] EXCEPT !.vals = buf[n].vals \o vs]
  <2>1. n \in 1..n /\ buf[n] \in WriteItems /\ buf[n].fd = f
        /\ buf[n].off + Len(buf[n].vals) = o
        BY <1>1, <1>4 DEF Continues, Last
  <2>2. buf[n].vals \o vs \in Seq(Ids \cup {Garbage})
        BY <1>2, <2>1 DEF WriteItems
  <2>3. /\ x \in WriteItems /\ x.fd = f /\ x.path = buf[n].path /\ x.off = buf[n].off
        /\ x.vals = buf[n].vals \o vs
        BY <2>1, <2>2 DEF WriteItems
  <2>4. Combined(f, p, o, vs) = [buf EXCEPT ![n] = x]
        BY <1>4 DEF Combined
  <2> HIDE DEF x
  <2>5. /\ [buf EXCEPT ![n] = x] \in Seq(WriteItems) /\ Len([buf EXCEPT ![n] = x]) = n
        /\ [buf EXCEPT ![n] = x][n] = x /\ \A k \in 1..n : k # n => [buf EXCEPT ![n] = x][k] = buf[k]
        BY <1>1, <2>1, <2>3, ExceptFacts
  <2> QED
      BY <1>3, <1>4, <2>1, <2>3, <2>4, <2>5
<1>5. CASE ~Continues(f, o)
      BY <1>1, <1>3, <1>5, AppendFacts DEF Combined
<1> QED
    BY <1>4, <1>5

LEMMA BufferedTypes ==
  ASSUME Types, NEW h \in Handles, NEW o \in Offsets, NEW s \in 1..MaxSize,
         FsWriteBuffered(h, o, s)
  PROVE  Types'
<1> DEFINE n  == Len(log) + 1
           vs == [j \in 1..s |-> n]
<1>1. /\ pc = "idle" /\ hpath[h] # None /\ Room("writes")
      /\ buf' = Combined(hfh[h], hpath[h], o, vs)
      /\ log' = Append(log, Entry(h, o, s, h \in hnew))
      /\ UNCHANGED <<server, names, up, hpath, hfh, FdsUsed, appliedOn, drops, calm>>
      BY DEF FsWriteBuffered
<1>2. Entry(h, o, s, h \in hnew) \in Entries
  <2>1. (h \in hnew) \in BOOLEAN
        OBVIOUS
  <2> QED
      BY <1>1, <2>1, EntryType
<1>3. log' \in Seq(Entries) /\ Len(log') <= MaxWrites /\ log' # <<>> /\ n \in Ids
      BY <1>1, <1>2, LogGrows
<1>4. vs \in Seq(Ids)
      BY <1>3
<1>5. hfh[h] \in 0..MaxFake /\ hpath[h] \in Paths
      BY <1>1 DEF Types, ClientTypes
<1> HIDE DEF vs
<1>6. buf' \in Seq(WriteItems)
      BY <1>1, <1>4, <1>5, CombinedFacts
<1>7. ClientTypes'
      BY <1>1, <1>3, <1>6 DEF Types, ClientTypes
<1>8. CallTypes'
  <2>1. CASE bytes' > BatchLimit
    <3> DEFINE c == [NoCall EXCEPT !.op = "write", !.h = h, !.path = hpath[h]]
    <3>1. c.op = "write"
          BY DEF NoCall
    <3>2. Start(c, "bulk")
          BY <2>1 DEF FsWriteBuffered
    <3> HIDE DEF c
    <3> QED
        BY <1>1, <1>3, <3>1, <3>2, StartTypes DEF server
  <2>2. CASE ~(bytes' > BatchLimit)
    <3>1. UNCHANGED <<pc, call, rq>> /\ rq = "none" /\ todo = <<>> /\ UNCHANGED <<todo, res, hpath>>
          BY <1>1, <2>2 DEF FsWriteBuffered, Types, CallTypes, server
    <3> QED
        BY <3>1 DEF Types, CallTypes
  <2> QED
      BY <2>1, <2>2
<1> QED
    BY <1>1, <1>7, <1>8, ServerKept DEF Types

(* The end of a request.                                                   *)
LEMMA ReturnTypes ==
  ASSUME Types, NEW r \in Int, Return(r), todo = <<>>, todo' = <<>>, res' = 0,
         rq = "open" => r <= MaxFake,
         UNCHANGED <<dir, data, fds, late, up>>
  PROVE  Types'
<1>1. UNCHANGED <<FdsUsed, log, appliedOn, names, drops, calm>>
      BY DEF Return
<1>2. <<>> \in Reqs /\ <<>> \in Seq(WriteItems)
      BY DEF Reqs
<1>3. ServerTypes'
      BY <1>1, <1>2 DEF Types, ServerTypes
<1>4. /\ hpath \in [Handles -> Paths \cup {None}] /\ hfh \in [Handles -> 0..MaxFake]
      /\ buf \in Seq(WriteItems)
      BY DEF Types, ClientTypes
<1>5. /\ rq \in {"open", "release"} => call.h \in Handles /\ call.path \in Paths
      /\ rq = "rename" => call.to \in Paths
      /\ rq = "bulk" /\ call.op = "release" =>
           call.h \in Handles /\ call.path \in Paths /\ hpath[call.h] # None
      BY DEF Types, CallTypes
<1>6. /\ hpath' \in [Handles -> Paths \cup {None}] /\ hfh' \in [Handles -> 0..MaxFake]
      /\ buf' \in Seq(WriteItems)
  <2>1. CASE Opened(r)
        BY <1>4, <1>5, <2>1, WriteBackAssumption DEF Opened
  <2>2. CASE WroteDirect(r) \/ Looked
        BY <1>4, <2>2 DEF WroteDirect, Looked
  <2>3. CASE WroteBulk(r)
        BY <1>2, <1>4, <2>3 DEF WroteBulk
  <2>4. CASE Released
        BY <1>4, <1>5, <2>4, WriteBackAssumption DEF Released
  <2>5. CASE Renamed(r)
        BY <1>4, <1>5, <2>5 DEF Renamed
  <2> QED
      BY <2>1, <2>2, <2>3, <2>4, <2>5 DEF Return
<1>7. ClientTypes'
      BY <1>1, <1>6 DEF Types, ClientTypes
<1>8. CASE Idle
  <2>1. pc' = "idle" /\ rq' = "none" /\ call'.op = "none"
        BY <1>8 DEF Idle, NoCall
  <2>2. CallTypes'
        BY <1>2, <2>1 DEF CallTypes
  <2> QED
      BY <1>3, <1>7, <2>2 DEF Types
<1>9. CASE ~Idle
  <2>1. WroteBulk(r)
        BY <1>9 DEF Return, Opened, WroteDirect, Released, Renamed, Looked
  <2>2. \/ /\ call.op = "release" /\ pc' = "init" /\ rq' = "release" /\ UNCHANGED call
        \/ pc' = "done" /\ rq' = "none" /\ call' = NoCall
        BY <1>9, <2>1 DEF WroteBulk
  <2>3. rq = "bulk" /\ UNCHANGED hpath
        BY <2>1 DEF WroteBulk
  <2>4. CallTypes'
        BY <1>2, <1>5, <2>2, <2>3 DEF CallTypes, NoCall
  <2> QED
      BY <1>3, <1>7, <2>4 DEF Types
<1> QED
    BY <1>8, <1>9

LEMMA RequestTypes ==
  ASSUME Types, InitSocketFails \/ NoOk \/ NoResult \/ ReadResult
  PROVE  /\ Types' /\ todo = <<>> /\ res' = 0 /\ pc \in {"init", "sent", "args"}
         /\ \E r \in Int : /\ Return(r)
                           /\ \/ r = ECOMM /\ ~up /\ pc \in {"init", "sent"}
                              \/ r = 0 /\ ~up /\ pc = "sent"
                              \/ r = res /\ pc = "args"
         /\ UNCHANGED <<dir, data, fds, todo, late, up>>
<1>1. PICK r \in Int : /\ Return(r)
                       /\ \/ r = ECOMM /\ ~up /\ pc \in {"init", "sent"} /\ UNCHANGED <<server, up>>
                          \/ r = 0 /\ ~up /\ pc = "sent" /\ UNCHANGED <<server, up>>
                          \/ /\ r = res /\ pc = "args" /\ todo = <<>> /\ res' = 0
                             /\ UNCHANGED <<dir, data, fds, todo, late, up>>
  <2>1. ECOMM \in Int /\ 0 \in Int /\ res \in Int
        BY DEF ECOMM, Types, ServerTypes, Error
  <2> QED
      BY <2>1 DEF InitSocketFails, NoOk, NoResult, ReadResult
<1>2. pc # "args" => todo = <<>> /\ res = 0
      BY DEF Types, CallTypes
<1>3. todo = <<>> /\ todo' = <<>> /\ res' = 0 /\ UNCHANGED <<dir, data, fds, late, up>>
      BY <1>1, <1>2 DEF server
<1>4. rq = "open" => r <= MaxFake
      BY <1>1, WriteBackAssumption DEF Types, CallTypes, ECOMM, Error
<1>5. Types'
      BY <1>1, <1>3, <1>4, ReturnTypes
<1> QED
    BY <1>1, <1>3, <1>5

LEMMA InitSocketTypes == Types /\ InitSocket => Types'
<1> SUFFICES ASSUME Types, InitSocket PROVE Types'
    OBVIOUS
<1>1. /\ pc = "init" /\ pc' = "sent" /\ up' = TRUE
      /\ UNCHANGED <<server, names, hpath, hfh, FdsUsed, buf, call, rq, log, appliedOn, drops, calm>>
      BY DEF InitSocket, ghost
<1>2. ClientTypes'
      BY <1>1 DEF Types, ClientTypes
<1>3. todo = <<>> /\ res = 0 /\ UNCHANGED <<todo, res>>
      BY <1>1 DEF Types, CallTypes, server
<1>4. CallTypes'
      BY <1>1, <1>3 DEF Types, CallTypes
<1> QED
    BY <1>1, <1>2, <1>4, ServerKept DEF Types

(* What is sent.                                                           *)
LEMMA ItemsFacts ==
  ASSUME Types, pc \in {"init", "sent", "args"}
  PROVE  /\ Items \in Reqs
         /\ rq = "bulk" => Items = buf
         /\ rq = "write" =>
              LET w == log[Len(log)]
              IN  /\ Items = <<WriteItem(w.path, w.fd, w.off, [j \in 1..w.size |-> Len(log)])>>
                  /\ WriteItem(w.path, w.fd, w.off, [j \in 1..w.size |-> Len(log)]) \in WriteItems
                  /\ w \in Entries /\ Len(log) \in DOMAIN log /\ Len(log) \in Ids
         /\ rq \in {"write", "bulk"} => Items \in Seq(WriteItems)
         /\ rq \notin {"write", "bulk"} => \E it \in Ops : Items = <<it>> /\ it.k = rq
<1>1. rq # "none" /\ rq \in {"none", "open", "write", "bulk", "release", "rename", "read", "truncate"}
      BY DEF Types, CallTypes
<1>2. CASE rq = "bulk"
  <2>1. Items = buf /\ buf \in Seq(WriteItems)
        BY <1>2 DEF Items, Types, ClientTypes
  <2> QED
      BY <1>2, <2>1 DEF Reqs
<1>3. CASE rq = "write"
  <2> DEFINE w  == log[Len(log)]
             vs == [j \in 1..w.size |-> Len(log)]
  <2>1. log \in Seq(Entries) /\ log # <<>> /\ Len(log) <= MaxWrites
        BY <1>3 DEF Types, CallTypes, ClientTypes
  <2>2. Len(log) \in DOMAIN log /\ w \in Entries /\ Len(log) \in Ids
        BY <2>1, WriteBackAssumption DEF Ids
  <2>3. /\ w.path \in Paths /\ w.fd \in 0..MaxFake /\ w.off \in Offsets /\ w.size \in Nat
        BY <2>2, WriteBackAssumption DEF Entries
  <2>4. vs \in Seq(Ids \cup {Garbage})
        BY <2>2, <2>3
  <2>5. Items = <<WriteItem(w.path, w.fd, w.off, vs)>>
        BY <1>3 DEF Items, Last
  <2> HIDE DEF vs
  <2>6. WriteItem(w.path, w.fd, w.off, vs) \in WriteItems
        BY <2>3, <2>4 DEF WriteItem, WriteItems
  <2>7. Items \in Seq(WriteItems)
        BY <2>5, <2>6
  <2> QED
      BY <1>3, <2>2, <2>5, <2>6, <2>7 DEF Reqs, vs
<1>4. CASE rq \notin {"write", "bulk"}
  <2>1. /\ call.path \in Paths
        /\ rq \in {"release", "read"} => hfh[call.h] \in 0..MaxFake
        /\ rq = "rename" => call.to \in Paths
        /\ rq \in {"read", "truncate"} => call.at \in Offsets
        BY <1>1, <1>4 DEF Types, CallTypes, ClientTypes
  <2>2. \E it \in Ops : Items = <<it>> /\ it.k = rq
    <3>1. CASE rq = "open"
      <4>1. OpenItem(call.path) \in Ops /\ OpenItem(call.path).k = "open"
            BY <2>1 DEF OpenItem, Ops
      <4> QED
          BY <3>1, <4>1 DEF Items
    <3>2. CASE rq = "release"
      <4>1. /\ ReleaseItem(call.path, hfh[call.h]) \in Ops
            /\ ReleaseItem(call.path, hfh[call.h]).k = "release"
            BY <2>1, <3>2 DEF ReleaseItem, Ops
      <4> QED
          BY <3>2, <4>1 DEF Items
    <3>3. CASE rq = "rename"
      <4>1. RenameItem(call.path, call.to) \in Ops /\ RenameItem(call.path, call.to).k = "rename"
            BY <2>1, <3>3 DEF RenameItem, Ops
      <4> QED
          BY <3>3, <4>1 DEF Items
    <3>4. CASE rq = "read"
      <4>1. /\ ReadItem(call.path, hfh[call.h], call.at) \in Ops
            /\ ReadItem(call.path, hfh[call.h], call.at).k = "read"
            BY <2>1, <3>4 DEF ReadItem, Ops
      <4> QED
          BY <3>4, <4>1 DEF Items
    <3>5. CASE rq = "truncate"
      <4>1. TruncateItem(call.path, call.at) \in Ops /\ TruncateItem(call.path, call.at).k = "truncate"
            BY <2>1, <3>5 DEF TruncateItem, Ops
      <4> QED
          BY <3>5, <4>1 DEF Items
    <3> QED
        BY <1>1, <1>4, <3>1, <3>2, <3>3, <3>4, <3>5
  <2> QED
      BY <1>4, <2>2 DEF Reqs
<1> QED
    BY <1>2, <1>3, <1>4

LEMMA SendTypes == Types /\ SendArguments => Types'
<1> SUFFICES ASSUME Types, SendArguments PROVE Types'
    OBVIOUS
<1>1. /\ pc = "sent" /\ pc' = "args" /\ todo' = Items
      /\ UNCHANGED <<dir, data, fds, res, late, names, up, hpath, hfh, FdsUsed, buf, call, rq, log,
                     appliedOn, drops, calm>>
      BY DEF SendArguments, ghost
<1>2. /\ Items \in Reqs
      /\ rq \in {"write", "bulk"} => Items \in Seq(WriteItems)
      BY <1>1, ItemsFacts
<1>3. ServerTypes'
      BY <1>1, <1>2, ItemsFacts DEF Types, ServerTypes
<1>4. ClientTypes'
      BY <1>1 DEF Types, ClientTypes
<1>5. Items' = Items
      BY <1>1 DEF Items
<1>6. CallTypes'
      BY <1>1, <1>2, <1>5 DEF Types, CallTypes
<1> QED
    BY <1>3, <1>4, <1>6 DEF Types

(* What the operations of a worker do.                                     *)
LEMMA PwriteFacts ==
  ASSUME Types, NEW tbl \in Table, NEW it \in WriteItems, NEW cn \in Nat, Pwrite(tbl, it, cn)
  PROVE  /\ it.fd \in Fakes /\ tbl[it.fd] \in Inodes /\ dir[it.path] = tbl[it.fd]
         /\ data' \in [Inodes -> [Offsets -> Ids \cup {Hole, Garbage}]]
         /\ \A i \in Inodes : i # tbl[it.fd] => data'[i] = data[i]
         /\ \A o \in Offsets : data'[tbl[it.fd]][o] =
              IF o \in it.off .. it.off + Len(it.vals) - 1
              THEN it.vals[o - it.off + 1] ELSE data[tbl[it.fd]][o]
         /\ \A o \in it.off .. it.off + Len(it.vals) - 1 :
              o - it.off + 1 \in DOMAIN it.vals
         /\ appliedOn' \in [Ids -> Nat]
         /\ \A n \in Ids : appliedOn'[n] = IF n \in IdsOf(it) THEN cn ELSE appliedOn[n]
<1> DEFINE i == tbl[it.fd]
<1>1. it.fd \in Fakes /\ i \in Inodes /\ dir[it.path] = i
      BY DEF Pwrite, LinkMatches, Table, Inode
<1>2. /\ data \in [Inodes -> [Offsets -> Ids \cup {Hole, Garbage}]]
      /\ it.vals \in Seq(Ids \cup {Garbage}) /\ it.off \in Nat /\ Len(it.vals) \in Nat
      BY ItemFacts, WriteBackAssumption DEF Types, ServerTypes, Offsets
<1>3. data' = [data EXCEPT ![i] =
                 [o \in Offsets |-> IF o \in it.off .. it.off + Len(it.vals) - 1
                                    THEN it.vals[o - it.off + 1] ELSE data[i][o]]]
      BY DEF Pwrite
<1>4. ASSUME NEW o \in it.off .. it.off + Len(it.vals) - 1
      PROVE  o - it.off + 1 \in DOMAIN it.vals /\ it.vals[o - it.off + 1] \in Ids \cup {Garbage}
  <2>1. o - it.off + 1 \in 1..Len(it.vals)
        BY <1>2
  <2> QED
      BY <1>2, <2>1
<1> DEFINE F == [o \in Offsets |-> IF o \in it.off .. it.off + Len(it.vals) - 1
                                   THEN it.vals[o - it.off + 1] ELSE data[i][o]]
<1>5. F \in [Offsets -> Ids \cup {Hole, Garbage}]
  <2> SUFFICES ASSUME NEW o \in Offsets
               PROVE  (IF o \in it.off .. it.off + Len(it.vals) - 1
                       THEN it.vals[o - it.off + 1] ELSE data[i][o]) \in Ids \cup {Hole, Garbage}
      OBVIOUS
  <2> QED
      BY <1>1, <1>2, <1>4
<1>6. data' = [data EXCEPT ![i] = F]
      BY <1>3
<1>7. \A o \in Offsets : F[o] = IF o \in it.off .. it.off + Len(it.vals) - 1
                                THEN it.vals[o - it.off + 1] ELSE data[i][o]
      OBVIOUS
<1> HIDE DEF F
<1>8. /\ data' \in [Inodes -> [Offsets -> Ids \cup {Hole, Garbage}]] /\ data'[i] = F
      /\ \A j \in Inodes : j # i => data'[j] = data[j]
      BY <1>1, <1>2, <1>5, <1>6
<1>9. appliedOn' = [n \in Ids |-> IF n \in ToSet(it.vals) THEN cn ELSE appliedOn[n]]
      BY DEF Pwrite
<1>10. appliedOn \in [Ids -> Nat]
      BY DEF Types, ClientTypes
<1>11. appliedOn' \in [Ids -> Nat]
      BY <1>9, <1>10
<1>12. \A n \in Ids : appliedOn'[n] = IF n \in IdsOf(it) THEN cn ELSE appliedOn[n]
      BY <1>9 DEF IdsOf
<1> QED
    BY <1>1, <1>4, <1>7, <1>8, <1>11, <1>12

LEMMA TruncateFacts ==
  ASSUME Types, NEW it, it.path \in Paths, it.len \in Offsets, Truncate(it)
  PROVE  /\ dir[it.path] \in Inodes
         /\ data' \in [Inodes -> [Offsets -> Ids \cup {Hole, Garbage}]]
         /\ \A i \in Inodes : i # dir[it.path] => data'[i] = data[i]
         /\ \A o \in Offsets : data'[dir[it.path]][o] =
                                 IF o >= it.len THEN Hole ELSE data[dir[it.path]][o]
<1> DEFINE i == dir[it.path]
           F == [o \in Offsets |-> IF o >= it.len THEN Hole ELSE data[i][o]]
<1>1. i \in Inodes /\ data \in [Inodes -> [Offsets -> Ids \cup {Hole, Garbage}]]
      BY DEF Truncate, Types, ServerTypes, Inode
<1>2. F \in [Offsets -> Ids \cup {Hole, Garbage}]
      BY <1>1
<1>3. data' = [data EXCEPT ![i] = F]
      BY DEF Truncate
<1>4. \A o \in Offsets : F[o] = IF o >= it.len THEN Hole ELSE data[i][o]
      OBVIOUS
<1> HIDE DEF F
<1> QED
    BY <1>1, <1>2, <1>3, <1>4

LEMMA MoveFacts ==
  ASSUME Types, NEW p \in Paths, NEW q \in Paths, MoveName(p, q)
  PROVE  /\ dir' \in [Paths -> Inode] /\ names' \in [Inodes -> SUBSET Paths]
         /\ \A i \in Inodes : names[i] \subseteq names'[i]
         /\ dir[p] \in Inodes /\ q \in names'[dir[p]] /\ dir'[q] = dir[p]
         /\ \A x \in Paths : x # q => dir'[x] \in {None, dir[x]}
  BY DEF MoveName, Types, ServerTypes, Inode

LEMMA ServingFacts ==
  ASSUME Types, NEW k, Serving(k)
  PROVE  /\ todo # <<>> /\ pc = "args" /\ Head(todo).k = k /\ todo' = Tail(todo) /\ todo' \in Reqs
         /\ k = "write" => /\ Head(todo) \in WriteItems /\ rq \in {"write", "bulk"}
                           /\ todo \in Seq(WriteItems) /\ todo' \in Seq(WriteItems)
         /\ k # "write" => /\ Head(todo) \in Ops /\ todo' = <<>> /\ rq = k /\ todo = Items
                           /\ Items = <<Head(todo)>>
<1>1. todo # <<>> /\ Head(todo).k = k /\ todo' = Tail(todo) /\ todo \in Reqs
      BY DEF Serving, Types, ServerTypes
<1>2. pc = "args"
      BY <1>1 DEF Types, CallTypes
<1>3. /\ rq \in {"write", "bulk"} => todo \in Seq(WriteItems)
      /\ rq \notin {"write", "bulk"} => todo = Items
      BY <1>1 DEF Types, CallTypes
<1>4. rq \notin {"write", "bulk"} => \E it \in Ops : Items = <<it>> /\ it.k = rq
      BY <1>2, ItemsFacts
<1>5. rq \notin {"write", "bulk"} => Head(todo).k = rq /\ Head(todo) \in Ops /\ Items = <<Head(todo)>>
      BY <1>3, <1>4
<1>6. rq \in {"write", "bulk"} => Head(todo) \in WriteItems
      BY <1>1, <1>3, TailFacts
<1> QED
    BY <1>1, <1>2, <1>3, <1>5, <1>6, ReqFacts, OpFacts, ItemFacts

LEMMA ServeClient ==
  ASSUME Types, NEW k, Serving(k), UNCHANGED <<client, log, drops>>, calm' \in BOOLEAN,
         appliedOn' \in [Ids -> Nat], res' \in {Error} \cup Nat,
         k = "open" => res' \in {Error} \cup 0..MaxFake
  PROVE  ClientTypes' /\ CallTypes'
<1>1. /\ todo # <<>> /\ pc = "args" /\ Head(todo).k = k /\ todo' \in Reqs
      /\ k = "write" => rq \in {"write", "bulk"} /\ todo' \in Seq(WriteItems)
      /\ k # "write" => todo' = <<>> /\ rq = k /\ Head(todo) \in Ops
      BY ServingFacts
<1>2. UNCHANGED <<up, hpath, hfh, FdsUsed, buf, bytes, pc, call, rq, log, drops>>
      BY DEF client
<1>3. ClientTypes'
      BY <1>2 DEF Types, ClientTypes
<1>4. k # "write" => rq \notin {"write", "bulk"}
      BY <1>1, OpFacts
<1>5. CallTypes'
      BY <1>1, <1>2, <1>4 DEF Types, CallTypes
<1> QED
    BY <1>3, <1>5

LEMMA ServeTypes == Types /\ Serve => Types'
<1> SUFFICES ASSUME Types, Serve PROVE Types'
    OBVIOUS
<1>1. /\ dir \in [Paths -> Inode] /\ names \in [Inodes -> SUBSET Paths]
      /\ data \in [Inodes -> [Offsets -> Ids \cup {Hole, Garbage}]]
      /\ fds \in Table /\ res \in {Error} \cup Nat /\ late \in Seq(Late)
      /\ appliedOn \in [Ids -> Nat] /\ calm \in BOOLEAN /\ drops + 1 \in Nat
      /\ Fakes \subseteq 0..MaxFake /\ 0..MaxFake \subseteq Nat
      BY WriteBackAssumption DEF Types, ServerTypes, ClientTypes, Fakes
<1>2. CASE ServeOpen
  <2>1. Serving("open") /\ UNCHANGED <<dir, data, late, client, ghost>>
        BY <1>2 DEF ServeOpen
  <2>2. Head(todo) \in Ops /\ todo' \in Reqs
        BY <2>1, ServingFacts
  <2>3. dir[Head(todo).path] \in Inode
        BY <1>1, <2>2, OpFacts
  <2>4. fds' \in Table /\ res' \in {Error} \cup 0..MaxFake
        BY <1>1, <1>2, <2>3 DEF ServeOpen, Table
  <2>5. ServerTypes'
        BY <1>1, <2>1, <2>2, <2>4 DEF ServerTypes, ghost
  <2>6. ClientTypes' /\ CallTypes'
        BY <1>1, <2>1, <2>4, ServeClient DEF ghost
  <2> QED
      BY <2>5, <2>6 DEF Types
<1>3. CASE ServeWrite
  <2> DEFINE it == Head(todo)
  <2>1. Serving("write") /\ UNCHANGED <<dir, fds, late, client, log, names, drops>>
        BY <1>3 DEF ServeWrite
  <2>2. it \in WriteItems /\ todo' \in Reqs /\ Len(it.vals) \in Nat
        BY <2>1, ServingFacts, ItemFacts
  <2>3. \/ Pwrite(fds, it, drops + 1) /\ res' = (IF rq = "bulk" THEN res ELSE Len(it.vals)) /\ UNCHANGED calm
        \/ WriteFails(fds, it) /\ res' = Error
        BY <1>3 DEF ServeWrite
  <2> HIDE DEF it
  <2>4. /\ data' \in [Inodes -> [Offsets -> Ids \cup {Hole, Garbage}]]
        /\ appliedOn' \in [Ids -> Nat] /\ res' \in {Error} \cup Nat /\ calm' \in BOOLEAN
    <3>1. CASE Pwrite(fds, it, drops + 1) /\ UNCHANGED calm /\ res' \in {Error} \cup Nat
          BY <1>1, <2>2, <3>1, PwriteFacts
    <3>2. CASE WriteFails(fds, it) /\ res' = Error
      <4>1. UNCHANGED <<data, appliedOn>> /\ calm' = (calm /\ ~LinkMatches(fds, it))
            BY <3>2 DEF WriteFails
      <4>2. calm' \in BOOLEAN
            BY <4>1
      <4> QED
          BY <1>1, <3>2, <4>1, <4>2
    <3> QED
        BY <1>1, <2>2, <2>3, <3>1, <3>2
  <2>5. ServerTypes'
        BY <1>1, <2>1, <2>2, <2>4 DEF ServerTypes
  <2>6. ClientTypes' /\ CallTypes'
        BY <2>1, <2>4, ServeClient
  <2> QED
      BY <2>5, <2>6 DEF Types
<1>4. CASE ServeRelease
  <2>1. Serving("release") /\ UNCHANGED <<dir, data, late, client, ghost>>
        BY <1>4 DEF ServeRelease
  <2>2. todo' \in Reqs
        BY <2>1, ServingFacts
  <2>3. fds' \in Table /\ res' \in {Error} \cup Nat
        BY <1>1, <1>4 DEF ServeRelease, Table, Inode
  <2>4. ServerTypes'
        BY <1>1, <2>1, <2>2, <2>3 DEF ServerTypes, ghost
  <2>5. ClientTypes' /\ CallTypes'
        BY <1>1, <2>1, <2>3, ServeClient DEF ghost
  <2> QED
      BY <2>4, <2>5 DEF Types
<1>5. CASE ServeRename
  <2> DEFINE it == Head(todo)
  <2>1. Serving("rename") /\ UNCHANGED <<data, fds, late, client, log, appliedOn, drops>>
        BY <1>5 DEF ServeRename
  <2>2. it \in Ops /\ it.k = "rename" /\ todo' \in Reqs
        BY <2>1, ServingFacts
  <2>3. it.path \in Paths /\ it.to \in Paths
        BY <2>2, OpFacts
  <2>4. \/ MoveName(it.path, it.to) /\ res' = 0 /\ calm' = FALSE
        \/ res' = Error /\ UNCHANGED <<dir, names, calm>>
        BY <1>5 DEF ServeRename
  <2> HIDE DEF it
  <2>5. /\ dir' \in [Paths -> Inode] /\ names' \in [Inodes -> SUBSET Paths]
        /\ res' \in {Error} \cup Nat /\ calm' \in BOOLEAN
    <3>1. CASE MoveName(it.path, it.to) /\ res' = 0 /\ calm' = FALSE
      <4>1. dir' \in [Paths -> Inode] /\ names' \in [Inodes -> SUBSET Paths]
            BY <2>3, <3>1, MoveFacts
      <4> QED
          BY <3>1, <4>1
    <3>2. CASE res' = Error /\ UNCHANGED <<dir, names, calm>>
          BY <1>1, <3>2
    <3> QED
        BY <2>4, <3>1, <3>2
  <2>6. ServerTypes'
        BY <1>1, <2>1, <2>2, <2>5 DEF ServerTypes
  <2>7. ClientTypes' /\ CallTypes'
        BY <1>1, <2>1, <2>5, ServeClient
  <2> QED
      BY <2>6, <2>7 DEF Types
<1>6. CASE ServeRead
  <2>1. /\ Serving("read") /\ res' \in {Error} \cup Nat
        /\ UNCHANGED <<dir, data, fds, late, client, log, appliedOn, names, drops, calm>>
        BY <1>6 DEF ServeRead
  <2>2. todo' \in Reqs
        BY <2>1, ServingFacts
  <2>3. ServerTypes'
        BY <1>1, <2>1, <2>2 DEF ServerTypes
  <2>4. ClientTypes' /\ CallTypes'
        BY <1>1, <2>1, ServeClient
  <2> QED
      BY <2>3, <2>4 DEF Types
<1>7. CASE ServeTruncate
  <2> DEFINE it == Head(todo)
  <2>1. Serving("truncate") /\ UNCHANGED <<dir, fds, late, client, log, appliedOn, names, drops, calm>>
        BY <1>7 DEF ServeTruncate
  <2>2. it \in Ops /\ it.k = "truncate" /\ todo' \in Reqs
        BY <2>1, ServingFacts
  <2>3. it.path \in Paths /\ it.len \in Offsets
        BY <2>2, OpFacts
  <2>4. \/ Truncate(it) /\ res' = 0
        \/ res' = Error /\ UNCHANGED data
        BY <1>7 DEF ServeTruncate
  <2> HIDE DEF it
  <2>5. /\ data' \in [Inodes -> [Offsets -> Ids \cup {Hole, Garbage}]] /\ res' \in {Error} \cup Nat
        BY <1>1, <2>3, <2>4, TruncateFacts
  <2>6. ServerTypes'
        BY <1>1, <2>1, <2>2, <2>5 DEF ServerTypes
  <2>7. ClientTypes' /\ CallTypes'
        BY <1>1, <2>1, <2>5, ServeClient
  <2> QED
      BY <2>6, <2>7 DEF Types
<1> QED
    BY <1>2, <1>3, <1>4, <1>5, <1>6, <1>7 DEF Serve

(* A late worker does one thing of its request, and may be done with it.   *)
LEMMA LateFacts ==
  ASSUME Types, NEW n \in DOMAIN late, ServeLate(n)
  PROVE  /\ late[n] \in Late /\ late[n].todo \in Reqs /\ late[n].fds \in Table
         /\ late[n].conn \in Nat \ {0} /\ late[n].todo # <<>>
         /\ late' \in Seq(Late)
         /\ \/ late' = RemoveAt(late, n)
            \/ /\ DOMAIN late' = DOMAIN late
               /\ late'[n].fds = late[n].fds /\ late'[n].conn = late[n].conn
               /\ late'[n].todo = Tail(late[n].todo)
               /\ \A k \in DOMAIN late : k # n => late'[k] = late[k]
<1> DEFINE w == late[n]
           x == [w EXCEPT !.todo = Tail(w.todo)]
<1>1. late \in Seq(Late) /\ w \in Late
      BY DEF Types, ServerTypes
<1>2. w.todo \in Reqs /\ w.fds \in Table /\ w.conn \in Nat \ {0} /\ w.todo # <<>>
      BY <1>1 DEF Late
<1>3. late' = IF Len(w.todo) = 1 THEN RemoveAt(late, n) ELSE [late EXCEPT ![n] = x]
      BY <1>1 DEF ServeLate
<1>4. CASE Len(w.todo) = 1
      BY <1>1, <1>2, <1>3, <1>4, RemoveFacts
<1>5. CASE Len(w.todo) # 1
  <2>1. Tail(w.todo) \in Reqs
        BY <1>2, ReqFacts
  <2>2. Tail(w.todo) # <<>>
    <3>1. w.todo \in Seq(WriteItems)
      <4>1. \A it \in Ops : Len(<<it>>) = 1
            OBVIOUS
      <4> QED
          BY <1>2, <1>5, <4>1 DEF Reqs
    <3>2. Len(w.todo) \in Nat /\ Len(w.todo) # 0 /\ Len(Tail(w.todo)) = Len(w.todo) - 1
          BY <1>2, <3>1, TailFacts
    <3>3. Len(Tail(w.todo)) # 0
          BY <1>5, <3>2
    <3>4. Len(<<>>) = 0
          OBVIOUS
    <3> QED
        BY <3>3, <3>4
  <2>3. x \in Late /\ x.fds = w.fds /\ x.conn = w.conn /\ x.todo = Tail(w.todo)
        BY <1>1, <2>1, <2>2 DEF Late
  <2> HIDE DEF x
  <2>4. /\ [late EXCEPT ![n] = x] \in Seq(Late) /\ DOMAIN [late EXCEPT ![n] = x] = DOMAIN late
        /\ [late EXCEPT ![n] = x][n] = x
        /\ \A k \in DOMAIN late : k # n => [late EXCEPT ![n] = x][k] = late[k]
        BY <1>1, <2>3, ExceptFacts
  <2>5. late' = [late EXCEPT ![n] = x]
        BY <1>3, <1>5
  <2> QED
      BY <1>1, <1>2, <2>3, <2>4, <2>5
<1> QED
    BY <1>4, <1>5

(* The thing it does: a write, a rename, a truncate, or nothing that       *)
(* anyone sees.                                                            *)
LEMMA LateSteps ==
  ASSUME Types, NEW n \in DOMAIN late, ServeLate(n)
  PROVE  LET it == Head(late[n].todo)
         IN  \/ /\ it \in WriteItems /\ Pwrite(late[n].fds, it, late[n].conn)
                /\ late[n].todo \in Seq(WriteItems) /\ UNCHANGED <<dir, names, cuts>>
             \/ /\ it.path \in Paths /\ it.to \in Paths /\ MoveName(it.path, it.to)
                /\ UNCHANGED <<data, appliedOn, cuts>>
             \/ /\ it.path \in Paths /\ it.len \in Offsets /\ Truncate(it)
                /\ UNCHANGED <<dir, names, appliedOn>>
             \/ UNCHANGED <<dir, names, data, appliedOn, cuts>>
<1> DEFINE w  == late[n]
           it == Head(w.todo)
<1>1. w.todo \in Reqs /\ w.todo # <<>>
      BY LateFacts
<1>2. /\ it.k = "write" => it \in WriteItems /\ w.todo \in Seq(WriteItems)
      /\ it.k # "write" => it \in Ops
      BY <1>1, ReqFacts
<1>3. \/ it.k = "write" /\ Pwrite(w.fds, it, w.conn) /\ UNCHANGED <<dir, names, cuts>>
      \/ it.k = "rename" /\ MoveName(it.path, it.to) /\ UNCHANGED <<data, appliedOn, cuts>>
      \/ it.k = "truncate" /\ Truncate(it) /\ UNCHANGED <<dir, names, appliedOn>>
      \/ UNCHANGED <<dir, names, data, appliedOn, cuts>>
      BY DEF ServeLate
<1> HIDE DEF it
<1>4. it.k = "rename" => it.path \in Paths /\ it.to \in Paths
      BY <1>2, OpFacts
<1>5. it.k = "truncate" => it.path \in Paths /\ it.len \in Offsets
      BY <1>2, OpFacts
<1>6. CASE it.k = "write" /\ Pwrite(w.fds, it, w.conn) /\ UNCHANGED <<dir, names, cuts>>
      BY <1>2, <1>6 DEF it
<1>7. CASE it.k = "rename" /\ MoveName(it.path, it.to) /\ UNCHANGED <<data, appliedOn, cuts>>
      BY <1>4, <1>7 DEF it
<1>8. CASE it.k = "truncate" /\ Truncate(it) /\ UNCHANGED <<dir, names, appliedOn>>
      BY <1>5, <1>8 DEF it
<1>9. CASE UNCHANGED <<dir, names, data, appliedOn, cuts>>
      BY <1>9
<1> QED
    BY <1>3, <1>6, <1>7, <1>8, <1>9

LEMMA LateTypes ==
  ASSUME Types, NEW n \in DOMAIN late, ServeLate(n)
  PROVE  Types'
<1> DEFINE it == Head(late[n].todo)
<1>1. UNCHANGED <<fds, todo, res, client, log, drops, calm>>
      BY DEF ServeLate
<1>2. late' \in Seq(Late) /\ late[n].fds \in Table /\ late[n].conn \in Nat
      BY LateFacts
<1>3. \/ it \in WriteItems /\ Pwrite(late[n].fds, it, late[n].conn) /\ UNCHANGED <<dir, names>>
      \/ /\ it.path \in Paths /\ it.to \in Paths /\ MoveName(it.path, it.to)
         /\ UNCHANGED <<data, appliedOn>>
      \/ /\ it.path \in Paths /\ it.len \in Offsets /\ Truncate(it)
         /\ UNCHANGED <<dir, names, appliedOn>>
      \/ UNCHANGED <<dir, names, data, appliedOn>>
      BY LateSteps
<1> HIDE DEF it
<1>4. /\ dir \in [Paths -> Inode] /\ names \in [Inodes -> SUBSET Paths]
      /\ data \in [Inodes -> [Offsets -> Ids \cup {Hole, Garbage}]]
      /\ appliedOn \in [Ids -> Nat]
      BY DEF Types, ServerTypes, ClientTypes
<1>5. /\ dir' \in [Paths -> Inode] /\ names' \in [Inodes -> SUBSET Paths]
      /\ data' \in [Inodes -> [Offsets -> Ids \cup {Hole, Garbage}]]
      /\ appliedOn' \in [Ids -> Nat]
  <2>1. CASE it \in WriteItems /\ Pwrite(late[n].fds, it, late[n].conn) /\ UNCHANGED <<dir, names>>
        BY <1>2, <1>4, <2>1, PwriteFacts
  <2>2. CASE /\ it.path \in Paths /\ it.to \in Paths /\ MoveName(it.path, it.to)
             /\ UNCHANGED <<data, appliedOn>>
        BY <1>4, <2>2, MoveFacts
  <2>3. CASE /\ it.path \in Paths /\ it.len \in Offsets /\ Truncate(it)
             /\ UNCHANGED <<dir, names, appliedOn>>
        BY <1>4, <2>3, TruncateFacts
  <2>4. CASE UNCHANGED <<dir, names, data, appliedOn>>
        BY <1>4, <2>4
  <2> QED
      BY <1>3, <2>1, <2>2, <2>3, <2>4
<1>6. ServerTypes'
      BY <1>1, <1>2, <1>5 DEF Types, ServerTypes
<1>7. UNCHANGED <<up, hpath, hfh, FdsUsed, buf, pc, call, rq, log, drops, calm, todo, res>>
      BY <1>1 DEF client
<1>8. ClientTypes'
      BY <1>5, <1>7 DEF Types, ClientTypes
<1>9. Items' = Items
      BY <1>7 DEF Items
<1>10. CallTypes'
      BY <1>7, <1>9 DEF Types, CallTypes
<1> QED
    BY <1>6, <1>8, <1>10 DEF Types

(* A torn write has the path and the descriptor number of the whole one,   *)
(* and does not reach further.                                             *)
LEMMA TornFacts ==
  ASSUME NEW it \in WriteItems, NEW t \in Torn(it)
  PROVE  /\ t \in WriteItems /\ t.path = it.path /\ t.fd = it.fd /\ t.off \in {0, it.off}
         /\ DOMAIN t.vals = DOMAIN it.vals /\ Len(t.vals) = Len(it.vals)
         /\ \A j \in DOMAIN t.vals : t.vals[j] = Garbage
         /\ IdsOf(t) = {}
<1> DEFINE vs == [j \in DOMAIN it.vals |-> Garbage]
           x == [it EXCEPT !.vals = vs]
           y == [x EXCEPT !.off = 0]
<1>1. it.vals \in Seq(Ids \cup {Garbage}) /\ it.off \in Offsets /\ 0 \in Offsets
      BY WriteBackAssumption DEF WriteItems, Offsets
<1>2. vs \in Seq(Ids \cup {Garbage}) /\ Len(vs) = Len(it.vals) /\ DOMAIN vs = DOMAIN it.vals
      /\ \A j \in DOMAIN vs : vs[j] = Garbage
      BY <1>1
<1>3. t = x \/ t = y
      BY DEF Torn
<1> HIDE DEF vs
<1>4. x \in WriteItems /\ x.path = it.path /\ x.fd = it.fd /\ x.off = it.off /\ x.vals = vs
      BY <1>2 DEF WriteItems
<1>5. y \in WriteItems /\ y.path = it.path /\ y.fd = it.fd /\ y.off = 0 /\ y.vals = vs
      BY <1>1, <1>2 DEF WriteItems
<1> HIDE DEF x, y
<1>6. /\ t \in WriteItems /\ t.path = it.path /\ t.fd = it.fd /\ t.off \in {0, it.off}
      /\ t.vals = vs
      BY <1>3, <1>4, <1>5
<1>7. Garbage \notin Ids
      BY WriteBackAssumption
<1>8. IdsOf(t) = {}
      BY <1>2, <1>6, <1>7 DEF IdsOf, ToSet
<1> QED
    BY <1>2, <1>6, <1>8

(* What arrives of a request of writes is a part of it, of which the last  *)
(* write may be torn; of another one, all or nothing.                      *)
LEMMA ArrivedFacts ==
  ASSUME NEW s \in Reqs, NEW a \in Arrived(s)
  PROVE  /\ Lingers(a) \in Reqs
         /\ s \in Seq(WriteItems) =>
              /\ Lingers(a) = a /\ a \in Seq(WriteItems)
              /\ \A k \in DOMAIN a : /\ k \in DOMAIN s
                                     /\ a[k] = s[k] \/ a[k] \in Torn(s[k])
         /\ s \notin Seq(WriteItems) => Lingers(a) = <<>> \/ Lingers(a) = s
<1>1. <<>> \in Reqs
      BY DEF Reqs
<1>2. \/ \E n \in 0..Len(s) : a = SubSeq(s, 1, n)
      \/ \E n \in DOMAIN s : s[n].k = "write" /\ \E t \in Torn(s[n]) : a = Append(SubSeq(s, 1, n - 1), t)
      BY DEF Arrived
<1>3. CASE s \in Seq(WriteItems)
  <2>1. Len(s) \in Nat /\ DOMAIN s = 1..Len(s)
        BY <1>3
  <2>2. a \in Seq(WriteItems) /\ \A k \in DOMAIN a : k \in DOMAIN s /\ (a[k] = s[k] \/ a[k] \in Torn(s[k]))
    <3>1. CASE \E n \in 0..Len(s) : a = SubSeq(s, 1, n)
          BY <1>3, <2>1, <3>1
    <3>2. CASE \E n \in DOMAIN s : \E t \in Torn(s[n]) : a = Append(SubSeq(s, 1, n - 1), t)
      <4>0. PICK n \in DOMAIN s : \E t \in Torn(s[n]) : a = Append(SubSeq(s, 1, n - 1), t)
            BY <3>2
      <4>1. PICK t \in Torn(s[n]) : a = Append(SubSeq(s, 1, n - 1), t)
            BY <4>0
      <4> DEFINE b == SubSeq(s, 1, n - 1)
      <4>2. b \in Seq(WriteItems) /\ Len(b) = n - 1 /\ \A k \in DOMAIN b : k \in DOMAIN s /\ b[k] = s[k]
            BY <1>3, <2>1
      <4>3. s[n] \in WriteItems
            BY <1>3
      <4>4. t \in WriteItems
            BY <4>3, TornFacts
      <4> HIDE DEF b
      <4>5. /\ a \in Seq(WriteItems) /\ a[Len(b) + 1] = t
            /\ \A k \in DOMAIN b : a[k] = b[k]
            /\ \A k \in DOMAIN a : k \in DOMAIN b \/ k = Len(b) + 1
            BY <4>1, <4>2, <4>4, AppendFacts DEF b
      <4>6. Len(b) + 1 = n
            BY <2>1, <4>2
      <4> QED
          BY <4>2, <4>5, <4>6
    <3> QED
        BY <1>2, <3>1, <3>2
  <2>3. Lingers(a) = a
    <3>1. CASE a = <<>>
          BY <3>1 DEF Lingers
    <3>2. CASE a # <<>>
      <4>1. Head(a) \in WriteItems
            BY <2>2, <3>2, TailFacts
      <4>2. Head(a).k = "write"
            BY <4>1 DEF WriteItems
      <4> QED
          BY <4>2 DEF Lingers
    <3> QED
        BY <3>1, <3>2
  <2> QED
      BY <1>3, <2>2, <2>3 DEF Reqs
<1>4. CASE s \notin Seq(WriteItems)
  <2>1. PICK it \in Ops : s = <<it>>
        BY <1>4 DEF Reqs
  <2>2. it.k # "write"
        BY DEF Ops
  <2>3. Len(s) = 1 /\ s[1] = it /\ DOMAIN s = {1}
        BY <2>1
  <2>4. PICK n \in 0..1 : a = SubSeq(s, 1, n)
        BY <1>2, <2>2, <2>3
  <2>5. SubSeq(s, 1, 0) = <<>> /\ SubSeq(s, 1, 1) = s
    <3>1. s \in Seq(Ops)
          BY <2>1
    <3>2. SubSeq(s, 1, 0) \in Seq(Ops) /\ Len(SubSeq(s, 1, 0)) = 0
          BY <3>1
    <3>3. /\ SubSeq(s, 1, 1) \in Seq(Ops) /\ Len(SubSeq(s, 1, 1)) = 1
          /\ SubSeq(s, 1, 1)[1] = s[1]
          BY <2>3, <3>1
    <3>4. \A x, y \in Seq(Ops) : Len(x) = 1 /\ Len(y) = 1 /\ x[1] = y[1] => x = y
          OBVIOUS
    <3> QED
        BY <2>3, <3>1, <3>2, <3>3, <3>4
  <2>6. a = <<>> \/ a = s
        BY <2>4, <2>5
  <2>7. Lingers(a) = <<>> \/ Lingers(a) = s
        BY <2>6 DEF Lingers
  <2> QED
      BY <1>1, <1>4, <2>7
<1> QED
    BY <1>3, <1>4

LEMMA DropTypes == Types /\ Drop => Types'
<1> SUFFICES ASSUME Types, Drop PROVE Types'
    OBVIOUS
<1>1. /\ up' = FALSE /\ drops' = drops + 1 /\ calm' = FALSE /\ todo' = <<>> /\ fds' = NoFds
      /\ UNCHANGED <<dir, data, hpath, hfh, FdsUsed, buf, pc, call, rq, log, appliedOn, names>>
      /\ (todo = <<>> /\ UNCHANGED res) \/ res' = 0
      BY DEF Drop
<1>2. PICK s \in Arrived(todo) :
        late' = IF Lingers(s) = <<>> THEN late
                ELSE Append(late, [fds |-> fds, conn |-> drops + 1, todo |-> Lingers(s)])
      BY DEF Drop
<1>3. todo \in Reqs /\ late \in Seq(Late) /\ fds \in Table /\ drops \in Nat /\ res \in {Error} \cup Nat
      BY DEF Types, ServerTypes, ClientTypes
<1>4. Lingers(s) \in Reqs
      BY <1>3, ArrivedFacts
<1>5. late' \in Seq(Late)
  <2>1. CASE Lingers(s) = <<>>
        BY <1>2, <1>3, <2>1
  <2>2. CASE Lingers(s) # <<>>
    <3> DEFINE x == [fds |-> fds, conn |-> drops + 1, todo |-> Lingers(s)]
    <3>1. x \in Late
          BY <1>3, <1>4, <2>2 DEF Late
    <3>2. late' = Append(late, x)
          BY <1>2, <2>2
    <3> HIDE DEF x
    <3> QED
        BY <1>3, <3>1, <3>2, AppendFacts
  <2> QED
      BY <2>1, <2>2
<1>6. NoFds \in Table /\ <<>> \in Reqs /\ <<>> \in Seq(WriteItems)
      BY DEF NoFds, Table, Inode, Reqs
<1>7. res' \in {Error} \cup Nat
      BY <1>1, <1>3
<1>8. ServerTypes'
      BY <1>1, <1>5, <1>6, <1>7 DEF Types, ServerTypes
<1>9. ClientTypes'
  <2>1. drops' \in Nat
        BY <1>1, <1>3
  <2>2. up' \in BOOLEAN
        BY <1>1
  <2>3. calm' \in BOOLEAN
        BY <1>1
  <2> QED
      BY <1>1, <2>1, <2>2, <2>3 DEF Types, ClientTypes
<1>10. CallTypes'
      BY <1>1, <1>6, WriteBackAssumption DEF Types, CallTypes
<1> QED
    BY <1>8, <1>9, <1>10 DEF Types

LEMMA OtherFacts ==
  ASSUME Types, Others
  PROVE  /\ dir' \in [Paths -> Inode] /\ names' \in [Inodes -> SUBSET Paths]
         /\ \A j \in Inodes : names[j] \subseteq names'[j]
         /\ \A x \in Paths : dir'[x] = None \/ dir'[x] = dir[x] \/ x \in names'[dir'[x]]
         /\ calm' = FALSE
         /\ UNCHANGED <<data, fds, todo, res, late, client, log, acked, appliedOn, seen, cuts, drops>>
<1>1. dir \in [Paths -> Inode] /\ names \in [Inodes -> SUBSET Paths]
      BY DEF Types, ServerTypes
<1>2. ASSUME NEW p \in Paths, NEW q \in Paths, OtherRename(p, q)
      PROVE  /\ dir' \in [Paths -> Inode] /\ names' \in [Inodes -> SUBSET Paths]
             /\ \A j \in Inodes : names[j] \subseteq names'[j]
             /\ \A x \in Paths : dir'[x] = None \/ dir'[x] = dir[x] \/ x \in names'[dir'[x]]
             /\ Other
      BY <1>2, MoveFacts DEF OtherRename
<1>3. ASSUME NEW p \in Paths, OtherUnlink(p)
      PROVE  /\ dir' \in [Paths -> Inode] /\ names' = names
             /\ \A x \in Paths : dir'[x] = None \/ dir'[x] = dir[x]
             /\ Other
      BY <1>1, <1>3 DEF OtherUnlink, Inode
<1>4. ASSUME NEW p \in Paths, NEW i \in Inodes, OtherMknod(p, i)
      PROVE  /\ dir' \in [Paths -> Inode] /\ names' \in [Inodes -> SUBSET Paths]
             /\ \A j \in Inodes : names[j] \subseteq names'[j]
             /\ \A x \in Paths : dir'[x] = dir[x] \/ x \in names'[dir'[x]]
             /\ Other
      BY <1>1, <1>4 DEF OtherMknod, Inode
<1>5. Other => /\ calm' = FALSE
               /\ UNCHANGED <<data, fds, todo, res, late, client, log, acked, appliedOn, seen, cuts, drops>>
      BY DEF Other, looks
<1> QED
    BY <1>1, <1>2, <1>3, <1>4, <1>5 DEF Others

LEMMA OtherTypes == Types /\ Others => Types'
<1> SUFFICES ASSUME Types, Others PROVE Types'
    OBVIOUS
<1>1. dir' \in [Paths -> Inode] /\ names' \in [Inodes -> SUBSET Paths]
      BY OtherFacts
<1>2. calm' = FALSE /\ UNCHANGED <<data, fds, todo, res, late, client, log, appliedOn, drops>>
      BY OtherFacts
<1>3. ServerTypes'
      BY <1>1, <1>2 DEF Types, ServerTypes
<1>4. UNCHANGED <<up, hpath, hfh, FdsUsed, buf, pc, call, rq, log, appliedOn, drops, todo, res>>
      BY <1>2 DEF client
<1>5. ClientTypes'
      BY <1>2, <1>4 DEF Types, ClientTypes
<1>6. Items' = Items
      BY <1>4 DEF Items
<1>7. CallTypes'
      BY <1>4, <1>6 DEF Types, CallTypes
<1> QED
    BY <1>3, <1>5, <1>7 DEF Types

LEMMA StutterTypes == Types /\ UNCHANGED vars => Types'
<1> SUFFICES ASSUME Types, UNCHANGED vars PROVE Types'
    OBVIOUS
<1>1. UNCHANGED <<server, names>>
      BY DEF vars, ghost
<1>2. ServerTypes'
      BY <1>1, ServerKept DEF Types
<1>3. UNCHANGED <<up, hpath, hfh, FdsUsed, buf, pc, call, rq, log, appliedOn, drops, calm, todo, res>>
      BY DEF vars, ghost, client, server
<1>4. ClientTypes'
      BY <1>3 DEF Types, ClientTypes
<1>5. Items' = Items
      BY <1>3 DEF Items
<1>6. CallTypes'
      BY <1>3, <1>5 DEF Types, CallTypes
<1> QED
    BY <1>2, <1>4, <1>6 DEF Types

(* The steps, by what they have in common.                                 *)
LEMMA Steps ==
  Next <=> \/ QuietCall
           \/ \E h \in Handles, o \in Offsets, s \in 1..MaxSize : FsWriteDirect(h, o, s)
           \/ \E h \in Handles, o \in Offsets, s \in 1..MaxSize : FsWriteBuffered(h, o, s)
           \/ InitSocket \/ SendArguments
           \/ InitSocketFails \/ NoOk \/ NoResult \/ ReadResult
           \/ Serve
           \/ \E n \in DOMAIN late : ServeLate(n)
           \/ Drop
           \/ Others
  BY DEF Next, QuietCall, Others, Serve

LEMMA NextTypes == Types /\ [Next]_vars => Types'
  BY Steps, QuietStart, DirectTypes, BufferedTypes, InitSocketTypes, SendTypes, RequestTypes,
     ServeTypes, LateTypes, DropTypes, OtherTypes, StutterTypes

-----------------------------------------------------------------------------
(* The order of the writes                                                 *)

(* Another write is called.                                                *)
LEMMA ItemStays ==
  ASSUME NEW L, NEW M, \A n \in DOMAIN L : n \in DOMAIN M /\ M[n] = L[n],
         NEW it, ItemOK(it, L)
  PROVE  ItemOK(it, M) /\ (Whole(it, L) => Whole(it, M))
<1>1. \A n \in IdsOf(it) : n \in DOMAIN L /\ M[n] = L[n]
      BY DEF ItemOK
<1>2. ItemOK(it, M)
      BY <1>1 DEF ItemOK
<1>3. ASSUME Whole(it, L) PROVE Whole(it, M)
      BY <1>1, <1>3 DEF Whole
<1> QED
    BY <1>2, <1>3

LEMMA QueueStays ==
  ASSUME NEW L, NEW M, \A n \in DOMAIN L : n \in DOMAIN M /\ M[n] = L[n],
         NEW A, NEW c, c # 0, \A n \in DOMAIN M : n \notin DOMAIN L => A[n] = 0,
         NEW s, Queue(s, c, L, A)
  PROVE  Queue(s, c, M, A)
<1>1. \A j \in DOMAIN s : ItemOK(s[j], L)
      BY DEF Queue
<1>2. \A j \in DOMAIN s : ItemOK(s[j], M)
      BY <1>1, ItemStays
<1>3. AfterRun(s, c, M, A)
      BY DEF Queue, AfterRun
<1> QED
    BY <1>2, <1>3 DEF Queue

(* The worker of connection d, another one, runs writes.                   *)
LEMMA QueueOther ==
  ASSUME NEW L, NEW A, NEW B, NEW c, NEW s, Queue(s, c, L, A),
         \A m \in DOMAIN L : B[m] = c => A[m] = c
  PROVE  Queue(s, c, L, B)
  BY DEF Queue, AfterRun

(* The worker runs the first request of its queue.                         *)
LEMMA QueueTail ==
  ASSUME NEW L, NEW A, NEW B, NEW c, NEW s \in Seq(WriteItems), s # <<>>, Queue(s, c, L, A),
         \A m \in DOMAIN L : B[m] = c => A[m] = c \/ m \in IdsOf(Head(s))
  PROVE  Queue(Tail(s), c, L, B)
<1>1. /\ Head(s) = s[1] /\ 1 \in DOMAIN s /\ DOMAIN s = 1..Len(s) /\ DOMAIN Tail(s) \subseteq Nat \ {0}
      /\ \A k \in DOMAIN Tail(s) : k + 1 \in DOMAIN s /\ Tail(s)[k] = s[k + 1]
  <2>1. Tail(s) \in Seq(WriteItems)
        BY TailFacts
  <2>2. DOMAIN Tail(s) \subseteq Nat \ {0}
        BY <2>1
  <2> QED
      BY <2>2, TailFacts
<1>2. Ascending(Tail(s))
  <2> SUFFICES ASSUME NEW j \in DOMAIN Tail(s), NEW k \in DOMAIN Tail(s), j < k
               PROVE  \A a \in IdsOf(Tail(s)[j]), b \in IdsOf(Tail(s)[k]) : a < b
      BY DEF Ascending
  <2>1. j + 1 < k + 1
        BY <1>1
  <2> QED
      BY <1>1, <2>1 DEF Queue, Ascending
<1>3. AfterRun(Tail(s), c, L, B)
  <2> SUFFICES ASSUME NEW j \in DOMAIN Tail(s), NEW n \in IdsOf(Tail(s)[j]), NEW m \in DOMAIN L,
                      B[m] = c, L[m].fd = Tail(s)[j].fd
               PROVE  m < n
      BY DEF AfterRun
  <2>1. j + 1 \in DOMAIN s /\ Tail(s)[j] = s[j + 1] /\ 1 < j + 1
        BY <1>1
  <2>2. CASE A[m] = c
        BY <2>1, <2>2 DEF Queue, AfterRun
  <2>3. CASE m \in IdsOf(Head(s))
        BY <1>1, <2>1, <2>3 DEF Queue, Ascending
  <2> QED
      BY <2>2, <2>3
<1> QED
    BY <1>1, <1>2, <1>3 DEF Queue

LEMMA IdsInTail ==
  ASSUME NEW s \in Seq(WriteItems), s # <<>>
  PROVE  IdsIn(Tail(s)) \subseteq IdsIn(s) /\ IdsOf(Head(s)) \subseteq IdsIn(s)
<1>1. /\ Head(s) = s[1] /\ 1 \in DOMAIN s
      /\ \A k \in DOMAIN Tail(s) : k + 1 \in DOMAIN s /\ Tail(s)[k] = s[k + 1]
      BY TailFacts
<1>2. IdsOf(Head(s)) \subseteq Ids
      BY DEF IdsOf
<1> QED
    BY <1>1, <1>2 DEF IdsIn

LEMMA NoIds == IdsIn(<<>>) = {} /\ \A it \in Ops : IdsIn(<<it>>) = {}
<1>1. \A it \in Ops : <<it>> \notin Seq(WriteItems)
  <2> SUFFICES ASSUME NEW it \in Ops PROVE <<it>> \notin Seq(WriteItems)
      OBVIOUS
  <2>1. <<it>> \in Reqs /\ <<it>> # <<>> /\ Head(<<it>>) = it
        BY DEF Reqs
  <2>2. it.k # "write"
        BY DEF Ops
  <2> QED
      BY <2>1, <2>2, ReqFacts
<1> QED
    BY <1>1 DEF IdsIn

(* The ids of a request that is queued have been given out.                *)
LEMMA QueuedIds ==
  ASSUME NEW L, NEW A, NEW c, NEW s, s \in Seq(WriteItems) => Queue(s, c, L, A)
  PROVE  IdsIn(s) \subseteq DOMAIN L
  BY DEF IdsIn, Queue, ItemOK

(* Only pc and rq change: a call begins, or its socket is ready.           *)
LEMMA OrderFrame ==
  ASSUME Types, Order, UNCHANGED <<log, buf, FdsUsed, appliedOn, todo, late, drops>>,
         Flushing' <=> Flushing, rq' = "write" => rq = "write",
         rq' = "write" /\ pc' \in {"init", "sent"} => pc \in {"init", "sent"}
  PROVE  Order'
<1>1. Buffer'
      BY DEF Order, Buffer, Waiting
<1>2. Waiting' = Waiting /\ Run' = Run /\ InFlight' = InFlight
      BY DEF Waiting, Run, InFlight
<1>3. Unsent'
      BY <1>2 DEF Order, Unsent
<1>4. Queues'
      BY DEF Order, Queues
<1> QED
    BY <1>1, <1>3, <1>4 DEF Order

LEMMA InitOrder == Init => Order
<1> SUFFICES ASSUME Init PROVE Order
    OBVIOUS
<1>1. buf = <<>> /\ todo = <<>> /\ late = <<>> /\ drops = 0 /\ rq = "none" /\ DOMAIN <<>> = {}
      /\ appliedOn = [n \in Ids |-> 0] /\ log = <<>>
      BY DEF Init
<1>2. IdsIn(<<>>) = {}
      BY NoIds
<1>3. Buffer
      BY <1>1, <1>2 DEF Buffer, Ascending, Waiting
<1>4. Unsent
      BY <1>1, <1>2 DEF Unsent, Waiting
<1>5. Queues
      BY <1>1 DEF Queues, Queue, Ascending, AfterRun
<1> QED
    BY <1>3, <1>4, <1>5 DEF Order

(* A write is called: what was true of the queues stays true.              *)
LEMMA QueuesGrow ==
  ASSUME Types, Queues, UNCHANGED <<appliedOn, todo, late, drops>>,
         \A n \in DOMAIN log : n \in DOMAIN log' /\ log'[n] = log[n],
         DOMAIN log' = 1..Len(log'), Len(log') \in Nat, Len(log') <= MaxWrites
  PROVE  /\ Queues' /\ InFlight' = InFlight /\ Run' = Run
         /\ InFlight \cup Run \subseteq DOMAIN log
<1>1. drops \in Nat /\ \A k \in DOMAIN late : late[k].conn \in Nat \ {0}
      BY LateType DEF Types, ClientTypes
<1>2. \A n \in DOMAIN log' : n \notin DOMAIN log => appliedOn[n] = 0
  <2>1. \A n \in DOMAIN log' : n \in Ids
        BY WriteBackAssumption DEF Ids
  <2> QED
      BY <2>1 DEF Queues
<1>3. todo \in Seq(WriteItems) => /\ Queue(todo, drops + 1, log', appliedOn)
                                  /\ \A j \in DOMAIN todo : Whole(todo[j], log')
  <2> SUFFICES ASSUME todo \in Seq(WriteItems)
               PROVE  /\ Queue(todo, drops + 1, log', appliedOn)
                      /\ \A j \in DOMAIN todo : Whole(todo[j], log')
      OBVIOUS
  <2>1. Queue(todo, drops + 1, log, appliedOn) /\ \A j \in DOMAIN todo : Whole(todo[j], log)
        BY DEF Queues
  <2>2. drops + 1 # 0
        BY <1>1
  <2>3. Queue(todo, drops + 1, log', appliedOn)
        BY <1>2, <2>1, <2>2, QueueStays
  <2>4. \A j \in DOMAIN todo : Whole(todo[j], log')
        BY <2>1, ItemStays DEF Queue
  <2> QED
      BY <2>3, <2>4
<1>4. \A k \in DOMAIN late : late[k].todo \in Seq(WriteItems) =>
                               Queue(late[k].todo, late[k].conn, log', appliedOn)
      BY <1>1, <1>2, QueueStays DEF Queues
<1>5. \A n \in Ids : n \notin DOMAIN log' => appliedOn[n] = 0
      BY DEF Queues
<1>6. Queues'
      BY <1>3, <1>4, <1>5 DEF Queues
<1>7. InFlight \subseteq DOMAIN log
      BY QueuedIds DEF InFlight, Queues
<1>8. Run \subseteq DOMAIN log
      BY DEF Run, Queues
<1> QED
    BY <1>6, <1>7, <1>8 DEF InFlight, Run

LEMMA BufferedIds == Buffer => Waiting \subseteq DOMAIN log
  BY DEF Buffer, Waiting, IdsIn, ItemOK

LEMMA DirectOrder ==
  ASSUME Types, Order, NEW h \in Handles, NEW o \in Offsets, NEW s \in 1..MaxSize,
         FsWriteDirect(h, o, s)
  PROVE  Order'
<1> DEFINE n == Len(log) + 1
           f == hfh[h]
           x == Entry(h, o, s, FALSE)
<1>1. /\ pc = "idle" /\ hpath[h] # None /\ Room("writes") /\ f \notin FdsUsed
      /\ FdsUsed' = FdsUsed \cup {f} /\ log' = Append(log, x)
      /\ UNCHANGED <<server, buf, appliedOn, drops>>
      /\ pc' = "init" /\ rq' = "write"
      BY DEF FsWriteDirect, Start
<1>2. x \in Entries /\ x.fd = f
      BY <1>1, EntryType
<1> HIDE DEF x
<1>3. /\ Len(log') = n /\ n \in Ids /\ log'[n] = x /\ DOMAIN log = 1..Len(log) /\ DOMAIN log' = 1..n
      /\ n <= MaxWrites /\ Len(log) \in Nat /\ n \in Nat
      /\ \A m \in DOMAIN log : m \in DOMAIN log' /\ log'[m] = log[m]
      BY <1>1, <1>2, LogGrows
<1>4. UNCHANGED <<todo, late>>
      BY <1>1 DEF server
<1>5. Queues' /\ InFlight' = InFlight /\ Run' = Run /\ InFlight \cup Run \subseteq DOMAIN log
      BY <1>1, <1>3, <1>4, QueuesGrow DEF Order
<1>6. Waiting' = Waiting /\ Waiting \subseteq DOMAIN log
      BY <1>1, BufferedIds DEF Waiting, Order
<1>7. n \notin DOMAIN log
      BY <1>3
<1>8. Buffer'
  <2>1. Ascending(buf')
        BY <1>1 DEF Order, Buffer
  <2>2. \A k \in DOMAIN buf' : ItemOK(buf[k], log') /\ Whole(buf[k], log') /\ buf[k].fd \in FdsUsed'
        BY <1>1, <1>3, ItemStays DEF Order, Buffer
  <2>3. ASSUME NEW w \in Waiting, NEW m \in DOMAIN log', log'[m].fd = log'[w].fd, m >= w
        PROVE  m \in Waiting
    <3>1. PICK k \in DOMAIN buf : w \in IdsOf(buf[k])
          BY DEF Waiting, IdsIn
    <3>2. log[w].fd = buf[k].fd /\ buf[k].fd \in FdsUsed /\ w \in DOMAIN log
          BY <3>1 DEF Order, Buffer, ItemOK
    <3>3. log'[w] = log[w]
          BY <1>3, <3>2
    <3>4. m # n
          BY <1>1, <1>2, <1>3, <2>3, <3>2, <3>3
    <3>5. m \in DOMAIN log /\ log'[m] = log[m]
          BY <1>3, <3>4
    <3> QED
        BY <2>3, <3>3, <3>5 DEF Order, Buffer
  <2> QED
      BY <1>1, <1>6, <2>1, <2>2, <2>3 DEF Buffer
<1>9. Unsent'
  <2>1. ~Flushing
        BY <1>1 DEF Flushing
  <2>2. Waiting \cap (Run \cup InFlight) = {}
        BY <2>1 DEF Order, Unsent
  <2> QED
      BY <1>3, <1>5, <1>6, <1>7, <2>2 DEF Unsent
<1> QED
    BY <1>5, <1>8, <1>9 DEF Order

(* x is the request it with another write, the n-th, at its end.           *)
Combines(L, M, n, it, x) ==
  /\ M \in Seq(Entries) /\ n \in Ids /\ n \in DOMAIN M /\ n \notin DOMAIN L
  /\ \A m \in DOMAIN L : m \in DOMAIN M /\ M[m] = L[m] /\ m < n
  /\ it \in WriteItems /\ ItemOK(it, L) /\ Whole(it, L)
  /\ M[n].fd = it.fd /\ it.off + Len(it.vals) = M[n].off
  /\ x \in WriteItems /\ x.fd = it.fd /\ x.path = it.path /\ x.off = it.off
  /\ \E vs \in Seq(Ids) : /\ Len(vs) = M[n].size /\ \A j \in 1..Len(vs) : vs[j] = n
                          /\ x.vals = it.vals \o vs

LEMMA CombinedOK ==
  ASSUME NEW L, NEW M, NEW n, NEW it, NEW x, Combines(L, M, n, it, x)
  PROVE  ItemOK(x, M) /\ Whole(x, M) /\ IdsOf(x) = IdsOf(it) \cup {n}
<1> M \in Seq(Entries) /\ n \in Ids /\ n \in DOMAIN M /\ n \notin DOMAIN L
    BY DEF Combines
<1> \A m \in DOMAIN L : m \in DOMAIN M /\ M[m] = L[m] /\ m < n
    BY DEF Combines
<1> it \in WriteItems /\ ItemOK(it, L) /\ Whole(it, L)
    BY DEF Combines
<1> M[n].fd = it.fd /\ it.off + Len(it.vals) = M[n].off
    BY DEF Combines
<1> x \in WriteItems /\ x.fd = it.fd /\ x.path = it.path /\ x.off = it.off
    BY DEF Combines
<1>0. PICK vs \in Seq(Ids) : /\ Len(vs) = M[n].size /\ \A j \in 1..Len(vs) : vs[j] = n
                           /\ x.vals = it.vals \o vs
      BY DEF Combines
<1> DEFINE a == it.vals
           s == M[n].size
<1>1. /\ M[n].off \in Nat /\ s \in Nat /\ 1 \in 1..s
  <2>1. M[n] \in Entries
        OBVIOUS
  <2>2. M[n].off \in Nat /\ s \in Nat /\ s >= 1
        BY <2>1, EntryFacts
  <2> QED
      BY <2>2
<1>2. /\ a \in Seq(Ids \cup {Garbage}) /\ Len(a) \in Nat /\ DOMAIN a = 1..Len(a)
      /\ IdsOf(it) = {a[j] : j \in DOMAIN a} \cap Ids
      BY ItemFacts
<1>3. vs \in Seq(Ids \cup {Garbage}) /\ it.off \in Nat
      BY ItemFacts, WriteBackAssumption DEF Offsets
<1>x. x.vals = a \o vs /\ Len(vs) = s /\ it.off + Len(a) = M[n].off
      BY <1>0
<1> HIDE DEF a, s
<1>4. /\ Len(x.vals) = Len(a) + s /\ DOMAIN x.vals = 1..(Len(a) + s)
      /\ \A j \in 1..Len(a) : x.vals[j] = a[j] /\ j \in 1..(Len(a) + s)
      /\ \A j \in 1..(Len(a) + s) : j \in 1..Len(a) \/ x.vals[j] = n
      /\ \A j \in 1..(Len(a) + s) : j > Len(a) => x.vals[j] = n
  <2>1. /\ Len(a \o vs) = Len(a) + Len(vs) /\ DOMAIN (a \o vs) = 1..(Len(a) + Len(vs))
        /\ \A j \in 1..Len(a) : (a \o vs)[j] = a[j] /\ j \in 1..(Len(a) + Len(vs))
        /\ \A j \in 1..(Len(a) + Len(vs)) : j \in 1..Len(a) \/ (a \o vs)[j] = n
        /\ \A j \in 1..(Len(a) + Len(vs)) : j > Len(a) => (a \o vs)[j] = n
    <3>1. \A j \in 1..Len(vs) : vs[j] = n
          BY <1>0
    <3> QED
        BY ONLY <1>2, <1>3, <3>1, ExtendFacts
  <2> QED
      BY <1>x, <2>1
<1>5. Len(a) + 1 \in 1..(Len(a) + s) /\ Len(a) + 1 > Len(a)
      BY <1>1, <1>2
<1>6. IdsOf(x) = IdsOf(it) \cup {n}
  <2>1. IdsOf(x) = {x.vals[j] : j \in 1..(Len(a) + s)} \cap Ids
        BY <1>4, ItemFacts
  <2>2. ASSUME NEW w \in IdsOf(x) PROVE w \in IdsOf(it) \cup {n}
    <3>1. PICK j \in 1..(Len(a) + s) : w = x.vals[j] /\ w \in Ids
          BY <2>1
    <3>2. j \in 1..Len(a) => w = a[j]
          BY <1>4, <3>1
    <3> QED
        BY <1>2, <1>4, <3>1, <3>2
  <2>3. ASSUME NEW w \in IdsOf(it) PROVE w \in IdsOf(x)
    <3>1. PICK j \in 1..Len(a) : w = a[j] /\ w \in Ids
          BY <1>2
    <3> QED
        BY <1>4, <2>1, <3>1
  <2>4. n \in IdsOf(x)
        BY <1>4, <1>5, <2>1
  <2> QED
      BY <2>2, <2>3, <2>4
<1>7. ItemOK(it, M) /\ Whole(it, M)
      BY ItemStays
<1>8. \A m \in IdsOf(it) : m \in DOMAIN L
      BY DEF ItemOK
<1>9. ItemOK(x, M)
  <2>1. \A m \in IdsOf(x) : m \in DOMAIN M /\ M[m].fd = x.fd
        BY <1>6, <1>7 DEF ItemOK
  <2>2. PICK m \in DOMAIN L : L[m].path = it.path /\ L[m].fd = it.fd /\ \A w \in IdsOf(it) : m <= w
        BY DEF ItemOK
  <2>3. m \in DOMAIN M /\ M[m].path = x.path /\ M[m].fd = x.fd /\ m < n
        BY <2>2
  <2>4. m \in Nat /\ n \in Nat
        BY <2>3, WriteBackAssumption DEF Ids
  <2>5. \A w \in IdsOf(x) : m <= w
        BY <1>6, <2>2, <2>3, <2>4
  <2>6. x.off + Len(x.vals) <= M[n].off + M[n].size
        BY <1>1, <1>2, <1>3, <1>4, <1>x DEF s
  <2> QED
      BY <2>1, <2>3, <2>5, <2>6 DEF ItemOK
<1>10. Whole(x, M)
  <2>1. ASSUME NEW j \in DOMAIN x.vals PROVE x.vals[j] \in Ids
    <3>1. CASE j \in 1..Len(a)
          BY <1>2, <1>4, <3>1 DEF Whole, a
    <3> QED
        BY <1>4, <3>1
  <2>2. ASSUME NEW w \in IdsOf(x), NEW o \in M[w].off .. M[w].off + M[w].size - 1
        PROVE  o - x.off + 1 \in 1..Len(x.vals) /\ x.vals[o - x.off + 1] = w
    <3>1. CASE w \in IdsOf(it)
      <4>1. o - it.off + 1 \in 1..Len(a) /\ a[o - it.off + 1] = w
            BY <1>7, <3>1 DEF Whole, a
      <4> QED
          BY <1>4, <4>1
    <3>2. CASE w = n
      <4>0. o \in it.off + Len(a) .. it.off + Len(a) + s - 1
            BY <1>x, <3>2 DEF s
      <4>1. o - it.off + 1 \in 1..(Len(a) + s) /\ o - it.off + 1 > Len(a)
            BY <1>1, <1>2, <1>3, <4>0, PlaceFacts
      <4> QED
          BY <1>4, <3>2, <4>1
    <3> QED
        BY <1>6, <3>1, <3>2
  <2> QED
      BY <2>1, <2>2 DEF Whole
<1> QED
    BY <1>6, <1>9, <1>10

(* A request of one write.                                                 *)
LEMMA SingleOK ==
  ASSUME NEW M \in Seq(Entries), NEW n \in DOMAIN M, n \in Ids,
         NEW x \in WriteItems, x = WriteItem(M[n].path, M[n].fd, M[n].off, [j \in 1..M[n].size |-> n])
  PROVE  ItemOK(x, M) /\ Whole(x, M) /\ IdsOf(x) = {n} /\ x.fd = M[n].fd /\ x.path = M[n].path
<1> DEFINE s == M[n].size
<1>1. /\ M[n].off \in Nat /\ s \in Nat /\ 1 \in 1..s /\ n \in Nat
  <2>1. M[n] \in Entries
        OBVIOUS
  <2>2. M[n].off \in Nat /\ s \in Nat /\ s >= 1
        BY <2>1, EntryFacts
  <2>3. n \in Nat
        BY WriteBackAssumption DEF Ids
  <2> QED
      BY <2>2, <2>3
<1>2. /\ x.fd = M[n].fd /\ x.path = M[n].path /\ x.off = M[n].off
      /\ x.vals = [j \in 1..s |-> n]
      BY DEF WriteItem
<1>3. DOMAIN x.vals = 1..s /\ Len(x.vals) = s /\ \A j \in 1..s : x.vals[j] = n
      BY <1>1, <1>2
<1>4. IdsOf(x) = {n}
      BY <1>1, <1>3 DEF IdsOf, ToSet
<1>5. ItemOK(x, M)
  <2>1. n <= n /\ x.off + Len(x.vals) <= M[n].off + M[n].size
        BY <1>1, <1>2, <1>3
  <2> QED
      BY <1>2, <1>4, <2>1 DEF ItemOK
<1>6. Whole(x, M)
  <2>1. \A o \in M[n].off .. M[n].off + s - 1 : o - x.off + 1 \in 1..s
        BY <1>1, <1>2
  <2> QED
      BY <1>3, <1>4, <2>1 DEF Whole
<1> QED
    BY <1>2, <1>4, <1>5, <1>6

(* The buffer after a write: the requests before the last are as they      *)
(* were, and the new write is in the last one.                             *)
LEMMA CombinedBuffer ==
  ASSUME Types, Order, NEW h \in Handles, NEW o \in Offsets, NEW s \in 1..MaxSize,
         FsWriteBuffered(h, o, s)
  PROVE  LET n == Len(log) + 1
             f == hfh[h]
             l == Len(buf')
         IN  /\ buf' \in Seq(WriteItems) /\ l \in 1..l /\ DOMAIN buf' = 1..l
             /\ n \in Ids /\ n \in DOMAIN log' /\ Len(log') = n /\ n \notin DOMAIN log
             /\ log'[n].fd = f /\ (f \in Fakes => log'[n].file = fds[f])
             /\ log' \in Seq(Entries)
             /\ \A m \in DOMAIN log : m \in DOMAIN log' /\ log'[m] = log[m] /\ m < n
             /\ \A m \in DOMAIN log' : m \in DOMAIN log \/ m = n
             /\ \A k \in 1..l : k # l => k \in DOMAIN buf /\ buf'[k] = buf[k]
             /\ ItemOK(buf'[l], log') /\ Whole(buf'[l], log') /\ buf'[l].fd = f
             /\ \/ IdsOf(buf'[l]) = {n} /\ l \notin DOMAIN buf /\ buf'[l].path = hpath[h]
                \/ /\ l \in DOMAIN buf /\ IdsOf(buf'[l]) = IdsOf(buf[l]) \cup {n}
                   /\ buf[l].fd = f /\ buf'[l].path = buf[l].path
             /\ \A k \in DOMAIN buf : k \in 1..l
<1> DEFINE n  == Len(log) + 1
           f  == hfh[h]
           p  == hpath[h]
           vs == [j \in 1..s |-> n]
           u  == h \in hnew
           x  == Entry(h, o, s, u)
           y  == WriteItem(p, f, o, vs)
<1>1. /\ hpath[h] # None /\ Room("writes") /\ log' = Append(log, x)
      /\ buf' = Combined(f, p, o, vs)
      BY DEF FsWriteBuffered
<1>2. /\ x \in Entries /\ x.fd = f /\ x.path = p /\ x.off = o /\ x.size = s
      /\ f \in Fakes => x.file = fds[f]
  <2>1. u \in BOOLEAN
        OBVIOUS
  <2> HIDE DEF u
  <2> QED
      BY <1>1, <2>1, EntryType
<1> HIDE DEF x
<1>3. /\ Len(log') = n /\ n \in Ids /\ log'[n] = x /\ DOMAIN log = 1..Len(log) /\ DOMAIN log' = 1..n
      /\ Len(log) \in Nat /\ n \in Nat /\ log' \in Seq(Entries)
      /\ \A m \in DOMAIN log : m \in DOMAIN log' /\ log'[m] = log[m]
      BY <1>1, <1>2, LogGrows
<1>4. f \in 0..MaxFake /\ p \in Paths /\ vs \in Seq(Ids)
  <2>1. s \in Nat
        BY WriteBackAssumption
  <2>2. vs \in Seq(Ids)
        BY <1>3, <2>1, ConstSeq
  <2> QED
      BY <1>1, <2>2 DEF Types, ClientTypes
<1>5. /\ n \in DOMAIN log' /\ n \notin DOMAIN log /\ \A m \in DOMAIN log : m < n
      /\ \A m \in DOMAIN log' : m \in DOMAIN log \/ m = n
      BY <1>3
<1>6. buf \in Seq(WriteItems) /\ Len(buf) \in Nat /\ DOMAIN buf = 1..Len(buf)
      BY DEF Types, ClientTypes
<1>7. /\ vs = [j \in 1..log'[n].size |-> n] /\ Len(vs) = log'[n].size
      /\ \A j \in 1..Len(vs) : vs[j] = n
  <2>1. s \in Nat /\ log'[n].size = s
        BY <1>2, <1>3, WriteBackAssumption
  <2>2. Len(vs) = s /\ \A j \in 1..s : vs[j] = n
        BY <1>3, <2>1, ConstSeq
  <2> QED
      BY <2>1, <2>2
<1> HIDE DEF vs
<1>8. CASE Continues(f, o)
  <2> DEFINE l == Len(buf)
  <2>1. /\ Len(buf') = l /\ l \in 1..l /\ buf' \in Seq(WriteItems)
        /\ \A k \in 1..l : k # l => buf'[k] = buf[k]
        /\ buf[l].fd = f /\ buf[l].off + Len(buf[l].vals) = o
        /\ buf'[l].fd = f /\ buf'[l].path = buf[l].path /\ buf'[l].off = buf[l].off
        /\ buf'[l].vals = buf[l].vals \o vs
        BY <1>1, <1>4, <1>8, CombinedFacts
  <2>2. buf[l] \in WriteItems /\ buf'[l] \in WriteItems /\ l \in DOMAIN buf
    <3>0. DOMAIN buf' = 1..Len(buf')
          BY <2>1
    <3>1. l \in DOMAIN buf /\ l \in DOMAIN buf'
          BY <1>6, <2>1, <3>0
    <3>2. \A b \in Seq(WriteItems) : \A k \in DOMAIN b : b[k] \in WriteItems
          OBVIOUS
    <3> QED
        BY <1>6, <2>1, <3>1, <3>2
  <2>3. ItemOK(buf[l], log) /\ Whole(buf[l], log)
        BY <2>2 DEF Order, Buffer
  <2>4. ItemOK(buf'[l], log') /\ Whole(buf'[l], log') /\ IdsOf(buf'[l]) = IdsOf(buf[l]) \cup {n}
    <3>1. log'[n].fd = buf[l].fd /\ buf[l].off + Len(buf[l].vals) = log'[n].off
          BY <1>2, <1>3, <2>1
    <3>2. /\ buf'[l].fd = buf[l].fd /\ buf'[l].path = buf[l].path /\ buf'[l].off = buf[l].off
          /\ buf'[l].vals = buf[l].vals \o vs
          BY <2>1
    <3>3. \A m \in DOMAIN log : m \in DOMAIN log' /\ log'[m] = log[m] /\ m < n
          BY <1>3, <1>5
    <3>4. log' \in Seq(Entries) /\ n \in Ids /\ n \in DOMAIN log' /\ n \notin DOMAIN log
          /\ vs \in Seq(Ids) /\ Len(vs) = log'[n].size /\ \A j \in 1..Len(vs) : vs[j] = n
          BY <1>3, <1>4, <1>5, <1>7
    <3> HIDE DEF n, l
    <3>5. Combines(log, log', n, buf[l], buf'[l])
          BY ONLY <2>2, <2>3, <3>1, <3>2, <3>3, <3>4 DEF Combines
    <3> QED
        BY ONLY <3>5, CombinedOK
  <2>5. DOMAIN buf' = 1..l
        BY <2>1
  <2> QED
      BY <1>2, <1>3, <1>5, <1>6, <2>1, <2>2, <2>4, <2>5
<1>9. CASE ~Continues(f, o)
  <2> DEFINE l == Len(buf) + 1
  <2>1. buf' = Append(buf, y) /\ y \in WriteItems
        BY <1>1, <1>4, <1>9, CombinedFacts
  <2>2. y = WriteItem(log'[n].path, log'[n].fd, log'[n].off, [j \in 1..log'[n].size |-> n])
        BY <1>2, <1>3, <1>7
  <2> HIDE DEF y
  <2>3. ItemOK(y, log') /\ Whole(y, log') /\ IdsOf(y) = {n} /\ y.fd = f /\ y.path = p
        BY <1>2, <1>3, <1>5, <2>1, <2>2, SingleOK
  <2>4. /\ buf' \in Seq(WriteItems) /\ Len(buf') = l /\ buf'[l] = y
        /\ \A k \in DOMAIN buf : k \in DOMAIN buf' /\ buf'[k] = buf[k]
        BY <1>6, <2>1, AppendFacts
  <2>5. /\ DOMAIN buf' = 1..l /\ l \in 1..l /\ l \notin DOMAIN buf
        /\ \A k \in 1..l : k # l => k \in DOMAIN buf
        /\ \A k \in DOMAIN buf : k \in 1..l
        BY <1>6, <2>4
  <2> QED
      BY <1>2, <1>3, <1>5, <2>3, <2>4, <2>5
<1> QED
    BY <1>8, <1>9

LEMMA BufferedOrder ==
  ASSUME Types, Order, NEW h \in Handles, NEW o \in Offsets, NEW s \in 1..MaxSize,
         FsWriteBuffered(h, o, s)
  PROVE  Order'
<1> DEFINE n == Len(log) + 1
           f == hfh[h]
           l == Len(buf')
<1>1. /\ pc = "idle" /\ f \in FdsUsed /\ UNCHANGED <<server, FdsUsed, appliedOn, drops>>
      /\ pc' \in {"idle", "init"} /\ rq' \in {rq, "bulk"}
      BY DEF FsWriteBuffered, Start
<1>2. /\ buf' \in Seq(WriteItems) /\ l \in 1..l /\ DOMAIN buf' = 1..l
      /\ n \in Ids /\ n \in DOMAIN log' /\ Len(log') = n /\ n \notin DOMAIN log
      /\ log'[n].fd = f /\ log' \in Seq(Entries)
      /\ \A m \in DOMAIN log : m \in DOMAIN log' /\ log'[m] = log[m] /\ m < n
      /\ \A m \in DOMAIN log' : m \in DOMAIN log \/ m = n
      /\ \A k \in 1..l : k # l => k \in DOMAIN buf /\ buf'[k] = buf[k]
      /\ ItemOK(buf'[l], log') /\ Whole(buf'[l], log') /\ buf'[l].fd = f
      /\ \/ IdsOf(buf'[l]) = {n}
         \/ l \in DOMAIN buf /\ IdsOf(buf'[l]) = IdsOf(buf[l]) \cup {n}
      /\ \/ l \notin DOMAIN buf
         \/ IdsOf(buf[l]) \subseteq IdsOf(buf'[l])
      /\ \A k \in DOMAIN buf : k \in 1..l
      BY CombinedBuffer
<1>3. buf \in Seq(WriteItems) /\ Len(log) \in Nat /\ rq = "none" /\ l \in Nat
  <2>1. \A b \in Seq(WriteItems) : Len(b) \in Nat
        OBVIOUS
  <2>2. l \in Nat
        BY <1>2, <2>1
  <2> QED
      BY <1>1, <2>2 DEF Types, ClientTypes, CallTypes
<1> HIDE DEF n, l
<1>4. Waiting' = Waiting \cup {n}
  <2>1. ASSUME NEW w \in Waiting' PROVE w \in Waiting \cup {n}
    <3>1. PICK k \in 1..l : w \in IdsOf(buf'[k]) /\ w \in Ids
          BY <1>2, <2>1 DEF Waiting, IdsIn
    <3>2. CASE k = l
          BY <1>2, <1>3, <3>1, <3>2 DEF Waiting, IdsIn
    <3>3. CASE k # l
          BY <1>2, <1>3, <3>1, <3>3 DEF Waiting, IdsIn
    <3> QED
        BY <3>2, <3>3
  <2>2. ASSUME NEW w \in Waiting PROVE w \in Waiting'
    <3>1. PICK k \in DOMAIN buf : w \in IdsOf(buf[k]) /\ w \in Ids
          BY <2>2 DEF Waiting, IdsIn
    <3>2. w \in IdsOf(buf'[k]) /\ k \in 1..l
          BY <1>2, <3>1
    <3> QED
        BY <1>2, <3>1, <3>2 DEF Waiting, IdsIn
  <2>3. n \in IdsOf(buf'[l]) /\ l \in DOMAIN buf'
        BY <1>2
  <2>4. n \in Waiting'
        BY <1>2, <2>3 DEF Waiting, IdsIn
  <2> QED
      BY <2>1, <2>2, <2>4
<1>5. \A k \in DOMAIN buf : ItemOK(buf[k], log') /\ Whole(buf[k], log')
      BY <1>2, ItemStays DEF Order, Buffer
<1>6. \A k \in DOMAIN buf : \A w \in IdsOf(buf[k]) : w \in DOMAIN log /\ w < n
      BY <1>2 DEF Order, Buffer, ItemOK
<1>7. Ascending(buf')
  <2> SUFFICES ASSUME NEW j \in 1..l, NEW k \in 1..l, j < k,
                      NEW a \in IdsOf(buf'[j]), NEW b \in IdsOf(buf'[k])
               PROVE  a < b
      BY <1>2 DEF Ascending
  <2>1. j # l /\ j \in DOMAIN buf /\ buf'[j] = buf[j]
        BY <1>2, <1>3
  <2>2. CASE b = n
        BY <1>6, <2>1, <2>2
  <2>3. CASE b # n
    <3>1. k \in DOMAIN buf /\ b \in IdsOf(buf[k])
          BY <1>2, <2>3
    <3> QED
        BY <2>1, <3>1 DEF Order, Buffer, Ascending
  <2> QED
      BY <2>2, <2>3
<1>8. Buffer'
  <2>1. \A k \in DOMAIN buf' :
          ItemOK(buf'[k], log') /\ Whole(buf'[k], log') /\ buf'[k].fd \in FdsUsed'
        BY <1>1, <1>2, <1>5 DEF Order, Buffer
  <2>2. ASSUME NEW w \in Waiting', NEW m \in DOMAIN log', log'[m].fd = log'[w].fd, m >= w
        PROVE  m \in Waiting'
    <3>1. CASE m = n
          BY <1>4, <3>1
    <3>2. CASE m # n
      <4>1. m \in DOMAIN log /\ log'[m] = log[m] /\ m < n
            BY <1>2, <3>2
      <4>2. w \in DOMAIN log' /\ DOMAIN log' \subseteq Int /\ n \in Int
        <5>1. w \in DOMAIN log \/ w = n
              BY <1>4, BufferedIds DEF Order
        <5>2. DOMAIN log' \subseteq Int
              BY <1>2
        <5> QED
            BY <1>2, <5>1, <5>2
      <4>3. w # n
            BY <2>2, <4>1, <4>2
      <4>4. w \in Waiting /\ w \in DOMAIN log
            BY <1>4, <4>3, BufferedIds DEF Order
      <4>5. log'[w] = log[w]
            BY <1>2, <4>4
      <4> QED
          BY <1>4, <2>2, <4>1, <4>4, <4>5 DEF Order, Buffer
    <3> QED
        BY <3>1, <3>2
  <2> QED
      BY <1>7, <2>1, <2>2 DEF Buffer
<1>9. UNCHANGED <<todo, late>>
      BY <1>1 DEF server
<1>10. DOMAIN log' = 1..Len(log') /\ Len(log') \in Nat /\ Len(log') <= MaxWrites
      BY <1>2, WriteBackAssumption DEF Ids
<1>11. Queues' /\ InFlight' = InFlight /\ Run' = Run /\ InFlight \cup Run \subseteq DOMAIN log
      BY <1>1, <1>2, <1>9, <1>10, QueuesGrow DEF Order
<1>12. Unsent'
  <2>1. ~Flushing /\ rq' # "write"
        BY <1>1, <1>3 DEF Flushing
  <2>2. Waiting \cap (Run \cup InFlight) = {}
        BY <2>1 DEF Order, Unsent
  <2> QED
      BY <1>2, <1>4, <1>11, <2>1, <2>2 DEF Unsent
<1> QED
    BY <1>8, <1>11, <1>12 DEF Order

LEMMA SendOrder == Types /\ Order /\ SendArguments => Order'
<1> SUFFICES ASSUME Types, Order, SendArguments PROVE Order'
    OBVIOUS
<1>1. /\ pc = "sent" /\ pc' = "args" /\ todo' = Items
      /\ UNCHANGED <<late, FdsUsed, buf, rq, log, appliedOn, drops>>
      BY DEF SendArguments, ghost
<1>2. Buffer' /\ Waiting' = Waiting /\ Run' = Run
      BY <1>1 DEF Order, Buffer, Waiting, Run
<1>3. InFlight' = IdsIn(Items) \cup UNION {IdsIn(late[k].todo) : k \in DOMAIN late}
      BY <1>1 DEF InFlight
<1>4. /\ ~Flushing
      /\ Waiting \cap (Run \cup InFlight) = {}
      /\ UNION {IdsIn(late[k].todo) : k \in DOMAIN late} \subseteq InFlight
      BY <1>1 DEF Order, Unsent, Flushing, InFlight
<1>5. /\ \A n \in Ids : appliedOn[n] <= drops + 1 /\ (n \notin DOMAIN log => appliedOn[n] = 0)
      /\ drops \in Nat /\ DOMAIN log \subseteq Ids /\ DOMAIN log = 1..Len(log) /\ Len(log) \in Nat
  <2>1. log \in Seq(Entries) /\ Len(log) <= MaxWrites /\ drops \in Nat
        BY DEF Types, ClientTypes
  <2>2. DOMAIN log \subseteq Ids
        BY <2>1, WriteBackAssumption DEF Ids
  <2> QED
      BY <2>1, <2>2 DEF Order, Queues
<1>6. /\ Items \in Seq(WriteItems) => /\ Queue(Items, drops + 1, log, appliedOn)
                                      /\ \A j \in DOMAIN Items : Whole(Items[j], log)
      /\ ~Flushing' => Waiting \cap IdsIn(Items) = {}
  <2>1. CASE rq = "bulk"
    <3>1. Items = buf /\ buf \in Seq(WriteItems)
          BY <1>1, <2>1, ItemsFacts DEF Types, ClientTypes
    <3>2. AfterRun(buf, drops + 1, log, appliedOn)
      <4> SUFFICES ASSUME NEW j \in DOMAIN buf, NEW n \in IdsOf(buf[j]), NEW m \in DOMAIN log,
                          appliedOn[m] = drops + 1, log[m].fd = buf[j].fd
                   PROVE  m < n
          BY DEF AfterRun
      <4>1. m \in Ids /\ m \in Int
            BY <1>5, WriteBackAssumption DEF Ids
      <4>2. m \in Run
            BY <1>5, <4>1 DEF Run
      <4>3. n \in Ids /\ n \in Int
            BY WriteBackAssumption DEF IdsOf, Ids
      <4>4. n \in Waiting /\ log[n].fd = buf[j].fd
            BY <3>1, <4>3 DEF Waiting, IdsIn, Order, Buffer, ItemOK
      <4>5. m \notin Waiting
            BY <1>4, <4>2
      <4>6. ~(m >= n)
            BY <4>4, <4>5 DEF Order, Buffer
      <4> QED
          BY <4>1, <4>3, <4>6
    <3>3. Queue(buf, drops + 1, log, appliedOn) /\ \A j \in DOMAIN buf : Whole(buf[j], log)
          BY <3>2 DEF Queue, Order, Buffer
    <3>4. Flushing'
          BY <1>1, <2>1 DEF Flushing
    <3> QED
        BY <3>1, <3>3, <3>4
  <2>2. CASE rq = "write"
    <3> DEFINE n == Len(log)
               w == log[n]
               x == WriteItem(w.path, w.fd, w.off, [j \in 1..w.size |-> n])
    <3>1. Items = <<x>> /\ x \in WriteItems /\ n \in DOMAIN log /\ n \in Ids /\ log \in Seq(Entries)
          BY <1>1, <2>2, ItemsFacts DEF Types, ClientTypes
    <3>2. ItemOK(x, log) /\ Whole(x, log) /\ IdsOf(x) = {n} /\ x.fd = w.fd
          BY <3>1, SingleOK
    <3> HIDE DEF x
    <3>3. n \notin Run /\ n \notin Waiting /\ n \in Int
          BY <1>1, <1>5, <2>2 DEF Order, Unsent
    <3>4. \A m \in DOMAIN log : appliedOn[m] = drops + 1 => m < n
      <4> SUFFICES ASSUME NEW m \in DOMAIN log, appliedOn[m] = drops + 1 PROVE m < n
          OBVIOUS
      <4>1. m # n
            BY <1>5, <3>1, <3>3 DEF Run
      <4> QED
          BY <1>5, <4>1
    <3>5. DOMAIN Items = {1} /\ Items[1] = x
          BY <3>1
    <3>6. Queue(Items, drops + 1, log, appliedOn) /\ \A j \in DOMAIN Items : Whole(Items[j], log)
      <4>1. Ascending(Items)
            BY <3>5 DEF Ascending
      <4>2. AfterRun(Items, drops + 1, log, appliedOn)
            BY <3>2, <3>4, <3>5 DEF AfterRun
      <4> QED
          BY <3>2, <3>5, <4>1, <4>2 DEF Queue
    <3>7. IdsIn(Items) = {n}
      <4>1. Items \in Seq(WriteItems)
            BY <3>1
      <4> QED
          BY <3>1, <3>2, <3>5, <4>1 DEF IdsIn
    <3> QED
        BY <3>3, <3>6, <3>7
  <2>3. CASE rq \notin {"write", "bulk"}
    <3>1. PICK it \in Ops : Items = <<it>> /\ it.k = rq
          BY <1>1, <2>3, ItemsFacts
    <3>2. IdsIn(Items) = {}
          BY <3>1, NoIds
    <3>3. Items \notin Seq(WriteItems)
      <4>1. Items \in Reqs /\ Items # <<>> /\ Head(Items) = it
            BY <3>1 DEF Reqs
      <4>2. it.k # "write"
            BY <2>3, <3>1
      <4> QED
          BY <4>1, <4>2, ReqFacts
    <3> QED
        BY <3>2, <3>3
  <2> QED
      BY <2>1, <2>2, <2>3
<1>7. Queues'
      BY <1>1, <1>6 DEF Order, Queues
<1>8. Unsent'
      BY <1>1, <1>2, <1>3, <1>4, <1>6 DEF Order, Unsent
<1> QED
    BY <1>2, <1>7, <1>8 DEF Order

LEMMA ReturnOrder ==
  ASSUME Types, Order, InitSocketFails \/ NoOk \/ NoResult \/ ReadResult
  PROVE  Order'
<1>1. PICK r \in Int : /\ Return(r) /\ todo = <<>>
                       /\ UNCHANGED <<todo, late>>
                       /\ pc \in {"init", "sent", "args"} /\ (pc = "args" => r = res)
      BY RequestTypes
<1>2. UNCHANGED <<FdsUsed, log, appliedOn, drops>>
      BY <1>1 DEF Return
<1>3. rq' \in {"none", "release"} /\ pc' \in {"idle", "init", "done"}
      BY <1>1 DEF Return, Opened, WroteDirect, WroteBulk, Released, Renamed, Looked, Idle
<1>4. buf' = <<>> \/ (buf' = buf /\ ~Flushing)
  <2>1. res # ECOMM
        BY DEF Types, ServerTypes, Error, ECOMM
  <2>2. CASE rq = "bulk"
    <3>1. WroteBulk(r)
          BY <1>1, <2>2 DEF Return, Opened, WroteDirect, Released, Renamed, Looked
    <3>2. IF r = ECOMM THEN UNCHANGED <<buf, bytes>> ELSE buf' = <<>> /\ bytes' = 0
          BY <3>1 DEF WroteBulk
    <3>3. CASE r = ECOMM
          BY <1>1, <2>1, <3>2, <3>3 DEF Flushing
    <3>4. CASE r # ECOMM
          BY <3>2, <3>4
    <3> QED
        BY <3>3, <3>4
  <2>3. CASE rq # "bulk"
        BY <1>1, <2>3 DEF Return, Opened, WroteDirect, WroteBulk, Released, Renamed, Looked, Flushing
  <2> QED
      BY <2>2, <2>3
<1>5. Queues' /\ Run' = Run /\ InFlight' = InFlight
      BY <1>1, <1>2 DEF Order, Queues, Run, InFlight
<1>6. CASE buf' = <<>>
  <2>1. Waiting' = {} /\ DOMAIN buf' = {}
        BY <1>6, NoIds DEF Waiting
  <2>2. Buffer'
        BY <2>1 DEF Buffer, Ascending
  <2>3. Unsent'
        BY <1>3, <2>1 DEF Unsent
  <2> QED
      BY <1>5, <2>2, <2>3 DEF Order
<1>7. CASE buf' = buf /\ ~Flushing
  <2>1. Buffer' /\ Waiting' = Waiting
        BY <1>2, <1>7 DEF Order, Buffer, Waiting
  <2>2. Unsent'
        BY <1>3, <1>5, <1>7, <2>1 DEF Order, Unsent
  <2> QED
      BY <1>5, <2>1, <2>2 DEF Order
<1> QED
    BY <1>4, <1>6, <1>7

(* A worker runs writes of connection c, those of the request at the head  *)
(* of its queue: none that waits, and no other worker's.                   *)
LEMMA RunFacts ==
  ASSUME Types, NEW it, NEW c \in Nat \ {0}, NEW B \in [Ids -> Nat],
         \/ B = appliedOn
         \/ \A n \in Ids : B[n] = IF n \in IdsOf(it) THEN c ELSE appliedOn[n]
  PROVE  /\ \A n \in Ids : B[n] = appliedOn[n] \/ (n \in IdsOf(it) /\ B[n] = c)
         /\ {n \in Ids : B[n] # 0} \subseteq Run \cup IdsOf(it)
  BY DEF Run

LEMMA ServeOrder == Types /\ Order /\ Serve => Order'
<1> SUFFICES ASSUME Types, Order, Serve PROVE Order'
    OBVIOUS
<1>0. drops \in Nat /\ DOMAIN log \subseteq Ids /\ appliedOn \in [Ids -> Nat]
  <2>1. log \in Seq(Entries) /\ Len(log) <= MaxWrites
        BY DEF Types, ClientTypes
  <2> QED
      BY <2>1, WriteBackAssumption DEF Types, ClientTypes, Ids
<1>1. CASE ServeWrite
  <2> DEFINE it == Head(todo)
  <2>1. Serving("write") /\ UNCHANGED <<late, client, log, drops>>
        BY <1>1 DEF ServeWrite
  <2>2. /\ it \in WriteItems /\ todo \in Seq(WriteItems) /\ todo # <<>> /\ pc = "args"
        /\ todo' = Tail(todo)
        BY <2>1, ServingFacts
  <2>3. Pwrite(fds, it, drops + 1) \/ UNCHANGED appliedOn
        BY <1>1 DEF ServeWrite, WriteFails
  <2> HIDE DEF it
  <2>4. /\ appliedOn' \in [Ids -> Nat]
        /\ \/ appliedOn' = appliedOn
           \/ \A n \in Ids : appliedOn'[n] = IF n \in IdsOf(it) THEN drops + 1 ELSE appliedOn[n]
    <3>1. CASE Pwrite(fds, it, drops + 1)
      <4>1. drops + 1 \in Nat /\ fds \in Table
            BY <1>0 DEF Types, ServerTypes
      <4> QED
          BY <2>2, <3>1, <4>1, PwriteFacts
    <3>2. CASE UNCHANGED appliedOn
          BY <1>0, <3>2
    <3> QED
        BY <2>3, <3>1, <3>2
  <2>5. /\ \A n \in Ids : appliedOn'[n] = appliedOn[n] \/ (n \in IdsOf(it) /\ appliedOn'[n] = drops + 1)
        /\ Run' \subseteq Run \cup IdsOf(it)
    <3>1. drops + 1 \in Nat \ {0}
          BY <1>0
    <3>2. Run' = {n \in Ids : appliedOn'[n] # 0}
          BY DEF Run
    <3> QED
        BY <2>4, <3>1, <3>2, RunFacts
  <2>6. /\ Queue(todo, drops + 1, log, appliedOn) /\ \A j \in DOMAIN todo : Whole(todo[j], log)
        BY <2>2 DEF Order, Queues
  <2>7. /\ IdsIn(todo') \subseteq IdsIn(todo) /\ IdsOf(it) \subseteq IdsIn(todo)
        BY <2>2, IdsInTail DEF it
  <2>8. IdsIn(todo) \subseteq DOMAIN log
        BY <2>6, QueuedIds
  <2>9. Queues'
    <3>1. Queue(todo', drops + 1, log, appliedOn')
      <4>1. \A m \in DOMAIN log : appliedOn'[m] = drops + 1 =>
                                    appliedOn[m] = drops + 1 \/ m \in IdsOf(Head(todo))
            BY <1>0, <2>5 DEF it
      <4> QED
          BY <2>2, <2>6, <4>1, QueueTail
    <3>2. \A j \in DOMAIN todo' : Whole(todo'[j], log)
          BY <2>2, <2>6, TailFacts
    <3>3. ASSUME NEW k \in DOMAIN late, late[k].todo \in Seq(WriteItems)
          PROVE  Queue(late[k].todo, late[k].conn, log, appliedOn')
      <4>1. late[k].conn <= drops /\ late[k].conn \in Nat
            BY LateType DEF Order, Queues
      <4>2. Queue(late[k].todo, late[k].conn, log, appliedOn)
            BY <3>3 DEF Order, Queues
      <4>3. late[k].conn # drops + 1
            BY <1>0, <4>1
      <4>4. \A m \in DOMAIN log : appliedOn'[m] = late[k].conn => appliedOn[m] = late[k].conn
            BY <1>0, <2>5, <4>3
      <4> QED
          BY <4>2, <4>4, QueueOther
    <3>4. \A n \in Ids : appliedOn'[n] <= drops + 1 /\ (n \notin DOMAIN log => appliedOn'[n] = 0)
      <4> SUFFICES ASSUME NEW n \in Ids
                   PROVE  appliedOn'[n] <= drops + 1 /\ (n \notin DOMAIN log => appliedOn'[n] = 0)
          OBVIOUS
      <4>1. appliedOn[n] <= drops + 1 /\ (n \notin DOMAIN log => appliedOn[n] = 0)
            BY DEF Order, Queues
      <4>2. CASE appliedOn'[n] = appliedOn[n]
            BY <4>1, <4>2
      <4>3. CASE n \in IdsOf(it) /\ appliedOn'[n] = drops + 1
            BY <1>0, <2>7, <2>8, <4>3
      <4> QED
          BY <2>5, <4>2, <4>3
    <3> QED
        BY <2>1, <3>1, <3>2, <3>3, <3>4 DEF Order, Queues
  <2>10. UNCHANGED <<buf, FdsUsed, pc, rq>>
        BY <2>1 DEF client
  <2>11. Buffer' /\ Waiting' = Waiting
        BY <2>1, <2>10 DEF Order, Buffer, Waiting
  <2>12. Run' \cup InFlight' \subseteq Run \cup InFlight
    <3>1. InFlight' \subseteq InFlight
          BY <2>1, <2>7 DEF InFlight
    <3>2. IdsOf(it) \subseteq InFlight
          BY <2>7 DEF InFlight
    <3> QED
        BY <2>5, <3>1, <3>2
  <2>13. Unsent'
        BY <2>1, <2>2, <2>10, <2>11, <2>12 DEF Order, Unsent, Flushing
  <2> QED
      BY <2>9, <2>11, <2>13 DEF Order
<1>2. CASE ~ServeWrite
  <2>1. PICK k \in {"open", "release", "rename", "read", "truncate"} : Serving(k)
        BY <1>2 DEF Serve, ServeOpen, ServeRelease, ServeRename, ServeRead, ServeTruncate
  <2>2. UNCHANGED <<late, client, log, appliedOn, drops>>
        BY <1>2 DEF Serve, ServeOpen, ServeRelease, ServeRename, ServeRead, ServeTruncate, ghost
  <2>3. pc = "args" /\ todo' = <<>> /\ Head(todo) \in Ops /\ todo = <<Head(todo)>>
        BY <2>1, ServingFacts
  <2>4. IdsIn(todo') = {}
        BY <2>3, NoIds
  <2>5. UNCHANGED <<buf, FdsUsed, pc, rq>>
        BY <2>2 DEF client
  <2>6. Buffer' /\ Waiting' = Waiting /\ Run' = Run
        BY <2>2, <2>5 DEF Order, Buffer, Waiting, Run
  <2>7. InFlight' \subseteq InFlight
        BY <2>2, <2>4 DEF InFlight
  <2>8. Unsent'
        BY <2>2, <2>3, <2>5, <2>6, <2>7 DEF Order, Unsent, Flushing
  <2>9. Queue(<<>>, drops + 1, log, appliedOn) /\ DOMAIN <<>> = {}
        BY DEF Queue, Ascending, AfterRun
  <2>10. Queues'
        BY <2>2, <2>3, <2>9 DEF Order, Queues
  <2> QED
      BY <2>6, <2>8, <2>10 DEF Order
<1> QED
    BY <1>1, <1>2

(* The workers after a step of one of them are those before, which have    *)
(* the same to do, but for the one.                                        *)
LEMMA LateMap ==
  ASSUME Types, NEW n \in DOMAIN late, ServeLate(n)
  PROVE  \E g \in [DOMAIN late' -> DOMAIN late] :
           /\ \A j, k \in DOMAIN late' : j # k => g[j] # g[k]
           /\ \A k \in DOMAIN late' :
                /\ late'[k].conn = late[g[k]].conn /\ late'[k].fds = late[g[k]].fds
                /\ \/ g[k] # n /\ late'[k].todo = late[g[k]].todo
                   \/ g[k] = n /\ late'[k].todo = Tail(late[n].todo)
<1>1. late \in Seq(Late) /\ late' \in Seq(Late) /\ Len(late) \in Nat /\ DOMAIN late = 1..Len(late)
      BY LateFacts DEF Types, ServerTypes
<1>2. CASE late' = RemoveAt(late, n)
  <2> DEFINE g == [k \in DOMAIN late' |-> IF k < n THEN k ELSE k + 1]
  <2>1. /\ Len(late') = Len(late) - 1
        /\ \A k \in DOMAIN late' : late'[k] = IF k < n THEN late[k] ELSE late[k + 1]
        BY <1>1, <1>2, RemoveFacts
  <2>2. DOMAIN late' = 1..(Len(late) - 1)
        BY <1>1, <2>1
  <2>3. g \in [DOMAIN late' -> DOMAIN late]
        BY <1>1, <2>2
  <2>4. \A j, k \in DOMAIN late' : j # k => g[j] # g[k]
        BY <1>1, <2>2
  <2>5. \A k \in DOMAIN late' : g[k] # n /\ late'[k] = late[g[k]]
        BY <1>1, <2>1, <2>2
  <2> HIDE DEF g
  <2>6. \A k \in DOMAIN late' :
                /\ late'[k].conn = late[g[k]].conn /\ late'[k].fds = late[g[k]].fds
                /\ g[k] # n /\ late'[k].todo = late[g[k]].todo
        BY <2>5
  <2> QED
      BY <2>3, <2>4, <2>6
<1>3. CASE /\ DOMAIN late' = DOMAIN late
           /\ late'[n].fds = late[n].fds /\ late'[n].conn = late[n].conn
           /\ late'[n].todo = Tail(late[n].todo)
           /\ \A k \in DOMAIN late : k # n => late'[k] = late[k]
  <2> DEFINE g == [k \in DOMAIN late' |-> k]
  <2>1. g \in [DOMAIN late' -> DOMAIN late] /\ \A k \in DOMAIN late' : g[k] = k
        BY <1>3
  <2> HIDE DEF g
  <2>2. \A k \in DOMAIN late' :
                /\ late'[k].conn = late[g[k]].conn /\ late'[k].fds = late[g[k]].fds
                /\ \/ g[k] # n /\ late'[k].todo = late[g[k]].todo
                   \/ g[k] = n /\ late'[k].todo = Tail(late[n].todo)
        BY <1>3, <2>1
  <2>3. \A j, k \in DOMAIN late' : j # k => g[j] # g[k]
        BY <2>1
  <2> QED
      BY <2>1, <2>2, <2>3
<1> QED
    BY <1>2, <1>3, LateFacts

LEMMA LateOrder ==
  ASSUME Types, Order, NEW n \in DOMAIN late, ServeLate(n)
  PROVE  Order'
<1> DEFINE it == Head(late[n].todo)
           c  == late[n].conn
<1>0. drops \in Nat /\ DOMAIN log \subseteq Ids /\ appliedOn \in [Ids -> Nat]
  <2>1. log \in Seq(Entries) /\ Len(log) <= MaxWrites
        BY DEF Types, ClientTypes
  <2> QED
      BY <2>1, WriteBackAssumption DEF Types, ClientTypes, Ids
<1>1. UNCHANGED <<todo, client, log, drops>>
      BY DEF ServeLate
<1>2. c \in Nat \ {0} /\ c <= drops /\ late[n].fds \in Table /\ late[n].todo # <<>> /\ late[n].todo \in Reqs
      BY LateType DEF Order, Queues
<1>3. \/ it \in WriteItems /\ Pwrite(late[n].fds, it, c) /\ late[n].todo \in Seq(WriteItems)
      \/ UNCHANGED appliedOn
      BY LateSteps
<1>4. PICK g \in [DOMAIN late' -> DOMAIN late] :
        /\ \A j, k \in DOMAIN late' : j # k => g[j] # g[k]
        /\ \A k \in DOMAIN late' :
             /\ late'[k].conn = late[g[k]].conn
             /\ \/ g[k] # n /\ late'[k].todo = late[g[k]].todo
                \/ g[k] = n /\ late'[k].todo = Tail(late[n].todo)
      BY LateMap
<1> HIDE DEF it
<1>5. /\ appliedOn' \in [Ids -> Nat]
      /\ \A m \in Ids : appliedOn'[m] = appliedOn[m] \/ (m \in IdsOf(it) /\ appliedOn'[m] = c)
      /\ Run' \subseteq Run \cup InFlight
      /\ \A m \in Ids : appliedOn'[m] # appliedOn[m] => m \in DOMAIN log
  <2>1. CASE UNCHANGED appliedOn
        BY <1>0, <2>1 DEF Run
  <2>2. CASE it \in WriteItems /\ Pwrite(late[n].fds, it, c) /\ late[n].todo \in Seq(WriteItems)
    <3>1. /\ appliedOn' \in [Ids -> Nat]
          /\ \A m \in Ids : appliedOn'[m] = IF m \in IdsOf(it) THEN c ELSE appliedOn[m]
          BY <1>2, <2>2, PwriteFacts
    <3>2. /\ \A m \in Ids : appliedOn'[m] = appliedOn[m] \/ (m \in IdsOf(it) /\ appliedOn'[m] = c)
          /\ {m \in Ids : appliedOn'[m] # 0} \subseteq Run \cup IdsOf(it)
          BY <1>2, <3>1, RunFacts
    <3>3. IdsOf(it) \subseteq IdsIn(late[n].todo)
          BY <1>2, <2>2, IdsInTail DEF it
    <3>4. IdsIn(late[n].todo) \subseteq InFlight
          BY DEF InFlight
    <3>5. IdsIn(late[n].todo) \subseteq DOMAIN log
          BY QueuedIds DEF Order, Queues
    <3>6. Run' = {m \in Ids : appliedOn'[m] # 0}
          BY DEF Run
    <3> QED
        BY <3>1, <3>2, <3>3, <3>4, <3>5, <3>6
  <2> QED
      BY <1>3, <2>1, <2>2
<1>6. late[n].todo \in Seq(WriteItems) => Tail(late[n].todo) \in Seq(WriteItems)
                                          /\ IdsIn(Tail(late[n].todo)) \subseteq IdsIn(late[n].todo)
      BY <1>2, TailFacts, IdsInTail
<1>7. late[n].todo \notin Seq(WriteItems) => Tail(late[n].todo) = <<>>
      BY <1>2, ReqFacts
<1>8. InFlight' \subseteq InFlight
  <2>1. ASSUME NEW k \in DOMAIN late' PROVE IdsIn(late'[k].todo) \subseteq IdsIn(late[g[k]].todo)
    <3>1. CASE g[k] # n
          BY <1>4, <3>1
    <3>2. CASE g[k] = n
      <4>1. late'[k].todo = Tail(late[n].todo)
            BY <1>4, <3>2
      <4>2. CASE late[n].todo \in Seq(WriteItems)
            BY <1>6, <3>2, <4>1, <4>2
      <4>3. CASE late[n].todo \notin Seq(WriteItems)
            BY <1>7, <4>1, <4>3, NoIds
      <4> QED
          BY <4>2, <4>3
    <3> QED
        BY <3>1, <3>2
  <2>2. \A k \in DOMAIN late' : g[k] \in DOMAIN late
        BY <1>4
  <2> QED
      BY <1>1, <2>1, <2>2 DEF InFlight
<1>9. Queues'
  <2>1. ASSUME todo \in Seq(WriteItems)
        PROVE  Queue(todo, drops + 1, log, appliedOn') /\ \A j \in DOMAIN todo : Whole(todo[j], log)
    <3>1. Queue(todo, drops + 1, log, appliedOn) /\ \A j \in DOMAIN todo : Whole(todo[j], log)
          BY <2>1 DEF Order, Queues
    <3>2. drops + 1 # c
          BY <1>0, <1>2
    <3>3. \A m \in DOMAIN log : appliedOn'[m] = drops + 1 => appliedOn[m] = drops + 1
          BY <1>0, <1>5, <3>2
    <3> QED
        BY <3>1, <3>3, QueueOther
  <2>2. ASSUME NEW k \in DOMAIN late' PROVE late'[k].conn <= drops
        BY <1>4 DEF Order, Queues
  <2>3. ASSUME NEW k \in DOMAIN late', late'[k].todo \in Seq(WriteItems)
        PROVE  Queue(late'[k].todo, late'[k].conn, log, appliedOn')
    <3>1. CASE g[k] # n
      <4>1. late'[k].conn # c /\ g[k] \in DOMAIN late
            BY <1>4, <3>1 DEF Order, Queues
      <4>2. Queue(late'[k].todo, late'[k].conn, log, appliedOn)
            BY <1>4, <2>3, <3>1 DEF Order, Queues
      <4>3. \A m \in DOMAIN log : appliedOn'[m] = late'[k].conn => appliedOn[m] = late'[k].conn
            BY <1>0, <1>5, <4>1
      <4> QED
          BY <4>2, <4>3, QueueOther
    <3>2. CASE g[k] = n
      <4>1. late'[k].todo = Tail(late[n].todo) /\ late'[k].conn = c
            BY <1>4, <3>2
      <4>2. CASE late[n].todo \in Seq(WriteItems)
        <5>1. Queue(late[n].todo, c, log, appliedOn)
              BY <4>2 DEF Order, Queues
        <5>2. \A m \in DOMAIN log : appliedOn'[m] = c => appliedOn[m] = c \/ m \in IdsOf(Head(late[n].todo))
              BY <1>0, <1>5 DEF it
        <5>3. Queue(Tail(late[n].todo), c, log, appliedOn')
              BY <1>2, <4>2, <5>1, <5>2, QueueTail
        <5> QED
            BY <4>1, <5>3
      <4>3. CASE late[n].todo \notin Seq(WriteItems)
        <5>1. late'[k].todo = <<>> /\ DOMAIN <<>> = {}
              BY <1>7, <4>1, <4>3
        <5> QED
            BY <5>1 DEF Queue, Ascending, AfterRun
      <4> QED
          BY <4>2, <4>3
    <3> QED
        BY <3>1, <3>2
  <2>4. ASSUME NEW j \in DOMAIN late', NEW k \in DOMAIN late', j # k
        PROVE  late'[j].conn # late'[k].conn
        BY <1>4, <2>4 DEF Order, Queues
  <2>5. ASSUME NEW m \in Ids
        PROVE  appliedOn'[m] <= drops + 1 /\ (m \notin DOMAIN log => appliedOn'[m] = 0)
    <3>1. appliedOn[m] <= drops + 1 /\ (m \notin DOMAIN log => appliedOn[m] = 0)
          BY DEF Order, Queues
    <3>2. c <= drops + 1
          BY <1>0, <1>2
    <3> QED
        BY <1>5, <3>1, <3>2
  <2> QED
      BY <1>1, <2>1, <2>2, <2>3, <2>4, <2>5 DEF Queues
<1>10. UNCHANGED <<buf, FdsUsed, pc, rq>>
      BY <1>1 DEF client
<1>11. Buffer' /\ Waiting' = Waiting
      BY <1>1, <1>10 DEF Order, Buffer, Waiting
<1>12. Unsent'
      BY <1>1, <1>5, <1>8, <1>10, <1>11 DEF Order, Unsent, Flushing
<1> QED
    BY <1>9, <1>11, <1>12 DEF Order

(* What arrived of the request of a broken connection.                     *)
LEMMA ArrivedQueue ==
  ASSUME NEW L \in Seq(Entries), NEW A, NEW c, NEW s \in Seq(WriteItems), Queue(s, c, L, A),
         NEW a \in Seq(WriteItems),
         \A k \in DOMAIN a : k \in DOMAIN s /\ (a[k] = s[k] \/ a[k] \in Torn(s[k]))
  PROVE  Queue(a, c, L, A) /\ IdsIn(a) \subseteq IdsIn(s)
<1>1. ASSUME NEW k \in DOMAIN a
      PROVE  /\ IdsOf(a[k]) \subseteq IdsOf(s[k]) /\ a[k].fd = s[k].fd
             /\ ItemOK(a[k], L)
  <2>1. s[k] \in WriteItems /\ ItemOK(s[k], L)
        BY DEF Queue
  <2>2. CASE a[k] = s[k]
        BY <2>1, <2>2
  <2>3. CASE a[k] \in Torn(s[k])
    <3> DEFINE t == a[k]
               w == s[k]
    <3>1. /\ t.path = w.path /\ t.fd = w.fd /\ t.off \in {0, w.off} /\ Len(t.vals) = Len(w.vals)
          /\ IdsOf(t) = {}
          BY <2>1, <2>3, TornFacts
    <3>2. w.off \in Nat /\ Len(w.vals) \in Nat
          BY <2>1, ItemFacts, WriteBackAssumption DEF Offsets
    <3>3. t.off + Len(t.vals) <= w.off + Len(w.vals)
          BY <3>1, <3>2
    <3>4. PICK m \in DOMAIN L : L[m].fd = w.fd /\ w.off + Len(w.vals) <= L[m].off + L[m].size
          BY <2>1 DEF ItemOK
    <3>5. L[m].off \in Nat /\ L[m].size \in Nat
      <4>1. L[m] \in Entries
            OBVIOUS
      <4> QED
          BY <4>1, EntryFacts
    <3>6. t.off + Len(t.vals) <= L[m].off + L[m].size
          BY <3>1, <3>2, <3>3, <3>4, <3>5
    <3>7. PICK q \in DOMAIN L : L[q].path = w.path /\ L[q].fd = w.fd
          BY <2>1 DEF ItemOK
    <3> HIDE DEF t, w
    <3>8. ItemOK(t, L)
          BY <3>1, <3>4, <3>6, <3>7 DEF ItemOK
    <3> QED
        BY <3>1, <3>8 DEF t, w
  <2> QED
      BY <2>2, <2>3
<1>2. Ascending(a)
      BY <1>1 DEF Queue, Ascending
<1>3. AfterRun(a, c, L, A)
      BY <1>1 DEF Queue, AfterRun
<1> QED
    BY <1>1, <1>2, <1>3 DEF Queue, IdsIn

LEMMA DropOrder == Types /\ Order /\ Drop => Order'
<1> SUFFICES ASSUME Types, Order, Drop PROVE Order'
    OBVIOUS
<1>1. /\ drops' = drops + 1 /\ todo' = <<>> /\ drops \in Nat /\ todo \in Reqs /\ late \in Seq(Late)
      /\ UNCHANGED <<FdsUsed, buf, pc, rq, log, appliedOn>>
      /\ log \in Seq(Entries) /\ appliedOn \in [Ids -> Nat] /\ fds \in Table
      BY DEF Drop, Types, ServerTypes, ClientTypes
<1>2. PICK s \in Arrived(todo) :
        late' = IF Lingers(s) = <<>> THEN late
                ELSE Append(late, [fds |-> fds, conn |-> drops + 1, todo |-> Lingers(s)])
      BY DEF Drop
<1> DEFINE t == Lingers(s)
<1>3. t \in Reqs /\ IdsIn(t) \subseteq IdsIn(todo)
      /\ (t \in Seq(WriteItems) => Queue(t, drops + 1, log, appliedOn))
  <2>1. CASE todo \in Seq(WriteItems)
    <3>1. /\ t \in Seq(WriteItems) /\ t \in Reqs
          /\ \A k \in DOMAIN t : k \in DOMAIN todo /\ (t[k] = todo[k] \/ t[k] \in Torn(todo[k]))
          BY <1>1, <2>1, ArrivedFacts
    <3>2. Queue(todo, drops + 1, log, appliedOn)
          BY <2>1 DEF Order, Queues
    <3> HIDE DEF t
    <3> QED
        BY <1>1, <2>1, <3>1, <3>2, ArrivedQueue
  <2>2. CASE todo \notin Seq(WriteItems)
    <3>1. (t = <<>> \/ t = todo) /\ t \in Reqs
          BY <1>1, <2>2, ArrivedFacts
    <3>2. Queue(<<>>, drops + 1, log, appliedOn) /\ IdsIn(<<>>) = {}
      <4>1. DOMAIN <<>> = {}
            OBVIOUS
      <4> QED
          BY <4>1, NoIds DEF Queue, Ascending, AfterRun
    <3> HIDE DEF t
    <3> QED
        BY <2>2, <3>1, <3>2
  <2> QED
      BY <2>1, <2>2
<1>4. late' = late \/ late' = Append(late, [fds |-> fds, conn |-> drops + 1, todo |-> t])
      BY <1>2
<1> HIDE DEF t
<1>5. ASSUME NEW k \in DOMAIN late'
      PROVE  \/ k \in DOMAIN late /\ late'[k] = late[k]
             \/ /\ k \notin DOMAIN late /\ k = Len(late) + 1
                /\ late'[k].conn = drops + 1 /\ late'[k].todo = t
  <2>1. CASE late' = late
        BY <2>1
  <2>2. CASE late' = Append(late, [fds |-> fds, conn |-> drops + 1, todo |-> t])
    <3> DEFINE x == [fds |-> fds, conn |-> drops + 1, todo |-> t]
    <3>1. x.conn = drops + 1 /\ x.todo = t /\ late' = Append(late, x)
          BY <2>2
    <3> HIDE DEF x
    <3>2. late \in Seq(Late \cup {x}) /\ x \in Late \cup {x}
          BY <1>1
    <3>3. /\ Append(late, x)[Len(late) + 1] = x
          /\ \A j \in DOMAIN late : Append(late, x)[j] = late[j]
          /\ \A j \in DOMAIN Append(late, x) : j \in DOMAIN late \/ j = Len(late) + 1
          BY <3>2, AppendFacts
    <3>4. Len(late) + 1 \notin DOMAIN late
          BY <1>1
    <3> QED
        BY <3>1, <3>3, <3>4
  <2> QED
      BY <1>4, <2>1, <2>2
<1>6. DOMAIN <<>> = {} /\ Queue(<<>>, drops' + 1, log, appliedOn)
      BY DEF Queue, Ascending, AfterRun
<1>7. Queues'
  <2>1. ASSUME NEW k \in DOMAIN late'
        PROVE  /\ late'[k].conn <= drops'
               /\ late'[k].todo \in Seq(WriteItems) => Queue(late'[k].todo, late'[k].conn, log, appliedOn)
    <3>1. CASE k \in DOMAIN late /\ late'[k] = late[k]
      <4>1. late[k].conn <= drops /\ late[k].conn \in Nat
            BY <3>1, LateType DEF Order, Queues
      <4>2. late[k].conn <= drops'
            BY <1>1, <4>1
      <4> QED
          BY <3>1, <4>2 DEF Order, Queues
    <3>2. CASE late'[k].conn = drops + 1 /\ late'[k].todo = t
          BY <1>1, <1>3, <3>2
    <3> QED
        BY <1>5, <3>1, <3>2
  <2>2. ASSUME NEW j \in DOMAIN late', NEW k \in DOMAIN late', j # k
        PROVE  late'[j].conn # late'[k].conn
    <3>1. \A i \in DOMAIN late : late[i].conn <= drops /\ late[i].conn \in Nat /\ late[i].conn # drops + 1
      <4> SUFFICES ASSUME NEW i \in DOMAIN late
                   PROVE  late[i].conn <= drops /\ late[i].conn \in Nat /\ late[i].conn # drops + 1
          OBVIOUS
      <4>1. late[i].conn <= drops /\ late[i].conn \in Nat
            BY LateType DEF Order, Queues
      <4> QED
          BY <1>1, <4>1
    <3>2. CASE j \in DOMAIN late /\ k \in DOMAIN late
      <4>1. late'[j] = late[j] /\ late'[k] = late[k]
            BY <1>5, <3>2
      <4> QED
          BY <2>2, <3>2, <4>1 DEF Order, Queues
    <3>3. CASE ~(j \in DOMAIN late /\ k \in DOMAIN late)
          BY <1>5, <2>2, <3>1, <3>3
    <3> QED
        BY <3>2, <3>3
  <2>3. ASSUME NEW n \in Ids
        PROVE  appliedOn[n] <= drops' + 1 /\ (n \notin DOMAIN log => appliedOn[n] = 0)
    <3>1. appliedOn[n] <= drops + 1 /\ (n \notin DOMAIN log => appliedOn[n] = 0)
          BY DEF Order, Queues
    <3> QED
        BY <1>1, <3>1
  <2> QED
      BY <1>1, <1>6, <2>1, <2>2, <2>3 DEF Queues
<1>8. Buffer' /\ Waiting' = Waiting /\ Run' = Run
      BY <1>1 DEF Order, Buffer, Waiting, Run
<1>9. InFlight' \subseteq InFlight
  <2>1. IdsIn(todo') = {}
        BY <1>1, NoIds
  <2>2. \A k \in DOMAIN late' : IdsIn(late'[k].todo) \subseteq InFlight
        BY <1>3, <1>5 DEF InFlight
  <2> QED
      BY <2>1, <2>2 DEF InFlight
<1>10. Unsent'
      BY <1>1, <1>8, <1>9 DEF Order, Unsent, Flushing
<1> QED
    BY <1>7, <1>8, <1>10 DEF Order

LEMMA NextOrder == Types /\ Order /\ [Next]_vars => Order'
<1> SUFFICES ASSUME Types, Order, [Next]_vars PROVE Order'
    OBVIOUS
<1>1. CASE QuietCall
  <2>1. /\ UNCHANGED <<server, FdsUsed, buf, log, appliedOn, drops>>
        /\ pc = "idle" /\ pc' = "init" /\ rq' # "write"
        BY <1>1, QuietFacts
  <2> QED
      BY <2>1, OrderFrame DEF server, Flushing
<1>2. CASE InitSocket
      BY <1>2, OrderFrame DEF InitSocket, server, ghost, Flushing
<1>3. CASE Others
      BY <1>3, OrderFrame, OtherFacts DEF client, Flushing
<1>4. CASE UNCHANGED vars
      BY <1>4, OrderFrame DEF vars, server, client, ghost, Flushing
<1> QED
    BY <1>1, <1>2, <1>3, <1>4, Steps, DirectOrder, BufferedOrder, SendOrder, ReturnOrder, ServeOrder,
       LateOrder, DropOrder

-----------------------------------------------------------------------------
(* What steps do to the files                                              *)

LEMMA LogSteps ==
  ASSUME Types, [Next]_vars
  PROVE  /\ \A n \in DOMAIN log : n \in DOMAIN log' /\ log'[n] = log[n]
         /\ drops' \in Nat /\ drops \in Nat /\ drops' >= drops
<1>0. drops \in Nat /\ drops' \in Nat
      BY NextTypes DEF Types, ClientTypes
<1>1. CASE UNCHANGED <<log, drops>>
      BY <1>0, <1>1
<1>2. CASE QuietCall \/ Others
      BY <1>1, <1>2, QuietFacts, OtherFacts
<1>3. ASSUME NEW h \in Handles, NEW o \in Offsets, NEW s \in 1..MaxSize,
             FsWriteDirect(h, o, s) \/ FsWriteBuffered(h, o, s)
      PROVE  drops' = drops /\ \A n \in DOMAIN log : n \in DOMAIN log' /\ log'[n] = log[n]
  <2>1. PICK u \in BOOLEAN : log' = Append(log, Entry(h, o, s, u))
    <3>1. (h \in hnew) \in BOOLEAN
          OBVIOUS
    <3> QED
        BY <1>3, <3>1 DEF FsWriteDirect, FsWriteBuffered
  <2>2. hpath[h] # None /\ Room("writes") /\ drops' = drops
        BY <1>3 DEF FsWriteDirect, FsWriteBuffered
  <2>3. Entry(h, o, s, u) \in Entries
        BY <2>2, EntryType
  <2> QED
      BY <2>1, <2>2, <2>3, LogGrows
<1>4. CASE InitSocket \/ SendArguments
      BY <1>1, <1>4 DEF InitSocket, SendArguments, ghost
<1>5. CASE InitSocketFails \/ NoOk \/ NoResult \/ ReadResult
  <2>1. UNCHANGED <<log, drops>>
        BY <1>5, RequestTypes DEF Return
  <2> QED
      BY <1>1, <2>1
<1>6. CASE Serve
      BY <1>1, <1>6 DEF Serve, ServeOpen, ServeWrite, ServeRelease, ServeRename, ServeRead,
                        ServeTruncate, ghost
<1>7. CASE \E n \in DOMAIN late : ServeLate(n)
      BY <1>1, <1>7 DEF ServeLate
<1>8. CASE Drop
  <2>1. drops' = drops + 1 /\ UNCHANGED log
        BY <1>8 DEF Drop
  <2> QED
      BY <1>0, <2>1
<1>9. CASE UNCHANGED vars
      BY <1>1, <1>9 DEF vars, ghost
<1> QED
    BY <1>0, <1>2, <1>3, <1>4, <1>5, <1>6, <1>7, <1>8, <1>9, Steps

(* A file keeps the names it had, and gets those it is given.              *)
LEMMA NameSteps ==
  ASSUME Types, [Next]_vars
  PROVE  /\ \A i \in Inodes : names[i] \subseteq names'[i]
         /\ \A x \in Paths : dir'[x] = None \/ dir'[x] = dir[x] \/ x \in names'[dir'[x]]
<1>0. /\ names \in [Inodes -> SUBSET Paths] /\ dir \in [Paths -> Inode]
      BY DEF Types, ServerTypes
<1>1. CASE UNCHANGED <<dir, names>>
      BY <1>1
<1>2. ASSUME NEW p \in Paths, NEW q \in Paths, MoveName(p, q)
      PROVE  /\ \A i \in Inodes : names[i] \subseteq names'[i]
             /\ \A x \in Paths : dir'[x] = None \/ dir'[x] = dir[x] \/ x \in names'[dir'[x]]
      BY <1>2, MoveFacts
<1>3. CASE Others
      BY <1>3, OtherFacts
<1>4. CASE \E h \in Handles, o \in Offsets, s \in 1..MaxSize :
             FsWriteDirect(h, o, s) \/ FsWriteBuffered(h, o, s)
      BY <1>1, <1>4 DEF FsWriteDirect, FsWriteBuffered, server
<1>5. CASE QuietCall
      BY <1>1, <1>5, QuietFacts DEF server
<1>6. CASE InitSocket \/ SendArguments
      BY <1>1, <1>6 DEF InitSocket, SendArguments, ghost, server
<1>7. CASE InitSocketFails \/ NoOk \/ NoResult \/ ReadResult
  <2>1. UNCHANGED <<dir, names>>
        BY <1>7, RequestTypes DEF Return
  <2> QED
      BY <1>1, <2>1
<1>8. CASE Serve
  <2>1. CASE ServeRename
    <3> DEFINE it == Head(todo)
    <3>1. Serving("rename") /\ (MoveName(it.path, it.to) \/ UNCHANGED <<dir, names>>)
          BY <2>1 DEF ServeRename
    <3>2. it \in Ops /\ it.k = "rename"
          BY <3>1, ServingFacts
    <3>3. it.path \in Paths /\ it.to \in Paths
          BY <3>2, OpFacts
    <3> HIDE DEF it
    <3> QED
        BY <1>1, <1>2, <3>1, <3>3
  <2>2. CASE ~ServeRename
    <3>1. UNCHANGED <<dir, names>>
          BY <1>8, <2>2 DEF Serve, ServeOpen, ServeWrite, ServeRelease, ServeRead, ServeTruncate, ghost
    <3> QED
        BY <1>1, <3>1
  <2> QED
      BY <2>1, <2>2
<1>9. ASSUME NEW n \in DOMAIN late, ServeLate(n)
      PROVE  /\ \A i \in Inodes : names[i] \subseteq names'[i]
             /\ \A x \in Paths : dir'[x] = None \/ dir'[x] = dir[x] \/ x \in names'[dir'[x]]
  <2> DEFINE it == Head(late[n].todo)
  <2>1. \/ it.path \in Paths /\ it.to \in Paths /\ MoveName(it.path, it.to)
        \/ UNCHANGED <<dir, names>>
        BY <1>9, LateSteps
  <2> HIDE DEF it
  <2> QED
      BY <1>1, <1>2, <2>1
<1>10. CASE Drop
      BY <1>1, <1>10 DEF Drop
<1>11. CASE UNCHANGED vars
      BY <1>1, <1>11 DEF vars, ghost, server
<1> QED
    BY <1>3, <1>4, <1>5, <1>6, <1>7, <1>8, <1>9, <1>10, <1>11, Steps

(* A worker, the present one or a late one, has run the write request it.  *)
Wrote(it, c, i, o) ==
  /\ it \in WriteItems /\ c \in Nat \ {0} /\ c <= drops + 1
  /\ dir[it.path] = i /\ ItemOK(it, log) /\ UNCHANGED <<log, names, dir, drops>>
  /\ o \in it.off .. it.off + Len(it.vals) - 1
  /\ o - it.off + 1 \in DOMAIN it.vals /\ data'[i][o] = it.vals[o - it.off + 1]
  /\ \A n \in IdsOf(it) : /\ appliedOn'[n] = c
                          /\ \A m \in DOMAIN log : appliedOn[m] = c /\ log[m].fd = it.fd => m < n
  /\ c = drops + 1 => ServeWrite /\ it = Head(todo) /\ Whole(it, log) /\ fds[it.fd] = i

LEMMA CellSteps ==
  ASSUME Types, Order, [Next]_vars, NEW i \in Inodes, NEW o \in Offsets,
         data'[i][o] # data[i][o], data'[i][o] # Hole
  PROVE  \E it, c : Wrote(it, c, i, o)
<1>1. ASSUME NEW s \in Seq(WriteItems), s # <<>>, NEW t \in Table, NEW c \in Nat \ {0},
             Pwrite(t, Head(s), c), c <= drops + 1, Queue(s, c, log, appliedOn),
             UNCHANGED <<log, names, dir, drops>>,
             c = drops + 1 => ServeWrite /\ s = todo /\ t = fds /\ \A j \in DOMAIN s : Whole(s[j], log)
      PROVE  Wrote(Head(s), c, i, o)
  <2> DEFINE it == Head(s)
  <2>1. it \in WriteItems /\ 1 \in DOMAIN s /\ it = s[1]
        BY <1>1, TailFacts
  <2> HIDE DEF it
  <2>2. /\ dir[it.path] = t[it.fd]
        /\ \A j \in Inodes : j # t[it.fd] => data'[j] = data[j]
        /\ data'[t[it.fd]][o] = IF o \in it.off .. it.off + Len(it.vals) - 1
                                THEN it.vals[o - it.off + 1] ELSE data[t[it.fd]][o]
        /\ \A x \in it.off .. it.off + Len(it.vals) - 1 : x - it.off + 1 \in DOMAIN it.vals
        /\ \A n \in Ids : appliedOn'[n] = IF n \in IdsOf(it) THEN c ELSE appliedOn[n]
        BY <1>1, <2>1, PwriteFacts DEF it
  <2>3. t[it.fd] = i
        BY <2>2
  <2>4. o \in it.off .. it.off + Len(it.vals) - 1
        BY <2>2, <2>3
  <2>5. IdsOf(it) \subseteq Ids
        BY DEF IdsOf
  <2>6. \A n \in IdsOf(it) : /\ appliedOn'[n] = c
                             /\ \A m \in DOMAIN log : appliedOn[m] = c /\ log[m].fd = it.fd => m < n
        BY <1>1, <2>1, <2>2, <2>5 DEF Queue, AfterRun
  <2>7. ItemOK(it, log)
        BY <1>1, <2>1 DEF Queue
  <2>8. c = drops + 1 => ServeWrite /\ it = Head(todo) /\ Whole(it, log) /\ fds[it.fd] = i
        BY <1>1, <2>1, <2>3 DEF it
  <2> QED
      BY <1>1, <2>1, <2>2, <2>3, <2>4, <2>6, <2>7, <2>8 DEF Wrote, it
<1>2. CASE ServeWrite
  <2>1. Serving("write") /\ UNCHANGED <<dir, log, names, drops>>
        BY <1>2 DEF ServeWrite
  <2>2. todo \in Seq(WriteItems) /\ todo # <<>> /\ fds \in Table /\ drops \in Nat
        BY <2>1, ServingFacts DEF Types, ServerTypes, ClientTypes
  <2>3. Pwrite(fds, Head(todo), drops + 1)
        BY <1>2 DEF ServeWrite, WriteFails
  <2>4. Queue(todo, drops + 1, log, appliedOn) /\ \A j \in DOMAIN todo : Whole(todo[j], log)
        BY <2>2 DEF Order, Queues
  <2>5. drops + 1 \in Nat \ {0} /\ drops + 1 <= drops + 1
        BY <2>2
  <2>6. Wrote(Head(todo), drops + 1, i, o)
        BY <1>1, <1>2, <2>1, <2>2, <2>3, <2>4, <2>5
  <2> QED
      BY <2>6
<1>3. ASSUME NEW t, Truncate(t), t.path \in Paths, t.len \in Offsets PROVE FALSE
  <2>1. /\ \A j \in Inodes : j # dir[t.path] => data'[j] = data[j]
        /\ data'[dir[t.path]][o] = IF o >= t.len THEN Hole ELSE data[dir[t.path]][o]
        BY <1>3, TruncateFacts
  <2> QED
      BY <2>1
<1>4. ASSUME NEW n \in DOMAIN late, ServeLate(n) PROVE \E it, c : Wrote(it, c, i, o)
  <2>1. UNCHANGED <<log, drops>> /\ drops \in Nat
        BY <1>4 DEF ServeLate, Types, ClientTypes
  <2>2. /\ Pwrite(late[n].fds, Head(late[n].todo), late[n].conn)
        /\ late[n].todo \in Seq(WriteItems) /\ UNCHANGED <<dir, names>>
        BY <1>3, <1>4, LateSteps
  <2>3. /\ late[n].conn \in Nat \ {0} /\ late[n].fds \in Table /\ late[n].todo # <<>>
        /\ late[n].conn <= drops
        BY LateType DEF Order, Queues
  <2>4. Queue(late[n].todo, late[n].conn, log, appliedOn)
        BY <2>2 DEF Order, Queues
  <2>5. late[n].conn # drops + 1 /\ late[n].conn <= drops + 1
        BY <2>1, <2>3
  <2>6. Wrote(Head(late[n].todo), late[n].conn, i, o)
        BY <1>1, <2>1, <2>2, <2>3, <2>4, <2>5
  <2> QED
      BY <2>6
<1>5. CASE ServeTruncate
  <2>1. Serving("truncate") /\ (Truncate(Head(todo)) \/ UNCHANGED data)
        BY <1>5 DEF ServeTruncate
  <2>2. Head(todo) \in Ops /\ Head(todo).k = "truncate"
        BY <2>1, ServingFacts
  <2>3. Head(todo).path \in Paths /\ Head(todo).len \in Offsets
        BY <2>2, OpFacts
  <2> QED
      BY <1>3, <2>1, <2>3
<1>6. CASE Serve
      BY <1>2, <1>5, <1>6 DEF Serve, ServeOpen, ServeRelease, ServeRename, ServeRead
<1>7. CASE \/ QuietCall \/ Others \/ InitSocket \/ SendArguments \/ Drop \/ UNCHANGED vars
      BY <1>7, QuietFacts, OtherFacts DEF InitSocket, SendArguments, Drop, vars, server
<1>8. CASE InitSocketFails \/ NoOk \/ NoResult \/ ReadResult
      BY <1>8, RequestTypes
<1>9. CASE \E h \in Handles, q \in Offsets, s \in 1..MaxSize :
             FsWriteDirect(h, q, s) \/ FsWriteBuffered(h, q, s)
      BY <1>9 DEF FsWriteDirect, FsWriteBuffered, server
<1> QED
    BY <1>4, <1>6, <1>7, <1>8, <1>9, Steps

(* Writes through one descriptor number that one worker runs are run in    *)
(* the order of the calls (fs_write, writeBuffer and the loop of the       *)
(* writebulk handler), for any number of writes, flushes that failed,      *)
(* reconnections and workers that are late.                                *)
THEOREM WritesInOrder == Spec => OrderKept
<1> DEFINE InOrder ==
      \A i \in Inodes, o \in Offsets :
        LET old == data[i][o]
            new == data'[i][o]
        IN  old # new /\ old \in Ids /\ new \in Ids /\ log[old].fd = log[new].fd
              /\ appliedOn[old] = appliedOn'[new] => old < new
<1>1. Init => Types /\ Order
      BY InitTypes, InitOrder
<1>2. Types /\ Order /\ [Next]_vars => (Types /\ Order)'
      BY NextTypes, NextOrder
<1>3. ASSUME Types, Order, [Next]_vars PROVE InOrder
  <2> SUFFICES ASSUME NEW i \in Inodes, NEW o \in Offsets,
                      data[i][o] # data'[i][o], data[i][o] \in Ids, data'[i][o] \in Ids,
                      log[data[i][o]].fd = log[data'[i][o]].fd,
                      appliedOn[data[i][o]] = appliedOn'[data'[i][o]]
               PROVE  data[i][o] < data'[i][o]
      OBVIOUS
  <2> DEFINE old == data[i][o]
             new == data'[i][o]
  <2>1. Hole \notin Ids
        BY WriteBackAssumption DEF Ids, Hole
  <2>2. PICK it, c : Wrote(it, c, i, o)
        BY <1>3, <2>1, CellSteps
  <2>3. new \in IdsOf(it)
        BY <2>2 DEF Wrote, IdsOf, ToSet
  <2>4. appliedOn'[new] = c /\ c # 0 /\ log[new].fd = it.fd
        BY <2>2, <2>3 DEF Wrote, ItemOK
  <2>5. old \in DOMAIN log
        BY <1>3, <2>4 DEF Order, Queues
  <2> QED
      BY <2>2, <2>3, <2>4, <2>5 DEF Wrote
<1>4. Types /\ Order /\ [Next]_vars => [InOrder]_vars
      BY <1>3
<1> QED
    BY <1>1, <1>2, <1>4, PTL DEF Spec, OrderKept

-----------------------------------------------------------------------------
(* The files that writes end up in                                         *)

LEMMA InitFiles == Init => Files
<1> SUFFICES ASSUME Init PROVE Files
    OBVIOUS
<1>1. \A i \in Inodes, o \in Offsets : data[i][o] = Hole
      BY DEF Init
<1>2. Hole \notin Ids /\ Hole # Garbage
      BY WriteBackAssumption DEF Ids, Hole
<1>3. NamesKept
      BY WriteBackAssumption DEF Init, NamesKept
<1> QED
    BY <1>1, <1>2, <1>3 DEF Files, Named, GarbageOnlyInTornWrite

LEMMA NextFiles == Types /\ Order /\ Files /\ [Next]_vars => Files'
<1> SUFFICES ASSUME Types, Order, Files, [Next]_vars PROVE Files'
    OBVIOUS
<1>1. /\ \A n \in DOMAIN log : n \in DOMAIN log' /\ log'[n] = log[n]
      /\ drops' \in Nat /\ drops \in Nat /\ drops' >= drops
      BY LogSteps
<1>2. /\ \A i \in Inodes : names[i] \subseteq names'[i]
      /\ \A x \in Paths : dir'[x] = None \/ dir'[x] = dir[x] \/ x \in names'[dir'[x]]
      BY NameSteps
<1>3. dir \in [Paths -> Inode] /\ log \in Seq(Entries) /\ DOMAIN log = 1..Len(log) /\ Len(log) \in Nat
      BY DEF Types, ServerTypes, ClientTypes
<1>4. Hole \notin Ids /\ Hole # Garbage /\ Garbage \notin Ids /\ Ids \subseteq Nat
      BY WriteBackAssumption DEF Ids, Hole
<1>5. NamesKept'
  <2> SUFFICES ASSUME NEW p \in Paths, dir'[p] # None PROVE p \in names'[dir'[p]]
      BY DEF NamesKept
  <2>1. CASE dir'[p] = dir[p]
    <3>1. dir[p] \in Inodes /\ p \in names[dir[p]]
          BY <1>3, <2>1 DEF Files, NamesKept, Inode
    <3> QED
        BY <1>2, <2>1, <3>1
  <2> QED
      BY <1>2, <2>1
<1>6. ASSUME NEW i \in Inodes, NEW o \in Offsets, data'[i][o] \in Ids
      PROVE  /\ data'[i][o] \in DOMAIN log'
             /\ \E m \in 1..data'[i][o] : /\ m \in DOMAIN log' /\ log'[m].fd = log'[data'[i][o]].fd
                                          /\ log'[m].path \in names'[i]
  <2> DEFINE v == data'[i][o]
  <2>1. \E m \in DOMAIN log : /\ v \in DOMAIN log /\ m <= v
                              /\ log[m].fd = log[v].fd /\ log[m].path \in names[i]
    <3>1. CASE data'[i][o] = data[i][o]
      <4>1. v \in DOMAIN log /\ v \in Nat
            BY <1>3, <1>4, <1>6, <3>1 DEF Files, Named
      <4>2. PICK m \in 1..v : log[m].fd = log[v].fd /\ log[m].path \in names[i]
            BY <1>6, <3>1 DEF Files, Named
      <4>3. m \in DOMAIN log /\ m <= v
            BY <1>3, <4>1, <4>2
      <4> QED
          BY <4>1, <4>2, <4>3
    <3>2. CASE data'[i][o] # data[i][o]
      <4>1. PICK it, c : Wrote(it, c, i, o)
            BY <1>4, <1>6, <3>2, CellSteps
      <4>2. v \in IdsOf(it)
            BY <1>6, <4>1 DEF Wrote, IdsOf, ToSet
      <4>3. v \in DOMAIN log /\ log[v].fd = it.fd
            BY <4>1, <4>2 DEF Wrote, ItemOK
      <4>4. PICK m \in DOMAIN log : log[m].path = it.path /\ log[m].fd = it.fd /\ m <= v
            BY <4>1, <4>2 DEF Wrote, ItemOK
      <4>5. it.path \in Paths /\ dir[it.path] = i /\ i # None
            BY <4>1, ItemFacts, WriteBackAssumption DEF Wrote
      <4>6. it.path \in names[i]
            BY <4>5 DEF Files, NamesKept
      <4> QED
          BY <4>3, <4>4, <4>6
    <3> QED
        BY <3>1, <3>2
  <2>2. PICK m \in DOMAIN log : /\ v \in DOMAIN log /\ m <= v
                                /\ log[m].fd = log[v].fd /\ log[m].path \in names[i]
        BY <2>1
  <2>3. /\ m \in DOMAIN log' /\ v \in DOMAIN log' /\ log'[m].fd = log'[v].fd
        /\ log'[m].path \in names'[i]
        BY <1>1, <1>2, <2>2
  <2>4. m \in 1..v
        BY <1>3, <1>4, <1>6, <2>2
  <2> QED
      BY <2>3, <2>4
<1>7. Named'
      BY <1>6 DEF Named
<1>8. GarbageOnlyInTornWrite'
  <2> SUFFICES ASSUME NEW i \in Inodes, NEW o \in Offsets, data'[i][o] = Garbage
               PROVE  /\ drops' > 0
                      /\ \E n, m \in DOMAIN log' :
                           /\ log'[n].path \in names'[i] /\ log'[m].fd = log'[n].fd
                           /\ o < log'[m].off + log'[m].size
      BY DEF GarbageOnlyInTornWrite
  <2>1. /\ drops > 0
        /\ \E n, m \in DOMAIN log : /\ log[n].path \in names[i] /\ log[m].fd = log[n].fd
                                    /\ o < log[m].off + log[m].size
    <3>1. CASE data'[i][o] = data[i][o]
          BY <3>1 DEF Files, GarbageOnlyInTornWrite
    <3>2. CASE data'[i][o] # data[i][o]
      <4>1. PICK it, c : Wrote(it, c, i, o)
            BY <1>4, <3>2, CellSteps
      <4>2. c # drops + 1
            BY <1>4, <4>1 DEF Wrote, Whole
      <4>3. drops > 0
            BY <1>1, <4>1, <4>2 DEF Wrote
      <4>4. it.path \in Paths /\ dir[it.path] = i /\ i # None
            BY <4>1, ItemFacts, WriteBackAssumption DEF Wrote
      <4>5. it.path \in names[i]
            BY <4>4 DEF Files, NamesKept
      <4>6. PICK n \in DOMAIN log : log[n].path = it.path /\ log[n].fd = it.fd
            BY <4>1 DEF Wrote, ItemOK
      <4>7. PICK m \in DOMAIN log : /\ log[m].fd = it.fd
                                    /\ it.off + Len(it.vals) <= log[m].off + log[m].size
            BY <4>1 DEF Wrote, ItemOK
      <4>8. log[m].off \in Nat /\ log[m].size \in Nat
        <5>1. log[m] \in Entries
              BY <1>3
        <5> QED
            BY <5>1, EntryFacts
      <4>9. o \in it.off .. it.off + Len(it.vals) - 1 /\ it.off \in Nat /\ Len(it.vals) \in Nat
            BY <4>1, ItemFacts, WriteBackAssumption DEF Wrote, Offsets
      <4>10. o < log[m].off + log[m].size
            BY <4>7, <4>8, <4>9
      <4> QED
          BY <4>3, <4>5, <4>6, <4>7, <4>10
    <3> QED
        BY <3>1, <3>2
  <2>2. PICK n \in DOMAIN log, m \in DOMAIN log :
               /\ log[n].path \in names[i] /\ log[m].fd = log[n].fd
               /\ o < log[m].off + log[m].size
        BY <2>1
  <2>3. drops' > 0
        BY <1>1, <2>1
  <2> QED
      BY <1>1, <1>2, <2>2, <2>3
<1> QED
    BY <1>5, <1>7, <1>8 DEF Files

(* Bytes that nobody wrote get into a file only through a write request    *)
(* that a broken connection tore (the write and writebulk handlers read on *)
(* a dead socket), and never past the end of what was written through its  *)
(* descriptor number, whatever the number of clients' changes and          *)
(* reconnections.                                                          *)
THEOREM TornWritesOnly == Spec => []GarbageOnlyInTornWrite
<1> DEFINE Inv == Types /\ Order /\ Files
<1>1. Init => Inv
      BY InitTypes, InitOrder, InitFiles
<1>2. Inv /\ [Next]_vars => Inv'
      BY NextTypes, NextOrder, NextFiles
<1>3. Inv => GarbageOnlyInTornWrite
      BY DEF Files
<1> QED
    BY <1>1, <1>2, <1>3, PTL DEF Spec

-----------------------------------------------------------------------------
(* Handles and their numbers, as long as no connection broke               *)

LEMMA InitConnected == Init => Connected
<1> SUFFICES ASSUME Init PROVE Connected
    OBVIOUS
<1>1. /\ up /\ late = <<>> /\ rq = "none" /\ buf = <<>> /\ todo = <<>> /\ DOMAIN <<>> = {}
      /\ \A h \in Handles : hpath[h] = None
      BY DEF Init
<1>2. \A i \in Inodes, o \in Offsets : data[i][o] \notin Ids
      BY WriteBackAssumption DEF Init, Hole, Ids
<1>3. Numbers
      BY <1>1 DEF Numbers, Held, JustOpened
<1>4. Denoted
      BY <1>1 DEF Denoted
<1> QED
    BY <1>2, <1>3, <1>4 DEF Connected, InPlace

(* Steps that leave the table, the open files and the buffer as they are.  *)
LEMMA NumbersFrame ==
  ASSUME Types, Numbers, UNCHANGED <<late, hfh, fds, buf>>, up',
         \A h \in Handles : hpath'[h] # None <=> hpath[h] # None,
         rq' # "release" \/ UNCHANGED <<rq, call>>, ~JustOpened' \/ UNCHANGED <<rq, pc, todo, res>>,
         rq # "release" \/ UNCHANGED <<rq, call>>
  PROVE  Numbers'
<1>1. \A h \in Handles : Held(h)' <=> Held(h)
      BY DEF Held
<1>2. JustOpened' => JustOpened /\ UNCHANGED res
      BY DEF JustOpened
<1> QED
    BY <1>1, <1>2 DEF Numbers

LEMMA NextPlaces ==
  ASSUME Types, Order, Files, Connected, [Next]_vars, drops' = 0
  PROVE  drops = 0 /\ Numbers /\ Denoted /\ InPlace /\ InPlace'
<1>1. drops = 0
      BY LogSteps
<1>2. Numbers /\ Denoted /\ InPlace
      BY <1>1 DEF Connected
<1>3. InPlace'
  <2> SUFFICES ASSUME NEW i \in Inodes, NEW o \in Offsets, data'[i][o] \in Ids
               PROVE  log'[data'[i][o]].file = i
      BY DEF InPlace
  <2>1. CASE data'[i][o] = data[i][o]
    <3>1. data[i][o] \in DOMAIN log /\ log[data[i][o]].file = i
          BY <1>2, <2>1 DEF InPlace, Files, Named
    <3> QED
        BY <2>1, <3>1, LogSteps
  <2>2. CASE data'[i][o] # data[i][o]
    <3>1. Hole \notin Ids
          BY WriteBackAssumption DEF Hole, Ids
    <3>2. PICK it, c : Wrote(it, c, i, o)
          BY <2>2, <3>1, CellSteps
    <3>3. c = drops + 1
          BY <1>1, <3>2 DEF Wrote
    <3>4. ServeWrite /\ it = Head(todo) /\ fds[it.fd] = i /\ log' = log
          BY <3>2, <3>3 DEF Wrote
    <3>5. data'[i][o] \in IdsOf(it)
          BY <3>2 DEF Wrote, IdsOf, ToSet
    <3>6. todo \in Seq(WriteItems) /\ todo # <<>>
          BY <3>4, ServingFacts DEF ServeWrite
    <3>7. Denotes(it)
          BY <1>2, <3>4, <3>6, TailFacts DEF Denoted
    <3> QED
        BY <3>4, <3>5, <3>7 DEF Denotes
  <2> QED
      BY <2>1, <2>2
<1> QED
    BY <1>1, <1>2, <1>3

LEMMA DirectConnected ==
  ASSUME Types, Order, Numbers, Denoted, NEW h \in Handles, NEW o \in Offsets, NEW s \in 1..MaxSize,
         FsWriteDirect(h, o, s)
  PROVE  Numbers' /\ Denoted'
<1> DEFINE x == Entry(h, o, s, FALSE)
<1>1. /\ pc = "idle" /\ hpath[h] # None /\ Room("writes") /\ log' = Append(log, x)
      /\ UNCHANGED <<server, up, hpath, hfh, buf>> /\ rq' = "write"
      BY DEF FsWriteDirect, Start
<1>2. rq = "none" /\ todo = <<>> /\ UNCHANGED <<fds, todo, late, res>>
      BY <1>1 DEF Types, CallTypes, server
<1>3. hfh[h] \in Fakes
      BY <1>1, <1>2 DEF Numbers, Held
<1>4. x \in Entries /\ x.fd = hfh[h] /\ x.file = fds[hfh[h]]
  <2>1. FALSE \in BOOLEAN
        OBVIOUS
  <2>2. \A u \in BOOLEAN : LET e == Entry(h, o, s, u)
                           IN  e \in Entries /\ e.fd = hfh[h] /\ e.file = fds[hfh[h]]
        BY <1>1, <1>3, EntryType
  <2> QED
      BY <2>1, <2>2 DEF x
<1> HIDE DEF x
<1>5. log'[Len(log')] = x /\ \A n \in DOMAIN log : log'[n] = log[n]
      BY <1>1, <1>4, LogGrows
<1>6. Numbers'
      BY <1>1, <1>2, NumbersFrame DEF Numbers, JustOpened
<1>7. \A k \in DOMAIN buf : \A n \in IdsOf(buf[k]) : n \in DOMAIN log
      BY DEF Order, Buffer, ItemOK
<1>8. Denoted'
      BY <1>1, <1>2, <1>3, <1>4, <1>5, <1>7 DEF Denoted, Denotes
<1> QED
    BY <1>6, <1>8

LEMMA BufferedConnected ==
  ASSUME Types, Order, Numbers, Denoted, NEW h \in Handles, NEW o \in Offsets, NEW s \in 1..MaxSize,
         FsWriteBuffered(h, o, s)
  PROVE  Numbers' /\ Denoted'
<1> DEFINE n == Len(log) + 1
           f == hfh[h]
           l == Len(buf')
<1>1. /\ pc = "idle" /\ hpath[h] # None /\ UNCHANGED <<server, up, hpath, hfh>>
      /\ rq' \in {rq, "bulk"}
      BY DEF FsWriteBuffered, Start
<1>2. rq = "none" /\ todo = <<>> /\ UNCHANGED <<fds, todo, late, res>>
      BY <1>1 DEF Types, CallTypes, server
<1>3. Held(h) /\ f \in Fakes
      BY <1>1, <1>2 DEF Numbers, Held
<1>4. /\ DOMAIN buf' = 1..l /\ log'[n].file = fds[f]
      /\ \A m \in DOMAIN log : log'[m] = log[m]
      /\ \A k \in 1..l : k # l => k \in DOMAIN buf /\ buf'[k] = buf[k]
      /\ buf'[l].fd = f
      /\ \/ IdsOf(buf'[l]) = {n}
         \/ l \in DOMAIN buf /\ IdsOf(buf'[l]) = IdsOf(buf[l]) \cup {n} /\ buf[l].fd = f
      BY <1>3, CombinedBuffer
<1> HIDE DEF n, l, f
<1>5. \A g \in Handles : Held(g)' <=> Held(g)
      BY <1>1, <1>2 DEF Held
<1>6. Numbers'
  <2>1. \A k \in DOMAIN buf' : \E g \in Handles : Held(g)' /\ hfh'[g] = buf'[k].fd
    <3> SUFFICES ASSUME NEW k \in 1..l PROVE \E g \in Handles : Held(g)' /\ hfh'[g] = buf'[k].fd
        BY <1>4
    <3>1. CASE k = l
          BY <1>1, <1>3, <1>4, <1>5, <3>1 DEF f
    <3>2. CASE k # l
          BY <1>1, <1>4, <1>5, <3>2 DEF Numbers
    <3> QED
        BY <3>1, <3>2
  <2>2. ~JustOpened' /\ rq' # "release"
        BY <1>1, <1>2 DEF JustOpened
  <2> QED
      BY <1>1, <1>2, <1>5, <2>1, <2>2 DEF Numbers
<1>7. \A k \in DOMAIN buf : \A m \in IdsOf(buf[k]) : m \in DOMAIN log
      BY DEF Order, Buffer, ItemOK
<1>8. ASSUME NEW k \in 1..l, NEW m \in IdsOf(buf'[k]) PROVE log'[m].file = fds[buf'[k].fd]
  <2>1. CASE k = l /\ m = n
        BY <1>4, <2>1
  <2>2. CASE ~(k = l /\ m = n)
    <3>1. k \in DOMAIN buf /\ m \in IdsOf(buf[k]) /\ buf[k].fd = buf'[k].fd
          BY <1>4, <2>2
    <3> QED
        BY <1>4, <1>7, <3>1 DEF Denoted, Denotes
  <2> QED
      BY <2>1, <2>2
<1>9. Denoted'
  <2>1. \A k \in DOMAIN buf' : Denotes(buf[k])'
        BY <1>2, <1>4, <1>8 DEF Denotes
  <2>2. rq' # "write" /\ DOMAIN todo' = {}
        BY <1>1, <1>2
  <2> QED
      BY <2>1, <2>2 DEF Denoted
<1> QED
    BY <1>6, <1>9

LEMMA SendConnected ==
  ASSUME Types, Order, Numbers, Denoted, SendArguments
  PROVE  Numbers' /\ Denoted'
<1>1. /\ pc = "sent" /\ todo' = Items /\ UNCHANGED <<fds, late, up, hpath, hfh, buf, call, rq, log, res>>
      BY DEF SendArguments, ghost
<1>2. CASE rq = "bulk"
  <2>1. Items = buf
        BY <1>1, <1>2, ItemsFacts
  <2>2. ~JustOpened'
        BY <1>1, <1>2 DEF JustOpened
  <2>3. Numbers'
        BY <1>1, <2>2, NumbersFrame DEF Numbers
  <2>4. Denoted'
        BY <1>1, <1>2, <2>1 DEF Denoted, Denotes
  <2> QED
      BY <2>3, <2>4
<1>3. CASE rq = "write"
  <2> DEFINE n == Len(log)
             w == log[n]
             x == WriteItem(w.path, w.fd, w.off, [j \in 1..w.size |-> n])
  <2>1. Items = <<x>> /\ x \in WriteItems /\ n \in DOMAIN log /\ n \in Ids /\ log \in Seq(Entries)
        BY <1>1, <1>3, ItemsFacts DEF Types, ClientTypes
  <2>2. IdsOf(x) = {n} /\ x.fd = w.fd
        BY <2>1, SingleOK
  <2> HIDE DEF x
  <2>3. DOMAIN Items = {1} /\ Items[1] = x
        BY <2>1
  <2>4. ~JustOpened'
        BY <1>1, <1>3 DEF JustOpened
  <2>5. Numbers'
        BY <1>1, <2>4, NumbersFrame DEF Numbers
  <2>6. Denoted'
        BY <1>1, <1>3, <2>2, <2>3 DEF Denoted, Denotes
  <2> QED
      BY <2>5, <2>6
<1>4. CASE rq \notin {"write", "bulk"}
  <2>1. PICK it \in Ops : Items = <<it>>
        BY <1>1, <1>4, ItemsFacts
  <2>2. Items # <<>>
        BY <2>1
  <2>3. Items \notin Seq(WriteItems)
    <3>1. Items \in Reqs /\ Head(Items) = it
          BY <2>1 DEF Reqs
    <3>2. it.k # "write"
          BY DEF Ops
    <3> QED
        BY <2>2, <3>1, <3>2, ReqFacts
  <2>4. ~JustOpened'
        BY <1>1, <2>2 DEF JustOpened
  <2>5. Numbers'
        BY <1>1, <2>4, NumbersFrame DEF Numbers
  <2>6. Denoted'
        BY <1>1, <1>4, <2>3 DEF Denoted, Denotes
  <2> QED
      BY <2>5, <2>6
<1> QED
    BY <1>2, <1>3, <1>4

LEMMA ReturnConnected ==
  ASSUME Types, Order, Numbers, Denoted, InitSocketFails \/ NoOk \/ NoResult \/ ReadResult
  PROVE  /\ Numbers' /\ Denoted'
         /\ Return(res) /\ pc = "args" /\ todo = <<>> /\ res # ECOMM
<1>1. /\ Return(res) /\ pc = "args" /\ todo = <<>> /\ res' = 0
      /\ UNCHANGED <<fds, todo, late, up>>
      BY RequestTypes DEF Numbers
<1>2. UNCHANGED log /\ res # ECOMM
      BY <1>1 DEF Return, Types, ServerTypes, Error, ECOMM
<1>3. rq' \in {"none", "release"} /\ pc' \in {"idle", "init", "done"} /\ buf' \in {buf, <<>>}
      BY <1>1 DEF Return, Opened, WroteDirect, WroteBulk, Released, Renamed, Looked, Idle
<1>4. Denoted'
      BY <1>1, <1>2, <1>3 DEF Denoted, Denotes
<1>5. ~JustOpened' /\ up' /\ late' = <<>>
      BY <1>1, <1>3 DEF JustOpened, Numbers
<1>6. /\ hpath \in [Handles -> Paths \cup {None}] /\ hfh \in [Handles -> 0..MaxFake]
      BY DEF Types, ClientTypes
<1>7. CASE Opened(res)
  <2>1. rq = "open" /\ call.h \in Handles /\ call.path \in Paths /\ hpath[call.h] = None
        BY <1>7 DEF Opened, Types, CallTypes
  <2>2. rq' = "none" /\ buf' = buf
        BY <1>7 DEF Opened, Idle
  <2>3. \A h \in Handles : /\ Held(h) <=> hpath[h] # None
                           /\ Held(h)' <=> hpath'[h] # None
        BY <2>1, <2>2 DEF Held
  <2>4. CASE res >= 0
    <3>1. JustOpened
          BY <1>1, <2>1, <2>4 DEF JustOpened
    <3>2. /\ \A h \in Handles : h # call.h => hpath'[h] = hpath[h] /\ hfh'[h] = hfh[h]
          /\ hfh'[call.h] = res
          BY <1>6, <1>7, <2>1, <2>4 DEF Opened
    <3>3. res \in Fakes /\ fds[res] # None /\ \A h \in Handles : hpath[h] # None => hfh[h] # res
          BY <3>1 DEF Numbers
    <3>4. \A h \in Handles : Held(h)' => hfh'[h] \in Fakes /\ fds'[hfh'[h]] # None
          BY <1>1, <2>1, <2>3, <3>2, <3>3 DEF Numbers
    <3>5. \A g, h \in Handles : hpath'[g] # None /\ hpath'[h] # None /\ g # h => hfh'[g] # hfh'[h]
          BY <2>1, <3>2, <3>3 DEF Numbers
    <3>6. \A k \in DOMAIN buf' : \E h \in Handles : Held(h)' /\ hfh'[h] = buf'[k].fd
          BY <2>1, <2>2, <2>3, <3>2 DEF Numbers
    <3>7. Numbers'
          BY <1>5, <2>2, <3>4, <3>5, <3>6 DEF Numbers
    <3> QED
        BY <1>1, <1>2, <1>4, <3>7
  <2>5. CASE ~(res >= 0)
    <3>1. UNCHANGED <<hpath, hfh>>
          BY <1>7, <2>5 DEF Opened
    <3>2. Numbers'
          BY <1>1, <1>5, <2>1, <2>2, <3>1, NumbersFrame DEF Numbers
    <3> QED
        BY <1>1, <1>2, <1>4, <3>2
  <2> QED
      BY <2>4, <2>5
<1>8. CASE WroteDirect(res) \/ Looked \/ Renamed(res)
  <2>1. rq' = "none" /\ rq # "release" /\ UNCHANGED <<hfh, buf>>
        BY <1>8 DEF WroteDirect, Looked, Renamed, Idle
  <2>2. \A h \in Handles : hpath'[h] # None <=> hpath[h] # None
    <3>1. CASE Renamed(res)
      <4>1. call.path # None /\ call.to # None
            BY <3>1, WriteBackAssumption DEF Renamed, Types, CallTypes
      <4> QED
          BY <3>1, <4>1 DEF Renamed
    <3>2. CASE WroteDirect(res) \/ Looked
          BY <3>2 DEF WroteDirect, Looked
    <3> QED
        BY <1>8, <3>1, <3>2
  <2>3. Numbers'
        BY <1>1, <1>5, <2>1, <2>2, NumbersFrame
  <2> QED
      BY <1>1, <1>2, <1>4, <2>3
<1>9. CASE WroteBulk(res)
  <2>1. buf' = <<>> /\ UNCHANGED <<hpath, hfh>> /\ rq = "bulk"
        BY <1>2, <1>9 DEF WroteBulk
  <2>2. DOMAIN buf' = {}
        BY <2>1
  <2>3. \A h \in Handles : Held(h)' => Held(h)
        BY <2>1 DEF Held
  <2>4. Numbers'
        BY <1>1, <1>5, <2>1, <2>2, <2>3 DEF Numbers
  <2> QED
      BY <1>1, <1>2, <1>4, <2>4
<1>10. CASE Released
  <2>1. rq = "release" /\ rq' = "none" /\ buf' = buf /\ call.h \in Handles
        BY <1>10 DEF Released, Idle, Types, CallTypes
  <2>2. buf = <<>> /\ DOMAIN buf = {}
        BY <2>1 DEF Numbers
  <2>3. /\ hpath'[call.h] = None
        /\ \A h \in Handles : h # call.h => hpath'[h] = hpath[h] /\ hfh'[h] = hfh[h]
        BY <1>6, <1>10, <2>1 DEF Released
  <2>4. \A h \in Handles : Held(h)' => Held(h) /\ h # call.h
        BY <2>1, <2>3 DEF Held
  <2>5. \A h \in Handles : Held(h)' => hfh'[h] \in Fakes /\ fds'[hfh'[h]] # None
        BY <1>1, <2>3, <2>4 DEF Numbers
  <2>6. \A g, h \in Handles : hpath'[g] # None /\ hpath'[h] # None /\ g # h => hfh'[g] # hfh'[h]
        BY <2>3 DEF Numbers
  <2>7. Numbers'
        BY <1>5, <2>1, <2>2, <2>5, <2>6 DEF Numbers
  <2> QED
      BY <1>1, <1>2, <1>4, <2>7
<1> QED
    BY <1>1, <1>7, <1>8, <1>9, <1>10 DEF Return

LEMMA ServeConnected ==
  ASSUME Types, Order, Numbers, Denoted, Serve
  PROVE  Numbers' /\ Denoted'
<1>1. UNCHANGED <<late, client, log>>
      BY DEF Serve, ServeOpen, ServeWrite, ServeRelease, ServeRename, ServeRead, ServeTruncate, ghost
<1>2. UNCHANGED <<up, hpath, hfh, buf, pc, call, rq>>
      BY <1>1 DEF client
<1>3. \A h \in Handles : Held(h)' <=> Held(h)
      BY <1>2 DEF Held
<1>4. fds \in Table /\ hfh \in [Handles -> 0..MaxFake]
      BY DEF Types, ServerTypes, ClientTypes
<1>5. CASE ServeWrite
  <2>1. Serving("write") /\ UNCHANGED fds
        BY <1>5 DEF ServeWrite
  <2>2. /\ todo \in Seq(WriteItems) /\ todo # <<>> /\ todo' = Tail(todo) /\ rq \in {"write", "bulk"}
        BY <2>1, ServingFacts
  <2>3. Numbers'
        BY <1>1, <1>2, <2>1, <2>2, NumbersFrame DEF JustOpened, Numbers
  <2>4. \A k \in DOMAIN todo' : k + 1 \in DOMAIN todo /\ todo'[k] = todo[k + 1]
        BY <2>2, TailFacts
  <2>5. Denoted'
        BY <1>1, <1>2, <2>1, <2>2, <2>4 DEF Denoted, Denotes
  <2> QED
      BY <2>3, <2>5
<1>6. CASE ServeRename \/ ServeRead \/ ServeTruncate
  <2>1. PICK k \in {"rename", "read", "truncate"} : Serving(k)
        BY <1>6 DEF ServeRename, ServeRead, ServeTruncate
  <2>2. UNCHANGED fds
        BY <1>6 DEF ServeRename, ServeRead, ServeTruncate
  <2>3. rq = k /\ todo' = <<>> /\ DOMAIN <<>> = {}
        BY <2>1, ServingFacts
  <2>4. Numbers'
        BY <1>1, <1>2, <2>2, <2>3, NumbersFrame DEF JustOpened, Numbers
  <2>5. Denoted'
        BY <1>1, <1>2, <2>2, <2>3 DEF Denoted, Denotes
  <2> QED
      BY <2>4, <2>5
<1>7. CASE ServeOpen
  <2>1. Serving("open")
        BY <1>7 DEF ServeOpen
  <2>2. rq = "open" /\ todo' = <<>> /\ DOMAIN <<>> = {} /\ pc = "args"
        BY <2>1, ServingFacts
  <2>3. CASE res' = Error /\ UNCHANGED fds
    <3>1. ~JustOpened'
          BY <2>3 DEF JustOpened, Error
    <3>2. Numbers'
          BY <1>1, <1>2, <2>2, <2>3, <3>1, NumbersFrame DEF Numbers
    <3>3. Denoted'
          BY <1>1, <1>2, <2>2, <2>3 DEF Denoted, Denotes
    <3> QED
        BY <3>2, <3>3
  <2>4. ASSUME NEW f \in Fakes, dir[Head(todo).path] # None, FirstFree(f),
               fds' = [fds EXCEPT ![f] = dir[Head(todo).path]], res' = f
        PROVE  Numbers' /\ Denoted'
    <3>1. /\ fds[f] = None /\ fds'[f] # None /\ \A g \in Fakes : g # f => fds'[g] = fds[g]
          BY <1>4, <2>4 DEF FirstFree, Table
    <3>2. \A h \in Handles : Held(h) <=> hpath[h] # None
          BY <2>2 DEF Held
    <3>3. \A h \in Handles : Held(h) => hfh[h] \in Fakes /\ hfh[h] # f /\ fds'[hfh[h]] = fds[hfh[h]]
          BY <3>1 DEF Numbers
    <3>4. \A k \in DOMAIN buf : fds'[buf[k].fd] = fds[buf[k].fd]
          BY <3>3 DEF Numbers
    <3>5. Numbers'
          BY <1>1, <1>2, <1>3, <2>2, <2>4, <3>1, <3>2, <3>3 DEF Numbers
    <3>6. Denoted'
          BY <1>1, <1>2, <2>2, <3>4 DEF Denoted, Denotes
    <3> QED
        BY <3>5, <3>6
  <2> QED
      BY <1>7, <2>3, <2>4 DEF ServeOpen
<1>8. CASE ServeRelease
  <2> DEFINE it == Head(todo)
  <2>1. Serving("release") /\ fds' = IF it.fd \in Fakes THEN [fds EXCEPT ![it.fd] = None] ELSE fds
        BY <1>8 DEF ServeRelease
  <2>2. /\ rq = "release" /\ todo' = <<>> /\ DOMAIN <<>> = {}
        /\ Items = <<it>>
        BY <2>1, ServingFacts
  <2>3. Items = <<ReleaseItem(call.path, hfh[call.h])>>
        BY <2>2 DEF Items
  <2>4. it.fd = hfh[call.h] /\ call.h \in Handles
    <3>1. it = ReleaseItem(call.path, hfh[call.h])
          BY <2>2, <2>3
    <3> QED
        BY <2>2, <3>1 DEF ReleaseItem, Types, CallTypes
  <2> HIDE DEF it
  <2>5. buf = <<>>
        BY <2>2 DEF Numbers
  <2>6. \A h \in Handles : Held(h) => hpath[h] # None /\ h # call.h
        BY <2>2 DEF Held
  <2>7. ASSUME NEW h \in Handles, Held(h) PROVE fds'[hfh[h]] = fds[hfh[h]]
    <3>1. hpath[call.h] # None
          BY <2>2 DEF Types, CallTypes
    <3>2. hfh[h] # it.fd /\ hfh[h] \in Fakes
          BY <2>4, <2>6, <2>7, <3>1 DEF Numbers
    <3> QED
        BY <1>4, <2>1, <3>2 DEF Table
  <2>8. ~JustOpened'
        BY <1>2, <2>2 DEF JustOpened
  <2>9. Numbers'
        BY <1>1, <1>2, <1>3, <2>5, <2>7, <2>8 DEF Numbers
  <2>10. Denoted'
        BY <1>1, <1>2, <2>2, <2>5 DEF Denoted, Denotes
  <2> QED
      BY <2>9, <2>10
<1> QED
    BY <1>5, <1>6, <1>7, <1>8 DEF Serve

LEMMA NextConnected == Types /\ Order /\ Files /\ Connected /\ [Next]_vars => Connected'
<1> SUFFICES ASSUME Types, Order, Files, Connected, [Next]_vars, drops' = 0
             PROVE  Numbers' /\ Denoted'
    BY NextPlaces DEF Connected
<1>0. drops = 0 /\ Numbers /\ Denoted
      BY NextPlaces
<1>1. CASE QuietCall
  <2>1. /\ UNCHANGED <<fds, late, up, hpath, hfh, buf, log, todo, res>>
        /\ pc = "idle" /\ pc' = "init" /\ rq' \notin {"release", "write"}
        BY <1>1, QuietFacts DEF server
  <2>2. rq = "none" /\ ~JustOpened'
        BY <2>1 DEF JustOpened, Types, CallTypes
  <2>3. Numbers'
        BY <1>0, <2>1, <2>2, NumbersFrame DEF Numbers
  <2>4. Denoted'
        BY <1>0, <2>1 DEF Denoted, Denotes
  <2> QED
      BY <2>3, <2>4
<1>2. CASE InitSocket
  <2>1. /\ UNCHANGED <<fds, late, hpath, hfh, buf, log, todo, res, rq, call>> /\ up' /\ pc' = "sent"
        BY <1>2 DEF InitSocket, server, ghost
  <2>2. ~JustOpened'
        BY <2>1 DEF JustOpened
  <2>3. Numbers'
        BY <1>0, <2>1, <2>2, NumbersFrame
  <2>4. Denoted'
        BY <1>0, <2>1 DEF Denoted, Denotes
  <2> QED
      BY <2>3, <2>4
<1>3. CASE Others \/ UNCHANGED vars
  <2>1. UNCHANGED <<fds, late, up, hpath, hfh, buf, log, todo, res, rq, call, pc>>
        BY <1>3, OtherFacts DEF client, server, ghost, vars
  <2>2. Numbers'
        BY <1>0, <2>1, NumbersFrame DEF Numbers
  <2>3. Denoted'
        BY <1>0, <2>1 DEF Denoted, Denotes
  <2> QED
      BY <2>2, <2>3
<1>4. CASE \E n \in DOMAIN late : ServeLate(n)
  <2>1. DOMAIN late = {}
        BY <1>0 DEF Numbers
  <2> QED
      BY <1>4, <2>1
<1>5. CASE Drop
      BY <1>0, <1>5 DEF Drop
<1> QED
    BY <1>0, <1>1, <1>2, <1>3, <1>4, <1>5, Steps, DirectConnected, BufferedConnected, SendConnected,
       ReturnConnected, ServeConnected

(* A write ends up in no file but one that had its name or the name of an  *)
(* earlier write through its descriptor number, and as long as no          *)
(* connection breaks in no file but the one its handle was opened for:     *)
(* LinkMatches, the numbers the worker gives out, and FdsUsed, for any     *)
(* renames, deletions and new files.                                       *)
THEOREM WritesReachTheirFile == Spec => []WritesFindTheirFile
<1>1. Init => Types /\ Order /\ Files /\ Connected
      BY InitTypes, InitOrder, InitFiles, InitConnected
<1>2. (Types /\ Order /\ Files /\ Connected) /\ [Next]_vars
        => (Types /\ Order /\ Files /\ Connected)'
      BY NextTypes, NextOrder, NextFiles, NextConnected
<1>3. Types /\ Order /\ Files /\ Connected => WritesFindTheirFile
      BY DEF Files, Named, Connected, InPlace, WritesFindTheirFile
<1> QED
    BY <1>1, <1>2, <1>3, PTL DEF Spec

-----------------------------------------------------------------------------
(* Acknowledged writes, as long as nothing failed                          *)

LEMMA InitCalm == Init => Calm
<1> SUFFICES ASSUME Init PROVE drops = 0 /\ Untouched /\ Kept
    BY DEF Calm
<1>1. /\ rq = "none" /\ pc = "idle" /\ buf = <<>> /\ acked = {} /\ drops = 0
      /\ \A h \in Handles : hpath[h] = None
      BY DEF Init
<1>2. Untouched
      BY <1>1 DEF Untouched, Held, JustOpened, Flushing
<1>3. Kept
      BY <1>1 DEF Kept, Flushing
<1> QED
    BY <1>1, <1>2, <1>3

LEMMA StaysCalm ==
  ASSUME Types, Order, Files, Connected, Calm, [Next]_vars, calm'
  PROVE  /\ calm /\ drops = 0 /\ drops' = 0 /\ dir' = dir /\ late = <<>>
         /\ Numbers /\ Denoted /\ Untouched /\ Kept
<1>1. calm /\ drops' = drops /\ ~Drop /\ ~Others
  <2>0. ~Drop /\ ~Others
        BY OtherFacts DEF Drop
  <2>1. CASE UNCHANGED <<calm, drops>>
        BY <2>0, <2>1
  <2>2. CASE QuietCall
        BY <2>1, <2>2, QuietFacts
  <2>3. CASE \E h \in Handles, o \in Offsets, s \in 1..MaxSize :
               FsWriteDirect(h, o, s) \/ FsWriteBuffered(h, o, s)
        BY <2>1, <2>3 DEF FsWriteDirect, FsWriteBuffered
  <2>4. CASE InitSocket \/ SendArguments \/ UNCHANGED vars
        BY <2>1, <2>4 DEF InitSocket, SendArguments, ghost, vars
  <2>5. CASE InitSocketFails \/ NoOk \/ NoResult \/ ReadResult
    <3>1. UNCHANGED <<calm, drops>>
          BY <2>5, RequestTypes DEF Return
    <3> QED
        BY <2>1, <3>1
  <2>6. CASE ServeOpen \/ ServeRelease \/ ServeRead \/ ServeTruncate
        BY <2>1, <2>6 DEF ServeOpen, ServeRelease, ServeRead, ServeTruncate, ghost
  <2>7. CASE ServeWrite \/ ServeRename
    <3>1. calm /\ drops' = drops
          BY <2>7 DEF ServeWrite, WriteFails, ServeRename
    <3> QED
        BY <2>0, <3>1
  <2>8. CASE \E n \in DOMAIN late : ServeLate(n)
        BY <2>1, <2>8 DEF ServeLate
  <2> QED
      BY <2>0, <2>2, <2>3, <2>4, <2>5, <2>6, <2>7, <2>8, Steps DEF Serve
<1>2. drops = 0 /\ Untouched /\ Kept
      BY <1>1 DEF Calm
<1>3. Numbers /\ Denoted
      BY <1>2 DEF Connected
<1>4. late = <<>> /\ DOMAIN late = {}
      BY <1>3 DEF Numbers
<1>5. dir' = dir
  <2>1. CASE QuietCall
        BY <2>1, QuietFacts DEF server
  <2>2. CASE \E h \in Handles, o \in Offsets, s \in 1..MaxSize :
               FsWriteDirect(h, o, s) \/ FsWriteBuffered(h, o, s)
        BY <2>2 DEF FsWriteDirect, FsWriteBuffered, server
  <2>3. CASE InitSocket \/ SendArguments \/ UNCHANGED vars
        BY <2>3 DEF InitSocket, SendArguments, server, vars
  <2>4. CASE InitSocketFails \/ NoOk \/ NoResult \/ ReadResult
        BY <2>4, RequestTypes
  <2>5. CASE Serve
        BY <2>5 DEF Serve, ServeOpen, ServeRelease, ServeRead, ServeTruncate, ServeWrite, ServeRename
  <2> QED
      BY <1>1, <1>4, <2>1, <2>2, <2>3, <2>4, <2>5, Steps
<1> QED
    BY <1>1, <1>2, <1>3, <1>4, <1>5

(* Steps that leave the table, the open files and the buffer as they are.  *)
LEMMA CalmFrame ==
  ASSUME Types, Untouched, Kept, UNCHANGED <<dir, fds, hpath, hfh, buf, acked, appliedOn>>,
         (rq' # "release" /\ rq # "release") \/ UNCHANGED <<rq, call>>,
         \/ UNCHANGED <<rq, pc, todo, res, log, call>>
         \/ pc' # "args" /\ (rq' = "bulk" => (rq' = rq /\ UNCHANGED <<call, log>>) \/ call'.op # "write")
  PROVE  Untouched' /\ Kept'
<1>1. \A h \in Handles : Held(h)' <=> Held(h)
      BY DEF Held
<1>2. Waiting' = Waiting /\ Run' = Run
      BY DEF Waiting, Run
<1>3. CASE UNCHANGED <<rq, pc, todo, res, log, call>>
  <2>1. (JustOpened' <=> JustOpened) /\ (Flushing' <=> Flushing)
        BY <1>3 DEF JustOpened, Flushing
  <2>2. Untouched'
        BY <1>1, <1>3, <2>1 DEF Untouched, At
  <2>3. Kept'
        BY <1>2, <1>3, <2>1 DEF Kept, IdsIn
  <2> QED
      BY <2>2, <2>3
<1>4. CASE /\ pc' # "args"
           /\ rq' = "bulk" => (rq' = rq /\ UNCHANGED <<call, log>>) \/ call'.op # "write"
  <2>1. ~JustOpened' /\ ~Flushing'
        BY <1>4 DEF JustOpened, Flushing
  <2>2. Untouched'
        BY <1>1, <1>4, <2>1 DEF Untouched, At
  <2>3. Kept'
        BY <1>2, <1>4, <2>1 DEF Kept
  <2> QED
      BY <2>2, <2>3
<1> QED
    BY <1>3, <1>4

LEMMA BufferedCalm ==
  ASSUME Types, Order, Numbers, Untouched, Kept, UNCHANGED dir,
         NEW h \in Handles, NEW o \in Offsets, NEW s \in 1..MaxSize, FsWriteBuffered(h, o, s)
  PROVE  Untouched' /\ Kept'
<1> DEFINE n == Len(log) + 1
           f == hfh[h]
           l == Len(buf')
<1>1. /\ pc = "idle" /\ hpath[h] # None /\ UNCHANGED <<server, hpath, hfh, appliedOn>>
      /\ rq' \in {rq, "bulk"} /\ pc' \in {pc, "init"} /\ acked' \in {acked, acked \cup {n}}
      BY DEF FsWriteBuffered, Start
<1>2. rq = "none" /\ UNCHANGED fds
      BY <1>1 DEF Types, CallTypes, server
<1>3. \A g \in Handles : (Held(g)' <=> Held(g)) /\ (Held(g) <=> hpath[g] # None)
      BY <1>1, <1>2 DEF Held
<1>4. /\ DOMAIN buf' = 1..l /\ l \in 1..l /\ n \in Ids /\ Len(log') = n /\ buf' \in Seq(WriteItems)
      /\ \A k \in 1..l : k # l => k \in DOMAIN buf /\ buf'[k] = buf[k]
      /\ buf'[l].fd = f
      /\ \/ IdsOf(buf'[l]) = {n} /\ l \notin DOMAIN buf /\ buf'[l].path = hpath[h]
         \/ /\ l \in DOMAIN buf /\ IdsOf(buf'[l]) = IdsOf(buf[l]) \cup {n}
            /\ buf[l].fd = f /\ buf'[l].path = buf[l].path
      /\ \A k \in DOMAIN buf : k \in 1..l
      BY CombinedBuffer
<1> HIDE DEF n, l
<1>5. ~JustOpened' /\ ~Flushing' /\ rq' # "rename" /\ rq' # "write"
      BY <1>1, <1>2 DEF JustOpened, Flushing
<1>6. ASSUME NEW k \in 1..l PROVE \E g \in Handles : At(g, buf[k])'
  <2>1. CASE k # l \/ l \in DOMAIN buf
    <3>1. k \in DOMAIN buf /\ buf'[k].fd = buf[k].fd /\ buf'[k].path = buf[k].path
          BY <1>4, <2>1
    <3>2. PICK g \in Handles : At(g, buf[k])
          BY <3>1 DEF Untouched
    <3> QED
        BY <1>1, <1>3, <3>1, <3>2 DEF At
  <2>2. CASE k = l /\ l \notin DOMAIN buf
    <3>1. buf'[k].fd = hfh[h] /\ buf'[k].path = hpath[h]
          BY <1>4, <2>2
    <3> QED
        BY <1>1, <1>3, <3>1 DEF At
  <2> QED
      BY <2>1, <2>2
<1>7. Untouched'
      BY <1>1, <1>2, <1>3, <1>4, <1>5, <1>6 DEF Untouched
<1>8. Run' = Run
      BY <1>1 DEF Run
<1>9. n \in Waiting' /\ Waiting \subseteq Waiting'
  <2>1. \A k \in DOMAIN buf : IdsOf(buf[k]) \subseteq IdsOf(buf'[k])
        BY <1>4
  <2>2. n \in IdsOf(buf'[l])
        BY <1>4
  <2> QED
      BY <1>4, <2>1, <2>2 DEF Waiting, IdsIn
<1>10. Kept'
       BY <1>1, <1>4, <1>5, <1>8, <1>9 DEF Kept
<1> QED
    BY <1>7, <1>10

LEMMA SendCalm ==
  ASSUME Types, Untouched, Kept, UNCHANGED dir, SendArguments
  PROVE  Untouched' /\ Kept'
<1>1. /\ pc = "sent" /\ todo' = Items /\ pc' = "args"
      /\ UNCHANGED <<fds, hpath, hfh, buf, call, rq, log, acked, appliedOn, res>>
      BY DEF SendArguments, ghost
<1>2. /\ \A h \in Handles : Held(h)' <=> Held(h)
      /\ Waiting' = Waiting /\ Run' = Run
      BY <1>1 DEF Held, Waiting, Run
<1>3. rq = "bulk" => todo' = buf
      BY <1>1, ItemsFacts
<1>4. rq # "bulk" => todo' # <<>>
  <2>1. CASE rq = "write"
    <3>1. PICK x \in WriteItems : Items = <<x>>
          BY <1>1, <2>1, ItemsFacts
    <3> QED
        BY <1>1, <3>1
  <2>2. CASE rq \notin {"write", "bulk"}
    <3>1. PICK it \in Ops : Items = <<it>>
          BY <1>1, <2>2, ItemsFacts
    <3> QED
        BY <1>1, <3>1
  <2> QED
      BY <2>1, <2>2
<1>5. ~JustOpened'
      BY <1>1, <1>4 DEF JustOpened
<1>6. Untouched'
      BY <1>1, <1>2, <1>3, <1>4, <1>5 DEF Untouched, At, Flushing
<1>7. rq = "bulk" => IdsIn(todo') = Waiting
      BY <1>3 DEF Waiting
<1>8. rq = "write" => Tail(todo') = <<>> /\ Len(log) \in IdsOf(Head(todo'))
  <2> SUFFICES ASSUME rq = "write" PROVE Tail(Items) = <<>> /\ Len(log) \in IdsOf(Head(Items))
      BY <1>1
  <2> DEFINE n == Len(log)
             w == log[n]
             x == WriteItem(w.path, w.fd, w.off, [j \in 1..w.size |-> n])
  <2>1. Items = <<x>> /\ x \in WriteItems /\ n \in DOMAIN log /\ n \in Ids /\ log \in Seq(Entries)
        BY <1>1, ItemsFacts DEF Types, ClientTypes
  <2>2. IdsOf(x) = {n}
        BY <2>1, SingleOK
  <2> HIDE DEF x
  <2> QED
      BY <2>1, <2>2
<1>9. Kept'
      BY <1>1, <1>2, <1>4, <1>7, <1>8 DEF Kept, Flushing
<1> QED
    BY <1>6, <1>9

LEMMA ReturnCalm ==
  ASSUME Types, Order, Numbers, Denoted, Untouched, Kept, UNCHANGED dir,
         InitSocketFails \/ NoOk \/ NoResult \/ ReadResult
  PROVE  Untouched' /\ Kept'
<1>1. /\ Return(res) /\ pc = "args" /\ todo = <<>> /\ res # ECOMM
      BY ReturnConnected
<1>2. UNCHANGED <<log, appliedOn, fds>> /\ Run' = Run
      BY <1>1, RequestTypes DEF Return, Run
<1>3. /\ rq' \in {"none", "release"} /\ pc' \in {"idle", "init", "done"}
      /\ ~JustOpened' /\ ~Flushing'
      BY <1>1 DEF Return, Opened, WroteDirect, WroteBulk, Released, Renamed, Looked, Idle, JustOpened,
                  Flushing
<1>4. /\ hpath \in [Handles -> Paths \cup {None}] /\ hfh \in [Handles -> 0..MaxFake]
      BY DEF Types, ClientTypes
<1>5. ASSUME acked' \subseteq Run \cup Waiting' PROVE Kept'
      BY <1>2, <1>3, <1>5 DEF Kept
<1>6. ASSUME \A h \in Handles : Held(h)' => fds[hfh'[h]] = dir[hpath'[h]],
             \A k \in DOMAIN buf' : \E h \in Handles : At(h, buf[k])'
      PROVE  Untouched'
      BY <1>2, <1>3, <1>6 DEF Untouched
<1>7. CASE Opened(res)
  <2>1. rq = "open" /\ call.h \in Handles /\ call.path \in Paths /\ hpath[call.h] = None
        BY <1>7 DEF Opened, Types, CallTypes
  <2>2. rq' = "none" /\ buf' = buf /\ acked' = acked /\ Waiting' = Waiting
        BY <1>7 DEF Opened, Idle, Waiting
  <2>3. \A h \in Handles : /\ Held(h) <=> hpath[h] # None
                           /\ Held(h)' <=> hpath'[h] # None
        BY <2>1, <2>2 DEF Held
  <2>4. /\ \A h \in Handles : h # call.h => hpath'[h] = hpath[h] /\ hfh'[h] = hfh[h]
        /\ \/ hpath'[call.h] = call.path /\ hfh'[call.h] = res /\ JustOpened
           \/ hpath'[call.h] = None
        BY <1>1, <1>4, <1>7, <2>1 DEF Opened, JustOpened
  <2>5. \A h \in Handles : Held(h)' => fds[hfh'[h]] = dir[hpath'[h]]
        BY <2>1, <2>3, <2>4 DEF Untouched
  <2>6. \A k \in DOMAIN buf' : \E h \in Handles : At(h, buf[k])'
        BY <2>1, <2>2, <2>3, <2>4 DEF Untouched, At
  <2>7. acked' \subseteq Run \cup Waiting'
        BY <2>2 DEF Kept
  <2> QED
      BY <1>5, <1>6, <2>5, <2>6, <2>7
<1>8. CASE WroteDirect(res) \/ Looked \/ Renamed(res)
  <2>1. /\ rq' = "none" /\ rq \in {"write", "read", "truncate", "rename"}
        /\ UNCHANGED <<hfh, buf>> /\ Waiting' = Waiting
        BY <1>8 DEF WroteDirect, Looked, Renamed, Idle, Waiting
  <2>2. hpath' = hpath
    <3>1. CASE Renamed(res)
      <4>1. res = Error
            BY <1>1, <3>1 DEF Renamed, Untouched
      <4> QED
          BY <3>1, <4>1 DEF Renamed, Error
    <3> QED
        BY <1>8, <3>1 DEF WroteDirect, Looked
  <2>3. \A h \in Handles : Held(h)' <=> Held(h)
        BY <2>1, <2>2 DEF Held
  <2>4. acked' \subseteq Run \cup Waiting'
        BY <1>1, <1>8, <2>1 DEF Kept, WroteDirect, Looked, Renamed
  <2>5. \A k \in DOMAIN buf' : \E h \in Handles : At(h, buf[k])'
        BY <2>1, <2>2, <2>3 DEF Untouched, At
  <2>6. \A h \in Handles : Held(h)' => fds[hfh'[h]] = dir[hpath'[h]]
        BY <2>1, <2>2, <2>3 DEF Untouched
  <2> QED
      BY <1>5, <1>6, <2>4, <2>5, <2>6
<1>9. CASE WroteBulk(res)
  <2>1. /\ buf' = <<>> /\ UNCHANGED <<hpath, hfh>> /\ rq = "bulk"
        /\ acked' = acked \/ (call.op = "write" /\ acked' = acked \cup {Len(log)})
        BY <1>1, <1>9 DEF WroteBulk
  <2>2. IdsIn(todo) = {} /\ Flushing
        BY <1>1, <2>1, NoIds DEF Flushing
  <2>3. Waiting \subseteq Run
        BY <2>2 DEF Kept
  <2>4. acked' \subseteq Run \cup Waiting'
        BY <2>1, <2>3 DEF Kept
  <2>5. \A h \in Handles : Held(h)' => Held(h)
        BY <2>1 DEF Held
  <2>6. \A h \in Handles : Held(h)' => fds[hfh'[h]] = dir[hpath'[h]]
        BY <2>1, <2>5 DEF Untouched
  <2>7. DOMAIN buf' = {}
        BY <2>1
  <2> QED
      BY <1>5, <1>6, <2>4, <2>6, <2>7
<1>10. CASE Released
  <2>1. rq = "release" /\ rq' = "none" /\ buf' = buf /\ acked' = acked /\ call.h \in Handles
        BY <1>10 DEF Released, Idle, Types, CallTypes
  <2>2. buf = <<>> /\ DOMAIN buf = {} /\ Waiting' = Waiting
        BY <2>1 DEF Numbers, Waiting
  <2>3. /\ hpath'[call.h] = None
        /\ \A h \in Handles : h # call.h => hpath'[h] = hpath[h] /\ hfh'[h] = hfh[h]
        BY <1>4, <1>10, <2>1 DEF Released
  <2>4. \A h \in Handles : Held(h)' => Held(h) /\ h # call.h
        BY <2>1, <2>3 DEF Held
  <2>5. \A h \in Handles : Held(h)' => fds[hfh'[h]] = dir[hpath'[h]]
        BY <2>3, <2>4 DEF Untouched
  <2>6. acked' \subseteq Run \cup Waiting'
        BY <2>1, <2>2 DEF Kept
  <2> QED
      BY <1>5, <1>6, <2>1, <2>2, <2>5, <2>6
<1> QED
    BY <1>1, <1>7, <1>8, <1>9, <1>10 DEF Return

LEMMA IdsInHead ==
  ASSUME NEW s \in Seq(WriteItems), s # <<>>
  PROVE  IdsIn(s) \subseteq IdsOf(Head(s)) \cup IdsIn(Tail(s))
<1> SUFFICES ASSUME NEW n \in IdsIn(s), n \notin IdsOf(Head(s)) PROVE n \in IdsIn(Tail(s))
    OBVIOUS
<1>1. PICK k \in DOMAIN s : n \in IdsOf(s[k])
      BY DEF IdsIn
<1>2. k # 1 /\ DOMAIN s = 1..Len(s) /\ Len(s) \in Nat
      BY <1>1
<1>3. Tail(s) \in Seq(WriteItems) /\ k - 1 \in DOMAIN Tail(s) /\ Tail(s)[k - 1] = s[k]
      BY <1>2
<1> QED
    BY <1>1, <1>3 DEF IdsIn

LEMMA ServeCalm ==
  ASSUME Types, Order, Numbers, Denoted, Untouched, Kept, UNCHANGED dir, calm', drops = 0, Serve
  PROVE  Untouched' /\ Kept'
<1>1. UNCHANGED <<client, log, acked>>
      BY DEF Serve, ServeOpen, ServeWrite, ServeRelease, ServeRename, ServeRead, ServeTruncate, ghost
<1>2. UNCHANGED <<hpath, hfh, buf, pc, call, rq>>
      BY <1>1 DEF client
<1>3. /\ \A h \in Handles : Held(h)' <=> Held(h)
      /\ Waiting' = Waiting
      BY <1>2 DEF Held, Waiting
<1>4. fds \in Table /\ hfh \in [Handles -> 0..MaxFake]
      BY DEF Types, ServerTypes, ClientTypes
<1>5. CASE ServeWrite
  <2> DEFINE it == Head(todo)
  <2>1. Serving("write") /\ UNCHANGED fds
        BY <1>5 DEF ServeWrite
  <2>2. /\ todo \in Seq(WriteItems) /\ todo # <<>> /\ todo' = Tail(todo) /\ rq \in {"write", "bulk"}
        /\ it \in WriteItems /\ pc = "args"
        BY <2>1, ServingFacts
  <2>3. it = todo[1] /\ 1 \in DOMAIN todo
        /\ \A k \in DOMAIN todo' : k + 1 \in DOMAIN todo /\ todo'[k] = todo[k + 1]
        BY <2>2, TailFacts
  <2>4. \/ Pwrite(fds, it, drops + 1)
        \/ WriteFails(fds, it) /\ res' = Error
        BY <1>5 DEF ServeWrite
  <2>5. WriteFails(fds, it) => ~LinkMatches(fds, it) /\ UNCHANGED appliedOn
        BY DEF WriteFails
  <2> HIDE DEF it
  <2>6. \A n \in Ids : /\ appliedOn[n] # 0 => appliedOn'[n] # 0
                       /\ Pwrite(fds, it, drops + 1) /\ n \in IdsOf(it) => appliedOn'[n] # 0
        BY <1>4, <2>2, <2>4, <2>5, PwriteFacts
  <2>7. Run \subseteq Run' /\ (Pwrite(fds, it, drops + 1) => IdsOf(it) \subseteq Run')
        BY <2>6 DEF Run, IdsOf
  <2>8. rq = "bulk" => LinkMatches(fds, it)
    <3> SUFFICES ASSUME rq = "bulk" PROVE LinkMatches(fds, it)
        OBVIOUS
    <3>1. PICK h \in Handles : At(h, it)
          BY <2>2, <2>3 DEF Untouched, Flushing
    <3>2. Held(h) /\ hfh[h] = it.fd /\ hpath[h] = it.path
          BY <3>1 DEF At
    <3>3. it.fd \in Fakes /\ fds[it.fd] # None /\ fds[it.fd] = dir[it.path]
          BY <3>2 DEF Numbers, Untouched
    <3> QED
        BY <3>3 DEF LinkMatches
  <2>9. Untouched'
    <3>1. ~JustOpened' /\ rq' # "rename"
          BY <1>2, <2>2 DEF JustOpened
    <3>2. Flushing' => \A k \in DOMAIN todo' : \E h \in Handles : At(h, todo[k])'
          BY <1>2, <1>3, <2>3 DEF Untouched, Flushing, At
    <3> QED
        BY <1>2, <1>3, <2>1, <3>1, <3>2 DEF Untouched, At
  <2>10. Flushing' => Waiting' \subseteq Run' \cup IdsIn(todo')
    <3> SUFFICES ASSUME rq = "bulk" PROVE Waiting \subseteq Run' \cup IdsIn(Tail(todo))
        BY <1>2, <1>3, <2>2 DEF Flushing
    <3>1. IdsOf(it) \subseteq Run'
          BY <2>4, <2>5, <2>7, <2>8
    <3>2. IdsIn(todo) \subseteq IdsOf(it) \cup IdsIn(Tail(todo))
          BY <2>2, IdsInHead DEF it
    <3>3. Waiting \subseteq Run \cup IdsIn(todo)
          BY <2>2 DEF Kept, Flushing
    <3> QED
        BY <2>7, <3>1, <3>2, <3>3
  <2>11. rq = "write" /\ todo' = <<>> /\ res' > 0 => Len(log) \in Run'
    <3> SUFFICES ASSUME rq = "write", res' > 0 PROVE Len(log) \in Run'
        OBVIOUS
    <3>1. Pwrite(fds, it, drops + 1)
          BY <2>4 DEF Error
    <3>2. Len(log) \in IdsOf(it)
          BY <2>2 DEF Kept, it
    <3> QED
        BY <2>7, <3>1, <3>2
  <2>12. rq = "write" => todo' = <<>>
         BY <2>2 DEF Kept
  <2>13. Kept'
         BY <1>1, <1>2, <1>3, <2>7, <2>10, <2>11, <2>12 DEF Kept
  <2> QED
      BY <2>9, <2>13
<1>6. CASE ServeRename \/ ServeRead \/ ServeTruncate
  <2>1. PICK k \in {"rename", "read", "truncate"} : Serving(k)
        BY <1>6 DEF ServeRename, ServeRead, ServeTruncate
  <2>2. UNCHANGED <<fds, appliedOn>>
        BY <1>6 DEF ServeRename, ServeRead, ServeTruncate
  <2>3. rq = k
        BY <2>1, ServingFacts
  <2>4. rq = "rename" => res' = Error
        BY <1>6, <2>1, <2>3 DEF ServeRename, ServeRead, ServeTruncate, Serving
  <2>5. ~JustOpened' /\ ~Flushing'
        BY <1>2, <2>3 DEF JustOpened, Flushing
  <2>6. Untouched'
        BY <1>2, <1>3, <2>2, <2>4, <2>5 DEF Untouched, At
  <2>7. Run' = Run
        BY <2>2 DEF Run
  <2>8. Kept'
        BY <1>1, <1>2, <1>3, <2>3, <2>5, <2>7 DEF Kept
  <2> QED
      BY <2>6, <2>8
<1>7. CASE ServeOpen \/ ServeRelease
  <2>1. /\ rq \in {"open", "release"} /\ UNCHANGED appliedOn
        /\ Items = <<Head(todo)>>
    <3>1. PICK k \in {"open", "release"} : Serving(k)
          BY <1>7 DEF ServeOpen, ServeRelease
    <3>2. UNCHANGED appliedOn
          BY <1>7 DEF ServeOpen, ServeRelease, ghost
    <3> QED
        BY <3>1, <3>2, ServingFacts
  <2>2. ~Flushing' /\ Run' = Run
        BY <1>2, <2>1 DEF Flushing, Run
  <2>3. Kept'
        BY <1>1, <1>2, <1>3, <2>1, <2>2 DEF Kept
  <2>4. ASSUME \A h \in Handles : Held(h) => fds'[hfh[h]] = fds[hfh[h]],
               JustOpened' => fds'[res'] = dir[call.path]
        PROVE  Untouched'
        BY <1>2, <1>3, <2>1, <2>2, <2>4 DEF Untouched, At
  <2>5. CASE ServeOpen
    <3>1. rq = "open"
          BY <2>5, ServingFacts DEF ServeOpen
    <3>2. Head(todo).path = call.path
      <4>1. Items = <<OpenItem(call.path)>>
            BY <3>1 DEF Items
      <4>2. Head(todo) = OpenItem(call.path)
            BY <2>1, <4>1
      <4> QED
          BY <4>2 DEF OpenItem
    <3>3. CASE res' = Error /\ UNCHANGED fds
      <4>1. ~JustOpened'
            BY <3>3 DEF JustOpened, Error
      <4> QED
          BY <2>3, <2>4, <3>3, <4>1
    <3>4. ASSUME NEW f \in Fakes, FirstFree(f), fds' = [fds EXCEPT ![f] = dir[call.path]], res' = f
          PROVE  Untouched'
      <4>1. /\ fds[f] = None /\ fds'[f] = dir[call.path]
            /\ \A g \in Fakes : g # f => fds'[g] = fds[g]
            BY <1>4, <3>4 DEF FirstFree, Table
      <4>2. \A h \in Handles : Held(h) => fds'[hfh[h]] = fds[hfh[h]]
            BY <4>1 DEF Numbers
      <4> QED
          BY <2>4, <3>4, <4>1, <4>2
    <3> QED
        BY <2>3, <2>5, <3>2, <3>3, <3>4 DEF ServeOpen
  <2>6. CASE ServeRelease
    <3> DEFINE it == Head(todo)
    <3>1. /\ rq = "release" /\ fds' = IF it.fd \in Fakes THEN [fds EXCEPT ![it.fd] = None] ELSE fds
          BY <2>6, ServingFacts DEF ServeRelease
    <3>2. it.fd = hfh[call.h] /\ call.h \in Handles /\ hpath[call.h] # None
      <4>1. Items = <<ReleaseItem(call.path, hfh[call.h])>>
            BY <3>1 DEF Items
      <4>2. it = ReleaseItem(call.path, hfh[call.h])
            BY <2>1, <4>1
      <4> QED
          BY <3>1, <4>2 DEF ReleaseItem, Types, CallTypes
    <3> HIDE DEF it
    <3>3. ASSUME NEW h \in Handles, Held(h) PROVE fds'[hfh[h]] = fds[hfh[h]]
      <4>1. hpath[h] # None /\ h # call.h
            BY <3>1, <3>3 DEF Held
      <4>2. hfh[h] # it.fd /\ hfh[h] \in Fakes
            BY <3>2, <3>3, <4>1 DEF Numbers
      <4> QED
          BY <1>4, <3>1, <4>2 DEF Table
    <3>4. ~JustOpened'
          BY <1>2, <3>1 DEF JustOpened
    <3> QED
        BY <2>3, <2>4, <3>3, <3>4
  <2> QED
      BY <1>7, <2>5, <2>6
<1> QED
    BY <1>5, <1>6, <1>7 DEF Serve

LEMMA NextCalm == Types /\ Order /\ Files /\ Connected /\ Calm /\ [Next]_vars => Calm'
<1> SUFFICES ASSUME Types, Order, Files, Connected, Calm, [Next]_vars, calm'
             PROVE  Untouched' /\ Kept'
    BY StaysCalm DEF Calm
<1>0. /\ calm /\ drops = 0 /\ dir' = dir /\ DOMAIN late = {}
      /\ Numbers /\ Denoted /\ Untouched /\ Kept
      BY StaysCalm
<1>1. CASE QuietCall
  <2>1. /\ UNCHANGED <<fds, hpath, hfh, buf, acked, appliedOn, log>>
        /\ pc = "idle" /\ pc' = "init" /\ rq' # "release" /\ (rq' = "bulk" => call'.op # "write")
        BY <1>1, QuietFacts DEF server
  <2>2. rq = "none"
        BY <2>1 DEF Types, CallTypes
  <2> QED
      BY <1>0, <2>1, <2>2, CalmFrame
<1>2. ASSUME NEW h \in Handles, NEW o \in Offsets, NEW s \in 1..MaxSize, FsWriteDirect(h, o, s)
      PROVE  Untouched' /\ Kept'
  <2>1. /\ UNCHANGED <<fds, hpath, hfh, buf, acked, appliedOn>>
        /\ pc = "idle" /\ pc' = "init" /\ rq' = "write"
        BY <1>2 DEF FsWriteDirect, Start, server
  <2>2. rq = "none"
        BY <2>1 DEF Types, CallTypes
  <2> QED
      BY <1>0, <2>1, <2>2, CalmFrame
<1>3. CASE InitSocket
  <2>1. /\ UNCHANGED <<fds, hpath, hfh, buf, acked, appliedOn, log, rq, call>> /\ pc' = "sent"
        BY <1>3 DEF InitSocket, server, ghost
  <2> QED
      BY <1>0, <2>1, CalmFrame
<1>4. CASE UNCHANGED vars
  <2>1. UNCHANGED <<fds, hpath, hfh, buf, acked, appliedOn, log, rq, call, pc, todo, res>>
        BY <1>4 DEF vars, client, server, ghost
  <2> QED
      BY <1>0, <2>1, CalmFrame
<1>5. ~Drop /\ ~Others /\ ~\E n \in DOMAIN late : ServeLate(n)
      BY <1>0, OtherFacts DEF Drop
<1> QED
    BY <1>0, <1>1, <1>2, <1>3, <1>4, <1>5, Steps, BufferedCalm, SendCalm, ReturnCalm, ServeCalm

(* Without a failure to blame no write that fs_write reported as done is   *)
(* lost, for any number of files, of writes and of open handles: it was    *)
(* run, or it waits in the buffer and its descriptor number is still open  *)
(* (the flushes of fs_write and fs_release, and the numbers fs_open gets). *)
THEOREM AcknowledgedNotLost == Spec => []AckedNotLost
<1>1. Init => Types /\ Order /\ Files /\ Connected /\ Calm
      BY InitTypes, InitOrder, InitFiles, InitConnected, InitCalm
<1>2. (Types /\ Order /\ Files /\ Connected /\ Calm) /\ [Next]_vars
        => (Types /\ Order /\ Files /\ Connected /\ Calm)'
      BY NextTypes, NextOrder, NextFiles, NextConnected, NextCalm
<1>3. Types /\ Order /\ Files /\ Connected /\ Calm => AckedNotLost
  <2> SUFFICES ASSUME Calm, calm, NEW n \in acked
               PROVE  \/ appliedOn[n] # 0
                      \/ \E k \in DOMAIN buf :
                           /\ n \in ToSet(buf[k].vals)
                           /\ pc = "idle" => \E h \in Handles : hpath[h] # None /\ hfh[h] = buf[k].fd
      BY DEF AckedNotLost
  <2>1. n \in Run \/ n \in Waiting
        BY DEF Calm, Kept
  <2>2. ASSUME n \in Waiting
        PROVE  \E k \in DOMAIN buf :
                 /\ n \in ToSet(buf[k].vals)
                 /\ \E h \in Handles : hpath[h] # None /\ hfh[h] = buf[k].fd
    <3>1. PICK k \in DOMAIN buf : n \in IdsOf(buf[k])
          BY <2>2 DEF Waiting, IdsIn
    <3>2. \E h \in Handles : At(h, buf[k])
          BY DEF Calm, Untouched
    <3> QED
        BY <3>1, <3>2 DEF IdsOf, At, Held
  <2> QED
      BY <2>1, <2>2 DEF Run
<1> QED
    BY <1>1, <1>2, <1>3, PTL DEF Spec

-----------------------------------------------------------------------------
(* Reads and truncates, as long as nothing failed                          *)

LEMMA InitReading == Init => Reading
<1> SUFFICES ASSUME Init PROVE CellsShown /\ ReadShown /\ CutsKept
    BY DEF Reading
<1>1. Run = {} /\ cuts = {} /\ seen = NoRead
      BY DEF Init, Run
<1>2. seen.run = {} /\ seen.val \notin Ids
      BY <1>1, WriteBackAssumption DEF NoRead, Hole, Ids
<1> QED
    BY <1>1, <1>2 DEF CellsShown, ReadShown, CutsKept

LEMMA RunLogged == Types /\ Order => Run \subseteq DOMAIN log
  BY DEF Order, Queues, Run

LEMMA LogIds == Types => DOMAIN log \subseteq Ids
<1> SUFFICES ASSUME Types PROVE DOMAIN log \subseteq Ids
    OBVIOUS
<1>1. log \in Seq(Entries) /\ Len(log) <= MaxWrites /\ MaxWrites \in Nat
      BY WriteBackAssumption DEF Types, ClientTypes
<1>2. DOMAIN log = 1..Len(log) /\ Len(log) \in Nat
      BY <1>1
<1> QED
    BY <1>1, <1>2 DEF Ids

(* More writes and more truncates do not change what is shown.             *)
LEMMA ShownStays ==
  ASSUME NEW L, NEW M, NEW C, NEW D, NEW v, NEW n \in DOMAIN L, NEW o,
         \A m \in DOMAIN L : M[m] = L[m], v \in Ids => v \in DOMAIN L, C \subseteq D,
         Shown(v, n, o, L, C)
  PROVE  Shown(v, n, o, M, D)
<1>1. CASE v >= n
      BY <1>1 DEF Shown
<1>2. CASE v \in Ids /\ L[v].fd # L[n].fd
      BY <1>2 DEF Shown
<1>3. CASE \E c \in C : c.file = L[n].file /\ n \in c.run /\ c.len <= o
      BY <1>3 DEF Shown
<1> QED
    BY <1>1, <1>2, <1>3 DEF Shown

(* Steps that leave the files as they are.                                 *)
LEMMA LooksKept ==
  ASSUME Types, Order, Files, CellsShown, ReadShown, CutsKept, [Next]_vars,
         UNCHANGED <<data, appliedOn, cuts>>
  PROVE  /\ CellsShown' /\ CutsKept'
         /\ UNCHANGED seen => ReadShown'
<1>1. /\ Run' = Run /\ Run \subseteq DOMAIN log
      /\ \A m \in DOMAIN log : m \in DOMAIN log' /\ log'[m] = log[m]
      BY RunLogged, LogSteps DEF Run
<1>2. CellsShown'
  <2> SUFFICES ASSUME NEW n \in Run, NEW o \in Offsets, Covers(n, o)'
               PROVE  /\ log'[n].file \in Inodes
                      /\ Shown(data[log'[n].file][o], n, o, log', cuts)
      BY <1>1 DEF CellsShown
  <2> DEFINE i == log[n].file
             v == data[i][o]
  <2>1. Covers(n, o) /\ n \in DOMAIN log /\ log'[n] = log[n]
        BY <1>1 DEF Covers
  <2>2. i \in Inodes /\ Shown(v, n, o, log, cuts)
        BY <2>1 DEF CellsShown
  <2>3. v \in Ids => v \in DOMAIN log
        BY <2>2 DEF Files, Named
  <2> HIDE DEF v
  <2>4. Shown(v, n, o, log', cuts)
        BY <1>1, <2>1, <2>2, <2>3, ShownStays
  <2> QED
      BY <2>1, <2>2, <2>4 DEF v
<1>3. CutsKept'
      BY <1>1 DEF CutsKept
<1>4. ASSUME UNCHANGED seen PROVE ReadShown'
  <2>1. ASSUME NEW n \in seen.run, log'[n].fd = seen.fd, log'[n].file = seen.file,
               Covers(n, seen.at)'
        PROVE  Shown(seen.val, n, seen.at, log', cuts)
    <3>1. n \in DOMAIN log /\ log'[n] = log[n] /\ UNCHANGED seen
          BY <1>1, <1>4 DEF ReadShown
    <3>2. Covers(n, seen.at)
          BY <2>1, <3>1 DEF Covers
    <3>3. Shown(seen.val, n, seen.at, log, cuts)
          BY <2>1, <3>1, <3>2 DEF ReadShown
    <3> QED
        BY <1>1, <3>1, <3>3, ShownStays DEF ReadShown
  <2> QED
      BY <1>1, <1>4, <2>1 DEF ReadShown
<1> QED
    BY <1>2, <1>3, <1>4

LEMMA WriteShown ==
  ASSUME Types, Order, Files, Denoted, CellsShown, ReadShown, CutsKept, drops = 0,
         [Next]_vars, ServeWrite
  PROVE  CellsShown' /\ ReadShown' /\ CutsKept'
<1> DEFINE it == Head(todo)
<1>1. Serving("write") /\ UNCHANGED <<log, seen, cuts, drops>>
      BY DEF ServeWrite, looks
<1>2. /\ todo \in Seq(WriteItems) /\ todo # <<>> /\ it \in WriteItems
      BY <1>1, ServingFacts
<1>3. it = todo[1] /\ 1 \in DOMAIN todo
      BY <1>2, TailFacts
<1>4. CASE UNCHANGED <<data, appliedOn>>
      BY <1>1, <1>4, LooksKept
<1>5. CASE Pwrite(fds, it, drops + 1)
  <2> HIDE DEF it
  <2>1. fds \in Table /\ drops + 1 \in Nat /\ drops + 1 = 1
        BY DEF Types, ServerTypes
  <2>2. /\ fds[it.fd] \in Inodes
        /\ \A i \in Inodes : i # fds[it.fd] => data'[i] = data[i]
        /\ \A o \in Offsets : data'[fds[it.fd]][o] =
             IF o \in it.off .. it.off + Len(it.vals) - 1
             THEN it.vals[o - it.off + 1] ELSE data[fds[it.fd]][o]
        /\ \A o \in it.off .. it.off + Len(it.vals) - 1 : o - it.off + 1 \in DOMAIN it.vals
        /\ \A n \in Ids : appliedOn'[n] = IF n \in IdsOf(it) THEN 1 ELSE appliedOn[n]
        BY <1>2, <1>5, <2>1, PwriteFacts
  <2>3. Run' = Run \cup IdsOf(it) /\ Run \subseteq DOMAIN log
        BY <2>2, RunLogged DEF Run, IdsOf
  <2>4. /\ ItemOK(it, log) /\ Whole(it, log) /\ Denotes(it)
        /\ \A n \in IdsOf(it), m \in DOMAIN log : appliedOn[m] = 1 /\ log[m].fd = it.fd => m < n
        BY <1>2, <1>3, <2>1 DEF Order, Queues, Queue, AfterRun, Denoted
  <2>5. \A n \in Run : appliedOn[n] = 1
        BY <2>1 DEF Order, Queues, Run, Types, ClientTypes
  <2>6. ASSUME NEW i \in Inodes, NEW o \in Offsets, data'[i][o] # data[i][o]
        PROVE  /\ i = fds[it.fd] /\ data'[i][o] \in IdsOf(it) /\ log[data'[i][o]].fd = it.fd
    <3>1. i = fds[it.fd] /\ o \in it.off .. it.off + Len(it.vals) - 1
          BY <2>2, <2>6
    <3>2. o - it.off + 1 \in DOMAIN it.vals /\ data'[i][o] = it.vals[o - it.off + 1]
          BY <2>2, <3>1
    <3>3. data'[i][o] \in IdsOf(it)
          BY <2>4, <3>2 DEF Whole, IdsOf, ToSet
    <3> QED
        BY <2>4, <3>1, <3>3 DEF ItemOK
  <2>7. CellsShown'
    <3> SUFFICES ASSUME NEW n \in Run', NEW o \in Offsets, Covers(n, o)
                 PROVE  log[n].file \in Inodes /\ Shown(data'[log[n].file][o], n, o, log, cuts)
        BY <1>1 DEF CellsShown, Covers
    <3>0. n \in Nat
          BY DEF Run, Ids
    <3>1. CASE n \in IdsOf(it)
      <4>1. log[n].file = fds[it.fd]
            BY <2>4, <3>1 DEF Denotes
      <4>2. o - it.off + 1 \in 1..Len(it.vals) /\ it.vals[o - it.off + 1] = n
            BY <2>4, <3>1 DEF Whole, Covers
      <4>3. o \in it.off .. it.off + Len(it.vals) - 1
            BY <1>2, <4>2, ItemFacts, WriteBackAssumption DEF Offsets
      <4>4. data'[log[n].file][o] = n
            BY <2>2, <4>1, <4>2, <4>3
      <4> QED
          BY <2>2, <3>0, <4>1, <4>4 DEF Shown
    <3>2. CASE n \notin IdsOf(it)
      <4> DEFINE i == log[n].file
                 v == data'[i][o]
      <4>1. n \in Run
            BY <2>3, <3>2
      <4>2. i \in Inodes /\ Shown(data[i][o], n, o, log, cuts)
            BY <4>1 DEF CellsShown
      <4>3. CASE v = data[i][o]
            BY <4>2, <4>3
      <4>4. CASE v # data[i][o]
        <5>1. v \in IdsOf(it) /\ log[v].fd = it.fd /\ v \in Ids
              BY <2>6, <4>2, <4>4 DEF IdsOf
        <5> HIDE DEF v
        <5>2. log[n].fd = it.fd => n < v
              BY <2>3, <2>4, <2>5, <4>1, <5>1
        <5>3. v \in Nat
              BY <5>1 DEF Ids
        <5>4. Shown(v, n, o, log, cuts)
              BY <3>0, <5>1, <5>2, <5>3 DEF Shown
        <5> QED
            BY <4>2, <5>4 DEF v
      <4> QED
          BY <4>3, <4>4
    <3> QED
        BY <3>1, <3>2
  <2>8. CutsKept'
    <3> SUFFICES ASSUME NEW c \in cuts, NEW o \in Offsets, o >= c.len, data'[c.file][o] \in c.run
                 PROVE  FALSE
        BY <1>1, <2>3 DEF CutsKept
    <3> DEFINE v == data'[c.file][o]
    <3>1. c.file \in Inodes /\ data[c.file][o] \notin c.run /\ v \in Run
          BY DEF CutsKept
    <3>2. v \in IdsOf(it) /\ log[v].fd = it.fd
          BY <2>6, <3>1
    <3> HIDE DEF v
    <3>3. v < v /\ v \in Nat
          BY <2>3, <2>4, <2>5, <3>1, <3>2 DEF Run, Ids
    <3> QED
        BY <3>3
  <2>9. ReadShown'
        BY <1>1, <2>3 DEF ReadShown, Covers
  <2> QED
      BY <2>7, <2>8, <2>9
<1> QED
    BY <1>4, <1>5 DEF ServeWrite, WriteFails

LEMMA ReadKept ==
  ASSUME Types, Order, Files, CellsShown, ReadShown, CutsKept, [Next]_vars, ServeRead
  PROVE  CellsShown' /\ ReadShown' /\ CutsKept'
<1> DEFINE it == Head(todo)
<1>1. Serving("read") /\ UNCHANGED <<log, data, appliedOn, cuts>>
      BY DEF ServeRead
<1>2. CellsShown' /\ CutsKept' /\ (UNCHANGED seen => ReadShown')
      BY <1>1, LooksKept
<1>3. it.off \in Offsets
  <2>1. it \in Ops /\ it.k = "read"
        BY <1>1, ServingFacts
  <2> QED
      BY <2>1, OpFacts
<1>4. CASE LinkMatches(fds, it)
  <2> DEFINE i == fds[it.fd]
  <2>1. i \in Inodes
        BY <1>4 DEF LinkMatches, Types, ServerTypes, Table, Inode
  <2>2. /\ seen'.fd = it.fd /\ seen'.file = i /\ seen'.at = it.off /\ seen'.val = data[i][it.off]
        /\ seen'.run = {n \in DOMAIN log : appliedOn[n] # 0}
        BY <1>4 DEF ServeRead
  <2> HIDE DEF it
  <2>3. seen'.val \in Ids => seen'.val \in DOMAIN log
        BY <1>3, <2>1, <2>2 DEF Files, Named
  <2>4. seen'.run \subseteq Run /\ Run' = Run
    <3>1. DOMAIN log \subseteq Ids
          BY LogIds
    <3> QED
        BY <1>1, <2>2, <3>1 DEF Run
  <2>5. \A n \in seen'.run :
          log[n].fd = seen'.fd /\ log[n].file = seen'.file /\ Covers(n, seen'.at) =>
            Shown(seen'.val, n, seen'.at, log, cuts)
        BY <1>3, <2>2, <2>4 DEF CellsShown
  <2>6. ReadShown'
        BY <1>1, <2>3, <2>4, <2>5 DEF ReadShown, Covers
  <2> QED
      BY <1>2, <2>6
<1>5. CASE ~LinkMatches(fds, it)
      BY <1>2, <1>5 DEF ServeRead
<1> QED
    BY <1>4, <1>5

LEMMA TruncateKept ==
  ASSUME Types, Order, Files, CellsShown, ReadShown, CutsKept, [Next]_vars, ServeTruncate
  PROVE  CellsShown' /\ ReadShown' /\ CutsKept'
<1> DEFINE it == Head(todo)
           d  == dir[it.path]
           x  == [file |-> d, len |-> it.len, run |-> {n \in DOMAIN log : appliedOn[n] # 0}]
<1>1. Serving("truncate") /\ UNCHANGED <<log, appliedOn, seen>>
      BY DEF ServeTruncate
<1>2. it.path \in Paths /\ it.len \in Offsets
  <2>1. it \in Ops /\ it.k = "truncate"
        BY <1>1, ServingFacts
  <2> QED
      BY <2>1, OpFacts
<1>3. CASE UNCHANGED <<data, cuts>>
      BY <1>1, <1>3, LooksKept
<1>4. CASE Truncate(it)
  <2> HIDE DEF it
  <2>1. d \in Inodes /\ cuts' = cuts \cup {x}
        BY <1>2, <1>4 DEF Truncate, Types, ServerTypes, Inode
  <2>2. /\ \A i \in Inodes : i # d => data'[i] = data[i]
        /\ \A o \in Offsets : data'[d][o] = IF o >= it.len THEN Hole ELSE data[d][o]
        BY <1>2, <1>4, TruncateFacts
  <2>3. Run' = Run /\ x.run = Run /\ x.file = d /\ x.len = it.len
    <3>1. DOMAIN log \subseteq Ids /\ Run \subseteq DOMAIN log
          BY RunLogged, LogIds
    <3> QED
        BY <1>1, <3>1 DEF Run
  <2>4. Hole \notin Run
        BY DEF Run, Ids, Hole
  <2> HIDE DEF x, d
  <2>5. CellsShown'
    <3> SUFFICES ASSUME NEW n \in Run, NEW o \in Offsets, Covers(n, o)
                 PROVE  log[n].file \in Inodes /\ Shown(data'[log[n].file][o], n, o, log, cuts')
        BY <1>1, <2>3 DEF CellsShown, Covers
    <3> DEFINE i == log[n].file
    <3>1. i \in Inodes /\ Shown(data[i][o], n, o, log, cuts)
          BY DEF CellsShown
    <3>2. CASE i = d /\ o >= it.len
      <4>1. it.len <= o
            BY <1>2, <3>2, WriteBackAssumption DEF Offsets
      <4>2. x \in cuts' /\ x.file = log[n].file /\ n \in x.run /\ x.len <= o
            BY <2>1, <2>3, <3>2, <4>1
      <4> QED
          BY <3>1, <4>2 DEF Shown
    <3>3. CASE ~(i = d /\ o >= it.len)
      <4>1. data'[i][o] = data[i][o]
            BY <2>2, <3>1, <3>3
      <4>2. cuts \subseteq cuts'
            BY <2>1
      <4> QED
          BY <3>1, <4>1, <4>2 DEF Shown
    <3> QED
        BY <3>2, <3>3
  <2>6. CutsKept'
    <3> SUFFICES ASSUME NEW c \in cuts'
                 PROVE  /\ c.file \in Inodes /\ c.run \subseteq Run
                        /\ \A o \in Offsets : o >= c.len => data'[c.file][o] \notin c.run
        BY <2>3 DEF CutsKept
    <3>1. CASE c = x
          BY <2>1, <2>2, <2>3, <2>4, <3>1
    <3>2. CASE c \in cuts
      <4>1. /\ c.file \in Inodes /\ c.run \subseteq Run
            /\ \A o \in Offsets : o >= c.len => data[c.file][o] \notin c.run
            BY <3>2 DEF CutsKept
      <4>2. \A o \in Offsets : data'[c.file][o] = data[c.file][o] \/ data'[c.file][o] = Hole
            BY <2>2, <4>1
      <4> QED
          BY <2>4, <4>1, <4>2
    <3> QED
        BY <2>1, <3>1, <3>2
  <2>7. ReadShown'
    <3>1. cuts \subseteq cuts'
          BY <2>1
    <3>2. \A n, o : Shown(seen.val, n, o, log, cuts) => Shown(seen.val, n, o, log, cuts')
          BY <3>1 DEF Shown
    <3> QED
        BY <1>1, <2>3, <3>2 DEF ReadShown, Covers
  <2> QED
      BY <2>5, <2>6, <2>7
<1> QED
    BY <1>3, <1>4 DEF ServeTruncate

LEMMA NextReading ==
  Types /\ Order /\ Files /\ Connected /\ Calm /\ Reading /\ [Next]_vars => Reading'
<1> SUFFICES ASSUME Types, Order, Files, Connected, Calm, Reading, [Next]_vars, calm'
             PROVE  CellsShown' /\ ReadShown' /\ CutsKept'
    BY DEF Reading
<1>1. /\ drops = 0 /\ Denoted /\ ~Drop /\ ~Others /\ ~\E n \in DOMAIN late : ServeLate(n)
      /\ CellsShown /\ ReadShown /\ CutsKept
  <2>1. calm /\ drops = 0 /\ Denoted /\ DOMAIN late = {}
        BY StaysCalm
  <2> QED
      BY <2>1, OtherFacts DEF Drop, Reading
<1>2. CASE ServeWrite \/ ServeRead \/ ServeTruncate
      BY <1>1, <1>2, WriteShown, ReadKept, TruncateKept
<1>3. CASE UNCHANGED <<data, appliedOn, cuts, seen>>
      BY <1>1, <1>3, LooksKept
<1>4. CASE QuietCall
      BY <1>3, <1>4, QuietFacts DEF server
<1>5. CASE \E h \in Handles, o \in Offsets, s \in 1..MaxSize :
             FsWriteDirect(h, o, s) \/ FsWriteBuffered(h, o, s)
      BY <1>3, <1>5 DEF FsWriteDirect, FsWriteBuffered, server, looks
<1>6. CASE InitSocket \/ SendArguments \/ UNCHANGED vars
      BY <1>3, <1>6 DEF InitSocket, SendArguments, server, ghost, looks, vars
<1>7. CASE InitSocketFails \/ NoOk \/ NoResult \/ ReadResult
  <2>1. UNCHANGED <<data, appliedOn, cuts, seen>>
        BY <1>7, RequestTypes DEF Return, looks
  <2> QED
      BY <1>3, <2>1
<1>8. CASE ServeOpen \/ ServeRelease \/ ServeRename
      BY <1>3, <1>8 DEF ServeOpen, ServeRelease, ServeRename, ghost, looks
<1> QED
    BY <1>1, <1>2, <1>4, <1>5, <1>6, <1>7, <1>8, Steps DEF Serve

(* fs_read and fs_truncate, which do not send the buffer, pass only writes *)
(* that still wait: without a failure to blame a read gets no less than an *)
(* earlier write by its number that was run, unless a truncate took it,    *)
(* and what a truncate took does not come back.                            *)
THEOREM PassOnlyWaiting == Spec => []PassesOnlyWaitingWrites
<1>1. Init => Types /\ Order /\ Files /\ Connected /\ Calm /\ Reading
      BY InitTypes, InitOrder, InitFiles, InitConnected, InitCalm, InitReading
<1>2. (Types /\ Order /\ Files /\ Connected /\ Calm /\ Reading) /\ [Next]_vars
        => (Types /\ Order /\ Files /\ Connected /\ Calm /\ Reading)'
      BY NextTypes, NextOrder, NextFiles, NextConnected, NextCalm, NextReading
<1>3. Types /\ Order /\ Files /\ Connected /\ Calm /\ Reading => PassesOnlyWaitingWrites
  <2> SUFFICES ASSUME CellsShown, ReadShown, CutsKept PROVE PassesOnlyWaitingWrites
      BY DEF Reading, PassesOnlyWaitingWrites
  <2>1. ASSUME NEW n \in seen.run, log[n].fd = seen.fd, log[n].file = seen.file, Covers(n, seen.at)
        PROVE  \/ seen.val >= n
               \/ seen.val \in Ids /\ log[seen.val].fd # seen.fd
               \/ \E c \in cuts : c.file = seen.file /\ n \in c.run /\ c.len <= seen.at
    <3>1. Shown(seen.val, n, seen.at, log, cuts)
          BY <2>1 DEF ReadShown
    <3> QED
        BY <2>1, <3>1 DEF Shown
  <2>2. \A c \in cuts, o \in Offsets : o >= c.len => data[c.file][o] \notin c.run
        BY DEF CutsKept
  <2> QED
      BY <2>1, <2>2 DEF PassesOnlyWaitingWrites, Covers
<1> QED
    BY <1>1, <1>2, <1>3, PTL DEF Spec

-----------------------------------------------------------------------------
(* Calls come to an end                                                    *)

LEMMA LowerFacts ==
  ASSUME NEW a \in Int, NEW b \in Int, NEW c \in Int, NEW x \in Int, NEW y \in Int, NEW z \in Int,
         a < x \/ (a = x /\ (b < y \/ (b = y /\ c < z)))
  PROVE  Lower(<<a, b, c>>, <<x, y, z>>)
<1> DEFINE s == <<a, b, c>>
           t == <<x, y, z>>
<1>1. DOMAIN s = 1..3 /\ s[1] = a /\ s[2] = b /\ s[3] = c /\ t[1] = x /\ t[2] = y /\ t[3] = z
      OBVIOUS
<1> HIDE DEF s, t
<1>2. CASE a < x
  <2>1. 1 \in DOMAIN s /\ s[1] < t[1] /\ \A j \in 1 .. 1 - 1 : s[j] = t[j]
        BY <1>1, <1>2
  <2> QED
      BY <2>1 DEF Lower, s, t
<1>3. CASE a = x /\ b < y
  <2>1. 2 \in DOMAIN s /\ s[2] < t[2] /\ \A j \in 1 .. 2 - 1 : s[j] = t[j]
        BY <1>1, <1>3
  <2> QED
      BY <2>1 DEF Lower, s, t
<1>4. CASE a = x /\ b = y /\ c < z
  <2>1. 3 \in DOMAIN s /\ s[3] < t[3] /\ \A j \in 1 .. 3 - 1 : s[j] = t[j]
    <3>1. \A j \in 1 .. 3 - 1 : j = 1 \/ j = 2
          OBVIOUS
    <3> QED
        BY <1>1, <1>4, <3>1
  <2> QED
      BY <2>1 DEF Lower, s, t
<1> QED
    BY <1>2, <1>3, <1>4

Left  == IF call.op = "release" /\ rq = "bulk" THEN 2 ELSE 1
Stage == CASE pc = "init" -> 3 [] pc = "sent" -> 2 [] OTHER -> 1

LEMMA Progress ==
  ASSUME Types, [Next]_vars, rq # "none", <<pc, rq, todo>> # <<pc, rq, todo>>'
  PROVE  pc' \in {"idle", "done"} \/ Lower(Rank', Rank)
<1>0. /\ pc \in {"init", "sent", "args"} /\ todo \in Reqs
      /\ todo # <<>> => pc = "args"
      BY DEF Types, CallTypes, ServerTypes
<1>1. Len(todo) \in Nat /\ Len(todo') \in Nat /\ \A s \in Reqs : s # <<>> => Len(s) > 0
  <2>1. todo' \in Reqs
        BY NextTypes DEF Types, ServerTypes
  <2>2. \A s \in Seq(WriteItems) : Len(s) \in Nat /\ (s # <<>> => Len(s) > 0)
        OBVIOUS
  <2>3. \A it : Len(<<it>>) = 1
        OBVIOUS
  <2> QED
      BY <1>0, <2>1, <2>2, <2>3 DEF Reqs
<1>2. /\ Rank = <<Left, Stage, Len(todo)>> /\ Left \in Int /\ Stage \in Int
      /\ Rank' = <<Left', Stage', Len(todo')>> /\ Left' \in Int /\ Stage' \in Int
      BY DEF Rank, Left, Stage
<1>3. ASSUME \/ Left' < Left
             \/ Left' = Left /\ Stage' < Stage
             \/ Left' = Left /\ Stage' = Stage /\ Len(todo') < Len(todo)
      PROVE  Lower(Rank', Rank)
  <2> DEFINE m == Len(todo)
             n == Len(todo')
  <2>1. m \in Int /\ n \in Int
        BY <1>1
  <2>2. Lower(<<Left', Stage', n>>, <<Left, Stage, m>>)
        BY <1>2, <1>3, <2>1, LowerFacts
  <2> QED
      BY <1>2, <2>2
<1>4. CASE InitSocket \/ SendArguments
  <2>1. /\ UNCHANGED <<call, rq>>
        /\ (pc = "init" /\ pc' = "sent") \/ (pc = "sent" /\ pc' = "args")
        BY <1>4 DEF InitSocket, SendArguments
  <2>2. Left' = Left /\ Stage' < Stage
        BY <2>1 DEF Left, Stage
  <2> QED
      BY <1>3, <2>2
<1>5. CASE InitSocketFails \/ NoOk \/ NoResult \/ ReadResult
  <2>1. PICK r \in Int : Return(r)
        BY <1>5, RequestTypes
  <2>2. CASE pc' \in {"idle", "done"}
        BY <2>2
  <2>3. CASE pc' \notin {"idle", "done"}
    <3>1. rq = "bulk" /\ call.op = "release" /\ rq' = "release"
          BY <2>1, <2>3 DEF Return, Opened, WroteDirect, WroteBulk, Released, Renamed, Looked, Idle
    <3>2. Left' < Left
          BY <3>1 DEF Left
    <3> QED
        BY <1>3, <3>2
  <2> QED
      BY <2>2, <2>3
<1>6. CASE Serve
  <2>1. UNCHANGED <<pc, call, rq>>
        BY <1>6 DEF Serve, ServeOpen, ServeWrite, ServeRelease, ServeRename, ServeRead, ServeTruncate,
                    client
  <2>2. PICK k : Serving(k)
        BY <1>6 DEF Serve, ServeOpen, ServeWrite, ServeRelease, ServeRename, ServeRead, ServeTruncate
  <2>3. Len(todo') < Len(todo)
    <3>1. CASE k = "write"
      <4>1. todo \in Seq(WriteItems) /\ todo # <<>> /\ todo' = Tail(todo)
            BY <2>2, <3>1, ServingFacts
      <4>2. Len(Tail(todo)) = Len(todo) - 1 /\ Len(todo) \in Nat
            BY <4>1, TailFacts
      <4>3. Len(todo') = Len(todo) - 1
            BY <4>1, <4>2
      <4> QED
          BY ONLY <4>2, <4>3
    <3>2. CASE k # "write"
      <4>1. todo' = <<>> /\ todo # <<>>
            BY <2>2, <3>2, ServingFacts
      <4>2. Len(todo') = 0
            BY <4>1
      <4> QED
          BY <1>0, <1>1, <4>1, <4>2
    <3> QED
        BY <3>1, <3>2
  <2>4. Left' = Left /\ Stage' = Stage
        BY <2>1 DEF Left, Stage
  <2> QED
      BY <1>3, <2>3, <2>4
<1>7. CASE Drop
  <2>1. UNCHANGED <<pc, call, rq>> /\ todo' = <<>>
        BY <1>7 DEF Drop
  <2>2. todo # <<>> /\ Len(todo') = 0
        BY <2>1
  <2>3. Left' = Left /\ Stage' = Stage /\ Len(todo') < Len(todo)
        BY <1>0, <1>1, <2>1, <2>2 DEF Left, Stage
  <2> QED
      BY <1>3, <2>3
<1>8. ~QuietCall
      BY <1>0, QuietFacts
<1>9. ~\E h \in Handles, o \in Offsets, s \in 1..MaxSize :
         FsWriteDirect(h, o, s) \/ FsWriteBuffered(h, o, s)
      BY <1>0 DEF FsWriteDirect, FsWriteBuffered
<1>10. ~(Others \/ UNCHANGED vars \/ \E n \in DOMAIN late : ServeLate(n))
       BY OtherFacts DEF client, vars, server, ServeLate
<1> QED
    BY <1>4, <1>5, <1>6, <1>7, <1>8, <1>9, <1>10, Steps

(* Every call comes to an end: no step takes it back, to a request it has  *)
(* sent or one that failed (fs_release after writeBuffer, initSocket).     *)
THEOREM CallsComeToAnEnd == Spec => CallsProgress
<1>1. Init => Types
      BY InitTypes
<1>2. Types /\ [Next]_vars => Types'
      BY NextTypes
<1>3. Types /\ [Next]_vars =>
        [(rq # "none" /\ <<pc, rq, todo>> # <<pc, rq, todo>>') =>
           (pc' \in {"idle", "done"} \/ Lower(Rank', Rank))]_vars
      BY Progress
<1> QED
    BY <1>1, <1>2, <1>3, PTL DEF Spec, CallsProgress

-----------------------------------------------------------------------------
(* The units in the buffer: which write each is of, and where it goes      *)

Units(b)  == UNION {{k} \X DOMAIN b[k].vals : k \in DOMAIN b}
Id(b, u)  == b[u[1]].vals[u[2]]
Fd(b, u)  == b[u[1]].fd
Pos(b, u) == b[u[1]].off + u[2] - 1

Before(u, v) == u[1] < v[1] \/ (u[1] = v[1] /\ u[2] <= v[2])

Exact ==
  /\ IsFiniteSet(Units(buf)) /\ bytes = Cardinality(Units(buf))
  /\ \A u \in Units(buf) : /\ Id(buf, u) \in DOMAIN log /\ log[Id(buf, u)].fd = Fd(buf, u)
                           /\ Covers(Id(buf, u), Pos(buf, u))
  /\ \A u, v \in Units(buf) : Before(u, v) => Id(buf, u) <= Id(buf, v)
  /\ \A u \in Units(buf), o \in Int :
       Covers(Id(buf, u), o) => \E v \in Units(buf) : Id(buf, v) = Id(buf, u) /\ Pos(buf, v) = o

LEMMA UnitsAre ==
  ASSUME NEW b
  PROVE  \A u : u \in Units(b) <=> \E k \in DOMAIN b : \E j \in DOMAIN b[k].vals : u = <<k, j>>
<1>1. \A k, u : u \in {k} \X DOMAIN b[k].vals <=> \E j \in DOMAIN b[k].vals : u = <<k, j>>
      OBVIOUS
<1> QED
    BY <1>1 DEF Units

(* A row of units of request l has as many as an interval.                 *)
Row(l, m, s) == {l} \X (m + 1 .. m + s)

LEMMA RowSize ==
  ASSUME NEW l, NEW m \in Nat, NEW s \in Nat \ {0}
  PROVE  IsFiniteSet(Row(l, m, s)) /\ Cardinality(Row(l, m, s)) = s
<1> DEFINE S == m + 1 .. m + s
           T == Row(l, m, s)
           f == [j \in S |-> <<l, j>>]
<1>1. IsFiniteSet(S) /\ Cardinality(S) = s
  <2>1. m + 1 \in Int /\ m + s \in Int /\ ~(m + 1 > m + s) /\ (m + s) - (m + 1) + 1 = s
        OBVIOUS
  <2> QED
      BY <2>1, FS_Interval
<1>2. f \in Bijection(S, T)
  <2>1. f \in [S -> T]
        BY DEF Row
  <2>2. \A a, b \in S : f[a] = f[b] => a = b
        OBVIOUS
  <2>3. \A t \in T : \E a \in S : f[a] = t
        BY DEF Row
  <2> QED
      BY <2>1, <2>2, <2>3 DEF Bijection, Injection, Surjection, IsInjective
<1>3. ExistsBijection(S, T)
      BY <1>2 DEF ExistsBijection
<1> QED
    BY <1>1, <1>3, FS_Bijection

(* What fs_write adds to the buffer: a row of units at the end of request  *)
(* l, which had m of them.                                                 *)
Adds(b, c, l, m, s, n, f, o) ==
  /\ l \in Nat /\ m \in Nat
  /\ Units(c) = Units(b) \cup Row(l, m, s)
  /\ \A u \in Units(b) :
       /\ Id(c, u) = Id(b, u) /\ Fd(c, u) = Fd(b, u) /\ Pos(c, u) = Pos(b, u)
       /\ u[1] \in Nat /\ u[2] \in Nat
       /\ u[1] < l \/ (u[1] = l /\ u[2] <= m)
  /\ \A j \in m + 1 .. m + s :
       Id(c, <<l, j>>) = n /\ Fd(c, <<l, j>>) = f /\ Pos(c, <<l, j>>) = o + j - m - 1

(* Request l is new and m is 0, or it had m units.                         *)
Extends(b, c, l, m, s, n, f, o) ==
  /\ b \in Seq(WriteItems) /\ c \in Seq(WriteItems)
  /\ l \in Nat \ {0} /\ m \in Nat /\ s \in Nat \ {0} /\ o \in Nat
  /\ Len(c) = l /\ \A k \in 1..l - 1 : k \in DOMAIN b /\ c[k] = b[k]
  /\ \A k \in DOMAIN b : k \in 1..l
  /\ c[l].fd = f /\ c[l].off \in Nat /\ c[l].off + m = o /\ Len(c[l].vals) = m + s
  /\ \A j \in m + 1 .. m + s : c[l].vals[j] = n
  /\ \/ l \notin DOMAIN b /\ m = 0
     \/ /\ l \in DOMAIN b /\ Len(b[l].vals) = m /\ b[l].fd = f /\ b[l].off = c[l].off
        /\ \A j \in 1..m : c[l].vals[j] = b[l].vals[j]

LEMMA AddedRow ==
  ASSUME NEW b, NEW c, NEW l, NEW m, NEW s, NEW n, NEW f, NEW o, Extends(b, c, l, m, s, n, f, o)
  PROVE  Adds(b, c, l, m, s, n, f, o)
<1> /\ b \in Seq(WriteItems) /\ c \in Seq(WriteItems)
    /\ l \in Nat \ {0} /\ m \in Nat /\ s \in Nat \ {0} /\ o \in Nat
    BY DEF Extends
<1> /\ Len(c) = l /\ \A k \in 1..l - 1 : k \in DOMAIN b /\ c[k] = b[k]
    /\ \A k \in DOMAIN b : k \in 1..l
    BY DEF Extends
<1> /\ c[l].fd = f /\ c[l].off \in Nat /\ c[l].off + m = o /\ Len(c[l].vals) = m + s
    /\ \A j \in m + 1 .. m + s : c[l].vals[j] = n
    BY DEF Extends
<1> \/ l \notin DOMAIN b /\ m = 0
    \/ /\ l \in DOMAIN b /\ Len(b[l].vals) = m /\ b[l].fd = f /\ b[l].off = c[l].off
       /\ \A j \in 1..m : c[l].vals[j] = b[l].vals[j]
    BY DEF Extends
<1>1. /\ DOMAIN c = 1..l
      /\ \A k \in DOMAIN b : DOMAIN b[k].vals = 1..Len(b[k].vals)
      /\ DOMAIN c[l].vals = 1..(m + s)
  <2>1. \A d \in Seq(WriteItems) : \A k \in DOMAIN d : d[k] \in WriteItems
        OBVIOUS
  <2>2. \A it \in WriteItems : it.vals \in Seq(Ids \cup {Garbage})
        BY DEF WriteItems
  <2>3. \A v \in Seq(Ids \cup {Garbage}) : DOMAIN v = 1..Len(v)
        OBVIOUS
  <2>4. DOMAIN c = 1..l /\ l \in DOMAIN c
        OBVIOUS
  <2> QED
      BY <2>1, <2>2, <2>3, <2>4
<1>2. /\ l \in DOMAIN b => DOMAIN b[l].vals = 1..m
      /\ \A k \in DOMAIN b : k # l => k \in 1..l - 1 /\ k < l
      BY <1>1
<1>3. Units(c) = Units(b) \cup ({l} \X (m + 1 .. m + s))
  <2>1. ASSUME NEW u \in Units(c) PROVE u \in Units(b) \/ u \in {l} \X (m + 1 .. m + s)
    <3>0. PICK k \in 1..l : \E j \in DOMAIN c[k].vals : u = <<k, j>>
          BY <1>1, UnitsAre
    <3>1. PICK j \in DOMAIN c[k].vals : u = <<k, j>>
          BY <3>0
    <3>2. CASE k # l
      <4>1. k \in DOMAIN b /\ c[k] = b[k]
            BY <3>2
      <4> QED
          BY <3>1, <4>1, UnitsAre
    <3>3. CASE k = l
      <4>1. j \in 1..(m + s)
            BY <1>1, <3>3
      <4>2. CASE j > m
            BY <3>1, <3>3, <4>1, <4>2
      <4>3. CASE ~(j > m)
        <5>1. j \in 1..m /\ l \in DOMAIN b
              BY <4>1, <4>3
        <5> QED
            BY <1>2, <3>1, <3>3, <5>1, UnitsAre
      <4> QED
          BY <4>2, <4>3
    <3> QED
        BY <3>2, <3>3
  <2>2. ASSUME NEW u \in Units(b) PROVE u \in Units(c)
    <3>0. PICK k \in DOMAIN b : \E j \in DOMAIN b[k].vals : u = <<k, j>>
          BY UnitsAre
    <3>1. PICK j \in DOMAIN b[k].vals : u = <<k, j>>
          BY <3>0
    <3>2. CASE k # l
      <4>1. k \in DOMAIN c /\ c[k] = b[k]
            BY <1>1, <1>2, <3>2
      <4> QED
          BY <3>1, <4>1, UnitsAre
    <3>3. CASE k = l
      <4>1. j \in 1..(m + s) /\ l \in DOMAIN c
            BY <1>1, <1>2, <3>3
      <4> QED
          BY <1>1, <3>1, <3>3, <4>1, UnitsAre
    <3> QED
        BY <3>2, <3>3
  <2>3. ASSUME NEW j \in m + 1 .. m + s PROVE <<l, j>> \in Units(c)
    <3>1. l \in DOMAIN c /\ j \in DOMAIN c[l].vals
          BY <1>1
    <3> QED
        BY <3>1, UnitsAre
  <2> QED
      BY <2>1, <2>2, <2>3
<1>4. ASSUME NEW u \in Units(b)
      PROVE  /\ Id(c, u) = Id(b, u) /\ Fd(c, u) = Fd(b, u) /\ Pos(c, u) = Pos(b, u)
             /\ u[1] \in Nat /\ u[2] \in Nat
             /\ u[1] < l \/ (u[1] = l /\ u[2] <= m)
  <2>0. PICK k \in DOMAIN b : \E j \in DOMAIN b[k].vals : u = <<k, j>>
        BY UnitsAre
  <2>1. PICK j \in DOMAIN b[k].vals : u = <<k, j>>
        BY <2>0
  <2>2. u[1] = k /\ u[2] = j /\ k \in Nat /\ j \in Nat
        BY <1>1, <2>1
  <2>3. CASE k # l
    <3>1. c[k] = b[k] /\ k < l
          BY <1>2, <2>3
    <3> QED
        BY <2>2, <3>1 DEF Id, Fd, Pos
  <2>4. CASE k = l
    <3>1. j \in 1..m /\ c[l].vals[j] = b[l].vals[j] /\ c[l].fd = b[l].fd /\ c[l].off = b[l].off
          BY <1>2, <2>4
    <3> QED
        BY <2>2, <2>4, <3>1 DEF Id, Fd, Pos
  <2> QED
      BY <2>3, <2>4
<1>5. ASSUME NEW j \in m + 1 .. m + s
      PROVE  Id(c, <<l, j>>) = n /\ Fd(c, <<l, j>>) = f /\ Pos(c, <<l, j>>) = o + j - m - 1
  <2>1. c[l].vals[j] = n /\ c[l].fd = f
        OBVIOUS
  <2>2. ASSUME NEW q \in Nat, q + m = o PROVE q + j - 1 = o + j - m - 1
        BY <2>2
  <2>3. c[l].off + j - 1 = o + j - m - 1
        BY <2>2
  <2> QED
      BY <2>1, <2>3 DEF Id, Fd, Pos
<1> QED
    BY <1>3, <1>4, <1>5 DEF Adds, Row

LEMMA BufferedAdds ==
  ASSUME Types, NEW h \in Handles, NEW o \in Offsets, NEW s \in 1..MaxSize, FsWriteBuffered(h, o, s)
  PROVE  LET n == Len(log) + 1
         IN  /\ \E l, m \in Nat : Adds(buf, buf', l, m, s, n, hfh[h], o)
             /\ n \in DOMAIN log' /\ log'[n].fd = hfh[h] /\ log'[n].off = o /\ log'[n].size = s
             /\ \A k \in DOMAIN log : k \in DOMAIN log' /\ log'[k] = log[k] /\ k < n /\ k \in Nat
             /\ n \in Nat
<1> DEFINE n  == Len(log) + 1
           f  == hfh[h]
           p  == hpath[h]
           vs == [j \in 1..s |-> n]
           u  == h \in hnew
           x  == Entry(h, o, s, u)
           y  == WriteItem(p, f, o, vs)
<1>1. /\ hpath[h] # None /\ Room("writes") /\ log' = Append(log, x)
      /\ buf' = Combined(f, p, o, vs)
      BY DEF FsWriteBuffered
<1>2. /\ x \in Entries /\ x.fd = f /\ x.off = o /\ x.size = s
  <2>1. u \in BOOLEAN
        OBVIOUS
  <2> HIDE DEF u
  <2> QED
      BY <1>1, <2>1, EntryType
<1> HIDE DEF x
<1>3. /\ n \in Ids /\ log'[n] = x /\ DOMAIN log = 1..Len(log) /\ DOMAIN log' = 1..n
      /\ Len(log) \in Nat /\ n \in Nat
      /\ \A m \in DOMAIN log : m \in DOMAIN log' /\ log'[m] = log[m]
      BY <1>1, <1>2, LogGrows
<1>4. s \in Nat \ {0} /\ o \in Nat
      BY WriteBackAssumption DEF Offsets
<1>9. f \in 0..MaxFake /\ p \in Paths /\ vs \in Seq(Ids)
  <2>1. vs \in Seq(Ids)
        BY <1>3, <1>4, ConstSeq
  <2> QED
      BY <1>1, <2>1 DEF Types, ClientTypes
<1>5. vs \in Seq(Ids) /\ Len(vs) = s /\ \A j \in 1..s : vs[j] = n
      BY <1>3, <1>4, ConstSeq
<1>6. buf \in Seq(WriteItems) /\ Len(buf) \in Nat /\ DOMAIN buf = 1..Len(buf)
      BY DEF Types, ClientTypes
<1> HIDE DEF vs
<1>7. \E l, m \in Nat : Adds(buf, buf', l, m, s, n, f, o)
  <2>1. CASE Continues(f, o)
    <3> DEFINE l == Len(buf)
               m == Len(buf[l].vals)
    <3>1. /\ Len(buf') = l /\ l \in 1..l /\ buf' \in Seq(WriteItems)
          /\ \A k \in 1..l : k # l => buf'[k] = buf[k]
          /\ buf[l].fd = f /\ buf[l].off + Len(buf[l].vals) = o
          /\ buf'[l].fd = f /\ buf'[l].path = buf[l].path /\ buf'[l].off = buf[l].off
          /\ buf'[l].vals = buf[l].vals \o vs
          BY <1>1, <1>9, <2>1, CombinedFacts
    <3>0. l \in Nat /\ DOMAIN buf = 1..l
          BY <1>6
    <3> HIDE DEF l
    <3>2. buf[l] \in WriteItems /\ l \in DOMAIN buf
      <4>1. \A b \in Seq(WriteItems) : \A k \in DOMAIN b : b[k] \in WriteItems
            OBVIOUS
      <4>2. l \in DOMAIN buf
            BY <3>0, <3>1
      <4> QED
          BY <1>6, <4>1, <4>2
    <3>3. buf[l].off \in Nat /\ buf[l].vals \in Seq(Ids \cup {Garbage}) /\ m \in Nat
      <4>1. \A v \in Seq(Ids \cup {Garbage}) : Len(v) \in Nat
            OBVIOUS
      <4> QED
          BY <3>2, <4>1, ItemFacts, WriteBackAssumption DEF Offsets
    <3>4. vs \in Seq(Ids \cup {Garbage}) /\ \A j \in 1..Len(vs) : vs[j] = n
          BY <1>5
    <3>5. /\ Len(buf[l].vals \o vs) = m + s
          /\ \A j \in 1..m : (buf[l].vals \o vs)[j] = buf[l].vals[j]
          /\ \A j \in 1..(m + s) : j > m => (buf[l].vals \o vs)[j] = n
      <4>1. \A a, b \in Seq(Ids \cup {Garbage}) :
              (\A j \in 1..Len(b) : b[j] = n) =>
                /\ Len(a \o b) = Len(a) + Len(b)
                /\ \A j \in 1..Len(a) : (a \o b)[j] = a[j]
                /\ \A j \in 1..(Len(a) + Len(b)) : j > Len(a) => (a \o b)[j] = n
            BY ExtendFacts
      <4> QED
          BY <1>5, <3>3, <3>4, <4>1
    <3>6. /\ \A j \in m + 1 .. m + s : j \in 1..(m + s) /\ j > m
          /\ \A k \in 1..l - 1 : k \in DOMAIN buf /\ k \in 1..l /\ k # l
          BY <1>4, <3>0, <3>3
    <3>7. l \in Nat \ {0}
          BY <3>0, <3>1
    <3> HIDE DEF m, n, f
    <3>8. Adds(buf, buf', l, m, s, n, f, o)
      <4>1. \A k \in 1..l - 1 : k \in DOMAIN buf /\ buf'[k] = buf[k]
            BY <3>1, <3>6
      <4>2. \A k \in DOMAIN buf : k \in 1..l
            BY <3>0
      <4>3. Len(buf'[l].vals) = m + s /\ \A j \in m + 1 .. m + s : buf'[l].vals[j] = n
            BY <3>1, <3>5, <3>6
      <4>4. /\ l \in DOMAIN buf /\ Len(buf[l].vals) = m /\ buf[l].fd = f
            /\ \A j \in 1..m : buf'[l].vals[j] = buf[l].vals[j]
            BY <3>1, <3>2, <3>5 DEF m
      <4>5. Extends(buf, buf', l, m, s, n, f, o)
            BY <1>4, <1>6, <3>1, <3>3, <3>7, <4>1, <4>2, <4>3, <4>4 DEF Extends
      <4> QED
          BY ONLY <4>5, AddedRow
    <3> QED
        BY <3>3, <3>7, <3>8
  <2>2. CASE ~Continues(f, o)
    <3> DEFINE l == Len(buf) + 1
    <3>1. buf' = Append(buf, y) /\ y \in WriteItems
          BY <1>1, <1>9, <2>2, CombinedFacts
    <3>2. y.fd = f /\ y.off = o /\ y.vals = vs
          BY DEF WriteItem
    <3> HIDE DEF y
    <3>3. /\ buf' \in Seq(WriteItems) /\ Len(buf') = l /\ buf'[l] = y /\ l \in Nat \ {0}
          /\ \A k \in DOMAIN buf : k \in DOMAIN buf' /\ buf'[k] = buf[k]
          BY <1>6, <3>1, AppendFacts
    <3>4. /\ l \notin DOMAIN buf
          /\ \A k \in 1..l - 1 : k \in DOMAIN buf
          /\ \A k \in DOMAIN buf : k \in 1..l
          BY <1>6
    <3>5. PICK m \in Nat : m = 0
          OBVIOUS
    <3> HIDE DEF l, n, f
    <3>6. Adds(buf, buf', l, m, s, n, f, o)
      <4>1. \A k \in 1..l - 1 : k \in DOMAIN buf /\ buf'[k] = buf[k]
            BY <3>3, <3>4
      <4>2. Len(buf'[l].vals) = m + s /\ \A j \in m + 1 .. m + s : buf'[l].vals[j] = n
            BY <1>4, <1>5, <3>2, <3>3, <3>5
      <4>3. buf'[l].fd = f /\ buf'[l].off = o /\ buf'[l].off + m = o
            BY <1>4, <3>2, <3>3, <3>5
      <4>4. buf \in Seq(WriteItems) /\ buf' \in Seq(WriteItems) /\ Len(buf') = l /\ l \in Nat \ {0}
            BY <1>6, <3>3
      <4>5. l \notin DOMAIN buf /\ m = 0 /\ m \in Nat
            BY <3>4, <3>5
      <4>6. Extends(buf, buf', l, m, s, n, f, o)
            BY ONLY <1>4, <3>4, <4>1, <4>2, <4>3, <4>4, <4>5 DEF Extends
      <4> QED
          BY ONLY <4>6, AddedRow
    <3> QED
        BY <3>3, <3>6
  <2> QED
      BY <2>1, <2>2
<1>8. n \in DOMAIN log' /\ \A k \in DOMAIN log : k < n /\ k \in Nat
      BY <1>3
<1> QED
    BY <1>2, <1>3, <1>7, <1>8

LEMMA InitExact == Init => Exact
<1> SUFFICES ASSUME Init PROVE Exact
    OBVIOUS
<1>1. buf = <<>> /\ bytes = 0 /\ DOMAIN <<>> = {}
      BY DEF Init
<1>2. Units(buf) = {}
      BY <1>1 DEF Units
<1> QED
    BY <1>1, <1>2, FS_EmptySet DEF Exact

LEMMA BufferedExact ==
  ASSUME Types, Exact, NEW h \in Handles, NEW o \in Offsets, NEW s \in 1..MaxSize,
         FsWriteBuffered(h, o, s)
  PROVE  Exact'
<1> DEFINE n == Len(log) + 1
           f == hfh[h]
<1>1. PICK l, m \in Nat : Adds(buf, buf', l, m, s, n, f, o)
      BY BufferedAdds
<1>2. /\ n \in DOMAIN log' /\ log'[n].fd = f /\ log'[n].off = o /\ log'[n].size = s /\ n \in Nat
      /\ \A k \in DOMAIN log : k \in DOMAIN log' /\ log'[k] = log[k] /\ k < n /\ k \in Nat
      BY BufferedAdds
<1>3. bytes' = bytes + s /\ s \in Nat \ {0} /\ o \in Nat
      BY WriteBackAssumption DEF FsWriteBuffered, Offsets
<1> DEFINE S == Units(buf)
           T == Row(l, m, s)
<1> HIDE DEF n, f
<1>4. /\ Units(buf') = S \cup T
      /\ \A u \in S : /\ Id(buf', u) = Id(buf, u) /\ Fd(buf', u) = Fd(buf, u)
                      /\ Pos(buf', u) = Pos(buf, u) /\ u[1] \in Nat /\ u[2] \in Nat
                      /\ u[1] < l \/ (u[1] = l /\ u[2] <= m)
      BY <1>1 DEF Adds
<1>5. /\ \A j \in m + 1 .. m + s : /\ Id(buf', <<l, j>>) = n /\ Fd(buf', <<l, j>>) = f
                                   /\ Pos(buf', <<l, j>>) = o + j - m - 1
      BY <1>1 DEF Adds
<1>6. ASSUME NEW u \in T
      PROVE  /\ u[1] = l /\ u[2] \in m + 1 .. m + s /\ Id(buf', u) = n /\ Fd(buf', u) = f
             /\ Pos(buf', u) = o + u[2] - m - 1
  <2>1. PICK j \in m + 1 .. m + s : u = <<l, j>>
        BY DEF Row
  <2>2. u[1] = l /\ u[2] = j
        BY <2>1
  <2> QED
      BY <1>5, <2>1, <2>2
<1>7. IsFiniteSet(T) /\ Cardinality(T) = s
  <2>1. m \in Nat /\ s \in Nat \ {0}
        BY <1>1, <1>3
  <2> QED
      BY <2>1, RowSize
<1>8. S \cap T = {}
  <2> SUFFICES ASSUME NEW u \in S, u \in T PROVE FALSE
      OBVIOUS
  <2>1. u[1] = l /\ u[2] > m /\ u[2] \in Nat
        BY <1>3, <1>6
  <2>2. u[1] < l \/ (u[1] = l /\ u[2] <= m)
        BY <1>4
  <2> QED
      BY <2>1, <2>2
<1> HIDE DEF S, T
<1>9. IsFiniteSet(Units(buf')) /\ bytes' = Cardinality(Units(buf'))
  <2>1. IsFiniteSet(S) /\ bytes = Cardinality(S)
        BY DEF Exact, S
  <2>2. Cardinality(S) \in Nat /\ Cardinality({}) = 0
        BY <2>1, FS_CardinalityType, FS_EmptySet
  <2>3. IsFiniteSet(S \cup T) /\ Cardinality(S \cup T) = Cardinality(S) + Cardinality(T) - 0
        BY <1>7, <1>8, <2>1, <2>2, FS_Union
  <2> QED
      BY <1>3, <1>4, <1>7, <2>1, <2>2, <2>3
<1>10. \A u \in S : Id(buf, u) \in DOMAIN log
       BY DEF Exact, S
<1>11. ASSUME NEW u \in S \cup T
       PROVE  /\ Id(buf', u) \in DOMAIN log' /\ log'[Id(buf', u)].fd = Fd(buf', u)
              /\ Pos(buf', u) \in log'[Id(buf', u)].off
                                   .. log'[Id(buf', u)].off + log'[Id(buf', u)].size - 1
  <2>1. CASE u \in S
        BY <1>2, <1>4, <2>1 DEF Exact, S, Covers
  <2>2. CASE u \in T
    <3>1. o + u[2] - m - 1 \in o .. o + s - 1
          BY <1>3, <1>6, <2>2
    <3> QED
        BY <1>2, <1>6, <2>2, <3>1
  <2> QED
      BY <2>1, <2>2
<1>12. ASSUME NEW u \in S \cup T, NEW v \in S \cup T, Before(u, v)
       PROVE  Id(buf', u) <= Id(buf', v)
  <2>1. CASE u \in S /\ v \in S
        BY <1>4, <1>12, <2>1 DEF Exact, S
  <2>2. CASE v \in T
    <3>1. Id(buf', v) = n /\ Id(buf', u) \in DOMAIN log \cup {n}
          BY <1>4, <1>6, <1>10, <2>2
    <3> QED
        BY <1>2, <3>1
  <2>3. CASE u \in T /\ v \in S
    <3>1. u[1] = l /\ u[2] > m /\ u[2] \in Nat
          BY <1>3, <1>6, <2>3
    <3>2. v[1] \in Nat /\ v[2] \in Nat /\ (v[1] < l \/ (v[1] = l /\ v[2] <= m))
          BY <1>4, <2>3
    <3> QED
        BY <1>12, <3>1, <3>2 DEF Before
  <2> QED
      BY <2>1, <2>2, <2>3
<1>13. ASSUME NEW u \in S \cup T, NEW x \in Int,
              x \in log'[Id(buf', u)].off .. log'[Id(buf', u)].off + log'[Id(buf', u)].size - 1
       PROVE  \E v \in S \cup T : Id(buf', v) = Id(buf', u) /\ Pos(buf', v) = x
  <2>1. CASE u \in S
    <3>1. Id(buf', u) = Id(buf, u) /\ log'[Id(buf, u)] = log[Id(buf, u)]
          BY <1>2, <1>4, <1>10, <2>1
    <3>2. PICK v \in S : Id(buf, v) = Id(buf, u) /\ Pos(buf, v) = x
          BY <1>13, <2>1, <3>1 DEF Exact, S, Covers
    <3> QED
        BY <1>4, <3>1, <3>2
  <2>2. CASE u \in T
    <3> DEFINE j == x - o + m + 1
    <3>1. x \in o .. o + s - 1
          BY <1>2, <1>6, <1>13, <2>2
    <3>2. j \in m + 1 .. m + s /\ o + j - m - 1 = x
          BY <1>3, <3>1
    <3> HIDE DEF j
    <3>3. <<l, j>> \in T /\ Id(buf', <<l, j>>) = n /\ Pos(buf', <<l, j>>) = x
          BY <1>5, <3>2 DEF T, Row
    <3> QED
        BY <1>6, <2>2, <3>3
  <2> QED
      BY <2>1, <2>2
<1> QED
    BY <1>4, <1>9, <1>11, <1>12, <1>13 DEF Exact, Covers

LEMMA NextExact == Types /\ Order /\ Exact /\ [Next]_vars => Exact'
<1> SUFFICES ASSUME Types, Order, Exact, [Next]_vars PROVE Exact'
    OBVIOUS
<1>1. ASSUME UNCHANGED <<buf, bytes>> PROVE Exact'
  <2>1. \A k \in DOMAIN log : k \in DOMAIN log' /\ log'[k] = log[k]
        BY LogSteps
  <2>2. \A k \in DOMAIN log : \A o : Covers(k, o) <=> o \in log'[k].off .. log'[k].off + log'[k].size - 1
        BY <2>1 DEF Covers
  <2> QED
      BY <1>1, <2>1, <2>2 DEF Exact, Covers
<1>2. CASE \E h \in Handles, o \in Offsets, s \in 1..MaxSize : FsWriteBuffered(h, o, s)
      BY <1>2, BufferedExact
<1>3. CASE InitSocketFails \/ NoOk \/ NoResult \/ ReadResult
  <2>1. PICK r \in Int : Return(r)
        BY <1>3, RequestTypes
  <2>2. UNCHANGED <<buf, bytes>> \/ (buf' = <<>> /\ bytes' = 0)
        BY <2>1 DEF Return, Opened, WroteDirect, WroteBulk, Released, Renamed, Looked
  <2>3. CASE buf' = <<>> /\ bytes' = 0
    <3>1. DOMAIN buf' = {}
          BY <2>3
    <3>2. Units(buf') = {}
          BY <3>1 DEF Units
    <3> QED
        BY <2>3, <3>2, FS_EmptySet DEF Exact
  <2> QED
      BY <1>1, <2>2, <2>3
<1>4. CASE QuietCall
  <2>1. UNCHANGED <<buf, bytes>>
        BY <1>4 DEF QuietCall, FsOpen, FsRelease, FsRename, FsRead, FsTruncate, FsDestroy
  <2> QED
      BY <1>1, <2>1
<1>5. CASE \E h \in Handles, o \in Offsets, s \in 1..MaxSize : FsWriteDirect(h, o, s)
      BY <1>1, <1>5 DEF FsWriteDirect
<1>6. CASE InitSocket \/ SendArguments \/ Drop \/ Others \/ UNCHANGED vars
      BY <1>1, <1>6, OtherFacts DEF InitSocket, SendArguments, Drop, vars, client
<1>7. CASE Serve
      BY <1>1, <1>7 DEF Serve, ServeOpen, ServeWrite, ServeRelease, ServeRename, ServeRead,
                        ServeTruncate, client
<1>8. CASE \E n \in DOMAIN late : ServeLate(n)
      BY <1>1, <1>8 DEF ServeLate, client
<1> QED
    BY <1>2, <1>3, <1>4, <1>5, <1>6, <1>7, <1>8, Steps

(* Combining requests (fs_write) keeps every write whole, at its offset,   *)
(* under its number and in the order of the calls, and bytesInBatch is     *)
(* what is in clientWriteBuffer, for any number of writes and of flushes,  *)
(* failed or not.                                                          *)
THEOREM BufferIsFaithful == Spec => []BufferFaithful
<1>1. Init => Types /\ Order /\ Exact
      BY InitTypes, InitOrder, InitExact
<1>2. (Types /\ Order /\ Exact) /\ [Next]_vars => (Types /\ Order /\ Exact)'
      BY NextTypes, NextOrder, NextExact
<1>3. Types /\ Order /\ Exact => BufferFaithful
  <2> SUFFICES ASSUME Types, Exact PROVE BufferFaithful
      OBVIOUS
  <2> DEFINE S == Units(buf)
             place(u) == <<Fd(buf, u), Pos(buf, u)>>
  <2>1. bytes = Cardinality(S)
        BY DEF Exact
  <2>2. \A u, v \in S : u[1] < v[1] \/ (u[1] = v[1] /\ u[2] <= v[2]) => Id(buf, u) <= Id(buf, v)
        BY DEF Exact, Before
  <2>3. ASSUME NEW u \in S
        PROVE  {place(v) : v \in {w \in S : Id(buf, w) = Id(buf, u)}} =
                 {log[Id(buf, u)].fd} \X
                   (log[Id(buf, u)].off .. log[Id(buf, u)].off + log[Id(buf, u)].size - 1)
    <3> DEFINE n == Id(buf, u)
               R == log[n].off .. log[n].off + log[n].size - 1
    <3>1. ASSUME NEW v \in S, Id(buf, v) = n PROVE place(v) \in {log[n].fd} \X R
      <4>1. Fd(buf, v) = log[n].fd /\ Pos(buf, v) \in R
            BY <3>1 DEF Exact, Covers
      <4> QED
          BY <4>1
    <3>2. ASSUME NEW o \in R
          PROVE  \E v \in S : Id(buf, v) = n /\ place(v) = <<log[n].fd, o>>
      <4>1. o \in Int /\ Covers(n, o)
            BY DEF Covers
      <4>2. PICK v \in S : Id(buf, v) = n /\ Pos(buf, v) = o
            BY <4>1 DEF Exact
      <4>3. Fd(buf, v) = log[n].fd
            BY <4>2 DEF Exact
      <4> QED
          BY <4>2, <4>3
    <3> HIDE DEF n, R, place, S
    <3>3. {place(v) : v \in {w \in S : Id(buf, w) = n}} \subseteq {log[n].fd} \X R
          BY <3>1
    <3>4. {log[n].fd} \X R \subseteq {place(v) : v \in {w \in S : Id(buf, w) = n}}
          BY <3>2
    <3> QED
        BY <3>3, <3>4 DEF n, R, place, S
  <2> QED
      BY <2>1, <2>2, <2>3 DEF BufferFaithful, Units, Id, Fd, Pos
<1> QED
    BY <1>1, <1>2, <1>3, PTL DEF Spec
=============================================================================
