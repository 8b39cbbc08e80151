--------------------------- MODULE FdTableProofs ---------------------------
(***************************************************************************)
(* Proofs about FdTable, for any number of workers, paths, files and       *)
(* descriptors.  The inductive invariant is the conjunction of the four    *)
(* invariants that TLC checks: ActsOnNamed needs FdsDistinct (another      *)
(* worker's close() must not hit the descriptor that was just compared),   *)
(* and FdsDistinct needs FdsOpen (a descriptor open() returns was closed,  *)
(* so nobody holds it).                                                    *)
(*                                                                         *)
(* A worker holds descriptors in slots: slot 0 is what open() has just     *)
(* returned, slot f the entry of FakeFd f as long as it can be looked up.  *)
(* Every step of FdTable fills, moves or empties slots (SlotStep).         *)
(***************************************************************************)
EXTENDS FdTable, TLAPS

IInv == TypeOK /\ FdsOpen /\ FdsDistinct /\ ActsOnNamed

Slots == 0..MaxFake
Slot(w, s) ==
  IF s = 0 THEN hand[w] ELSE IF s \in Live(w) THEN fds[w][s] ELSE StdIn

SlotsOpen == \A w \in Workers, s \in Slots : Slot(w, s) # StdIn => kern[Slot(w, s)] # Closed
SlotsDistinct ==
  \A w, v \in Workers : \A s, t \in Slots :
    Slot(w, s) # StdIn /\ Slot(w, s) = Slot(v, t) => w = v /\ s = t

LEMMA SlotKinds == Slots = {0} \cup Fakes /\ 0 \notin Fakes
BY ConstantsAssumption DEF Slots, Fakes

LEMMA SlotTypes ==
  ASSUME TypeOK, NEW w \in Workers, NEW s \in Slots
  PROVE  Slot(w, s) \in Reals \cup {StdIn}
BY SlotKinds DEF TypeOK, Slot, Live

LEMMA AllOpen == (SlotsOpen <=> FdsOpen) /\ (SlotsOpen <=> FdsOpen)'
<1>1. SlotsOpen <=> FdsOpen
  BY SlotKinds DEF SlotsOpen, FdsOpen, Slot, Live
<1> QED
  BY <1>1, PTL

LEMMA AllDistinct == (SlotsDistinct <=> FdsDistinct) /\ (SlotsDistinct <=> FdsDistinct)'
<1>1. SlotsDistinct <=> FdsDistinct
  <2>1. \A w \in Workers, f \in Fakes :
          /\ f \in Slots /\ f # 0 /\ 0 \in Slots /\ Slot(w, 0) = hand[w]
          /\ f \in Live(w) => Slot(w, f) = fds[w][f] /\ fds[w][f] # StdIn
          /\ f \notin Live(w) => Slot(w, f) = StdIn
    BY SlotKinds DEF Slot, Live
  <2>2. \A w \in Workers : Live(w) \subseteq Fakes
    BY DEF Live
  <2>3. ASSUME SlotsDistinct, NEW w \in Workers, NEW v \in Workers
        PROVE  /\ \A f \in Live(w), g \in Live(v) : fds[w][f] = fds[v][g] => w = v /\ f = g
               /\ \A f \in Live(w) : fds[w][f] # hand[v]
               /\ hand[w] # StdIn /\ hand[w] = hand[v] => w = v
    <3>1. \A f \in Live(w), g \in Live(v) : fds[w][f] = fds[v][g] => w = v /\ f = g
      BY <2>1, <2>2, <2>3 DEF SlotsDistinct
    <3>2. \A f \in Live(w) : fds[w][f] # hand[v]
      BY <2>1, <2>2, <2>3 DEF SlotsDistinct
    <3>3. hand[w] # StdIn /\ hand[w] = hand[v] => w = v
      <4>1. 0 \in Slots /\ Slot(w, 0) = hand[w] /\ Slot(v, 0) = hand[v]
        BY SlotKinds DEF Slot
      <4> QED
        BY <2>3, <4>1 DEF SlotsDistinct
    <3> QED
      BY <3>1, <3>2, <3>3
  <2>4. ASSUME FdsDistinct, NEW w \in Workers, NEW v \in Workers, NEW s \in Slots, NEW t \in Slots,
               Slot(w, s) # StdIn, Slot(w, s) = Slot(v, t)
        PROVE  w = v /\ s = t
    <3>1. Slot(w, 0) = hand[w] /\ Slot(v, 0) = hand[v]
      BY DEF Slot
    <3>2. s = 0 \/ (s \in Live(w) /\ Slot(w, s) = fds[w][s])
      BY <2>4 DEF Slot
    <3>3. t = 0 \/ (t \in Live(v) /\ Slot(v, t) = fds[v][t])
      BY <2>4 DEF Slot
    <3> QED
      BY <2>4, <3>1, <3>2, <3>3 DEF FdsDistinct
  <2> QED
    BY <2>3, <2>4 DEF SlotsDistinct, FdsDistinct
<1> QED
  BY <1>1, PTL

(* A comparison that succeeds found the descriptor open on the file that is *)
(* at the path (the finalPath == actualFdFilePath test).                   *)
LEMMA CompareOk ==
  ASSUME TypeOK, NEW r \in Reals \cup {StdIn}, NEW p \in Paths,
         CompareLink(LinkOf(r), p) = "ok"
  PROVE  r \in Reals /\ kern[r] = dir[p] /\ dir[p] # None
<1>1. LinkOf(r) = p
  BY DEF CompareLink
<1>2. r \in Reals /\ \E q \in Paths : dir[q] = kern[r]
  BY <1>1, ConstantsAssumption DEF LinkOf
<1>3. dir[p] = kern[r]
  BY <1>1, <1>2 DEF LinkOf
<1>4. kern[r] \in Files \cup {Closed}
  BY <1>2 DEF TypeOK
<1> QED
  BY <1>2, <1>3, <1>4, ConstantsAssumption

(* Every lookup in a worker's hash gives a descriptor or standard input. *)
LEMMA RealOfType ==
  ASSUME TypeOK, NEW w \in Workers, NEW f
  PROVE  RealOf(w, f) \in Reals \cup {StdIn}
BY DEF TypeOK, RealOf

(* A successful lookup is an entry of the hash. *)
LEMMA RealOfEntry ==
  ASSUME NEW w \in Workers, NEW f, RealOf(w, f) \in Reals
  PROVE  f \in Fakes /\ fds[w][f] = RealOf(w, f) /\ fds[w][f] # StdIn
BY ConstantsAssumption DEF RealOf, StdIn

LEMMA InitIInv == Init => IInv
<1> SUFFICES ASSUME Init PROVE IInv
  OBVIOUS
<1>1. TypeOK
  BY DEF Init, TypeOK, NoFds, NoReq, Requests, Files, Phases
<1>2. FdsOpen /\ FdsDistinct
  BY DEF Init, FdsOpen, FdsDistinct, NoFds, Live
<1>3. ActsOnNamed
  BY DEF Init, ActsOnNamed
<1> QED
  BY <1>1, <1>2, <1>3 DEF IInv

LEMMA TypeStep ==
  ASSUME TypeOK, [Next]_vars
  PROVE  TypeOK'
<1> USE DEF TypeOK, Phases
<1>1. ASSUME NEW w \in Workers, Accept(w) PROVE TypeOK'
  BY <1>1 DEF Accept
<1>2. ASSUME NEW w \in Workers, NEW p \in Paths, NEW create \in BOOLEAN,
             NEW r \in Reals, NEW i \in Inodes, Open(w, p, create, r, i)
      PROVE  TypeOK'
  <2>1. dir' \in [Paths -> Inodes \cup {None}] /\ kern' \in [Reals -> Files \cup {Closed}]
    BY <1>2 DEF Open, Files
  <2> QED
    BY <1>2, <2>1 DEF Open
<1>3. ASSUME NEW w \in Workers, NEW r \in Reals, NEW i \in Files, OpenCut(w, r, i)
      PROVE  TypeOK'
  BY <1>3 DEF OpenCut
<1>4. ASSUME NEW w \in Workers, Insert(w) PROVE TypeOK'
  <2>1. fds' \in [Workers -> [Fakes -> Reals \cup {StdIn}]]
    <3>1. ASSUME NEW f \in Fakes, fds' = [fds EXCEPT ![w][f] = hand[w]]
          PROVE  fds' \in [Workers -> [Fakes -> Reals \cup {StdIn}]]
      BY <3>1
    <3> QED
      BY <1>4, <3>1 DEF Insert
  <2> QED
    BY <1>4, <2>1 DEF Insert
<1>5. ASSUME NEW w \in Workers, NEW o \in Ops, NEW p \in Paths, NEW f \in 0..MaxFake,
             Check(w, o, p, f)
      PROVE  TypeOK'
  <2>1. [op |-> o, path |-> p, fake |-> f] \in Requests
    BY DEF Requests
  <2>2. CompareLink(LinkOf(RealOf(w, f)), p) \in {"ok", "EBADF", "grew"}
    BY DEF CompareLink
  <2>3. dir[p] \in Inodes \cup {None}
    OBVIOUS
  <2> QED
    BY <1>5, <2>1, <2>2, <2>3 DEF Check
<1>6. ASSUME NEW w \in Workers, ReadOrWrite(w) PROVE TypeOK'
  BY <1>6 DEF ReadOrWrite, Reply, Requests
<1>7. ASSUME NEW w \in Workers, Close(w) PROVE TypeOK'
  <2>1. kern' \in [Reals -> Files \cup {Closed}]
    BY <1>7 DEF Close
  <2> QED
    BY <1>7, <2>1 DEF Close
<1>8. ASSUME NEW w \in Workers, Remove(w) PROVE TypeOK'
  <2>1. fds' \in [Workers -> [Fakes -> Reals \cup {StdIn}]]
    BY <1>8 DEF Remove
  <2> QED
    BY <1>8, <2>1 DEF Remove, Reply, Requests
<1>9. ASSUME NEW w \in Workers, NEW p \in Paths, NEW i \in Inodes, Mknod(w, p, i)
      PROVE  TypeOK'
  BY <1>9 DEF Mknod
<1>10. ASSUME NEW w \in Workers, NEW p \in Paths, Unlink(w, p) PROVE TypeOK'
  BY <1>10 DEF Unlink
<1>11. ASSUME NEW w \in Workers, NEW p \in Paths, NEW q \in Paths, Rename(w, p, q)
       PROVE  TypeOK'
  BY <1>11 DEF Rename
<1>12. ASSUME NEW w \in Workers, Disconnect(w) PROVE TypeOK'
  BY <1>12 DEF Disconnect, NoFds
<1>13. ASSUME Restart PROVE TypeOK'
  BY <1>13 DEF Restart, NoFds, Requests, NoReq
<1>14. ASSUME UNCHANGED vars PROVE TypeOK'
  BY <1>14 DEF vars
<1> QED
  BY <1>1, <1>2, <1>3, <1>4, <1>5, <1>6, <1>7, <1>8, <1>9, <1>10, <1>11, <1>12, <1>13, <1>14
  DEF Next

-----------------------------------------------------------------------------
(* What a step does to the slots: open() fills one and Insert moves its    *)
(* descriptor, or loses it; close() empties one, and so does a release     *)
(* that closes nothing; the end of a connection or of the process empties  *)
(* many.                                                                   *)
Takes(w, r, i) ==
  /\ NextReal(r) /\ kern' = [kern EXCEPT ![r] = i]
  /\ \A v \in Workers, s \in Slots : Slot(v, s)' = IF v = w /\ s = 0 THEN r ELSE Slot(v, s)
Enters(w, f) ==
  /\ kern' = kern /\ Slot(w, f) = StdIn /\ \A g \in Fakes : g < f => Slot(w, g) # StdIn
  /\ \A v \in Workers, s \in Slots :
       Slot(v, s)' = IF v = w /\ s = f THEN Slot(w, 0)
                     ELSE IF v = w /\ s = 0 THEN StdIn ELSE Slot(v, s)
Empties(w, S) ==
  \A v \in Workers, s \in Slots : Slot(v, s)' = IF v = w /\ s \in S THEN StdIn ELSE Slot(v, s)
Loses(w)     == kern' = kern /\ Empties(w, {0})
GivesUp(w, f) ==
  /\ Empties(w, {f})
  /\ \/ kern' = kern
     \/ Slot(w, f) # StdIn /\ kern' = [kern EXCEPT ![Slot(w, f)] = Closed]
Ends(w)      == kern' = kern /\ Empties(w, Fakes)
AllEnd       == /\ \A w \in Workers, s \in Slots : Slot(w, s)' = StdIn
                /\ \A w \in Workers : phase'[w] = "gone"
Stays        == kern' = kern /\ \A v \in Workers, s \in Slots : Slot(v, s)' = Slot(v, s)

(* A step that leaves the hash alone, before and after which no worker is  *)
(* about to remove an entry that it was not about to remove.               *)
LEMMA SameLive ==
  ASSUME NEW v \in Workers, fds'[v] = fds[v], hand'[v] = hand[v],
         (phase'[v] = "closed") = (phase[v] = "closed"), phase[v] = "closed" => req'[v] = req[v],
         NEW s \in Slots
  PROVE  Slot(v, s)' = Slot(v, s)
<1>1. Live(v)' = Live(v)
  BY DEF Live, Removing
<1> QED
  BY <1>1 DEF Slot

LEMMA SlotStep ==
  ASSUME TypeOK, ActsOnNamed, [Next]_vars
  PROVE  \/ \E w \in Workers, r \in Reals, i \in Files : Takes(w, r, i)
         \/ \E w \in Workers, f \in Fakes : Enters(w, f) \/ GivesUp(w, f)
         \/ \E w \in Workers : Loses(w) \/ Ends(w)
         \/ AllEnd \/ Stays
<1> USE SlotKinds
<1>1. ASSUME NEW w \in Workers, NEW r \in Reals, NEW i \in Files, NextReal(r),
             phase[w] = "wait", phase'[w] \in {"opened", "cut"}, hand' = [hand EXCEPT ![w] = r],
             kern' = [kern EXCEPT ![r] = i],
             \A v \in Workers \ {w} : phase'[v] = phase[v], UNCHANGED <<fds, req>>
      PROVE  Takes(w, r, i)
  <2>1. ASSUME NEW v \in Workers PROVE Live(v)' = Live(v)
    BY <1>1, <2>1 DEF Live, Removing
  <2>2. \A v \in Workers : hand'[v] = IF v = w THEN r ELSE hand[v]
    BY <1>1 DEF TypeOK
  <2> QED
    BY <1>1, <2>1, <2>2 DEF Takes, Slot
<1>2. ASSUME NEW w \in Workers, NEW p \in Paths, NEW create \in BOOLEAN,
             NEW r \in Reals, NEW i \in Inodes, Open(w, p, create, r, i)
      PROVE  Takes(w, r, i) /\ i \in Files
  <2>1. i \in Files
    BY DEF Files
  <2> QED
    BY <1>1, <1>2, <2>1 DEF Open, TypeOK
<1>3. ASSUME NEW w \in Workers, NEW r \in Reals, NEW i \in Files, OpenCut(w, r, i)
      PROVE  Takes(w, r, i)
  BY <1>1, <1>3 DEF OpenCut, TypeOK
<1>4. ASSUME NEW w \in Workers, Insert(w)
      PROVE  Loses(w) \/ \E f \in Fakes : Enters(w, f)
  <2>1. /\ phase[w] # "closed" /\ phase'[w] # "closed" /\ kern' = kern
        /\ \A v \in Workers \ {w} : phase'[v] = phase[v]
        /\ \A v \in Workers : hand'[v] = IF v = w THEN StdIn ELSE hand[v]
        /\ req' = req
    BY <1>4 DEF Insert, TypeOK
  <2>2. CASE UNCHANGED fds
    <3>1. ASSUME NEW v \in Workers PROVE Live(v)' = Live(v)
      BY <2>1, <2>2, <3>1 DEF Live, Removing
    <3> QED
      BY <2>1, <2>2, <3>1 DEF Loses, Empties, Slot
  <2>3. ASSUME NEW f \in Fakes, FirstFree(w, f), fds' = [fds EXCEPT ![w][f] = hand[w]]
        PROVE  Enters(w, f)
    <3>1. \A v \in Workers, g \in Fakes :
             fds'[v][g] = IF v = w /\ g = f THEN hand[w] ELSE fds[v][g]
      BY <2>3 DEF TypeOK
    <3>2. /\ \A v \in Workers \ {w} : Live(v)' = Live(v)
          /\ \A g \in Fakes : g \in Live(w) <=> fds[w][g] # StdIn
          /\ \A g \in Fakes : g \in Live(w)' <=> fds'[w][g] # StdIn
      BY <2>1, <3>1 DEF Live, Removing
    <3>3. fds[w][f] = StdIn /\ \A g \in Fakes : g < f => fds[w][g] # StdIn
      BY <2>3 DEF FirstFree, InUse
    <3>4. Slot(w, f) = StdIn /\ \A g \in Fakes : g < f => Slot(w, g) # StdIn
      BY <3>2, <3>3 DEF Slot
    <3>5. ASSUME NEW v \in Workers, NEW s \in Slots
          PROVE  Slot(v, s)' = IF v = w /\ s = f THEN Slot(w, 0)
                               ELSE IF v = w /\ s = 0 THEN StdIn ELSE Slot(v, s)
      <4>1. CASE v # w
        <5>1. \A g \in Live(v) : g \in Fakes
          BY DEF Live
        <5> QED
          BY <2>1, <3>1, <3>2, <4>1, <5>1 DEF Slot
      <4>2. CASE v = w /\ s = 0
        BY <2>1, <4>2 DEF Slot
      <4>3. CASE v = w /\ s \in Fakes
        BY <2>1, <3>1, <3>2, <4>3 DEF Slot
      <4> QED
        BY <4>1, <4>2, <4>3
    <3> QED
      BY <2>1, <3>4, <3>5 DEF Enters
  <2> QED
    BY <1>4, <2>2, <2>3 DEF Insert
<1>5. ASSUME NEW w \in Workers, Close(w)
      PROVE  Stays \/ \E f \in Fakes : GivesUp(w, f)
  <2> DEFINE f == req[w].fake
  <2>1. /\ phase[w] = "act" /\ phase'[w] = "closed" /\ UNCHANGED <<fds, hand, req>>
        /\ \A v \in Workers \ {w} : phase'[v] = phase[v]
    BY <1>5 DEF Close, TypeOK
  <2>2. \A v \in Workers : Live(v)' = IF v = w THEN Live(v) \ {f} ELSE Live(v)
    BY <2>1 DEF Live, Removing
  <2>3. \A v \in Workers, s \in Slots :
           Slot(v, s)' = IF v = w /\ s \in Fakes /\ s = f THEN StdIn ELSE Slot(v, s)
    BY <2>1, <2>2 DEF Slot
  <2>4. CASE verdict[w] # "ok"
    <3>1. kern' = kern
      BY <1>5, <2>4 DEF Close
    <3> QED
      BY <2>3, <3>1 DEF Stays, GivesUp, Empties
  <2>5. CASE verdict[w] = "ok"
    <3>1. RealOf(w, f) \in Reals
      BY <2>1, <2>5 DEF ActsOnNamed
    <3>2. f \in Fakes /\ fds[w][f] = RealOf(w, f) /\ fds[w][f] # StdIn
      BY <3>1, RealOfEntry
    <3>3. Slot(w, f) = fds[w][f]
      BY <2>1, <3>2 DEF Slot, Live, Removing
    <3>4. kern' = [kern EXCEPT ![Slot(w, f)] = Closed]
      BY <1>5, <2>5, <3>2, <3>3 DEF Close
    <3> QED
      BY <2>3, <3>2, <3>3, <3>4 DEF GivesUp, Empties
  <2> QED
    BY <2>4, <2>5
<1>6. ASSUME NEW w \in Workers, Remove(w) PROVE Stays
  <2> DEFINE f == req[w].fake
  <2>1. /\ phase[w] = "closed" /\ phase'[w] = "wait" /\ UNCHANGED <<kern, hand>>
        /\ \A v \in Workers \ {w} : phase'[v] = phase[v] /\ req'[v] = req[v]
        /\ \A v \in Workers, g \in Fakes :
             fds'[v][g] = IF v = w /\ g = f THEN StdIn ELSE fds[v][g]
    BY <1>6 DEF Remove, Reply, TypeOK
  <2>2. ASSUME NEW v \in Workers PROVE Live(v)' = Live(v)
    <3>1. CASE v = w
      <4>1. \A g \in Fakes : g \in Live(w) <=> fds[w][g] # StdIn /\ g # f
        BY <2>1 DEF Live, Removing
      <4>2. \A g \in Fakes : g \in Live(w)' <=> fds'[w][g] # StdIn
        BY <2>1 DEF Live, Removing
      <4> QED
        BY <2>1, <3>1, <4>1, <4>2 DEF Live
    <3>2. CASE v # w
      BY <2>1, <3>2 DEF Live, Removing
    <3> QED
      BY <3>1, <3>2
  <2>3. \A v \in Workers : \A g \in Live(v) : fds'[v][g] = fds[v][g]
    BY <2>1 DEF Live, Removing
  <2> QED
    BY <2>1, <2>2, <2>3 DEF Stays, Slot
<1>7. ASSUME NEW w \in Workers, Disconnect(w) PROVE Ends(w)
  <2>1. /\ phase'[w] = "gone" /\ UNCHANGED <<kern, hand, req>>
        /\ \A v \in Workers \ {w} : phase'[v] = phase[v] /\ fds'[v] = fds[v]
        /\ \A g \in Fakes : fds'[w][g] = StdIn
    BY <1>7 DEF Disconnect, TypeOK, NoFds
  <2>2. Live(w)' = {} /\ \A v \in Workers \ {w} : Live(v)' = Live(v)
    BY <2>1 DEF Live, Removing
  <2> QED
    BY <2>1, <2>2 DEF Ends, Empties, Slot
<1>8. ASSUME Restart PROVE AllEnd
  BY <1>8 DEF Restart, NoFds, AllEnd, Slot, Live
<1>9. ASSUME UNCHANGED <<kern, fds, hand>>,
             \A v \in Workers : /\ (phase'[v] = "closed") = (phase[v] = "closed")
                                /\ phase[v] = "closed" => req'[v] = req[v]
      PROVE  Stays
  BY <1>9, SameLive DEF Stays
<1>10. ASSUME NEW w \in Workers, Accept(w) PROVE Stays
  BY <1>9, <1>10 DEF Accept, TypeOK
<1>11. ASSUME NEW w \in Workers, NEW o \in Ops, NEW p \in Paths, NEW f \in 0..MaxFake,
              Check(w, o, p, f)
       PROVE  Stays
  BY <1>9, <1>11 DEF Check, TypeOK
<1>12. ASSUME NEW w \in Workers, ReadOrWrite(w) PROVE Stays
  BY <1>9, <1>12 DEF ReadOrWrite, Reply, TypeOK
<1>13. ASSUME UNCHANGED <<kern, fds, hand, phase, req>> PROVE Stays
  BY <1>9, <1>13
<1> QED
  BY <1>2, <1>3, <1>4, <1>5, <1>6, <1>7, <1>8, <1>10, <1>11, <1>12, <1>13
  DEF Next, vars, Mknod, Unlink, Rename

(* The descriptor open() returns is in no slot (it was closed). *)
LEMMA NextRealUnused ==
  ASSUME SlotsOpen, NEW r \in Reals, NextReal(r), NEW w \in Workers, NEW s \in Slots
  PROVE  Slot(w, s) # r
BY ConstantsAssumption DEF SlotsOpen, NextReal

(* Both table invariants survive a step. *)
LEMMA TableStep ==
  ASSUME IInv, [Next]_vars
  PROVE  FdsOpen' /\ FdsDistinct'
<1>0. TypeOK /\ SlotsOpen /\ SlotsDistinct /\ ActsOnNamed
  BY AllOpen, AllDistinct DEF IInv
<1> SUFFICES SlotsOpen' /\ SlotsDistinct'
  BY AllOpen, AllDistinct
<1>1. ASSUME NEW w \in Workers, NEW r \in Reals, NEW i \in Files, Takes(w, r, i)
      PROVE  SlotsOpen' /\ SlotsDistinct'
  <2>1. \A v \in Workers, s \in Slots : Slot(v, s) # r
    BY <1>0, <1>1, NextRealUnused DEF Takes
  <2>2. kern'[r] # Closed /\ \A q \in Reals \ {r} : kern'[q] = kern[q]
    BY <1>0, <1>1, ConstantsAssumption DEF Takes, TypeOK
  <2>3. SlotsOpen'
    <3> SUFFICES ASSUME NEW v \in Workers, NEW s \in Slots, Slot(v, s)' # StdIn
                 PROVE  kern'[Slot(v, s)'] # Closed
      BY DEF SlotsOpen
    <3>1. CASE Slot(v, s)' = r
      BY <2>2, <3>1
    <3>2. CASE Slot(v, s)' # r
      <4>1. Slot(v, s)' = Slot(v, s) /\ Slot(v, s) \in Reals /\ kern[Slot(v, s)] # Closed
        BY <1>0, <1>1, <3>2, SlotTypes DEF Takes, SlotsOpen
      <4> QED
        BY <2>2, <3>2, <4>1
    <3> QED
      BY <3>1, <3>2
  <2>4. SlotsDistinct'
    BY <1>0, <1>1, <2>1 DEF Takes, SlotsDistinct
  <2> QED
    BY <2>3, <2>4
<1>2. ASSUME NEW w \in Workers, NEW f \in Fakes, Enters(w, f)
      PROVE  SlotsOpen' /\ SlotsDistinct'
  <2>1. 0 \in Slots /\ f \in Slots /\ f # 0
    BY SlotKinds
  <2>2. SlotsOpen'
    BY <1>0, <1>2, <2>1 DEF Enters, SlotsOpen
  <2>3. SlotsDistinct'
    BY <1>0, <1>2, <2>1 DEF Enters, SlotsDistinct
  <2> QED
    BY <2>2, <2>3
<1>3. ASSUME NEW w \in Workers, NEW S, Empties(w, S), kern' = kern
      PROVE  SlotsOpen' /\ SlotsDistinct'
  BY <1>0, <1>3 DEF Empties, SlotsOpen, SlotsDistinct
<1>4. ASSUME NEW w \in Workers, NEW f \in Fakes, Empties(w, {f}), Slot(w, f) # StdIn,
             kern' = [kern EXCEPT ![Slot(w, f)] = Closed]
      PROVE  SlotsOpen' /\ SlotsDistinct'
  <2>1. f \in Slots
    BY SlotKinds
  <2>2. SlotsDistinct'
    BY <1>0, <1>4 DEF Empties, SlotsDistinct
  <2>3. SlotsOpen'
    <3> SUFFICES ASSUME NEW v \in Workers, NEW s \in Slots, Slot(v, s)' # StdIn
                 PROVE  kern'[Slot(v, s)'] # Closed
      BY DEF SlotsOpen
    <3>1. Slot(v, s)' = Slot(v, s) /\ ~(v = w /\ s = f)
      BY <1>4 DEF Empties
    <3>2. Slot(v, s) # Slot(w, f)
      BY <1>0, <1>4, <2>1, <3>1 DEF SlotsDistinct
    <3>3. Slot(v, s) \in Reals /\ kern[Slot(v, s)] # Closed
      BY <1>0, <3>1, SlotTypes DEF SlotsOpen
    <3>4. kern'[Slot(v, s)] = kern[Slot(v, s)]
      BY <1>0, <1>4, <3>2, <3>3 DEF TypeOK
    <3> QED
      BY <3>1, <3>3, <3>4
  <2> QED
    BY <2>2, <2>3
<1>5. ASSUME AllEnd PROVE SlotsOpen' /\ SlotsDistinct'
  BY <1>5 DEF AllEnd, SlotsOpen, SlotsDistinct
<1>6. ASSUME Stays PROVE SlotsOpen' /\ SlotsDistinct'
  BY <1>0, <1>6 DEF Stays, SlotsOpen, SlotsDistinct
<1> QED
  BY <1>0, <1>1, <1>2, <1>3, <1>4, <1>5, <1>6, SlotStep DEF Loses, GivesUp, Ends

(* What was compared stays what the next system call acts on. *)
LEMMA NamedStep ==
  ASSUME IInv, [Next]_vars
  PROVE  ActsOnNamed'
<1> USE DEF IInv
<1> SUFFICES ASSUME NEW v \in Workers, phase'[v] = "act", verdict'[v] = "ok"
             PROVE  /\ target'[v] # None
                    /\ RealOf(v, req[v].fake)' \in Reals
                    /\ kern'[RealOf(v, req[v].fake)'] = target'[v]
  BY DEF ActsOnNamed
<1> DEFINE Kept == /\ phase[v] = "act" /\ verdict[v] = "ok"
                   /\ target'[v] = target[v] /\ req'[v] = req[v]
                   /\ fds'[v] = fds[v]
<1>0. ASSUME Kept
      PROVE  /\ target[v] # None
             /\ RealOf(v, req[v].fake) \in Reals
             /\ kern[RealOf(v, req[v].fake)] = target[v]
             /\ RealOf(v, req[v].fake)' = RealOf(v, req[v].fake)
  BY <1>0 DEF ActsOnNamed, RealOf
<1>1. ASSUME NEW w \in Workers, Accept(w) PROVE Kept /\ UNCHANGED kern
  BY <1>1 DEF Accept, TypeOK
<1>2. ASSUME NEW r \in Reals, NEW i, NextReal(r), kern' = [kern EXCEPT ![r] = i], Kept
      PROVE  kern'[RealOf(v, req[v].fake)] = kern[RealOf(v, req[v].fake)]
  <2>1. kern[RealOf(v, req[v].fake)] # Closed
    BY <1>2, <1>0, ConstantsAssumption DEF TypeOK, Files
  <2> QED
    BY <1>2, <2>1, <1>0 DEF NextReal, TypeOK
<1>3. ASSUME NEW w \in Workers, NEW p \in Paths, NEW create \in BOOLEAN,
             NEW r \in Reals, NEW i \in Inodes, Open(w, p, create, r, i)
      PROVE  Kept /\ kern'[RealOf(v, req[v].fake)] = kern[RealOf(v, req[v].fake)]
  <2>1. Kept
    BY <1>3 DEF Open, TypeOK
  <2> QED
    BY <1>2, <1>3, <2>1 DEF Open
<1>4. ASSUME NEW w \in Workers, NEW r \in Reals, NEW i \in Files, OpenCut(w, r, i)
      PROVE  Kept /\ kern'[RealOf(v, req[v].fake)] = kern[RealOf(v, req[v].fake)]
  <2>1. Kept
    BY <1>4 DEF OpenCut, TypeOK
  <2> QED
    BY <1>2, <1>4, <2>1 DEF OpenCut
<1>5. ASSUME NEW w \in Workers, Insert(w) PROVE Kept /\ UNCHANGED kern
  <2>1. v # w
    BY <1>5 DEF Insert, TypeOK
  <2> QED
    BY <1>5, <2>1 DEF Insert, TypeOK
<1>6. ASSUME NEW w \in Workers, NEW o \in Ops, NEW p \in Paths, NEW f \in 0..MaxFake,
             Check(w, o, p, f)
      PROVE  \/ Kept /\ UNCHANGED kern
             \/ /\ target'[v] # None
                /\ RealOf(v, req[v].fake)' \in Reals
                /\ kern'[RealOf(v, req[v].fake)'] = target'[v]
  <2>1. CASE v # w
    BY <1>6, <2>1 DEF Check, TypeOK
  <2>2. CASE v = w
    <3>1. /\ req'[w] = [op |-> o, path |-> p, fake |-> f]
          /\ verdict'[w] = CompareLink(LinkOf(RealOf(w, f)), p)
          /\ target'[w] = IF verdict'[w] = "ok" THEN dir[p] ELSE None
          /\ UNCHANGED <<kern, fds>>
      BY <1>6 DEF Check, TypeOK
    <3>2. CompareLink(LinkOf(RealOf(w, f)), p) = "ok" /\ target'[w] = dir[p]
      BY <2>2, <3>1
    <3>3. RealOf(w, f) \in Reals /\ kern[RealOf(w, f)] = dir[p] /\ dir[p] # None
      BY <3>2, CompareOk, RealOfType
    <3>4. RealOf(v, req[v].fake)' = RealOf(w, f)
      BY <2>2, <3>1 DEF RealOf
    <3> QED
      BY <2>2, <3>1, <3>2, <3>3, <3>4
  <2> QED
    BY <2>1, <2>2
<1>7. ASSUME NEW w \in Workers, ReadOrWrite(w) PROVE Kept /\ UNCHANGED kern
  BY <1>7 DEF ReadOrWrite, Reply, TypeOK
<1>8. ASSUME NEW w \in Workers, Close(w)
      PROVE  Kept /\ kern'[RealOf(v, req[v].fake)] = kern[RealOf(v, req[v].fake)]
  <2>1. v # w
    BY <1>8 DEF Close, TypeOK
  <2>2. Kept
    BY <1>8, <2>1 DEF Close, TypeOK
  <2>3. CASE verdict[w] # "ok"
    BY <1>8, <2>2, <2>3 DEF Close
  <2>4. CASE verdict[w] = "ok"
    <3>1. RealOf(w, req[w].fake) \in Reals /\ phase[w] = "act"
      BY <1>8, <2>4 DEF Close, ActsOnNamed
    <3>2. /\ req[w].fake \in Live(w) /\ RealOf(w, req[w].fake) = fds[w][req[w].fake]
          /\ req[v].fake \in Live(v) /\ RealOf(v, req[v].fake) = fds[v][req[v].fake]
      BY <2>2, <3>1, <1>0, RealOfEntry DEF Live, Removing
    <3>3. RealOf(v, req[v].fake) # RealOf(w, req[w].fake)
      BY <2>1, <3>2 DEF FdsDistinct
    <3> QED
      BY <1>8, <2>2, <2>4, <3>1, <3>3, <1>0 DEF Close, TypeOK
  <2> QED
    BY <2>3, <2>4
<1>9. ASSUME NEW w \in Workers, Remove(w) PROVE Kept /\ UNCHANGED kern
  <2>1. v # w
    BY <1>9 DEF Remove, Reply, TypeOK
  <2> QED
    BY <1>9, <2>1 DEF Remove, Reply, TypeOK
<1>10. ASSUME NEW w \in Workers, NEW p \in Paths, NEW i \in Inodes, Mknod(w, p, i)
       PROVE  Kept /\ UNCHANGED kern
  BY <1>10 DEF Mknod
<1>11. ASSUME NEW w \in Workers, NEW p \in Paths, Unlink(w, p) PROVE Kept /\ UNCHANGED kern
  BY <1>11 DEF Unlink
<1>12. ASSUME NEW w \in Workers, NEW p \in Paths, NEW q \in Paths, Rename(w, p, q)
       PROVE  Kept /\ UNCHANGED kern
  BY <1>12 DEF Rename
<1>13. ASSUME NEW w \in Workers, Disconnect(w) PROVE Kept /\ UNCHANGED kern
  BY <1>13 DEF Disconnect, TypeOK
<1>14. ASSUME Restart PROVE FALSE
  BY <1>14 DEF Restart
<1>15. ASSUME UNCHANGED vars PROVE Kept /\ UNCHANGED kern
  BY <1>15 DEF vars
<1>16. \/ Kept /\ UNCHANGED kern
       \/ Kept /\ kern'[RealOf(v, req[v].fake)] = kern[RealOf(v, req[v].fake)]
       \/ /\ target'[v] # None
          /\ RealOf(v, req[v].fake)' \in Reals
          /\ kern'[RealOf(v, req[v].fake)'] = target'[v]
  <2> HIDE DEF Kept
  <2> QED
    BY <1>1, <1>3, <1>4, <1>5, <1>6, <1>7, <1>8, <1>9, <1>10, <1>11, <1>12, <1>13, <1>14, <1>15
    DEF Next
<1> QED
  BY <1>16, <1>0

(* The hashes of the workers, the descriptor table of the process and the  *)
(* comparisons under way stay consistent in every behaviour of SSNFSd.     *)
THEOREM FdInvariant == Spec => []IInv
<1>1. IInv /\ [Next]_vars => IInv'
  BY TypeStep, TableStep, NamedStep DEF IInv
<1> QED
  BY InitIInv, <1>1, PTL DEF Spec

(* Every lookup in `fds` that a handler can make finds an open descriptor, *)
(* for any number of workers and whatever they close and open between the  *)
(* close() of a release and fds.remove(): lstat() of the handlers never    *)
(* leaves procFdInfo unset.                                                *)
THEOREM FdsAlwaysOpen == Spec => []FdsOpen
<1>1. IInv => FdsOpen
  BY DEF IInv
<1> QED
  BY FdInvariant, <1>1, PTL

(* No descriptor is shared by two entries that can be looked up, nor by    *)
(* one and an open() that has not made its entry yet, for any number of    *)
(* workers.                                                                *)
THEOREM FdsAlwaysDistinct == Spec => []FdsDistinct
<1>1. IInv => FdsDistinct
  BY DEF IInv
<1> QED
  BY FdInvariant, <1>1, PTL

(* pread(), pwrite() and close() act on the file that was at the path the  *)
(* client named, whatever other workers do after the comparison.           *)
THEOREM ChecksHold == Spec => []ActsOnNamed
<1>1. IInv => ActsOnNamed
  BY DEF IInv
<1> QED
  BY FdInvariant, <1>1, PTL

(* Every variable keeps its type. *)
THEOREM FdTypes == Spec => []TypeOK
<1>1. IInv => TypeOK
  BY DEF IInv
<1> QED
  BY FdInvariant, <1>1, PTL

(* One step leaves every lost descriptor lost, or ends the process. *)
LEMMA LeakStep ==
  ASSUME IInv, [Next]_vars
  PROVE  \/ \A r \in Leaked : r \in Leaked' /\ kern'[r] = kern[r]
         \/ \A w \in Workers : phase'[w] = "gone"
<1> DEFINE Safe == \A r \in Leaked : r \in Leaked' /\ kern'[r] = kern[r]
<1>0. TypeOK /\ ActsOnNamed
  BY DEF IInv
<1>1. /\ Leaked = {r \in Reals : /\ kern[r] # Closed
                                 /\ \A w \in Workers, s \in Slots : Slot(w, s) # r}
      /\ Leaked' = {r \in Reals : /\ kern'[r] # Closed
                                  /\ \A w \in Workers, s \in Slots : Slot(w, s)' # r}
  <2>1. StdIn \notin Reals
    BY ConstantsAssumption DEF StdIn
  <2>2. \A w \in Workers : \A r \in Reals :
          (\A s \in Slots : Slot(w, s) # r) <=> hand[w] # r /\ \A f \in Live(w) : fds[w][f] # r
    BY <2>1, SlotKinds DEF Slot, Live
  <2>3. \A w \in Workers : \A r \in Reals :
          (\A s \in Slots : Slot(w, s)' # r)
            <=> hand'[w] # r /\ \A f \in Live(w)' : fds'[w][f] # r
    BY <2>1, SlotKinds DEF Slot, Live
  <2> QED
    BY <2>2, <2>3 DEF Leaked
<1> DEFINE Nobody(r) == \A w \in Workers, s \in Slots : Slot(w, s) # r
<1>2. ASSUME NEW w \in Workers, NEW q \in Reals, NEW i \in Files, Takes(w, q, i) PROVE Safe
  <2> SUFFICES ASSUME NEW r \in Leaked PROVE r \in Leaked' /\ kern'[r] = kern[r]
    OBVIOUS
  <2>1. r \in Reals /\ kern[r] # Closed /\ r # q /\ Nobody(r)
    BY <1>1, <1>2 DEF Takes, NextReal
  <2>2. kern'[r] = kern[r]
    BY <1>0, <1>2, <2>1 DEF Takes, TypeOK
  <2> QED
    BY <1>1, <1>2, <2>1, <2>2 DEF Takes
<1>3. ASSUME NEW w \in Workers, NEW f \in Fakes, GivesUp(w, f), kern' # kern PROVE Safe
  <2> SUFFICES ASSUME NEW r \in Leaked PROVE r \in Leaked' /\ kern'[r] = kern[r]
    OBVIOUS
  <2>1. r \in Reals /\ kern[r] # Closed /\ Nobody(r) /\ f \in Slots /\ r # StdIn
    BY <1>1, SlotKinds, ConstantsAssumption DEF StdIn
  <2>2. kern'[r] = kern[r]
    BY <1>0, <1>3, <2>1 DEF GivesUp, TypeOK
  <2> QED
    BY <1>1, <1>3, <2>1, <2>2 DEF GivesUp, Empties
<1>4. ASSUME kern' = kern,
             \A v \in Workers, s \in Slots :
               Slot(v, s)' = StdIn \/ \E u \in Workers, t \in Slots : Slot(v, s)' = Slot(u, t)
      PROVE  Safe
  <2>1. StdIn \notin Reals
    BY ConstantsAssumption DEF StdIn
  <2> QED
    BY <1>1, <1>4, <2>1
<1>5. ASSUME NEW w \in Workers, NEW f \in Fakes, Enters(w, f) PROVE Safe
  <2>1. 0 \in Slots
    BY SlotKinds
  <2> HIDE DEF Safe
  <2> QED
    BY <1>4, <1>5, <2>1 DEF Enters
<1>6. ASSUME NEW w \in Workers, NEW S, Empties(w, S), kern' = kern PROVE Safe
  <2> HIDE DEF Safe
  <2> QED
    BY <1>4, <1>6 DEF Empties
<1>7. ASSUME Stays PROVE Safe
  <2> HIDE DEF Safe
  <2> QED
    BY <1>4, <1>7 DEF Stays
<1>8. ASSUME AllEnd PROVE \A w \in Workers : phase'[w] = "gone"
  BY <1>8 DEF AllEnd
<1> QED
  <2> HIDE DEF Safe
  <2>1. Safe \/ \A w \in Workers : phase'[w] = "gone"
    BY <1>0, <1>2, <1>3, <1>5, <1>6, <1>7, <1>8, SlotStep DEF Loses, GivesUp, Ends
  <2> QED
    BY <2>1 DEF Safe

(* For any number of workers, no later client is given a descriptor that a *)
(* failed release or a lost connection left behind, and none closes it.    *)
THEOREM LeaksAreForever == Spec => LeakedNeverTouched
<1>1. IInv /\ [Next]_vars =>
        [ \/ \A r \in Leaked : r \in Leaked' /\ kern'[r] = kern[r]
          \/ \A w \in Workers : phase'[w] = "gone" ]_vars
  BY LeakStep
<1> QED
  BY FdInvariant, <1>1, PTL DEF Spec, LeakedNeverTouched

-----------------------------------------------------------------------------
(* What a client can see of the hash, entry by entry. *)
LEMMA HandleEntry ==
  /\ Handle = [w \in Workers |-> [f \in Fakes |->
                 IF Slot(w, f) = StdIn THEN None ELSE kern[Slot(w, f)]]]
  /\ Handle' = [w \in Workers |-> [f \in Fakes |->
                  IF Slot(w, f)' = StdIn THEN None ELSE kern'[Slot(w, f)']]]
<1>1. \A w \in Workers, f \in Fakes :
        (IF f \in Live(w) THEN kern[fds[w][f]] ELSE None)
          = IF Slot(w, f) = StdIn THEN None ELSE kern[Slot(w, f)]
  BY SlotKinds DEF Slot, Live
<1>2. \A w \in Workers, f \in Fakes :
        (IF f \in Live(w)' THEN kern'[fds'[w][f]] ELSE None)
          = IF Slot(w, f)' = StdIn THEN None ELSE kern'[Slot(w, f)']
  BY SlotKinds DEF Slot, Live
<1> QED
  BY <1>1, <1>2 DEF Handle

(* Changing one entry of the table of tables, with EXCEPT and written out. *)
Updated(w, f, i) == [Handle EXCEPT ![w][f] = i]

WrittenOut(w, f, i) ==
  [v \in Workers |-> [g \in Fakes |-> IF v = w /\ g = f THEN i ELSE Handle[v][g]]]

LEMMA EntryUpdate ==
  ASSUME NEW w \in Workers, NEW f \in Fakes, NEW i
  PROVE  Updated(w, f, i) = WrittenOut(w, f, i)
<1> DEFINE k == [v \in Workers |-> [g \in Fakes |->
                   IF v = w /\ g = f THEN i ELSE Handle[v][g]]]
           k2 == [Handle EXCEPT ![w][f] = i]
<1>1. \A v \in Workers : Handle[v] = [g \in Fakes |-> Handle[v][g]]
  BY DEF Handle
<1>2. Handle = [v \in Workers |-> Handle[v]]
  BY DEF Handle
<1>3. ASSUME NEW v \in Workers PROVE k[v] = k2[v]
  <2> HIDE DEF Handle
  <2>1. CASE v = w
    <3>1. k[v] = [g \in Fakes |-> IF g = f THEN i ELSE Handle[w][g]]
      BY <2>1
    <3>2. k2[v] = [Handle[w] EXCEPT ![f] = i]
      BY <2>1, <1>2
    <3>3. [Handle[w] EXCEPT ![f] = i] = [g \in Fakes |-> IF g = f THEN i ELSE Handle[w][g]]
      BY <1>1
    <3> QED
      BY <3>1, <3>2, <3>3
  <2>2. CASE v # w
    BY <2>2, <1>1, <1>2
  <2> QED
    BY <2>1, <2>2
<1>4. k2 = [v \in Workers |-> k2[v]]
  BY <1>2
<1>5. k = [v \in Workers |-> k[v]]
  OBVIOUS
<1> QED
  BY <1>3, <1>4, <1>5 DEF Updated, WrittenOut

(* A step that leaves the file of every slot alone. *)
LEMMA SameHandles ==
  ASSUME \A w \in Workers, f \in Fakes :
           /\ Slot(w, f)' = Slot(w, f)
           /\ Slot(w, f) # StdIn => kern'[Slot(w, f)] = kern[Slot(w, f)]
  PROVE  Handle' = Handle
BY HandleEntry

(* A step after which one number has another file, or none. *)
LEMMA OneHandle ==
  ASSUME NEW w \in Workers, NEW f \in Fakes, NEW i,
         \A v \in Workers, g \in Fakes :
           (IF Slot(v, g)' = StdIn THEN None ELSE kern'[Slot(v, g)'])
             = IF v = w /\ g = f THEN i ELSE Handle[v][g]
  PROVE  Handle' = [Handle EXCEPT ![w][f] = i]
<1>1. Handle' = WrittenOut(w, f, i)
  BY HandleEntry DEF WrittenOut
<1>2. Updated(w, f, i) = WrittenOut(w, f, i)
  BY EntryUpdate
<1> QED
  BY <1>1, <1>2 DEF Updated

LEMMA HandleStep ==
  ASSUME IInv, [Next]_vars
  PROVE  [H!Next]_Handle
<1>0. TypeOK /\ SlotsOpen /\ SlotsDistinct /\ ActsOnNamed
  BY AllOpen, AllDistinct DEF IInv
<1>1. \A f \in Fakes : f \in Slots /\ f # 0
  BY SlotKinds
<1>2. \A w \in Workers, f \in Fakes :
        Handle[w][f] = IF Slot(w, f) = StdIn THEN None ELSE kern[Slot(w, f)]
  BY HandleEntry
<1>3. ASSUME NEW w \in Workers, NEW r \in Reals, NEW i \in Files, Takes(w, r, i)
      PROVE  [H!Next]_Handle
  <2>1. \A v \in Workers, s \in Slots :
          Slot(v, s) # r /\ (Slot(v, s) # StdIn => kern'[Slot(v, s)] = kern[Slot(v, s)])
    BY <1>0, <1>3, NextRealUnused, SlotTypes DEF Takes, TypeOK
  <2>2. Handle' = Handle
    BY <1>1, <1>3, <2>1, SameHandles DEF Takes
  <2> QED
    BY <2>2
<1>4. ASSUME NEW w \in Workers, NEW f \in Fakes, Enters(w, f)
      PROVE  [H!Next]_Handle
  <2>1. CASE Slot(w, 0) = StdIn
    <3>1. Handle' = Handle
      BY <1>1, <1>4, <2>1, SameHandles DEF Enters
    <3> QED
      BY <3>1
  <2>2. CASE Slot(w, 0) # StdIn
    <3> DEFINE i == kern[Slot(w, 0)]
    <3>1. i \in Files
      <4>1. 0 \in Slots
        BY SlotKinds
      <4>2. Slot(w, 0) \in Reals /\ kern[Slot(w, 0)] # Closed
        BY <1>0, <2>2, <4>1, SlotTypes DEF SlotsOpen
      <4> QED
        BY <1>0, <4>2 DEF TypeOK
    <3>2. Handle[w][f] = None
      BY <1>2, <1>4 DEF Enters
    <3>3. ASSUME NEW g \in Fakes, g < f PROVE Handle[w][g] # None
      <4>1. Slot(w, g) # StdIn
        BY <1>4, <3>3 DEF Enters
      <4>2. Slot(w, g) \in Reals
        BY <1>0, <1>1, <4>1, SlotTypes
      <4>3. kern[Slot(w, g)] # None
        <5>1. kern[Slot(w, g)] \in Files \cup {Closed}
          BY <1>0, <4>2 DEF TypeOK
        <5> QED
          BY <5>1, ConstantsAssumption
      <4> QED
        BY <1>2, <4>1, <4>3
    <3>4. Handle' = [Handle EXCEPT ![w][f] = i]
      <4>1. \A v \in Workers, g \in Fakes :
              (IF Slot(v, g)' = StdIn THEN None ELSE kern'[Slot(v, g)'])
                = IF v = w /\ g = f THEN i ELSE Handle[v][g]
        BY <1>1, <1>2, <1>4, <2>2 DEF Enters
      <4> HIDE DEF i
      <4> QED
        BY <4>1, OneHandle
    <3>5. H!Open(w, f, i)
      BY <3>2, <3>3, <3>4 DEF H!Open, H!Fakes, Fakes
    <3> QED
      BY <3>1, <3>5 DEF H!Next, H!Fakes, Fakes
  <2> QED
    BY <2>1, <2>2
<1>5. ASSUME NEW w \in Workers, NEW f \in Fakes, GivesUp(w, f)
      PROVE  [H!Next]_Handle
  <2>1. \A v \in Workers, g \in Fakes :
          Slot(v, g) # StdIn /\ ~(v = w /\ g = f) => kern'[Slot(v, g)] = kern[Slot(v, g)]
    <3>1. CASE kern' = kern
      BY <3>1
    <3>2. CASE Slot(w, f) # StdIn /\ kern' = [kern EXCEPT ![Slot(w, f)] = Closed]
      <4>1. \A v \in Workers, g \in Fakes :
              Slot(v, g) # StdIn /\ ~(v = w /\ g = f) =>
                Slot(v, g) # Slot(w, f) /\ Slot(v, g) \in Reals
        BY <1>0, <1>1, SlotTypes DEF SlotsDistinct
      <4> QED
        BY <1>0, <3>2, <4>1 DEF TypeOK
    <3> QED
      BY <1>5, <3>1, <3>2 DEF GivesUp
  <2>2. \A v \in Workers, g \in Fakes :
          (IF Slot(v, g)' = StdIn THEN None ELSE kern'[Slot(v, g)'])
            = IF v = w /\ g = f THEN None ELSE Handle[v][g]
    BY <1>1, <1>2, <1>5, <2>1 DEF GivesUp, Empties
  <2>3. Handle' = [Handle EXCEPT ![w][f] = None]
    BY <2>2, OneHandle
  <2> QED
    BY <2>3 DEF H!Next, H!Release, H!Fakes, Fakes
<1>6. ASSUME NEW w \in Workers, Loses(w) PROVE [H!Next]_Handle
  <2>1. Handle' = Handle
    BY <1>1, <1>6, SameHandles DEF Loses, Empties
  <2> QED
    BY <2>1
<1>7. ASSUME NEW w \in Workers, Ends(w) PROVE [H!Next]_Handle
  <2>1. \A v \in Workers, g \in Fakes :
          (IF Slot(v, g)' = StdIn THEN None ELSE kern'[Slot(v, g)'])
            = IF v = w THEN None ELSE Handle[v][g]
    BY <1>1, <1>2, <1>7 DEF Ends, Empties
  <2>2. Handle' = [v \in Workers |-> [g \in Fakes |-> IF v = w THEN None ELSE Handle[v][g]]]
    BY <2>1, HandleEntry
  <2>3. /\ Handle = [v \in Workers |-> Handle[v]]
        /\ \A v \in Workers : Handle[v] = [g \in Fakes |-> Handle[v][g]]
    BY HandleEntry
  <2>4. Handle' = [Handle EXCEPT ![w] = H!NoHandles]
    <3> HIDE DEF Handle
    <3>1. [Handle EXCEPT ![w] = H!NoHandles]
            = [v \in Workers |-> IF v = w THEN H!NoHandles ELSE Handle[v]]
      BY <2>3
    <3>2. H!NoHandles = [g \in Fakes |-> None]
      BY DEF H!NoHandles, H!Fakes, Fakes
    <3>3. \A v \in Workers : [g \in Fakes |-> IF v = w THEN None ELSE Handle[v][g]]
                                = IF v = w THEN H!NoHandles ELSE Handle[v]
      BY <2>3, <3>2
    <3> QED
      BY <2>2, <3>1, <3>3
  <2> QED
    BY <2>4 DEF H!Next, H!Disconnect
<1>8. ASSUME AllEnd PROVE [H!Next]_Handle
  <2>1. Handle' = [v \in Workers |-> H!NoHandles]
    BY <1>1, <1>8, HandleEntry DEF AllEnd, H!NoHandles, H!Fakes, Fakes
  <2> QED
    BY <2>1 DEF H!Next, H!Restart
<1>9. ASSUME Stays PROVE [H!Next]_Handle
  <2>1. Handle' = Handle
    BY <1>1, <1>9, SameHandles DEF Stays
  <2> QED
    BY <2>1
<1> QED
  BY <1>0, <1>3, <1>4, <1>5, <1>6, <1>7, <1>8, <1>9, SlotStep

(* The workers implement HandleTable, for any number of them: the kernel's *)
(* reuse of descriptor numbers is invisible to the clients, also between   *)
(* close() and fds.remove(), and a handle denotes the file it was opened   *)
(* on until its own worker gives it up.                                    *)
THEOREM FdsImplementHandles == Spec => ImplementsHandleTable
<1>1. Init => H!Init
  BY DEF Init, H!Init, Handle, H!NoHandles, H!Fakes, Fakes, NoFds, Live
<1>2. IInv /\ [Next]_vars => [H!Next]_Handle
  BY HandleStep
<1> QED
  BY FdInvariant, <1>1, <1>2, PTL DEF Spec, ImplementsHandleTable, H!Spec
=============================================================================
