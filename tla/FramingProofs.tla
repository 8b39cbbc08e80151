--------------------------- MODULE FramingProofs ---------------------------
(***************************************************************************)
(* The bytes of a connection, for any names, lengths and number of calls:  *)
(* no read gets bytes meant for another field but in the three places that *)
(* send a number of characters for a text in UTF-8, the worker acts on     *)
(* what the client was called with, a call fails exactly if the worker     *)
(* failed, and seen without its bytes the conversation is RemoteCall.      *)
(*                                                                         *)
(* The parts, in order: numbers and sequences; the bytes of one field and  *)
(* the fields of a form; messages, the bytes that a form reads, with the   *)
(* fields they name and the values they tell; letters, a message of which  *)
(* a part may have been read, and that reading one more field leaves a     *)
(* letter; for each operation, that what the client sends is a letter for  *)
(* the form of the worker, and the reply one for the form of the client;   *)
(* then the invariant (Inv) with a lemma for each step, the theorems, and  *)
(* the refinement.                                                         *)
(***************************************************************************)
EXTENDS Framing, SequenceTheorems, NaturalsInduction, WellFoundedInduction, TLAPS

(* The names of the fields. *)
Labels == {"none", "code", "opcode", "res", "uid", "pathLen", "path", "path2Len", "path2", "flags",
  "mask", "bufsize", "mode", "owner", "group", "length", "asec", "ansec", "msec", "mnsec", "fd",
  "size", "offset", "data", "count", "userLen", "user", "localUid", "helloLen", "hello",
  "sysInfoLen", "sysInfo", "shareLen", "share", "emailLen", "email", "passLen", "pass", "nameLen",
  "name", "certLen", "cert", "msgLen", "msg", "stat", "statvfs", "link", "entryLen", "entry"}

(* An item of a reader's list: a field, and its width or the field that     *)
(* gives it.  A field of a message has its item, the width w in which it is *)
(* written, the width n in which it is read, and the value v; a width of 0  *)
(* is that of a text which its length field says not to follow.            *)
Items  == [f : Labels, w : Nat, by : Labels]
Fields == {p \in [it : Items, w : Nat, n : Int, v : Int] :
             (p.w = 0 /\ p.n <= 0 /\ p.v = 0) \/ (1 <= p.n /\ p.n <= p.w)}
Bytes  == Labels \X Nat \X Nat \X Int
Known  == [f : Labels, v : Int]

(* The bytes s are those of the fields P, one after the other: the k-th     *)
(* ends with the byte c[k].                                                *)
Ends(s, P, c) ==
  /\ c \in [0..Len(P) -> Nat] /\ c[0] = 0 /\ c[Len(P)] = Len(s)
  /\ \A k \in 1..Len(P) :
       /\ c[k] = c[k - 1] + P[k].w /\ c[k] <= Len(s)
       /\ \A j \in 1..P[k].w : s[c[k - 1] + j] = <<P[k].it.f, j, P[k].w, P[k].v>>
Spells(s, P) == s \in Seq(Bytes) /\ P \in Seq(Fields) /\ \E c : Ends(s, P, c)

LEMMA ByteString ==
  ASSUME NEW f \in Labels, NEW w \in Nat, NEW v \in Int
  PROVE  /\ getBytes(f, w, v) \in Seq(Bytes) /\ Len(getBytes(f, w, v)) = w
         /\ \A j \in 1..w : getBytes(f, w, v)[j] = <<f, j, w, v>>
<1>1. \A j \in 1..w : <<f, j, w, v>> \in Bytes
  <2> SUFFICES ASSUME NEW j \in 1..w PROVE <<f, j, w, v>> \in Bytes
      OBVIOUS
  <2>1. j \in Nat
        OBVIOUS
  <2> QED BY <2>1 DEF Bytes
<1>2. getBytes(f, w, v) \in [1..w -> Bytes]
      BY <1>1 DEF getBytes
<1>3. getBytes(f, w, v) \in Seq(Bytes)
      BY <1>2, SeqDef
<1>4. Len(getBytes(f, w, v)) = w
      BY <1>2, LenProperties, <1>3
<1> QED BY <1>2, <1>3, <1>4 DEF getBytes

LEMMA FieldParts ==
  ASSUME NEW p \in Fields
  PROVE  /\ p.it \in Items /\ p.it.f \in Labels /\ p.it.w \in Nat /\ p.it.by \in Labels
         /\ p.w \in Nat /\ p.n \in Int /\ p.v \in Int
         /\ (p.w = 0 /\ p.n <= 0 /\ p.v = 0) \/ (1 <= p.n /\ p.n <= p.w)
BY DEF Fields, Items

LEMMA SpellsNone == Spells(<<>>, <<>>)
<1>1. Ends(<<>>, <<>>, [k \in 0..0 |-> 0])
      BY DEF Ends
<1> QED BY <1>1, EmptySeq DEF Spells

LEMMA SpellsNothing ==
  ASSUME NEW s, Spells(s, <<>>)
  PROVE  s = <<>>
<1>1. PICK c : Ends(s, <<>>, c)
      BY DEF Spells
<1>2. s \in Seq(Bytes) /\ Len(s) = 0
      BY <1>1 DEF Ends, Spells
<1> QED BY <1>2, EmptySeq

LEMMA SpellsOne ==
  ASSUME NEW p \in Fields
  PROVE  Spells(getBytes(p.it.f, p.w, p.v), <<p>>)
<1> DEFINE s == getBytes(p.it.f, p.w, p.v)
           c == [k \in 0..1 |-> IF k = 0 THEN 0 ELSE p.w]
<1>1. /\ s \in Seq(Bytes) /\ Len(s) = p.w
      /\ \A j \in 1..p.w : s[j] = <<p.it.f, j, p.w, p.v>>
      BY FieldParts, ByteString
<1>2. p.w \in Nat
      BY FieldParts
<1> HIDE DEF s
<1>3. c \in [0..1 -> Nat] /\ c[0] = 0 /\ c[1] = p.w
      BY <1>2
<1> HIDE DEF c
<1>4. <<p>> \in Seq(Fields) /\ Len(<<p>>) = 1 /\ <<p>>[1] = p
      OBVIOUS
<1>5. Ends(s, <<p>>, c)
      BY <1>1, <1>2, <1>3, <1>4 DEF Ends
<1> QED BY <1>1, <1>4, <1>5 DEF Spells, s

LEMMA SpellsJoin ==
  ASSUME NEW s, NEW P, Spells(s, P), NEW t, NEW Q, Spells(t, Q)
  PROVE  Spells(s \o t, P \o Q)
<1>1. PICK c : Ends(s, P, c)
      BY DEF Spells
<1>2. PICK d : Ends(t, Q, d)
      BY DEF Spells
<1>3. s \in Seq(Bytes) /\ P \in Seq(Fields) /\ t \in Seq(Bytes) /\ Q \in Seq(Fields)
      BY DEF Spells
<1> DEFINE u == s \o t
           R == P \o Q
           m == Len(P)
           n == Len(Q)
           l == Len(s)
           e == [k \in 0..(m + n) |-> IF k <= m THEN c[k] ELSE l + d[k - m]]
<1>4. m \in Nat /\ n \in Nat /\ l \in Nat /\ Len(t) \in Nat
      BY <1>3
<1>5. /\ u \in Seq(Bytes) /\ Len(u) = l + Len(t)
      /\ \A j \in 1..l : u[j] = s[j]
      /\ \A j \in 1..Len(t) : u[l + j] = t[j]
      BY <1>3
<1>6. /\ R \in Seq(Fields) /\ Len(R) = m + n
      /\ \A k \in 1..m : R[k] = P[k]
      /\ \A k \in 1..n : R[m + k] = Q[k]
      BY <1>3
<1>7. /\ \A k \in 0..m : c[k] \in Nat
      /\ \A k \in 0..n : d[k] \in Nat
      /\ c[0] = 0 /\ c[m] = l /\ d[0] = 0 /\ d[n] = Len(t)
      BY <1>1, <1>2, <1>4 DEF Ends
<1>8. /\ \A k \in 1..m : P[k].w \in Nat
      /\ \A k \in 1..n : Q[k].w \in Nat
      BY <1>3, FieldParts
<1> HIDE DEF u, R
<1>9. e \in [0..(m + n) -> Nat]
  <2> SUFFICES ASSUME NEW k \in 0..(m + n) PROVE (IF k <= m THEN c[k] ELSE l + d[k - m]) \in Nat
      OBVIOUS
  <2>1. CASE k <= m
        BY <1>4, <1>7, <2>1
  <2>2. CASE k > m
    <3>1. k - m \in 0..n
          BY <1>4, <2>2
    <3> QED BY <1>4, <1>7, <2>2, <3>1
  <2> QED BY <1>4, <2>1, <2>2
<1>10. /\ \A k \in 0..m : e[k] = c[k]
       /\ \A k \in 0..n : e[m + k] = l + d[k]
  <2>1. \A k \in 0..m : e[k] = c[k]
        BY <1>4
  <2>2. ASSUME NEW k \in 0..n PROVE e[m + k] = l + d[k]
    <3>1. CASE k = 0
          BY <1>4, <1>7, <3>1
    <3>2. CASE k # 0
      <4>1. m + k \in 0..(m + n) /\ ~ (m + k <= m) /\ (m + k) - m = k
            BY <1>4, <3>2
      <4> QED BY <4>1
    <3> QED BY <3>1, <3>2
  <2> QED BY <2>1, <2>2
<1> HIDE DEF e
<1>11. e[0] = 0 /\ e[m + n] = Len(u)
       BY <1>4, <1>5, <1>7, <1>10
<1>12. ASSUME NEW k \in 1..m
       PROVE  /\ e[k] = e[k - 1] + R[k].w /\ e[k] <= Len(u)
              /\ \A j \in 1..R[k].w : u[e[k - 1] + j] = <<R[k].it.f, j, R[k].w, R[k].v>>
  <2>1. /\ c[k] = c[k - 1] + P[k].w /\ c[k] <= l
        /\ \A j \in 1..P[k].w : s[c[k - 1] + j] = <<P[k].it.f, j, P[k].w, P[k].v>>
        BY <1>1 DEF Ends
  <2>2. k \in 0..m /\ k - 1 \in 0..m
        BY <1>4
  <2>3. c[k] \in Nat /\ c[k - 1] \in Nat /\ P[k].w \in Nat
        BY <1>7, <1>8, <2>2
  <2>4. e[k] = c[k] /\ e[k - 1] = c[k - 1] /\ R[k] = P[k]
        BY <1>6, <1>10, <2>2
  <2>5. \A j \in 1..P[k].w : c[k - 1] + j \in 1..l
        BY <1>4, <2>1, <2>3
  <2>6. \A j \in 1..P[k].w : u[c[k - 1] + j] = s[c[k - 1] + j]
        BY <1>5, <2>5
  <2>7. c[k] <= Len(u)
        BY <1>4, <1>5, <2>1, <2>3
  <2> QED BY <2>1, <2>4, <2>6, <2>7
<1>13. ASSUME NEW k \in 1..n
       PROVE  /\ e[m + k] = e[m + k - 1] + R[m + k].w /\ e[m + k] <= Len(u)
              /\ \A j \in 1..R[m + k].w :
                    u[e[m + k - 1] + j] = <<R[m + k].it.f, j, R[m + k].w, R[m + k].v>>
  <2>1. /\ d[k] = d[k - 1] + Q[k].w /\ d[k] <= Len(t)
        /\ \A j \in 1..Q[k].w : t[d[k - 1] + j] = <<Q[k].it.f, j, Q[k].w, Q[k].v>>
        BY <1>2 DEF Ends
  <2>2. k \in 0..n /\ k - 1 \in 0..n /\ m + k - 1 = m + (k - 1)
        BY <1>4
  <2>3. d[k] \in Nat /\ d[k - 1] \in Nat /\ Q[k].w \in Nat
        BY <1>7, <1>8, <2>2
  <2>4. e[m + k] = l + d[k] /\ e[m + k - 1] = l + d[k - 1] /\ R[m + k] = Q[k]
        BY <1>6, <1>10, <2>2
  <2>5. \A j \in 1..Q[k].w : d[k - 1] + j \in 1..Len(t) /\ (l + d[k - 1]) + j = l + (d[k - 1] + j)
        BY <1>4, <2>1, <2>3
  <2>6. \A j \in 1..Q[k].w : u[(l + d[k - 1]) + j] = t[d[k - 1] + j]
        BY <1>5, <2>5
  <2>7. l + d[k] <= Len(u) /\ l + d[k] = (l + d[k - 1]) + Q[k].w
        BY <1>4, <1>5, <2>1, <2>3
  <2> QED BY <2>1, <2>4, <2>6, <2>7
<1> DEFINE Good(k) == /\ e[k] = e[k - 1] + R[k].w /\ e[k] <= Len(u)
                      /\ \A j \in 1..R[k].w : u[e[k - 1] + j] = <<R[k].it.f, j, R[k].w, R[k].v>>
<1>14. \A k \in 1..(m + n) : Good(k)
  <2>1. \A k \in 1..m : Good(k)
        BY <1>12
  <2>2. \A k \in 1..n : Good(m + k)
        BY <1>13
  <2> HIDE DEF Good
  <2> SUFFICES ASSUME NEW k \in 1..(m + n) PROVE Good(k)
      OBVIOUS
  <2>3. CASE k <= m
    <3>1. k \in 1..m
          BY <1>4, <2>3
    <3> QED BY <2>1, <3>1
  <2>4. CASE k > m
    <3>1. k - m \in 1..n /\ m + (k - m) = k
          BY <1>4, <2>4
    <3> QED BY <2>2, <3>1
  <2> QED BY <1>4, <2>3, <2>4
<1>15. Ends(u, R, e)
       BY <1>5, <1>6, <1>9, <1>11, <1>14 DEF Ends
<1> QED BY <1>5, <1>6, <1>15 DEF Spells, u, R

LEMMA LeastOf ==
  ASSUME NEW T, T \subseteq Nat, T # {}
  PROVE  \E m \in T : \A k \in T : m <= k
<1>1. PICK m \in T : \A y \in T : ~(<<y, m>> \in OpToRel(<, Nat))
      BY NatLessThanWellFounded, WFMin
<1>2. \A y \in T : ~(y < m)
      BY <1>1 DEF OpToRel
<1> QED
    BY <1>2

LEMMA GreatestOf ==
  ASSUME NEW n \in Nat, NEW T, T \subseteq 1..n, T # {}
  PROVE  \E m \in T : \A k \in T : k <= m
<1> DEFINE U == {n - k : k \in T}
<1>1. U \subseteq Nat /\ U # {}
  <2>1. PICK k \in T : TRUE
        OBVIOUS
  <2>2. n - k \in U
        BY <2>1
  <2> QED BY <2>2
<1>2. PICK u \in U : \A k \in U : u <= k
      BY <1>1, LeastOf
<1>3. PICK m \in T : u = n - m
      OBVIOUS
<1>4. \A k \in T : n - m <= n - k
      BY <1>2, <1>3
<1>5. \A k \in T : k <= m
  <2> SUFFICES ASSUME NEW k \in T PROVE k <= m
      OBVIOUS
  <2>1. k \in Nat /\ m \in Nat /\ n - m <= n - k
        BY <1>4
  <2> QED BY ONLY n \in Nat, <2>1
<1> QED BY <1>5

LEMMA TailOf ==
  ASSUME NEW S, NEW P \in Seq(S), P # <<>>
  PROVE  /\ Len(P) \in Nat \ {0} /\ P[1] \in S /\ Tail(P) \in Seq(S) /\ Len(Tail(P)) = Len(P) - 1
         /\ \A k \in 1..(Len(P) - 1) : Tail(P)[k] = P[k + 1]
<1>1. Len(P) \in Nat /\ Len(P) # 0
      BY EmptySeq, LenProperties
<1>2. P[1] \in S
      BY <1>1, ElementOfSeq
<1>3. Tail(P) \in Seq(S) /\ Len(Tail(P)) = Len(P) - 1
      BY HeadTailProperties
<1>4. \A k \in 1..(Len(P) - 1) : Tail(P)[k] = P[k + 1]
      BY <1>1, HeadTailProperties
<1> QED BY <1>1, <1>2, <1>3, <1>4

(* What is left after the first w bytes.                                   *)
LEMMA Remainder ==
  ASSUME NEW s \in Seq(Bytes), NEW w \in Nat, w <= Len(s)
  PROVE  /\ SubSeq(s, w + 1, Len(s)) \in Seq(Bytes) /\ Len(SubSeq(s, w + 1, Len(s))) = Len(s) - w
         /\ \A j \in 1..(Len(s) - w) : SubSeq(s, w + 1, Len(s))[j] = s[w + j]
<1>1. Len(s) \in Nat
      BY LenProperties
<1>2. \A i \in (w + 1)..Len(s) : s[i] \in Bytes
      BY <1>1, ElementOfSeq
<1>3. SubSeq(s, w + 1, Len(s)) \in Seq(Bytes)
      BY <1>1, <1>2, SubSeqProperties
<1>4. Len(SubSeq(s, w + 1, Len(s))) = Len(s) - w
      BY <1>1
<1>5. \A j \in 1..(Len(s) - w) : SubSeq(s, w + 1, Len(s))[j] = s[w + j]
      BY <1>1
<1> QED BY <1>3, <1>4, <1>5

LEMMA SpellsHead ==
  ASSUME NEW s, NEW P, Spells(s, P), P # <<>>
  PROVE  /\ P[1].w <= Len(s)
         /\ \A j \in 1..P[1].w : s[j] = <<P[1].it.f, j, P[1].w, P[1].v>>
         /\ Spells(SubSeq(s, P[1].w + 1, Len(s)), Tail(P))
<1>1. PICK c : Ends(s, P, c)
      BY DEF Spells
<1>2. s \in Seq(Bytes) /\ P \in Seq(Fields)
      BY DEF Spells
<1> DEFINE w == P[1].w
           Q == Tail(P)
           m == Len(P)
           l == Len(s)
           t == SubSeq(s, w + 1, l)
           d == [k \in 0..(m - 1) |-> c[k + 1] - w]
<1>3. /\ m \in Nat \ {0} /\ P[1] \in Fields /\ Q \in Seq(Fields) /\ Len(Q) = m - 1
      /\ \A k \in 1..(m - 1) : Q[k] = P[k + 1]
      BY <1>2, TailOf
<1>4. w \in Nat /\ l \in Nat
      BY <1>2, <1>3, FieldParts, LenProperties
<1>5. /\ \A k \in 0..m : c[k] \in Nat
      /\ c[0] = 0 /\ c[m] = l
      /\ \A k \in 1..m : /\ c[k] = c[k - 1] + P[k].w /\ c[k] <= l
                         /\ \A j \in 1..P[k].w : s[c[k - 1] + j] = <<P[k].it.f, j, P[k].w, P[k].v>>
      BY <1>1 DEF Ends
<1>6. c[1] = w /\ w <= l
      BY <1>3, <1>4, <1>5
<1>7. \A j \in 1..w : s[j] = <<P[1].it.f, j, P[1].w, P[1].v>>
  <2>1. \A j \in 1..P[1].w : s[c[0] + j] = <<P[1].it.f, j, P[1].w, P[1].v>>
    <3>1. 1 \in 1..m /\ 1 - 1 = 0
          BY <1>3
    <3> QED BY <1>5, <3>1
  <2> QED BY <1>5, <2>1
<1>8. /\ t \in Seq(Bytes) /\ Len(t) = l - w
      /\ \A j \in 1..(l - w) : t[j] = s[w + j]
      BY <1>2, <1>4, <1>6, Remainder
<1>9. \A k \in 1..m : P[k].w \in Nat
      BY <1>2, FieldParts
<1> HIDE DEF w, Q, t
<1>10. ASSUME NEW k \in 1..m PROVE c[k] >= w
  (* c grows: were it below w somewhere, it would be at a first place *)
  <2> DEFINE Low == {i \in 1..m : c[i] < w}
  <2>1. ASSUME Low # {} PROVE FALSE
    <3>1. Low \subseteq Nat
          BY <1>3
    <3>2. PICK i \in Low : \A j \in Low : i <= j
          BY <2>1, <3>1, LeastOf
    <3>3. i \in 1..m /\ c[i] < w /\ i # 1
          BY <1>4, <1>6, <3>2
    <3>4. i - 1 \in 1..m /\ i - 1 \in 0..m /\ i \in 0..m
          BY <1>3, <3>3
    <3>5. c[i] = c[i - 1] + P[i].w /\ c[i] \in Nat /\ c[i - 1] \in Nat /\ P[i].w \in Nat
          BY <1>5, <1>9, <3>3, <3>4
    <3>6. i - 1 \in Low
          BY <1>4, <3>3, <3>4, <3>5
    <3> QED BY <3>2, <3>3, <3>6
  <2>2. k \notin Low
        BY <2>1
  <2>3. c[k] \in Nat
        BY <1>3, <1>5
  <2> QED BY <1>4, <2>2, <2>3
<1>11. \A k \in 0..(m - 1) : k + 1 \in 1..m /\ d[k] = c[k + 1] - w /\ d[k] \in Nat
  <2> SUFFICES ASSUME NEW k \in 0..(m - 1)
               PROVE  k + 1 \in 1..m /\ d[k] = c[k + 1] - w /\ d[k] \in Nat
      OBVIOUS
  <2>1. k + 1 \in 1..m /\ k + 1 \in 0..m
        BY <1>3
  <2>2. c[k + 1] \in Nat /\ c[k + 1] >= w
        BY <1>5, <1>10, <2>1
  <2> QED BY <1>4, <2>1, <2>2
<1>12. d \in [0..(m - 1) -> Nat]
       BY <1>11
<1> HIDE DEF d
<1>13. d[0] = 0 /\ d[m - 1] = Len(t)
  <2>1. 0 \in 0..(m - 1) /\ m - 1 \in 0..(m - 1) /\ (m - 1) + 1 = m /\ 0 + 1 = 1
        BY <1>3
  <2> QED BY <1>4, <1>5, <1>6, <1>8, <1>11, <2>1
<1>14. ASSUME NEW k \in 1..(m - 1)
       PROVE  /\ d[k] = d[k - 1] + Q[k].w /\ d[k] <= Len(t)
              /\ \A j \in 1..Q[k].w : t[d[k - 1] + j] = <<Q[k].it.f, j, Q[k].w, Q[k].v>>
  <2>1. k \in 0..(m - 1) /\ k - 1 \in 0..(m - 1) /\ k + 1 \in 1..m /\ k \in 1..m /\ k \in 0..m
        BY <1>3
  <2>2. /\ c[k + 1] = c[k] + P[k + 1].w /\ c[k + 1] <= l
        /\ \A j \in 1..P[k + 1].w : s[c[k] + j] = <<P[k + 1].it.f, j, P[k + 1].w, P[k + 1].v>>
    <3>1. (k + 1) - 1 = k
          OBVIOUS
    <3> QED BY <1>5, <2>1, <3>1
  <2>3. Q[k] = P[k + 1] /\ P[k + 1].w \in Nat
        BY <1>3, <1>9, <2>1
  <2>4. d[k] = c[k + 1] - w /\ d[k - 1] = c[k] - w /\ d[k] \in Nat /\ d[k - 1] \in Nat
        BY <1>11, <2>1
  <2>5. c[k] \in Nat /\ c[k + 1] \in Nat
        BY <1>3, <1>5, <2>1
  <2>6. \A j \in 1..P[k + 1].w : d[k - 1] + j \in 1..(l - w) /\ w + (d[k - 1] + j) = c[k] + j
    <3> SUFFICES ASSUME NEW j \in 1..P[k + 1].w
                 PROVE  d[k - 1] + j \in 1..(l - w) /\ w + (d[k - 1] + j) = c[k] + j
        OBVIOUS
    <3> DEFINE x == d[k - 1]
               y == c[k]
               z == P[k + 1].w
               e == c[k + 1]
    <3>1. x \in Nat /\ y \in Nat /\ z \in Nat /\ e \in Nat /\ x = y - w /\ e = y + z /\ e <= l /\ j \in 1..z
          BY <2>2, <2>3, <2>4, <2>5
    <3> HIDE DEF x, y, z, e
    <3>2. x + j \in 1..(l - w) /\ w + (x + j) = y + j
          BY ONLY <3>1, <1>4
    <3> QED BY <3>2 DEF x, y
  <2>7. \A j \in 1..P[k + 1].w : t[d[k - 1] + j] = s[c[k] + j]
        BY <1>8, <2>6
  <2>8. d[k] = d[k - 1] + P[k + 1].w /\ d[k] <= Len(t)
        BY <1>4, <1>8, <2>2, <2>3, <2>4, <2>5, SMTT(30)
  <2> QED BY <2>2, <2>3, <2>7, <2>8
<1>15. Ends(t, Q, d)
       BY <1>3, <1>12, <1>13, <1>14 DEF Ends
<1>16. Spells(t, Q)
       BY <1>3, <1>8, <1>15 DEF Spells
<1> QED BY <1>6, <1>7, <1>16 DEF w, Q, t

-----------------------------------------------------------------------------
(* What a reader has read and is still to read.                            *)
LEMMA LatestNew ==
  ASSUME NEW got \in Seq(Known), NEW f \in Labels, NEW v \in Int
  PROVE  Latest(Append(got, [f |-> f, v |-> v]), f) = v
<1> DEFINE g == Append(got, [f |-> f, v |-> v])
           at == {i \in DOMAIN g : g[i].f = f}
           n == Len(got) + 1
<1>1. /\ Len(got) \in Nat /\ DOMAIN g = 1..n /\ g[n] = [f |-> f, v |-> v]
      BY LenProperties, AppendProperties
<1> HIDE DEF g
<1>2. n \in at /\ \A j \in at : j <= n
      BY <1>1
<1>3. \A i \in at : (\A j \in at : j <= i) => i = n
      BY <1>1, <1>2
<1>4. (CHOOSE i \in at : \A j \in at : j <= i) = n
      BY <1>2, <1>3
<1>5. Latest(g, f) = g[n].v
      BY <1>4 DEF Latest
<1> QED BY <1>1, <1>5 DEF g

LEMMA LatestOld ==
  ASSUME NEW got \in Seq(Known), NEW f \in Labels, NEW e \in Labels, NEW v \in Int, e # f,
         \E i \in DOMAIN got : got[i].f = f
  PROVE  Latest(Append(got, [f |-> e, v |-> v]), f) = Latest(got, f)
<1> DEFINE g == Append(got, [f |-> e, v |-> v])
           at == {i \in DOMAIN g : g[i].f = f}
           old == {i \in DOMAIN got : got[i].f = f}
           n == Len(got) + 1
           m == CHOOSE i \in old : \A j \in old : j <= i
<1>1. /\ Len(got) \in Nat /\ DOMAIN got = 1..Len(got) /\ DOMAIN g = 1..n
      /\ g[n] = [f |-> e, v |-> v] /\ \A i \in 1..Len(got) : g[i] = got[i]
      BY LenProperties, AppendProperties
<1> HIDE DEF g
<1>2. at = old
  <2>1. ASSUME NEW i \in at PROVE i \in old
    <3>1. i \in 1..n /\ g[i].f = f
          BY <1>1, <2>1
    <3>2. i # n
          BY <1>1, <3>1
    <3>3. i \in 1..Len(got)
          BY <1>1, <3>1, <3>2
    <3> QED BY <1>1, <3>1, <3>3
  <2>2. ASSUME NEW i \in old PROVE i \in at
    <3>1. i \in 1..Len(got) /\ got[i].f = f
          BY <1>1, <2>2
    <3>2. i \in 1..n
          BY <1>1, <3>1
    <3> QED BY <1>1, <3>1, <3>2
  <2> QED BY <2>1, <2>2
<1>3. m \in 1..Len(got)
  <2>1. old \subseteq 1..Len(got) /\ old # {}
        BY <1>1
  <2>2. \E i \in old : \A j \in old : j <= i
        BY <1>1, <2>1, GreatestOf
  <2> QED BY <2>1, <2>2
<1>4. Latest(g, f) = g[m].v
      BY <1>2 DEF Latest
<1>5. Latest(got, f) = got[m].v
      BY DEF Latest
<1> QED BY <1>1, <1>3, <1>4, <1>5 DEF g

(* When the fields P are read, v is what was read last for f.               *)
Says(got, P, f, v) ==
  \/ \E j \in 1..Len(P) : /\ P[j].it.f = f /\ P[j].v = v
                          /\ \A i \in 1..Len(P) : i > j => P[i].it.f # f
  \/ /\ \A j \in 1..Len(P) : P[j].it.f # f
     /\ (\E i \in DOMAIN got : got[i].f = f) /\ Latest(got, f) = v

LEMMA SaysKept ==
  ASSUME NEW got \in Seq(Known), NEW P \in Seq(Fields), P # <<>>,
         NEW f \in Labels, NEW v \in Int, Says(got, P, f, v)
  PROVE  Says(Append(got, [f |-> P[1].it.f, v |-> P[1].v]), Tail(P), f, v)
<1> DEFINE e == P[1].it.f
           x == P[1].v
           g == Append(got, [f |-> e, v |-> x])
           Q == Tail(P)
           m == Len(P)
<1>1. /\ m \in Nat \ {0} /\ P[1] \in Fields /\ Q \in Seq(Fields) /\ Len(Q) = m - 1
      /\ \A k \in 1..(m - 1) : Q[k] = P[k + 1]
      BY TailOf
<1>2. e \in Labels /\ x \in Int
      BY <1>1, FieldParts
<1>3. /\ Len(got) \in Nat /\ DOMAIN got = 1..Len(got) /\ DOMAIN g = 1..(Len(got) + 1)
      /\ g[Len(got) + 1] = [f |-> e, v |-> x] /\ \A i \in 1..Len(got) : g[i] = got[i]
  <2>1. [f |-> e, v |-> x] \in Known
        BY <1>2 DEF Known
  <2> QED BY <2>1, LenProperties, AppendProperties
<1>4. (\E i \in DOMAIN got : got[i].f = f) => Latest(g, f) = IF e = f THEN x ELSE Latest(got, f)
  <2>1. CASE e = f
        BY <1>2, <2>1, LatestNew
  <2>2. CASE e # f
        BY <1>2, <2>2, LatestOld
  <2> QED BY <2>1, <2>2
<1>5. e = f => Latest(g, f) = x
      BY <1>2, LatestNew
<1> HIDE DEF Q, g
<1>6. CASE \E j \in 1..m : /\ P[j].it.f = f /\ P[j].v = v
                           /\ \A i \in 1..m : i > j => P[i].it.f # f
  <2>1. PICK j \in 1..m : /\ P[j].it.f = f /\ P[j].v = v
                          /\ \A i \in 1..m : i > j => P[i].it.f # f
        BY <1>6
  <2>2. CASE j = 1
    <3>1. \A k \in 1..(m - 1) : Q[k].it.f # f
      <4> SUFFICES ASSUME NEW k \in 1..(m - 1) PROVE P[k + 1].it.f # f
          BY <1>1
      <4>1. k + 1 \in 1..m /\ k + 1 > j
            BY <1>1, <2>2
      <4> QED BY <2>1, <4>1
    <3>2. e = f /\ x = v
          BY <2>1, <2>2
    <3>3. Len(got) + 1 \in DOMAIN g /\ g[Len(got) + 1].f = f
          BY <1>3, <3>2
    <3> QED BY <1>1, <1>5, <3>1, <3>2, <3>3 DEF Says, Q, g
  <2>3. CASE j # 1
    <3>1. j - 1 \in 1..(m - 1) /\ (j - 1) + 1 = j
          BY <1>1, <2>3
    <3>2. Q[j - 1] = P[j]
          BY <1>1, <3>1
    <3>3. \A i \in 1..(m - 1) : i > j - 1 => Q[i].it.f # f
      <4> SUFFICES ASSUME NEW i \in 1..(m - 1), i > j - 1 PROVE P[i + 1].it.f # f
          BY <1>1
      <4>1. i + 1 \in 1..m /\ i + 1 > j
            BY <1>1
      <4> QED BY <2>1, <4>1
    <3> QED BY <1>1, <2>1, <3>1, <3>2, <3>3 DEF Says, Q, g
  <2> QED BY <2>2, <2>3
<1>7. CASE /\ \A j \in 1..m : P[j].it.f # f
           /\ (\E i \in DOMAIN got : got[i].f = f) /\ Latest(got, f) = v
  <2>1. e # f
        BY <1>1, <1>7
  <2>2. Latest(g, f) = v
        BY <1>4, <1>7, <2>1
  <2>3. \A k \in 1..(m - 1) : Q[k].it.f # f
    <3> SUFFICES ASSUME NEW k \in 1..(m - 1) PROVE P[k + 1].it.f # f
        BY <1>1
    <3>1. k + 1 \in 1..m
          BY <1>1
    <3> QED BY <1>7, <3>1
  <2>4. \E i \in DOMAIN g : g[i].f = f
    <3>1. PICK i \in DOMAIN got : got[i].f = f
          BY <1>7
    <3>2. i \in DOMAIN g /\ g[i] = got[i]
          BY <1>3
    <3> QED BY <3>1, <3>2
  <2> QED BY <1>1, <2>2, <2>3, <2>4 DEF Says, Q, g
<1> QED BY <1>6, <1>7 DEF Says

LEMMA SaysAtEnd ==
  ASSUME NEW got, NEW f, NEW v, Says(got, <<>>, f, v)
  PROVE  Latest(got, f) = v /\ got # <<>>
<1>1. Len(<<>>) = 0 /\ DOMAIN <<>> = {}
      OBVIOUS
<1> QED BY <1>1 DEF Says

(* The fields P can be read in order: a text has the width n that what was *)
(* read before says.                                                       *)
Sourced(got, P) ==
  \A k \in 1..Len(P) :
     /\ P[k].it.by = "none" => P[k].it.w = P[k].n
     /\ P[k].it.by # "none" => Says(got, SubSeq(P, 1, k - 1), P[k].it.by, P[k].n)

(* What is to be read grows: the field of a loop gives the items of its    *)
(* body, and the list so far stops there or at the last field.             *)
More(p, op) == Loops(p.it.f, p.v, op)
Stops(P, op) == {k \in 1..Len(P) : k = Len(P) \/ More(P[k], op) # <<>>}
(* items are those of the fields from the k-th, exclusive, to the next stop *)
Piece(items, P, k, op) ==
  /\ items \in Seq(Items)
  /\ IF k = Len(P) THEN items = <<>>
     ELSE /\ Len(items) > 0 /\ k + Len(items) \in Stops(P, op)
          /\ \A j \in Stops(P, op) : j > k => j >= k + Len(items)
          /\ \A i \in 1..Len(items) : items[i] = P[k + i].it
(* A reader that begins with items reads P.                                *)
Script(items, P, op) ==
  /\ P \in Seq(Fields) /\ Piece(items, P, 0, op)
  /\ \A k \in Stops(P, op) : Piece(More(P[k], op), P, k, op)

Reading(todo, got, s, op, P) ==
  got \in Seq(Known) /\ Spells(s, P) /\ Sourced(got, P) /\ Script(todo, P, op)

LEMMA SourcedKept ==
  ASSUME NEW got \in Seq(Known), NEW P \in Seq(Fields), P # <<>>, Sourced(got, P)
  PROVE  Sourced(Append(got, [f |-> P[1].it.f, v |-> P[1].v]), Tail(P))
<1> DEFINE Q == Tail(P)
           m == Len(P)
           g == Append(got, [f |-> P[1].it.f, v |-> P[1].v])
<1>1. /\ m \in Nat \ {0} /\ Q \in Seq(Fields) /\ Len(Q) = m - 1
      /\ \A k \in 1..(m - 1) : Q[k] = P[k + 1]
      BY TailOf
<1> SUFFICES ASSUME NEW k \in 1..(m - 1)
             PROVE  /\ Q[k].it.by = "none" => Q[k].it.w = Q[k].n
                    /\ Q[k].it.by # "none" => Says(g, SubSeq(Q, 1, k - 1), Q[k].it.by, Q[k].n)
    BY <1>1 DEF Sourced
<1>2. k + 1 \in 1..m /\ Q[k] = P[k + 1] /\ (k + 1) - 1 = k
      BY <1>1
<1>3. P[k + 1].it.by = "none" => P[k + 1].it.w = P[k + 1].n
      BY <1>2 DEF Sourced
<1>4. ASSUME P[k + 1].it.by # "none"
      PROVE  Says(g, SubSeq(Q, 1, k - 1), P[k + 1].it.by, P[k + 1].n)
  <2> DEFINE R == SubSeq(P, 1, k)
  <2>1. Says(got, R, P[k + 1].it.by, P[k + 1].n)
        BY <1>2, <1>4 DEF Sourced
  <2>2. P[k + 1].it.by \in Labels /\ P[k + 1].n \in Int
        BY <1>2, ElementOfSeq, FieldParts
  <2>3. R \in Seq(Fields) /\ R # <<>> /\ R[1] = P[1] /\ Tail(R) = SubSeq(Q, 1, k - 1)
    <3>1. \A i \in 1..k : P[i] \in Fields
          BY <1>1, ElementOfSeq
    <3>2. R \in Seq(Fields) /\ Len(R) = k /\ \A i \in 1..k : R[i] = P[i]
          BY <1>1, <3>1, SubSeqProperties
    <3>3. R # <<>> /\ R[1] = P[1]
          BY <3>2
    <3>4. Tail(R) \in Seq(Fields) /\ Len(Tail(R)) = k - 1 /\ \A i \in 1..(k - 1) : Tail(R)[i] = R[i + 1]
          BY <3>2, <3>3, TailOf
    <3>5. \A i \in 1..(k - 1) : Q[i] \in Fields
          BY <1>1, ElementOfSeq
    <3>6. /\ SubSeq(Q, 1, k - 1) \in Seq(Fields) /\ Len(SubSeq(Q, 1, k - 1)) = k - 1
          /\ \A i \in 1..(k - 1) : SubSeq(Q, 1, k - 1)[i] = Q[i]
          BY <1>1, <3>5, SubSeqProperties
    <3> HIDE DEF R, Q
    <3>7. \A i \in 1..(k - 1) : Tail(R)[i] = SubSeq(Q, 1, k - 1)[i]
          BY <1>1, <3>2, <3>4, <3>6
    <3> QED BY <3>2, <3>3, <3>4, <3>6, <3>7, SeqEqual
  <2> HIDE DEF R, Q
  <2>4. Says(Append(got, [f |-> R[1].it.f, v |-> R[1].v]), Tail(R), P[k + 1].it.by, P[k + 1].n)
        BY <2>1, <2>2, <2>3, SaysKept
  <2> QED BY <2>3, <2>4
<1> QED BY <1>2, <1>3, <1>4

LEMMA StopsLater ==
  ASSUME NEW P \in Seq(Fields), P # <<>>, NEW op, NEW k \in Nat, NEW l, l = k + 1
  PROVE  k \in Stops(Tail(P), op) <=> k > 0 /\ l \in Stops(P, op)
<1> DEFINE Q == Tail(P)
           m == Len(P)
<1>1. /\ m \in Nat \ {0} /\ Len(Q) = m - 1 /\ \A j \in 1..(m - 1) : Q[j] = P[j + 1]
      BY TailOf
<1> HIDE DEF Q
<1>2. CASE k \in 1..(m - 1)
  <2>1. Q[k] = P[l] /\ l \in 1..m /\ (k = m - 1 <=> l = m) /\ k > 0
        BY <1>1, <1>2
  <2>2. k \in Stops(Q, op) <=> k = m - 1 \/ More(Q[k], op) # <<>>
        BY <1>1, <1>2 DEF Stops
  <2>3. l \in Stops(P, op) <=> l = m \/ More(P[l], op) # <<>>
        BY <2>1 DEF Stops
  <2> QED BY <2>1, <2>2, <2>3 DEF Q
<1>3. CASE k \notin 1..(m - 1)
  <2>1. k = 0 \/ l \notin 1..m
        BY <1>1, <1>3
  <2>2. k \notin Stops(Q, op)
        BY <1>1, <1>3 DEF Stops
  <2> QED BY <2>1, <2>2 DEF Stops, Q
<1> QED BY <1>2, <1>3

LEMMA PieceLater ==
  ASSUME NEW P \in Seq(Fields), P # <<>>, NEW op, NEW items, NEW k \in Nat, NEW l, l = k + 1,
         l <= Len(P), Piece(items, P, l, op)
  PROVE  Piece(items, Tail(P), k, op)
<1> DEFINE Q == Tail(P)
           m == Len(P)
           n == Len(items)
<1>1. /\ m \in Nat \ {0} /\ Len(Q) = m - 1 /\ \A j \in 1..(m - 1) : Q[j] = P[j + 1]
      BY TailOf
<1>2. items \in Seq(Items) /\ n \in Nat
      BY DEF Piece
<1>3. l = m <=> k = m - 1
      BY <1>1
<1> HIDE DEF Q
<1>4. CASE l = m
  <2>1. items = <<>>
        BY <1>4 DEF Piece
  <2> QED BY <1>1, <1>2, <1>3, <1>4, <2>1 DEF Piece, Q
<1>5. CASE l # m
  <2>1. /\ n > 0 /\ l + n \in Stops(P, op)
        /\ \A j \in Stops(P, op) : j > l => j >= l + n
        /\ \A i \in 1..n : items[i] = P[l + i].it
        BY <1>5 DEF Piece
  <2>2. k + n \in Nat /\ k + n > 0 /\ l + n = (k + n) + 1
        BY <1>2, <2>1
  <2>3. k + n \in Stops(Q, op)
        BY <2>1, <2>2, StopsLater DEF Q
  <2>4. ASSUME NEW j \in Stops(Q, op), j > k PROVE j >= k + n
    <3>1. j \in Nat
          BY <1>1 DEF Stops
    <3>2. j + 1 \in Stops(P, op)
          BY <3>1, StopsLater DEF Q
    <3>3. j + 1 > l
          BY <3>1, <2>4
    <3>4. j + 1 >= l + n
          BY <2>1, <3>2, <3>3
    <3> QED BY <1>2, <3>1, <3>4
  <2>5. ASSUME NEW i \in 1..n PROVE items[i] = Q[k + i].it
    <3>1. l + n <= m
          BY <1>1, <1>2, <2>1 DEF Stops
    <3>2. k + i \in 1..(m - 1) /\ (k + i) + 1 = l + i
          BY <1>1, <1>2, <3>1
    <3>3. Q[k + i] = P[(k + i) + 1]
          BY <1>1, <3>2
    <3> QED BY <2>1, <3>2, <3>3
  <2>6. k # Len(Q)
        BY <1>1, <1>3, <1>5
  <2> QED BY <1>2, <2>1, <2>3, <2>4, <2>5, <2>6 DEF Piece, Q
<1> QED BY <1>4, <1>5

(* One field is read.                                                      *)
LEMMA ScriptKept ==
  ASSUME NEW P, P # <<>>, NEW op, NEW todo, Script(todo, P, op)
  PROVE  /\ todo # <<>> /\ todo[1] = P[1].it /\ P \in Seq(Fields)
         /\ Script(More(P[1], op) \o Tail(todo), Tail(P), op)
<1> DEFINE Q == Tail(P)
           m == Len(P)
           t == Len(todo)
           L == More(P[1], op)
<1>1. P \in Seq(Fields)
      BY DEF Script
<1>2. /\ m \in Nat \ {0} /\ Q \in Seq(Fields) /\ Len(Q) = m - 1
      /\ \A j \in 1..(m - 1) : Q[j] = P[j + 1]
      BY <1>1, TailOf
<1>3. /\ todo \in Seq(Items) /\ t > 0 /\ t \in Stops(P, op) /\ t \in Nat
      /\ \A j \in Stops(P, op) : j > 0 => j >= t
      /\ \A i \in 1..t : todo[i] = P[i].it
  <2>1. Piece(todo, P, 0, op) /\ 0 # m
        BY <1>2 DEF Script
  <2>2. /\ todo \in Seq(Items) /\ t > 0 /\ 0 + t \in Stops(P, op)
        /\ \A j \in Stops(P, op) : j > 0 => j >= 0 + t
        /\ \A i \in 1..t : todo[i] = P[0 + i].it
        BY <2>1 DEF Piece
  <2>3. t \in Nat /\ 0 + t = t /\ \A i \in 1..t : 0 + i = i
        BY <2>2
  <2> QED BY <2>2, <2>3
<1>4. todo # <<>> /\ todo[1] = P[1].it
  <2>1. 1 \in 1..t
        BY <1>3
  <2> QED BY <1>3, <2>1
<1>5. t \in 1..m
      BY <1>3 DEF Stops
<1>10. t \in Nat /\ t > 0
       BY <1>3
<1> HIDE DEF Q, L, t
<1>6. /\ Tail(todo) \in Seq(Items) /\ Len(Tail(todo)) = t - 1
      /\ \A k \in 1..(t - 1) : Tail(todo)[k] = todo[k + 1]
      BY <1>3, <1>4, TailOf DEF t
<1>7. Piece(L \o Tail(todo), P, 1, op)
  <2>1. CASE 1 \in Stops(P, op)
    <3>0. 1 >= t
          BY <1>3, <2>1
    <3>1. t = 1
          BY ONLY <1>10, <3>0
    <3>2. Tail(todo) = <<>>
      <4>1. Len(Tail(todo)) = 0
            BY <1>6, <3>1
      <4> QED BY <1>6, <4>1, EmptySeq
    <3>3. Piece(L, P, 1, op)
          BY <2>1 DEF Script, L
    <3>4. L \o Tail(todo) = L
          BY <3>2, <3>3, ConcatEmptySeq DEF Piece
    <3> QED BY <3>3, <3>4
  <2>2. CASE 1 \notin Stops(P, op)
    <3>1. 1 \in 1..m
          BY <1>2
    <3>2. L = <<>> /\ m # 1
          BY <2>2, <3>1 DEF Stops, L
    <3>3. L \o Tail(todo) = Tail(todo)
          BY <1>6, <3>2, ConcatEmptySeq
    <3>4. t # 1
          BY <1>3, <2>2
    <3>5. t - 1 > 0 /\ 1 + (t - 1) = t
          BY ONLY <1>10, <3>4
    <3>6. ASSUME NEW i \in 1..(t - 1) PROVE Tail(todo)[i] = P[1 + i].it
      <4>1. i + 1 \in 1..t /\ i + 1 = 1 + i
            BY <1>3
      <4> QED BY <1>3, <1>6, <4>1
    <3>7. \A j \in Stops(P, op) : j > 1 => j >= 1 + (t - 1)
      <4> SUFFICES ASSUME NEW j \in Stops(P, op), j > 1 PROVE j >= t
          BY <3>5
      <4>1. j > 0
            BY DEF Stops
      <4> QED BY <1>3, <4>1
    <3> QED BY <1>3, <1>6, <3>2, <3>3, <3>5, <3>6, <3>7 DEF Piece
  <2> QED BY <2>1, <2>2
<1>8. Piece(L \o Tail(todo), Q, 0, op)
  <2>1. 0 \in Nat /\ 1 = 0 + 1 /\ 1 <= m
        BY <1>2
  <2> QED BY <1>1, <1>7, <2>1, PieceLater DEF Q
<1>9. ASSUME NEW k \in Stops(Q, op) PROVE Piece(More(Q[k], op), Q, k, op)
  <2>1. k \in 1..(m - 1) /\ k \in Nat
        BY <1>2 DEF Stops
  <2>2. k + 1 \in Stops(P, op)
        BY <1>1, <2>1, StopsLater DEF Q
  <2>3. Piece(More(P[k + 1], op), P, k + 1, op) /\ Q[k] = P[k + 1]
        BY <1>2, <2>1, <2>2 DEF Script
  <2>4. k + 1 <= m
        BY <1>2, <2>1
  <2> QED BY <1>1, <2>1, <2>3, <2>4, PieceLater DEF Q
<1> QED BY <1>1, <1>2, <1>4, <1>8, <1>9 DEF Script, Q, L

(* What one call of readExactBytes does with what is left of a message: it *)
(* gets the bytes meant for it unless the text is longer than its length   *)
(* field says, and what is left can be read on.                            *)
FieldRead(todo, got, s, op, P) ==
  /\ P # <<>> /\ P \in Seq(Fields) /\ P[1] \in Fields /\ todo[1] = P[1].it
  /\ got \in Seq(Known)
  /\ Width(todo[1], got) = P[1].n
  /\ P[1].n > 0 => s[1] = <<P[1].it.f, 1, P[1].w, P[1].v>>
  /\ Meant(s, todo[1], got) <=> ~ (1 <= P[1].n /\ P[1].n < P[1].w)
  /\ Meant(s, todo[1], got) =>
       /\ Value(s, todo[1], got) = P[1].v
       /\ Reading(Loops(todo[1].f, P[1].v, op) \o Tail(todo),
                  Append(got, [f |-> todo[1].f, v |-> P[1].v]),
                  Rest(s, todo[1], got), op, Tail(P))

LEMMA ReadField ==
  ASSUME NEW todo, NEW got, NEW s, NEW op, NEW P, Reading(todo, got, s, op, P), todo # <<>>
  PROVE  FieldRead(todo, got, s, op, P)
<1> DEFINE it == P[1].it
           w == P[1].w
           n == P[1].n
           v == P[1].v
<1>1. got \in Seq(Known) /\ Spells(s, P) /\ Sourced(got, P) /\ Script(todo, P, op)
      BY DEF Reading
<1>2. P \in Seq(Fields) /\ s \in Seq(Bytes)
      BY <1>1 DEF Spells
<1>3. P # <<>>
  <2>1. SUFFICES ASSUME P = <<>> PROVE FALSE
        OBVIOUS
  <2>2. Len(P) = 0
        BY <2>1
  <2> QED BY <1>1, <2>2 DEF Script, Piece
<1>4. Len(P) \in Nat \ {0} /\ P[1] \in Fields
      BY <1>2, <1>3, TailOf
<1>5. todo[1] = it /\ Script(Loops(it.f, v, op) \o Tail(todo), Tail(P), op)
      BY <1>1, <1>3, ScriptKept DEF More
<1>6. /\ it.f \in Labels /\ w \in Nat /\ n \in Int /\ v \in Int
      /\ (w = 0 /\ n <= 0 /\ v = 0) \/ (1 <= n /\ n <= w)
      BY <1>4, FieldParts
<1>7. Width(it, got) = n
  <2>1. 1 \in 1..Len(P)
        BY <1>4
  <2>2. /\ it.by = "none" => it.w = n
        /\ it.by # "none" => Says(got, SubSeq(P, 1, 1 - 1), it.by, n)
        BY <1>1, <2>1 DEF Sourced
  <2>3. SubSeq(P, 1, 1 - 1) = <<>>
        BY <1>2
  <2>4. it.by # "none" => Latest(got, it.by) = n
        BY <2>2, <2>3, SaysAtEnd
  <2> QED BY <2>2, <2>4 DEF Width
<1>8. /\ w <= Len(s) /\ \A j \in 1..w : s[j] = <<it.f, j, w, v>>
      /\ Spells(SubSeq(s, w + 1, Len(s)), Tail(P))
      BY <1>1, <1>3, SpellsHead
<1>9. Sourced(Append(got, [f |-> it.f, v |-> v]), Tail(P))
      BY <1>1, <1>2, <1>3, SourcedKept
<1>10. Append(got, [f |-> it.f, v |-> v]) \in Seq(Known)
  <2>1. [f |-> it.f, v |-> v] \in Known
        BY <1>6 DEF Known
  <2> QED BY <1>1, <2>1, AppendProperties
<1> HIDE DEF it, w, n, v
<1>11. n > 0 => s[1] = <<it.f, 1, w, v>>
  <2>1. n > 0 => 1 \in 1..w
        BY <1>6
  <2> QED BY <1>8, <2>1
<1>12. Meant(s, it, got) <=> ~ (1 <= n /\ n < w)
  <2>1. CASE n <= 0
        BY <1>6, <1>7, <2>1 DEF Meant
  <2>2. CASE n > 0
    <3>1. 1 <= n /\ n <= w /\ Len(s) \in Nat
          BY <1>2, <1>6, <2>2
    <3>2. Taken(s, it, got) = SubSeq(s, 1, n)
          BY <1>7 DEF Taken
    <3> DEFINE t == SubSeq(s, 1, n)
    <3>3. t = [j \in 1..n |-> <<it.f, j, w, v>>]
      <4>1. \A j \in 1..n : s[j] \in Bytes
            BY <1>2, <1>6, <1>8, <3>1, ElementOfSeq
      <4>2. t \in Seq(Bytes) /\ Len(t) = n /\ \A j \in 1..n : t[j] = s[j]
            BY <1>2, <1>6, <1>8, <3>1, <4>1, SubSeqProperties
      <4>3. \A j \in 1..n : t[j] = <<it.f, j, w, v>>
            BY <1>6, <1>8, <3>1, <4>2
      <4>4. t \in [1..n -> Bytes]
            BY <4>2, LenProperties
      <4> HIDE DEF t
      <4> QED BY <4>3, <4>4
    <3> HIDE DEF t
    <3>4. t[1] = <<it.f, 1, w, v>> /\ t[1][4] = v
      <4>1. 1 \in 1..n
            BY <1>6, <3>1
      <4> QED BY <3>3, <4>1
    <3>5. Meant(s, it, got) <=> t = getBytes(it.f, n, v)
          BY <1>7, <2>2, <3>2, <3>4 DEF Meant, t
    <3>6. n = w => t = getBytes(it.f, n, v)
          BY <3>3 DEF getBytes
    <3>7. t = getBytes(it.f, n, v) => n = w
      <4>1. 1 \in 1..n
            BY <1>6, <3>1
      <4>2. getBytes(it.f, n, v)[1] = <<it.f, 1, n, v>>
            BY <4>1 DEF getBytes
      <4> QED BY <3>4, <4>2
    <3> QED BY <1>6, <3>1, <3>5, <3>6, <3>7
  <2> QED BY <1>6, <2>1, <2>2
<1>13. ASSUME ~ (1 <= n /\ n < w)
       PROVE  /\ Value(s, it, got) = v
              /\ Spells(Rest(s, it, got), Tail(P))
  <2>1. CASE n <= 0
    <3>1. w = 0 /\ v = 0
          BY <1>6, <2>1
    <3>2. Rest(s, it, got) = s /\ Value(s, it, got) = 0
          BY <1>7, <2>1 DEF Rest, Value
    <3>3. SubSeq(s, w + 1, Len(s)) = s
      <4>1. w + 1 = 1
            BY <3>1
      <4> QED BY <1>2, <4>1
    <3> QED BY <1>8, <3>1, <3>2, <3>3
  <2>2. CASE n > 0
    <3>1. n = w
          BY <1>6, <1>13, <2>2
    <3>2. ~ (n <= 0)
          BY <1>6, <2>2
    <3>3. Rest(s, it, got) = SubSeq(s, w + 1, Len(s)) /\ Value(s, it, got) = s[1][4]
          BY <1>7, <3>1, <3>2 DEF Rest, Value
    <3> QED BY <1>8, <1>11, <2>2, <3>3
  <2> QED BY <1>6, <2>1, <2>2
<1>14. Meant(s, it, got) =>
         /\ Value(s, it, got) = v
         /\ Reading(Loops(it.f, v, op) \o Tail(todo), Append(got, [f |-> it.f, v |-> v]),
                    Rest(s, it, got), op, Tail(P))
       BY <1>5, <1>9, <1>10, <1>12, <1>13 DEF Reading
<1> QED BY <1>1, <1>2, <1>3, <1>4, <1>5, <1>7, <1>11, <1>12, <1>14 DEF FieldRead, it, w, n, v

-----------------------------------------------------------------------------
(* Messages, put together from fields.                                     *)
FieldNames(P) == {P[k].it.f : k \in 1..Len(P)}
(* Texts that are longer than their length fields say are those of D only. *)
Honest(P, D)  == \A k \in 1..Len(P) : 1 <= P[k].n /\ P[k].n < P[k].w => P[k].it \in D
(* The bytes s are the fields P, and a reader of items needs to know       *)
(* nothing from before.                                                    *)
Form(s, items, P) ==
  /\ Spells(s, P) /\ Sourced(<<>>, P)
  /\ items \in Seq(Items) /\ Len(items) = Len(P) /\ \A k \in 1..Len(P) : items[k] = P[k].it

LEMMA JoinOf ==
  ASSUME NEW S, NEW A \in Seq(S), NEW Q \in Seq(S)
  PROVE  /\ Len(A) \in Nat /\ Len(Q) \in Nat /\ A \o Q \in Seq(S) /\ Len(A \o Q) = Len(A) + Len(Q)
         /\ \A k \in 1..Len(A) : (A \o Q)[k] = A[k]
         /\ \A k \in 1..Len(Q) : (A \o Q)[Len(A) + k] = Q[k]
         /\ \A k \in 1..(Len(A) + Len(Q)) : k > Len(A) =>
              k - Len(A) \in 1..Len(Q) /\ (A \o Q)[k] = Q[k - Len(A)]
<1>1. Len(A) \in Nat /\ Len(Q) \in Nat /\ A \o Q \in Seq(S) /\ Len(A \o Q) = Len(A) + Len(Q)
      OBVIOUS
<1>2. \A k \in 1..Len(A) : (A \o Q)[k] = A[k]
      OBVIOUS
<1>3. \A k \in 1..Len(Q) : (A \o Q)[Len(A) + k] = Q[k]
      OBVIOUS
<1>4. \A k \in 1..(Len(A) + Len(Q)) : k > Len(A) =>
        k - Len(A) \in 1..Len(Q) /\ (A \o Q)[k] = Q[k - Len(A)]
      OBVIOUS
<1> QED BY <1>1, <1>2, <1>3, <1>4

LEMMA SaysMore ==
  ASSUME NEW got \in Seq(Known), NEW A \in Seq(Fields), NEW Q \in Seq(Fields),
         NEW f, NEW v, Says(<<>>, Q, f, v)
  PROVE  Says(got, A \o Q, f, v)
<1>1. PICK j \in 1..Len(Q) : /\ Q[j].it.f = f /\ Q[j].v = v
                             /\ \A i \in 1..Len(Q) : i > j => Q[i].it.f # f
      BY DEF Says
<1> DEFINE R == A \o Q
           a == Len(A)
           q == Len(Q)
<1>2. /\ a \in Nat /\ q \in Nat /\ Len(R) = a + q
      /\ \A k \in 1..q : R[a + k] = Q[k]
      /\ \A k \in 1..(a + q) : k > a => k - a \in 1..q /\ R[k] = Q[k - a]
      BY JoinOf
<1> HIDE DEF R, a, q
<1>3. a + j \in 1..Len(R) /\ R[a + j] = Q[j]
      BY <1>1, <1>2 DEF q
<1>4. ASSUME NEW i \in 1..Len(R), i > a + j PROVE R[i].it.f # f
  <2>1. i \in 1..(a + q) /\ i > a /\ i - a > j
        BY <1>1, <1>2, <1>4 DEF q
  <2>2. i - a \in 1..Len(Q) /\ R[i] = Q[i - a]
        BY <1>2, <2>1 DEF q
  <2> QED BY <1>1, <2>1, <2>2
<1> QED BY <1>1, <1>3, <1>4 DEF Says, R

LEMMA SaysBefore ==
  ASSUME NEW A \in Seq(Fields), NEW Q \in Seq(Fields),
         NEW f, NEW v, Says(<<>>, A, f, v), f \notin FieldNames(Q)
  PROVE  Says(<<>>, A \o Q, f, v)
<1>1. PICK j \in 1..Len(A) : /\ A[j].it.f = f /\ A[j].v = v
                             /\ \A i \in 1..Len(A) : i > j => A[i].it.f # f
      BY DEF Says
<1> DEFINE R == A \o Q
           a == Len(A)
           q == Len(Q)
<1>2. /\ a \in Nat /\ q \in Nat /\ Len(R) = a + q
      /\ \A k \in 1..a : R[k] = A[k]
      /\ \A k \in 1..(a + q) : k > a => k - a \in 1..q /\ R[k] = Q[k - a]
      BY JoinOf
<1> HIDE DEF R, a, q
<1>3. j \in 1..Len(R) /\ R[j] = A[j]
      BY <1>1, <1>2 DEF a
<1>4. ASSUME NEW i \in 1..Len(R), i > j PROVE R[i].it.f # f
  <2>1. CASE i <= a
    <3>1. i \in 1..Len(A) /\ R[i] = A[i]
          BY <1>2, <2>1 DEF a
    <3> QED BY <1>1, <1>4, <3>1
  <2>2. CASE i > a
    <3>1. i \in 1..(a + q)
          BY <1>2
    <3>2. i - a \in 1..Len(Q) /\ R[i] = Q[i - a]
          BY <1>2, <2>2, <3>1 DEF q
    <3> QED BY <3>2 DEF FieldNames
  <2> QED BY <1>2, <2>1, <2>2
<1> QED BY <1>1, <1>3, <1>4 DEF Says, R

LEMMA NamesJoin ==
  ASSUME NEW A \in Seq(Fields), NEW Q \in Seq(Fields)
  PROVE  /\ FieldNames(A \o Q) = FieldNames(A) \cup FieldNames(Q)
         /\ \A D : Honest(A, D) /\ Honest(Q, D) => Honest(A \o Q, D)
<1> DEFINE R == A \o Q
           a == Len(A)
           q == Len(Q)
<1>1. /\ a \in Nat /\ q \in Nat /\ Len(R) = a + q
      /\ \A k \in 1..a : R[k] = A[k]
      /\ \A k \in 1..q : R[a + k] = Q[k]
      /\ \A k \in 1..(a + q) : k > a => k - a \in 1..q /\ R[k] = Q[k - a]
      BY JoinOf
<1> HIDE DEF R, a, q
<1>2. ASSUME NEW k \in 1..Len(R)
      PROVE  (\E j \in 1..a : R[k] = A[j]) \/ (\E j \in 1..q : R[k] = Q[j])
  <2>1. CASE k <= a
        BY <1>1, <2>1
  <2>2. CASE k > a
        BY <1>1, <2>2
  <2> QED BY <1>1, <2>1, <2>2
<1>3. \A k \in 1..a : k \in 1..Len(R) /\ R[k] = A[k]
      BY <1>1
<1>4. \A k \in 1..q : a + k \in 1..Len(R) /\ R[a + k] = Q[k]
      BY <1>1
<1>5. FieldNames(R) = FieldNames(A) \cup FieldNames(Q)
  <2>1. \A f \in FieldNames(R) : f \in FieldNames(A) \cup FieldNames(Q)
        BY <1>2 DEF FieldNames, a, q
  <2>2. \A f \in FieldNames(A) : f \in FieldNames(R)
        BY <1>3 DEF FieldNames, a
  <2>3. \A f \in FieldNames(Q) : f \in FieldNames(R)
        BY <1>4 DEF FieldNames, q
  <2> QED BY <2>1, <2>2, <2>3
<1>6. ASSUME NEW D, Honest(A, D), Honest(Q, D) PROVE Honest(R, D)
      BY <1>2, <1>6 DEF Honest, a, q
<1> QED BY <1>5, <1>6 DEF R

LEMMA FormJoin ==
  ASSUME NEW s, NEW t, NEW x, NEW y, NEW A, NEW Q, Form(s, x, A), Form(t, y, Q)
  PROVE  Form(s \o t, x \o y, A \o Q)
<1>1. /\ Spells(s, A) /\ Sourced(<<>>, A) /\ x \in Seq(Items) /\ Len(x) = Len(A)
      /\ \A k \in 1..Len(A) : x[k] = A[k].it
      /\ Spells(t, Q) /\ Sourced(<<>>, Q) /\ y \in Seq(Items) /\ Len(y) = Len(Q)
      /\ \A k \in 1..Len(Q) : y[k] = Q[k].it
      BY DEF Form
<1>2. A \in Seq(Fields) /\ Q \in Seq(Fields)
      BY <1>1 DEF Spells
<1> DEFINE R == A \o Q
           z == x \o y
           a == Len(A)
           q == Len(Q)
<1>3. Spells(s \o t, R)
      BY <1>1, SpellsJoin
<1>4. /\ a \in Nat /\ q \in Nat /\ R \in Seq(Fields) /\ Len(R) = a + q
      /\ \A k \in 1..a : R[k] = A[k]
      /\ \A k \in 1..(a + q) : k > a => k - a \in 1..q /\ R[k] = Q[k - a]
      BY <1>2, JoinOf
<1>5. /\ z \in Seq(Items) /\ Len(z) = a + q
      /\ \A k \in 1..a : z[k] = x[k]
      /\ \A k \in 1..(a + q) : k > a => k - a \in 1..q /\ z[k] = y[k - a]
  <2>1. /\ z \in Seq(Items) /\ Len(z) = Len(x) + Len(y)
        /\ \A k \in 1..Len(x) : z[k] = x[k]
        /\ \A k \in 1..(Len(x) + Len(y)) : k > Len(x) => k - Len(x) \in 1..Len(y) /\ z[k] = y[k - Len(x)]
    <3>1. x \in Seq(Items) /\ y \in Seq(Items)
          BY <1>1
    <3> QED BY ONLY <3>1, JoinOf
  <2>2. Len(x) = a /\ Len(y) = q
        BY <1>1
  <2> HIDE DEF z, a, q
  <2> QED BY <2>1, <2>2
<1> HIDE DEF R, z, a, q
<1>6. ASSUME NEW k \in 1..(a + q)
      PROVE  /\ z[k] = R[k].it
             /\ R[k].it.by = "none" => R[k].it.w = R[k].n
             /\ R[k].it.by # "none" => Says(<<>>, SubSeq(R, 1, k - 1), R[k].it.by, R[k].n)
  <2>1. CASE k <= a
    <3>1. k \in 1..a /\ R[k] = A[k] /\ z[k] = x[k]
          BY <1>4, <1>5, <2>1
    <3>2. SubSeq(R, 1, k - 1) = SubSeq(A, 1, k - 1)
      <4>1. k - 1 \in Nat /\ k - 1 <= a /\ \A i \in 1..(k - 1) : i \in 1..a /\ i \in 1..(a + q)
            BY <1>4, <2>1
      <4>2. \A i \in 1..(k - 1) : A[i] \in Fields /\ R[i] = A[i]
            BY <1>2, <1>4, <4>1, ElementOfSeq DEF a
      <4> QED BY <1>4, <4>1, <4>2
    <3> QED BY <1>1, <3>1, <3>2 DEF Sourced, a
  <2>2. CASE k > a
    <3> DEFINE m == k - a
    <3>1. m \in 1..q /\ R[k] = Q[m] /\ z[k] = y[m]
          BY <1>4, <1>5, <2>2
    <3>2. z[k] = R[k].it /\ (R[k].it.by = "none" => R[k].it.w = R[k].n)
          BY <1>1, <3>1 DEF Sourced, q
    <3>3. ASSUME R[k].it.by # "none"
          PROVE  Says(<<>>, SubSeq(R, 1, k - 1), R[k].it.by, R[k].n)
      <4> DEFINE T == SubSeq(Q, 1, m - 1)
      <4>1. Says(<<>>, T, Q[m].it.by, Q[m].n)
            BY <1>1, <3>1, <3>3 DEF Sourced, q
      <4>2. m - 1 \in Nat /\ m - 1 <= q /\ k - 1 = a + (m - 1) /\ m \in Nat
            BY <1>4, <2>2, <3>1
      <4> HIDE DEF m
      <4>3. T \in Seq(Fields) /\ Len(T) = m - 1 /\ \A i \in 1..(m - 1) : T[i] = Q[i]
        <5>1. \A i \in 1..(m - 1) : i \in 1..Len(Q)
              BY <1>4, <4>2 DEF q
        <5>2. \A i \in 1..(m - 1) : Q[i] \in Fields
              BY <1>2, <5>1, ElementOfSeq
        <5> QED BY <1>2, <4>2, <5>2, SubSeqProperties DEF q
      <4> HIDE DEF T
      <4>4. SubSeq(R, 1, k - 1) = A \o T
        <5> DEFINE U == SubSeq(R, 1, k - 1)
                   V == A \o T
        <5>1. /\ V \in Seq(Fields) /\ Len(V) = a + (m - 1)
              /\ \A i \in 1..a : V[i] = A[i]
              /\ \A i \in 1..(a + (m - 1)) : i > a => i - a \in 1..(m - 1) /\ V[i] = T[i - a]
          <6>1. /\ V \in Seq(Fields) /\ Len(V) = Len(A) + Len(T)
                /\ \A i \in 1..Len(A) : V[i] = A[i]
                /\ \A i \in 1..(Len(A) + Len(T)) : i > Len(A) => i - Len(A) \in 1..Len(T) /\ V[i] = T[i - Len(A)]
                BY <1>2, <4>3, JoinOf
          <6>2. Len(A) = a /\ Len(T) = m - 1
                BY <4>3 DEF a
          <6> HIDE DEF V
          <6> QED BY <6>1, <6>2
        <5>2. \A i \in 1..(k - 1) : i \in 1..Len(R)
              BY <1>4
        <5>3. \A i \in 1..(k - 1) : R[i] \in Fields
              BY <1>4, <5>2, ElementOfSeq
        <5>4. U \in Seq(Fields) /\ Len(U) = k - 1 /\ \A i \in 1..(k - 1) : U[i] = R[i]
          <6>1. k - 1 \in Nat /\ k - 1 <= Len(R)
                BY <1>4
          <6> QED BY <1>4, <5>3, <6>1, SubSeqProperties
        <5> HIDE DEF U, V
        <5>5. ASSUME NEW i \in 1..(k - 1) PROVE U[i] = V[i]
          <6>1. CASE i <= a
                BY <1>4, <4>2, <5>1, <5>4, <6>1
          <6>2. CASE i > a
            <7>1. i - a \in 1..(m - 1) /\ V[i] = T[i - a] /\ i \in 1..(a + q)
                  BY <1>4, <4>2, <5>1, <6>2
            <7> QED BY <1>4, <4>3, <5>4, <6>2, <7>1
          <6> QED BY <1>4, <6>1, <6>2
        <5>6. U = V
              BY <4>2, <5>1, <5>4, <5>5, SeqEqual
        <5> QED BY <5>6 DEF U, V
      <4>5. <<>> \in Seq(Known)
            OBVIOUS
      <4>6. Says(<<>>, A \o T, Q[m].it.by, Q[m].n)
            BY <1>2, <4>1, <4>3, <4>5, SaysMore
      <4> QED BY <3>1, <4>4, <4>6 DEF m
    <3> QED BY <3>2, <3>3
  <2>3. k <= a \/ k > a
        BY <1>4
  <2> QED BY <2>1, <2>2, <2>3
<1>7. Sourced(<<>>, R)
      BY <1>4, <1>6 DEF Sourced
<1> QED BY <1>3, <1>4, <1>5, <1>6, <1>7 DEF Form, R, z

(* Short lists.                                                            *)
LEMMA One ==
  ASSUME NEW S, NEW a \in S
  PROVE  <<a>> \in Seq(S) /\ Len(<<a>>) = 1 /\ <<a>>[1] = a
OBVIOUS

LEMMA Two ==
  ASSUME NEW S, NEW a \in S, NEW b \in S
  PROVE  /\ <<a, b>> \in Seq(S) /\ Len(<<a, b>>) = 2 /\ <<a, b>>[1] = a /\ <<a, b>>[2] = b
         /\ <<a, b>> = <<a>> \o <<b>> /\ SubSeq(<<a, b>>, 1, 1) = <<a>>
<1>1. <<a, b>> \in Seq(S) /\ Len(<<a, b>>) = 2 /\ <<a, b>>[1] = a /\ <<a, b>>[2] = b
      OBVIOUS
<1> DEFINE s == <<a, b>>
           t == <<a>> \o <<b>>
           u == SubSeq(s, 1, 1)
<1>2. t \in Seq(S) /\ Len(t) = 2 /\ t[1] = a /\ t[2] = b
      OBVIOUS
<1>3. \A i \in 1..1 : s[i] \in S
      OBVIOUS
<1>4. u \in Seq(S) /\ Len(u) = 1 /\ u[1] = a
  <2>1. u \in Seq(S) /\ Len(u) = 1 /\ \A i \in 1..1 : u[i] = s[i]
        BY <1>1, <1>3, SubSeqProperties
  <2> QED BY <1>1, <2>1
<1> HIDE DEF s, t, u
<1>5. s = t
  <2>1. \A i \in 1..2 : s[i] = t[i]
    <3>1. \A i \in 1..2 : i = 1 \/ i = 2
          OBVIOUS
    <3> QED BY <1>1, <1>2, <3>1 DEF s
  <2> QED BY <1>1, <1>2, <2>1, SeqEqual DEF s
<1>6. u = <<a>>
  <2>1. <<a>> \in Seq(S) /\ Len(<<a>>) = 1 /\ <<a>>[1] = a
        OBVIOUS
  <2>2. \A i \in 1..1 : u[i] = <<a>>[i]
        BY <1>4, <2>1
  <2> QED BY <1>4, <2>1, <2>2, SeqEqual
<1> QED BY <1>1, <1>5, <1>6 DEF s, t, u

LEMMA Three ==
  ASSUME NEW S, NEW a \in S, NEW b \in S, NEW c \in S
  PROVE  <<a, b, c>> \in Seq(S) /\ Len(<<a, b, c>>) = 3 /\ <<a, b, c>> = <<a, b>> \o <<c>>
<1> DEFINE s == <<a, b, c>>
           t == <<a, b>> \o <<c>>
<1>1. s \in Seq(S) /\ Len(s) = 3 /\ s[1] = a /\ s[2] = b /\ s[3] = c
      OBVIOUS
<1>2. t \in Seq(S) /\ Len(t) = 3 /\ t[1] = a /\ t[2] = b /\ t[3] = c
      OBVIOUS
<1> HIDE DEF s, t
<1>3. \A i \in 1..3 : s[i] = t[i]
  <2>1. \A i \in 1..3 : i = 1 \/ i = 2 \/ i = 3
        OBVIOUS
  <2> QED BY <1>1, <1>2, <2>1
<1>4. s = t
      BY <1>1, <1>2, <1>3, SeqEqual
<1> QED BY <1>1, <1>4 DEF s, t

LEMMA Four ==
  ASSUME NEW S, NEW a \in S, NEW b \in S, NEW c \in S, NEW d \in S
  PROVE  <<a, b, c, d>> \in Seq(S) /\ Len(<<a, b, c, d>>) = 4 /\ <<a, b, c, d>> = <<a, b, c>> \o <<d>>
<1> DEFINE s == <<a, b, c, d>>
           t == <<a, b, c>> \o <<d>>
<1>1. s \in Seq(S) /\ Len(s) = 4 /\ s[1] = a /\ s[2] = b /\ s[3] = c /\ s[4] = d
      OBVIOUS
<1>2. t \in Seq(S) /\ Len(t) = 4 /\ t[1] = a /\ t[2] = b /\ t[3] = c /\ t[4] = d
      OBVIOUS
<1> HIDE DEF s, t
<1>3. \A i \in 1..4 : s[i] = t[i]
  <2>1. \A i \in 1..4 : i = 1 \/ i = 2 \/ i = 3 \/ i = 4
        OBVIOUS
  <2> QED BY <1>1, <1>2, <2>1
<1>4. s = t
      BY <1>1, <1>2, <1>3, SeqEqual
<1> QED BY <1>1, <1>4 DEF s, t

LEMMA Assoc ==
  ASSUME NEW S, NEW s \in Seq(S), NEW t \in Seq(S), NEW u \in Seq(S)
  PROVE  (s \o t) \o u = s \o (t \o u)
BY ConcatAssociative

LEMMA Snoc2 ==
  ASSUME NEW S, NEW s \in Seq(S), NEW a \in S, NEW b \in S
  PROVE  s \o <<a, b>> = (s \o <<a>>) \o <<b>>
<1>1. <<a>> \in Seq(S) /\ <<b>> \in Seq(S)
      OBVIOUS
<1>2. <<a, b>> = <<a>> \o <<b>>
      BY Two
<1>3. (s \o <<a>>) \o <<b>> = s \o (<<a>> \o <<b>>)
      BY <1>1, Assoc
<1> QED BY <1>2, <1>3

LEMMA Snoc3 ==
  ASSUME NEW S, NEW s \in Seq(S), NEW a \in S, NEW b \in S, NEW c \in S
  PROVE  s \o <<a, b, c>> = ((s \o <<a>>) \o <<b>>) \o <<c>>
<1>1. <<a, b>> \in Seq(S) /\ <<c>> \in Seq(S)
      OBVIOUS
<1>2. <<a, b, c>> = <<a, b>> \o <<c>>
      BY Three
<1>3. (s \o <<a, b>>) \o <<c>> = s \o (<<a, b>> \o <<c>>)
      BY <1>1, Assoc
<1>4. s \o <<a, b>> = (s \o <<a>>) \o <<b>>
      BY Snoc2
<1> QED BY <1>2, <1>3, <1>4

Put(s, a) == s \o <<a>>

LEMMA Snoc4 ==
  ASSUME NEW s \in Seq(Items), NEW a \in Items, NEW b \in Items, NEW c \in Items, NEW d \in Items
  PROVE  s \o <<a, b, c, d>> = Put(Put(Put(Put(s, a), b), c), d)
<1>1. <<a, b, c>> \in Seq(Items) /\ <<d>> \in Seq(Items)
      OBVIOUS
<1>2. <<a, b, c, d>> = <<a, b, c>> \o <<d>>
      BY Four
<1>3. (s \o <<a, b, c>>) \o <<d>> = s \o (<<a, b, c>> \o <<d>>)
      BY <1>1, Assoc
<1>4. s \o <<a, b, c>> = ((s \o <<a>>) \o <<b>>) \o <<c>>
      BY Snoc3
<1> QED BY <1>2, <1>3, <1>4 DEF Put

(* A field of fixed width, and a text of b bytes whose length field says n. *)
Numb(f, w, v)    == [it |-> Fix(f, w), w |-> w, n |-> w, v |-> v]
Vari(f, by, n, b) == [it |-> Var(f, by), w |-> b, n |-> n, v |-> b]

LEMMA NumbField ==
  ASSUME NEW f \in Labels, NEW w \in Nat \ {0}, NEW v \in Int
  PROVE  Numb(f, w, v) \in Fields /\ Fix(f, w) \in Items
<1>1. Fix(f, w) \in Items
  <2>1. w \in Nat
        OBVIOUS
  <2> QED BY <2>1 DEF Fix, Items, Labels
<1>2. Numb(f, w, v) \in [it : Items, w : Nat, n : Int, v : Int]
      BY <1>1 DEF Numb
<1> QED BY <1>1, <1>2 DEF Fields, Numb

LEMMA VariField ==
  ASSUME NEW f \in Labels, NEW by \in Labels, NEW n \in Int, NEW b \in Nat,
         (b = 0 /\ n <= 0) \/ (1 <= n /\ n <= b)
  PROVE  Vari(f, by, n, b) \in Fields /\ Var(f, by) \in Items
<1>1. Var(f, by) \in Items
      BY DEF Var, Items
<1>2. Vari(f, by, n, b) \in [it : Items, w : Nat, n : Int, v : Int]
      BY <1>1 DEF Vari
<1> QED BY <1>1, <1>2 DEF Fields, Vari

LEMMA FormNone == Form(<<>>, <<>>, <<>>)
<1>1. <<>> \in Seq(Items) /\ Len(<<>>) = 0
      OBVIOUS
<1> QED BY <1>1, SpellsNone DEF Form, Sourced

(* A message with one more field.                                          *)
LEMMA FormMore ==
  ASSUME NEW s, NEW x, NEW A, Form(s, x, A), NEW p \in Fields,
         p.it.by = "none" => p.it.w = p.n,
         p.it.by # "none" => Says(<<>>, A, p.it.by, p.n)
  PROVE  Form(s \o getBytes(p.it.f, p.w, p.v), x \o <<p.it>>, A \o <<p>>)
<1>1. /\ Spells(s, A) /\ Sourced(<<>>, A) /\ x \in Seq(Items) /\ Len(x) = Len(A)
      /\ \A k \in 1..Len(A) : x[k] = A[k].it
      BY DEF Form
<1>2. A \in Seq(Fields)
      BY <1>1 DEF Spells
<1> DEFINE a == Len(A)
           R == A \o <<p>>
           z == x \o <<p.it>>
<1>3. /\ a \in Nat /\ R \in Seq(Fields) /\ Len(R) = a + 1
      /\ (\A k \in 1..a : R[k] = A[k]) /\ R[a + 1] = p
      BY <1>2
<1>4. p.it \in Items
      BY FieldParts
<1>5. z \in Seq(Items) /\ Len(z) = a + 1 /\ (\A k \in 1..a : z[k] = x[k]) /\ z[a + 1] = p.it
  <2>1. Len(z) = Len(x) + 1 /\ (\A k \in 1..Len(x) : z[k] = x[k]) /\ z[Len(x) + 1] = p.it
        BY <1>1, <1>4
  <2>2. z \in Seq(Items)
        BY <1>1, <1>4
  <2> QED BY <1>1, <2>1, <2>2
<1>6. Spells(s \o getBytes(p.it.f, p.w, p.v), R)
  <2>1. Spells(getBytes(p.it.f, p.w, p.v), <<p>>)
        BY SpellsOne
  <2> QED BY <1>1, <2>1, SpellsJoin
<1>7. \A k \in 1..(a + 1) : SubSeq(R, 1, k - 1) = SubSeq(A, 1, k - 1)
  <2> SUFFICES ASSUME NEW k \in 1..(a + 1) PROVE SubSeq(R, 1, k - 1) = SubSeq(A, 1, k - 1)
      OBVIOUS
  <2>1. k - 1 \in Nat /\ k - 1 <= a /\ \A i \in 1..(k - 1) : i \in 1..a /\ i \in 1..(a + 1)
        BY <1>3
  <2>2. \A i \in 1..(k - 1) : A[i] \in Fields /\ R[i] = A[i]
        BY <1>2, <1>3, <2>1, ElementOfSeq
  <2> HIDE DEF R
  <2> QED BY <1>3, <2>1, <2>2
<1>8. SubSeq(A, 1, a) = A
      BY <1>2, <1>3
<1> HIDE DEF R, z, a
<1>9. ASSUME NEW k \in 1..(a + 1)
      PROVE  /\ z[k] = R[k].it
             /\ R[k].it.by = "none" => R[k].it.w = R[k].n
             /\ R[k].it.by # "none" => Says(<<>>, SubSeq(R, 1, k - 1), R[k].it.by, R[k].n)
  <2>1. CASE k <= a
    <3>1. k \in 1..Len(A) /\ k \in 1..a
          BY <1>3, <2>1 DEF a
    <3> QED BY <1>1, <1>3, <1>5, <1>7, <3>1 DEF Sourced
  <2>2. CASE k > a
    <3>1. k = a + 1 /\ k - 1 = a
          BY <1>3, <2>2
    <3>2. SubSeq(R, 1, k - 1) = A /\ R[k] = p /\ z[k] = p.it
          BY <1>3, <1>5, <1>7, <1>8, <3>1
    <3> QED BY <3>2
  <2> QED BY <1>3, <2>1, <2>2
<1>10. Sourced(<<>>, R)
       BY <1>3, <1>9 DEF Sourced
<1> QED BY <1>3, <1>5, <1>6, <1>9, <1>10 DEF Form, R, z

(* The message s has the fields N, which are read with items; it says the  *)
(* values V, and its texts that are longer than said are those of D.       *)
Message(s, items, N, V, D) ==
  \E P : /\ Form(s, items, P) /\ FieldNames(P) = N /\ Honest(P, D)
         /\ \A x \in V : Says(<<>>, P, x[1], x[2])

LEMMA MessageNone == ASSUME NEW D PROVE Message(<<>>, <<>>, {}, {}, D)
<1>1. FieldNames(<<>>) = {} /\ Honest(<<>>, D)
      BY DEF FieldNames, Honest
<1> QED BY <1>1, FormNone DEF Message

LEMMA MessageField ==
  ASSUME NEW s, NEW x, NEW N, NEW V, NEW D, Message(s, x, N, V, D), NEW p \in Fields,
         p.it.f \notin N, p.it.by = "none" => p.it.w = p.n,
         p.it.by # "none" => <<p.it.by, p.n>> \in V,
         1 <= p.n /\ p.n < p.w => p.it \in D
  PROVE  Message(s \o getBytes(p.it.f, p.w, p.v), x \o <<p.it>>, N \cup {p.it.f},
                 V \cup {<<p.it.f, p.v>>}, D)
<1>1. PICK P : /\ Form(s, x, P) /\ FieldNames(P) = N /\ Honest(P, D)
               /\ \A y \in V : Says(<<>>, P, y[1], y[2])
      BY DEF Message
<1>2. P \in Seq(Fields) /\ <<p>> \in Seq(Fields) /\ Len(<<p>>) = 1 /\ <<p>>[1] = p
      BY <1>1 DEF Form, Spells
<1> DEFINE Q == <<p>>
<1>3. p.it.by # "none" => Says(<<>>, P, p.it.by, p.n)
  <2> SUFFICES ASSUME p.it.by # "none" PROVE Says(<<>>, P, p.it.by, p.n)
      OBVIOUS
  <2> DEFINE y == <<p.it.by, p.n>>
  <2>1. y \in V /\ y[1] = p.it.by /\ y[2] = p.n
        OBVIOUS
  <2> HIDE DEF y
  <2>2. Says(<<>>, P, y[1], y[2])
        BY <1>1, <2>1
  <2> QED BY <2>1, <2>2
<1>4. Form(s \o getBytes(p.it.f, p.w, p.v), x \o <<p.it>>, P \o Q)
      BY <1>1, <1>3, FormMore
<1>5. FieldNames(Q) = {p.it.f} /\ Honest(Q, D) /\ Says(<<>>, Q, p.it.f, p.v)
      BY <1>2 DEF FieldNames, Honest, Says
<1> HIDE DEF Q
<1>6. FieldNames(P \o Q) = N \cup {p.it.f} /\ Honest(P \o Q, D)
      BY <1>1, <1>2, <1>5, NamesJoin DEF Q
<1>7. ASSUME NEW y \in V PROVE Says(<<>>, P \o Q, y[1], y[2])
  <2>1. Says(<<>>, P, y[1], y[2])
        BY <1>1
  <2>2. y[1] \in FieldNames(P)
        BY <2>1 DEF Says, FieldNames
  <2>3. y[1] \notin FieldNames(Q)
        BY <1>1, <1>5, <2>2
  <2> QED BY <1>2, <2>1, <2>3, SaysBefore DEF Q
<1>8. Says(<<>>, P \o Q, p.it.f, p.v)
  <2>1. <<>> \in Seq(Known)
        OBVIOUS
  <2> QED BY <1>2, <1>5, <2>1, SaysMore DEF Q
<1>9. \A y \in V \cup {<<p.it.f, p.v>>} : Says(<<>>, P \o Q, y[1], y[2])
      BY <1>7, <1>8
<1> QED BY <1>4, <1>6, <1>9 DEF Message

LEMMA MessageNumb ==
  ASSUME NEW s, NEW x, NEW N, NEW V, NEW D, Message(s, x, N, V, D),
         NEW f \in Labels, f \notin N, NEW w \in Nat \ {0}, NEW v \in Int
  PROVE  Message(s \o getBytes(f, w, v), x \o << Fix(f, w) >>, N \cup {f}, V \cup {<<f, v>>}, D)
<1> DEFINE p == Numb(f, w, v)
<1>1. /\ p \in Fields /\ p.it = Fix(f, w) /\ p.it.f = f /\ p.it.by = "none" /\ p.it.w = w
      /\ p.w = w /\ p.n = w /\ p.v = v
      BY NumbField DEF Numb, Fix
<1>2. ~ (p.n < p.w)
      BY <1>1
<1> HIDE DEF p
<1>3. Message(s \o getBytes(p.it.f, p.w, p.v), x \o <<p.it>>, N \cup {p.it.f},
              V \cup {<<p.it.f, p.v>>}, D)
      BY <1>1, <1>2, MessageField
<1> QED BY <1>1, <1>3

LEMMA MessageVari ==
  ASSUME NEW s, NEW x, NEW N, NEW V, NEW D, Message(s, x, N, V, D),
         NEW f \in Labels, f \notin N, NEW by \in Labels, by # "none", NEW n \in Int, NEW b \in Nat,
         <<by, n>> \in V, (b = 0 /\ n <= 0) \/ (1 <= n /\ n <= b),
         n # b /\ b # 0 => Var(f, by) \in D
  PROVE  Message(s \o getBytes(f, b, b), x \o << Var(f, by) >>, N \cup {f}, V \cup {<<f, b>>}, D)
<1> DEFINE p == Vari(f, by, n, b)
<1>1. /\ p \in Fields /\ p.it = Var(f, by) /\ p.it.f = f /\ p.it.by = by
      /\ p.w = b /\ p.n = n /\ p.v = b
      BY VariField DEF Vari, Var
<1>2. 1 <= p.n /\ p.n < p.w => p.it \in D
      BY <1>1
<1> HIDE DEF p
<1>3. Message(s \o getBytes(p.it.f, p.w, p.v), x \o <<p.it>>, N \cup {p.it.f},
              V \cup {<<p.it.f, p.v>>}, D)
      BY <1>1, <1>2, MessageField
<1> QED BY <1>1, <1>3

LEMMA MessageText ==
  ASSUME NEW s, NEW x, NEW N, NEW V, NEW D, Message(s, x, N, V, D),
         NEW l \in Labels, l # "none", l \notin N, NEW f \in Labels, f \notin N, l # f,
         NEW w \in Nat \ {0}, NEW n \in Int, NEW b \in Nat,
         (b = 0 /\ n <= 0) \/ (1 <= n /\ n <= b), n # b /\ b # 0 => Var(f, l) \in D
  PROVE  Message(s \o (getBytes(l, w, n) \o getBytes(f, b, b)), x \o ReadText(l, f, w),
                 N \cup {l, f}, V \cup {<<l, n>>, <<f, b>>}, D)
<1> DEFINE s1 == s \o getBytes(l, w, n)
           x1 == x \o << Fix(l, w) >>
           N1 == N \cup {l}
           V1 == V \cup {<<l, n>>}
<1>1. Message(s1, x1, N1, V1, D)
      BY MessageNumb
<1>2. f \notin N1 /\ <<l, n>> \in V1
      OBVIOUS
<1> HIDE DEF s1, x1, N1, V1
<1>3. Message(s1 \o getBytes(f, b, b), x1 \o << Var(f, l) >>, N1 \cup {f}, V1 \cup {<<f, b>>}, D)
      BY <1>1, <1>2, MessageVari
<1>4. N1 \cup {f} = N \cup {l, f} /\ V1 \cup {<<f, b>>} = V \cup {<<l, n>>, <<f, b>>}
      BY DEF N1, V1
<1>5. s1 \o getBytes(f, b, b) = s \o (getBytes(l, w, n) \o getBytes(f, b, b))
  <2>1. s \in Seq(Bytes)
        BY DEF Message, Form, Spells
  <2>2. w \in Nat
        OBVIOUS
  <2>3. getBytes(l, w, n) \in Seq(Bytes) /\ getBytes(f, b, b) \in Seq(Bytes)
        BY <2>2, ByteString
  <2> QED BY ONLY <2>1, <2>3, Assoc DEF s1
<1>6. x1 \o << Var(f, l) >> = x \o ReadText(l, f, w)
  <2>1. x \in Seq(Items)
        BY DEF Message, Form
  <2>2. Fix(l, w) \in Items /\ Var(f, l) \in Items
        BY NumbField, VariField
  <2>3. x \o << Fix(l, w), Var(f, l) >> = (x \o << Fix(l, w) >>) \o << Var(f, l) >>
        BY ONLY <2>1, <2>2, Snoc2
  <2> QED BY <2>3 DEF x1, ReadText
<1> QED BY <1>3, <1>4, <1>5, <1>6

-----------------------------------------------------------------------------
(* Messages as they are read.                                              *)
(* Reading a field of these does not add to what is to be read.            *)
Quiet(f, op) == f \notin {"count", "userLen", "code"} /\ (f = "res" => op # "readdir")

LEMMA QuietField ==
  ASSUME NEW f, NEW op, Quiet(f, op), NEW v
  PROVE  Loops(f, v, op) = <<>>
<1>1. f # "count" /\ f # "userLen" /\ f # "code" /\ ~ (f = "res" /\ op = "readdir")
      BY DEF Quiet
<1> QED BY <1>1 DEF Loops

LEMMA ScriptNone == ASSUME NEW op PROVE Script(<<>>, <<>>, op)
<1>1. <<>> \in Seq(Fields) /\ <<>> \in Seq(Items) /\ Len(<<>>) = 0
      OBVIOUS
<1>2. Piece(<<>>, <<>>, 0, op)
      BY <1>1 DEF Piece
<1>3. Stops(<<>>, op) = {}
      BY <1>1 DEF Stops
<1> QED BY <1>1, <1>2, <1>3 DEF Script

(* The fields A are read in one go, but for what the last of them adds.    *)
LEMMA ScriptJoin ==
  ASSUME NEW A \in Seq(Fields), A # <<>>, NEW Q, NEW op,
         NEW items \in Seq(Items), Len(items) = Len(A), \A k \in 1..Len(A) : items[k] = A[k].it,
         \A k \in 1..Len(A) : k < Len(A) => More(A[k], op) = <<>>,
         Script(More(A[Len(A)], op), Q, op)
  PROVE  Script(items, A \o Q, op)
<1> DEFINE R == A \o Q
           a == Len(A)
           q == Len(Q)
           L == More(A[a], op)
<1>1. Q \in Seq(Fields) /\ Piece(L, Q, 0, op) /\ \A k \in Stops(Q, op) : Piece(More(Q[k], op), Q, k, op)
      BY DEF Script
<1>2. /\ a \in Nat /\ q \in Nat /\ R \in Seq(Fields) /\ Len(R) = a + q
      /\ \A k \in 1..a : R[k] = A[k]
      /\ \A k \in 1..q : R[a + k] = Q[k]
      /\ \A k \in 1..(a + q) : k > a => k - a \in 1..q /\ R[k] = Q[k - a]
      BY <1>1, JoinOf
<1>3. a # 0
      BY EmptySeq
<1>4. /\ items \in Seq(Items) /\ Len(items) = a /\ \A k \in 1..a : items[k] = A[k].it
      /\ \A k \in 1..a : k < a => More(A[k], op) = <<>>
      OBVIOUS
<1>5. Stops(R, op) = {k \in 1..(a + q) : k = a + q \/ More(R[k], op) # <<>>}
      BY <1>2 DEF Stops
<1>6. Stops(Q, op) = {k \in 1..q : k = q \/ More(Q[k], op) # <<>>}
      BY DEF Stops
<1> HIDE DEF R, a, q, L
<1>7. a \in Stops(R, op)
  <2>1. a \in 1..(a + q)
        BY <1>2, <1>3
  <2>2. CASE q = 0
        BY <1>2, <1>5, <2>1, <2>2
  <2>3. CASE q # 0
    <3>1. L # <<>>
      <4>1. Len(L) > 0
            BY <1>1, <2>3 DEF Piece, q
      <4> QED BY <4>1
    <3>2. R[a] = A[a]
          BY <1>2, <1>3
    <3> QED BY <1>5, <2>1, <3>1, <3>2 DEF L
  <2> QED BY <2>2, <2>3
<1>8. ASSUME NEW j \in Stops(R, op) PROVE j >= a
  <2>1. SUFFICES ASSUME j < a PROVE FALSE
        BY <1>2, <1>5
  <2>2. j \in 1..a /\ j # a + q
        BY <1>2, <1>5, <2>1
  <2>3. More(R[j], op) = <<>>
        BY <1>2, <1>4, <2>1, <2>2
  <2> QED BY <1>5, <2>2, <2>3
<1>9. Piece(items, R, 0, op)
  <2>1. 0 # Len(R) /\ a > 0
        BY <1>2, <1>3
  <2>2. 0 + Len(items) = a
        BY <1>2, <1>4
  <2>3. \A i \in 1..a : 0 + i = i /\ items[i] = R[i].it
        BY <1>2, <1>4
  <2> QED BY <1>4, <1>7, <1>8, <2>1, <2>2, <2>3 DEF Piece
<1>10. ASSUME NEW k \in 1..q PROVE k \in Stops(Q, op) <=> a + k \in Stops(R, op)
  <2>1. a + k \in 1..(a + q) /\ (a + k = a + q <=> k = q) /\ R[a + k] = Q[k]
        BY <1>2
  <2> QED BY <1>5, <1>6, <2>1
<1>11. ASSUME NEW y, NEW k \in 0..q, Piece(y, Q, k, op)
       PROVE  Piece(y, R, a + k, op)
  <2> DEFINE n == Len(y)
  <2>1. y \in Seq(Items) /\ n \in Nat
        BY <1>11 DEF Piece
  <2>2. CASE k = q
    <3>1. y = <<>> /\ a + k = Len(R)
          BY <1>2, <1>11, <2>2 DEF Piece, q
    <3> QED BY <2>1, <3>1 DEF Piece
  <2>3. CASE k # q
    <3>1. /\ n > 0 /\ k + n \in Stops(Q, op)
          /\ \A j \in Stops(Q, op) : j > k => j >= k + n
          /\ \A i \in 1..n : y[i] = Q[k + i].it
          BY <1>11, <2>3 DEF Piece, q
    <3> HIDE DEF n
    <3>2. k + n \in 1..q
          BY <1>6, <3>1
    <3>3. (a + k) + n = a + (k + n)
          BY <1>2, <2>1
    <3>4. (a + k) + n \in Stops(R, op)
          BY <1>10, <3>1, <3>2, <3>3
    <3>5. ASSUME NEW j \in Stops(R, op), j > a + k PROVE j >= (a + k) + n
      <4>1. j \in 1..(a + q) /\ j > a
            BY <1>2, <1>5, <3>5
      <4>2. j - a \in 1..q /\ a + (j - a) = j
            BY <1>2, <4>1
      <4>3. j - a \in Stops(Q, op) /\ j - a > k
            BY <1>2, <1>10, <3>5, <4>2
      <4>4. j - a >= k + n
            BY <3>1, <4>3
      <4> QED BY <1>2, <2>1, <4>1, <4>4
    <3>6. ASSUME NEW i \in 1..n PROVE y[i] = R[(a + k) + i].it
      <4>1. k + i \in 1..q /\ (a + k) + i = a + (k + i)
            BY <1>2, <2>1, <3>2
      <4>2. R[a + (k + i)] = Q[k + i]
            BY <1>2, <4>1
      <4> QED BY <3>1, <4>1, <4>2
    <3>7. a + k # Len(R)
          BY <1>2, <2>3
    <3> QED BY <2>1, <3>1, <3>4, <3>5, <3>6, <3>7 DEF Piece, n
  <2> QED BY <2>2, <2>3
<1>12. ASSUME NEW k \in Stops(R, op) PROVE Piece(More(R[k], op), R, k, op)
  <2>1. k \in 1..(a + q) /\ k >= a
        BY <1>5, <1>8
  <2>2. CASE k = a
    <3>1. 0 \in 0..q /\ a + 0 = a /\ R[a] = A[a]
          BY <1>2, <1>3
    <3>2. Piece(L, R, a + 0, op)
          BY <1>1, <1>11, <3>1
    <3> QED BY <2>2, <3>1, <3>2 DEF L
  <2>3. CASE k # a
    <3>1. k - a \in 1..q /\ R[k] = Q[k - a] /\ a + (k - a) = k
          BY <1>2, <2>1, <2>3
    <3>2. k - a \in Stops(Q, op) /\ k - a \in 0..q
          BY <1>10, <3>1
    <3>3. Piece(More(Q[k - a], op), R, a + (k - a), op)
          BY <1>1, <1>11, <3>2
    <3> QED BY <3>1, <3>3
  <2> QED BY <2>2, <2>3
<1> QED BY <1>2, <1>9, <1>12 DEF Script, R

LEMMA ScriptQuiet ==
  ASSUME NEW s, NEW items, NEW P, Form(s, items, P), NEW op, \A f \in FieldNames(P) : Quiet(f, op)
  PROVE  Script(items, P, op)
<1>1. /\ P \in Seq(Fields) /\ items \in Seq(Items) /\ Len(items) = Len(P)
      /\ \A k \in 1..Len(P) : items[k] = P[k].it
      BY DEF Form, Spells
<1>2. \A k \in 1..Len(P) : More(P[k], op) = <<>>
      BY QuietField DEF FieldNames, More
<1>3. CASE P = <<>>
  <2>1. Len(items) = 0
        BY <1>1, <1>3
  <2>2. items = <<>>
        BY <1>1, <2>1, EmptySeq
  <2> QED BY <1>3, <2>2, ScriptNone
<1>4. CASE P # <<>>
  <2>1. Len(P) \in Nat /\ Len(P) # 0
        BY <1>1, <1>4, EmptySeq
  <2>2. Len(P) \in 1..Len(P)
        BY <2>1
  <2>3. Script(More(P[Len(P)], op), <<>>, op)
        BY <1>2, <2>2, ScriptNone
  <2>4. Script(items, P \o <<>>, op)
        BY <1>1, <1>2, <1>4, <2>3, ScriptJoin
  <2> QED BY <1>1, <2>4, ConcatEmptySeq
<1> QED BY <1>3, <1>4

(* What is left of a message: when all of it has been read, the values V   *)
(* are the latest that were read for their fields.                         *)
Letter(todo, got, s, op, V, D) ==
  \E P : /\ Reading(todo, got, s, op, P) /\ Honest(P, D)
         /\ \A x \in V : x[1] \in Labels /\ x[2] \in Int /\ Says(got, P, x[1], x[2])

LEMMA LetterRead ==
  ASSUME NEW todo, NEW got, NEW s, NEW op, NEW V, NEW D, Letter(todo, got, s, op, V, D), todo # <<>>
  PROVE  /\ Meant(s, todo[1], got) =>
              Letter(Loops(todo[1].f, Value(s, todo[1], got), op) \o Tail(todo),
                     Append(got, [f |-> todo[1].f, v |-> Value(s, todo[1], got)]),
                     Rest(s, todo[1], got), op, V, D)
         /\ ~ Meant(s, todo[1], got) =>
              /\ todo[1] \in D /\ s[1][1] = todo[1].f
              /\ Width(todo[1], got) < s[1][3] /\ todo[1] \in Items
<1>1. PICK P : /\ Reading(todo, got, s, op, P) /\ Honest(P, D)
               /\ \A x \in V : x[1] \in Labels /\ x[2] \in Int /\ Says(got, P, x[1], x[2])
      BY DEF Letter
<1>2. /\ P # <<>> /\ P \in Seq(Fields) /\ P[1] \in Fields /\ todo[1] = P[1].it /\ got \in Seq(Known)
      /\ Width(todo[1], got) = P[1].n
      /\ P[1].n > 0 => s[1] = <<P[1].it.f, 1, P[1].w, P[1].v>>
      /\ Meant(s, todo[1], got) <=> ~ (1 <= P[1].n /\ P[1].n < P[1].w)
      /\ Meant(s, todo[1], got) =>
           /\ Value(s, todo[1], got) = P[1].v
           /\ Reading(Loops(todo[1].f, P[1].v, op) \o Tail(todo),
                      Append(got, [f |-> todo[1].f, v |-> P[1].v]),
                      Rest(s, todo[1], got), op, Tail(P))
  <2>1. FieldRead(todo, got, s, op, P)
        BY <1>1, ReadField
  <2> QED BY ONLY <2>1 DEF FieldRead
<1> DEFINE it == todo[1]
           v == P[1].v
           Q == Tail(P)
<1>3. Len(P) \in Nat \ {0} /\ Len(Q) = Len(P) - 1 /\ \A k \in 1..(Len(P) - 1) : Q[k] = P[k + 1]
      BY <1>2, TailOf
<1> HIDE DEF it, v, Q
<1>4. Honest(Q, D)
  <2> SUFFICES ASSUME NEW k \in 1..(Len(P) - 1), 1 <= Q[k].n /\ Q[k].n < Q[k].w PROVE Q[k].it \in D
      BY <1>3 DEF Honest
  <2>1. k + 1 \in 1..Len(P) /\ Q[k] = P[k + 1]
        BY <1>3
  <2> QED BY <1>1, <2>1 DEF Honest
<1>5. ASSUME NEW x \in V PROVE Says(Append(got, [f |-> it.f, v |-> v]), Q, x[1], x[2])
      BY <1>1, <1>2, SaysKept DEF it, v, Q
<1>6. ASSUME Meant(s, it, got)
      PROVE  Letter(Loops(it.f, v, op) \o Tail(todo), Append(got, [f |-> it.f, v |-> v]),
                    Rest(s, it, got), op, V, D) /\ Value(s, it, got) = v
  <2> DEFINE g == Append(got, [f |-> it.f, v |-> v])
             T == Loops(it.f, v, op) \o Tail(todo)
             z == Rest(s, it, got)
  <2>1. Reading(T, g, z, op, Q)
        BY <1>2, <1>6 DEF it, v, Q
  <2>2. \A x \in V : x[1] \in Labels /\ x[2] \in Int /\ Says(g, Q, x[1], x[2])
        BY <1>1, <1>5
  <2> HIDE DEF g, T, z
  <2>3. Letter(T, g, z, op, V, D)
        BY <1>4, <2>1, <2>2 DEF Letter
  <2> QED BY <1>2, <1>6, <2>3 DEF g, T, z, it, v
<1>7. ASSUME ~ Meant(s, it, got)
      PROVE  it \in D /\ s[1][1] = it.f /\ Width(it, got) < s[1][3] /\ it \in Items
  <2>1. 1 <= P[1].n /\ P[1].n < P[1].w
        BY <1>2, <1>7 DEF it
  <2>2. it \in D
    <3>1. 1 \in 1..Len(P)
          BY <1>3
    <3> QED BY <1>1, <1>2, <2>1, <3>1 DEF Honest, it
  <2>3. P[1].n \in Int /\ it \in Items
        BY <1>2, FieldParts DEF it
  <2>4. s[1] = <<it.f, 1, P[1].w, P[1].v>>
        BY <1>2, <2>1, <2>3 DEF it
  <2>5. s[1][1] = it.f /\ s[1][3] = P[1].w
        BY <2>4
  <2> QED BY <1>2, <2>1, <2>2, <2>3, <2>5 DEF it
<1> QED BY <1>6, <1>7 DEF it

LEMMA LetterEnd ==
  ASSUME NEW got, NEW s, NEW op, NEW V, NEW D, Letter(<<>>, got, s, op, V, D)
  PROVE  s = <<>> /\ \A x \in V : Latest(got, x[1]) = x[2]
<1>1. PICK P : /\ Reading(<<>>, got, s, op, P)
               /\ \A x \in V : Says(got, P, x[1], x[2])
      BY DEF Letter
<1>2. P \in Seq(Fields) /\ Spells(s, P)
      BY <1>1 DEF Reading, Spells
<1>3. P = <<>>
  <2>1. Piece(<<>>, P, 0, op)
        BY <1>1 DEF Reading, Script
  <2>2. ~ (Len(<<>>) > 0)
        OBVIOUS
  <2>3. Len(P) = 0
        BY <2>1, <2>2 DEF Piece
  <2> QED BY <1>2, <2>3, EmptySeq
<1> QED BY <1>1, <1>2, <1>3, SpellsNothing, SaysAtEnd

LEMMA SaysTyped ==
  ASSUME NEW P \in Seq(Fields), NEW f, NEW v, Says(<<>>, P, f, v)
  PROVE  f \in Labels /\ v \in Int /\ f \in FieldNames(P)
<1>1. PICK j \in 1..Len(P) : P[j].it.f = f /\ P[j].v = v
      BY DEF Says
<1>2. P[j] \in Fields
      BY ElementOfSeq
<1> QED BY <1>1, <1>2, FieldParts DEF FieldNames

(* A message without loops is one to be read.                              *)
LEMMA QuietLetter ==
  ASSUME NEW s, NEW items, NEW N, NEW V, NEW D, Message(s, items, N, V, D), NEW op,
         \A f \in N : Quiet(f, op)
  PROVE  Letter(items, <<>>, s, op, V, D)
<1>1. PICK P : /\ Form(s, items, P) /\ FieldNames(P) = N /\ Honest(P, D)
               /\ \A x \in V : Says(<<>>, P, x[1], x[2])
      BY DEF Message
<1>2. Script(items, P, op)
      BY <1>1, ScriptQuiet
<1>3. <<>> \in Seq(Known)
      OBVIOUS
<1>4. Reading(items, <<>>, s, op, P)
      BY <1>1, <1>2, <1>3 DEF Reading, Form
<1>5. P \in Seq(Fields)
      BY <1>1 DEF Form, Spells
<1>6. ASSUME NEW x \in V PROVE x[1] \in Labels /\ x[2] \in Int
      BY <1>1, <1>5, SaysTyped
<1> QED BY <1>1, <1>4, <1>6 DEF Letter

(* A message whose last field x of the first part says that a second part  *)
(* follows.                                                                *)
LEMMA LoopLetter ==
  ASSUME NEW s, NEW items, NEW N, NEW V, NEW D, Message(s, items, N, V, D), items # <<>>,
         NEW t, NEW M, NEW U, NEW op, NEW f, NEW v, <<f, v>> \in V, items[Len(items)].f = f,
         Message(t, Loops(f, v, op), M, U, D),
         \A k \in 1..Len(items) : k < Len(items) => Quiet(items[k].f, op),
         \A g \in M : Quiet(g, op),
         NEW W, \A x \in W : x \in U \/ (x \in V /\ x[1] \notin M)
  PROVE  Letter(items, <<>>, s \o t, op, W, D)
<1>1. PICK A : /\ Form(s, items, A) /\ FieldNames(A) = N /\ Honest(A, D)
               /\ \A x \in V : Says(<<>>, A, x[1], x[2])
      BY DEF Message
<1>2. PICK Q : /\ Form(t, Loops(f, v, op), Q) /\ FieldNames(Q) = M /\ Honest(Q, D)
               /\ \A x \in U : Says(<<>>, Q, x[1], x[2])
      BY DEF Message
<1>3. /\ A \in Seq(Fields) /\ Q \in Seq(Fields) /\ items \in Seq(Items) /\ Len(items) = Len(A)
      /\ \A k \in 1..Len(A) : items[k] = A[k].it
      BY <1>1, <1>2 DEF Form, Spells
<1>4. A # <<>> /\ Len(A) \in Nat \ {0}
  <2>1. Len(items) # 0
        BY <1>3, EmptySeq
  <2> QED BY <1>3, <2>1
<1>5. A[Len(A)].it.f = f /\ A[Len(A)].v = v
  <2>1. Len(A) \in 1..Len(A)
        BY <1>4
  <2>2. A[Len(A)].it.f = f
        BY <1>3, <2>1
  <2>3. Says(<<>>, A, f, v)
    <3> DEFINE x == <<f, v>>
    <3>1. x \in V /\ x[1] = f /\ x[2] = v
          OBVIOUS
    <3> HIDE DEF x
    <3>2. Says(<<>>, A, x[1], x[2])
          BY <1>1, <3>1
    <3> QED BY <3>1, <3>2
  <2>4. PICK j \in 1..Len(A) : /\ A[j].it.f = f /\ A[j].v = v
                               /\ \A i \in 1..Len(A) : i > j => A[i].it.f # f
        BY <2>3 DEF Says
  <2>5. j = Len(A)
        BY <1>4, <2>1, <2>2, <2>4
  <2> QED BY <2>4, <2>5
<1>6. Script(More(A[Len(A)], op), Q, op)
      BY <1>2, <1>5, ScriptQuiet DEF More
<1>7. \A k \in 1..Len(A) : k < Len(A) => More(A[k], op) = <<>>
  <2> SUFFICES ASSUME NEW k \in 1..Len(A), k < Len(A) PROVE Loops(A[k].it.f, A[k].v, op) = <<>>
      BY DEF More
  <2>1. Quiet(A[k].it.f, op)
        BY <1>3
  <2> QED BY <2>1, QuietField
<1>8. Script(items, A \o Q, op)
      BY <1>3, <1>4, <1>6, <1>7, ScriptJoin
<1>9. \E y : Form(s \o t, y, A \o Q)
      BY <1>1, <1>2, FormJoin
<1>10. Honest(A \o Q, D)
       BY <1>1, <1>2, <1>3, NamesJoin
<1>11. ASSUME NEW x \in W PROVE x[1] \in Labels /\ x[2] \in Int /\ Says(<<>>, A \o Q, x[1], x[2])
  <2>1. CASE x \in U
    <3>1. Says(<<>>, Q, x[1], x[2])
          BY <1>2, <2>1
    <3>2. <<>> \in Seq(Known)
          OBVIOUS
    <3> QED BY <1>3, <3>1, <3>2, SaysTyped, SaysMore
  <2>2. CASE x \in V /\ x[1] \notin M
    <3>1. Says(<<>>, A, x[1], x[2])
          BY <1>1, <2>2
    <3> QED BY <1>2, <1>3, <2>2, <3>1, SaysTyped, SaysBefore
  <2> QED BY <2>1, <2>2
<1>12. Reading(items, <<>>, s \o t, op, A \o Q)
  <2>1. <<>> \in Seq(Known)
        OBVIOUS
  <2> QED BY <1>8, <1>9, <2>1 DEF Reading, Form
<1> DEFINE R == A \o Q
<1>13. \A x \in W : x[1] \in Labels /\ x[2] \in Int /\ Says(<<>>, R, x[1], x[2])
       BY <1>11
<1>14. Reading(items, <<>>, s \o t, op, R) /\ Honest(R, D)
       BY <1>10, <1>12
<1> HIDE DEF R
<1> QED BY <1>13, <1>14 DEF Letter

-----------------------------------------------------------------------------
(* What a client asks.                                                     *)
LEMMA LabelNames ==
  /\ "none" \in Labels /\ "code" \in Labels /\ "opcode" \in Labels /\ "res" \in Labels
  /\ "uid" \in Labels /\ "pathLen" \in Labels /\ "path" \in Labels /\ "path2Len" \in Labels
  /\ "path2" \in Labels /\ "flags" \in Labels /\ "mask" \in Labels /\ "bufsize" \in Labels
  /\ "mode" \in Labels /\ "owner" \in Labels /\ "group" \in Labels /\ "length" \in Labels
  /\ "asec" \in Labels /\ "ansec" \in Labels /\ "msec" \in Labels /\ "mnsec" \in Labels
  /\ "fd" \in Labels /\ "size" \in Labels /\ "offset" \in Labels /\ "data" \in Labels
  /\ "count" \in Labels /\ "userLen" \in Labels /\ "user" \in Labels /\ "localUid" \in Labels
  /\ "helloLen" \in Labels /\ "hello" \in Labels /\ "sysInfoLen" \in Labels /\ "sysInfo" \in Labels
  /\ "shareLen" \in Labels /\ "share" \in Labels /\ "emailLen" \in Labels /\ "email" \in Labels
  /\ "passLen" \in Labels /\ "pass" \in Labels /\ "nameLen" \in Labels /\ "name" \in Labels
  /\ "certLen" \in Labels /\ "cert" \in Labels /\ "msgLen" \in Labels /\ "msg" \in Labels
  /\ "stat" \in Labels /\ "statvfs" \in Labels /\ "link" \in Labels /\ "entryLen" \in Labels
  /\ "entry" \in Labels
BY DEF Labels

LEMMA NamesTyped ==
  /\ \A n \in Names : n.c \in Nat \ {0} /\ n.b \in Nat \ {0} /\ n.c <= n.b
  /\ Msg \in Names /\ Msg.c = Msg.b
<1>1. \A n \in Names : n.c \in Nat \ {0} /\ n.b \in Nat \ {0} /\ n.c <= n.b
      BY FramingAssumption
<1>2. Msg \in Names /\ Msg.c = Msg.b
      BY FramingAssumption DEF Msg
<1> QED BY <1>1, <1>2

LEMMA MessageLess ==
  ASSUME NEW s, NEW x, NEW N, NEW V, NEW D, Message(s, x, N, V, D), NEW W, W \subseteq V
  PROVE  Message(s, x, N, W, D)
BY DEF Message

LEMMA MessageSeqs ==
  ASSUME NEW s, NEW x, NEW N, NEW V, NEW D, Message(s, x, N, V, D)
  PROVE  s \in Seq(Bytes) /\ x \in Seq(Items)
BY DEF Message, Form, Spells

LEMMA FirstNumb ==
  ASSUME NEW f \in Labels, NEW w \in Nat \ {0}, NEW v \in Int, NEW D
  PROVE  Message(getBytes(f, w, v), << Fix(f, w) >>, {f}, {<<f, v>>}, D)
<1>1. Message(<<>>, <<>>, {}, {}, D)
      BY MessageNone
<1>2. Message(<<>> \o getBytes(f, w, v), <<>> \o << Fix(f, w) >>, {} \cup {f}, {} \cup {<<f, v>>}, D)
  <2>1. f \notin {}
        OBVIOUS
  <2> QED BY <1>1, <2>1, MessageNumb
<1>3. <<>> \o getBytes(f, w, v) = getBytes(f, w, v)
  <2>1. w \in Nat
        OBVIOUS
  <2> QED BY <2>1, ByteString, ConcatEmptySeq
<1>4. <<>> \o << Fix(f, w) >> = << Fix(f, w) >>
  <2>1. << Fix(f, w) >> \in Seq(Items)
        BY NumbField
  <2> QED BY ONLY <2>1, ConcatEmptySeq
<1>5. {} \cup {f} = {f} /\ {} \cup {<<f, v>>} = {<<f, v>>}
      OBVIOUS
<1> QED BY <1>2, <1>3, <1>4, <1>5

LEMMA FirstText ==
  ASSUME NEW D, NEW l \in Labels, l # "none", NEW f \in Labels, l # f,
         NEW w \in Nat \ {0}, NEW n \in Int, NEW b \in Nat,
         (b = 0 /\ n <= 0) \/ (1 <= n /\ n <= b), n # b /\ b # 0 => Var(f, l) \in D
  PROVE  Message(getBytes(l, w, n) \o getBytes(f, b, b), ReadText(l, f, w), {l, f},
                 {<<l, n>>, <<f, b>>}, D)
<1> DEFINE s == getBytes(l, w, n) \o getBytes(f, b, b)
           x == ReadText(l, f, w)
<1>1. Message(<<>> \o s, <<>> \o x, {} \cup {l, f}, {} \cup {<<l, n>>, <<f, b>>}, D)
  <2>1. Message(<<>>, <<>>, {}, {}, D) /\ l \notin {} /\ f \notin {}
        BY MessageNone
  <2> QED BY <2>1, MessageText
<1>2. s \in Seq(Bytes)
  <2>1. w \in Nat /\ b \in Int
        OBVIOUS
  <2>2. getBytes(l, w, n) \in Seq(Bytes)
        BY <2>1, ByteString
  <2>3. getBytes(f, b, b) \in Seq(Bytes)
        BY <2>1, ByteString
  <2> QED BY <2>2, <2>3
<1>3. x \in Seq(Items)
  <2>1. Fix(l, w) \in Items /\ Var(f, l) \in Items
        BY NumbField, VariField
  <2> QED BY ONLY <2>1, Two DEF ReadText
<1> HIDE DEF s, x
<1>4. <<>> \o s = s /\ <<>> \o x = x
      BY <1>2, <1>3, ConcatEmptySeq
<1>5. {} \cup {l, f} = {l, f} /\ {} \cup {<<l, n>>, <<f, b>>} = {<<l, n>>, <<f, b>>}
      OBVIOUS
<1> QED BY <1>1, <1>4, <1>5 DEF s, x

LEMMA FirstName ==
  ASSUME NEW D, NEW l \in Labels, l # "none", NEW f \in Labels, l # f,
         NEW w \in Nat \ {0}, NEW m \in Names
  PROVE  /\ Message(Text(l, f, w, m), ReadText(l, f, w), {l, f}, {<<l, m.b>>, <<f, m.b>>}, D)
         /\ (Wide(m) => Var(f, l) \in D) =>
              Message(CharText(l, f, w, m), ReadText(l, f, w), {l, f}, {<<l, m.c>>, <<f, m.b>>}, D)
<1> DEFINE n == m.c
           b == m.b
<1>1. n \in Nat \ {0} /\ b \in Nat \ {0} /\ n <= b
      BY NamesTyped
<1> HIDE DEF n, b
<1>2. b \in Int /\ b \in Nat /\ 1 <= b /\ b <= b /\ n \in Int /\ 1 <= n
      BY <1>1
<1>3. Message(getBytes(l, w, b) \o getBytes(f, b, b), ReadText(l, f, w), {l, f}, {<<l, b>>, <<f, b>>}, D)
      BY <1>2, FirstText
<1>4. (n # b => Var(f, l) \in D) =>
        Message(getBytes(l, w, n) \o getBytes(f, b, b), ReadText(l, f, w), {l, f}, {<<l, n>>, <<f, b>>}, D)
      BY <1>1, <1>2, FirstText
<1> QED BY <1>1, <1>3, <1>4 DEF Text, CharText, Wide, n, b

LEMMA MessageName ==
  ASSUME NEW s, NEW x, NEW N, NEW V, NEW D, Message(s, x, N, V, D),
         NEW l \in Labels, l # "none", l \notin N, NEW f \in Labels, f \notin N, l # f,
         NEW w \in Nat \ {0}, NEW m \in Names
  PROVE  Message(s \o Text(l, f, w, m), x \o ReadText(l, f, w), N \cup {l, f},
                 V \cup {<<l, m.b>>, <<f, m.b>>}, D)
<1> DEFINE b == m.b
<1>1. b \in Nat \ {0}
      BY NamesTyped
<1> HIDE DEF b
<1>2. b \in Int /\ b \in Nat /\ 1 <= b /\ b <= b
      BY <1>1
<1>3. Message(s \o (getBytes(l, w, b) \o getBytes(f, b, b)), x \o ReadText(l, f, w), N \cup {l, f},
              V \cup {<<l, b>>, <<f, b>>}, D)
      BY <1>2, MessageText
<1> QED BY <1>3 DEF Text, b

(* The user and the path, as every operation on one file begins.           *)
Opening(w) == << Fix("uid", 4) >> \o ReadText("pathLen", "path", w)

LEMMA OpeningMessage ==
  ASSUME NEW w \in Nat \ {0}, NEW m \in Names, NEW D
  PROVE  Message(getBytes("uid", 4, 0) \o Text("pathLen", "path", w, m), Opening(w),
                 {"uid", "pathLen", "path"}, {<<"path", m.b>>}, D)
<1>1. Message(getBytes("uid", 4, 0), << Fix("uid", 4) >>, {"uid"}, {<<"uid", 0>>}, D)
  <2>1. 4 \in Nat \ {0} /\ 0 \in Int
        OBVIOUS
  <2> QED BY <2>1, LabelNames, FirstNumb
<1> DEFINE V == {<<"uid", 0>>} \cup {<<"pathLen", m.b>>, <<"path", m.b>>}
           N == {"uid"} \cup {"pathLen", "path"}
           s == getBytes("uid", 4, 0) \o Text("pathLen", "path", w, m)
<1>2. Message(s, Opening(w), N, V, D)
  <2>1. "pathLen" \notin {"uid"} /\ "path" \notin {"uid"} /\ "pathLen" # "path" /\ "pathLen" # "none"
        OBVIOUS
  <2> QED BY <1>1, <2>1, LabelNames, MessageName DEF Opening
<1>3. N = {"uid", "pathLen", "path"} /\ {<<"path", m.b>>} \subseteq V
      OBVIOUS
<1> HIDE DEF N, V, s
<1> QED BY <1>2, <1>3, MessageLess DEF s

-----------------------------------------------------------------------------
(* The calls.                                                              *)
OpNames == { "getattr", "readdir", "open", "read", "access", "readlink", "mknod",
  "mkdir", "unlink", "rmdir", "symlink", "rename", "chmod", "chown", "truncate",
  "utimens", "write", "writebulk", "release", "statfs", "UpdateLocalUsers" }

LEMMA OperationsAre ==
  /\ DOMAIN Operations = 1..21
  /\ \A i \in 1..21 : Operations[i] \in OpNames
  /\ \A op \in OpNames : \E i \in 1..21 : Operations[i] = op
<1>1. DOMAIN Operations = 1..21
      BY DEF Operations
<1>2. /\ Operations[1] = "getattr"
      /\ Operations[2] = "readdir"
      /\ Operations[3] = "open"
      /\ Operations[4] = "read"
      /\ Operations[5] = "access"
      /\ Operations[6] = "readlink"
      /\ Operations[7] = "mknod"
      /\ Operations[8] = "mkdir"
      /\ Operations[9] = "unlink"
      /\ Operations[10] = "rmdir"
      /\ Operations[11] = "symlink"
      /\ Operations[12] = "rename"
      /\ Operations[13] = "chmod"
      /\ Operations[14] = "chown"
      /\ Operations[15] = "truncate"
      /\ Operations[16] = "utimens"
      /\ Operations[17] = "write"
      /\ Operations[18] = "writebulk"
      /\ Operations[19] = "release"
      /\ Operations[20] = "statfs"
      /\ Operations[21] = "UpdateLocalUsers"
      BY DEF Operations
<1>3. \A i \in 1..21 : i = 1 \/ i = 2 \/ i = 3 \/ i = 4 \/ i = 5 \/ i = 6 \/ i = 7 \/ i = 8 \/ i = 9 \/ i = 10 \/ i = 11
                         \/ i = 12 \/ i = 13 \/ i = 14 \/ i = 15 \/ i = 16 \/ i = 17 \/ i = 18 \/ i = 19 \/ i = 20 \/ i = 21
      OBVIOUS
<1>4. \A i \in 1..21 : Operations[i] \in OpNames
      BY <1>2, <1>3 DEF OpNames
<1>5. ASSUME NEW op \in OpNames PROVE \E i \in 1..21 : Operations[i] = op
      BY <1>2 DEF OpNames
<1> QED BY <1>1, <1>4, <1>5

LEMMA OpcodeOf ==
  ASSUME NEW op \in OpNames
  PROVE  /\ (CHOOSE i \in DOMAIN Operations : Operations[i] = op) \in Int
         /\ Operations[CHOOSE i \in DOMAIN Operations : Operations[i] = op] = op
<1>1. \E i \in DOMAIN Operations : Operations[i] = op
      BY OperationsAre
<1> DEFINE c == CHOOSE i \in DOMAIN Operations : Operations[i] = op
<1>2. c \in DOMAIN Operations /\ Operations[c] = op
      BY <1>1
<1> HIDE DEF c
<1>3. c \in 1..21
      BY <1>2, OperationsAre
<1>4. c \in Int
      BY <1>3
<1> QED BY <1>2, <1>4 DEF c

Ask1(o, m)    == [NoCall EXCEPT !.op = o, !.p = m]
Ask2(l)       == [NoCall EXCEPT !.op = "truncate", !.len = l]
Ask3(o, m, j) == [NoCall EXCEPT !.op = o, !.p = m, !.q = j]
Ask4(o, b)    == [NoCall EXCEPT !.op = o, !.batch = b]
OneName       == ToSet(Operations)
                   \ {"writebulk", "UpdateLocalUsers", "symlink", "rename", "write", "truncate"}

LEMMA CallsAre ==
  Calls = (UNION {{Ask1(o, m) : m \in Names} : o \in OneName})
            \cup {Ask2(l) : l \in Lengths}
            \cup {Ask3(o, m, j) : o \in {"symlink", "rename", "write"}, m \in Names, j \in Names}
            \cup {Ask4(o, b) : o \in {"writebulk", "UpdateLocalUsers"}, b \in Batches}
BY DEF Calls, Ask1, Ask2, Ask3, Ask4, OneName

LEMMA CallsTyped ==
  ASSUME NEW k \in Calls
  PROVE  /\ k.op \in OpNames /\ k.p \in Names /\ k.q \in Names /\ k.len \in Nat
         /\ NameSent(k) \in Names
         /\ \E i \in 0..2 : k.batch \in [1..i -> Names]
<1> DEFINE C == [op : OpNames, p : Names, q : Names, len : Nat, batch : Batches]
           n == CHOOSE n \in Names : TRUE
<1>1. ToSet(Operations) \subseteq OpNames
      BY OperationsAre DEF ToSet
<1>2. n \in Names
      BY FramingAssumption
<1>3. <<>> \in Batches
  <2>1. <<>> \in [1..0 -> Names]
        OBVIOUS
  <2> QED BY <2>1 DEF Batches
<1>4. NoCall = [op |-> "none", p |-> n, q |-> n, len |-> 0, batch |-> <<>>]
      BY DEF NoCall
<1>5. Lengths \subseteq Nat
      BY FramingAssumption
<1> HIDE DEF n
<1>7. ASSUME NEW o \in OpNames, NEW m \in Names PROVE [NoCall EXCEPT !.op = o, !.p = m] \in C
      BY <1>2, <1>3, <1>4
<1>8. ASSUME NEW o \in OpNames, NEW l \in Nat PROVE [NoCall EXCEPT !.op = o, !.len = l] \in C
      BY <1>2, <1>3, <1>4
<1>9. ASSUME NEW o \in OpNames, NEW m \in Names, NEW j \in Names
      PROVE  [NoCall EXCEPT !.op = o, !.p = m, !.q = j] \in C
      BY <1>2, <1>3, <1>4
<1>10. ASSUME NEW o \in OpNames, NEW b \in Batches PROVE [NoCall EXCEPT !.op = o, !.batch = b] \in C
      BY <1>2, <1>3, <1>4
<1>11. {"truncate", "symlink", "rename", "write", "writebulk", "UpdateLocalUsers"} \subseteq OpNames
       BY DEF OpNames
<1> HIDE DEF C
<1>12. k \in C
  <2>1. \/ \E o \in OneName, m \in Names : k = Ask1(o, m)
        \/ \E l \in Lengths : k = Ask2(l)
        \/ \E o \in {"symlink", "rename", "write"}, m \in Names, j \in Names : k = Ask3(o, m, j)
        \/ \E o \in {"writebulk", "UpdateLocalUsers"}, b \in Batches : k = Ask4(o, b)
        BY CallsAre
  <2>2. CASE \E o \in OneName, m \in Names : k = Ask1(o, m)
    <3>1. PICK o \in OneName, m \in Names : k = Ask1(o, m)
          BY <2>2
    <3>2. o \in OpNames
          BY <1>1 DEF OneName
    <3> QED BY <1>7, <3>1, <3>2 DEF Ask1
  <2>3. CASE \E l \in Lengths : k = Ask2(l)
    <3>1. PICK l \in Lengths : k = Ask2(l)
          BY <2>3
    <3>2. l \in Nat
          BY <1>5
    <3> QED BY <1>8, <1>11, <3>1, <3>2 DEF Ask2
  <2>4. CASE \E o \in {"symlink", "rename", "write"}, m \in Names, j \in Names : k = Ask3(o, m, j)
    <3>1. PICK o \in {"symlink", "rename", "write"}, m \in Names, j \in Names : k = Ask3(o, m, j)
          BY <2>4
    <3>2. o \in OpNames
          BY <1>11
    <3> QED BY <1>9, <3>1, <3>2 DEF Ask3
  <2>5. CASE \E o \in {"writebulk", "UpdateLocalUsers"}, b \in Batches : k = Ask4(o, b)
    <3>1. PICK o \in {"writebulk", "UpdateLocalUsers"}, b \in Batches : k = Ask4(o, b)
          BY <2>5
    <3>2. o \in OpNames
          BY <1>11
    <3> QED BY <1>10, <3>1, <3>2 DEF Ask4
  <2> QED BY <2>1, <2>2, <2>3, <2>4, <2>5
<1>13. /\ k.op \in OpNames /\ k.p \in Names /\ k.q \in Names /\ k.len \in Nat
       /\ k.batch \in Batches
       BY <1>12 DEF C
<1>14. NameSent(k) \in Names
       BY <1>13, FramingAssumption DEF NameSent
<1> QED BY <1>13, <1>14 DEF Batches

(* What the worker is told with the arguments of call k, and the texts of  *)
(* it that may be longer than their lengths say.                           *)
Told(k) == IF k.op \in {"writebulk", "UpdateLocalUsers"}
             THEN IF k.op = "writebulk" THEN {<<"count", Len(k.batch)>>} ELSE {}
             ELSE {<<"path", NameSent(k).b>>}
                    \cup (IF k.op \in {"symlink", "rename"} THEN {<<"path2", k.q.b>>} ELSE {})
                    \cup (IF k.op = "write" THEN {<<"data", k.q.b>>} ELSE {})
                    \cup (IF k.op = "truncate" THEN {<<"length", SentLength(k.len)>>} ELSE {})
Unmet(k) == IF k.op = "writebulk" /\ \E i \in DOMAIN k.batch : Wide(k.batch[i])
              THEN {Var("path", "pathLen")} ELSE {}

LEMMA ArgsLetter ==
  ASSUME NEW k, NEW N, NEW V, NEW D, Message(ClientArgs(k), WorkerReads(k.op), N, V, D),
         "count" \notin N, "userLen" \notin N, "code" \notin N, Told(k) \subseteq V, D = Unmet(k)
  PROVE  Letter(WorkerReads(k.op), <<>>, ClientArgs(k), "InOperation", Told(k), Unmet(k))
<1>1. Message(ClientArgs(k), WorkerReads(k.op), N, Told(k), D)
      BY MessageLess
<1>2. \A f \in N : Quiet(f, "InOperation")
      BY DEF Quiet
<1> QED BY <1>1, <1>2, QuietLetter

LEMMA OpeningParts ==
  /\ Opening(2) \in Seq(Items) /\ Opening(4) \in Seq(Items)
  /\ \A f \in Labels : Fix(f, 4) \in Items /\ Fix(f, 8) \in Items
  /\ \A f \in Labels, g \in Labels : Var(f, g) \in Items
<1>1. ASSUME NEW f \in Labels PROVE Fix(f, 4) \in Items /\ Fix(f, 8) \in Items
      BY DEF Fix, Items, Labels
<1>2. ASSUME NEW f \in Labels, NEW g \in Labels PROVE Var(f, g) \in Items
      BY DEF Var, Items
<1>3. ASSUME NEW w \in {2, 4} PROVE Opening(w) \in Seq(Items)
  <2>1. PICK m \in Names : TRUE
        BY FramingAssumption
  <2>2. w \in Nat \ {0}
        OBVIOUS
  <2>3. Message(getBytes("uid", 4, 0) \o Text("pathLen", "path", w, m), Opening(w),
                {"uid", "pathLen", "path"}, {<<"path", m.b>>}, {})
        BY <2>2, OpeningMessage
  <2> QED BY <2>3, MessageSeqs
<1> QED BY <1>1, <1>2, <1>3

LEMMA SentTyped ==
  \A l \in Nat : SentLength(l) \in Int /\ (l < U32 => SentLength(l) = l)
BY FramingAssumption DEF SentLength

LEMMA ArgsGetattr ==
  ASSUME NEW k \in Calls, k.op = "getattr"
  PROVE  Letter(WorkerReads(k.op), <<>>, ClientArgs(k), "InOperation", Told(k), Unmet(k))
<1> DEFINE s0 == getBytes("uid", 4, 0) \o Text("pathLen", "path", 4, NameSent(k))
           x0 == Opening(4)
           N0 == {"uid", "pathLen", "path"}
           V0 == {<<"path", NameSent(k).b>>}
<1> HIDE DEF s0, x0, N0, V0
<1>1. k.op \in OpNames /\ NameSent(k) \in Names /\ k.q \in Names /\ k.len \in Nat
      BY CallsTyped
<1>2. Message(s0, x0, N0, V0, {})
  <2>1. 4 \in Nat \ {0}
        OBVIOUS
  <2> QED BY <1>1, <2>1, OpeningMessage DEF s0, x0, N0, V0
<1>3. ClientArgs(k) = s0
      BY DEF ClientArgs, PathWidth, s0
<1>4. WorkerReads(k.op) = x0
      BY DEF WorkerReads, Opening, x0
<1>5. "count" \notin N0 /\ "userLen" \notin N0 /\ "code" \notin N0
      BY DEF N0
<1>6. Told(k) \subseteq V0 /\ {} = Unmet(k)
      BY DEF Told, Unmet, V0
<1> QED BY <1>2, <1>3, <1>4, <1>5, <1>6, ArgsLetter

LEMMA ArgsPath ==
  ASSUME NEW k \in Calls, k.op \in {"readdir", "unlink", "rmdir", "statfs"}
  PROVE  Letter(WorkerReads(k.op), <<>>, ClientArgs(k), "InOperation", Told(k), Unmet(k))
<1> DEFINE s0 == getBytes("uid", 4, 0) \o Text("pathLen", "path", 2, NameSent(k))
           x0 == Opening(2)
           N0 == {"uid", "pathLen", "path"}
           V0 == {<<"path", NameSent(k).b>>}
<1> HIDE DEF s0, x0, N0, V0
<1>1. k.op \in OpNames /\ NameSent(k) \in Names /\ k.q \in Names /\ k.len \in Nat
      BY CallsTyped
<1>2. Message(s0, x0, N0, V0, {})
  <2>1. 2 \in Nat \ {0}
        OBVIOUS
  <2> QED BY <1>1, <2>1, OpeningMessage DEF s0, x0, N0, V0
<1>3. ClientArgs(k) = s0
      BY DEF ClientArgs, PathWidth, s0
<1>4. WorkerReads(k.op) = x0
      BY DEF WorkerReads, Opening, x0
<1>5. "count" \notin N0 /\ "userLen" \notin N0 /\ "code" \notin N0
      BY DEF N0
<1>6. Told(k) \subseteq V0 /\ {} = Unmet(k)
      BY DEF Told, Unmet, V0
<1> QED BY <1>2, <1>3, <1>4, <1>5, <1>6, ArgsLetter

LEMMA ArgsOpen ==
  ASSUME NEW k \in Calls, k.op = "open"
  PROVE  Letter(WorkerReads(k.op), <<>>, ClientArgs(k), "InOperation", Told(k), Unmet(k))
<1> DEFINE s0 == getBytes("uid", 4, 0) \o Text("pathLen", "path", 2, NameSent(k))
           x0 == Opening(2)
           N0 == {"uid", "pathLen", "path"}
           V0 == {<<"path", NameSent(k).b>>}
           s1 == s0 \o getBytes("flags", 4, 0)
           x1 == x0 \o << Fix("flags", 4) >>
           N1 == N0 \cup {"flags"}
           V1 == V0 \cup {<<"flags", 0>>}
<1> HIDE DEF s0, x0, N0, V0, s1, x1, N1, V1
<1>1. k.op \in OpNames /\ NameSent(k) \in Names /\ k.q \in Names /\ k.len \in Nat
      BY CallsTyped
<1>2. Message(s0, x0, N0, V0, {})
  <2>1. 2 \in Nat \ {0}
        OBVIOUS
  <2> QED BY <1>1, <2>1, OpeningMessage DEF s0, x0, N0, V0
<1>3. Message(s1, x1, N1, V1, {})
  <2>1. "flags" \notin N0 /\ 4 \in Nat \ {0}
        BY DEF N0
  <2>2. 0 \in Int
        OBVIOUS
  <2> QED BY <1>2, <2>1, <2>2, LabelNames, MessageNumb DEF s1, x1, N1, V1
<1>4. ClientArgs(k) = s1
      BY DEF ClientArgs, PathWidth, s0, s1
<1>5. WorkerReads(k.op) = x1
      BY DEF WorkerReads, Opening, x0, x1
<1>6. "count" \notin N1 /\ "userLen" \notin N1 /\ "code" \notin N1
      BY DEF N0, N1
<1>7. Told(k) \subseteq V1 /\ {} = Unmet(k)
      BY DEF Told, Unmet, V0, V1
<1> QED BY <1>3, <1>4, <1>5, <1>6, <1>7, ArgsLetter

LEMMA ArgsAccess ==
  ASSUME NEW k \in Calls, k.op = "access"
  PROVE  Letter(WorkerReads(k.op), <<>>, ClientArgs(k), "InOperation", Told(k), Unmet(k))
<1> DEFINE s0 == getBytes("uid", 4, 0) \o Text("pathLen", "path", 2, NameSent(k))
           x0 == Opening(2)
           N0 == {"uid", "pathLen", "path"}
           V0 == {<<"path", NameSent(k).b>>}
           s1 == s0 \o getBytes("mask", 4, 0)
           x1 == x0 \o << Fix("mask", 4) >>
           N1 == N0 \cup {"mask"}
           V1 == V0 \cup {<<"mask", 0>>}
<1> HIDE DEF s0, x0, N0, V0, s1, x1, N1, V1
<1>1. k.op \in OpNames /\ NameSent(k) \in Names /\ k.q \in Names /\ k.len \in Nat
      BY CallsTyped
<1>2. Message(s0, x0, N0, V0, {})
  <2>1. 2 \in Nat \ {0}
        OBVIOUS
  <2> QED BY <1>1, <2>1, OpeningMessage DEF s0, x0, N0, V0
<1>3. Message(s1, x1, N1, V1, {})
  <2>1. "mask" \notin N0 /\ 4 \in Nat \ {0}
        BY DEF N0
  <2>2. 0 \in Int
        OBVIOUS
  <2> QED BY <1>2, <2>1, <2>2, LabelNames, MessageNumb DEF s1, x1, N1, V1
<1>4. ClientArgs(k) = s1
      BY DEF ClientArgs, PathWidth, s0, s1
<1>5. WorkerReads(k.op) = x1
      BY DEF WorkerReads, Opening, x0, x1
<1>6. "count" \notin N1 /\ "userLen" \notin N1 /\ "code" \notin N1
      BY DEF N0, N1
<1>7. Told(k) \subseteq V1 /\ {} = Unmet(k)
      BY DEF Told, Unmet, V0, V1
<1> QED BY <1>3, <1>4, <1>5, <1>6, <1>7, ArgsLetter

LEMMA ArgsReadlink ==
  ASSUME NEW k \in Calls, k.op = "readlink"
  PROVE  Letter(WorkerReads(k.op), <<>>, ClientArgs(k), "InOperation", Told(k), Unmet(k))
<1> DEFINE s0 == getBytes("uid", 4, 0) \o Text("pathLen", "path", 2, NameSent(k))
           x0 == Opening(2)
           N0 == {"uid", "pathLen", "path"}
           V0 == {<<"path", NameSent(k).b>>}
           s1 == s0 \o getBytes("bufsize", 4, 0)
           x1 == x0 \o << Fix("bufsize", 4) >>
           N1 == N0 \cup {"bufsize"}
           V1 == V0 \cup {<<"bufsize", 0>>}
<1> HIDE DEF s0, x0, N0, V0, s1, x1, N1, V1
<1>1. k.op \in OpNames /\ NameSent(k) \in Names /\ k.q \in Names /\ k.len \in Nat
      BY CallsTyped
<1>2. Message(s0, x0, N0, V0, {})
  <2>1. 2 \in Nat \ {0}
        OBVIOUS
  <2> QED BY <1>1, <2>1, OpeningMessage DEF s0, x0, N0, V0
<1>3. Message(s1, x1, N1, V1, {})
  <2>1. "bufsize" \notin N0 /\ 4 \in Nat \ {0}
        BY DEF N0
  <2>2. 0 \in Int
        OBVIOUS
  <2> QED BY <1>2, <2>1, <2>2, LabelNames, MessageNumb DEF s1, x1, N1, V1
<1>4. ClientArgs(k) = s1
      BY DEF ClientArgs, PathWidth, s0, s1
<1>5. WorkerReads(k.op) = x1
      BY DEF WorkerReads, Opening, x0, x1
<1>6. "count" \notin N1 /\ "userLen" \notin N1 /\ "code" \notin N1
      BY DEF N0, N1
<1>7. Told(k) \subseteq V1 /\ {} = Unmet(k)
      BY DEF Told, Unmet, V0, V1
<1> QED BY <1>3, <1>4, <1>5, <1>6, <1>7, ArgsLetter

LEMMA ArgsMode ==
  ASSUME NEW k \in Calls, k.op \in {"mknod", "mkdir", "chmod"}
  PROVE  Letter(WorkerReads(k.op), <<>>, ClientArgs(k), "InOperation", Told(k), Unmet(k))
<1> DEFINE s0 == getBytes("uid", 4, 0) \o Text("pathLen", "path", 2, NameSent(k))
           x0 == Opening(2)
           N0 == {"uid", "pathLen", "path"}
           V0 == {<<"path", NameSent(k).b>>}
           s1 == s0 \o getBytes("mode", 4, 0)
           x1 == x0 \o << Fix("mode", 4) >>
           N1 == N0 \cup {"mode"}
           V1 == V0 \cup {<<"mode", 0>>}
<1> HIDE DEF s0, x0, N0, V0, s1, x1, N1, V1
<1>1. k.op \in OpNames /\ NameSent(k) \in Names /\ k.q \in Names /\ k.len \in Nat
      BY CallsTyped
<1>2. Message(s0, x0, N0, V0, {})
  <2>1. 2 \in Nat \ {0}
        OBVIOUS
  <2> QED BY <1>1, <2>1, OpeningMessage DEF s0, x0, N0, V0
<1>3. Message(s1, x1, N1, V1, {})
  <2>1. "mode" \notin N0 /\ 4 \in Nat \ {0}
        BY DEF N0
  <2>2. 0 \in Int
        OBVIOUS
  <2> QED BY <1>2, <2>1, <2>2, LabelNames, MessageNumb DEF s1, x1, N1, V1
<1>4. ClientArgs(k) = s1
      BY DEF ClientArgs, PathWidth, s0, s1
<1>5. WorkerReads(k.op) = x1
      BY DEF WorkerReads, Opening, x0, x1
<1>6. "count" \notin N1 /\ "userLen" \notin N1 /\ "code" \notin N1
      BY DEF N0, N1
<1>7. Told(k) \subseteq V1 /\ {} = Unmet(k)
      BY DEF Told, Unmet, V0, V1
<1> QED BY <1>3, <1>4, <1>5, <1>6, <1>7, ArgsLetter

LEMMA ArgsRelease ==
  ASSUME NEW k \in Calls, k.op = "release"
  PROVE  Letter(WorkerReads(k.op), <<>>, ClientArgs(k), "InOperation", Told(k), Unmet(k))
<1> DEFINE s0 == getBytes("uid", 4, 0) \o Text("pathLen", "path", 2, NameSent(k))
           x0 == Opening(2)
           N0 == {"uid", "pathLen", "path"}
           V0 == {<<"path", NameSent(k).b>>}
           s1 == s0 \o getBytes("fd", 4, 0)
           x1 == x0 \o << Fix("fd", 4) >>
           N1 == N0 \cup {"fd"}
           V1 == V0 \cup {<<"fd", 0>>}
<1> HIDE DEF s0, x0, N0, V0, s1, x1, N1, V1
<1>1. k.op \in OpNames /\ NameSent(k) \in Names /\ k.q \in Names /\ k.len \in Nat
      BY CallsTyped
<1>2. Message(s0, x0, N0, V0, {})
  <2>1. 2 \in Nat \ {0}
        OBVIOUS
  <2> QED BY <1>1, <2>1, OpeningMessage DEF s0, x0, N0, V0
<1>3. Message(s1, x1, N1, V1, {})
  <2>1. "fd" \notin N0 /\ 4 \in Nat \ {0}
        BY DEF N0
  <2>2. 0 \in Int
        OBVIOUS
  <2> QED BY <1>2, <2>1, <2>2, LabelNames, MessageNumb DEF s1, x1, N1, V1
<1>4. ClientArgs(k) = s1
      BY DEF ClientArgs, PathWidth, s0, s1
<1>5. WorkerReads(k.op) = x1
      BY DEF WorkerReads, Opening, x0, x1
<1>6. "count" \notin N1 /\ "userLen" \notin N1 /\ "code" \notin N1
      BY DEF N0, N1
<1>7. Told(k) \subseteq V1 /\ {} = Unmet(k)
      BY DEF Told, Unmet, V0, V1
<1> QED BY <1>3, <1>4, <1>5, <1>6, <1>7, ArgsLetter

LEMMA ArgsTruncate ==
  ASSUME NEW k \in Calls, k.op = "truncate"
  PROVE  Letter(WorkerReads(k.op), <<>>, ClientArgs(k), "InOperation", Told(k), Unmet(k))
<1> DEFINE s0 == getBytes("uid", 4, 0) \o Text("pathLen", "path", 2, NameSent(k))
           x0 == Opening(2)
           N0 == {"uid", "pathLen", "path"}
           V0 == {<<"path", NameSent(k).b>>}
           s1 == s0 \o getBytes("length", 4, SentLength(k.len))
           x1 == x0 \o << Fix("length", 4) >>
           N1 == N0 \cup {"length"}
           V1 == V0 \cup {<<"length", SentLength(k.len)>>}
<1> HIDE DEF s0, x0, N0, V0, s1, x1, N1, V1
<1>1. k.op \in OpNames /\ NameSent(k) \in Names /\ k.q \in Names /\ k.len \in Nat
      BY CallsTyped
<1>2. Message(s0, x0, N0, V0, {})
  <2>1. 2 \in Nat \ {0}
        OBVIOUS
  <2> QED BY <1>1, <2>1, OpeningMessage DEF s0, x0, N0, V0
<1>3. Message(s1, x1, N1, V1, {})
  <2>1. "length" \notin N0 /\ 4 \in Nat \ {0}
        BY DEF N0
  <2>2. SentLength(k.len) \in Int
        BY <1>1, SentTyped
  <2> QED BY <1>2, <2>1, <2>2, LabelNames, MessageNumb DEF s1, x1, N1, V1
<1>4. ClientArgs(k) = s1
      BY DEF ClientArgs, PathWidth, s0, s1
<1>5. WorkerReads(k.op) = x1
      BY DEF WorkerReads, Opening, x0, x1
<1>6. "count" \notin N1 /\ "userLen" \notin N1 /\ "code" \notin N1
      BY DEF N0, N1
<1>7. Told(k) \subseteq V1 /\ {} = Unmet(k)
      BY DEF Told, Unmet, V0, V1
<1> QED BY <1>3, <1>4, <1>5, <1>6, <1>7, ArgsLetter

LEMMA ArgsChown ==
  ASSUME NEW k \in Calls, k.op = "chown"
  PROVE  Letter(WorkerReads(k.op), <<>>, ClientArgs(k), "InOperation", Told(k), Unmet(k))
<1> DEFINE s0 == getBytes("uid", 4, 0) \o Text("pathLen", "path", 2, NameSent(k))
           x0 == Opening(2)
           N0 == {"uid", "pathLen", "path"}
           V0 == {<<"path", NameSent(k).b>>}
           s1 == s0 \o getBytes("owner", 4, 0)
           x1 == x0 \o << Fix("owner", 4) >>
           N1 == N0 \cup {"owner"}
           V1 == V0 \cup {<<"owner", 0>>}
           s2 == s1 \o getBytes("group", 4, 0)
           x2 == x1 \o << Fix("group", 4) >>
           N2 == N1 \cup {"group"}
           V2 == V1 \cup {<<"group", 0>>}
<1> HIDE DEF s0, x0, N0, V0, s1, x1, N1, V1, s2, x2, N2, V2
<1>1. k.op \in OpNames /\ NameSent(k) \in Names /\ k.q \in Names /\ k.len \in Nat
      BY CallsTyped
<1>2. Message(s0, x0, N0, V0, {})
  <2>1. 2 \in Nat \ {0}
        OBVIOUS
  <2> QED BY <1>1, <2>1, OpeningMessage DEF s0, x0, N0, V0
<1>3. Message(s1, x1, N1, V1, {})
  <2>1. "owner" \notin N0 /\ 4 \in Nat \ {0}
        BY DEF N0
  <2>2. 0 \in Int
        OBVIOUS
  <2> QED BY <1>2, <2>1, <2>2, LabelNames, MessageNumb DEF s1, x1, N1, V1
<1>4. Message(s2, x2, N2, V2, {})
  <2>1. "group" \notin N1 /\ 4 \in Nat \ {0}
        BY DEF N0, N1
  <2>2. 0 \in Int
        OBVIOUS
  <2> QED BY <1>3, <2>1, <2>2, LabelNames, MessageNumb DEF s2, x2, N2, V2
<1>5. ClientArgs(k) = s2
      BY DEF ClientArgs, PathWidth, s0, s1, s2
<1>6. WorkerReads(k.op) = x2
  <2>1. WorkerReads(k.op) = x0 \o << Fix("owner", 4), Fix("group", 4) >>
        BY DEF WorkerReads, Opening, x0
  <2>2. x0 \in Seq(Items) /\ Fix("owner", 4) \in Items /\ Fix("group", 4) \in Items
        BY OpeningParts, LabelNames DEF x0
  <2>3. x2 = (x0 \o << Fix("owner", 4) >>) \o << Fix("group", 4) >>
        BY DEF x1, x2
  <2>4. x0 \o << Fix("owner", 4), Fix("group", 4) >> = (x0 \o << Fix("owner", 4) >>) \o << Fix("group", 4) >>
        BY ONLY <2>2, Snoc2
  <2> QED BY ONLY <2>1, <2>3, <2>4
<1>7. "count" \notin N2 /\ "userLen" \notin N2 /\ "code" \notin N2
      BY DEF N0, N1, N2
<1>8. Told(k) \subseteq V2 /\ {} = Unmet(k)
      BY DEF Told, Unmet, V0, V1, V2
<1> QED BY <1>4, <1>5, <1>6, <1>7, <1>8, ArgsLetter

LEMMA ArgsRead ==
  ASSUME NEW k \in Calls, k.op = "read"
  PROVE  Letter(WorkerReads(k.op), <<>>, ClientArgs(k), "InOperation", Told(k), Unmet(k))
<1> DEFINE s0 == getBytes("uid", 4, 0) \o Text("pathLen", "path", 2, NameSent(k))
           x0 == Opening(2)
           N0 == {"uid", "pathLen", "path"}
           V0 == {<<"path", NameSent(k).b>>}
           s1 == s0 \o getBytes("fd", 4, 0)
           x1 == x0 \o << Fix("fd", 4) >>
           N1 == N0 \cup {"fd"}
           V1 == V0 \cup {<<"fd", 0>>}
           s2 == s1 \o getBytes("size", 8, 0)
           x2 == x1 \o << Fix("size", 8) >>
           N2 == N1 \cup {"size"}
           V2 == V1 \cup {<<"size", 0>>}
           s3 == s2 \o getBytes("offset", 8, 0)
           x3 == x2 \o << Fix("offset", 8) >>
           N3 == N2 \cup {"offset"}
           V3 == V2 \cup {<<"offset", 0>>}
<1> HIDE DEF s0, x0, N0, V0, s1, x1, N1, V1, s2, x2, N2, V2, s3, x3, N3, V3
<1>1. k.op \in OpNames /\ NameSent(k) \in Names /\ k.q \in Names /\ k.len \in Nat
      BY CallsTyped
<1>2. Message(s0, x0, N0, V0, {})
  <2>1. 2 \in Nat \ {0}
        OBVIOUS
  <2> QED BY <1>1, <2>1, OpeningMessage DEF s0, x0, N0, V0
<1>3. Message(s1, x1, N1, V1, {})
  <2>1. "fd" \notin N0 /\ 4 \in Nat \ {0}
        BY DEF N0
  <2>2. 0 \in Int
        OBVIOUS
  <2> QED BY <1>2, <2>1, <2>2, LabelNames, MessageNumb DEF s1, x1, N1, V1
<1>4. Message(s2, x2, N2, V2, {})
  <2>1. "size" \notin N1 /\ 8 \in Nat \ {0}
        BY DEF N0, N1
  <2>2. 0 \in Int
        OBVIOUS
  <2> QED BY <1>3, <2>1, <2>2, LabelNames, MessageNumb DEF s2, x2, N2, V2
<1>5. Message(s3, x3, N3, V3, {})
  <2>1. "offset" \notin N2 /\ 8 \in Nat \ {0}
        BY DEF N0, N1, N2
  <2>2. 0 \in Int
        OBVIOUS
  <2> QED BY <1>4, <2>1, <2>2, LabelNames, MessageNumb DEF s3, x3, N3, V3
<1>6. ClientArgs(k) = s3
      BY DEF ClientArgs, PathWidth, s0, s1, s2, s3
<1>7. WorkerReads(k.op) = x3
  <2>1. WorkerReads(k.op) = x0 \o << Fix("fd", 4), Fix("size", 8), Fix("offset", 8) >>
        BY DEF WorkerReads, Opening, x0
  <2>2. x0 \in Seq(Items) /\ Fix("fd", 4) \in Items /\ Fix("size", 8) \in Items /\ Fix("offset", 8) \in Items
        BY OpeningParts, LabelNames DEF x0
  <2>3. x3 = ((x0 \o << Fix("fd", 4) >>) \o << Fix("size", 8) >>) \o << Fix("offset", 8) >>
        BY DEF x1, x2, x3
  <2>4. x0 \o << Fix("fd", 4), Fix("size", 8), Fix("offset", 8) >> = ((x0 \o << Fix("fd", 4) >>) \o << Fix("size", 8) >>) \o << Fix("offset", 8) >>
        BY ONLY <2>2, Snoc3
  <2> QED BY ONLY <2>1, <2>3, <2>4
<1>8. "count" \notin N3 /\ "userLen" \notin N3 /\ "code" \notin N3
      BY DEF N0, N1, N2, N3
<1>9. Told(k) \subseteq V3 /\ {} = Unmet(k)
      BY DEF Told, Unmet, V0, V1, V2, V3
<1> QED BY <1>5, <1>6, <1>7, <1>8, <1>9, ArgsLetter

LEMMA ArgsUtimens ==
  ASSUME NEW k \in Calls, k.op = "utimens"
  PROVE  Letter(WorkerReads(k.op), <<>>, ClientArgs(k), "InOperation", Told(k), Unmet(k))
<1> DEFINE s0 == getBytes("uid", 4, 0) \o Text("pathLen", "path", 2, NameSent(k))
           x0 == Opening(2)
           N0 == {"uid", "pathLen", "path"}
           V0 == {<<"path", NameSent(k).b>>}
           s1 == s0 \o getBytes("asec", 8, 0)
           x1 == x0 \o << Fix("asec", 8) >>
           N1 == N0 \cup {"asec"}
           V1 == V0 \cup {<<"asec", 0>>}
           s2 == s1 \o getBytes("ansec", 8, 0)
           x2 == x1 \o << Fix("ansec", 8) >>
           N2 == N1 \cup {"ansec"}
           V2 == V1 \cup {<<"ansec", 0>>}
           s3 == s2 \o getBytes("msec", 8, 0)
           x3 == x2 \o << Fix("msec", 8) >>
           N3 == N2 \cup {"msec"}
           V3 == V2 \cup {<<"msec", 0>>}
           s4 == s3 \o getBytes("mnsec", 8, 0)
           x4 == x3 \o << Fix("mnsec", 8) >>
           N4 == N3 \cup {"mnsec"}
           V4 == V3 \cup {<<"mnsec", 0>>}
<1> HIDE DEF s0, x0, N0, V0, s1, x1, N1, V1, s2, x2, N2, V2, s3, x3, N3, V3, s4, x4, N4, V4
<1>1. k.op \in OpNames /\ NameSent(k) \in Names /\ k.q \in Names /\ k.len \in Nat
      BY CallsTyped
<1>2. Message(s0, x0, N0, V0, {})
  <2>1. 2 \in Nat \ {0}
        OBVIOUS
  <2> QED BY <1>1, <2>1, OpeningMessage DEF s0, x0, N0, V0
<1>3. Message(s1, x1, N1, V1, {})
  <2>1. "asec" \notin N0 /\ 8 \in Nat \ {0}
        BY DEF N0
  <2>2. 0 \in Int
        OBVIOUS
  <2> QED BY <1>2, <2>1, <2>2, LabelNames, MessageNumb DEF s1, x1, N1, V1
<1>4. Message(s2, x2, N2, V2, {})
  <2>1. "ansec" \notin N1 /\ 8 \in Nat \ {0}
        BY DEF N0, N1
  <2>2. 0 \in Int
        OBVIOUS
  <2> QED BY <1>3, <2>1, <2>2, LabelNames, MessageNumb DEF s2, x2, N2, V2
<1>5. Message(s3, x3, N3, V3, {})
  <2>1. "msec" \notin N2 /\ 8 \in Nat \ {0}
        BY DEF N0, N1, N2
  <2>2. 0 \in Int
        OBVIOUS
  <2> QED BY <1>4, <2>1, <2>2, LabelNames, MessageNumb DEF s3, x3, N3, V3
<1>6. Message(s4, x4, N4, V4, {})
  <2>1. "mnsec" \notin N3 /\ 8 \in Nat \ {0}
        BY DEF N0, N1, N2, N3
  <2>2. 0 \in Int
        OBVIOUS
  <2> QED BY <1>5, <2>1, <2>2, LabelNames, MessageNumb DEF s4, x4, N4, V4
<1>7. ClientArgs(k) = s4
      BY DEF ClientArgs, PathWidth, s0, s1, s2, s3, s4
<1>8. WorkerReads(k.op) = x4
  <2>1. WorkerReads(k.op) = x0 \o << Fix("asec", 8), Fix("ansec", 8), Fix("msec", 8), Fix("mnsec", 8) >>
        BY DEF WorkerReads, Opening, x0
  <2>2. x0 \in Seq(Items) /\ Fix("asec", 8) \in Items /\ Fix("ansec", 8) \in Items /\ Fix("msec", 8) \in Items /\ Fix("mnsec", 8) \in Items
        BY OpeningParts, LabelNames DEF x0
  <2>3. x4 = (((x0 \o << Fix("asec", 8) >>) \o << Fix("ansec", 8) >>) \o << Fix("msec", 8) >>) \o << Fix("mnsec", 8) >>
        BY DEF x1, x2, x3, x4
  <2> DEFINE a == Fix("asec", 8)
             b == Fix("ansec", 8)
             c == Fix("msec", 8)
             d == Fix("mnsec", 8)
  <2>5. a \in Items /\ b \in Items /\ c \in Items /\ d \in Items /\ x0 \in Seq(Items)
        BY <2>2
  <2> HIDE DEF a, b, c, d
  <2>6. x0 \o <<a, b, c, d>> = Put(Put(Put(Put(x0, a), b), c), d)
        BY ONLY <2>5, Snoc4
  <2>4. x0 \o << Fix("asec", 8), Fix("ansec", 8), Fix("msec", 8), Fix("mnsec", 8) >> = x4
        BY <2>3, <2>6 DEF Put, a, b, c, d
  <2> QED BY ONLY <2>1, <2>4
<1>9. "count" \notin N4 /\ "userLen" \notin N4 /\ "code" \notin N4
      BY DEF N0, N1, N2, N3, N4
<1>10. Told(k) \subseteq V4 /\ {} = Unmet(k)
      BY DEF Told, Unmet, V0, V1, V2, V3, V4
<1> QED BY <1>6, <1>7, <1>8, <1>9, <1>10, ArgsLetter

LEMMA ArgsWrite ==
  ASSUME NEW k \in Calls, k.op = "write"
  PROVE  Letter(WorkerReads(k.op), <<>>, ClientArgs(k), "InOperation", Told(k), Unmet(k))
<1> DEFINE s0 == getBytes("uid", 4, 0) \o Text("pathLen", "path", 2, NameSent(k))
           x0 == Opening(2)
           N0 == {"uid", "pathLen", "path"}
           V0 == {<<"path", NameSent(k).b>>}
           s1 == s0 \o getBytes("fd", 4, 0)
           x1 == x0 \o << Fix("fd", 4) >>
           N1 == N0 \cup {"fd"}
           V1 == V0 \cup {<<"fd", 0>>}
           s2 == s1 \o getBytes("size", 8, k.q.b)
           x2 == x1 \o << Fix("size", 8) >>
           N2 == N1 \cup {"size"}
           V2 == V1 \cup {<<"size", k.q.b>>}
           s3 == s2 \o getBytes("offset", 8, 0)
           x3 == x2 \o << Fix("offset", 8) >>
           N3 == N2 \cup {"offset"}
           V3 == V2 \cup {<<"offset", 0>>}
           s4 == s3 \o getBytes("data", k.q.b, k.q.b)
           x4 == x3 \o << Var("data", "size") >>
           N4 == N3 \cup {"data"}
           V4 == V3 \cup {<<"data", k.q.b>>}
<1> HIDE DEF s0, x0, N0, V0, s1, x1, N1, V1, s2, x2, N2, V2, s3, x3, N3, V3, s4, x4, N4, V4
<1>1. k.op \in OpNames /\ NameSent(k) \in Names /\ k.q \in Names /\ k.len \in Nat
      BY CallsTyped
<1>2. Message(s0, x0, N0, V0, {})
  <2>1. 2 \in Nat \ {0}
        OBVIOUS
  <2> QED BY <1>1, <2>1, OpeningMessage DEF s0, x0, N0, V0
<1>3. Message(s1, x1, N1, V1, {})
  <2>1. "fd" \notin N0 /\ 4 \in Nat \ {0}
        BY DEF N0
  <2>2. 0 \in Int
        OBVIOUS
  <2> QED BY <1>2, <2>1, <2>2, LabelNames, MessageNumb DEF s1, x1, N1, V1
<1>4. Message(s2, x2, N2, V2, {})
  <2>1. "size" \notin N1 /\ 8 \in Nat \ {0}
        BY DEF N0, N1
  <2>2. k.q.b \in Int
        BY <1>1, NamesTyped
  <2> QED BY <1>3, <2>1, <2>2, LabelNames, MessageNumb DEF s2, x2, N2, V2
<1>5. Message(s3, x3, N3, V3, {})
  <2>1. "offset" \notin N2 /\ 8 \in Nat \ {0}
        BY DEF N0, N1, N2
  <2>2. 0 \in Int
        OBVIOUS
  <2> QED BY <1>4, <2>1, <2>2, LabelNames, MessageNumb DEF s3, x3, N3, V3
<1>6. Message(s4, x4, N4, V4, {})
  <2>1. "data" \notin N3 /\ "size" # "none" /\ <<"size", k.q.b>> \in V3
        BY DEF N0, N1, N2, N3, V0, V1, V2, V3
  <2> DEFINE b == k.q.b
  <2>2. b \in Nat \ {0}
        BY <1>1, NamesTyped
  <2>5. <<"size", b>> \in V3
        BY <2>1
  <2>6. s4 = s3 \o getBytes("data", b, b) /\ V4 = V3 \cup {<<"data", b>>}
        BY DEF s4, V4
  <2> HIDE DEF b
  <2>3. b \in Int /\ b \in Nat /\ 1 <= b /\ b <= b
        BY <2>2
  <2>4. Message(s3 \o getBytes("data", b, b), x3 \o << Var("data", "size") >>, N3 \cup {"data"}, V3 \cup {<<"data", b>>}, {})
        BY <1>5, <2>1, <2>3, <2>5, LabelNames, MessageVari
  <2> QED BY <2>4, <2>6 DEF x4, N4
<1>7. ClientArgs(k) = s4
      BY DEF ClientArgs, PathWidth, s0, s1, s2, s3, s4
<1>8. WorkerReads(k.op) = x4
  <2>1. WorkerReads(k.op) = x0 \o << Fix("fd", 4), Fix("size", 8), Fix("offset", 8), Var("data", "size") >>
        BY DEF WorkerReads, Opening, x0
  <2>2. x0 \in Seq(Items) /\ Fix("fd", 4) \in Items /\ Fix("size", 8) \in Items /\ Fix("offset", 8) \in Items /\ Var("data", "size") \in Items
        BY OpeningParts, LabelNames DEF x0
  <2>3. x4 = (((x0 \o << Fix("fd", 4) >>) \o << Fix("size", 8) >>) \o << Fix("offset", 8) >>) \o << Var("data", "size") >>
        BY DEF x1, x2, x3, x4
  <2> DEFINE a == Fix("fd", 4)
             b == Fix("size", 8)
             c == Fix("offset", 8)
             d == Var("data", "size")
  <2>5. a \in Items /\ b \in Items /\ c \in Items /\ d \in Items /\ x0 \in Seq(Items)
        BY <2>2
  <2> HIDE DEF a, b, c, d
  <2>6. x0 \o <<a, b, c, d>> = Put(Put(Put(Put(x0, a), b), c), d)
        BY ONLY <2>5, Snoc4
  <2>4. x0 \o << Fix("fd", 4), Fix("size", 8), Fix("offset", 8), Var("data", "size") >> = x4
        BY <2>3, <2>6 DEF Put, a, b, c, d
  <2> QED BY ONLY <2>1, <2>4
<1>9. "count" \notin N4 /\ "userLen" \notin N4 /\ "code" \notin N4
      BY DEF N0, N1, N2, N3, N4
<1>10. Told(k) \subseteq V4 /\ {} = Unmet(k)
      BY DEF Told, Unmet, V0, V1, V2, V3, V4
<1> QED BY <1>6, <1>7, <1>8, <1>9, <1>10, ArgsLetter

LEMMA ArgsPaths ==
  ASSUME NEW k \in Calls, k.op \in {"symlink", "rename"}
  PROVE  Letter(WorkerReads(k.op), <<>>, ClientArgs(k), "InOperation", Told(k), Unmet(k))
<1> DEFINE s0 == getBytes("uid", 4, 0) \o Text("pathLen", "path", 2, NameSent(k))
           x0 == Opening(2)
           N0 == {"uid", "pathLen", "path"}
           V0 == {<<"path", NameSent(k).b>>}
           s1 == s0 \o Text("path2Len", "path2", 2, k.q)
           x1 == x0 \o ReadText("path2Len", "path2", 2)
           N1 == N0 \cup {"path2Len", "path2"}
           V1 == V0 \cup {<<"path2Len", k.q.b>>, <<"path2", k.q.b>>}
<1> HIDE DEF s0, x0, N0, V0, s1, x1, N1, V1
<1>1. k.op \in OpNames /\ NameSent(k) \in Names /\ k.q \in Names /\ k.len \in Nat
      BY CallsTyped
<1>2. Message(s0, x0, N0, V0, {})
  <2>1. 2 \in Nat \ {0}
        OBVIOUS
  <2> QED BY <1>1, <2>1, OpeningMessage DEF s0, x0, N0, V0
<1>3. Message(s1, x1, N1, V1, {})
  <2>1. "path2Len" \notin N0 /\ "path2" \notin N0 /\ "path2Len" # "none" /\ "path2Len" # "path2" /\ 2 \in Nat \ {0}
        BY DEF N0
  <2> QED BY <1>1, <1>2, <2>1, LabelNames, MessageName DEF s1, x1, N1, V1
<1>4. ClientArgs(k) = s1
      BY DEF ClientArgs, PathWidth, s0, s1
<1>5. WorkerReads(k.op) = x1
      BY DEF WorkerReads, Opening, x0, x1
<1>6. "count" \notin N1 /\ "userLen" \notin N1 /\ "code" \notin N1
      BY DEF N0, N1
<1>7. Told(k) \subseteq V1 /\ {} = Unmet(k)
      BY DEF Told, Unmet, V0, V1
<1> QED BY <1>3, <1>4, <1>5, <1>6, <1>7, ArgsLetter

(* Two messages, one after the other; what the second says is kept.        *)
LEMMA MessageJoin ==
  ASSUME NEW s, NEW x, NEW N, NEW V, NEW D, Message(s, x, N, V, D),
         NEW t, NEW y, NEW M, NEW U, Message(t, y, M, U, D)
  PROVE  Message(s \o t, x \o y, N \cup M, U, D)
<1>1. PICK A : Form(s, x, A) /\ FieldNames(A) = N /\ Honest(A, D)
      BY DEF Message
<1>2. PICK Q : Form(t, y, Q) /\ FieldNames(Q) = M /\ Honest(Q, D) /\ \A z \in U : Says(<<>>, Q, z[1], z[2])
      BY DEF Message
<1>3. A \in Seq(Fields) /\ Q \in Seq(Fields)
      BY <1>1, <1>2 DEF Form, Spells
<1>4. Form(s \o t, x \o y, A \o Q)
      BY <1>1, <1>2, FormJoin
<1>5. FieldNames(A \o Q) = N \cup M /\ Honest(A \o Q, D)
      BY <1>1, <1>2, <1>3, NamesJoin
<1>6. \A z \in U : Says(<<>>, A \o Q, z[1], z[2])
  <2>1. <<>> \in Seq(Known)
        OBVIOUS
  <2> QED BY <1>2, <1>3, <2>1, SaysMore
<1> QED BY <1>4, <1>5, <1>6 DEF Message

LEMMA Flat ==
  ASSUME NEW s
  PROVE  /\ Len(s) = 0 => FlattenSeq(s) = s
         /\ Len(s) = 1 => FlattenSeq(s) = s[1]
         /\ Len(s) = 2 => FlattenSeq(s) = s[1] \o s[2]
<1>1. ASSUME Len(s) = 0 PROVE FlattenSeq(s) = s
      BY <1>1 DEF FlattenSeq
<1>2. ASSUME Len(s) = 1 PROVE FlattenSeq(s) = s[1]
  <2> DEFINE Is(f) == f = [i \in 1..1 |-> IF i = 1 THEN s[i] ELSE f[i - 1] \o s[i]]
             g == CHOOSE f : Is(f)
  <2>1. Is([i \in 1..1 |-> s[1]])
        OBVIOUS
  <2>2. Is(g)
        BY <2>1
  <2>3. g[1] = s[1]
        BY <2>2
  <2>4. FlattenSeq(s) = g[1]
        BY <1>2 DEF FlattenSeq
  <2> QED BY <2>3, <2>4
<1>3. ASSUME Len(s) = 2 PROVE FlattenSeq(s) = s[1] \o s[2]
  <2> DEFINE Is(f) == f = [i \in 1..2 |-> IF i = 1 THEN s[i] ELSE f[i - 1] \o s[i]]
             g == CHOOSE f : Is(f)
             h == [i \in 1..2 |-> IF i = 1 THEN s[1] ELSE s[1] \o s[2]]
  <2>1. Is(h)
    <3>1. h[1] = s[1]
          OBVIOUS
    <3> DEFINE e == [i \in 1..2 |-> IF i = 1 THEN s[i] ELSE h[i - 1] \o s[i]]
    <3>2. \A i \in 1..2 : (IF i = 1 THEN s[1] ELSE s[1] \o s[2]) = (IF i = 1 THEN s[i] ELSE h[i - 1] \o s[i])
      <4> SUFFICES ASSUME NEW i \in 1..2
                   PROVE  (IF i = 1 THEN s[1] ELSE s[1] \o s[2]) = (IF i = 1 THEN s[i] ELSE h[i - 1] \o s[i])
          OBVIOUS
      <4>1. CASE i = 1
            BY <4>1
      <4>2. CASE i = 2
        <5>1. h[i - 1] = s[1]
              BY <3>1, <4>2
        <5> QED BY <4>2, <5>1
      <4> QED BY <4>1, <4>2
    <3>3. h = e
          BY <3>2
    <3> QED BY <3>3
  <2>2. Is(g)
        BY <2>1
  <2> HIDE DEF g
  <2>3. g[1] = s[1]
        BY <2>2
  <2>4. g[2] = g[1] \o s[2]
    <3>1. g[2] = IF 2 = 1 THEN s[2] ELSE g[2 - 1] \o s[2]
      <4>1. 2 \in 1..2
            OBVIOUS
      <4> QED BY <2>2, <4>1
    <3>2. 2 # 1 /\ 2 - 1 = 1
          OBVIOUS
    <3> QED BY <3>1, <3>2
  <2>5. FlattenSeq(s) = g[2]
        BY <1>3 DEF FlattenSeq, g
  <2> QED BY <2>3, <2>4, <2>5
<1> QED BY <1>1, <1>2, <1>3

LEMMA CopiesAre ==
  ASSUME NEW s
  PROVE  Copies(0, s) = <<>> /\ Copies(1, s) = s /\ Copies(2, s) = s \o s
<1>1. Copies(0, s) = <<>>
  <2> DEFINE f == [i \in 1..0 |-> s]
  <2>1. Len(f) = 0 /\ f = <<>>
        OBVIOUS
  <2>2. Copies(0, s) = FlattenSeq(f)
        BY DEF Copies
  <2> HIDE DEF f
  <2> QED BY <2>1, <2>2, Flat
<1>2. Copies(1, s) = s
  <2> DEFINE f == [i \in 1..1 |-> s]
  <2>1. Len(f) = 1 /\ f[1] = s
        OBVIOUS
  <2>2. Copies(1, s) = FlattenSeq(f)
        BY DEF Copies
  <2> HIDE DEF f
  <2> QED BY <2>1, <2>2, Flat
<1>3. Copies(2, s) = s \o s
  <2> DEFINE f == [i \in 1..2 |-> s]
  <2>1. Len(f) = 2 /\ f[1] = s /\ f[2] = s
        OBVIOUS
  <2>2. Copies(2, s) = FlattenSeq(f)
        BY DEF Copies
  <2> HIDE DEF f
  <2> QED BY <2>1, <2>2, Flat
<1> QED BY <1>1, <1>2, <1>3

LEMMA EachIs ==
  ASSUME NEW i \in 0..2, NEW b \in [1..i -> Names]
  PROVE  /\ Len(b) = i /\ DOMAIN b = 1..i
         /\ i = 0 => Each(b, BulkWrite) = <<>> /\ Each(b, LocalUser) = <<>>
         /\ i = 1 => Each(b, BulkWrite) = BulkWrite(b[1]) /\ Each(b, LocalUser) = LocalUser(b[1])
         /\ i = 2 => /\ Each(b, BulkWrite) = BulkWrite(b[1]) \o BulkWrite(b[2])
                     /\ Each(b, LocalUser) = LocalUser(b[1]) \o LocalUser(b[2])
<1>1. b \in Seq(Names) /\ Len(b) = i
      BY SeqDef
<1> DEFINE f == [j \in DOMAIN b |-> BulkWrite(b[j])]
           g == [j \in DOMAIN b |-> LocalUser(b[j])]
<1>2. Each(b, BulkWrite) = FlattenSeq(f) /\ Each(b, LocalUser) = FlattenSeq(g)
      BY DEF Each
<1>3. DOMAIN b = 1..i
      OBVIOUS
<1>4. DOMAIN f = 1..i /\ DOMAIN g = 1..i
      BY <1>3
<1>5. Len(f) = i /\ Len(g) = i
      BY <1>4
<1>6. \A j \in 1..i : f[j] = BulkWrite(b[j]) /\ g[j] = LocalUser(b[j])
      BY <1>3
<1>7. i = 0 => f = <<>> /\ g = <<>>
      BY <1>3
<1> HIDE DEF f, g
<1>8. /\ Len(f) = 0 => FlattenSeq(f) = f
      /\ Len(f) = 1 => FlattenSeq(f) = f[1]
      /\ Len(f) = 2 => FlattenSeq(f) = f[1] \o f[2]
      BY Flat
<1>9. /\ Len(g) = 0 => FlattenSeq(g) = g
      /\ Len(g) = 1 => FlattenSeq(g) = g[1]
      /\ Len(g) = 2 => FlattenSeq(g) = g[1] \o g[2]
      BY Flat
<1>10. i = 0 => FlattenSeq(f) = <<>> /\ FlattenSeq(g) = <<>>
       BY <1>5, <1>7, <1>8, <1>9
<1>11. i = 1 => FlattenSeq(f) = BulkWrite(b[1]) /\ FlattenSeq(g) = LocalUser(b[1])
  <2>1. 1 \in 1..1
        OBVIOUS
  <2> QED BY <1>5, <1>6, <1>8, <1>9, <2>1
<1>12. i = 2 => /\ FlattenSeq(f) = BulkWrite(b[1]) \o BulkWrite(b[2])
                /\ FlattenSeq(g) = LocalUser(b[1]) \o LocalUser(b[2])
  <2>1. 1 \in 1..2 /\ 2 \in 1..2
        OBVIOUS
  <2> QED BY <1>5, <1>6, <1>8, <1>9, <2>1
<1> QED BY <1>1, <1>2, <1>3, <1>10, <1>11, <1>12

(* A write of a batch, whose path is sent with the length in characters.   *)
LEMMA BulkMessage ==
  ASSUME NEW m \in Names, NEW D, Wide(m) => Var("path", "pathLen") \in D
  PROVE  Message(BulkWrite(m), WorkerBulk, {"pathLen", "path", "fd", "size", "offset", "data"}, {}, D)
<1> DEFINE b == m.c
           s0 == CharText("pathLen", "path", 2, m)
           x0 == ReadText("pathLen", "path", 2)
           N0 == {"pathLen", "path"}
           V0 == {<<"pathLen", m.c>>, <<"path", m.b>>}
           s1 == s0 \o getBytes("fd", 4, 0)
           x1 == x0 \o << Fix("fd", 4) >>
           N1 == N0 \cup {"fd"}
           V1 == V0 \cup {<<"fd", 0>>}
           s2 == s1 \o getBytes("size", 8, b)
           x2 == x1 \o << Fix("size", 8) >>
           N2 == N1 \cup {"size"}
           V2 == V1 \cup {<<"size", b>>}
           s3 == s2 \o getBytes("offset", 8, 0)
           x3 == x2 \o << Fix("offset", 8) >>
           N3 == N2 \cup {"offset"}
           V3 == V2 \cup {<<"offset", 0>>}
           s4 == s3 \o getBytes("data", b, b)
           x4 == x3 \o << Var("data", "size") >>
           N4 == N3 \cup {"data"}
           V4 == V3 \cup {<<"data", b>>}
<1>1. b \in Nat \ {0}
      BY NamesTyped
<1>2. BulkWrite(m) = s4
      BY DEF BulkWrite
<1> HIDE DEF b, s0, x0, N0, V0, s1, x1, N1, V1, s2, x2, N2, V2, s3, x3, N3, V3, s4, x4, N4, V4
<1>3. b \in Int /\ b \in Nat /\ 1 <= b /\ b <= b
      BY <1>1
<1>4. Message(s0, x0, N0, V0, D)
  <2>1. "pathLen" # "none" /\ "pathLen" # "path" /\ 2 \in Nat \ {0}
        OBVIOUS
  <2> QED BY <2>1, LabelNames, FirstName DEF s0, x0, N0, V0
<1>5. Message(s1, x1, N1, V1, D)
  <2>1. "fd" \notin N0 /\ 4 \in Nat \ {0} /\ 0 \in Int
        BY DEF N0
  <2> QED BY <1>4, <2>1, LabelNames, MessageNumb DEF s1, x1, N1, V1
<1>6. Message(s2, x2, N2, V2, D)
  <2>1. "size" \notin N1 /\ 8 \in Nat \ {0}
        BY DEF N0, N1
  <2> QED BY <1>3, <1>5, <2>1, LabelNames, MessageNumb DEF s2, x2, N2, V2
<1>7. Message(s3, x3, N3, V3, D)
  <2>1. "offset" \notin N2 /\ 8 \in Nat \ {0} /\ 0 \in Int
        BY DEF N0, N1, N2
  <2> QED BY <1>6, <2>1, LabelNames, MessageNumb DEF s3, x3, N3, V3
<1>8. Message(s4, x4, N4, V4, D)
  <2>1. "data" \notin N3 /\ "size" # "none" /\ <<"size", b>> \in V3
        BY DEF N0, N1, N2, N3, V2, V3
  <2> QED BY <1>3, <1>7, <2>1, LabelNames, MessageVari DEF s4, x4, N4, V4
<1>9. WorkerBulk = x4
  <2> DEFINE i1 == Fix("fd", 4)
             i2 == Fix("size", 8)
             i3 == Fix("offset", 8)
             i4 == Var("data", "size")
  <2>1. i1 \in Items /\ i2 \in Items /\ i3 \in Items /\ i4 \in Items /\ x0 \in Seq(Items)
    <3>1. x0 \in Seq(Items)
          BY <1>4, MessageSeqs
    <3> QED BY <3>1, OpeningParts, LabelNames
  <2>2. WorkerBulk = x0 \o <<i1, i2, i3, i4>>
        BY DEF WorkerBulk, x0
  <2>3. x4 = Put(Put(Put(Put(x0, i1), i2), i3), i4)
        BY DEF Put, x1, x2, x3, x4
  <2> HIDE DEF i1, i2, i3, i4
  <2>4. x0 \o <<i1, i2, i3, i4>> = Put(Put(Put(Put(x0, i1), i2), i3), i4)
        BY ONLY <2>1, Snoc4
  <2> QED BY <2>2, <2>3, <2>4
<1>10. N4 = {"pathLen", "path", "fd", "size", "offset", "data"} /\ {} \subseteq V4
       BY DEF N0, N1, N2, N3, N4
<1> QED BY <1>2, <1>8, <1>9, <1>10, MessageLess

LEMMA ArgsBulk ==
  ASSUME NEW k \in Calls, k.op = "writebulk"
  PROVE  Letter(WorkerReads(k.op), <<>>, ClientArgs(k), "InOperation", Told(k), Unmet(k))
<1>1. PICK i \in 0..2 : k.batch \in [1..i -> Names]
      BY CallsTyped
<1> DEFINE b == k.batch
           D == Unmet(k)
           M == {"pathLen", "path", "fd", "size", "offset", "data"}
           s == getBytes("uid", 4, 0) \o getBytes("count", 4, i)
           x == << Fix("uid", 4), Fix("count", 4) >>
           t == Each(b, BulkWrite)
           y == Copies(i, WorkerBulk)
           V == {<<"uid", 0>>, <<"count", i>>}
<1>2. b \in [1..i -> Names]
      BY <1>1
<1>3. /\ Len(b) = i /\ DOMAIN b = 1..i
      /\ i = 0 => t = <<>>
      /\ i = 1 => t = BulkWrite(b[1])
      /\ i = 2 => t = BulkWrite(b[1]) \o BulkWrite(b[2])
      BY <1>2, EachIs
<1>4. \A j \in DOMAIN b : Wide(b[j]) => Var("path", "pathLen") \in D
      BY DEF Unmet
<1>5. Told(k) = {<<"count", i>>}
      BY <1>3 DEF Told
<1>6. WorkerReads(k.op) = x
      BY DEF WorkerReads
<1>7. ClientArgs(k) = s \o t
  <2>1. ClientArgs(k) = getBytes("uid", 4, 0) \o getBytes("count", 4, Len(b)) \o t
        BY DEF ClientArgs, SentCount
  <2> QED BY <1>3, <2>1
<1>8. y = IF i = 0 THEN <<>> ELSE IF i = 1 THEN WorkerBulk ELSE WorkerBulk \o WorkerBulk
  <2>1. CASE i = 0
        BY <2>1, CopiesAre
  <2>2. CASE i = 1
        BY <2>2, CopiesAre
  <2>3. CASE i = 2
        BY <2>3, CopiesAre
  <2> QED BY <2>1, <2>2, <2>3
<1>9. Message(s, x, {"uid", "count"}, V, D)
  <2> DEFINE s1 == getBytes("uid", 4, 0)
             x1 == << Fix("uid", 4) >>
             V1 == {<<"uid", 0>>}
             N1 == {"uid"}
  <2>1. 4 \in Nat \ {0} /\ 0 \in Int /\ i \in Int /\ "count" \notin N1
        OBVIOUS
  <2>2. Message(s1, x1, N1, V1, D)
        BY <2>1, LabelNames, FirstNumb
  <2>4. N1 \cup {"count"} = {"uid", "count"} /\ V1 \cup {<<"count", i>>} = V
        OBVIOUS
  <2>5. x = x1 \o << Fix("count", 4) >>
    <3>1. Fix("uid", 4) \in Items /\ Fix("count", 4) \in Items
          BY OpeningParts, LabelNames
    <3> QED BY ONLY <3>1, Two
  <2> HIDE DEF s1, x1, V1, N1
  <2>3. Message(s1 \o getBytes("count", 4, i), x1 \o << Fix("count", 4) >>, N1 \cup {"count"},
                V1 \cup {<<"count", i>>}, D)
        BY <2>1, <2>2, LabelNames, MessageNumb
  <2> QED BY <2>3, <2>4, <2>5 DEF s1
<1> HIDE DEF b, D, M, s, x, t, y, V
<1>10. \A j \in 1..i : Message(BulkWrite(b[j]), WorkerBulk, M, {}, D)
  <2> SUFFICES ASSUME NEW j \in 1..i PROVE Message(BulkWrite(b[j]), WorkerBulk, M, {}, D)
      OBVIOUS
  <2>1. b[j] \in Names /\ (Wide(b[j]) => Var("path", "pathLen") \in D)
        BY <1>2, <1>3, <1>4
  <2> QED BY <2>1, BulkMessage DEF M
<1>11. \E K : Message(t, y, K, {}, D) /\ K \subseteq M
  <2>1. CASE i = 0
        BY <1>3, <1>8, <2>1, MessageNone
  <2>2. CASE i = 1
        BY <1>3, <1>8, <1>10, <2>2
  <2>3. CASE i = 2
    <3>1. 1 \in 1..i /\ 2 \in 1..i
          BY <2>3
    <3>2. Message(BulkWrite(b[1]) \o BulkWrite(b[2]), WorkerBulk \o WorkerBulk, M \cup M, {}, D)
          BY <1>10, <3>1, MessageJoin
    <3>3. M \cup M = M
          OBVIOUS
    <3>4. t = BulkWrite(b[1]) \o BulkWrite(b[2]) /\ y = WorkerBulk \o WorkerBulk
          BY <1>3, <1>8, <2>3
    <3>5. Message(t, y, M, {}, D)
          BY ONLY <3>2, <3>3, <3>4
    <3> QED BY ONLY <3>5
  <2> QED BY <2>1, <2>2, <2>3
<1>12. PICK K : Message(t, y, K, {}, D) /\ K \subseteq M
       BY <1>11
<1>13. Loops("count", i, "InOperation") = y
       BY DEF Loops, y
<1>14. x # <<>> /\ Len(x) = 2 /\ x[Len(x)].f = "count" /\ x[1].f = "uid"
       BY DEF x, Fix
<1>15. \A j \in 1..Len(x) : j < Len(x) => Quiet(x[j].f, "InOperation")
  <2>1. \A j \in 1..2 : j < 2 => j = 1
        OBVIOUS
  <2> QED BY <1>14, <2>1 DEF Quiet
<1>16. \A g \in K : Quiet(g, "InOperation")
       BY <1>12 DEF M, Quiet
<1>17. "count" \notin K
       BY <1>12 DEF M
<1> DEFINE W == {<<"count", i>>}
<1>18. \A z \in W : z \in V /\ z[1] \notin K
       BY <1>17 DEF V
<1>19. <<"count", i>> \in V
       BY DEF V
<1> HIDE DEF W
<1>20. Letter(x, <<>>, s \o t, "InOperation", W, D)
       BY <1>9, <1>12, <1>13, <1>14, <1>15, <1>16, <1>18, <1>19, LoopLetter
<1> QED BY <1>5, <1>6, <1>7, <1>20 DEF W, D

(* What is left of the users that a client sends: q is the length of the   *)
(* next one, or the end of the list.                                       *)
UserLength == Fix("userLen", 4)
UserTail(s, q, T, op) ==
  /\ q.it = UserLength /\ Script(More(q, op), T, op) /\ q \in Fields /\ T \in Seq(Fields)
  /\ (\E y : Form(s, y, <<q>> \o T)) /\ Honest(<<q>> \o T, {})

LEMMA UserNone == ASSUME NEW op PROVE \E q, T : UserTail(getBytes("userLen", 4, -1), q, T, op)
<1> DEFINE q == Numb("userLen", 4, -1)
           s == getBytes("userLen", 4, -1)
<1>1. 4 \in Nat \ {0} /\ -1 \in Int
      OBVIOUS
<1>2. q \in Fields
      BY <1>1, NumbField, LabelNames
<1>3. /\ q.it = UserLength /\ q.it.f = "userLen" /\ q.it.by = "none" /\ q.it.w = 4
      /\ q.w = 4 /\ q.n = 4 /\ q.v = -1
      BY DEF Numb, Fix, UserLength
<1> HIDE DEF q
<1>4. More(q, op) = <<>>
      BY <1>3 DEF More, Loops
<1>5. Form(<<>> \o getBytes(q.it.f, q.w, q.v), <<>> \o <<q.it>>, <<>> \o <<q>>)
      BY <1>2, <1>3, FormNone, FormMore
<1>6. s \in Seq(Bytes) /\ <<q>> \in Seq(Fields)
  <2>1. 4 \in Nat
        OBVIOUS
  <2> QED BY <1>1, <1>2, <2>1, ByteString, LabelNames
<1>7. <<>> \o s = s /\ <<>> \o <<q>> = <<q>> /\ <<q>> \o <<>> = <<q>>
      BY <1>6, ConcatEmptySeq
<1>8. \E y : Form(s, y, <<q>> \o <<>>)
      BY <1>3, <1>5, <1>7
<1>9. Honest(<<q>> \o <<>>, {})
  <2>1. Len(<<q>>) = 1 /\ <<q>>[1] = q
        OBVIOUS
  <2> QED BY <1>3, <1>7, <2>1 DEF Honest
<1>10. <<>> \in Seq(Fields)
       OBVIOUS
<1>11. UserTail(s, q, <<>>, op)
       BY <1>2, <1>3, <1>4, <1>8, <1>9, <1>10, ScriptNone DEF UserTail
<1> QED BY <1>11

LEMMA UserMore ==
  ASSUME NEW s, NEW q, NEW T, NEW op, UserTail(s, q, T, op), NEW m \in Names
  PROVE  \E q2, T2 : UserTail(LocalUser(m) \o s, q2, T2, op)
<1> DEFINE n == m.b
           a == Numb("userLen", 4, n)
           b == Vari("user", "userLen", n, n)
           c == Numb("localUid", 4, 0)
           g1 == getBytes("userLen", 4, n)
           g2 == getBytes("user", n, n)
           g3 == getBytes("localUid", 4, 0)
           Z == <<q>> \o T
           T2 == <<b, c, q>> \o T
<1>1. LocalUser(m) = (g1 \o g2) \o g3
      BY DEF LocalUser, Text
<1>2. n \in Nat \ {0}
      BY NamesTyped
<1> HIDE DEF n
<1>3. n \in Int /\ n \in Nat /\ 1 <= n /\ n <= n /\ n # -1 /\ 4 \in Nat \ {0} /\ 0 \in Int
      BY <1>2
<1>4. a \in Fields /\ c \in Fields /\ b \in Fields
      BY <1>3, NumbField, VariField, LabelNames
<1>5. /\ a.it = UserLength /\ a.it.f = "userLen" /\ a.it.by = "none" /\ a.it.w = 4
      /\ a.w = 4 /\ a.n = 4 /\ a.v = n
      /\ b.it = Var("user", "userLen") /\ b.it.f = "user" /\ b.it.by = "userLen"
      /\ b.w = n /\ b.n = n /\ b.v = n
      /\ c.it = Fix("localUid", 4) /\ c.it.f = "localUid" /\ c.it.by = "none" /\ c.it.w = 4
      /\ c.w = 4 /\ c.n = 4 /\ c.v = 0
      BY DEF Numb, Vari, Fix, Var, UserLength
<1> HIDE DEF a, b, c, g1, g2, g3
<1>6. /\ q.it = UserLength /\ Script(More(q, op), T, op) /\ q \in Fields /\ T \in Seq(Fields)
      /\ (\E y : Form(s, y, Z)) /\ Honest(Z, {})
      BY DEF UserTail
<1>7. /\ <<a>> \in Seq(Fields) /\ <<b>> \in Seq(Fields) /\ <<c>> \in Seq(Fields) /\ <<q>> \in Seq(Fields)
      /\ Z \in Seq(Fields) /\ <<b, c>> \in Seq(Fields) /\ <<b, c, q>> \in Seq(Fields)
      BY <1>4, <1>6
<1>8. \E y : Form(g1, y, <<a>>)
  <2>1. Form(<<>> \o getBytes(a.it.f, a.w, a.v), <<>> \o <<a.it>>, <<>> \o <<a>>)
        BY <1>4, <1>5, FormNone, FormMore
  <2>2. g1 \in Seq(Bytes)
        BY <1>3, ByteString, LabelNames DEF g1
  <2>3. <<>> \o g1 = g1 /\ <<>> \o <<a>> = <<a>>
        BY <1>7, <2>2, ConcatEmptySeq
  <2> QED BY <1>5, <2>1, <2>3 DEF g1
<1>9. \E y : Form(g1 \o g2, y, <<a>> \o <<b>>)
  <2>1. PICK y : Form(g1, y, <<a>>)
        BY <1>8
  <2>2. Says(<<>>, <<a>>, "userLen", n)
    <3>1. Len(<<a>>) = 1 /\ <<a>>[1] = a
          OBVIOUS
    <3> QED BY <1>5, <3>1 DEF Says
  <2>3. b.it.by # "none" /\ Says(<<>>, <<a>>, b.it.by, b.n)
        BY <1>5, <2>2
  <2>4. Form(g1 \o getBytes(b.it.f, b.w, b.v), y \o <<b.it>>, <<a>> \o <<b>>)
        BY <1>4, <2>1, <2>3, FormMore
  <2> QED BY <1>5, <2>4 DEF g2
<1>10. \E y : Form((g1 \o g2) \o g3, y, (<<a>> \o <<b>>) \o <<c>>)
  <2>1. PICK y : Form(g1 \o g2, y, <<a>> \o <<b>>)
        BY <1>9
  <2>2. c.it.by = "none" /\ c.it.w = c.n
        BY <1>5
  <2>4. Form((g1 \o g2) \o getBytes(c.it.f, c.w, c.v), y \o <<c.it>>, (<<a>> \o <<b>>) \o <<c>>)
        BY <1>4, <2>1, <2>2, FormMore
  <2> QED BY <1>5, <2>4 DEF g3
<1>11. \E y : Form(LocalUser(m) \o s, y, ((<<a>> \o <<b>>) \o <<c>>) \o Z)
  <2>1. PICK y : Form((g1 \o g2) \o g3, y, (<<a>> \o <<b>>) \o <<c>>)
        BY <1>10
  <2>2. PICK z : Form(s, z, Z)
        BY <1>6
  <2>3. Form(((g1 \o g2) \o g3) \o s, y \o z, ((<<a>> \o <<b>>) \o <<c>>) \o Z)
        BY <2>1, <2>2, FormJoin
  <2> QED BY <1>1, <2>3
<1>12. ((<<a>> \o <<b>>) \o <<c>>) \o Z = <<a>> \o T2
  <2>1. (<<a>> \o <<b>>) \o <<c>> = <<a>> \o (<<b>> \o <<c>>)
        BY <1>7, Assoc
  <2>2. <<b>> \o <<c>> = <<b, c>>
        BY <1>4, Two
  <2>3. (<<a>> \o <<b, c>>) \o Z = <<a>> \o (<<b, c>> \o Z)
        BY <1>7, Assoc
  <2>4. (<<b, c>> \o <<q>>) \o T = <<b, c>> \o Z
        BY <1>6, <1>7, Assoc
  <2>5. <<b, c, q>> = <<b, c>> \o <<q>>
        BY <1>4, <1>6, Three
  <2> HIDE DEF Z
  <2> QED BY <2>1, <2>2, <2>3, <2>4, <2>5
<1>13. Honest(((<<a>> \o <<b>>) \o <<c>>) \o Z, {})
  <2>1. Honest(<<a>>, {}) /\ Honest(<<b>>, {}) /\ Honest(<<c>>, {})
    <3>1. Len(<<a>>) = 1 /\ <<a>>[1] = a /\ Len(<<b>>) = 1 /\ <<b>>[1] = b /\ Len(<<c>>) = 1 /\ <<c>>[1] = c
          OBVIOUS
    <3> QED BY <1>3, <1>5, <3>1 DEF Honest
  <2>2. ASSUME NEW A \in Seq(Fields), NEW B \in Seq(Fields), Honest(A, {}), Honest(B, {})
        PROVE  Honest(A \o B, {}) /\ A \o B \in Seq(Fields)
    <3>1. \A D : Honest(A, D) /\ Honest(B, D) => Honest(A \o B, D)
          BY NamesJoin
    <3>2. Honest(A \o B, {})
          BY <2>2, <3>1
    <3> QED BY <3>2
  <2>3. Honest(<<a>> \o <<b>>, {}) /\ <<a>> \o <<b>> \in Seq(Fields)
        BY <1>7, <2>1, <2>2
  <2>4. Honest((<<a>> \o <<b>>) \o <<c>>, {}) /\ (<<a>> \o <<b>>) \o <<c>> \in Seq(Fields)
        BY <1>7, <2>1, <2>2, <2>3
  <2> HIDE DEF Z
  <2> QED BY <1>6, <1>7, <2>2, <2>4
<1>14. Script(<< Var("user", "userLen"), Fix("localUid", 4), UserLength >>, T2, op)
  <2> DEFINE A == <<b, c, q>>
             x == << Var("user", "userLen"), Fix("localUid", 4), UserLength >>
  <2>1. A \in Seq(Fields) /\ Len(A) = 3 /\ A[1] = b /\ A[2] = c /\ A[3] = q /\ A # <<>>
        BY <1>4, <1>6
  <2>2. x \in Seq(Items) /\ Len(x) = 3 /\ x[1] = b.it /\ x[2] = c.it /\ x[3] = q.it
    <3>1. b.it \in Items /\ c.it \in Items /\ q.it \in Items
          BY <1>4, <1>6, FieldParts
    <3>2. x = <<b.it, c.it, q.it>>
          BY <1>5, <1>6
    <3> HIDE DEF x
    <3> QED BY <3>1, <3>2
  <2>3. \A k \in 1..3 : k = 1 \/ k = 2 \/ k = 3
        OBVIOUS
  <2>4. More(b, op) = <<>> /\ More(c, op) = <<>>
    <3>1. Quiet("user", op) /\ Quiet("localUid", op)
          BY DEF Quiet
    <3> QED BY <1>5, <3>1, QuietField DEF More
  <2> HIDE DEF A, x
  <2>5. \A k \in 1..Len(A) : x[k] = A[k].it /\ (k < Len(A) => More(A[k], op) = <<>>)
        BY <2>1, <2>2, <2>3, <2>4
  <2>6. Script(More(A[Len(A)], op), T, op)
        BY <1>6, <2>1
  <2>7. Script(x, A \o T, op)
        BY <2>1, <2>2, <2>5, <2>6, ScriptJoin
  <2> QED BY <2>7 DEF A, x
<1>15. More(a, op) = << Var("user", "userLen"), Fix("localUid", 4), UserLength >>
       BY <1>3, <1>5 DEF More, Loops, UserLength
<1>16. T2 \in Seq(Fields)
       BY <1>6, <1>7
<1> HIDE DEF T2, Z
<1>17. UserTail(LocalUser(m) \o s, a, T2, op)
       BY <1>4, <1>5, <1>11, <1>12, <1>13, <1>14, <1>15, <1>16 DEF UserTail
<1> QED BY <1>17

LEMMA UserLetter ==
  ASSUME NEW s, NEW q, NEW T, NEW op, UserTail(s, q, T, op)
  PROVE  Letter(<< UserLength >>, <<>>, s, op, {}, {})
<1>1. /\ q.it = UserLength /\ Script(More(q, op), T, op) /\ q \in Fields /\ T \in Seq(Fields)
      /\ (\E y : Form(s, y, <<q>> \o T)) /\ Honest(<<q>> \o T, {})
      BY DEF UserTail
<1> DEFINE A == <<q>>
           x == << UserLength >>
<1>2. /\ A \in Seq(Fields) /\ Len(A) = 1 /\ A[1] = q /\ A # <<>>
      /\ x \in Seq(Items) /\ Len(x) = 1 /\ x[1] = q.it
  <2>1. UserLength \in Items
        BY <1>1, FieldParts
  <2> QED BY <1>1, <2>1
<1> HIDE DEF A, x
<1>3. \A k \in 1..Len(A) : x[k] = A[k].it /\ (k < Len(A) => More(A[k], op) = <<>>)
      BY <1>2
<1>4. Script(More(A[Len(A)], op), T, op)
      BY <1>1, <1>2
<1>5. Script(x, A \o T, op)
      BY <1>2, <1>3, <1>4, ScriptJoin
<1>6. <<>> \in Seq(Known)
      OBVIOUS
<1>7. Reading(x, <<>>, s, op, A \o T) /\ Honest(A \o T, {})
      BY <1>1, <1>5, <1>6 DEF Reading, Form, A
<1> DEFINE R == A \o T
<1> HIDE DEF R
<1>8. Reading(x, <<>>, s, op, R) /\ Honest(R, {})
      BY <1>7 DEF R
<1> QED BY <1>8 DEF Letter, x

LEMMA ArgsUsers ==
  ASSUME NEW k \in Calls, k.op = "UpdateLocalUsers"
  PROVE  Letter(WorkerReads(k.op), <<>>, ClientArgs(k), "InOperation", Told(k), Unmet(k))
<1>1. PICK i \in 0..2 : k.batch \in [1..i -> Names]
      BY CallsTyped
<1> DEFINE b == k.batch
           s == getBytes("userLen", 4, -1)
           t == Each(b, LocalUser)
           op == "InOperation"
<1>2. b \in [1..i -> Names]
      BY <1>1
<1>3. /\ i = 0 => t = <<>>
      /\ i = 1 => t = LocalUser(b[1])
      /\ i = 2 => t = LocalUser(b[1]) \o LocalUser(b[2])
      BY <1>2, EachIs
<1>4. Told(k) = {} /\ Unmet(k) = {} /\ WorkerReads(k.op) = << UserLength >> /\ ClientArgs(k) = t \o s
      BY DEF Told, Unmet, WorkerReads, UserLength, ClientArgs
<1>5. s \in Seq(Bytes)
  <2>1. 4 \in Nat /\ -1 \in Int
        OBVIOUS
  <2> QED BY <2>1, ByteString, LabelNames
<1>6. \A m \in Names : LocalUser(m) \in Seq(Bytes)
  <2> SUFFICES ASSUME NEW m \in Names PROVE LocalUser(m) \in Seq(Bytes)
      OBVIOUS
  <2>1. m.b \in Nat /\ m.b \in Int /\ 4 \in Nat /\ 0 \in Int
        BY NamesTyped
  <2>2. /\ getBytes("userLen", 4, m.b) \in Seq(Bytes) /\ getBytes("user", m.b, m.b) \in Seq(Bytes)
        /\ getBytes("localUid", 4, 0) \in Seq(Bytes)
        BY <2>1, ByteString, LabelNames
  <2> DEFINE g1 == getBytes("userLen", 4, m.b)
             g2 == getBytes("user", m.b, m.b)
             g3 == getBytes("localUid", 4, 0)
  <2>3. LocalUser(m) = (g1 \o g2) \o g3
        BY DEF LocalUser, Text
  <2> HIDE DEF g1, g2, g3
  <2> QED BY <2>2, <2>3 DEF g1, g2, g3
<1> HIDE DEF b, s, t
<1>7. \E q, T : UserTail(s, q, T, op)
      BY UserNone DEF s
<1>8. \A m \in Names : \A z : (\E q, T : UserTail(z, q, T, op)) => \E q, T : UserTail(LocalUser(m) \o z, q, T, op)
      BY UserMore
<1>9. \E q, T : UserTail(t \o s, q, T, op)
  <2>1. CASE i = 0
        BY <1>3, <1>5, <1>7, <2>1, ConcatEmptySeq
  <2>2. CASE i = 1
    <3>1. b[1] \in Names
          BY <1>2, <2>2
    <3> QED BY <1>3, <1>7, <1>8, <2>2, <3>1
  <2>3. CASE i = 2
    <3>1. b[1] \in Names /\ b[2] \in Names
          BY <1>2, <2>3
    <3>2. \E q, T : UserTail(LocalUser(b[1]) \o (LocalUser(b[2]) \o s), q, T, op)
          BY <1>7, <1>8, <3>1
    <3>3. (LocalUser(b[1]) \o LocalUser(b[2])) \o s = LocalUser(b[1]) \o (LocalUser(b[2]) \o s)
          BY <1>5, <1>6, <3>1, Assoc
    <3> QED BY <1>3, <2>3, <3>2, <3>3
  <2> QED BY <2>1, <2>2, <2>3
<1> QED BY <1>4, <1>9, UserLetter

(* Every call says to the worker what the client was called with.          *)
LEMMA ArgsOfCall ==
  ASSUME NEW k \in Calls
  PROVE  Letter(WorkerReads(k.op), <<>>, ClientArgs(k), "InOperation", Told(k), Unmet(k))
<1>1. k.op \in OpNames
      BY CallsTyped
<1>2. \/ k.op = "getattr" \/ k.op \in {"readdir", "unlink", "rmdir", "statfs"} \/ k.op = "open"
      \/ k.op = "access" \/ k.op = "readlink" \/ k.op \in {"mknod", "mkdir", "chmod"}
      \/ k.op = "release" \/ k.op = "truncate" \/ k.op = "chown" \/ k.op = "read"
      \/ k.op = "utimens" \/ k.op = "write" \/ k.op \in {"symlink", "rename"}
      \/ k.op = "writebulk" \/ k.op = "UpdateLocalUsers"
      BY <1>1 DEF OpNames
<1> QED BY <1>2, ArgsGetattr, ArgsPath, ArgsOpen, ArgsAccess, ArgsReadlink, ArgsMode, ArgsRelease,
           ArgsTruncate, ArgsChown, ArgsRead, ArgsUtimens, ArgsWrite, ArgsPaths, ArgsBulk, ArgsUsers

-----------------------------------------------------------------------------
(* The other messages of the client.                                       *)
LEMMA CodeMessage ==
  ASSUME NEW v \in Int, NEW D
  PROVE  Message(getBytes("code", 1, v), Code, {"code"}, {<<"code", v>>}, D)
<1>1. 1 \in Nat \ {0}
      OBVIOUS
<1> QED BY <1>1, FirstNumb, LabelNames DEF Code

(* A code, and the texts that the reader of this code goes on to read.     *)
LEMMA CodeThen ==
  ASSUME NEW v \in Int, NEW op, NEW t, NEW M, NEW U, Message(t, Loops("code", v, op), M, U, {}),
         "code" \notin M, \A g \in M : Quiet(g, op)
  PROVE  Letter(Code, <<>>, getBytes("code", 1, v) \o t, op, {<<"code", v>>}, {})
<1> DEFINE V == {<<"code", v>>}
           s == getBytes("code", 1, v)
<1>1. Message(s, Code, {"code"}, V, {})
      BY CodeMessage
<1>2. Code # <<>> /\ Len(Code) = 1 /\ Code[Len(Code)].f = "code" /\ <<"code", v>> \in V
      BY DEF Code, Fix
<1>3. \A k \in 1..Len(Code) : k < Len(Code) => Quiet(Code[k].f, op)
      BY <1>2
<1>4. \A x \in V : x \in U \/ (x \in V /\ x[1] \notin M)
      OBVIOUS
<1> HIDE DEF V, s
<1>5. Letter(Code, <<>>, s \o t, op, V, {})
      BY <1>1, <1>2, <1>3, <1>4, LoopLetter
<1> QED BY <1>5 DEF V, s

LEMMA CodeAlone ==
  ASSUME NEW v \in Int, NEW op, Loops("code", v, op) = <<>>
  PROVE  Letter(Code, <<>>, getBytes("code", 1, v), op, {<<"code", v>>}, {})
<1> DEFINE s == getBytes("code", 1, v)
           M == {}
           e == <<>>
<1>1. Message(e, Loops("code", v, op), M, {}, {}) /\ "code" \notin M /\ \A g \in M : Quiet(g, op)
      BY MessageNone
<1>2. Letter(Code, <<>>, s \o e, op, {<<"code", v>>}, {})
  <2> HIDE DEF M, e
  <2> QED BY <1>1, CodeThen
<1>3. s \in Seq(Bytes)
  <2>1. 1 \in Nat
        OBVIOUS
  <2> QED BY <2>1, ByteString, LabelNames
<1> HIDE DEF s
<1>4. s \o <<>> = s
      BY <1>3, ConcatEmptySeq
<1> QED BY <1>2, <1>4 DEF s

LEMMA CodesTyped ==
  /\ Hello \in Int /\ OK \in Int /\ Error \in Int /\ Share \in Int /\ Register \in Int
  /\ Hello # Error /\ OK # Error /\ Hello # OK /\ Hello # Register
BY DEF Hello, OK, Error, Share, Register

LEMMA CodeLoops ==
  /\ Loops("code", Hello, "WaitingForHello")
       = ReadText("helloLen", "hello", 4) \o ReadText("sysInfoLen", "sysInfo", 4)
  /\ Loops("code", Register, "WaitingForHello") = <<>>
  /\ Loops("code", Share, "WaitingForShare") = ReadText("shareLen", "share", 4)
  /\ Loops("code", Hello, "hello") = ReadText("helloLen", "hello", 4)
  /\ Loops("code", OK, "regInfo") = ReadText("msgLen", "msg", 4)
  /\ \A op : Loops("code", Error, op) = ReadText("msgLen", "msg", 4)
  /\ \A op : op # "regInfo" => Loops("code", OK, op) = <<>>
BY DEF Loops, Hello, OK, Error, Share, Register

LEMMA TextMessage ==
  ASSUME NEW l \in Labels, l # "none", NEW f \in Labels, l # f, NEW n \in Names, NEW D
  PROVE  Message(Text(l, f, 4, n), ReadText(l, f, 4), {l, f}, {<<l, n.b>>, <<f, n.b>>}, D)
<1>1. 4 \in Nat \ {0}
      OBVIOUS
<1> QED BY <1>1, FirstName

LEMMA TextTyped ==
  ASSUME NEW l \in Labels, NEW f \in Labels, NEW n \in Names
  PROVE  Text(l, f, 4, n) \in Seq(Bytes)
<1>1. 4 \in Nat /\ n.b \in Nat /\ n.b \in Int
      BY NamesTyped
<1> DEFINE a == getBytes(l, 4, n.b)
           b == getBytes(f, n.b, n.b)
<1>2. a \in Seq(Bytes) /\ b \in Seq(Bytes)
      BY <1>1, ByteString
<1>3. Text(l, f, 4, n) = a \o b
      BY DEF Text
<1> HIDE DEF a, b
<1>4. a \o b \in Seq(Bytes)
      BY <1>2
<1> QED BY <1>3, <1>4

LEMMA SentHello ==
  Letter(Code, <<>>, getBytes("code", 1, Hello) \o Text("helloLen", "hello", 4, Msg)
                       \o Text("sysInfoLen", "sysInfo", 4, Msg),
         "WaitingForHello", {<<"code", Hello>>}, {})
<1> DEFINE c == getBytes("code", 1, Hello)
           a == Text("helloLen", "hello", 4, Msg)
           b == Text("sysInfoLen", "sysInfo", 4, Msg)
           V == {<<"helloLen", Msg.b>>, <<"hello", Msg.b>>}
           N == {"helloLen", "hello"}
           x == ReadText("helloLen", "hello", 4)
<1>1. Msg \in Names
      BY NamesTyped
<1>2. Message(a, x, N, V, {})
      BY <1>1, LabelNames, TextMessage
<1>3. "sysInfoLen" \notin N /\ "sysInfo" \notin N /\ "sysInfoLen" # "none" /\ "sysInfoLen" # "sysInfo"
      OBVIOUS
<1>4. c \in Seq(Bytes) /\ a \in Seq(Bytes) /\ b \in Seq(Bytes)
  <2>1. 1 \in Nat
        OBVIOUS
  <2>2. c \in Seq(Bytes)
        BY <2>1, ByteString, LabelNames, CodesTyped
  <2> QED BY <1>1, <2>2, LabelNames, TextTyped
<1> DEFINE M == N \cup {"sysInfoLen", "sysInfo"}
           U == V \cup {<<"sysInfoLen", Msg.b>>, <<"sysInfo", Msg.b>>}
<1>5. "code" \notin M /\ \A g \in M : Quiet(g, "WaitingForHello")
      BY DEF Quiet
<1> HIDE DEF c, a, V, N, x
<1>6. Message(a \o b, x \o ReadText("sysInfoLen", "sysInfo", 4), M, U, {})
  <2>1. 4 \in Nat \ {0}
        OBVIOUS
  <2> QED BY <1>1, <1>2, <1>3, <2>1, LabelNames, MessageName
<1> HIDE DEF b, M, U
<1>7. Message(a \o b, Loops("code", Hello, "WaitingForHello"), M, U, {})
      BY <1>6, CodeLoops DEF x
<1>8. Letter(Code, <<>>, c \o (a \o b), "WaitingForHello", {<<"code", Hello>>}, {})
      BY <1>5, <1>7, CodesTyped, CodeThen DEF c
<1>9. (c \o a) \o b = c \o (a \o b)
      BY <1>4, Assoc
<1>10. Letter(Code, <<>>, (c \o a) \o b, "WaitingForHello", {<<"code", Hello>>}, {})
       BY <1>8, <1>9
<1> QED BY <1>10 DEF a, b, c

LEMMA SentShare ==
  ASSUME NEW n \in Names
  PROVE  Letter(Code, <<>>, getBytes("code", 1, Share) \o Text("shareLen", "share", 4, n),
                "WaitingForShare", {<<"code", Share>>}, {})
<1>1. Message(Text("shareLen", "share", 4, n), ReadText("shareLen", "share", 4), {"shareLen", "share"},
              {<<"shareLen", n.b>>, <<"share", n.b>>}, {})
      BY LabelNames, TextMessage
<1>2. \A g \in {"shareLen", "share"} : Quiet(g, "WaitingForShare") /\ g # "code"
      BY DEF Quiet
<1> QED BY <1>1, <1>2, CodeLoops, CodesTyped, CodeThen

LEMMA SentRegister ==
  Letter(Code, <<>>, getBytes("code", 1, Register), "WaitingForHello", {<<"code", Register>>}, {})
BY CodeLoops, CodesTyped, CodeAlone

LEMMA SentOpcode ==
  ASSUME NEW i \in Int
  PROVE  Letter(<< Fix("opcode", 2) >>, <<>>, getBytes("opcode", 2, i), "WaitingForOperation",
                {<<"opcode", i>>}, {})
<1>1. 2 \in Nat \ {0}
      OBVIOUS
<1>2. Message(getBytes("opcode", 2, i), << Fix("opcode", 2) >>, {"opcode"}, {<<"opcode", i>>}, {})
      BY <1>1, LabelNames, FirstNumb
<1>3. \A g \in {"opcode"} : Quiet(g, "WaitingForOperation")
      BY DEF Quiet
<1> QED BY <1>2, <1>3, QuietLetter

(* An address that is not ASCII is the one text of these that is sent with *)
(* another length than its own.                                            *)
EmailReads == ReadText("emailLen", "email", 4) \o ReadText("passLen", "pass", 4)
UnmetEmail(n) == IF Wide(n) THEN {Var("email", "emailLen")} ELSE {}

LEMMA SentEmail ==
  ASSUME NEW n \in Names
  PROVE  Letter(EmailReads, <<>>,
                CharText("emailLen", "email", 4, n) \o Text("passLen", "pass", 4, Msg),
                "registerAuth", {}, UnmetEmail(n))
<1> DEFINE D == UnmetEmail(n)
           N == {"emailLen", "email"}
           V == {<<"emailLen", n.c>>, <<"email", n.b>>}
           s == CharText("emailLen", "email", 4, n)
           x == ReadText("emailLen", "email", 4)
           M == N \cup {"passLen", "pass"}
           U == V \cup {<<"passLen", Msg.b>>, <<"pass", Msg.b>>}
<1>1. Wide(n) => Var("email", "emailLen") \in D
      BY DEF UnmetEmail
<1>2. 4 \in Nat \ {0} /\ Msg \in Names /\ {} \subseteq U
      BY NamesTyped
<1>3. \A g \in M : Quiet(g, "registerAuth")
      BY DEF Quiet
<1>4. "passLen" \notin N /\ "pass" \notin N
      OBVIOUS
<1> HIDE DEF D
<1>5. Message(s, x, N, V, D)
      BY <1>1, <1>2, LabelNames, FirstName
<1> HIDE DEF N, V, s, x
<1>6. Message(s \o Text("passLen", "pass", 4, Msg), x \o ReadText("passLen", "pass", 4), M, U, D)
      BY <1>2, <1>4, <1>5, LabelNames, MessageName
<1> HIDE DEF M, U
<1>7. Message(s \o Text("passLen", "pass", 4, Msg), x \o ReadText("passLen", "pass", 4), M, {}, D)
      BY <1>2, <1>6, MessageLess
<1>8. Letter(x \o ReadText("passLen", "pass", 4), <<>>, s \o Text("passLen", "pass", 4, Msg),
             "registerAuth", {}, D)
      BY <1>3, <1>7, QuietLetter
<1> QED BY <1>8 DEF D, s, x, EmailReads

ComputerReads == ReadText("nameLen", "name", 4) \o ReadText("sysInfoLen", "sysInfo", 4)
                   \o ReadText("certLen", "cert", 4)

LEMMA SentComputer ==
  ASSUME NEW n \in Names
  PROVE  Letter(ComputerReads, <<>>,
                Text("nameLen", "name", 4, n) \o Text("sysInfoLen", "sysInfo", 4, Msg)
                  \o Text("certLen", "cert", 4, Msg),
                "registerInfo", {}, {})
<1> DEFINE N == {"nameLen", "name"}
           V == {<<"nameLen", n.b>>, <<"name", n.b>>}
           s == Text("nameLen", "name", 4, n)
           x == ReadText("nameLen", "name", 4)
           N1 == N \cup {"sysInfoLen", "sysInfo"}
           V1 == V \cup {<<"sysInfoLen", Msg.b>>, <<"sysInfo", Msg.b>>}
           s1 == s \o Text("sysInfoLen", "sysInfo", 4, Msg)
           x1 == x \o ReadText("sysInfoLen", "sysInfo", 4)
           N2 == N1 \cup {"certLen", "cert"}
           V2 == V1 \cup {<<"certLen", Msg.b>>, <<"cert", Msg.b>>}
           s2 == s1 \o Text("certLen", "cert", 4, Msg)
           x2 == x1 \o ReadText("certLen", "cert", 4)
<1>1. 4 \in Nat \ {0} /\ Msg \in Names /\ {} \subseteq V2
      BY NamesTyped
<1>2. \A g \in N2 : Quiet(g, "registerInfo")
      BY DEF Quiet
<1>3. "sysInfoLen" \notin N /\ "sysInfo" \notin N /\ "certLen" \notin N1 /\ "cert" \notin N1
      OBVIOUS
<1>4. Message(s, x, N, V, {})
      BY LabelNames, TextMessage
<1> HIDE DEF N, V, s, x
<1>5. Message(s1, x1, N1, V1, {})
      BY <1>1, <1>3, <1>4, LabelNames, MessageName
<1> HIDE DEF N1, V1, s1, x1
<1>6. Message(s2, x2, N2, V2, {})
      BY <1>1, <1>3, <1>5, LabelNames, MessageName
<1> HIDE DEF N2, V2, s2, x2
<1>7. Message(s2, x2, N2, {}, {})
      BY <1>1, <1>6, MessageLess
<1>8. Letter(x2, <<>>, s2, "registerInfo", {}, {})
      BY <1>2, <1>7, QuietLetter
<1> QED BY <1>8 DEF s, x, s1, x1, s2, x2, ComputerReads

(* The answers that are a code, and perhaps a text.                        *)
LEMMA AnswerHello ==
  Letter(Code, <<>>, getBytes("code", 1, Hello) \o Text("helloLen", "hello", 4, Msg),
         "hello", {<<"code", Hello>>}, {})
<1>1. Message(Text("helloLen", "hello", 4, Msg), ReadText("helloLen", "hello", 4), {"helloLen", "hello"},
              {<<"helloLen", Msg.b>>, <<"hello", Msg.b>>}, {})
      BY LabelNames, NamesTyped, TextMessage
<1>2. \A g \in {"helloLen", "hello"} : Quiet(g, "hello") /\ g # "code"
      BY DEF Quiet
<1> QED BY <1>1, <1>2, CodeLoops, CodesTyped, CodeThen

LEMMA AnswerText ==
  ASSUME NEW v \in Int, NEW op, Loops("code", v, op) = ReadText("msgLen", "msg", 4)
  PROVE  Letter(Code, <<>>, getBytes("code", 1, v) \o Text("msgLen", "msg", 4, Msg),
                op, {<<"code", v>>}, {})
<1>1. Message(Text("msgLen", "msg", 4, Msg), ReadText("msgLen", "msg", 4), {"msgLen", "msg"},
              {<<"msgLen", Msg.b>>, <<"msg", Msg.b>>}, {})
      BY LabelNames, NamesTyped, TextMessage
<1>2. \A g \in {"msgLen", "msg"} : Quiet(g, op) /\ g # "code"
      BY DEF Quiet
<1> QED BY <1>1, <1>2, CodeThen

LEMMA AnswerFails ==
  ASSUME NEW op PROVE Letter(Code, <<>>, Fails, op, {<<"code", Error>>}, {})
BY AnswerText, CodeLoops, CodesTyped DEF Fails

LEMMA AnswerFiled ==
  Letter(Code, <<>>, getBytes("code", 1, OK) \o Text("msgLen", "msg", 4, Msg),
         "regInfo", {<<"code", OK>>}, {})
BY AnswerText, CodeLoops, CodesTyped

LEMMA AnswerOK ==
  ASSUME NEW op, op # "regInfo"
  PROVE  Letter(Code, <<>>, getBytes("code", 1, OK), op, {<<"code", OK>>}, {})
BY CodeLoops, CodesTyped, CodeAlone

-----------------------------------------------------------------------------
(* The replies of the operations.                                          *)
Tells(op, r)   == IF op = "UpdateLocalUsers" THEN {} ELSE {<<"res", r>>}
UnmetLink(op)  == IF op = "readlink" THEN {Var("link", "res")} ELSE {}
Outcome(op, r, n) ==
  /\ r \in Int
  /\ op = "readdir" => r \in {-1, 2}
  /\ op = "readlink" => r \in {-1, n.c}
  /\ op = "read" => r \in {-1, 0, n.b}

LEMMA ResultMessage ==
  ASSUME NEW r \in Int, NEW D
  PROVE  Message(getBytes("res", 4, r), << Fix("res", 4) >>, {"res"}, {<<"res", r>>}, D)
<1>1. 4 \in Nat \ {0}
      OBVIOUS
<1> QED BY <1>1, FirstNumb, LabelNames

LEMMA ReplyResult ==
  ASSUME NEW op \in OpNames \ {"getattr", "readdir", "read", "readlink", "statfs", "UpdateLocalUsers"},
         NEW r \in Int, NEW n \in Names
  PROVE  Letter(ClientReads(op), <<>>, Reply(op, r, n), op, Tells(op, r), UnmetLink(op))
<1>1. ClientReads(op) = << Fix("res", 4) >> /\ Reply(op, r, n) = getBytes("res", 4, r)
      /\ Tells(op, r) = {<<"res", r>>}
      BY DEF ClientReads, Reply, Tells
<1>2. \A f \in {"res"} : Quiet(f, op)
      BY DEF Quiet
<1>3. Message(getBytes("res", 4, r), << Fix("res", 4) >>, {"res"}, {<<"res", r>>}, UnmetLink(op))
      BY ResultMessage
<1> QED BY <1>1, <1>2, <1>3, QuietLetter

LEMMA StatTyped == StatLen \in Nat \ {0}
BY FramingAssumption

LEMMA ReplyGetattr ==
  ASSUME NEW r \in Int, NEW n \in Names
  PROVE  Letter(ClientReads("getattr"), <<>>, Reply("getattr", r, n), "getattr",
                Tells("getattr", r), UnmetLink("getattr"))
<1> DEFINE N == {"res"}
           V == {<<"res", r>>}
           s == getBytes("res", 4, r)
           x == << Fix("res", 4) >>
           N1 == N \cup {"stat"}
           V1 == V \cup {<<"stat", 0>>}
           D == UnmetLink("getattr")
<1>1. Message(s, x, N, V, D)
      BY ResultMessage
<1>2. "stat" \notin N /\ 0 \in Int /\ V \subseteq V1 /\ \A f \in N1 : Quiet(f, "getattr")
      BY DEF Quiet
<1>3. Reply("getattr", r, n) = s \o getBytes("stat", StatLen, 0) /\ Tells("getattr", r) = V
      BY DEF Reply, Tells
<1>4. ClientReads("getattr") = x \o << Fix("stat", StatLen) >>
  <2>1. Fix("res", 4) \in Items /\ Fix("stat", StatLen) \in Items
        BY OpeningParts, StatTyped, NumbField, LabelNames
  <2>2. << Fix("res", 4), Fix("stat", StatLen) >> = << Fix("res", 4) >> \o << Fix("stat", StatLen) >>
        BY ONLY <2>1, Two
  <2> QED BY <2>2 DEF ClientReads
<1> HIDE DEF N, V, s, x, D
<1>5. Message(s \o getBytes("stat", StatLen, 0), x \o << Fix("stat", StatLen) >>, N1, V1, D)
      BY <1>1, <1>2, StatTyped, LabelNames, MessageNumb
<1> HIDE DEF N1, V1
<1>6. Message(s \o getBytes("stat", StatLen, 0), x \o << Fix("stat", StatLen) >>, N1, V, D)
      BY <1>2, <1>5, MessageLess
<1>7. Letter(x \o << Fix("stat", StatLen) >>, <<>>, s \o getBytes("stat", StatLen, 0), "getattr", V, D)
      BY <1>2, <1>6, QuietLetter
<1> QED BY <1>3, <1>4, <1>7 DEF D

LEMMA ReplyStatfs ==
  ASSUME NEW r \in Int, NEW n \in Names
  PROVE  Letter(ClientReads("statfs"), <<>>, Reply("statfs", r, n), "statfs",
                Tells("statfs", r), UnmetLink("statfs"))
<1> DEFINE N == {"statvfs"}
           V == {<<"statvfs", 0>>}
           s == getBytes("statvfs", StatLen, 0)
           x == << Fix("statvfs", StatLen) >>
           N1 == N \cup {"res"}
           V1 == V \cup {<<"res", r>>}
           W == {<<"res", r>>}
           D == UnmetLink("statfs")
<1>1. Message(s, x, N, V, D)
  <2>1. 0 \in Int
        OBVIOUS
  <2> QED BY <2>1, StatTyped, LabelNames, FirstNumb
<1>2. "res" \notin N /\ 4 \in Nat \ {0} /\ W \subseteq V1 /\ \A f \in N1 : Quiet(f, "statfs")
      BY DEF Quiet
<1>3. Reply("statfs", r, n) = s \o getBytes("res", 4, r) /\ Tells("statfs", r) = W
      BY DEF Reply, Tells
<1>4. ClientReads("statfs") = x \o << Fix("res", 4) >>
  <2>1. Fix("res", 4) \in Items /\ Fix("statvfs", StatLen) \in Items
        BY OpeningParts, StatTyped, NumbField, LabelNames
  <2>2. << Fix("statvfs", StatLen), Fix("res", 4) >> = << Fix("statvfs", StatLen) >> \o << Fix("res", 4) >>
        BY ONLY <2>1, Two
  <2> QED BY <2>2 DEF ClientReads
<1> HIDE DEF N, V, s, x, D
<1>5. Message(s \o getBytes("res", 4, r), x \o << Fix("res", 4) >>, N1, V1, D)
      BY <1>1, <1>2, LabelNames, MessageNumb
<1> HIDE DEF N1, V1, W
<1>6. Message(s \o getBytes("res", 4, r), x \o << Fix("res", 4) >>, N1, W, D)
      BY <1>2, <1>5, MessageLess
<1>7. Letter(x \o << Fix("res", 4) >>, <<>>, s \o getBytes("res", 4, r), "statfs", W, D)
      BY <1>2, <1>6, QuietLetter
<1> QED BY <1>3, <1>4, <1>7 DEF D

LEMMA ReplyUsers ==
  ASSUME NEW r \in Int, NEW n \in Names
  PROVE  Letter(ClientReads("UpdateLocalUsers"), <<>>, Reply("UpdateLocalUsers", r, n), "UpdateLocalUsers",
                Tells("UpdateLocalUsers", r), UnmetLink("UpdateLocalUsers"))
<1> DEFINE op == "UpdateLocalUsers"
           s == getBytes("code", 1, OK)
<1>1. /\ ClientReads(op) = Code /\ Reply(op, r, n) = s
      /\ Tells(op, r) = {} /\ UnmetLink(op) = {} /\ op # "regInfo"
      BY DEF ClientReads, Reply, Tells, UnmetLink, Code
<1> HIDE DEF op
<1>2. Letter(Code, <<>>, s, op, {<<"code", OK>>}, {})
      BY <1>1, AnswerOK
<1> HIDE DEF s
<1>3. Letter(Code, <<>>, s, op, {}, {})
      BY <1>2 DEF Letter
<1> QED BY <1>1, <1>3 DEF op

(* The entries of a directory follow the result that counts them.          *)
LEMMA ReplyReaddir ==
  ASSUME NEW r \in {-1, 2}, NEW n \in Names
  PROVE  Letter(ClientReads("readdir"), <<>>, Reply("readdir", r, n), "readdir",
                Tells("readdir", r), UnmetLink("readdir"))
<1> DEFINE op == "readdir"
           s == getBytes("res", 4, r)
           x == << Fix("res", 4) >>
           V == {<<"res", r>>}
           e == Text("entryLen", "entry", 4, n)
           i == ReadText("entryLen", "entry", 4)
           M == {"entryLen", "entry"}
           U == {<<"entryLen", n.b>>, <<"entry", n.b>>}
           t == IF r > 0 THEN e \o e ELSE <<>>
<1>1. /\ ClientReads(op) = x /\ Tells(op, r) = V /\ UnmetLink(op) = {}
      BY DEF ClientReads, Tells, UnmetLink
<1>2. Message(s, x, {"res"}, V, {})
      BY ResultMessage
<1>3. Message(e, i, M, U, {})
      BY LabelNames, TextMessage
<1>4. x # <<>> /\ Len(x) = 1 /\ x[Len(x)].f = "res" /\ <<"res", r>> \in V
      BY DEF Fix
<1>5. s \in Seq(Bytes)
  <2>1. 4 \in Nat /\ r \in Int
        OBVIOUS
  <2> QED BY <2>1, ByteString, LabelNames
<1>6. "res" \notin M /\ \A g \in M : Quiet(g, op)
      BY DEF Quiet
<1>7. \A z \in V : z[1] = "res"
      OBVIOUS
<1>8. Loops("res", r, op) = Copies(r, i)
      BY DEF Loops
<1>9. Reply(op, r, n) = IF r > 0 THEN s \o Copies(r, e) ELSE s
      BY DEF Reply
<1> HIDE DEF op, s, x, V, e, i, M, U
<1>10. \A k \in 1..Len(x) : k < Len(x) => Quiet(x[k].f, op)
       BY <1>4
<1>11. Message(t, Loops("res", r, op), IF r > 0 THEN M ELSE {}, IF r > 0 THEN U ELSE {}, {})
  <2>1. CASE r = 2
    <3>1. Message(e \o e, i \o i, M \cup M, U, {})
          BY <1>3, MessageJoin
    <3>2. M \cup M = M
          OBVIOUS
    <3>3. 2 > 0 /\ Copies(2, i) = i \o i
          BY CopiesAre
    <3> QED BY <1>8, <2>1, <3>1, <3>2, <3>3
  <2>2. CASE r = -1
    <3>1. Copies(-1, i) = <<>>
      <4> DEFINE f == [j \in 1..-1 |-> i]
      <4>1. Len(f) = 0 /\ f = <<>>
            OBVIOUS
      <4>2. Copies(-1, i) = FlattenSeq(f)
            BY DEF Copies
      <4> HIDE DEF f
      <4> QED BY <4>1, <4>2, Flat
    <3>2. ~ (-1 > 0)
          OBVIOUS
    <3> QED BY <1>8, <2>2, <3>1, <3>2, MessageNone
  <2> QED BY <2>1, <2>2
<1>12. Letter(x, <<>>, s \o t, op, V, {})
  <2> DEFINE K == IF r > 0 THEN M ELSE {}
             L == IF r > 0 THEN U ELSE {}
  <2>1. "res" \notin K /\ \A g \in K : Quiet(g, op)
        BY <1>6
  <2>2. \A z \in V : z \in L \/ (z \in V /\ z[1] \notin K)
        BY <1>7, <2>1
  <2> HIDE DEF K, L, t
  <2>3. Message(t, Loops("res", r, op), K, L, {})
        BY <1>11 DEF K, L
  <2> QED BY <1>2, <1>4, <1>10, <2>1, <2>2, <2>3, LoopLetter
<1>13. Reply(op, r, n) = s \o t
  <2>1. CASE r = 2
    <3>1. 2 > 0 /\ Copies(2, e) = e \o e
          BY CopiesAre
    <3> QED BY <1>9, <2>1, <3>1
  <2>2. CASE r = -1
    <3>1. ~ (-1 > 0) /\ s \o <<>> = s
          BY <1>5, ConcatEmptySeq
    <3> QED BY <1>9, <2>2, <3>1
  <2> QED BY <2>1, <2>2
<1> HIDE DEF t
<1>14. Letter(ClientReads(op), <<>>, Reply(op, r, n), op, Tells(op, r), UnmetLink(op))
       BY <1>1, <1>12, <1>13
<1> QED BY <1>14 DEF op

(* A result, and as many bytes as it says, or none: the data that was read *)
(* or the text of a link, where it says the characters.                    *)
LEMMA ResultThenBytes ==
  ASSUME NEW f \in Labels, f # "res", NEW r \in Int, NEW b \in Nat,
         (b = 0 /\ r <= 0) \/ (1 <= r /\ r <= b), NEW D, r # b /\ b # 0 => Var(f, "res") \in D,
         NEW op, op # "readdir", Quiet(f, op)
  PROVE  Letter(<< Fix("res", 4), Var(f, "res") >>, <<>>, getBytes("res", 4, r) \o getBytes(f, b, b),
                op, {<<"res", r>>}, D)
<1>1. 4 \in Nat \ {0} /\ "res" # "none"
      OBVIOUS
<1>2. Message(getBytes("res", 4, r) \o getBytes(f, b, b), ReadText("res", f, 4), {"res", f},
              {<<"res", r>>, <<f, b>>}, D)
      BY <1>1, LabelNames, FirstText
<1>3. Message(getBytes("res", 4, r) \o getBytes(f, b, b), ReadText("res", f, 4), {"res", f},
              {<<"res", r>>}, D)
  <2>1. {<<"res", r>>} \subseteq {<<"res", r>>, <<f, b>>}
        OBVIOUS
  <2> QED BY <1>2, <2>1, MessageLess
<1>4. \A g \in {"res", f} : Quiet(g, op)
      BY DEF Quiet
<1>5. Letter(ReadText("res", f, 4), <<>>, getBytes("res", 4, r) \o getBytes(f, b, b), op, {<<"res", r>>}, D)
      BY <1>3, <1>4, QuietLetter
<1> QED BY <1>5 DEF ReadText

LEMMA NoBytes ==
  ASSUME NEW f \in Labels, NEW r \in Int
  PROVE  getBytes("res", 4, r) \o getBytes(f, 0, 0) = getBytes("res", 4, r)
<1> DEFINE s == getBytes("res", 4, r)
           t == getBytes(f, 0, 0)
<1>1. s \in Seq(Bytes)
  <2>1. 4 \in Nat
        OBVIOUS
  <2> QED BY <2>1, ByteString, LabelNames
<1>2. t = <<>>
      BY DEF getBytes
<1> HIDE DEF s, t
<1>3. s \o <<>> = s
      BY <1>1, ConcatEmptySeq
<1> QED BY <1>2, <1>3 DEF s, t

LEMMA ReplyRead ==
  ASSUME NEW n \in Names, NEW r \in {-1, 0, n.b}
  PROVE  Letter(ClientReads("read"), <<>>, Reply("read", r, n), "read", Tells("read", r), UnmetLink("read"))
<1> DEFINE op == "read"
           b == IF r > 0 THEN r ELSE 0
<1>1. r \in Int /\ b \in Nat /\ ((b = 0 /\ r <= 0) \/ (1 <= r /\ r <= b)) /\ ~ (r # b /\ b # 0)
      BY NamesTyped
<1>2. /\ ClientReads(op) = << Fix("res", 4), Var("data", "res") >> /\ Tells(op, r) = {<<"res", r>>}
      /\ UnmetLink(op) = {}
      BY DEF ClientReads, Tells, UnmetLink
<1>3. Reply(op, r, n) = IF r > 0 THEN getBytes("res", 4, r) \o getBytes("data", r, r) ELSE getBytes("res", 4, r)
      BY DEF Reply
<1>4. Reply(op, r, n) = getBytes("res", 4, r) \o getBytes("data", b, b)
      BY <1>1, <1>3, LabelNames, NoBytes
<1>5. Quiet("data", op) /\ op # "readdir" /\ "data" # "res"
      BY DEF Quiet
<1> HIDE DEF b, op
<1>6. Letter(<< Fix("res", 4), Var("data", "res") >>, <<>>, getBytes("res", 4, r) \o getBytes("data", b, b),
             op, {<<"res", r>>}, {})
      BY <1>1, <1>5, LabelNames, ResultThenBytes
<1>7. Letter(ClientReads(op), <<>>, Reply(op, r, n), op, Tells(op, r), UnmetLink(op))
      BY <1>2, <1>4, <1>6
<1> QED BY <1>7 DEF op

LEMMA ReplyReadlink ==
  ASSUME NEW n \in Names, NEW r \in {-1, n.c}
  PROVE  Letter(ClientReads("readlink"), <<>>, Reply("readlink", r, n), "readlink",
                Tells("readlink", r), UnmetLink("readlink"))
<1> DEFINE op == "readlink"
           b == IF r > 0 THEN n.b ELSE 0
           D == {Var("link", "res")}
<1>1. /\ r \in Int /\ b \in Nat /\ ((b = 0 /\ r <= 0) \/ (1 <= r /\ r <= b)) /\ Var("link", "res") \in D
      /\ r > 0 => r = n.c
      BY NamesTyped
<1>2. /\ ClientReads(op) = << Fix("res", 4), Var("link", "res") >> /\ Tells(op, r) = {<<"res", r>>}
      /\ UnmetLink(op) = D
      BY DEF ClientReads, Tells, UnmetLink
<1>3. Reply(op, r, n) = IF r > 0 THEN getBytes("res", 4, n.c) \o getBytes("link", n.b, n.b)
                                 ELSE getBytes("res", 4, r)
      BY DEF Reply, CharText
<1>4. Reply(op, r, n) = getBytes("res", 4, r) \o getBytes("link", b, b)
      BY <1>1, <1>3, LabelNames, NoBytes
<1>5. Quiet("link", op) /\ op # "readdir" /\ "link" # "res"
      BY DEF Quiet
<1> HIDE DEF b, op, D
<1>6. Letter(<< Fix("res", 4), Var("link", "res") >>, <<>>, getBytes("res", 4, r) \o getBytes("link", b, b),
             op, {<<"res", r>>}, D)
      BY <1>1, <1>5, LabelNames, ResultThenBytes
<1>7. Letter(ClientReads(op), <<>>, Reply(op, r, n), op, Tells(op, r), UnmetLink(op))
      BY <1>2, <1>4, <1>6
<1> QED BY <1>7 DEF op

(* Every reply tells the client the result that it was made with.          *)
LEMMA ReplyOf ==
  ASSUME NEW op \in OpNames, NEW n \in Names, NEW r, Outcome(op, r, n)
  PROVE  Letter(ClientReads(op), <<>>, Reply(op, r, n), op, Tells(op, r), UnmetLink(op))
<1>1. r \in Int
      BY DEF Outcome
<1>2. CASE op \notin {"getattr", "readdir", "read", "readlink", "statfs", "UpdateLocalUsers"}
      BY <1>1, <1>2, ReplyResult
<1>3. CASE op = "getattr"
      BY <1>1, <1>3, ReplyGetattr
<1>4. CASE op = "statfs"
      BY <1>1, <1>4, ReplyStatfs
<1>5. CASE op = "UpdateLocalUsers"
      BY <1>1, <1>5, ReplyUsers
<1>6. CASE op = "readdir"
      BY <1>6, ReplyReaddir DEF Outcome
<1>7. CASE op = "read"
      BY <1>7, ReplyRead DEF Outcome
<1>8. CASE op = "readlink"
      BY <1>8, ReplyReadlink DEF Outcome
<1> QED BY <1>2, <1>3, <1>4, <1>5, <1>6, <1>7, <1>8

-----------------------------------------------------------------------------
(* Results.                                                                *)
LEMMA BulkFails ==
  ASSUME NEW i \in Nat, NEW rs \in [1..i -> {-1, 1}]
  PROVE  BulkResult(rs) \in Int /\ (BulkResult(rs) < 0 <=> \E j \in DOMAIN rs : rs[j] < 0)
<1> DEFINE bad == {j \in DOMAIN rs : rs[j] < 0}
<1>1. bad \subseteq 1..i /\ bad \subseteq Int /\ \A j \in bad : j <= i
      OBVIOUS
<1>2. BulkResult(rs) = IF bad = {} THEN 0 ELSE rs[CHOOSE k \in bad : \A j \in bad : j <= k]
      BY DEF BulkResult
<1>3. CASE bad = {}
      BY <1>2, <1>3
<1>4. CASE bad # {}
  <2> DEFINE k == CHOOSE k \in bad : \A j \in bad : j <= k
  <2>1. \E m \in bad : \A j \in bad : j <= m
        BY <1>1, <1>4, GreatestOf
  <2>2. k \in bad
        BY <2>1
  <2> HIDE DEF k
  <2>3. k \in DOMAIN rs /\ rs[k] < 0 /\ rs[k] \in {-1, 1}
        BY <2>2
  <2>4. BulkResult(rs) = rs[k]
        BY <1>2, <1>4 DEF k
  <2> QED BY <2>3, <2>4
<1> QED BY <1>3, <1>4

(* What the worker answers when it has heard the call k, and whether it    *)
(* failed.                                                                 *)
LEMMA ResultsAre ==
  ASSUME NEW op \in OpNames, NEW n \in Names, op = "writebulk" => Latest(wGot, "count") \in Nat,
         NEW x \in Results(op, n)
  PROVE  Outcome(op, x[2], n) /\ x[1] \in BOOLEAN /\ (x[1] <=> x[2] < 0)
<1>1. n.c \in Nat /\ n.b \in Nat
      BY NamesTyped
<1>2. CASE op = "writebulk"
  <2> DEFINE i == Latest(wGot, "count")
  <2>1. i \in Nat
        BY <1>2
  <2> HIDE DEF i
  <2>2. PICK rs \in [1..i -> {-1, 1}] : x = <<\E j \in DOMAIN rs : rs[j] < 0, BulkResult(rs)>>
        BY <1>2 DEF Results, i
  <2>3. BulkResult(rs) \in Int /\ (BulkResult(rs) < 0 <=> \E j \in DOMAIN rs : rs[j] < 0)
        BY <2>1, BulkFails
  <2>4. x[1] = (\E j \in DOMAIN rs : rs[j] < 0) /\ x[2] = BulkResult(rs)
        BY <2>2
  <2> QED BY <1>2, <2>3, <2>4 DEF Outcome
<1>3. CASE op # "writebulk"
  <2> DEFINE R == CASE op = "UpdateLocalUsers" -> {0}
                    [] op = "readdir"  -> {-1, 2}
                    [] op = "readlink" -> {-1, n.c}
                    [] op \in {"read", "write"} -> {-1, 0, n.b}
                    [] op = "open" -> {-1, 1}
                    [] OTHER -> {-1, 0}
  <2>1. PICK r \in R : x = <<r < 0, r>>
        BY <1>3 DEF Results
  <2>2. Outcome(op, r, n)
    <3>1. CASE op = "UpdateLocalUsers"
          BY <3>1 DEF Outcome
    <3>2. CASE op = "readdir"
          BY <3>2 DEF Outcome
    <3>3. CASE op = "readlink"
          BY <1>1, <3>3 DEF Outcome
    <3>4. CASE op \in {"read", "write"}
          BY <1>1, <3>4 DEF Outcome
    <3>5. CASE op \notin {"UpdateLocalUsers", "readdir", "readlink", "read", "write"}
      <4>1. R = {-1, 1} \/ R = {-1, 0}
            BY <3>5
      <4>2. r \in Int
            BY <4>1
      <4> QED BY <3>5, <4>2 DEF Outcome
    <3> QED BY <3>1, <3>2, <3>3, <3>4, <3>5
  <2>3. x[1] = (r < 0) /\ x[2] = r
        BY <2>1
  <2>4. x[1] \in BOOLEAN /\ (x[1] <=> r < 0)
    <3>1. CASE r < 0
      <4>1. x[1] = TRUE
            BY <2>3, <3>1
      <4> QED BY <3>1, <4>1
    <3>2. CASE ~ (r < 0)
      <4>1. (r < 0) = FALSE
            BY <3>2
      <4>2. x[1] = FALSE
            BY ONLY <2>3, <4>1, Zenon
      <4> QED BY <3>2, <4>2
    <3> QED BY <3>1, <3>2
  <2>5. x[2] = r
        BY <2>3
  <2> QED BY <2>2, <2>4, <2>5
<1> QED BY <1>2, <1>3

LEMMA ReturnedFails ==
  ASSUME NEW op, op \notin {"readdir", "readlink", "UpdateLocalUsers"}, NEW r \in Int
  PROVE  Returned(op, r) < 0 <=> r < 0
BY DEF Returned

-----------------------------------------------------------------------------
(* The invariant: where a conversation is, and what is under way there.    *)
(* At any time one side at most has bytes to read, and they are a letter   *)
(* that tells it what the other wanted to say.                             *)
Starts(todo) == todo # <<>> /\ todo[1].by = "none" /\ todo[1].w \in Nat \ {0}
Context      == IF cpc = "args" THEN call.op ELSE cpc
OpcodeReads  == << Fix("opcode", 2) >>

\* the client waits for an answer at p, and the worker reads at w
Waiting(p, todo) == cpc = p /\ cTodo = todo /\ Starts(todo) /\ cGot = <<>> /\ toC = <<>>
Hears(w, V, D)   == wst = w /\ Letter(wTodo, wGot, toS, w, V, D)
Met              == call = NoCall
Called           == call \in Calls

\* the code comes first
Begins(c) ==
  IF wGot = <<>> THEN wTodo = Code /\ toS # <<>> /\ toS[1][4] = c ELSE wGot[1].v = c

HelloSent    == Met /\ Waiting("hello", Code) /\ Hears("WaitingForHello", {<<"code", Hello>>}, {}) /\ Begins(Hello)
RegisterSent == Waiting("register", Code) /\ Hears("WaitingForHello", {<<"code", Register>>}, {}) /\ Begins(Register)
ShareSent    == Met /\ Waiting("share", Code) /\ Hears("WaitingForShare", {}, {})
OpSent       == /\ Called /\ Waiting("op", Code)
                /\ \E i : Operations[i] = call.op /\ Hears("WaitingForOperation", {<<"opcode", i>>}, {})
ArgsSent     == /\ Called /\ Waiting("args", ClientReads(call.op)) /\ wop = call.op
                /\ Hears("InOperation", Told(call), Unmet(call))
EmailSent    == Waiting("regAuth", Code) /\ Hears("registerAuth", {}, UnmetEmail(call.p))
ComputerSent == Waiting("regInfo", Code) /\ Hears("registerInfo", {}, {})
WorkersTurn  == HelloSent \/ RegisterSent \/ ShareSent \/ OpSent \/ ArgsSent \/ EmailSent \/ ComputerSent

\* the worker waits for a request at w, and the client reads at p
Awaits(w, todo) == wst = w /\ wTodo = todo /\ Starts(todo) /\ wGot = <<>> /\ toS = <<>>
Closed          == wst = "closed" /\ wTodo = <<>>
Learns(p, V, D) == cpc = p /\ Letter(cTodo, cGot, toC, Context, V, D)

Greeted       == Met /\ Learns("hello", {<<"code", Hello>>}, {}) /\ Awaits("WaitingForShare", Code)
ShareGiven    == Met /\ Learns("share", {<<"code", OK>>}, {}) /\ Awaits("WaitingForOperation", OpcodeReads)
OpTaken       == /\ Called /\ Learns("op", {<<"code", OK>>}, {}) /\ wop = call.op
                 /\ Awaits("InOperation", WorkerReads(call.op))
Replied       == /\ Called /\ Awaits("WaitingForOperation", OpcodeReads)
                 /\ \E r \in Int : /\ Learns("args", Tells(call.op, r), UnmetLink(call.op))
                                   /\ failed <=> r < 0
MayRegister   == Learns("register", {<<"code", OK>>}, {}) /\ Awaits("registerAuth", EmailReads)
Authenticated == Learns("regAuth", {<<"code", OK>>}, {}) /\ Awaits("registerInfo", ComputerReads)
Filed         == Learns("regInfo", {<<"code", OK>>}, {}) /\ Closed
TurnedDown    == /\ cpc \in {"hello", "share", "regAuth", "regInfo"}
                 /\ Learns(cpc, {<<"code", Error>>}, {}) /\ Closed
ClientsTurn   == \/ Greeted \/ ShareGiven \/ OpTaken \/ Replied \/ MayRegister \/ Authenticated
                 \/ Filed \/ TurnedDown

AtRest(p) == cpc = p /\ cTodo = <<>> /\ toC = <<>>
AtStart   == Met /\ AtRest("start") /\ Awaits("WaitingForHello", Code)
AtIdle    == /\ Met \/ Called
             /\ AtRest("idle") /\ Awaits("WaitingForOperation", OpcodeReads) /\ ErrorsReported
AtEnd     == cpc \in {"refused", "registered"} /\ AtRest(cpc) /\ Closed
NobodysTurn == AtStart \/ AtIdle \/ AtEnd

Phase == WorkersTurn \/ ClientsTurn \/ NobodysTurn
Inv   == IF lost = "none" THEN Phase ELSE cpc # "idle" /\ OnlyWideTextsLoseStep

-----------------------------------------------------------------------------
(* What is to be read begins with a field of fixed width, so nobody reads  *)
(* while no byte is under way.                                             *)
LEMMA NotEnough ==
  ASSUME NEW todo, Starts(todo), NEW got
  PROVE  ~ Enough(<<>>, todo[1], got)
<1>1. Width(todo[1], got) \in Nat \ {0}
      BY DEF Starts, Width
<1>2. Len(<<>>) = 0
      OBVIOUS
<1> QED BY <1>1, <1>2 DEF Enough

LEMMA StartsMore ==
  ASSUME NEW x \in Seq(Items), Starts(x), NEW y \in Seq(Items)
  PROVE  Starts(x \o y) /\ x \o y \in Seq(Items)
<1>1. Len(x) \in Nat /\ Len(x) # 0
      BY EmptySeq DEF Starts
<1>2. x \o y \in Seq(Items) /\ Len(x \o y) = Len(x) + Len(y) /\ (x \o y)[1] = x[1] /\ Len(y) \in Nat
      BY <1>1
<1>3. x \o y # <<>>
      BY <1>1, <1>2
<1> QED BY <1>2, <1>3 DEF Starts

LEMMA StartsText ==
  ASSUME NEW l \in Labels, NEW f \in Labels
  PROVE  Starts(ReadText(l, f, 4)) /\ ReadText(l, f, 4) \in Seq(Items)
<1> DEFINE a == Fix(l, 4)
           b == Var(f, l)
           t == ReadText(l, f, 4)
<1>1. a \in Items /\ b \in Items /\ a.by = "none" /\ a.w = 4
      BY OpeningParts DEF Fix
<1>2. t = <<a, b>>
      BY DEF ReadText
<1> HIDE DEF a, b, t
<1>3. t \in Seq(Items) /\ t # <<>> /\ t[1] = a
      BY <1>1, <1>2
<1>4. t[1].by = "none" /\ t[1].w \in Nat \ {0}
      BY <1>1, <1>3
<1>5. Starts(t)
      BY <1>3, <1>4 DEF Starts
<1> QED BY <1>3, <1>5 DEF t

LEMMA StartsCode ==
  Starts(Code) /\ Starts(OpcodeReads) /\ Starts(EmailReads) /\ Starts(ComputerReads)
<1>1. Starts(Code) /\ Starts(OpcodeReads)
      BY DEF Starts, Code, OpcodeReads, Fix
<1> DEFINE a == ReadText("emailLen", "email", 4)
           b == ReadText("passLen", "pass", 4)
           c == ReadText("nameLen", "name", 4)
           d == ReadText("sysInfoLen", "sysInfo", 4)
           e == ReadText("certLen", "cert", 4)
<1>2. /\ Starts(a) /\ a \in Seq(Items) /\ b \in Seq(Items) /\ Starts(c) /\ c \in Seq(Items)
      /\ d \in Seq(Items) /\ e \in Seq(Items)
      BY StartsText, LabelNames
<1>3. EmailReads = a \o b /\ ComputerReads = (c \o d) \o e
      BY DEF EmailReads, ComputerReads
<1> HIDE DEF a, b, c, d, e
<1>4. Starts(a \o b) /\ Starts(c \o d) /\ c \o d \in Seq(Items)
      BY <1>2, StartsMore
<1>5. Starts((c \o d) \o e)
      BY <1>2, <1>4, StartsMore
<1> QED BY <1>1, <1>3, <1>4, <1>5

LEMMA StartsOpening ==
  /\ Starts(Opening(2)) /\ Opening(2) \in Seq(Items)
  /\ Starts(Opening(4)) /\ Opening(4) \in Seq(Items)
<1>1. ASSUME NEW w \in {2, 4} PROVE Starts(Opening(w))
  <2> DEFINE u == Fix("uid", 4)
             a == Fix("pathLen", w)
             b == Var("path", "pathLen")
  <2>1. u \in Items /\ a \in Items /\ b \in Items /\ u.by = "none" /\ u.w = 4
    <3>1. w \in Nat \ {0}
          OBVIOUS
    <3> QED BY <3>1, OpeningParts, LabelNames, NumbField DEF Fix
  <2>2. Opening(w) = << u >> \o << a, b >>
        BY DEF Opening, ReadText
  <2> HIDE DEF u, a, b
  <2>3. <<u>> \in Seq(Items) /\ Starts(<<u>>) /\ <<a, b>> \in Seq(Items)
        BY <2>1 DEF Starts
  <2> QED BY <2>2, <2>3, StartsMore
<1> QED BY <1>1, OpeningParts

LEMMA StartsArgs == ASSUME NEW op \in OpNames PROVE Starts(WorkerReads(op))
<1> DEFINE h == Opening(2)
<1>1. Starts(h) /\ h \in Seq(Items) /\ h = << Fix("uid", 4) >> \o ReadText("pathLen", "path", 2)
      BY StartsOpening DEF Opening
<1>2. /\ Fix("flags", 4) \in Items /\ Fix("mask", 4) \in Items /\ Fix("bufsize", 4) \in Items
      /\ Fix("mode", 4) \in Items /\ Fix("owner", 4) \in Items /\ Fix("group", 4) \in Items
      /\ Fix("length", 4) \in Items /\ Fix("asec", 8) \in Items /\ Fix("ansec", 8) \in Items
      /\ Fix("msec", 8) \in Items /\ Fix("mnsec", 8) \in Items /\ Fix("fd", 4) \in Items
      /\ Fix("size", 8) \in Items /\ Fix("offset", 8) \in Items /\ Var("data", "size") \in Items
      BY OpeningParts, LabelNames
<1>3. ReadText("path2Len", "path2", 2) \in Seq(Items)
  <2>1. Fix("path2Len", 2) \in Items /\ Var("path2", "path2Len") \in Items
    <3>1. 2 \in Nat \ {0}
          OBVIOUS
    <3> QED BY <3>1, OpeningParts, LabelNames, NumbField
  <2> QED BY ONLY <2>1, Two DEF ReadText
<1> HIDE DEF h
<1>4. \A y \in Seq(Items) : Starts(h \o y)
      BY <1>1, StartsMore
<1>5. CASE op = "getattr"
      BY <1>5, StartsOpening DEF WorkerReads, Opening
<1>6. CASE op \in {"readdir", "unlink", "rmdir", "statfs"}
      BY <1>1, <1>6 DEF WorkerReads
<1>7. CASE op = "open"
  <2>1. << Fix("flags", 4) >> \in Seq(Items) /\ WorkerReads(op) = h \o << Fix("flags", 4) >>
        BY <1>1, <1>2, <1>7 DEF WorkerReads
  <2> QED BY <1>4, <2>1
<1>8. CASE op = "access"
  <2>1. << Fix("mask", 4) >> \in Seq(Items) /\ WorkerReads(op) = h \o << Fix("mask", 4) >>
        BY <1>1, <1>2, <1>8 DEF WorkerReads
  <2> QED BY <1>4, <2>1
<1>9. CASE op = "readlink"
  <2>1. << Fix("bufsize", 4) >> \in Seq(Items) /\ WorkerReads(op) = h \o << Fix("bufsize", 4) >>
        BY <1>1, <1>2, <1>9 DEF WorkerReads
  <2> QED BY <1>4, <2>1
<1>10. CASE op \in {"mknod", "mkdir", "chmod"}
  <2>1. << Fix("mode", 4) >> \in Seq(Items) /\ WorkerReads(op) = h \o << Fix("mode", 4) >>
        BY <1>1, <1>2, <1>10 DEF WorkerReads
  <2> QED BY <1>4, <2>1
<1>11. CASE op = "chown"
  <2> DEFINE y == << Fix("owner", 4), Fix("group", 4) >>
  <2>1. y \in Seq(Items) /\ WorkerReads(op) = h \o y
        BY <1>1, <1>2, <1>11 DEF WorkerReads
  <2> HIDE DEF y
  <2> QED BY <1>4, <2>1
<1>12. CASE op = "truncate"
  <2>1. << Fix("length", 4) >> \in Seq(Items) /\ WorkerReads(op) = h \o << Fix("length", 4) >>
        BY <1>1, <1>2, <1>12 DEF WorkerReads
  <2> QED BY <1>4, <2>1
<1>13. CASE op = "utimens"
  <2> DEFINE y == << Fix("asec", 8), Fix("ansec", 8), Fix("msec", 8), Fix("mnsec", 8) >>
  <2>1. y \in Seq(Items) /\ WorkerReads(op) = h \o y
        BY <1>1, <1>2, <1>13 DEF WorkerReads
  <2> HIDE DEF y
  <2> QED BY <1>4, <2>1
<1>14. CASE op = "release"
  <2>1. << Fix("fd", 4) >> \in Seq(Items) /\ WorkerReads(op) = h \o << Fix("fd", 4) >>
        BY <1>1, <1>2, <1>14 DEF WorkerReads
  <2> QED BY <1>4, <2>1
<1>15. CASE op = "read"
  <2> DEFINE y == << Fix("fd", 4), Fix("size", 8), Fix("offset", 8) >>
  <2>1. y \in Seq(Items) /\ WorkerReads(op) = h \o y
        BY <1>1, <1>2, <1>15 DEF WorkerReads
  <2> HIDE DEF y
  <2> QED BY <1>4, <2>1
<1>16. CASE op = "write"
  <2> DEFINE y == << Fix("fd", 4), Fix("size", 8), Fix("offset", 8), Var("data", "size") >>
  <2>1. y \in Seq(Items) /\ WorkerReads(op) = h \o y
        BY <1>1, <1>2, <1>16 DEF WorkerReads
  <2> HIDE DEF y
  <2> QED BY <1>4, <2>1
<1>17. CASE op = "writebulk"
      BY <1>17 DEF WorkerReads, Starts, Fix
<1>18. CASE op \in {"symlink", "rename"}
  <2>1. WorkerReads(op) = h \o ReadText("path2Len", "path2", 2)
        BY <1>1, <1>18 DEF WorkerReads
  <2> QED BY <1>3, <1>4, <2>1
<1>19. CASE op = "UpdateLocalUsers"
      BY <1>19 DEF WorkerReads, Starts, Fix
<1> QED BY <1>5, <1>6, <1>7, <1>8, <1>9, <1>10, <1>11, <1>12, <1>13, <1>14, <1>15, <1>16, <1>17,
           <1>18, <1>19 DEF OpNames

LEMMA StartsReply == ASSUME NEW op \in OpNames PROVE Starts(ClientReads(op))
BY StatTyped DEF ClientReads, Starts, Fix

LEMMA LetterAlone ==
  ASSUME NEW todo, NEW got, NEW s, NEW op, NEW V, NEW D, Letter(todo, got, s, op, V, D)
  PROVE  <<>> \o s = s /\ s \in Seq(Bytes) /\ got \in Seq(Known)
<1>1. PICK P : Reading(todo, got, s, op, P)
      BY DEF Letter
<1>2. s \in Seq(Bytes) /\ got \in Seq(Known)
      BY <1>1 DEF Reading, Spells
<1> QED BY <1>2, ConcatEmptySeq

LEMMA LetterLess ==
  ASSUME NEW todo, NEW got, NEW s, NEW op, NEW V, NEW D, Letter(todo, got, s, op, V, D)
  PROVE  Letter(todo, got, s, op, {}, D)
BY DEF Letter

(* One read of the worker, and one of the client.                          *)
LEMMA WorkerHears ==
  ASSUME WorkerRead, NEW V, NEW D, Letter(wTodo, wGot, toS, wst, V, D)
  PROVE  \/ lost' = lost /\ Letter(wTodo', wGot', toS', wst, V, D)
         \/ lost' = (IF wst = "InOperation" THEN wop ELSE wst) /\ D # {}
<1> DEFINE it == wTodo[1]
           v == Value(toS, it, wGot)
<1>1. wTodo # <<>>
      BY DEF WorkerRead
<1>2. /\ Meant(toS, it, wGot) =>
           Letter(Loops(it.f, v, wst) \o Tail(wTodo), Append(wGot, [f |-> it.f, v |-> v]),
                  Rest(toS, it, wGot), wst, V, D)
      /\ ~ Meant(toS, it, wGot) => it \in D
      BY <1>1, LetterRead
<1>3. CASE Meant(toS, it, wGot)
  <2>1. /\ wGot' = Append(wGot, [f |-> it.f, v |-> v]) /\ wTodo' = Loops(it.f, v, wst) \o Tail(wTodo)
        /\ toS' = Rest(toS, it, wGot) /\ lost' = lost
        BY <1>3 DEF WorkerRead
  <2> QED BY <1>2, <1>3, <2>1
<1>4. CASE ~ Meant(toS, it, wGot)
  <2>1. lost' = (IF wst = "InOperation" THEN wop ELSE wst)
        BY <1>4 DEF WorkerRead
  <2> QED BY <1>2, <1>4, <2>1
<1> QED BY <1>3, <1>4

LEMMA ClientLearns ==
  ASSUME ClientRead, NEW V, NEW D, Letter(cTodo, cGot, toC, Context, V, D)
  PROVE  \/ lost' = lost /\ Letter(cTodo', cGot', toC', Context, V, D)
         \/ /\ lost' = Context /\ cGot' = cGot /\ toC' = toC
            /\ \E it \in D : toC[1][1] = it.f /\ Width(it, cGot) < toC[1][3]
<1> DEFINE it == cTodo[1]
           v == Value(toC, it, cGot)
<1>1. cTodo # <<>>
      BY DEF ClientRead
<1>2. /\ Meant(toC, it, cGot) =>
           Letter(Loops(it.f, v, Context) \o Tail(cTodo), Append(cGot, [f |-> it.f, v |-> v]),
                  Rest(toC, it, cGot), Context, V, D)
      /\ ~ Meant(toC, it, cGot) => it \in D /\ toC[1][1] = it.f /\ Width(it, cGot) < toC[1][3]
      BY <1>1, LetterRead
<1>3. CASE Meant(toC, it, cGot)
  <2>1. /\ cGot' = Append(cGot, [f |-> it.f, v |-> v]) /\ cTodo' = Loops(it.f, v, Context) \o Tail(cTodo)
        /\ toC' = Rest(toC, it, cGot) /\ lost' = lost
        BY <1>3 DEF ClientRead, Context
  <2> QED BY <1>2, <1>3, <2>1
<1>4. CASE ~ Meant(toC, it, cGot)
  <2>1. lost' = Context /\ cGot' = cGot /\ toC' = toC
        BY <1>4 DEF ClientRead, Context
  <2> QED BY <1>2, <1>4, <2>1
<1> QED BY <1>3, <1>4

LEMMA StillBegins ==
  ASSUME WorkerRead, lost' = lost, NEW c, Begins(c), NEW V, Letter(wTodo, wGot, toS, wst, V, {})
  PROVE  Begins(c)'
<1> DEFINE it == wTodo[1]
           v == Value(toS, it, wGot)
           x == [f |-> it.f, v |-> v]
<1>1. lost = "none" /\ wTodo # <<>>
      BY DEF WorkerRead
<1>2. Meant(toS, it, wGot)
  <2> DEFINE D == {}
  <2>1. Letter(wTodo, wGot, toS, wst, V, D)
        OBVIOUS
  <2> HIDE DEF D
  <2>2. ~ Meant(toS, it, wGot) => it \in D
        BY <1>1, <2>1, LetterRead
  <2> QED BY <2>2 DEF D
<1>3. wGot' = Append(wGot, x)
      BY <1>2 DEF WorkerRead
<1>4. wGot \in Seq(Known)
      BY LetterAlone
<1>5. CASE wGot = <<>>
  <2>1. it = Fix("code", 1) /\ toS[1][4] = c
        BY <1>5 DEF Begins, Code
  <2>2. Width(it, wGot) = 1
        BY <2>1 DEF Width, Fix
  <2>3. v = c
        BY <2>1, <2>2 DEF Value
  <2>4. x.v = c
        BY <2>3
  <2> HIDE DEF x
  <2>5. wGot' # <<>> /\ wGot'[1] = x
        BY <1>3, <1>5
  <2> QED BY <2>4, <2>5 DEF Begins
<1>6. CASE wGot # <<>>
  <2>1. Len(wGot) \in Nat /\ Len(wGot) # 0
        BY <1>4, <1>6, EmptySeq
  <2> HIDE DEF x
  <2>2. wGot' # <<>> /\ wGot'[1] = wGot[1]
        BY <1>3, <1>4, <2>1
  <2> QED BY <1>6, <2>2 DEF Begins
<1> QED BY <1>5, <1>6

-----------------------------------------------------------------------------
(* Where the conversation is when one of the two acts.                     *)
USE DEF Waiting, Awaits, Starts, Learns, Hears, AtRest, Closed, Met, Called

LEMMA WhereClient ==
  ASSUME Phase
  PROVE  /\ cpc = "start" => AtStart
         /\ cpc = "idle" => AtIdle
         /\ cTodo = <<>> =>
              /\ cpc = "hello" => Greeted \/ TurnedDown
              /\ cpc = "share" => ShareGiven \/ TurnedDown
              /\ cpc = "op" => OpTaken
              /\ cpc = "args" => Replied
              /\ cpc = "register" => MayRegister
              /\ cpc = "regAuth" => Authenticated \/ TurnedDown
              /\ cpc = "regInfo" => Filed \/ TurnedDown
<1>1. /\ HelloSent => cpc = "hello" /\ cTodo # <<>>
      /\ RegisterSent => cpc = "register" /\ cTodo # <<>>
      /\ ShareSent => cpc = "share" /\ cTodo # <<>>
      /\ OpSent => cpc = "op" /\ cTodo # <<>>
      /\ ArgsSent => cpc = "args" /\ cTodo # <<>>
      /\ EmailSent => cpc = "regAuth" /\ cTodo # <<>>
      /\ ComputerSent => cpc = "regInfo" /\ cTodo # <<>>
      BY DEF HelloSent, RegisterSent, ShareSent, OpSent, ArgsSent, EmailSent, ComputerSent
<1>2. /\ Greeted => cpc = "hello"
      /\ ShareGiven => cpc = "share"
      /\ OpTaken => cpc = "op"
      /\ Replied => cpc = "args"
      /\ MayRegister => cpc = "register"
      /\ Authenticated => cpc = "regAuth"
      /\ Filed => cpc = "regInfo"
      /\ TurnedDown => cpc \in {"hello", "share", "regAuth", "regInfo"}
      BY DEF Greeted, ShareGiven, OpTaken, Replied, MayRegister, Authenticated, Filed, TurnedDown
<1>3. /\ AtStart => cpc = "start"
      /\ AtIdle => cpc = "idle"
      /\ AtEnd => cpc \in {"refused", "registered"}
      BY DEF AtStart, AtIdle, AtEnd
<1>4. \/ HelloSent \/ RegisterSent \/ ShareSent \/ OpSent \/ ArgsSent \/ EmailSent \/ ComputerSent
      \/ Greeted \/ ShareGiven \/ OpTaken \/ Replied \/ MayRegister \/ Authenticated
      \/ Filed \/ TurnedDown \/ AtStart \/ AtIdle \/ AtEnd
      BY DEF Phase, WorkersTurn, ClientsTurn, NobodysTurn
<1> QED BY ONLY <1>1, <1>2, <1>3, <1>4

LEMMA WhereWorker ==
  ASSUME Phase
  PROVE  /\ wst = "WaitingForHello" /\ wGot # <<>> => HelloSent \/ RegisterSent
         /\ wTodo = <<>> =>
              /\ wst = "WaitingForHello" => HelloSent \/ RegisterSent
              /\ wst = "WaitingForShare" => ShareSent
              /\ wst = "WaitingForOperation" => OpSent
              /\ wst = "InOperation" => ArgsSent
              /\ wst = "registerAuth" => EmailSent
              /\ wst = "registerInfo" => ComputerSent
<1>1. /\ HelloSent => wst = "WaitingForHello"
      /\ RegisterSent => wst = "WaitingForHello"
      /\ ShareSent => wst = "WaitingForShare"
      /\ OpSent => wst = "WaitingForOperation"
      /\ ArgsSent => wst = "InOperation"
      /\ EmailSent => wst = "registerAuth"
      /\ ComputerSent => wst = "registerInfo"
      BY DEF HelloSent, RegisterSent, ShareSent, OpSent, ArgsSent, EmailSent, ComputerSent
<1>2. /\ Greeted => wst = "WaitingForShare" /\ wTodo # <<>>
      /\ ShareGiven => wst = "WaitingForOperation" /\ wTodo # <<>>
      /\ OpTaken => wst = "InOperation" /\ wTodo # <<>>
      /\ Replied => wst = "WaitingForOperation" /\ wTodo # <<>>
      /\ MayRegister => wst = "registerAuth" /\ wTodo # <<>>
      /\ Authenticated => wst = "registerInfo" /\ wTodo # <<>>
      /\ Filed => wst = "closed"
      /\ TurnedDown => wst = "closed"
      BY DEF Greeted, ShareGiven, OpTaken, Replied, MayRegister, Authenticated, Filed, TurnedDown
<1>3. /\ AtStart => wst = "WaitingForHello" /\ wTodo # <<>> /\ wGot = <<>>
      /\ AtIdle => wst = "WaitingForOperation" /\ wTodo # <<>>
      /\ AtEnd => wst = "closed"
      BY DEF AtStart, AtIdle, AtEnd
<1>4. \/ HelloSent \/ RegisterSent \/ ShareSent \/ OpSent \/ ArgsSent \/ EmailSent \/ ComputerSent
      \/ Greeted \/ ShareGiven \/ OpTaken \/ Replied \/ MayRegister \/ Authenticated
      \/ Filed \/ TurnedDown \/ AtStart \/ AtIdle \/ AtEnd
      BY DEF Phase, WorkersTurn, ClientsTurn, NobodysTurn
<1> QED BY ONLY <1>1, <1>2, <1>3, <1>4

LEMMA WhoReads ==
  ASSUME Phase
  PROVE  /\ WorkerRead => WorkersTurn
         /\ ClientRead => ClientsTurn
<1>1. /\ ClientsTurn \/ NobodysTurn => ~ WorkerRead
  <2>1. ASSUME ClientsTurn \/ NobodysTurn, WorkerRead PROVE FALSE
    <3>1. wTodo # <<>> /\ Enough(toS, wTodo[1], wGot)
          BY <2>1 DEF WorkerRead
    <3>2. toS = <<>> /\ Starts(wTodo)
          BY <2>1, <3>1 DEF ClientsTurn, NobodysTurn, Greeted, ShareGiven, OpTaken, Replied, MayRegister,
                            Authenticated, Filed, TurnedDown, AtStart, AtIdle, AtEnd
    <3> HIDE DEF Starts
    <3> QED BY <3>1, <3>2, NotEnough
  <2> QED BY <2>1
<1>2. /\ WorkersTurn \/ NobodysTurn => ~ ClientRead
  <2>1. ASSUME WorkersTurn \/ NobodysTurn, ClientRead PROVE FALSE
    <3>1. cTodo # <<>> /\ Enough(toC, cTodo[1], cGot)
          BY <2>1 DEF ClientRead
    <3>2. toC = <<>> /\ Starts(cTodo)
          BY <2>1, <3>1 DEF WorkersTurn, NobodysTurn, HelloSent, RegisterSent, ShareSent, OpSent, ArgsSent,
                            EmailSent, ComputerSent, AtStart, AtIdle, AtEnd
    <3> HIDE DEF Starts
    <3> QED BY <3>1, <3>2, NotEnough
  <2> QED BY <2>1
<1> QED BY <1>1, <1>2 DEF Phase

(* A side that has read all has been told what the other said.             *)
LEMMA HeardAll ==
  ASSUME NEW w, NEW V, NEW D, Hears(w, V, D), wTodo = <<>>
  PROVE  toS = <<>> /\ \A x \in V : Latest(wGot, x[1]) = x[2]
<1>1. Letter(<<>>, wGot, toS, w, V, D)
      OBVIOUS
<1> QED BY <1>1, LetterEnd

LEMMA LearntAll ==
  ASSUME NEW p, NEW V, NEW D, Learns(p, V, D), cTodo = <<>>
  PROVE  toC = <<>> /\ \A x \in V : Latest(cGot, x[1]) = x[2]
<1>1. Letter(<<>>, cGot, toC, Context, V, D)
      OBVIOUS
<1> QED BY <1>1, LetterEnd

LEMMA LearntCode ==
  ASSUME NEW p, NEW v, NEW D, Learns(p, {<<"code", v>>}, D), cTodo = <<>>
  PROVE  toC = <<>> /\ Latest(cGot, "code") = v
<1> DEFINE x == <<"code", v>>
           V == {x}
<1>1. Learns(p, V, D) /\ x \in V /\ x[1] = "code" /\ x[2] = v
      OBVIOUS
<1> HIDE DEF V, x
<1>2. toC = <<>> /\ Latest(cGot, x[1]) = x[2]
      BY <1>1, LearntAll
<1> QED BY <1>1, <1>2

-----------------------------------------------------------------------------
(* The invariant is kept: the reads.                                       *)
LEMMA WorkerReadKeeps ==
  ASSUME Phase, lost = "none", WorkerRead
  PROVE  Inv'
<1>1. /\ toC' = toC /\ cpc' = cpc /\ call' = call /\ cTodo' = cTodo /\ cGot' = cGot
      /\ wst' = wst /\ wop' = wop
      BY DEF WorkerRead
<1>2. ASSUME NEW V, Letter(wTodo, wGot, toS, wst, V, {})
      PROVE  lost' = "none" /\ Letter(wTodo', wGot', toS', wst', V, {})
  <2> DEFINE D == {}
  <2>1. Letter(wTodo, wGot, toS, wst, V, D)
        BY <1>2
  <2> HIDE DEF D
  <2>2. \/ lost' = lost /\ Letter(wTodo', wGot', toS', wst, V, D)
        \/ D # {}
        BY <2>1, WorkerHears
  <2> QED BY <1>1, <2>2 DEF D
<1>3. ASSUME Phase' , lost' = "none" PROVE Inv'
      BY <1>3 DEF Inv
<1>4. CASE HelloSent
  <2> DEFINE V == {<<"code", Hello>>}
  <2>1. Letter(wTodo, wGot, toS, wst, V, {}) /\ Begins(Hello)
        BY <1>4 DEF HelloSent
  <2> HIDE DEF V
  <2>2. lost' = "none" /\ Letter(wTodo', wGot', toS', wst', V, {})
        BY <1>2, <2>1
  <2>3. Begins(Hello)'
    <3>1. lost' = lost
          BY <2>2
    <3> QED BY <2>1, <3>1, StillBegins
  <2>4. HelloSent'
        BY <1>1, <1>4, <2>2, <2>3 DEF HelloSent, V
  <2> QED BY <1>3, <2>2, <2>4 DEF Phase, WorkersTurn
<1>5. CASE RegisterSent
  <2> DEFINE V == {<<"code", Register>>}
  <2>1. Letter(wTodo, wGot, toS, wst, V, {}) /\ Begins(Register)
        BY <1>5 DEF RegisterSent
  <2> HIDE DEF V
  <2>2. lost' = "none" /\ Letter(wTodo', wGot', toS', wst', V, {})
        BY <1>2, <2>1
  <2>3. Begins(Register)'
    <3>1. lost' = lost
          BY <2>2
    <3> QED BY <2>1, <3>1, StillBegins
  <2>4. RegisterSent'
        BY <1>1, <1>5, <2>2, <2>3 DEF RegisterSent, V
  <2> QED BY <1>3, <2>2, <2>4 DEF Phase, WorkersTurn
<1>6. CASE ShareSent
  <2>1. Letter(wTodo, wGot, toS, wst, {}, {})
        BY <1>6 DEF ShareSent
  <2>2. lost' = "none" /\ Letter(wTodo', wGot', toS', wst', {}, {})
        BY <1>2, <2>1
  <2>3. ShareSent'
        BY <1>1, <1>6, <2>2 DEF ShareSent
  <2> QED BY <1>3, <2>2, <2>3 DEF Phase, WorkersTurn
<1>7. CASE OpSent
  <2>1. PICK i : Operations[i] = call.op /\ Hears("WaitingForOperation", {<<"opcode", i>>}, {})
        BY <1>7 DEF OpSent
  <2> DEFINE V == {<<"opcode", i>>}
  <2>2. Letter(wTodo, wGot, toS, wst, V, {})
        BY <2>1
  <2> HIDE DEF V
  <2>3. lost' = "none" /\ Letter(wTodo', wGot', toS', wst', V, {})
        BY <1>2, <2>2
  <2>4. Operations[i] = call'.op /\ Hears("WaitingForOperation", {<<"opcode", i>>}, {})'
        BY <1>1, <2>1, <2>3 DEF V
  <2>5. OpSent'
        BY <1>1, <1>7, <2>4 DEF OpSent
  <2> QED BY <1>3, <2>3, <2>5 DEF Phase, WorkersTurn
<1>8. CASE ArgsSent
  <2>1. Letter(wTodo, wGot, toS, wst, Told(call), Unmet(call)) /\ wst = "InOperation" /\ wop = call.op
        BY <1>8 DEF ArgsSent
  <2>2. CASE lost' = lost /\ Letter(wTodo', wGot', toS', wst, Told(call), Unmet(call))
    <3>1. Letter(wTodo', wGot', toS', wst', Told(call'), Unmet(call'))
          BY <1>1, <2>2
    <3>2. ArgsSent'
          BY <1>1, <1>8, <3>1 DEF ArgsSent
    <3> QED BY <1>3, <2>2, <3>2 DEF Phase, WorkersTurn
  <2>3. CASE lost' = (IF wst = "InOperation" THEN wop ELSE wst) /\ Unmet(call) # {}
    <3>1. call.op = "writebulk" /\ \E i \in DOMAIN call.batch : Wide(call.batch[i])
          BY <2>3 DEF Unmet
    <3>2. lost' = "writebulk" /\ cpc' = "args"
          BY <1>1, <1>8, <2>1, <2>3, <3>1 DEF ArgsSent
    <3>3. \E i \in DOMAIN call'.batch : Wide(call'.batch[i])
          BY <1>1, <3>1
    <3>4. OnlyWideTextsLoseStep'
          BY <3>2, <3>3 DEF OnlyWideTextsLoseStep
    <3> QED BY <3>2, <3>4 DEF Inv
  <2> QED BY <2>1, <2>2, <2>3, WorkerHears
<1>9. CASE EmailSent
  <2>1. Letter(wTodo, wGot, toS, wst, {}, UnmetEmail(call.p)) /\ wst = "registerAuth"
        BY <1>9 DEF EmailSent
  <2>2. CASE lost' = lost /\ Letter(wTodo', wGot', toS', wst, {}, UnmetEmail(call.p))
    <3>1. Letter(wTodo', wGot', toS', wst', {}, UnmetEmail(call'.p))
          BY <1>1, <2>2
    <3>2. EmailSent'
          BY <1>1, <1>9, <3>1 DEF EmailSent
    <3> QED BY <1>3, <2>2, <3>2 DEF Phase, WorkersTurn
  <2>3. CASE lost' = (IF wst = "InOperation" THEN wop ELSE wst) /\ UnmetEmail(call.p) # {}
    <3>1. Wide(call.p)
          BY <2>3 DEF UnmetEmail
    <3>2. lost' = "registerAuth" /\ cpc' = "regAuth"
          BY <1>1, <1>9, <2>1, <2>3 DEF EmailSent
    <3>3. OnlyWideTextsLoseStep'
          BY <1>1, <3>1, <3>2 DEF OnlyWideTextsLoseStep
    <3> QED BY <3>2, <3>3 DEF Inv
  <2> QED BY <2>1, <2>2, <2>3, WorkerHears
<1>10. CASE ComputerSent
  <2>1. Letter(wTodo, wGot, toS, wst, {}, {})
        BY <1>10 DEF ComputerSent
  <2>2. lost' = "none" /\ Letter(wTodo', wGot', toS', wst', {}, {})
        BY <1>2, <2>1
  <2>3. ComputerSent'
        BY <1>1, <1>10, <2>2 DEF ComputerSent
  <2> QED BY <1>3, <2>2, <2>3 DEF Phase, WorkersTurn
<1> QED BY WhoReads, <1>4, <1>5, <1>6, <1>7, <1>8, <1>9, <1>10 DEF WorkersTurn

LEMMA ClientReadKeeps ==
  ASSUME Phase, lost = "none", ClientRead
  PROVE  Inv'
<1>1. /\ toS' = toS /\ cpc' = cpc /\ call' = call /\ wTodo' = wTodo /\ wGot' = wGot
      /\ wst' = wst /\ wop' = wop /\ failed' = failed
      BY DEF ClientRead
<1>2. Context' = Context
      BY <1>1 DEF Context
<1>3. ASSUME NEW p, NEW V, Learns(p, V, {})
      PROVE  lost' = "none" /\ Learns(p, V, {})'
  <2> DEFINE D == {}
  <2>1. Letter(cTodo, cGot, toC, Context, V, D)
        BY <1>3
  <2> HIDE DEF D
  <2>2. \/ lost' = lost /\ Letter(cTodo', cGot', toC', Context, V, D)
        \/ \E it \in D : TRUE
        BY <2>1, ClientLearns
  <2> QED BY <1>1, <1>2, <1>3, <2>2 DEF D
<1>4. ASSUME Phase', lost' = "none" PROVE Inv'
      BY <1>4 DEF Inv
<1>5. CASE Greeted
  <2>1. lost' = "none" /\ Learns("hello", {<<"code", Hello>>}, {})'
        BY <1>3, <1>5 DEF Greeted
  <2>2. Greeted'
        BY <1>1, <1>5, <2>1 DEF Greeted
  <2> QED BY <1>4, <2>1, <2>2 DEF Phase, ClientsTurn
<1>6. CASE ShareGiven
  <2>1. lost' = "none" /\ Learns("share", {<<"code", OK>>}, {})'
        BY <1>3, <1>6 DEF ShareGiven
  <2>2. ShareGiven'
        BY <1>1, <1>6, <2>1 DEF ShareGiven
  <2> QED BY <1>4, <2>1, <2>2 DEF Phase, ClientsTurn
<1>7. CASE OpTaken
  <2>1. lost' = "none" /\ Learns("op", {<<"code", OK>>}, {})'
        BY <1>3, <1>7 DEF OpTaken
  <2>2. OpTaken'
        BY <1>1, <1>7, <2>1 DEF OpTaken
  <2> QED BY <1>4, <2>1, <2>2 DEF Phase, ClientsTurn
<1>8. CASE Replied
  <2>1. PICK r \in Int : Learns("args", Tells(call.op, r), UnmetLink(call.op)) /\ (failed <=> r < 0)
        BY <1>8 DEF Replied
  <2>2. cpc = "args" /\ Context = call.op /\ Letter(cTodo, cGot, toC, Context, Tells(call.op, r), UnmetLink(call.op))
        BY <2>1 DEF Context
  <2>3. CASE lost' = lost /\ Letter(cTodo', cGot', toC', Context, Tells(call.op, r), UnmetLink(call.op))
    <3>1. Learns("args", Tells(call.op, r), UnmetLink(call.op))'
          BY <1>1, <1>2, <2>2, <2>3
    <3>2. Replied'
          BY <1>1, <1>8, <2>1, <3>1 DEF Replied
    <3> QED BY <1>4, <2>3, <3>2 DEF Phase, ClientsTurn
  <2>4. CASE /\ lost' = Context /\ cGot' = cGot /\ toC' = toC
             /\ \E it \in UnmetLink(call.op) : toC[1][1] = it.f /\ Width(it, cGot) < toC[1][3]
    <3>1. PICK it \in UnmetLink(call.op) : toC[1][1] = it.f /\ Width(it, cGot) < toC[1][3]
          BY <2>4
    <3>2. call.op = "readlink" /\ it = Var("link", "res")
          BY <3>1 DEF UnmetLink
    <3>3. it.f = "link" /\ Width(it, cGot) = Latest(cGot, "res")
          BY <3>2 DEF Var, Width
    <3>4. lost' = "readlink" /\ toC'[1][1] = "link" /\ toC'[1][3] > Latest(cGot', "res")
      <4>1. Latest(cGot, "res") < toC[1][3] => toC[1][3] > Latest(cGot, "res")
            OBVIOUS
      <4> QED BY <2>2, <2>4, <3>1, <3>2, <3>3, <4>1
    <3>5. OnlyWideTextsLoseStep'
          BY <3>4 DEF OnlyWideTextsLoseStep
    <3> QED BY <1>1, <2>2, <3>4, <3>5 DEF Inv
  <2> QED BY <2>2, <2>3, <2>4, ClientLearns
<1>9. CASE MayRegister
  <2>1. lost' = "none" /\ Learns("register", {<<"code", OK>>}, {})'
        BY <1>3, <1>9 DEF MayRegister
  <2>2. MayRegister'
        BY <1>1, <1>9, <2>1 DEF MayRegister
  <2> QED BY <1>4, <2>1, <2>2 DEF Phase, ClientsTurn
<1>10. CASE Authenticated
  <2>1. lost' = "none" /\ Learns("regAuth", {<<"code", OK>>}, {})'
        BY <1>3, <1>10 DEF Authenticated
  <2>2. Authenticated'
        BY <1>1, <1>10, <2>1 DEF Authenticated
  <2> QED BY <1>4, <2>1, <2>2 DEF Phase, ClientsTurn
<1>11. CASE Filed
  <2>1. lost' = "none" /\ Learns("regInfo", {<<"code", OK>>}, {})'
        BY <1>3, <1>11 DEF Filed
  <2>2. Filed'
        BY <1>1, <1>11, <2>1 DEF Filed
  <2> QED BY <1>4, <2>1, <2>2 DEF Phase, ClientsTurn
<1>12. CASE TurnedDown
  <2>1. lost' = "none" /\ Learns(cpc, {<<"code", Error>>}, {})'
    <3>1. PICK p : p = cpc
          OBVIOUS
    <3>2. lost' = "none" /\ Learns(p, {<<"code", Error>>}, {})'
          BY <1>3, <1>12, <3>1 DEF TurnedDown
    <3> QED BY <1>1, <3>1, <3>2
  <2>2. TurnedDown'
        BY <1>1, <1>12, <2>1 DEF TurnedDown
  <2> QED BY <1>4, <2>1, <2>2 DEF Phase, ClientsTurn
<1> QED BY WhoReads, <1>5, <1>6, <1>7, <1>8, <1>9, <1>10, <1>11, <1>12 DEF ClientsTurn

-----------------------------------------------------------------------------
(* The client's other steps.                                               *)
LEMMA CodeFirst ==
  ASSUME NEW v \in Int, NEW t \in Seq(Bytes)
  PROVE  /\ getBytes("code", 1, v) \o t # <<>> /\ (getBytes("code", 1, v) \o t)[1][4] = v
         /\ getBytes("code", 1, v) # <<>> /\ getBytes("code", 1, v)[1][4] = v
<1> DEFINE s == getBytes("code", 1, v)
           z == s \o t
<1>1. s \in Seq(Bytes) /\ Len(s) = 1 /\ s[1] = <<"code", 1, 1, v>>
  <2>1. 1 \in Nat /\ 1 \in 1..1
        OBVIOUS
  <2> QED BY <2>1, ByteString, LabelNames
<1> HIDE DEF s
<1>2. z \in Seq(Bytes) /\ Len(z) = 1 + Len(t) /\ Len(t) \in Nat /\ z[1] = s[1]
  <2>1. /\ Len(t) \in Nat /\ s \o t \in Seq(Bytes) /\ Len(s \o t) = Len(s) + Len(t)
        /\ \A k \in 1..Len(s) : (s \o t)[k] = s[k]
        BY <1>1, JoinOf
  <2>2. 1 \in 1..1
        OBVIOUS
  <2> QED BY <1>1, <2>1, <2>2
<1> HIDE DEF z
<1>3. Len(z) # 0 /\ Len(s) # 0
      BY <1>1, <1>2
<1>4. z # <<>> /\ s # <<>>
      BY <1>3
<1>5. z[1][4] = v /\ s[1][4] = v
      BY <1>1, <1>2
<1> QED BY <1>4, <1>5 DEF s, z

LEMMA SayHelloKeeps ==
  ASSUME Phase, lost = "none", SayHello
  PROVE  Inv'
<1> DEFINE c == getBytes("code", 1, Hello)
           a == Text("helloLen", "hello", 4, Msg)
           b == Text("sysInfoLen", "sysInfo", 4, Msg)
           s == c \o a \o b
           V == {<<"code", Hello>>}
<1>1. AtStart
      BY WhereClient DEF SayHello, ClientAt
<1>2. /\ cpc' = "hello" /\ toS' = toS \o s /\ cTodo' = Code /\ cGot' = <<>> /\ toC' = toC /\ wst' = wst
      /\ wTodo' = wTodo /\ wGot' = wGot /\ lost' = "none" /\ call' = call
      BY DEF SayHello, ClientSays
<1>3. Letter(Code, <<>>, s, "WaitingForHello", V, {})
      BY SentHello
<1>4. s # <<>> /\ s[1][4] = Hello
  <2>1. c \in Seq(Bytes)
    <3>1. 1 \in Nat
          OBVIOUS
    <3> QED BY <3>1, ByteString, LabelNames, CodesTyped
  <2>2. a \in Seq(Bytes) /\ b \in Seq(Bytes)
        BY NamesTyped, LabelNames, TextTyped
  <2> DEFINE t == a \o b
  <2> HIDE DEF a, b
  <2>3. t \in Seq(Bytes)
        BY <2>2
  <2> HIDE DEF c, t
  <2>4. s = c \o t
        BY <2>1, <2>2, Assoc DEF t
  <2> HIDE DEF s
  <2> QED BY <2>3, <2>4, CodeFirst, CodesTyped DEF c
<1> HIDE DEF s, V
<1>5. <<>> \o s = s
      BY <1>3, LetterAlone
<1>6. toS' = s /\ toC' = <<>> /\ wst' = "WaitingForHello" /\ wTodo' = Code /\ wGot' = <<>> /\ call' = NoCall
      BY <1>1, <1>2, <1>5 DEF AtStart
<1>7. Begins(Hello)'
      BY <1>4, <1>6 DEF Begins
<1>8. Starts(Code)
      BY StartsCode
<1> HIDE DEF Starts
<1>9. HelloSent'
      BY <1>2, <1>3, <1>6, <1>7, <1>8 DEF HelloSent, V
<1> QED BY <1>2, <1>9 DEF Inv, Phase, WorkersTurn

LEMMA SayRegisterKeeps ==
  ASSUME Phase, lost = "none", SayRegister
  PROVE  Inv'
<1> DEFINE s == getBytes("code", 1, Register)
           V == {<<"code", Register>>}
<1>1. AtStart
      BY WhereClient DEF SayRegister, ClientAt
<1>2. /\ cpc' = "register" /\ toS' = toS \o s /\ cTodo' = Code /\ cGot' = <<>> /\ toC' = toC /\ wst' = wst
      /\ wTodo' = wTodo /\ wGot' = wGot /\ lost' = "none"
      BY DEF SayRegister, ClientSays
<1>3. Letter(Code, <<>>, s, "WaitingForHello", V, {})
      BY SentRegister
<1>4. s # <<>> /\ s[1][4] = Register
  <2>1. <<>> \in Seq(Bytes)
        OBVIOUS
  <2> QED BY <2>1, CodeFirst, CodesTyped
<1> HIDE DEF s, V
<1>5. <<>> \o s = s
      BY <1>3, LetterAlone
<1>6. toS' = s /\ toC' = <<>> /\ wst' = "WaitingForHello" /\ wTodo' = Code /\ wGot' = <<>>
      BY <1>1, <1>2, <1>5 DEF AtStart
<1>7. Begins(Register)'
      BY <1>4, <1>6 DEF Begins
<1>8. Starts(Code)
      BY StartsCode
<1> HIDE DEF Starts
<1>9. RegisterSent'
      BY <1>2, <1>3, <1>6, <1>7, <1>8 DEF RegisterSent, V
<1> QED BY <1>2, <1>9 DEF Inv, Phase, WorkersTurn

LEMMA SayShareKeeps ==
  ASSUME Phase, lost = "none", NEW n \in Names, SayShare(n)
  PROVE  Inv'
<1> DEFINE s == getBytes("code", 1, Share) \o Text("shareLen", "share", 4, n)
<1>1. Greeted
  <2>1. Greeted \/ TurnedDown
        BY WhereClient DEF SayShare, ClientAt
  <2>2. ASSUME TurnedDown PROVE FALSE
    <3>1. Learns(cpc, {<<"code", Error>>}, {}) /\ cTodo = <<>> /\ Latest(cGot, "code") = Hello
          BY <2>2 DEF TurnedDown, SayShare, ClientAt
    <3>2. Latest(cGot, "code") = Error
          BY <3>1, LearntCode
    <3> QED BY <3>1, <3>2, CodesTyped
  <2> QED BY <2>1, <2>2
<1>2. /\ cpc' = "share" /\ toS' = toS \o s /\ cTodo' = Code /\ cGot' = <<>> /\ toC' = toC /\ wst' = wst
      /\ wTodo' = wTodo /\ wGot' = wGot /\ lost' = "none" /\ call' = call /\ cTodo = <<>>
      BY DEF SayShare, ClientSays, ClientAt
<1>3. toC = <<>>
      BY <1>1, <1>2, LearntCode DEF Greeted
<1>4. Letter(Code, <<>>, s, "WaitingForShare", {}, {})
      BY SentShare, LetterLess
<1> HIDE DEF s
<1>5. <<>> \o s = s
      BY <1>4, LetterAlone
<1>6. toS' = s /\ toC' = <<>> /\ wst' = "WaitingForShare" /\ wTodo' = Code /\ wGot' = <<>> /\ call' = NoCall
      BY <1>1, <1>2, <1>3, <1>5 DEF Greeted
<1>7. Starts(Code)
      BY StartsCode
<1> HIDE DEF Starts
<1>8. ShareSent'
      BY <1>2, <1>4, <1>6, <1>7 DEF ShareSent
<1> QED BY <1>2, <1>8 DEF Inv, Phase, WorkersTurn

LEMMA MountedKeeps ==
  ASSUME Phase, lost = "none", Mounted
  PROVE  Inv' /\ call = NoCall
<1>1. ShareGiven
  <2>1. ShareGiven \/ TurnedDown
        BY WhereClient DEF Mounted, ClientAt
  <2>2. ASSUME TurnedDown PROVE FALSE
    <3>1. Learns(cpc, {<<"code", Error>>}, {}) /\ cTodo = <<>> /\ Latest(cGot, "code") = OK
          BY <2>2 DEF TurnedDown, Mounted, ClientAt
    <3>2. Latest(cGot, "code") = Error
          BY <3>1, LearntCode
    <3> QED BY <3>1, <3>2, CodesTyped
  <2> QED BY <2>1, <2>2
<1>2. /\ cpc' = "idle" /\ toS' = toS /\ cTodo' = cTodo /\ toC' = toC /\ wst' = wst
      /\ wTodo' = wTodo /\ wGot' = wGot /\ lost' = "none" /\ call' = call /\ cTodo = <<>>
      BY DEF Mounted, ClientStops, ClientAt
<1>3. toC = <<>>
      BY <1>1, <1>2, LearntCode DEF ShareGiven
<1>4. call' = NoCall
      BY <1>1, <1>2 DEF ShareGiven
<1>5. ErrorsReported'
  <2>1. call'.op = "none"
        BY <1>4 DEF NoCall
  <2> QED BY <2>1 DEF ErrorsReported, Silent
<1>6. Awaits("WaitingForOperation", OpcodeReads)'
      BY <1>1, <1>2 DEF ShareGiven
<1>7. AtIdle'
      BY <1>2, <1>3, <1>4, <1>5, <1>6 DEF AtIdle
<1> QED BY <1>2, <1>4, <1>7 DEF Inv, Phase, NobodysTurn

LEMMA RefusedKeeps ==
  ASSUME Phase, lost = "none", Refused
  PROVE  Inv'
<1>1. cTodo = <<>> /\ Latest(cGot, "code") = Error /\ cpc \in {"hello", "share", "regAuth", "regInfo"}
      BY DEF Refused, ClientAt
<1>2. TurnedDown
  <2>1. Greeted \/ ShareGiven \/ Authenticated \/ Filed \/ TurnedDown
        BY <1>1, WhereClient
  <2>2. ASSUME NEW v, v # Error, NEW p, Learns(p, {<<"code", v>>}, {}) PROVE FALSE
        BY <1>1, <2>2, LearntCode
  <2>3. ~ Greeted
        BY <2>2, CodesTyped DEF Greeted
  <2>4. ~ ShareGiven
        BY <2>2, CodesTyped DEF ShareGiven
  <2>5. ~ Authenticated
        BY <2>2, CodesTyped DEF Authenticated
  <2>6. ~ Filed
        BY <2>2, CodesTyped DEF Filed
  <2> QED BY <2>1, <2>3, <2>4, <2>5, <2>6
<1>3. /\ cpc' = "refused" /\ cTodo' = cTodo /\ toC' = toC /\ wst' = wst /\ wTodo' = wTodo /\ lost' = "none"
      BY DEF Refused, ClientStops
<1>4. toC = <<>>
  <2>1. Learns(cpc, {<<"code", Error>>}, {})
        BY <1>2 DEF TurnedDown
  <2> QED BY <1>1, <2>1, LearntCode
<1>5. AtEnd'
      BY <1>1, <1>2, <1>3, <1>4 DEF AtEnd, TurnedDown
<1> QED BY <1>3, <1>5 DEF Inv, Phase, NobodysTurn

LEMMA RegisteredKeeps ==
  ASSUME Phase, lost = "none", Registered
  PROVE  Inv'
<1>1. cTodo = <<>> /\ Latest(cGot, "code") = OK /\ cpc = "regInfo"
      BY DEF Registered, ClientAt
<1>2. Filed \/ TurnedDown
      BY <1>1, WhereClient
<1>3. /\ cpc' = "registered" /\ cTodo' = cTodo /\ toC' = toC /\ wst' = wst /\ wTodo' = wTodo /\ lost' = "none"
      BY DEF Registered, ClientStops
<1>4. toC = <<>> /\ Closed
  <2>1. CASE Filed
        BY <1>1, <2>1, LearntCode DEF Filed
  <2>2. CASE TurnedDown
    <3>1. Learns(cpc, {<<"code", Error>>}, {}) /\ Closed
          BY <2>2 DEF TurnedDown
    <3> QED BY <1>1, <3>1, LearntCode
  <2> QED BY <1>2, <2>1, <2>2
<1>5. AtEnd'
      BY <1>1, <1>3, <1>4 DEF AtEnd
<1> QED BY <1>3, <1>5 DEF Inv, Phase, NobodysTurn

LEMMA SayEmailKeeps ==
  ASSUME Phase, lost = "none", NEW n \in Names, SayEmail(n)
  PROVE  Inv'
<1> DEFINE s == CharText("emailLen", "email", 4, n) \o Text("passLen", "pass", 4, Msg)
<1>1. MayRegister
      BY WhereClient DEF SayEmail, ClientAt
<1>2. /\ cpc' = "regAuth" /\ toS' = toS \o s /\ cTodo' = Code /\ cGot' = <<>> /\ toC' = toC /\ wst' = wst
      /\ wTodo' = wTodo /\ wGot' = wGot /\ lost' = "none" /\ cTodo = <<>>
      /\ call' = [NoCall EXCEPT !.op = "register", !.p = n]
      BY DEF SayEmail, ClientSays, ClientAt
<1>3. toC = <<>>
      BY <1>1, <1>2, LearntCode DEF MayRegister
<1>4. Letter(EmailReads, <<>>, s, "registerAuth", {}, UnmetEmail(n))
      BY SentEmail
<1> HIDE DEF s
<1>5. <<>> \o s = s
      BY <1>4, LetterAlone
<1>6. toS' = s /\ toC' = <<>> /\ wst' = "registerAuth" /\ wTodo' = EmailReads /\ wGot' = <<>>
      BY <1>1, <1>2, <1>3, <1>5 DEF MayRegister
<1>7. call'.p = n
      BY <1>2 DEF NoCall
<1>8. Starts(Code)
      BY StartsCode
<1> HIDE DEF Starts
<1>9. EmailSent'
      BY <1>2, <1>4, <1>6, <1>7, <1>8 DEF EmailSent
<1> QED BY <1>2, <1>9 DEF Inv, Phase, WorkersTurn

LEMMA SayComputerKeeps ==
  ASSUME Phase, lost = "none", NEW n \in Names, SayComputer(n)
  PROVE  Inv'
<1> DEFINE s == Text("nameLen", "name", 4, n) \o Text("sysInfoLen", "sysInfo", 4, Msg)
                  \o Text("certLen", "cert", 4, Msg)
<1>1. Authenticated
  <2>1. Authenticated \/ TurnedDown
        BY WhereClient DEF SayComputer, ClientAt
  <2>2. ASSUME TurnedDown PROVE FALSE
    <3>1. Learns(cpc, {<<"code", Error>>}, {}) /\ cTodo = <<>> /\ Latest(cGot, "code") = OK
          BY <2>2 DEF TurnedDown, SayComputer, ClientAt
    <3>2. Latest(cGot, "code") = Error
          BY <3>1, LearntCode
    <3> QED BY <3>1, <3>2, CodesTyped
  <2> QED BY <2>1, <2>2
<1>2. /\ cpc' = "regInfo" /\ toS' = toS \o s /\ cTodo' = Code /\ cGot' = <<>> /\ toC' = toC /\ wst' = wst
      /\ wTodo' = wTodo /\ wGot' = wGot /\ lost' = "none" /\ cTodo = <<>>
      BY DEF SayComputer, ClientSays, ClientAt
<1>3. toC = <<>>
      BY <1>1, <1>2, LearntCode DEF Authenticated
<1>4. Letter(ComputerReads, <<>>, s, "registerInfo", {}, {})
      BY SentComputer
<1> HIDE DEF s
<1>5. <<>> \o s = s
      BY <1>4, LetterAlone
<1>6. toS' = s /\ toC' = <<>> /\ wst' = "registerInfo" /\ wTodo' = ComputerReads /\ wGot' = <<>>
      BY <1>1, <1>2, <1>3, <1>5 DEF Authenticated
<1>7. Starts(Code)
      BY StartsCode
<1> HIDE DEF Starts
<1>8. ComputerSent'
      BY <1>2, <1>4, <1>6, <1>7 DEF ComputerSent
<1> QED BY <1>2, <1>8 DEF Inv, Phase, WorkersTurn

LEMMA BeginKeeps ==
  ASSUME Phase, lost = "none", NEW k \in Calls, Begin(k)
  PROVE  Inv'
<1> DEFINE i == CHOOSE i \in DOMAIN Operations : Operations[i] = k.op
           s == getBytes("opcode", 2, i)
           V == {<<"opcode", i>>}
<1>1. AtIdle
      BY WhereClient DEF Begin, ClientAt
<1>2. /\ cpc' = "op" /\ toS' = toS \o s /\ cTodo' = Code /\ cGot' = <<>> /\ toC' = toC /\ wst' = wst
      /\ wTodo' = wTodo /\ wGot' = wGot /\ lost' = "none" /\ call' = k
      BY DEF Begin, ClientSays
<1>3. i \in Int /\ Operations[i] = k.op
      BY CallsTyped, OpcodeOf
<1> HIDE DEF i
<1>4. Letter(OpcodeReads, <<>>, s, "WaitingForOperation", V, {})
      BY <1>3, SentOpcode DEF OpcodeReads
<1> HIDE DEF s, V
<1>5. <<>> \o s = s
      BY <1>4, LetterAlone
<1>6. toS' = s /\ toC' = <<>> /\ wst' = "WaitingForOperation" /\ wTodo' = OpcodeReads /\ wGot' = <<>>
      BY <1>1, <1>2, <1>5 DEF AtIdle
<1>7. Starts(Code)
      BY StartsCode
<1> HIDE DEF Starts
<1>8. Operations[i] = call'.op /\ Hears("WaitingForOperation", {<<"opcode", i>>}, {})'
      BY <1>2, <1>3, <1>4, <1>6 DEF V
<1>9. OpSent'
      BY <1>2, <1>6, <1>7, <1>8 DEF OpSent
<1> QED BY <1>2, <1>9 DEF Inv, Phase, WorkersTurn

LEMMA SendArgsKeeps ==
  ASSUME Phase, lost = "none", SendArgs
  PROVE  Inv'
<1> DEFINE s == ClientArgs(call)
<1>1. OpTaken
      BY WhereClient DEF SendArgs, ClientAt
<1>2. /\ cpc' = "args" /\ toS' = toS \o s /\ cTodo' = ClientReads(call.op) /\ cGot' = <<>> /\ toC' = toC
      /\ wst' = wst /\ wTodo' = wTodo /\ wGot' = wGot /\ wop' = wop /\ lost' = "none" /\ call' = call
      /\ cTodo = <<>>
      BY DEF SendArgs, ClientSays, ClientAt
<1>3. toC = <<>>
      BY <1>1, <1>2, LearntCode DEF OpTaken
<1>4. call \in Calls /\ call.op \in OpNames
      BY <1>1, CallsTyped DEF OpTaken
<1>5. Letter(WorkerReads(call.op), <<>>, s, "InOperation", Told(call), Unmet(call))
      BY <1>4, ArgsOfCall
<1> HIDE DEF s
<1>6. <<>> \o s = s
      BY <1>5, LetterAlone
<1>7. /\ toS' = s /\ toC' = <<>> /\ wst' = "InOperation" /\ wTodo' = WorkerReads(call.op) /\ wGot' = <<>>
      /\ wop' = call.op
      BY <1>1, <1>2, <1>3, <1>6 DEF OpTaken
<1>8. Starts(ClientReads(call.op))
      BY <1>4, StartsReply
<1> HIDE DEF Starts
<1>9. Waiting("args", ClientReads(call.op))' /\ Hears("InOperation", Told(call), Unmet(call))'
      BY <1>2, <1>5, <1>7, <1>8
<1>10. ArgsSent'
       BY <1>2, <1>4, <1>7, <1>9 DEF ArgsSent
<1> QED BY <1>2, <1>10 DEF Inv, Phase, WorkersTurn

LEMMA ReturnKeeps ==
  ASSUME Phase, lost = "none", Return
  PROVE  Inv' /\ AtIdle'
<1>1. Replied
      BY WhereClient DEF Return, ClientAt
<1>2. /\ cpc' = "idle" /\ toS' = toS /\ cTodo' = cTodo /\ toC' = toC /\ wst' = wst
      /\ wTodo' = wTodo /\ wGot' = wGot /\ lost' = "none" /\ call' = call /\ cTodo = <<>> /\ failed' = failed
      /\ ret' = Returned(call.op, IF call.op = "UpdateLocalUsers" THEN 0 ELSE Latest(cGot, "res"))
      BY DEF Return, ClientStops, ClientAt
<1>3. PICK r \in Int : Learns("args", Tells(call.op, r), UnmetLink(call.op)) /\ (failed <=> r < 0)
      BY <1>1 DEF Replied
<1> DEFINE V == Tells(call.op, r)
<1> HIDE DEF V
<1>4. toC = <<>> /\ \A x \in V : Latest(cGot, x[1]) = x[2]
      BY <1>2, <1>3, LearntAll DEF V
<1>5. ErrorsReported'
  <2>1. SUFFICES ASSUME call.op \notin {"readdir", "readlink", "UpdateLocalUsers"} PROVE ret' < 0 <=> failed'
        BY <1>2 DEF ErrorsReported, Silent
  <2>2. <<"res", r>> \in V
        BY <2>1 DEF V, Tells
  <2>3. Latest(cGot, "res") = r
    <3> DEFINE x == <<"res", r>>
    <3>1. x[1] = "res" /\ x[2] = r
          OBVIOUS
    <3> HIDE DEF x
    <3>2. Latest(cGot, x[1]) = x[2]
          BY <1>4, <2>2 DEF x
    <3> QED BY <3>1, <3>2
  <2>4. ret' = Returned(call.op, r)
        BY <1>2, <2>1, <2>3
  <2>5. Returned(call.op, r) < 0 <=> r < 0
        BY <2>1, ReturnedFails
  <2> QED BY <1>2, <1>3, <2>4, <2>5
<1>6. Awaits("WaitingForOperation", OpcodeReads)' /\ Called'
      BY <1>1, <1>2 DEF Replied
<1>7. AtIdle'
      BY <1>2, <1>4, <1>5, <1>6 DEF AtIdle
<1> QED BY <1>2, <1>7 DEF Inv, Phase, NobodysTurn

-----------------------------------------------------------------------------
(* The worker's other steps.                                               *)
LEMMA GreetingIsFirst ==
  ASSUME wGot # <<>>, wGot[1].v = Hello
  PROVE  ~ RegisterSent
BY CodesTyped DEF RegisterSent, Begins

LEMMA HelloRead ==
  ASSUME Phase, wst = "WaitingForHello", wTodo = <<>>
  PROVE  /\ wGot # <<>> /\ toS = <<>> /\ toC = <<>> /\ cTodo = Code /\ cGot = <<>>
         /\ wGot[1].v = Hello => HelloSent
         /\ wGot[1].v = Register => RegisterSent
<1>1. HelloSent \/ RegisterSent
      BY WhereWorker
<1>2. /\ HelloSent => wGot # <<>> /\ wGot[1].v = Hello
      /\ RegisterSent => wGot # <<>> /\ wGot[1].v = Register
      BY DEF HelloSent, RegisterSent, Begins, Code
<1>3. toS = <<>>
  <2>1. CASE HelloSent
        BY <2>1, HeardAll DEF HelloSent
  <2>2. CASE RegisterSent
        BY <2>2, HeardAll DEF RegisterSent
  <2> QED BY <1>1, <2>1, <2>2
<1>4. toC = <<>> /\ cTodo = Code /\ cGot = <<>>
      BY <1>1 DEF HelloSent, RegisterSent
<1> QED BY <1>1, <1>2, <1>3, <1>4, CodesTyped

LEMMA GreetRefusedKeeps ==
  ASSUME Phase, lost = "none", GreetRefused
  PROVE  Inv'
<1>1. HelloSent
  <2>1. wst = "WaitingForHello" /\ wGot # <<>> /\ wGot[1].v = Hello
        BY DEF GreetRefused
  <2> QED BY <2>1, WhereWorker, GreetingIsFirst
<1>2. /\ wst' = "closed" /\ toC' = toC \o Fails /\ wTodo' = <<>> /\ cpc' = cpc /\ cTodo' = cTodo
      /\ cGot' = cGot /\ lost' = "none"
      BY DEF GreetRefused, WorkerSays
<1>3. cpc = "hello" /\ toC = <<>> /\ cTodo = Code /\ cGot = <<>>
      BY <1>1 DEF HelloSent
<1>4. Letter(Code, <<>>, Fails, "hello", {<<"code", Error>>}, {})
      BY AnswerFails
<1>5. toC' = Fails
      BY <1>2, <1>3, <1>4, LetterAlone
<1>6. Context' = "hello"
      BY <1>2, <1>3 DEF Context
<1>7. TurnedDown'
      BY <1>2, <1>3, <1>4, <1>5, <1>6 DEF TurnedDown
<1> QED BY <1>2, <1>7 DEF Inv, Phase, ClientsTurn

LEMMA GreetKeeps ==
  ASSUME Phase, lost = "none", Greet
  PROVE  Inv'
<1> DEFINE s == getBytes("code", 1, Hello) \o Text("helloLen", "hello", 4, Msg)
<1>1. wst = "WaitingForHello" /\ wTodo = <<>> /\ wGot[1].v = Hello
      BY DEF Greet, WorkerAt
<1>2. /\ wst' = "WaitingForShare" /\ toC' = toC \o s /\ wTodo' = Code /\ wGot' = <<>> /\ cpc' = cpc
      /\ cTodo' = cTodo /\ cGot' = cGot /\ lost' = "none" /\ toS' = toS /\ call' = call
      BY DEF Greet, WorkerSays
<1>3. HelloSent /\ toS = <<>> /\ toC = <<>> /\ cTodo = Code /\ cGot = <<>>
      BY <1>1, HelloRead
<1>4. Letter(Code, <<>>, s, "hello", {<<"code", Hello>>}, {})
      BY AnswerHello
<1> HIDE DEF s
<1>5. toC' = s
      BY <1>2, <1>3, <1>4, LetterAlone
<1>6. cpc' = "hello" /\ Context' = "hello" /\ call' = NoCall
      BY <1>2, <1>3 DEF Context, HelloSent
<1>7. Starts(Code)
      BY StartsCode
<1> HIDE DEF Starts
<1>8. Greeted'
      BY <1>2, <1>3, <1>4, <1>5, <1>6, <1>7 DEF Greeted
<1> QED BY <1>2, <1>8 DEF Inv, Phase, ClientsTurn

LEMMA StartRegistrationKeeps ==
  ASSUME Phase, lost = "none", StartRegistration
  PROVE  Inv'
<1> DEFINE s == getBytes("code", 1, OK)
<1>1. wst = "WaitingForHello" /\ wTodo = <<>> /\ wGot[1].v = Register
      BY DEF StartRegistration, WorkerAt
<1>2. /\ wst' = "registerAuth" /\ toC' = toC \o s /\ wTodo' = EmailReads /\ wGot' = <<>> /\ cpc' = cpc
      /\ cTodo' = cTodo /\ cGot' = cGot /\ lost' = "none" /\ toS' = toS
      BY DEF StartRegistration, WorkerSays, EmailReads
<1>3. RegisterSent /\ toS = <<>> /\ toC = <<>> /\ cTodo = Code /\ cGot = <<>>
      BY <1>1, HelloRead
<1>4. Letter(Code, <<>>, s, "register", {<<"code", OK>>}, {})
      BY AnswerOK
<1> HIDE DEF s
<1>5. toC' = s
      BY <1>2, <1>3, <1>4, LetterAlone
<1>6. cpc' = "register" /\ Context' = "register"
      BY <1>2, <1>3 DEF Context, RegisterSent
<1>7. Starts(EmailReads)
      BY StartsCode
<1> HIDE DEF Starts
<1>8. MayRegister'
      BY <1>2, <1>3, <1>4, <1>5, <1>6, <1>7 DEF MayRegister
<1> QED BY <1>2, <1>8 DEF Inv, Phase, ClientsTurn

LEMMA GiveShareKeeps ==
  ASSUME Phase, lost = "none", GiveShare
  PROVE  Inv'
<1>1. ShareSent /\ wTodo = <<>>
      BY WhereWorker DEF GiveShare, WorkerAt
<1>2. cpc = "share" /\ cTodo = Code /\ cGot = <<>> /\ toC = <<>> /\ toS = <<>> /\ call = NoCall
      BY <1>1, HeardAll DEF ShareSent
<1>3. /\ cpc' = cpc /\ cTodo' = cTodo /\ cGot' = cGot /\ lost' = "none" /\ toS' = toS /\ call' = call
      BY DEF GiveShare, WorkerSays
<1>4. Context' = "share"
      BY <1>2, <1>3 DEF Context
<1>5. CASE WorkerSays("WaitingForOperation", getBytes("code", 1, OK), << Fix("opcode", 2) >>)
  <2> DEFINE s == getBytes("code", 1, OK)
  <2>1. wst' = "WaitingForOperation" /\ toC' = toC \o s /\ wTodo' = OpcodeReads /\ wGot' = <<>>
        BY <1>5 DEF WorkerSays, OpcodeReads
  <2>2. Letter(Code, <<>>, s, "share", {<<"code", OK>>}, {})
        BY AnswerOK
  <2> HIDE DEF s
  <2>3. toC' = s
        BY <1>2, <2>1, <2>2, LetterAlone
  <2>4. Starts(OpcodeReads)
        BY StartsCode
  <2> HIDE DEF Starts
  <2>5. ShareGiven'
        BY <1>2, <1>3, <1>4, <2>1, <2>2, <2>3, <2>4 DEF ShareGiven
  <2> QED BY <1>3, <2>5 DEF Inv, Phase, ClientsTurn
<1>6. CASE WorkerSays("closed", Fails, <<>>)
  <2>1. wst' = "closed" /\ toC' = toC \o Fails /\ wTodo' = <<>>
        BY <1>6 DEF WorkerSays
  <2>2. Letter(Code, <<>>, Fails, "share", {<<"code", Error>>}, {})
        BY AnswerFails
  <2>3. toC' = Fails
        BY <1>2, <2>1, <2>2, LetterAlone
  <2>4. TurnedDown'
        BY <1>2, <1>3, <1>4, <2>1, <2>2, <2>3 DEF TurnedDown
  <2> QED BY <1>3, <2>4 DEF Inv, Phase, ClientsTurn
<1> QED BY <1>5, <1>6 DEF GiveShare

LEMMA AuthenticateKeeps ==
  ASSUME Phase, lost = "none", Authenticate
  PROVE  Inv'
<1>1. EmailSent /\ wTodo = <<>>
      BY WhereWorker DEF Authenticate, WorkerAt
<1>2. cpc = "regAuth" /\ cTodo = Code /\ cGot = <<>> /\ toC = <<>> /\ toS = <<>>
      BY <1>1, HeardAll DEF EmailSent
<1>3. /\ cpc' = cpc /\ cTodo' = cTodo /\ cGot' = cGot /\ lost' = "none" /\ toS' = toS
      BY DEF Authenticate, WorkerSays
<1>4. Context' = "regAuth"
      BY <1>2, <1>3 DEF Context
<1>5. CASE WorkerSays("registerInfo", getBytes("code", 1, OK), ComputerReads)
  <2> DEFINE s == getBytes("code", 1, OK)
  <2>1. wst' = "registerInfo" /\ toC' = toC \o s /\ wTodo' = ComputerReads /\ wGot' = <<>>
        BY <1>5 DEF WorkerSays
  <2>2. Letter(Code, <<>>, s, "regAuth", {<<"code", OK>>}, {})
        BY AnswerOK
  <2> HIDE DEF s
  <2>3. toC' = s
        BY <1>2, <2>1, <2>2, LetterAlone
  <2>4. Starts(ComputerReads)
        BY StartsCode
  <2> HIDE DEF Starts
  <2>5. Authenticated'
        BY <1>2, <1>3, <1>4, <2>1, <2>2, <2>3, <2>4 DEF Authenticated
  <2> QED BY <1>3, <2>5 DEF Inv, Phase, ClientsTurn
<1>6. CASE WorkerSays("closed", Fails, <<>>)
  <2>1. wst' = "closed" /\ toC' = toC \o Fails /\ wTodo' = <<>>
        BY <1>6 DEF WorkerSays
  <2>2. Letter(Code, <<>>, Fails, "regAuth", {<<"code", Error>>}, {})
        BY AnswerFails
  <2>3. toC' = Fails
        BY <1>2, <2>1, <2>2, LetterAlone
  <2>4. TurnedDown'
        BY <1>2, <1>3, <1>4, <2>1, <2>2, <2>3 DEF TurnedDown
  <2> QED BY <1>3, <2>4 DEF Inv, Phase, ClientsTurn
<1> QED BY <1>5, <1>6 DEF Authenticate, ComputerReads

LEMMA FileRequestKeeps ==
  ASSUME Phase, lost = "none", FileRequest
  PROVE  Inv'
<1> DEFINE s == getBytes("code", 1, OK) \o Text("msgLen", "msg", 4, Msg)
<1>1. ComputerSent /\ wTodo = <<>>
      BY WhereWorker DEF FileRequest, WorkerAt
<1>2. cpc = "regInfo" /\ cTodo = Code /\ cGot = <<>> /\ toC = <<>>
      BY <1>1 DEF ComputerSent
<1>3. /\ cpc' = cpc /\ cTodo' = cTodo /\ cGot' = cGot /\ lost' = "none" /\ wst' = "closed" /\ wTodo' = <<>>
      BY DEF FileRequest, WorkerSays
<1>4. Context' = "regInfo"
      BY <1>2, <1>3 DEF Context
<1>5. CASE toC' = toC \o s
  <2>1. Letter(Code, <<>>, s, "regInfo", {<<"code", OK>>}, {})
        BY AnswerFiled
  <2> HIDE DEF s
  <2>2. toC' = s
        BY <1>2, <1>5, <2>1, LetterAlone
  <2>3. Filed'
        BY <1>2, <1>3, <1>4, <2>1, <2>2 DEF Filed
  <2> QED BY <1>3, <2>3 DEF Inv, Phase, ClientsTurn
<1>6. CASE toC' = toC \o Fails
  <2>1. Letter(Code, <<>>, Fails, "regInfo", {<<"code", Error>>}, {})
        BY AnswerFails
  <2>2. toC' = Fails
        BY <1>2, <1>6, <2>1, LetterAlone
  <2>3. TurnedDown'
        BY <1>2, <1>3, <1>4, <2>1, <2>2 DEF TurnedDown
  <2> QED BY <1>3, <2>3 DEF Inv, Phase, ClientsTurn
<1> QED BY <1>5, <1>6 DEF FileRequest, WorkerSays

LEMMA GetOperationKeeps ==
  ASSUME Phase, lost = "none", GetOperation
  PROVE  Inv'
<1> DEFINE s == getBytes("code", 1, OK)
<1>1. OpSent /\ wTodo = <<>>
      BY WhereWorker DEF GetOperation, WorkerAt
<1>2. PICK i : Operations[i] = call.op /\ Hears("WaitingForOperation", {<<"opcode", i>>}, {})
      BY <1>1 DEF OpSent
<1>3. toS = <<>> /\ Latest(wGot, "opcode") = i
  <2> DEFINE x == <<"opcode", i>>
             V == {x}
  <2>1. Hears("WaitingForOperation", V, {}) /\ x \in V /\ x[1] = "opcode" /\ x[2] = i
        BY <1>2
  <2> HIDE DEF V, x
  <2>2. toS = <<>> /\ Latest(wGot, x[1]) = x[2]
        BY <1>1, <2>1, HeardAll
  <2> QED BY <2>1, <2>2
<1>4. cpc = "op" /\ cTodo = Code /\ cGot = <<>> /\ toC = <<>> /\ call \in Calls /\ call.op \in OpNames
      BY <1>1, CallsTyped DEF OpSent
<1>5. /\ cpc' = cpc /\ cTodo' = cTodo /\ cGot' = cGot /\ lost' = "none" /\ toS' = toS /\ call' = call
      /\ wop' = Operations[Latest(wGot, "opcode")] /\ wst' = "InOperation" /\ toC' = toC \o s
      /\ wTodo' = WorkerReads(wop') /\ wGot' = <<>>
      BY DEF GetOperation, WorkerSays
<1>6. wop' = call.op /\ wTodo' = WorkerReads(call.op)
      BY <1>2, <1>3, <1>5
<1>7. Letter(Code, <<>>, s, "op", {<<"code", OK>>}, {})
      BY AnswerOK
<1> HIDE DEF s
<1>8. toC' = s
      BY <1>4, <1>5, <1>7, LetterAlone
<1>9. Context' = "op"
      BY <1>4, <1>5 DEF Context
<1>10. Starts(WorkerReads(call.op))
       BY <1>4, StartsArgs
<1> HIDE DEF Starts
<1>11. Awaits("InOperation", WorkerReads(call.op))'
       BY <1>3, <1>5, <1>6, <1>10
<1>12. OpTaken'
       BY <1>4, <1>5, <1>6, <1>7, <1>8, <1>9, <1>11 DEF OpTaken
<1> QED BY <1>5, <1>12 DEF Inv, Phase, ClientsTurn

(* What the worker has heard of a call when it performs it.                *)
LEMMA HeardCall ==
  ASSUME Phase, wst = "InOperation", wTodo = <<>>
  PROVE  /\ ArgsSent /\ toS = <<>> /\ call \in Calls /\ wop = call.op
         /\ \A f, v : <<f, v>> \in Told(call) => Latest(wGot, f) = v
<1>1. ArgsSent
      BY WhereWorker
<1>2. Hears("InOperation", Told(call), Unmet(call)) /\ call \in Calls /\ wop = call.op
      BY <1>1 DEF ArgsSent
<1>3. toS = <<>> /\ \A x \in Told(call) : Latest(wGot, x[1]) = x[2]
      BY <1>2, HeardAll
<1>4. ASSUME NEW f, NEW v, <<f, v>> \in Told(call) PROVE Latest(wGot, f) = v
  <2> DEFINE x == <<f, v>>
  <2>1. x[1] = f /\ x[2] = v /\ x \in Told(call)
        BY <1>4
  <2> HIDE DEF x
  <2>2. Latest(wGot, x[1]) = x[2]
        BY <1>3, <2>1
  <2> QED BY <2>1, <2>2
<1> QED BY <1>1, <1>2, <1>3, <1>4

LEMMA OperateKeeps ==
  ASSUME Phase, lost = "none", NEW n \in Names, Operate(n)
  PROVE  Inv' /\ failed' \in BOOLEAN
<1>1. /\ ArgsSent /\ toS = <<>> /\ call \in Calls /\ wop = call.op
      /\ \A f, v : <<f, v>> \in Told(call) => Latest(wGot, f) = v
      BY HeardCall DEF Operate, WorkerAt
<1>2. call.op \in OpNames /\ \E i \in 0..2 : call.batch \in [1..i -> Names]
      BY <1>1, CallsTyped
<1>3. wop = "writebulk" => Latest(wGot, "count") \in Nat
  <2>1. SUFFICES ASSUME wop = "writebulk" PROVE Latest(wGot, "count") \in Nat
        OBVIOUS
  <2>2. PICK i \in 0..2 : call.batch \in [1..i -> Names]
        BY <1>2
  <2>3. Len(call.batch) = i
        BY <2>2, EachIs
  <2>4. <<"count", Len(call.batch)>> \in Told(call)
        BY <1>1, <2>1 DEF Told
  <2> QED BY <1>1, <2>3, <2>4
<1>4. PICK x \in Results(wop, n) :
        /\ failed' = x[1]
        /\ WorkerSays("WaitingForOperation", Reply(wop, x[2], n), << Fix("opcode", 2) >>)
      BY DEF Operate
<1>5. Outcome(wop, x[2], n) /\ x[1] \in BOOLEAN /\ (x[1] <=> x[2] < 0)
      BY <1>1, <1>2, <1>3, ResultsAre
<1> DEFINE r == x[2]
           s == Reply(wop, r, n)
<1>6. r \in Int /\ (failed' <=> r < 0)
      BY <1>4, <1>5 DEF Outcome
<1>7. /\ cpc' = cpc /\ cTodo' = cTodo /\ cGot' = cGot /\ lost' = "none" /\ toS' = toS /\ call' = call
      /\ wst' = "WaitingForOperation" /\ toC' = toC \o s /\ wTodo' = OpcodeReads /\ wGot' = <<>>
      BY <1>4 DEF WorkerSays, OpcodeReads
<1>8. Letter(ClientReads(wop), <<>>, s, wop, Tells(wop, r), UnmetLink(wop))
      BY <1>1, <1>2, <1>5, ReplyOf
<1> HIDE DEF r, s
<1>9. cpc = "args" /\ cTodo = ClientReads(call.op) /\ cGot = <<>> /\ toC = <<>>
      BY <1>1 DEF ArgsSent
<1>10. toC' = s
       BY <1>7, <1>8, <1>9, LetterAlone
<1>11. Context' = call.op
       BY <1>7, <1>9 DEF Context
<1>12. Learns("args", Tells(call.op, r), UnmetLink(call.op))'
       BY <1>1, <1>7, <1>8, <1>9, <1>10, <1>11
<1>13. Starts(OpcodeReads)
       BY StartsCode
<1>14. Awaits("WaitingForOperation", OpcodeReads)'
  <2> HIDE DEF Starts
  <2> QED BY <1>1, <1>7, <1>13
<1>15. Replied'
       BY <1>1, <1>6, <1>7, <1>12, <1>14 DEF Replied
<1>16. failed' \in BOOLEAN
       BY <1>4, <1>5
<1> QED BY <1>7, <1>15, <1>16 DEF Inv, Phase, ClientsTurn

-----------------------------------------------------------------------------
(* The theorems.                                                           *)
LEMMA InvInit == Init => Inv
<1>1. SUFFICES ASSUME Init PROVE AtStart /\ lost = "none"
      BY DEF Inv, Phase, NobodysTurn
<1>2. Starts(Code)
      BY StartsCode
<1> QED BY <1>1, <1>2 DEF Init, AtStart, Code

LEMMA OnlyUnlost == Next => lost = "none"
<1>1. Client => lost = "none"
      BY DEF Client, ClientRead, SayHello, Mounted, Refused, SayRegister, Registered, SendArgs, Return,
             SayShare, SayEmail, SayComputer, ClientAt
<1>2. Worker => lost = "none"
      BY DEF Worker, WorkerRead, GreetRefused, Greet, GiveShare, GetOperation, StartRegistration,
             Authenticate, FileRequest, Operate, WorkerAt
<1>3. (\E k \in Calls : Begin(k)) => lost = "none"
      BY DEF Begin, ClientAt
<1> QED BY <1>1, <1>2, <1>3 DEF Next

LEMMA InvNext == Inv /\ [Next]_vars => Inv'
<1> SUFFICES ASSUME Inv, [Next]_vars PROVE Inv'
    OBVIOUS
<1>1. CASE UNCHANGED vars
  <2>1. /\ toS' = toS /\ toC' = toC /\ cpc' = cpc /\ call' = call /\ cTodo' = cTodo /\ cGot' = cGot
        /\ ret' = ret /\ wst' = wst /\ wop' = wop /\ wTodo' = wTodo /\ wGot' = wGot /\ failed' = failed
        /\ lost' = lost
        BY <1>1 DEF vars
  <2>2. Phase' <=> Phase
        BY <2>1 DEF Phase, WorkersTurn, ClientsTurn, NobodysTurn, HelloSent, RegisterSent, ShareSent,
                    OpSent, ArgsSent, EmailSent, ComputerSent, Greeted, ShareGiven, OpTaken, Replied,
                    MayRegister, Authenticated, Filed, TurnedDown, AtStart, AtIdle, AtEnd,
                    Begins, Context, ErrorsReported
  <2>3. OnlyWideTextsLoseStep' <=> OnlyWideTextsLoseStep
        BY <2>1 DEF OnlyWideTextsLoseStep
  <2> QED BY <2>1, <2>2, <2>3 DEF Inv
<1>2. CASE Next
  <2>1. lost = "none"
        BY <1>2, OnlyUnlost
  <2>2. Phase
        BY <2>1 DEF Inv
  <2>3. CASE Client
        BY <2>1, <2>2, <2>3, ClientReadKeeps, SayHelloKeeps, MountedKeeps, RefusedKeeps, SayRegisterKeeps,
           RegisteredKeeps, SendArgsKeeps, ReturnKeeps, SayShareKeeps, SayEmailKeeps, SayComputerKeeps DEF Client
  <2>4. CASE Worker
        BY <2>1, <2>2, <2>4, WorkerReadKeeps, GreetRefusedKeeps, GreetKeeps, GiveShareKeeps, GetOperationKeeps,
           StartRegistrationKeeps, AuthenticateKeeps, FileRequestKeeps, OperateKeeps DEF Worker
  <2>5. CASE \E k \in Calls : Begin(k)
        BY <2>1, <2>2, <2>5, BeginKeeps
  <2> QED BY <1>2, <2>3, <2>4, <2>5 DEF Next
<1> QED BY <1>1, <1>2

(* Whatever is under way between the two sides, at any time, is what the   *)
(* side that reads next is about to read, field by field.                  *)
THEOREM Invariance == Spec => []Inv
<1> QED BY InvInit, InvNext, PTL DEF Spec

(* Two forms of the same bytes meet: a read gets the bytes meant for it,   *)
(* except in the three places where a length in characters is sent for a   *)
(* text in UTF-8 that is longer in bytes.                                  *)
THEOREM OnlyWideTexts == Spec => []OnlyWideTextsLoseStep
<1>1. Inv => OnlyWideTextsLoseStep
      BY DEF Inv, OnlyWideTextsLoseStep
<1> QED BY <1>1, Invariance, PTL

(* The worker performs a call with the names, and with the length, that    *)
(* the client was called with, but for the target of a symbolic link, for  *)
(* which it is given the name that fs_symlink made of it.                  *)
THEOREM ActsAsAsked == Spec => []AsAsked
<1>1. Inv => AsAsked
  <2> SUFFICES ASSUME Inv, WorkerAt("InOperation"), wop \notin {"writebulk", "UpdateLocalUsers"}
               PROVE  /\ wop = call.op
                      /\ Latest(wGot, "path") = IF wop = "symlink"
                                                  THEN relativeFilePath[call.p].b
                                                  ELSE call.p.b
                      /\ wop \in {"symlink", "rename"} => Latest(wGot, "path2") = call.q.b
                      /\ wop = "write" => Latest(wGot, "data") = call.q.b
                      /\ wop = "truncate" /\ call.len < U32 => Latest(wGot, "length") = call.len
      BY DEF AsAsked
  <2>1. /\ call \in Calls /\ wop = call.op
        /\ \A f, v : <<f, v>> \in Told(call) => Latest(wGot, f) = v
        BY HeardCall DEF Inv, WorkerAt
  <2>2. /\ <<"path", NameSent(call).b>> \in Told(call)
        /\ NameSent(call) = IF wop = "symlink" THEN relativeFilePath[call.p] ELSE call.p
        BY <2>1 DEF Told, NameSent
  <2>3. wop \in {"symlink", "rename"} => <<"path2", call.q.b>> \in Told(call)
        BY <2>1 DEF Told
  <2>4. wop = "write" => <<"data", call.q.b>> \in Told(call)
        BY <2>1 DEF Told
  <2>5. wop = "truncate" => <<"length", SentLength(call.len)>> \in Told(call)
        BY <2>1 DEF Told
  <2>6. call.len < U32 => SentLength(call.len) = call.len
        BY <2>1, CallsTyped, SentTyped
  <2> QED BY <2>1, <2>2, <2>3, <2>4, <2>5, <2>6
<1> QED BY <1>1, Invariance, PTL

(* A call that returns has failed exactly if the worker failed.            *)
THEOREM FailuresReported == Spec => []ErrorsReported
<1>1. Inv => ErrorsReported
  <2> SUFFICES ASSUME Inv PROVE ErrorsReported
      OBVIOUS
  <2>1. CASE cpc = "idle"
    <3>1. lost = "none" /\ Phase
          BY <2>1 DEF Inv
    <3> QED BY <2>1, <3>1, WhereClient DEF AtIdle
  <2>2. CASE cpc # "idle"
        BY <2>2 DEF ErrorsReported
  <2> QED BY <2>1, <2>2
<1> QED BY <1>1, Invariance, PTL

-----------------------------------------------------------------------------
(* The refinement.  A place is lost by the worker that reads a batch or an *)
(* address, and by the client that reads a link.                           *)
LEMMA WorkerLoses ==
  ASSUME Phase, lost = "none", WorkerRead
  PROVE  \/ lost' = "none"
         \/ ArgsSent /\ lost' = call.op /\ call \in WideBatch
         \/ EmailSent /\ lost' = "registerAuth"
<1>1. ASSUME NEW V, Letter(wTodo, wGot, toS, wst, V, {}) PROVE lost' = "none"
  <2> DEFINE D == {}
  <2>1. Letter(wTodo, wGot, toS, wst, V, D)
        BY <1>1
  <2> HIDE DEF D
  <2>2. lost' = lost \/ D # {}
        BY <2>1, WorkerHears
  <2> QED BY <2>2 DEF D
<1>2. \/ HelloSent \/ RegisterSent \/ ShareSent \/ ComputerSent => lost' = "none"
      BY <1>1 DEF HelloSent, RegisterSent, ShareSent, ComputerSent
<1>3. OpSent => lost' = "none"
      BY <1>1 DEF OpSent
<1>4. CASE ArgsSent
  <2>1. /\ Letter(wTodo, wGot, toS, wst, Told(call), Unmet(call))
        /\ wst = "InOperation" /\ wop = call.op /\ call \in Calls
        BY <1>4 DEF ArgsSent
  <2>2. lost' = lost \/ (lost' = wop /\ Unmet(call) # {})
        BY <2>1, WorkerHears
  <2>3. Unmet(call) # {} => call \in WideBatch
        BY <2>1 DEF Unmet, WideBatch
  <2> QED BY <1>4, <2>1, <2>2, <2>3
<1>5. CASE EmailSent
  <2>1. Letter(wTodo, wGot, toS, wst, {}, UnmetEmail(call.p)) /\ wst = "registerAuth"
        BY <1>5 DEF EmailSent
  <2>2. lost' = lost \/ lost' = "registerAuth"
        BY <2>1, WorkerHears
  <2> QED BY <1>5, <2>2
<1> QED BY WhoReads, <1>2, <1>3, <1>4, <1>5 DEF WorkersTurn

LEMMA ClientLoses ==
  ASSUME Phase, lost = "none", ClientRead
  PROVE  lost' = "none" \/ (Replied /\ call.op = "readlink" /\ lost' = "readlink")
<1>1. ASSUME NEW p, NEW V, Learns(p, V, {}) PROVE lost' = "none"
  <2> DEFINE D == {}
  <2>1. Letter(cTodo, cGot, toC, Context, V, D)
        BY <1>1
  <2> HIDE DEF D
  <2>2. lost' = lost \/ \E it \in D : TRUE
        BY <2>1, ClientLearns
  <2> QED BY <2>2 DEF D
<1>2. Greeted \/ ShareGiven \/ OpTaken \/ MayRegister \/ Authenticated \/ Filed \/ TurnedDown => lost' = "none"
  <2> HIDE DEF Learns
  <2> QED BY <1>1 DEF Greeted, ShareGiven, OpTaken, MayRegister, Authenticated, Filed, TurnedDown
<1>3. CASE Replied
  <2>1. PICK r \in Int : Learns("args", Tells(call.op, r), UnmetLink(call.op))
        BY <1>3 DEF Replied
  <2>2. Context = call.op /\ Letter(cTodo, cGot, toC, Context, Tells(call.op, r), UnmetLink(call.op))
        BY <2>1 DEF Context
  <2>3. lost' = lost \/ (lost' = Context /\ \E it \in UnmetLink(call.op) : TRUE)
        BY <2>2, ClientLearns
  <2>4. (\E it \in UnmetLink(call.op) : TRUE) => call.op = "readlink"
        BY DEF UnmetLink
  <2> QED BY <1>3, <2>2, <2>3, <2>4
<1> QED BY WhoReads, <1>2, <1>3 DEF ClientsTurn

(* What a call returns is a number, and negative if the worker failed.     *)
LEMMA Returns ==
  ASSUME Phase, lost = "none", Return
  PROVE  /\ Replied /\ call \in Calls /\ ret' \in Int
         /\ call.op \notin Silent => (ret' < 0 <=> failed)
<1>1. Replied /\ call \in Calls
      BY WhereClient DEF Return, ClientAt, Replied
<1>2. /\ cpc' = "idle" /\ lost' = "none" /\ call' = call /\ cTodo = <<>> /\ failed' = failed
      /\ ret' = Returned(call.op, IF call.op = "UpdateLocalUsers" THEN 0 ELSE Latest(cGot, "res"))
      BY DEF Return, ClientStops, ClientAt
<1>3. call.op \in OpNames
      BY <1>1, CallsTyped
<1>4. ErrorsReported'
      BY ReturnKeeps DEF AtIdle
<1>5. call.op \notin Silent => (ret' < 0 <=> failed)
  <2>1. call.op # "none"
        BY <1>3 DEF OpNames
  <2> QED BY <1>2, <1>4, <2>1 DEF ErrorsReported
<1>6. ret' \in Int
  <2>1. CASE call.op \in Silent
        BY <1>2, <2>1 DEF Returned, Silent
  <2>2. CASE call.op \notin Silent
    <3>1. PICK r \in Int : Learns("args", Tells(call.op, r), UnmetLink(call.op))
          BY <1>1 DEF Replied
    <3>2. <<"res", r>> \in Tells(call.op, r)
          BY <2>2 DEF Tells, Silent
    <3>3. Latest(cGot, "res") = r
      <4> DEFINE x == <<"res", r>>
                 V == Tells(call.op, r)
      <4>1. x[1] = "res" /\ x[2] = r /\ x \in V
            BY <3>2
      <4>2. \A z \in V : Latest(cGot, z[1]) = z[2]
            BY <1>2, <3>1, LearntAll
      <4> HIDE DEF x, V
      <4>3. Latest(cGot, x[1]) = x[2]
            BY <4>1, <4>2
      <4> QED BY <4>1, <4>3
    <3>4. ret' = Returned(call.op, r)
          BY <1>2, <2>2, <3>3 DEF Silent
    <3> QED BY <3>4 DEF Returned
  <2> QED BY <2>1, <2>2
<1> QED BY <1>1, <1>5, <1>6

(* What a step does to the conversation without its bytes: nothing, or one *)
(* step there.                                                             *)
Unseen == /\ Stage' = Stage /\ Asked' = Asked /\ Performed' = Performed
          /\ failed' = failed /\ ret' = ret

LEMMA ReadsRemote ==
  ASSUME Phase, lost = "none", WorkerRead \/ ClientRead
  PROVE  Unseen \/ Remote!Lose
<1>1. /\ cpc' = cpc /\ wst' = wst /\ call' = call /\ wop' = wop /\ failed' = failed /\ ret' = ret
      BY DEF WorkerRead, ClientRead
<1>2. Asked' = Asked /\ Performed' = Performed
      BY <1>1 DEF Asked, Performed
<1>3. CASE lost' = "none"
      BY <1>1, <1>2, <1>3 DEF Unseen, Stage
<1>4. ASSUME Stage' = "lost",
             \/ Stage = "registering"
             \/ Stage = "asked" /\ Asked \in WideBatch
             \/ Stage = "answered" /\ Asked.op = "readlink"
      PROVE  Remote!Lose
      BY <1>1, <1>2, <1>4 DEF Remote!Lose, Remote!Moves
<1>5. CASE ArgsSent /\ lost' = call.op /\ call \in WideBatch
  <2>1. cpc = "args" /\ wst = "InOperation" /\ call.op = "writebulk"
        BY <1>5 DEF ArgsSent, WideBatch
  <2>2. Stage' = "lost"
        BY <1>5, <2>1 DEF Stage
  <2>3. Stage = "asked" /\ Asked = call
        BY <2>1 DEF Stage, Asked
  <2> QED BY <1>4, <1>5, <2>2, <2>3
<1>6. CASE EmailSent /\ lost' = "registerAuth"
  <2>1. cpc = "regAuth"
        BY <1>6 DEF EmailSent
  <2>2. Stage' = "lost" /\ Stage = "registering"
        BY <1>6, <2>1 DEF Stage
  <2> QED BY <1>4, <2>2
<1>7. CASE Replied /\ call.op = "readlink" /\ lost' = "readlink"
  <2>1. cpc = "args" /\ wst = "WaitingForOperation"
        BY <1>7 DEF Replied
  <2>2. Stage' = "lost"
        BY <1>7 DEF Stage
  <2>3. Stage = "answered" /\ Asked = call
        BY <2>1 DEF Stage, Asked
  <2> QED BY <1>4, <1>7, <2>2, <2>3
<1> QED BY WorkerLoses, ClientLoses, <1>3, <1>5, <1>6, <1>7

LEMMA ClientRemote ==
  ASSUME Phase, lost = "none"
  PROVE  /\ SayHello => Unseen
         /\ Mounted => Remote!Mount
         /\ Refused \/ Registered => Remote!End
         /\ SayRegister => Remote!Enroll
         /\ \A n \in Names : SayShare(n) \/ SayEmail(n) \/ SayComputer(n) => Unseen
         /\ \A k \in Calls : Begin(k) => Remote!Ask(k)
         /\ SendArgs => Unseen
         /\ Return => Remote!Return
<1>1. ASSUME NEW p, NEW q, cpc = p, cpc' = q, lost' = "none", wst' = wst, wop' = wop, failed' = failed,
             ret' = ret, p \notin {"idle", "op", "args"}, q \notin {"idle", "op", "args"}
      PROVE  Asked' = Asked /\ Performed' = Performed
      BY <1>1 DEF Asked, Performed
<1>2. SayHello => Unseen
  <2> SUFFICES ASSUME SayHello PROVE Unseen
      OBVIOUS
  <2>1. /\ cpc = "start" /\ cpc' = "hello" /\ lost' = "none" /\ wst' = wst /\ wop' = wop
        /\ failed' = failed /\ ret' = ret
        BY DEF SayHello, ClientAt, ClientSays
  <2> QED BY <1>1, <2>1 DEF Unseen, Stage
<1>3. Mounted => Remote!Mount
  <2> SUFFICES ASSUME Mounted PROVE Remote!Mount
      OBVIOUS
  <2>1. /\ cpc = "share" /\ cpc' = "idle" /\ lost' = "none" /\ wst' = wst /\ wop' = wop
        /\ failed' = failed /\ ret' = ret /\ call' = call
        BY DEF Mounted, ClientAt, ClientStops
  <2>2. call = NoCall
        BY MountedKeeps
  <2>3. Asked' = Asked /\ Performed' = Performed
        BY <2>1, <2>2 DEF Asked, Performed
  <2>4. Stage = "connected" /\ Stage' = "ready"
        BY <2>1 DEF Stage
  <2> QED BY <2>1, <2>3, <2>4 DEF Remote!Mount, Remote!Moves
<1>4. Refused \/ Registered => Remote!End
  <2> SUFFICES ASSUME Refused \/ Registered PROVE Remote!End
      OBVIOUS
  <2>1. /\ cpc \in {"hello", "share", "regAuth", "regInfo"} /\ cpc' \in {"refused", "registered"}
        /\ lost' = "none" /\ wst' = wst /\ wop' = wop /\ failed' = failed /\ ret' = ret
        BY DEF Refused, Registered, ClientAt, ClientStops
  <2>2. Asked' = Asked /\ Performed' = Performed
        BY <1>1, <2>1
  <2>3. Stage \in {"connected", "registering"} /\ Stage' = "ended"
        BY <2>1 DEF Stage
  <2> QED BY <2>1, <2>2, <2>3 DEF Remote!End, Remote!Moves
<1>5. SayRegister => Remote!Enroll
  <2> SUFFICES ASSUME SayRegister PROVE Remote!Enroll
      OBVIOUS
  <2>1. /\ cpc = "start" /\ cpc' = "register" /\ lost' = "none" /\ wst' = wst /\ wop' = wop
        /\ failed' = failed /\ ret' = ret
        BY DEF SayRegister, ClientAt, ClientSays
  <2>2. Stage = "connected" /\ Stage' = "registering"
        BY <2>1 DEF Stage
  <2> QED BY <1>1, <2>1, <2>2 DEF Remote!Enroll, Remote!Moves
<1>6. ASSUME NEW n \in Names, SayShare(n) \/ SayEmail(n) \/ SayComputer(n) PROVE Unseen
  <2>1. /\ lost' = "none" /\ wst' = wst /\ wop' = wop /\ failed' = failed /\ ret' = ret
        /\ \/ cpc = "hello" /\ cpc' = "share"
           \/ cpc = "register" /\ cpc' = "regAuth"
           \/ cpc = "regAuth" /\ cpc' = "regInfo"
        BY <1>6 DEF SayShare, SayEmail, SayComputer, ClientAt, ClientSays
  <2> QED BY <1>1, <2>1 DEF Unseen, Stage
<1>7. ASSUME NEW k \in Calls, Begin(k) PROVE Remote!Ask(k)
  <2>1. /\ cpc = "idle" /\ cpc' = "op" /\ call' = k /\ lost' = "none" /\ failed' = failed /\ ret' = ret
        BY <1>7 DEF Begin, ClientAt, ClientSays
  <2>2. Stage = "ready" /\ Stage' = "asked" /\ Asked' = k /\ Performed' = "none"
        BY <2>1 DEF Stage, Asked, Performed
  <2> QED BY <2>1, <2>2 DEF Remote!Ask, Remote!Moves
<1>8. SendArgs => Unseen
  <2> SUFFICES ASSUME SendArgs PROVE Unseen
      OBVIOUS
  <2>1. /\ cpc = "op" /\ cpc' = "args" /\ lost' = "none" /\ wst' = wst /\ call' = call
        /\ failed' = failed /\ ret' = ret
        BY DEF SendArgs, ClientAt, ClientSays
  <2>2. wst = "InOperation"
        BY WhereClient DEF SendArgs, ClientAt, OpTaken
  <2> QED BY <2>1, <2>2 DEF Unseen, Stage, Asked, Performed
<1>9. Return => Remote!Return
  <2> SUFFICES ASSUME Return PROVE Remote!Return
      OBVIOUS
  <2>1. /\ cpc = "args" /\ cpc' = "idle" /\ lost' = "none" /\ wst' = wst /\ wop' = wop /\ call' = call
        /\ failed' = failed
        BY DEF Return, ClientAt, ClientStops
  <2>2. /\ wst = "WaitingForOperation" /\ ret' \in Int
        /\ call.op \notin Silent => (ret' < 0 <=> failed)
        BY Returns DEF Replied
  <2>3. Stage = "answered" /\ Stage' = "ready"
        BY <2>1, <2>2 DEF Stage
  <2>4. Asked' = Asked /\ Performed' = Performed /\ Asked = call
        BY <2>1 DEF Asked, Performed
  <2> QED BY <2>1, <2>2, <2>3, <2>4 DEF Remote!Return, Remote!Moves
<1> QED BY <1>2, <1>3, <1>4, <1>5, <1>6, <1>7, <1>8, <1>9

LEMMA WorkerRemote ==
  ASSUME Phase, lost = "none"
  PROVE  /\ GreetRefused \/ Greet \/ GiveShare \/ StartRegistration \/ Authenticate \/ FileRequest => Unseen
         /\ GetOperation => Unseen
         /\ \A n \in Names : Operate(n) => Remote!Perform
<1>1. GreetRefused \/ Greet \/ GiveShare \/ StartRegistration \/ Authenticate \/ FileRequest => Unseen
  <2> SUFFICES ASSUME GreetRefused \/ Greet \/ GiveShare \/ StartRegistration \/ Authenticate \/ FileRequest
               PROVE  Unseen
      OBVIOUS
  <2>1. /\ cpc' = cpc /\ lost' = "none" /\ call' = call /\ failed' = failed /\ ret' = ret
        BY DEF GreetRefused, Greet, GiveShare, StartRegistration, Authenticate, FileRequest, WorkerAt, WorkerSays
  <2>2. HelloSent \/ RegisterSent \/ ShareSent \/ EmailSent \/ ComputerSent
        BY WhereWorker DEF GreetRefused, Greet, GiveShare, StartRegistration, Authenticate, FileRequest, WorkerAt
  <2>3. cpc \notin {"idle", "op", "args"}
        BY <2>2 DEF HelloSent, RegisterSent, ShareSent, EmailSent, ComputerSent
  <2> QED BY <2>1, <2>3 DEF Unseen, Stage, Asked, Performed
<1>2. GetOperation => Unseen
  <2> SUFFICES ASSUME GetOperation PROVE Unseen
      OBVIOUS
  <2>1. /\ cpc' = cpc /\ lost' = "none" /\ call' = call /\ failed' = failed /\ ret' = ret
        BY DEF GetOperation, WorkerAt, WorkerSays
  <2>2. cpc = "op"
        BY WhereWorker DEF GetOperation, WorkerAt, OpSent
  <2> QED BY <2>1, <2>2 DEF Unseen, Stage, Asked, Performed
<1>3. ASSUME NEW n \in Names, Operate(n) PROVE Remote!Perform
  <2>1. ArgsSent /\ call \in Calls /\ wop = call.op /\ wst = "InOperation"
        BY <1>3, HeardCall DEF Operate, WorkerAt
  <2>2. cpc = "args"
        BY <2>1 DEF ArgsSent
  <2>3. /\ cpc' = cpc /\ lost' = "none" /\ call' = call /\ ret' = ret /\ wop' = wop
        /\ wst' = "WaitingForOperation"
        BY <1>3 DEF Operate, WorkerSays
  <2>4. failed' \in BOOLEAN
        BY <1>3, OperateKeeps
  <2>5. call # NoCall
    <3>1. call.op # "none"
          BY <2>1, CallsTyped DEF OpNames
    <3>2. NoCall.op = "none"
          BY DEF NoCall
    <3> QED BY <3>1, <3>2
  <2>6. Stage = "asked" /\ Stage' = "answered"
        BY <2>1, <2>2, <2>3 DEF Stage
  <2>7. Asked = call /\ Asked' = Asked /\ Performed' = call.op
        BY <2>1, <2>2, <2>3, <2>5 DEF Asked, Performed
  <2> QED BY <2>3, <2>4, <2>6, <2>7 DEF Remote!Perform, Remote!Moves
<1> QED BY <1>1, <1>2, <1>3

LEMMA RemoteInit == Init => Remote!Init
BY DEF Init, Remote!Init, Stage, Asked, Performed

LEMMA RemoteNext == Inv /\ [Next]_vars => [Remote!Next]_(Remote!remoteVars)
<1> SUFFICES ASSUME Inv, [Next]_vars PROVE Remote!Next \/ Unseen
    BY DEF Unseen, Remote!remoteVars
<1>1. CASE UNCHANGED vars
      BY <1>1 DEF vars, Unseen, Stage, Asked, Performed
<1>2. CASE Next
  <2>1. lost = "none"
        BY <1>2, OnlyUnlost
  <2>2. Phase
        BY <2>1 DEF Inv
  <2>3. CASE WorkerRead \/ ClientRead
        BY <2>1, <2>2, <2>3, ReadsRemote DEF Remote!Next
  <2>4. CASE Client
        BY <2>1, <2>2, <2>3, <2>4, ClientRemote DEF Client, Remote!Next
  <2>5. CASE Worker
        BY <2>1, <2>2, <2>3, <2>5, WorkerRemote DEF Worker, Remote!Next
  <2>6. CASE \E k \in Calls : Begin(k)
        BY <2>1, <2>2, <2>6, ClientRemote DEF Remote!Next
  <2> QED BY <1>2, <2>4, <2>5, <2>6 DEF Next
<1> QED BY <1>1, <1>2

(* The bytes implement the calls: whatever the names, the lengths and the  *)
(* number of calls, each is performed once and returns what came of it.    *)
THEOREM BytesImplementCalls == Spec => ImplementsRemoteCall
<1> QED BY Invariance, RemoteInit, RemoteNext, PTL DEF Spec, ImplementsRemoteCall, Remote!Spec
=============================================================================
