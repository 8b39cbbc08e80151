-------------------------- MODULE WebRequestProofs --------------------------
(***************************************************************************)
(* What WebRequest guarantees for any requests, bounds and width of uint.  *)
(*                                                                         *)
(* Stream: what the worker has read, what has come and what is still to be *)
(* sent follow one another in the request.  Place: where in the request    *)
(* each step of processHttpRequest reads, and what reqLength still counts. *)
(* Parted: the parts before the index of resolveRelative are names, and    *)
(* all parts are some of those that were asked for.                        *)
(***************************************************************************)
EXTENDS WebRequest, SequenceTheorems, WellFoundedInduction, TLAPS

Piece == Lines \cup {"line", "blank", "body"}

(* Where the headers end, and where what was stated of the body does.      *)
HeadEnd == Len(asked.headers) + 2
BodyEnd == HeadEnd + asked.stated

-----------------------------------------------------------------------------
(* Sequences lying one behind the other in a longer one                    *)

Lies(s, all, n) == \A k \in 1..Len(s) : s[k] = all[n + k]

LEMMA LiesTail ==
  ASSUME NEW s \in Seq(Piece), s # <<>>, NEW all, NEW n \in Nat, Lies(s, all, n)
  PROVE  /\ Head(s) = all[n + 1] /\ Head(s) \in Piece /\ Tail(s) \in Seq(Piece)
         /\ Len(Tail(s)) = Len(s) - 1 /\ Len(s) \in Nat /\ Len(s) >= 1
         /\ Lies(Tail(s), all, n + 1)
<1>1. Len(s) \in Nat /\ Len(s) >= 1
  BY LenProperties, EmptySeq
<1>2. /\ Head(s) \in Piece /\ Tail(s) \in Seq(Piece) /\ Len(Tail(s)) = Len(s) - 1
      /\ \A k \in 1..Len(Tail(s)) : Tail(s)[k] = s[k + 1]
  BY HeadTailProperties
<1>3. Head(s) = s[1]
  OBVIOUS
<1>4. Head(s) = all[n + 1]
  BY <1>1, <1>3 DEF Lies
<1>5. ASSUME NEW k \in 1..Len(Tail(s))
      PROVE  Tail(s)[k] = all[(n + 1) + k]
  <2>1. k \in Nat /\ k + 1 \in 1..Len(s) /\ n + (k + 1) = (n + 1) + k
    BY <1>1, <1>2
  <2>2. s[k + 1] = all[n + (k + 1)]
    BY <2>1 DEF Lies
  <2> QED BY <1>2, <2>1, <2>2
<1> QED BY <1>1, <1>2, <1>4, <1>5 DEF Lies

LEMMA LiesAppend ==
  ASSUME NEW s \in Seq(Piece), NEW all, NEW n \in Nat, Lies(s, all, n),
         NEW e \in Piece, e = all[n + (Len(s) + 1)]
  PROVE  /\ Append(s, e) \in Seq(Piece) /\ Len(Append(s, e)) = Len(s) + 1
         /\ Len(s) \in Nat /\ Lies(Append(s, e), all, n)
<1>1. Len(s) \in Nat
  BY LenProperties
<1>2. /\ Append(s, e) \in Seq(Piece) /\ Len(Append(s, e)) = Len(s) + 1
      /\ \A k \in 1..Len(s) : Append(s, e)[k] = s[k]
      /\ Append(s, e)[Len(s) + 1] = e
  BY AppendProperties
<1>3. ASSUME NEW k \in 1..(Len(s) + 1)
      PROVE  Append(s, e)[k] = all[n + k]
  <2>1. k \in 1..Len(s) \/ k = Len(s) + 1
    BY <1>1
  <2> QED BY <1>2, <2>1 DEF Lies
<1> QED BY <1>1, <1>2, <1>3 DEF Lies

LEMMA LiesConcat ==
  ASSUME NEW s \in Seq(Piece), NEW t \in Seq(Piece), NEW all, NEW n \in Nat,
         Lies(s, all, n), Lies(t, all, n + Len(s))
  PROVE  /\ s \o t \in Seq(Piece) /\ Len(s \o t) = Len(s) + Len(t)
         /\ Len(s) \in Nat /\ Len(t) \in Nat /\ Lies(s \o t, all, n)
<1>1. Len(s) \in Nat /\ Len(t) \in Nat
  BY LenProperties
<1>2. /\ s \o t \in Seq(Piece) /\ Len(s \o t) = Len(s) + Len(t)
      /\ \A k \in 1..Len(s) + Len(t) :
           (s \o t)[k] = IF k <= Len(s) THEN s[k] ELSE t[k - Len(s)]
  BY ConcatProperties
<1>3. ASSUME NEW k \in 1..Len(s) + Len(t)
      PROVE  (s \o t)[k] = all[n + k]
  <2>1. CASE k <= Len(s)
    BY <1>1, <1>2, <2>1 DEF Lies
  <2>2. CASE ~(k <= Len(s))
    <3>1. k - Len(s) \in 1..Len(t) /\ (n + Len(s)) + (k - Len(s)) = n + k
      BY <1>1, <2>2
    <3>2. t[k - Len(s)] = all[(n + Len(s)) + (k - Len(s))]
      BY <3>1 DEF Lies
    <3> QED BY <1>2, <2>2, <3>1, <3>2
  <2> QED BY <2>1, <2>2
<1> QED BY <1>1, <1>2, <1>3 DEF Lies

(* What lies at the beginning is a prefix. *)
LEMMA LiesPrefix ==
  ASSUME NEW s \in Seq(Piece), NEW all \in Seq(Piece), Lies(s, all, 0), Len(s) <= Len(all)
  PROVE  IsPrefix(s, all)
<1>1. Len(s) \in Nat /\ Len(all) \in Nat
  BY LenProperties
<1>2. SubSeq(s, 1, Len(s)) = s
  BY SubSeqFull
<1>3. \A k \in 1..Len(s) : all[k] \in Piece
  BY <1>1, ElementOfSeq
<1>4. /\ SubSeq(all, 1, Len(s)) \in Seq(Piece)
      /\ Len(SubSeq(all, 1, Len(s))) = Len(s)
      /\ \A k \in 1..Len(s) : SubSeq(all, 1, Len(s))[k] = all[k]
  <2>1. 1 \in Int /\ Len(s) \in Int
    BY <1>1
  <2>2. /\ SubSeq(all, 1, Len(s)) \in Seq(Piece)
        /\ Len(SubSeq(all, 1, Len(s))) = IF 1 <= Len(s) THEN Len(s) - 1 + 1 ELSE 0
        /\ \A k \in 1..(Len(s) - 1 + 1) : SubSeq(all, 1, Len(s))[k] = all[1 + k - 1]
    BY <1>3, <2>1, SubSeqProperties
  <2> QED BY <1>1, <2>2
<1>5. \A k \in 1..Len(s) : s[k] = all[k]
  BY <1>1 DEF Lies
<1>6. SubSeq(all, 1, Len(s)) = s
  BY <1>4, <1>5, SeqEqual
<1> QED BY <1>2, <1>6 DEF IsPrefix

-----------------------------------------------------------------------------
(* The pieces of a request                                                 *)

(* The line, then the headers, then the blank line, then the body. *)
LEMMA PiecesAt ==
  ASSUME NEW a \in Asked
  PROVE  /\ Pieces(a) \in Seq(Piece)
         /\ Len(a.headers) \in Nat /\ a.body \in Nat
         /\ Len(Pieces(a)) = Len(a.headers) + 2 + a.body
         /\ \A k \in 2..(Len(a.headers) + 1) : Pieces(a)[k] \in Lines
         /\ Pieces(a)[Len(a.headers) + 2] = "blank"
<1> DEFINE h == a.headers   n == Len(a.headers)   b == [k \in 1..a.body |-> "body"]
<1>1. h \in Seq(Lines) /\ n \in Nat /\ a.body \in Nat
  <2>1. h \in Seq(Lines) /\ a.body \in 0..MaxBody + 1 /\ MaxBody \in Nat
    BY WebRequestAssumption
  <2> QED BY <2>1, LenProperties
<1>2. h \in Seq(Piece)
  BY <1>1, SeqMonotonic DEF Piece
<1>3. <<"line">> \in Seq(Piece) /\ <<"blank">> \in Seq(Piece)
      /\ Len(<<"line">>) = 1 /\ Len(<<"blank">>) = 1 /\ <<"blank">>[1] = "blank"
  BY DEF Piece
<1>4. b \in Seq(Piece) /\ Len(b) = a.body
  BY <1>1 DEF Piece
<1> HIDE DEF b
<1> DEFINE s1 == <<"line">> \o h   t == <<"blank">>   s2 == s1 \o t
<1>5. /\ s1 \in Seq(Piece) /\ Len(s1) = 1 + n
      /\ \A k \in 1..1 + n : s1[k] = IF k <= 1 THEN <<"line">>[k] ELSE h[k - 1]
  BY <1>2, <1>3, ConcatProperties
<1> HIDE DEF s1, t
<1>6. /\ s2 \in Seq(Piece) /\ Len(s2) = 1 + n + 1
      /\ \A k \in 1..1 + n + 1 : s2[k] = IF k <= 1 + n THEN s1[k] ELSE t[k - (1 + n)]
  <2>1. t \in Seq(Piece) /\ Len(t) = 1
    BY <1>3 DEF t
  <2>2. /\ s1 \o t \in Seq(Piece) /\ Len(s1 \o t) = Len(s1) + Len(t)
        /\ \A k \in 1..Len(s1) + Len(t) :
             (s1 \o t)[k] = IF k <= Len(s1) THEN s1[k] ELSE t[k - Len(s1)]
    BY <1>5, <2>1, ConcatProperties
  <2> QED BY <1>5, <2>1, <2>2
<1> HIDE DEF s2
<1>7. /\ s2 \o b \in Seq(Piece) /\ Len(s2 \o b) = 1 + n + 1 + a.body
      /\ \A k \in 1..1 + n + 1 + a.body :
           (s2 \o b)[k] = IF k <= 1 + n + 1 THEN s2[k] ELSE b[k - (1 + n + 1)]
  <2>1. /\ s2 \o b \in Seq(Piece) /\ Len(s2 \o b) = Len(s2) + Len(b)
        /\ \A k \in 1..Len(s2) + Len(b) :
             (s2 \o b)[k] = IF k <= Len(s2) THEN s2[k] ELSE b[k - Len(s2)]
    <3>1. s2 \in Seq(Piece) /\ b \in Seq(Piece)
      BY <1>4, <1>6
    <3> QED BY ONLY <3>1, ConcatProperties
  <2> QED BY <1>4, <1>6, <2>1
<1>8. Pieces(a) = s2 \o b
  BY DEF Pieces, s1, t, s2, b
<1>9. ASSUME NEW k \in 2..(n + 1)
      PROVE  Pieces(a)[k] \in Lines
  <2>1. k \in 1..1 + n + 1 + a.body /\ k <= 1 + n + 1 /\ k <= 1 + n /\ ~(k <= 1)
        /\ k \in 1..1 + n /\ k \in 1..1 + n + 1 /\ k - 1 \in 1..n
    BY <1>1
  <2>2. Pieces(a)[k] = h[k - 1]
    BY <1>5, <1>6, <1>7, <1>8, <2>1
  <2> QED BY <1>1, <2>1, <2>2, ElementOfSeq
<1>10. Pieces(a)[n + 2] = "blank"
  <2>1. n + 2 \in 1..1 + n + 1 + a.body /\ n + 2 <= 1 + n + 1 /\ ~(n + 2 <= 1 + n)
        /\ n + 2 \in 1..1 + n + 1 /\ (n + 2) - (1 + n) = 1
    BY <1>1
  <2> QED BY <1>3, <1>6, <1>7, <1>8, <2>1 DEF t
<1>11. Len(Pieces(a)) = n + 2 + a.body
  BY <1>1, <1>7, <1>8
<1> QED BY <1>1, <1>7, <1>8, <1>9, <1>10, <1>11

-----------------------------------------------------------------------------
(* Where the worker reads                                                  *)

(* What was read, what has come and what is to be sent. *)
Stream ==
  /\ asked \in Asked
  /\ Request \in Seq(Piece) /\ input \in Seq(Piece) /\ toSend \in Seq(Piece)
  /\ Lies(Request, Pieces(asked), 0)
  /\ Lies(input, Pieces(asked), Len(Request))
  /\ Lies(toSend, Pieces(asked), Len(Request) + Len(input))
  /\ Len(Request) + Len(input) + Len(toSend) = Len(Pieces(asked))

(* What is left up to e after r, unsigned. *)
Counter(e, r) == IF e >= r THEN e - r ELSE U32 + (e - r)

(* The line is read first, then a header at a time; the page runs when the *)
(* stated body was read.  More than that has been read when reqLength has  *)
(* gone below zero, and then it is far from it.                            *)
Place ==
  /\ length \in {-1, asked.stated}
  /\ pc = "line" => Request = <<>>
  /\ pc \in {"resolve", "lookup"} => Len(Request) = 1
  /\ pc \in {"headers", "header"} => Len(Request) \in 1..HeadEnd - 1
  /\ pc = "body" => /\ length = asked.stated
                    /\ Len(Request) >= HeadEnd
                    /\ reqLength = Counter(BodyEnd, Len(Request))
  /\ pc \in {"run", "compile", "exec"} =>
       Len(Request) = HeadEnd + (IF length >= 0 THEN asked.stated ELSE 0)

PageInv == Stream /\ Place

(* The numbers of a request. *)
LEMMA AskedNumbers ==
  ASSUME Stream
  PROVE  /\ Len(Request) \in Nat /\ Len(input) \in Nat /\ Len(toSend) \in Nat
         /\ Len(asked.headers) \in Nat /\ asked.stated \in Nat /\ asked.body \in Nat
         /\ HeadEnd \in Nat /\ BodyEnd \in Nat /\ HeadEnd <= BodyEnd
         /\ U32 \in Nat /\ asked.body < U32 /\ asked.stated < U32
         /\ Len(Request) + Len(input) <= HeadEnd + asked.body
         /\ Len(Request) <= Len(Pieces(asked))
<1>1. /\ Len(Request) \in Nat /\ Len(input) \in Nat /\ Len(toSend) \in Nat
      /\ asked \in Asked
  BY LenProperties DEF Stream
<1>2. /\ Len(asked.headers) \in Nat /\ asked.body \in Nat
      /\ Len(Pieces(asked)) = Len(asked.headers) + 2 + asked.body
  BY <1>1, PiecesAt
<1>3. /\ asked.stated \in 0..MaxBody /\ asked.body \in 0..MaxBody + 1 /\ MaxBody \in Nat
      /\ U32 \in Nat /\ U32 > MaxBody + 1
  BY <1>1, WebRequestAssumption
<1>4. Len(Request) + Len(input) + Len(toSend) = Len(Pieces(asked))
  BY DEF Stream
<1>5. HeadEnd = Len(asked.headers) + 2 /\ BodyEnd = HeadEnd + asked.stated
  BY DEF HeadEnd, BodyEnd
<1>6. HeadEnd \in Nat /\ BodyEnd \in Nat /\ HeadEnd <= BodyEnd /\ asked.stated \in Nat
  BY <1>2, <1>3, <1>5
<1>7. asked.body < U32 /\ asked.stated < U32
  BY <1>3
<1>8. Len(Request) + Len(input) <= HeadEnd + asked.body /\ Len(Request) <= Len(Pieces(asked))
  BY <1>1, <1>2, <1>4, <1>5
<1> QED BY <1>1, <1>2, <1>3, <1>6, <1>7, <1>8

LEMMA StreamInit == Init => Stream /\ Place
<1> SUFFICES ASSUME Init PROVE Stream /\ Place
  OBVIOUS
<1>1. /\ asked \in Asked /\ toSend = Pieces(asked) /\ input = <<>> /\ Request = <<>>
      /\ pc = "line" /\ length = -1
  BY DEF Init
<1>2. /\ Pieces(asked) \in Seq(Piece) /\ <<>> \in Seq(Piece) /\ Len(<<>>) = 0
      /\ Len(Pieces(asked)) \in Nat
  BY <1>1, PiecesAt, EmptySeq, LenProperties
<1>3. Lies(<<>>, Pieces(asked), 0)
  BY <1>2 DEF Lies
<1>4. Lies(toSend, Pieces(asked), 0 + 0)
  BY <1>1 DEF Lies
<1>5. Stream
  BY <1>1, <1>2, <1>3, <1>4 DEF Stream
<1> QED BY <1>1, <1>5 DEF Place

(* The next piece that has come is read. *)
LEMMA ReadsOne ==
  ASSUME Stream, input # <<>>, Request' = Append(Request, Head(input)), input' = Tail(input),
         UNCHANGED <<asked, toSend>>
  PROVE  /\ Stream'
         /\ Len(Request') = Len(Request) + 1
         /\ Head(input) = Pieces(asked)[Len(Request) + 1]
<1> DEFINE all == Pieces(asked)   r == Len(Request)
<1>1. /\ Request \in Seq(Piece) /\ input \in Seq(Piece) /\ r \in Nat /\ Lies(input, all, r)
      /\ Lies(Request, all, 0) /\ Len(input) \in Nat /\ Len(toSend) \in Nat
  BY AskedNumbers DEF Stream
<1> HIDE DEF all, r
<1>2. /\ Head(input) = all[r + 1] /\ Head(input) \in Piece /\ Tail(input) \in Seq(Piece)
      /\ Len(Tail(input)) = Len(input) - 1 /\ Lies(Tail(input), all, r + 1)
  BY <1>1, LiesTail
<1>3. Head(input) = all[0 + (Len(Request) + 1)]
  BY <1>1, <1>2 DEF r
<1>4. /\ Append(Request, Head(input)) \in Seq(Piece)
      /\ Len(Append(Request, Head(input))) = Len(Request) + 1
      /\ Lies(Append(Request, Head(input)), all, 0)
  BY <1>1, <1>2, <1>3, LiesAppend
<1>5. (r + 1) + (Len(input) - 1) = r + Len(input)
  BY <1>1
<1>6. Stream'
  BY <1>1, <1>2, <1>4, <1>5 DEF Stream, all, r
<1> QED BY <1>2, <1>4, <1>6 DEF all, r

(* All that has come is read. *)
LEMMA ReadsAll ==
  ASSUME Stream, Request' = Request \o input, input' = <<>>, UNCHANGED <<asked, toSend>>
  PROVE  Stream' /\ Len(Request') = Len(Request) + Len(input)
<1> DEFINE all == Pieces(asked)
<1>1. /\ Request \in Seq(Piece) /\ input \in Seq(Piece) /\ Len(Request) \in Nat
      /\ Lies(input, all, Len(Request)) /\ Lies(Request, all, 0)
      /\ Len(input) \in Nat /\ Len(toSend) \in Nat
  BY AskedNumbers DEF Stream
<1>2. Lies(input, all, 0 + Len(Request))
  BY <1>1
<1>3. /\ Request \o input \in Seq(Piece) /\ Len(Request \o input) = Len(Request) + Len(input)
      /\ Lies(Request \o input, all, 0)
  <2> HIDE DEF all
  <2> QED BY <1>1, <1>2, LiesConcat
<1>4. <<>> \in Seq(Piece) /\ Len(<<>>) = 0 /\ \A n : Lies(<<>>, all, n)
  BY EmptySeq DEF Lies
<1>5. Lies(toSend, all, Len(Request \o input) + 0)
  BY <1>1, <1>3 DEF Stream
<1>6. Len(Request \o input) + 0 + Len(toSend) = Len(all)
  BY <1>1, <1>3 DEF Stream
<1>7. Stream'
  BY <1>3, <1>4, <1>5, <1>6 DEF Stream
<1> QED BY <1>3, <1>7

(* The browser sends the next piece. *)
LEMMA SendsOne ==
  ASSUME Stream, Send
  PROVE  Stream'
<1> DEFINE all == Pieces(asked)   m == Len(Request) + Len(input)
<1>1. /\ toSend # <<>> /\ input' = Append(input, Head(toSend)) /\ toSend' = Tail(toSend)
      /\ UNCHANGED <<asked, Request>>
  BY DEF Send
<1>2. /\ toSend \in Seq(Piece) /\ input \in Seq(Piece) /\ Len(Request) \in Nat /\ Len(input) \in Nat
      /\ m \in Nat /\ Len(toSend) \in Nat
      /\ Lies(toSend, all, m) /\ Lies(input, all, Len(Request))
  BY AskedNumbers DEF Stream
<1>3. /\ Head(toSend) = all[m + 1] /\ Head(toSend) \in Piece /\ Tail(toSend) \in Seq(Piece)
      /\ Len(Tail(toSend)) = Len(toSend) - 1 /\ Lies(Tail(toSend), all, m + 1)
  <2> HIDE DEF all, m
  <2> QED BY <1>1, <1>2, LiesTail
<1>4. Head(toSend) = all[Len(Request) + (Len(input) + 1)]
  BY <1>2, <1>3
<1>5. /\ Append(input, Head(toSend)) \in Seq(Piece)
      /\ Len(Append(input, Head(toSend))) = Len(input) + 1
      /\ Lies(Append(input, Head(toSend)), all, Len(Request))
  <2> HIDE DEF all, m
  <2> QED BY <1>2, <1>3, <1>4, LiesAppend
<1>6. m + 1 = Len(Request) + Len(input')
  BY <1>1, <1>2, <1>5
<1>7. Len(Request) + Len(input') + Len(toSend') = Len(all)
  BY <1>1, <1>2, <1>3, <1>5 DEF Stream
<1> QED BY <1>1, <1>3, <1>5, <1>6, <1>7 DEF Stream

-----------------------------------------------------------------------------
(* The steps                                                               *)

(* A step that reads nothing and stays within the request. *)
LEMMA StreamStable ==
  ASSUME Stream, UNCHANGED <<asked, Request, input, toSend>>
  PROVE  Stream'
  BY DEF Stream

(* A number less than U32 away from zero, as an unsigned one.              *)
LEMMA Unsigned ==
  ASSUME NEW U \in Nat, NEW x \in Int, x < U, 0 <= x + U
  PROVE  x % U = IF x >= 0 THEN x ELSE x + U
<1>1. CASE x >= 0
  BY <1>1
<1>2. CASE x < 0
  BY <1>2
<1> QED BY <1>1, <1>2

(* The counter goes below zero at most once. *)
LEMMA CountsDown ==
  ASSUME NEW e \in Nat, NEW r \in Nat, NEW n \in Nat,
         U32 \in Nat, e - r < U32, (r + n) - e < U32
  PROVE  (Counter(e, r) - n) % U32 = Counter(e, r + n)
<1> DEFINE c == Counter(e, r)
<1>1. CASE e >= r
  <2>1. c - n = e - (r + n) /\ c - n \in Int /\ c - n < U32 /\ 0 <= (c - n) + U32
    BY <1>1 DEF Counter
  <2>2. (c - n) % U32 = IF c - n >= 0 THEN c - n ELSE (c - n) + U32
    BY ONLY <2>1, U32 \in Nat, Unsigned
  <2> QED BY <2>1, <2>2 DEF Counter
<1>2. CASE e < r
  <2>1. c - n = U32 + (e - (r + n)) /\ c - n \in Int /\ c - n < U32 /\ 0 <= c - n
        /\ 0 <= (c - n) + U32
    BY <1>2 DEF Counter
  <2>2. (c - n) % U32 = IF c - n >= 0 THEN c - n ELSE (c - n) + U32
    BY ONLY <2>1, U32 \in Nat, Unsigned
  <2> QED BY <1>2, <2>1, <2>2 DEF Counter
<1> QED BY <1>1, <1>2

LEMMA PageNext == PageInv /\ [Next]_vars => PageInv'
<1> SUFFICES ASSUME PageInv, [Next]_vars
             PROVE  PageInv'
  OBVIOUS
<1>1. Stream /\ Place
  BY DEF PageInv
<1>2. /\ Len(Request) \in Nat /\ Len(input) \in Nat /\ HeadEnd \in Nat /\ BodyEnd \in Nat
      /\ HeadEnd = Len(asked.headers) + 2 /\ Len(asked.headers) \in Nat
      /\ BodyEnd = HeadEnd + asked.stated /\ asked.stated \in Nat /\ asked \in Asked
      /\ asked.body \in Nat /\ U32 \in Nat /\ asked.body < U32 /\ asked.stated < U32
      /\ Len(Request) + Len(input) <= HeadEnd + asked.body
  BY <1>1, AskedNumbers DEF HeadEnd, BodyEnd, Stream
<1>3. asked' = asked => HeadEnd' = HeadEnd /\ BodyEnd' = BodyEnd
  BY DEF HeadEnd, BodyEnd
<1>4. ASSUME UNCHANGED <<asked, Request, length, reqLength>>, Stream', pc' = pc
      PROVE  PageInv'
  BY <1>1, <1>3, <1>4 DEF PageInv, Place
<1>5. CASE UNCHANGED vars
  <2>1. Stream'
    BY <1>1, <1>5, StreamStable DEF vars
  <2> QED BY <1>4, <1>5, <2>1 DEF vars
<1>6. CASE Send
  <2>1. Stream'
    BY <1>1, <1>6, SendsOne
  <2> QED BY <1>4, <1>6, <2>1 DEF Send
<1>7. CASE Leave
  <2>1. UNCHANGED <<asked, Request, input, toSend, length, reqLength, pc>>
    BY <1>7 DEF Leave, read
  <2>2. Stream'
    BY <1>1, <2>1, StreamStable
  <2> QED BY <1>4, <2>1, <2>2
<1>8. ASSUME UNCHANGED <<asked, Request, input, toSend, length, reqLength>>, Place'
      PROVE  PageInv'
  BY <1>1, <1>8, StreamStable DEF PageInv
<1>9. CASE ReadLine
  <2>1. /\ input # <<>> /\ Request = <<>> /\ Request' = <<Head(input)>> /\ input' = Tail(input)
        /\ pc' = "resolve" /\ UNCHANGED <<asked, toSend, length>>
    BY <1>1, <1>9 DEF ReadLine, Browser, Place
  <2>2. Request' = Append(Request, Head(input))
    BY <2>1
  <2>3. Stream' /\ Len(Request') = Len(Request) + 1
    BY <1>1, <2>1, <2>2, ReadsOne
  <2>4. Len(Request') = 1
    BY <2>1, <2>3
  <2>5. Place'
    BY <1>1, <2>1, <2>4 DEF Place
  <2> QED BY <2>3, <2>5 DEF PageInv
<1>10. CASE Resolve
  <2>1. /\ pc = "resolve" /\ pc' \in {"resolve", "lookup"}
        /\ UNCHANGED <<asked, Request, input, toSend, length, reqLength>>
    BY <1>10 DEF Resolve, Browser, read
  <2>2. Place'
    BY <1>1, <2>1 DEF Place
  <2> QED BY <1>8, <2>1, <2>2
<1>11. CASE Lookup
  <2>1. /\ pc = "lookup" /\ pc' \in {"headers", "written"}
        /\ UNCHANGED <<asked, Request, input, toSend, length, reqLength>>
    BY <1>11 DEF Lookup, Browser, read, Answer
  <2>2. Len(Request') \in 1..HeadEnd' - 1
    <3>1. Len(Request') = 1 /\ HeadEnd' = HeadEnd
      BY <1>1, <1>3, <2>1 DEF Place
    <3>2. 1 \in 1..HeadEnd - 1
      BY ONLY <1>2
    <3> QED BY <3>1, <3>2
  <2>3. Place'
    BY <1>1, <2>1, <2>2 DEF Place
  <2> QED BY <1>8, <2>1, <2>3
<1>12. CASE MoreHeaders
  <2>1. /\ pc = "headers" /\ pc' \in {"header", "written"}
        /\ UNCHANGED <<asked, Request, input, toSend, length, reqLength>>
    BY <1>12 DEF MoreHeaders, Browser, Looked, read
  <2>2. Place'
    BY <1>1, <1>3, <2>1 DEF Place
  <2> QED BY <1>8, <2>1, <2>2
<1>13. CASE ReadHeader
  <2>1. /\ pc = "header" /\ input # <<>> /\ Request' = Append(Request, Head(input))
        /\ input' = Tail(input) /\ UNCHANGED <<asked, toSend>>
    BY <1>13 DEF ReadHeader, Looked, Browser
  <2>2. /\ Stream' /\ Len(Request') = Len(Request) + 1
        /\ Head(input) = Pieces(asked)[Len(Request) + 1]
    BY <1>1, <2>1, ReadsOne
  <2>3. Len(Request) \in 1..HeadEnd - 1 /\ length \in {-1, asked.stated}
    BY <1>1, <2>1 DEF Place
  <2>4. Len(Request) \in Nat /\ Len(Request) >= 1 /\ Len(Request) <= HeadEnd - 1
    BY <1>2, <2>3
  <2>5. CASE Head(input) = "blank"
    <3>1. Len(Request) + 1 \notin 2..(Len(asked.headers) + 1)
      <4>1. Head(input) \notin Lines
        BY <2>5 DEF Lines
      <4> QED BY <1>2, <2>2, <4>1, PiecesAt
    <3>2. Len(Request') = HeadEnd
      BY <1>2, <2>2, <2>4, <3>1
    <3>3. /\ pc' = IF BodyFollows THEN "body" ELSE "run"
          /\ reqLength' = IF BodyFollows THEN length ELSE 0
          /\ length' = length
      BY <1>13, <2>5 DEF ReadHeader
    <3>4. CASE length = -1
      <4>1. ~BodyFollows
        BY <3>4 DEF BodyFollows
      <4>2. pc' = "run" /\ length' = -1
        BY <3>3, <3>4, <4>1
      <4>3. Len(Request') = HeadEnd + (IF length' >= 0 THEN asked.stated ELSE 0)
        BY <1>2, <3>2, <4>2
      <4>4. Place'
        BY <1>3, <2>1, <4>2, <4>3 DEF Place
      <4> QED BY <2>2, <4>4 DEF PageInv
    <3>5. CASE length = asked.stated
      <4>1. BodyFollows
        BY <1>2, <3>5 DEF BodyFollows
      <4>2. pc' = "body" /\ reqLength' = asked.stated /\ length' = asked.stated
        BY <3>3, <3>5, <4>1
      <4>3. BodyEnd >= HeadEnd /\ BodyEnd - HeadEnd = asked.stated
        BY <1>2
      <4>4. reqLength' = Counter(BodyEnd', Len(Request'))
        BY <1>3, <2>1, <3>2, <4>2, <4>3 DEF Counter
      <4>5. Len(Request') >= HeadEnd'
        BY <1>2, <1>3, <2>1, <3>2
      <4>6. Place'
        BY <2>1, <4>2, <4>4, <4>5 DEF Place
      <4> QED BY <2>2, <4>6 DEF PageInv
    <3> QED BY <2>3, <3>4, <3>5
  <2>6. CASE Head(input) # "blank"
    <3>1. Len(Request) + 1 # HeadEnd
      BY <1>2, <2>2, <2>6, PiecesAt
    <3>2. Len(Request') \in 1..HeadEnd - 1
      BY <1>2, <2>2, <2>4, <3>1
    <3>3. pc' = "headers" /\ length' \in {-1, asked.stated}
      BY <1>13, <2>3, <2>6 DEF ReadHeader
    <3>4. Place'
      BY <1>3, <2>1, <3>2, <3>3 DEF Place
    <3> QED BY <2>2, <3>4 DEF PageInv
  <2> QED BY <2>5, <2>6
<1>14. CASE ReadBody
  <2>1. /\ pc = "body" /\ pc' = pc /\ Request' = Request \o input /\ input' = <<>>
        /\ reqLength' = Left(Len(input)) /\ UNCHANGED <<asked, toSend, length>>
    BY <1>14 DEF ReadBody, Looked, Browser
  <2>2. Stream' /\ Len(Request') = Len(Request) + Len(input)
    BY <1>1, <2>1, ReadsAll
  <2>3. /\ length = asked.stated /\ Len(Request) >= HeadEnd
        /\ reqLength = Counter(BodyEnd, Len(Request))
    BY <1>1, <2>1 DEF Place
  <2>4. (Counter(BodyEnd, Len(Request)) - Len(input)) % U32
          = Counter(BodyEnd, Len(Request) + Len(input))
    <3> DEFINE k == Len(input)   m == Len(Request)
    <3>1. /\ BodyEnd \in Nat /\ m \in Nat /\ k \in Nat /\ U32 \in Nat
          /\ BodyEnd - m < U32 /\ (m + k) - BodyEnd < U32
      <4>1. Len(Request) >= HeadEnd
        BY <2>3
      <4> QED BY ONLY <1>2, <4>1
    <3> HIDE DEF k, m
    <3>2. (Counter(BodyEnd, m) - k) % U32 = Counter(BodyEnd, m + k)
      BY ONLY <3>1, CountsDown
    <3> QED BY <3>2 DEF k, m
  <2>5. reqLength' = Counter(BodyEnd', Len(Request'))
    BY <1>3, <2>1, <2>2, <2>3, <2>4 DEF Left
  <2>6. Len(Request') >= HeadEnd'
    BY <1>2, <1>3, <2>1, <2>2, <2>3
  <2>7. Place'
    BY <2>1, <2>3, <2>5, <2>6 DEF Place
  <2> QED BY <2>2, <2>7 DEF PageInv
<1>15. CASE BodyRead
  <2>1. /\ pc = "body" /\ reqLength = 0 /\ pc' = "run"
        /\ UNCHANGED <<asked, Request, input, toSend, length, reqLength>>
    BY <1>15 DEF BodyRead, Looked, Browser, read
  <2>2. /\ length = asked.stated /\ Len(Request) >= HeadEnd
        /\ reqLength = Counter(BodyEnd, Len(Request))
    BY <1>1, <2>1 DEF Place
  <2>3. CASE BodyEnd >= Len(Request)
    <3>1. Len(Request) = BodyEnd
      BY <1>2, <2>1, <2>2, <2>3 DEF Counter
    <3>2. Len(Request') = HeadEnd' + (IF length' >= 0 THEN asked'.stated ELSE 0)
      BY <1>2, <1>3, <2>1, <2>2, <3>1
    <3>3. Place'
      BY <2>1, <2>2, <3>2 DEF Place
    <3> QED BY <1>8, <2>1, <3>3
  <2>4. CASE ~(BodyEnd >= Len(Request))
    <3>1. U32 + (BodyEnd - Len(Request)) # 0
      BY <1>2, <2>2, <2>4, SMTT(30)
    <3> QED BY <2>1, <2>2, <2>4, <3>1 DEF Counter
  <2> QED BY <2>3, <2>4
<1>16. ASSUME pc \in {"run", "compile", "exec"}, pc' \in {"compile", "exec", "written"},
              UNCHANGED <<asked, Request, input, toSend, length, reqLength>>
       PROVE  PageInv'
  <2>1. Place'
    BY <1>1, <1>3, <1>16 DEF Place
  <2> QED BY <1>8, <1>16, <2>1
<1>17. CASE SendFile \/ MakeEngine \/ Prepare \/ Exec
  BY <1>16, <1>17 DEF SendFile, MakeEngine, Prepare, Exec, Answer, Looked, Browser, read
<1>18. CASE CloseSocket
  <2>1. pc' = "closed" /\ UNCHANGED <<asked, Request, input, toSend, length, reqLength>>
    BY <1>18 DEF CloseSocket, Looked, Browser, read
  <2>2. Place'
    BY <1>1, <2>1 DEF Place
  <2> QED BY <1>8, <2>1, <2>2
<1> QED BY <1>5, <1>6, <1>7, <1>9, <1>10, <1>11, <1>12, <1>13, <1>14, <1>15, <1>17, <1>18
        DEF Next, Worker

(* Whatever is asked, however it is cut into pieces and whatever the width *)
(* of uint, as long as it holds the stated length and the sent one: a page *)
(* runs on the request line, the headers, the line that ends them and, if  *)
(* a length was stated, that much of the body, in the order they were      *)
(* sent; a count that went below zero, past the end of uint, never comes   *)
(* to zero (processHttpRequest).                                           *)
THEOREM PagesGetTheirRequests == Spec => []PagesGetWholeRequests
<1>1. ASSUME PageInv
      PROVE  PagesGetWholeRequests
  <2>1. Stream /\ Place
    BY <1>1 DEF PageInv
  <2>2. /\ Request \in Seq(Piece) /\ Pieces(asked) \in Seq(Piece)
        /\ Lies(Request, Pieces(asked), 0) /\ Len(Request) <= Len(Pieces(asked))
    BY <2>1, AskedNumbers, PiecesAt DEF Stream
  <2>3. IsPrefix(Request, Pieces(asked))
    BY <2>2, LiesPrefix
  <2> QED BY <2>1, <2>3 DEF PagesGetWholeRequests, Place, HeadEnd
<1>2. Init => PageInv
  BY StreamInit DEF PageInv
<1>3. Spec => []PageInv
  BY <1>2, PageNext, PTL DEF Spec
<1> QED BY <1>1, <1>3, PTL

-----------------------------------------------------------------------------
(* resolveRelative                                                         *)

(* The parts that the index has passed are names. *)
Passed(parts, k) == \A n \in 1..k : parts[n] \in Names

PartsOf(path) == {path[n] : n \in 1..Len(path)}

(* Names of the path; the last one without the white space at its end.     *)
NamesOf(path) == PartsOf(path) \cap Names
EndTrimmed ==
  LET last == Len(pathParts)
  IN  /\ last \in Nat
      /\ \A n \in 1..last - 1 : pathParts[n] \in NamesOf(asked.path)
      /\ last > 0 => \E name \in NamesOf(asked.path) : pathParts[last] = trimmed[name]

Parted ==
  /\ asked \in Asked
  /\ pc = "resolve" => /\ pathParts \in Seq(PartsOf(asked.path)) /\ i \in 0..Len(pathParts)
                       /\ Passed(pathParts, i)
  /\ pc \notin {"line", "resolve"} => EndTrimmed

(* The list without one of its parts. *)
LEMMA WithoutOne ==
  ASSUME NEW S, NEW s \in Seq(S), NEW k \in 0..Len(s) - 1
  PROVE  /\ Without(s, k) \in Seq(S) /\ Len(Without(s, k)) = Len(s) - 1
         /\ Len(s) \in Nat
         /\ \A n \in 1..k : Without(s, k)[n] = s[n]
         /\ \A n \in k + 1..Len(s) - 1 : Without(s, k)[n] = s[n + 1]
<1>1. Len(s) \in Nat /\ k \in Nat /\ k + 1 <= Len(s) /\ \A n \in 1..Len(s) : s[n] \in S
  BY LenProperties, ElementOfSeq
<1> DEFINE a == SubSeq(s, 1, k)   b == SubSeq(s, k + 2, Len(s))
<1>2. a \in Seq(S) /\ Len(a) = k /\ \A n \in 1..k : a[n] = s[n]
  <2>1. 1 \in Int /\ k \in Int /\ \A n \in 1..k : s[n] \in S
    BY <1>1
  <2>2. /\ a \in Seq(S) /\ Len(a) = IF 1 <= k THEN k - 1 + 1 ELSE 0
        /\ \A n \in 1..(k - 1 + 1) : a[n] = s[1 + n - 1]
    BY <2>1, SubSeqProperties
  <2> QED BY <1>1, <2>2
<1>3. /\ b \in Seq(S) /\ Len(b) = Len(s) - (k + 1)
      /\ \A n \in 1..Len(s) - (k + 1) : b[n] = s[k + 1 + n]
  <2>1. k + 2 \in Int /\ Len(s) \in Int /\ \A n \in k + 2..Len(s) : s[n] \in S
    BY <1>1
  <2>2. /\ b \in Seq(S) /\ Len(b) = IF k + 2 <= Len(s) THEN Len(s) - (k + 2) + 1 ELSE 0
        /\ \A n \in 1..Len(s) - (k + 2) + 1 : b[n] = s[k + 2 + n - 1]
    BY <2>1, SubSeqProperties
  <2>3. Len(b) = Len(s) - (k + 1)
    BY <1>1, <2>2
  <2>4. ASSUME NEW n \in 1..Len(s) - (k + 1) PROVE b[n] = s[k + 1 + n]
    <3>1. n \in 1..Len(s) - (k + 2) + 1 /\ k + 2 + n - 1 = k + 1 + n
      BY <1>1
    <3>2. b[n] = s[k + 2 + n - 1]
      BY <2>2, <3>1
    <3> QED BY <3>1, <3>2
  <2> QED BY <2>2, <2>3, <2>4
<1>4. Without(s, k) = a \o b
  <2>1. (k + 1) - 1 = k /\ (k + 1) + 1 = k + 2
    BY <1>1
  <2> QED BY <2>1 DEF Without, RemoveAt
<1> HIDE DEF a, b
<1>5. /\ a \o b \in Seq(S) /\ Len(a \o b) = Len(a) + Len(b)
      /\ \A n \in 1..Len(a) + Len(b) : (a \o b)[n] = IF n <= Len(a) THEN a[n] ELSE b[n - Len(a)]
  BY <1>2, <1>3, ConcatProperties
<1>6. ASSUME NEW n \in k + 1..Len(s) - 1 PROVE (a \o b)[n] = s[n + 1]
  <2>1. n - k \in 1..Len(s) - (k + 1) /\ n \in 1..Len(a) + Len(b) /\ ~(n <= Len(a))
    BY <1>1, <1>2, <1>3
  <2>2. (a \o b)[n] = b[n - k] /\ b[n - k] = s[k + 1 + (n - k)]
    BY <1>2, <1>3, <1>5, <2>1
  <2>3. k + 1 + (n - k) = n + 1
    BY <1>1
  <2> QED BY <2>2, <2>3
<1> QED BY <1>1, <1>2, <1>3, <1>4, <1>5, <1>6

(* A turn of the loop. *)
LEMMA TurnPassed ==
  ASSUME NEW S, pathParts \in Seq(S), i \in 0..Len(pathParts), Passed(pathParts, i),
         Name \/ Dot \/ DotDot
  PROVE  pathParts' \in Seq(S) /\ i' \in 0..Len(pathParts') /\ Passed(pathParts', i')
<1>1. i \in Nat /\ Len(pathParts) \in Nat /\ i + 1 <= Len(pathParts) /\ i \in 0..Len(pathParts) - 1
  <2>1. Len(pathParts) \in Nat
    BY LenProperties
  <2>2. i < Len(pathParts)
    BY DEF Name, Dot, DotDot, More
  <2> QED BY <2>1, <2>2
<1>2. CASE Name
  <2>1. i' = i + 1 /\ pathParts' = pathParts /\ pathParts[i + 1] \in Names
    BY <1>1, <1>2 DEF Name, NextIndex, At
  <2>2. \A n \in 1..i + 1 : n \in 1..i \/ n = i + 1
    BY <1>1
  <2> QED BY <1>1, <2>1, <2>2 DEF Passed
<1> DEFINE one == Without(pathParts, i)
<1>3. /\ one \in Seq(S) /\ Len(one) = Len(pathParts) - 1
      /\ \A n \in 1..i : one[n] = pathParts[n]
  BY <1>1, WithoutOne
<1>4. Passed(one, i)
  BY <1>3 DEF Passed
<1> HIDE DEF one
<1>5. CASE Dot
  <2>1. pathParts' = one /\ i' = i
    <3>1. NextIndex(i - 1) = i
      BY <1>1 DEF NextIndex
    <3> QED BY <1>5, <3>1 DEF Dot, one
  <2> QED BY <1>1, <1>3, <1>4, <2>1
<1>6. CASE DotDot
  <2>1. CASE i > 1
    <3>1. pathParts' = Without(one, i - 1) /\ i' = i - 1
      BY <1>1, <1>6, <2>1 DEF DotDot, NextIndex, one
    <3>2. i - 1 \in 0..Len(one) - 1
      BY <1>1, <1>3, <2>1
    <3>3. /\ Without(one, i - 1) \in Seq(S) /\ Len(Without(one, i - 1)) = Len(one) - 1
          /\ \A n \in 1..i - 1 : Without(one, i - 1)[n] = one[n]
      BY <1>3, <3>2, WithoutOne
    <3>4. Passed(Without(one, i - 1), i - 1)
      <4>1. \A n \in 1..i - 1 : n \in 1..i
        BY <1>1
      <4> QED BY <1>4, <3>3, <4>1 DEF Passed
    <3>5. i - 1 \in 0..Len(one) - 1
      BY <3>2
    <3> QED BY <3>1, <3>3, <3>4, <3>5
  <2>2. CASE ~(i > 1)
    <3>1. pathParts' = one /\ i' = 0
      BY <1>1, <1>6, <2>2 DEF DotDot, NextIndex, one
    <3>2. 0 \in 0..Len(one)
      BY <1>1, <1>3
    <3> QED BY <1>3, <3>1, <3>2 DEF Passed
  <2> QED BY <2>1, <2>2
<1> QED BY <1>2, <1>5, <1>6

LEMMA PartsOfAsked ==
  ASSUME asked \in Asked
  PROVE  /\ asked.path \in Seq(Parts) /\ asked.path \in Seq(PartsOf(asked.path))
         /\ PartsOf(asked.path) \subseteq Parts /\ Seq(PartsOf(asked.path)) \subseteq Seq(Parts)
<1>1. asked.path \in Seq(Parts)
  BY WebRequestAssumption
<1>2. asked.path \in Seq(PartsOf(asked.path))
  BY <1>1 DEF PartsOf
<1>3. PartsOf(asked.path) \subseteq Parts
  BY <1>1, ElementOfSeq DEF PartsOf
<1> QED BY <1>1, <1>2, <1>3

(* What the end of resolveRelative makes of a list of names. *)
LEMMA TrimmedIs ==
  ASSUME NEW names \in Seq(Parts), NEW path, \A n \in 1..Len(names) : names[n] \in NamesOf(path)
  PROVE  /\ Len(Trimmed(names)) = Len(names) /\ Len(names) \in Nat
         /\ \A n \in 1..Len(names) - 1 : Trimmed(names)[n] \in NamesOf(path)
         /\ Len(names) > 0 => \E name \in NamesOf(path) : Trimmed(names)[Len(names)] = trimmed[name]
<1>1. Len(names) \in Nat /\ names \in [1..Len(names) -> Parts]
  BY LenProperties
<1>2. CASE names = <<>>
  BY <1>1, <1>2 DEF Trimmed
<1>3. CASE names # <<>>
  <2>1. Len(names) > 0 /\ Len(names) \in 1..Len(names)
    BY <1>1, <1>3, EmptySeq
  <2>2. Trimmed(names) = [names EXCEPT ![Len(names)] = trimmed[names[Len(names)]]]
    BY <1>3 DEF Trimmed
  <2>3. names[Len(names)] \in NamesOf(path)
    BY <2>1
  <2>4. Trimmed(names) \in [1..Len(names) -> Parts]
    <3>1. trimmed[names[Len(names)]] \in Parts
      BY <2>3, ResolvePathAssumption DEF NamesOf, Parts
    <3> QED BY <1>1, <2>1, <2>2, <3>1
  <2>5. Len(Trimmed(names)) = Len(names)
    <3>1. Trimmed(names) \in Seq(Parts)
      BY <1>1, <2>4
    <3> QED BY <1>1, <2>4, <3>1, LenProperties
  <2>6. /\ Trimmed(names)[Len(names)] = trimmed[names[Len(names)]]
        /\ \A n \in 1..Len(names) - 1 : Trimmed(names)[n] = names[n] /\ n \in 1..Len(names)
    <3> DEFINE last == Len(names)
    <3>1. /\ last \in 1..last /\ names \in [1..last -> Parts]
          /\ Trimmed(names) = [names EXCEPT ![last] = trimmed[names[last]]]
      BY <1>1, <2>1, <2>2
    <3>2. last \in Nat
      BY <1>1
    <3> HIDE DEF last
    <3>3. Trimmed(names)[last] = trimmed[names[last]]
      BY <3>1
    <3>4. \A n \in 1..last - 1 : Trimmed(names)[n] = names[n] /\ n \in 1..last
      BY <3>1, <3>2
    <3> QED BY <3>3, <3>4 DEF last
  <2> QED BY <1>1, <2>3, <2>5, <2>6
<1> QED BY <1>2, <1>3

LEMMA PartedInit == Init => Parted
  BY DEF Init, Parted

LEMMA PartedNext ==
  ASSUME Parted, [Next]_vars
  PROVE  Parted'
<1>1. CASE UNCHANGED <<asked, pathParts, i, pc>>
  BY <1>1 DEF Parted, EndTrimmed
<1>2. CASE UNCHANGED vars \/ Send \/ Leave
  BY <1>1, <1>2 DEF vars, resolving, Send, Leave
<1>3. CASE ReadLine
  <2>1. pathParts' = asked.path /\ i' = 0 /\ pc' = "resolve" /\ asked' = asked
    BY <1>3 DEF ReadLine, Split, Browser
  <2>2. asked.path \in Seq(PartsOf(asked.path))
    BY PartsOfAsked DEF Parted
  <2>3. 0 \in 0..Len(asked.path)
    BY <2>2, LenProperties
  <2> QED BY <2>1, <2>2, <2>3 DEF Parted, Passed
<1>4. CASE Resolve
  <2>1. /\ pc = "resolve" /\ asked' = asked
        /\ pathParts \in Seq(PartsOf(asked.path)) /\ i \in 0..Len(pathParts)
        /\ Passed(pathParts, i)
    BY <1>4 DEF Resolve, Parted, Browser
  <2>2. CASE (Name \/ Dot \/ DotDot) /\ UNCHANGED pc
    <3>1. /\ pathParts' \in Seq(PartsOf(asked.path)) /\ i' \in 0..Len(pathParts')
          /\ Passed(pathParts', i')
      BY <2>1, <2>2, TurnPassed
    <3> QED BY <2>1, <2>2, <3>1 DEF Parted
  <2>3. CASE Join /\ pc' = "lookup"
    <3>1. Len(pathParts) \in Nat /\ i = Len(pathParts)
      BY <2>1, <2>3, LenProperties DEF Join, More
    <3>2. pathParts \in Seq(Parts)
      BY <2>1, PartsOfAsked DEF Parted
    <3>3. \A n \in 1..Len(pathParts) : pathParts[n] \in NamesOf(asked.path)
      BY <2>1, <3>1, ElementOfSeq DEF Passed, NamesOf
    <3>4. pathParts' = Trimmed(pathParts)
      BY <2>3 DEF Join
    <3>5. EndTrimmed'
      BY <2>1, <3>2, <3>3, <3>4, TrimmedIs DEF EndTrimmed
    <3> QED BY <2>1, <2>3, <3>5 DEF Parted
  <2> QED BY <1>4, <2>2, <2>3 DEF Resolve
<1>5. ASSUME pc \notin {"line", "resolve"}, pc' \notin {"line", "resolve"},
             UNCHANGED <<asked, pathParts, i>>
      PROVE  Parted'
  BY <1>5 DEF Parted, EndTrimmed
<1>6. CASE \/ Lookup \/ MoreHeaders \/ ReadHeader \/ ReadBody \/ BodyRead
           \/ SendFile \/ MakeEngine \/ Prepare \/ Exec \/ CloseSocket
  BY <1>5, <1>6 DEF Lookup, MoreHeaders, ReadHeader, ReadBody, BodyRead, SendFile, MakeEngine,
                    Prepare, Exec, CloseSocket, Answer, Looked, Browser, resolving
<1> QED BY <1>2, <1>3, <1>4, <1>6 DEF Next, Worker

(* The loop skips no part when it sets its index back: what is appended to *)
(* WebPanelPath is made of names of the path that was asked for, and of an *)
(* empty part, "." or ".." nothing is left, but for what trimmed() makes   *)
(* of the last name when that has white space at its end                   *)
(* (resolveRelative).                                                      *)
ResolvedToNames ==
  pc \notin {"line", "resolve"} =>
    /\ EndTrimmed
    /\ (\A name \in NamesOf(asked.path) : trimmed[name] \in Names) =>
         \A n \in 1..Len(pathParts) : pathParts[n] \in Names

THEOREM PathsResolveToNames == Spec => []ResolvedToNames
<1>1. Parted => ResolvedToNames
  <2> SUFFICES ASSUME Parted, pc \notin {"line", "resolve"},
                      \A name \in NamesOf(asked.path) : trimmed[name] \in Names,
                      NEW n \in 1..Len(pathParts)
               PROVE  pathParts[n] \in Names
    BY DEF ResolvedToNames, Parted
  <2>1. EndTrimmed
    BY DEF Parted
  <2>2. n = Len(pathParts) \/ n \in 1..Len(pathParts) - 1
    BY <2>1 DEF EndTrimmed
  <2> QED BY <2>1, <2>2 DEF EndTrimmed, NamesOf
<1>2. Spec => []Parted
  BY PartedInit, PartedNext, PTL DEF Spec
<1> QED BY <1>1, <1>2, PTL

(* The walk over the parts as a function of how many were walked over.     *)
Walks(w, path) ==
  /\ w = [n \in 0..Len(path) |-> IF n = 0 THEN <<>> ELSE Walk(w[n - 1], path[n])]
  /\ Walked(path) = w[Len(path)]

(* Were there a length for which no such function exists, there would be a *)
(* least one.                                                              *)
LEMMA WalksExists ==
  ASSUME NEW path \in Seq(Parts)
  PROVE  \E w : Walks(w, path)
<1> DEFINE Upto(w, m) == w = [n \in 0..m |-> IF n = 0 THEN <<>> ELSE Walk(w[n - 1], path[n])]
           T == {m \in Nat : ~\E w : Upto(w, m)}
<1>1. SUFFICES T = {}
  <2>1. T = {} => \E w : Upto(w, Len(path))
    BY LenProperties
  <2>2. ASSUME \E w : Upto(w, Len(path)) PROVE \E w : Walks(w, path)
    <3> DEFINE w == CHOOSE w : Upto(w, Len(path))
    <3>1. Upto(w, Len(path))
      BY <2>2
    <3>2. Walked(path) = w[Len(path)]
      BY DEF Walked
    <3> QED BY <3>1, <3>2 DEF Walks
  <2> QED BY <2>1, <2>2
<1>2. SUFFICES ASSUME T # {} PROVE FALSE
  OBVIOUS
<1>3. T \in SUBSET Nat
  OBVIOUS
<1>4. PICK m \in T : \A k \in T : ~(k < m)
  <2> HIDE DEF T
  <2>1. PICK m \in T : \A k \in T : ~(<<k, m>> \in OpToRel(<, Nat))
    BY <1>2, <1>3, NatLessThanWellFounded, WFMin
  <2> QED BY <1>3, <2>1 DEF OpToRel
<1>5. m # 0
  <2>1. Upto([n \in 0..0 |-> <<>>], 0)
    OBVIOUS
  <2> QED BY <2>1
<1>6. m - 1 \in Nat /\ m - 1 \notin T
  <2> HIDE DEF T
  <2> QED BY <1>3, <1>4, <1>5
<1>7. PICK w : Upto(w, m - 1)
  BY <1>6
<1> DEFINE v == [n \in 0..m |-> IF n = m THEN Walk(w[m - 1], path[m]) ELSE w[n]]
<1>8. Upto(v, m)
  <2>1. ASSUME NEW n \in 0..m
        PROVE  v[n] = IF n = 0 THEN <<>> ELSE Walk(v[n - 1], path[n])
    <3>1. CASE n = m
      BY <3>1, <1>5
    <3>2. CASE n # m
      BY <3>2, <1>7
    <3> QED BY <3>1, <3>2
  <2> HIDE DEF v
  <2>2. v = [n \in 0..m |-> v[n]]
    BY DEF v
  <2> QED BY <2>1, <2>2
<1> QED BY <1>8

(* j parts of the path were walked over: the list has their names and then *)
(* the parts that are left.  The index stands between the two, or before   *)
(* the only name, which it passes again.                                   *)
WalkedOver(names, path, j) ==
  /\ j \in 0..Len(path) /\ names \in Seq(Names)
  /\ Len(pathParts) = Len(names) + (Len(path) - j)
  /\ \A n \in 1..Len(names) : pathParts[n] = names[n]
  /\ \A n \in 1..Len(path) - j : pathParts[Len(names) + n] = path[j + n]
  /\ i = Len(names) \/ (i = 0 /\ Len(names) = 1)

LEMMA WalkIs ==
  ASSUME NEW s, NEW part
  PROVE  /\ part \in Names => Walk(s, part) = Append(s, part)
         /\ part \in {"", "."} => Walk(s, part) = s
         /\ part = ".." => Walk(s, part) = IF Len(s) > 1 THEN Front(s) ELSE s
<1>1. part \in Names => part # ".."
  BY ResolvePathAssumption
<1>2. part \in {"", "."} => part # ".." /\ part \notin Names
  BY ResolvePathAssumption
<1>3. part = ".." => part \notin Names
  BY ResolvePathAssumption
<1> QED BY <1>1, <1>2, <1>3 DEF Walk

LEMMA TurnWalks ==
  ASSUME NEW path \in Seq(Parts), pathParts \in Seq(Parts), NEW j, NEW old, NEW new,
         WalkedOver(old, path, j), j < Len(path) => new = Walk(old, path[j + 1]),
         Name \/ Dot \/ DotDot
  PROVE  WalkedOver(old, path, j)' \/ WalkedOver(new, path, j + 1)'
<1>1. /\ Len(path) \in Nat /\ j \in Nat /\ j <= Len(path)
      /\ old \in Seq(Names) /\ Len(old) \in Nat /\ i \in Nat
      /\ Len(pathParts) = Len(old) + (Len(path) - j) /\ Len(pathParts) \in Nat
  BY LenProperties DEF WalkedOver
<1>2. i + 1 <= Len(pathParts) /\ i \in 0..Len(pathParts) - 1
  <2>1. i < Len(pathParts)
    BY DEF Name, Dot, DotDot, More
  <2> QED BY ONLY <1>1, <2>1
<1> DEFINE part == path[j + 1]
<1>3. CASE i # Len(old)
  <2>1. i = 0 /\ Len(old) = 1
    BY <1>3 DEF WalkedOver
  <2>2. At(i) = old[1] /\ old[1] \in Names
    <3>1. 1 \in 1..Len(old)
      BY <2>1
    <3>2. pathParts[1] = old[1]
      BY <3>1 DEF WalkedOver
    <3>3. old[1] \in Names
      BY <1>1, <3>1, ElementOfSeq
    <3> QED BY <2>1, <3>2, <3>3 DEF At
  <2>3. Name
    BY <2>2, ResolvePathAssumption DEF Dot, DotDot
  <2>4. pathParts' = pathParts /\ i' = 1
    BY <2>1, <2>3 DEF Name, NextIndex
  <2> QED BY <2>1, <2>4 DEF WalkedOver
<1>4. CASE i = Len(old)
  <2>1. /\ j + 1 \in 1..Len(path) /\ At(i) = part /\ i \in 0..Len(pathParts) - 1
        /\ new = Walk(old, part)
    <3>1. j + 1 \in 1..Len(path)
      BY <1>1, <1>2, <1>4
    <3>2. pathParts[Len(old) + 1] = path[j + 1]
      BY <1>1, <3>1 DEF WalkedOver
    <3>3. j < Len(path)
      BY <1>1, <3>1
    <3> QED BY <1>2, <1>4, <3>1, <3>2, <3>3 DEF At
  <2>2. /\ \A n \in 1..Len(old) : pathParts[n] = old[n]
        /\ \A n \in 1..Len(path) - j : pathParts[Len(old) + n] = path[j + n]
    BY DEF WalkedOver
  <2> DEFINE one == Without(pathParts, i)
  <2>3. /\ one \in Seq(Parts) /\ Len(one) = Len(pathParts) - 1
        /\ \A n \in 1..i : one[n] = pathParts[n]
        /\ \A n \in i + 1..Len(pathParts) - 1 : one[n] = pathParts[n + 1]
    BY <2>1, WithoutOne
  <2>4. /\ \A n \in 1..Len(old) : one[n] = old[n]
        /\ \A n \in 1..Len(path) - (j + 1) : one[Len(old) + n] = path[j + 1 + n]
    <3>1. ASSUME NEW n \in 1..Len(path) - (j + 1)
          PROVE  one[Len(old) + n] = path[j + 1 + n]
      <4>1. Len(old) + n \in i + 1..Len(pathParts) - 1 /\ n + 1 \in 1..Len(path) - j
        BY <1>1, <1>4
      <4>2. one[Len(old) + n] = pathParts[Len(old) + n + 1]
        BY <2>3, <4>1
      <4>3. pathParts[Len(old) + (n + 1)] = path[j + (n + 1)]
        BY <2>2, <4>1
      <4>4. Len(old) + n + 1 = Len(old) + (n + 1) /\ j + 1 + n = j + (n + 1)
        BY ONLY <1>1, <4>1
      <4> QED BY <4>2, <4>3, <4>4
    <3> QED BY <1>4, <2>2, <2>3, <3>1
  <2> HIDE DEF one
  <2>5. CASE Name
    <3>1. part \in Names /\ pathParts' = pathParts /\ i' = i + 1
      BY <1>1, <2>1, <2>5 DEF Name, NextIndex
    <3>2. new = Append(old, part)
      BY <2>1, <3>1, WalkIs
    <3>3. /\ new \in Seq(Names) /\ Len(new) = Len(old) + 1
          /\ \A n \in 1..Len(old) : new[n] = old[n]
          /\ new[Len(old) + 1] = part
      BY <1>1, <3>1, <3>2, AppendProperties
    <3>4. \A n \in 1..Len(new) : pathParts[n] = new[n]
      <4>1. \A n \in 1..Len(new) : n \in 1..Len(old) \/ n = Len(old) + 1
        BY <1>1, <3>3
      <4>2. pathParts[Len(old) + 1] = part
        BY <1>4, <2>1 DEF At
      <4> QED BY <2>2, <3>3, <4>1, <4>2
    <3>5. ASSUME NEW n \in 1..Len(path) - (j + 1)
          PROVE  pathParts[Len(new) + n] = path[j + 1 + n]
      <4>1. n + 1 \in 1..Len(path) - j
        BY <1>1
      <4>2. pathParts[Len(old) + (n + 1)] = path[j + (n + 1)]
        BY <2>2, <4>1
      <4>3. Len(new) + n = Len(old) + (n + 1) /\ j + 1 + n = j + (n + 1)
        BY ONLY <1>1, <3>3, <4>1
      <4> QED BY <4>2, <4>3
    <3>6. j + 1 \in 0..Len(path) /\ Len(pathParts) = Len(new) + (Len(path) - (j + 1))
      BY <1>1, <2>1, <3>3
    <3>7. WalkedOver(new, path, j + 1)'
      BY <1>4, <3>1, <3>3, <3>4, <3>5, <3>6 DEF WalkedOver
    <3> QED BY <3>7
  <2>6. CASE Dot
    <3>1. part \in {"", "."} /\ pathParts' = one
      BY <2>1, <2>6 DEF Dot, one
    <3>2. i' = i
      <4>1. NextIndex(i - 1) = i
        BY <1>1 DEF NextIndex
      <4> QED BY <2>6, <4>1 DEF Dot
    <3>3. new = old
      BY <2>1, <3>1, WalkIs
    <3>4. j + 1 \in 0..Len(path) /\ Len(one) = Len(old) + (Len(path) - (j + 1))
      BY <1>1, <2>1, <2>3
    <3>5. WalkedOver(new, path, j + 1)'
      BY <1>1, <1>4, <2>4, <3>1, <3>2, <3>3, <3>4 DEF WalkedOver
    <3> QED BY <3>5
  <2>7. CASE DotDot /\ i <= 1
    <3>1. part = ".." /\ pathParts' = one
      BY <1>1, <2>1, <2>7 DEF DotDot, one
    <3>2. i' = 0
      <4>1. i = 0 \/ i = 1
        BY <1>1, <2>7
      <4>2. NextIndex(i - 2) = 0
        BY <4>1 DEF NextIndex
      <4> QED BY <2>7, <4>2 DEF DotDot
    <3>3. new = old
      <4>1. ~(Len(old) > 1)
        BY <1>1, <1>4, <2>7
      <4>2. new = IF Len(old) > 1 THEN Front(old) ELSE old
        BY <2>1, <3>1, WalkIs
      <4> QED BY <4>1, <4>2
    <3>4. j + 1 \in 0..Len(path) /\ Len(one) = Len(old) + (Len(path) - (j + 1))
      BY <1>1, <2>1, <2>3
    <3>5. Len(old) = 0 \/ Len(old) = 1
      BY ONLY <1>1, <1>4, <2>7
    <3>6. WalkedOver(new, path, j + 1)'
      BY <1>1, <2>4, <3>1, <3>2, <3>3, <3>4, <3>5 DEF WalkedOver
    <3> QED BY <3>6
  <2>8. CASE DotDot /\ i > 1
    <3> DEFINE two == Without(one, i - 1)
    <3>1. part = ".." /\ pathParts' = two /\ i' = i - 1
      BY <1>1, <2>1, <2>8 DEF DotDot, one, NextIndex
    <3>2. new = Front(old)
      BY <1>1, <1>4, <2>1, <2>8, <3>1, WalkIs
    <3>3. /\ new \in Seq(Names) /\ Len(new) = Len(old) - 1
          /\ \A n \in 1..Len(new) : new[n] = old[n]
      BY <1>1, <1>4, <2>8, <3>2 DEF Front
    <3>4. i - 1 \in 0..Len(one) - 1
      BY <1>1, <1>2, <2>3, <2>8
    <3>5. /\ two \in Seq(Parts) /\ Len(two) = Len(one) - 1
          /\ \A n \in 1..i - 1 : two[n] = one[n]
          /\ \A n \in i..Len(one) - 1 : two[n] = one[n + 1]
      <4>1. (i - 1) + 1 = i
        BY <1>1
      <4> QED BY <2>3, <3>4, <4>1, WithoutOne
    <3> HIDE DEF two
    <3>6. \A n \in 1..Len(new) : two[n] = new[n]
      <4>1. \A n \in 1..Len(new) : n \in 1..i - 1 /\ n \in 1..Len(old)
        BY <1>1, <1>4, <3>3
      <4> QED BY <2>4, <3>3, <3>5, <4>1
    <3>7. ASSUME NEW n \in 1..Len(path) - (j + 1)
          PROVE  two[Len(new) + n] = path[j + 1 + n]
      <4>1. Len(new) + n \in i..Len(one) - 1 /\ Len(new) + n + 1 = Len(old) + n
        BY <1>1, <1>4, <2>3, <3>3
      <4> QED BY <2>4, <3>5, <4>1
    <3>8. j + 1 \in 0..Len(path) /\ Len(two) = Len(new) + (Len(path) - (j + 1))
      BY <1>1, <2>1, <2>3, <3>3, <3>5
    <3>9. WalkedOver(new, path, j + 1)'
      BY <1>4, <3>1, <3>3, <3>6, <3>7, <3>8 DEF WalkedOver
    <3> QED BY <3>9
  <2> QED BY <1>1, <2>5, <2>6, <2>7, <2>8
<1> QED BY <1>3, <1>4

Traced ==
  pc = "resolve" =>
    \E w : Walks(w, asked.path) /\ \E j \in 0..Len(asked.path) : WalkedOver(w[j], asked.path, j)

LEMMA TraceBegins ==
  ASSUME NEW path \in Seq(Parts), pathParts' = path, i' = 0
  PROVE  \E w : Walks(w, path) /\ \E j \in 0..Len(path) : WalkedOver(w[j], path, j)'
<1>1. PICK w : Walks(w, path)
  BY WalksExists
<1>2. Len(path) \in Nat /\ 0 \in 0..Len(path)
  BY LenProperties
<1>3. w[0] = <<>>
  BY <1>1, <1>2 DEF Walks
<1>4. Len(path) - 0 = Len(path) /\ \A n \in 1..Len(path) : 0 + n = n
  BY <1>2
<1>5. WalkedOver(<<>>, path, 0)'
  BY <1>2, <1>4 DEF WalkedOver
<1> QED BY <1>1, <1>2, <1>3, <1>5

LEMMA TraceEnds ==
  ASSUME NEW path \in Seq(Parts), pathParts \in Seq(Parts), NEW names, NEW j,
         WalkedOver(names, path, j), ~More, i \in 0..Len(pathParts)
  PROVE  j = Len(path) /\ pathParts = names
<1>1. /\ Len(path) \in Nat /\ j \in Nat /\ j <= Len(path)
      /\ names \in Seq(Names) /\ Len(names) \in Nat /\ i \in Nat
      /\ Len(pathParts) = Len(names) + (Len(path) - j) /\ Len(pathParts) \in Nat
  BY LenProperties DEF WalkedOver
<1>2. i = Len(pathParts)
  <2> DEFINE a == Len(pathParts)
  <2>1. a \in Nat /\ i \in 0..a /\ ~(i < a)
    BY <1>1 DEF More
  <2> HIDE DEF a
  <2>2. i = a
    BY ONLY <2>1
  <2> QED BY <2>2 DEF a
<1>3. i = Len(names)
  BY <1>1, <1>2 DEF WalkedOver
<1>4. Len(pathParts) = Len(names) /\ j = Len(path)
  BY <1>1, <1>2, <1>3
<1>5. pathParts \in [1..Len(pathParts) -> Parts] /\ names \in [1..Len(names) -> Names]
  BY <1>1, LenProperties
<1>6. \A n \in 1..Len(names) : pathParts[n] = names[n]
  BY DEF WalkedOver
<1> QED BY <1>4, <1>5, <1>6

(* The loop of resolveRelative, which edits the list it walks over and     *)
(* sets its index back, gives what walking over the parts once gives, and  *)
(* its end trims that.                                                     *)
THEOREM PathsResolveAsWalk == Spec => []ResolvesAsWalk
<1> DEFINE Inv == Parted /\ Traced /\ ResolvesAsWalk
<1>1. Init => Inv
  BY PartedInit DEF Init, Traced, ResolvesAsWalk
<1>2. ASSUME Inv, [Next]_vars
      PROVE  Inv'
  <2>1. CASE UNCHANGED <<asked, pathParts, i, pc>>
    BY <1>2, <2>1, PartedNext DEF Traced, ResolvesAsWalk, WalkedOver
  <2>2. CASE UNCHANGED vars \/ Send \/ Leave
    BY <2>1, <2>2 DEF vars, resolving, Send, Leave
  <2>3. CASE ReadLine
    <3>1. pathParts' = asked.path /\ i' = 0 /\ pc' = "resolve" /\ asked' = asked
      BY <2>3 DEF ReadLine, Split, Browser
    <3>2. asked.path \in Seq(Parts)
      BY <1>2, PartsOfAsked DEF Parted
    <3>3. \E w : /\ Walks(w, asked.path)
                 /\ \E j \in 0..Len(asked.path) : WalkedOver(w[j], asked.path, j)'
      BY <3>1, <3>2, TraceBegins
    <3>4. Traced'
      BY <3>1, <3>3 DEF Traced, WalkedOver
    <3> QED BY <1>2, <3>1, <3>4, PartedNext DEF ResolvesAsWalk
  <2>4. CASE Resolve
    <3>1. /\ pc = "resolve" /\ asked' = asked
          /\ pathParts \in Seq(Parts) /\ i \in 0..Len(pathParts)
      BY <1>2, <2>4, PartsOfAsked DEF Resolve, Parted, Browser
    <3>2. asked.path \in Seq(Parts)
      BY <1>2, PartsOfAsked DEF Parted
    <3>3. PICK w : Walks(w, asked.path) /\ \E j \in 0..Len(asked.path) :
                                             WalkedOver(w[j], asked.path, j)
      BY <1>2, <3>1 DEF Traced
    <3>4. PICK j \in 0..Len(asked.path) : WalkedOver(w[j], asked.path, j)
      BY <3>3
    <3>5. CASE (Name \/ Dot \/ DotDot) /\ UNCHANGED pc
      <4>1. Len(asked.path) \in Nat
        BY <3>2, LenProperties
      <4>2. j < Len(asked.path) => w[j + 1] = Walk(w[j], asked.path[j + 1])
        BY <3>3, <4>1 DEF Walks
      <4>3. \/ WalkedOver(w[j], asked.path, j)'
            \/ WalkedOver(w[j + 1], asked.path, j + 1)'
        BY <3>1, <3>2, <3>4, <3>5, <4>2, TurnWalks
      <4>4. \E k \in 0..Len(asked.path) : WalkedOver(w[k], asked.path, k)'
        <5>1. CASE WalkedOver(w[j], asked.path, j)'
          BY <5>1
        <5>2. CASE WalkedOver(w[j + 1], asked.path, j + 1)'
          <6>1. j + 1 \in 0..Len(asked.path)
            BY <3>1, <5>2 DEF WalkedOver
          <6> QED BY <5>2, <6>1
        <5> QED BY <4>3, <5>1, <5>2
      <4>5. \E v : /\ Walks(v, asked.path)
                   /\ \E k \in 0..Len(asked.path) : WalkedOver(v[k], asked.path, k)'
        BY <3>3, <4>4
      <4>6. Traced'
        BY <3>1, <4>5 DEF Traced, WalkedOver
      <4> QED BY <1>2, <3>1, <3>5, <4>6, PartedNext DEF ResolvesAsWalk
    <3>6. CASE Join /\ pc' = "lookup"
      <4>1. j = Len(asked.path) /\ pathParts = w[j]
        BY <3>1, <3>2, <3>4, <3>6, TraceEnds DEF Join
      <4>2. pathParts = Walked(asked.path)
        BY <3>3, <4>1 DEF Walks
      <4>3. pathParts' = Trimmed(Walked(asked.path))
        BY <3>6, <4>2 DEF Join
      <4>4. ResolvesAsWalk' /\ Traced'
        BY <3>1, <3>6, <4>3 DEF Traced, ResolvesAsWalk
      <4> QED BY <1>2, <4>4, PartedNext
    <3> QED BY <2>4, <3>5, <3>6 DEF Resolve
  <2>5. ASSUME pc' \notin {"resolve", "lookup"} PROVE Inv'
    BY <1>2, <2>5, PartedNext DEF Traced, ResolvesAsWalk
  <2>6. CASE \/ Lookup \/ MoreHeaders \/ ReadHeader \/ ReadBody \/ BodyRead
             \/ SendFile \/ MakeEngine \/ Prepare \/ Exec \/ CloseSocket
    BY <2>5, <2>6 DEF Lookup, MoreHeaders, ReadHeader, ReadBody, BodyRead, SendFile, MakeEngine,
                      Prepare, Exec, CloseSocket, Answer
  <2> QED BY <1>2, <2>2, <2>3, <2>4, <2>6 DEF Next, Worker
<1>3. Inv => ResolvesAsWalk
  OBVIOUS
<1> QED BY <1>1, <1>2, <1>3, PTL DEF Spec
=============================================================================
