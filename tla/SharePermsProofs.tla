-------------------------- MODULE SharePermsProofs --------------------------
(***************************************************************************)
(* What SharePerms guarantees for any workers, shares, files and rows.     *)
(*                                                                         *)
(* Typed: the shapes of the rows and of the requests.  Asked: while a      *)
(* request looks its permissions up, what it still has to ask is on its    *)
(* list, and no row applies further down than the level it has reached.    *)
(* Followed: the entered rows, moved with the files, are the rows of the   *)
(* table moved by the statements that are still to come.                   *)
(*                                                                         *)
(* The last part is about FileMode, which turns the permissions looked up  *)
(* into the mode that getattr reports, and NewFileMode into that of a new  *)
(* file.                                                                   *)
(***************************************************************************)
EXTENDS SharePerms, FileMode, SequenceTheorems, TLAPS

-----------------------------------------------------------------------------
(* Paths                                                                   *)

(* Paths are the sequences of one to Depth names. *)
LEMMA PathsAreSeqs ==
  ASSUME NEW p \in Paths
  PROVE  p \in Seq(Names) /\ Len(p) \in Nat /\ Len(p) >= 1
<1>1. PICK n \in 1..Depth : p \in [1..n -> Names]
  BY DEF Paths
<1>2. n \in Nat /\ n >= 1
  BY <1>1, SharePermsAssumption
<1> QED BY <1>1, <1>2

LEMMA ParentIsSeq ==
  ASSUME NEW p \in Paths
  PROVE  Parent(p) \in Seq(Names)
<1>1. p \in Seq(Names) /\ Len(p) \in Nat /\ Len(p) >= 1
  BY PathsAreSeqs
<1>2. \A i \in 1..(Len(p) - 1) : p[i] \in Names
  BY <1>1, ElementOfSeq
<1>3. Len(p) - 1 \in Int
  BY <1>1
<1>4. SubSeq(p, 1, Len(p) - 1) \in Seq(Names)
  BY <1>2, <1>3, SubSeqProperties
<1> QED BY <1>4 DEF Parent, Front

(* The path q, no longer than p, is p or above it exactly when it is the   *)
(* beginning of p of its own length.                                       *)
LEMMA AboveIsBeginning ==
  ASSUME NEW p \in Seq(Names), NEW q \in Seq(Names), NEW n \in 1..Len(p)
  PROVE  (q = p \/ Below(q, p)) /\ Len(q) = n <=> q = SubSeq(p, 1, n)
<1>1. Len(p) \in Nat /\ Len(q) \in Nat /\ n \in Nat
  BY LenProperties
<1>2. \A i \in 1..n : p[i] \in Names
  BY <1>1, ElementOfSeq
<1>3. Len(SubSeq(p, 1, n)) = n
  BY <1>1, <1>2, SubSeqProperties
<1>4. SubSeq(p, 1, Len(p)) = p
  BY SubSeqFull
<1>5. ASSUME q = p \/ Below(q, p), Len(q) = n
      PROVE  q = SubSeq(p, 1, n)
  BY <1>4, <1>5 DEF Below
<1>6. ASSUME q = SubSeq(p, 1, n)
      PROVE  (q = p \/ Below(q, p)) /\ Len(q) = n
  <2>1. CASE n = Len(p)
    BY <1>3, <1>4, <1>6, <2>1
  <2>2. CASE n # Len(p)
    BY <1>1, <1>3, <1>6, <2>2 DEF Below
  <2> QED BY <2>1, <2>2
<1> QED BY <1>5, <1>6

(* A renamed path itself becomes the new name. *)
LEMMA MovedItself ==
  ASSUME NEW p \in Paths, NEW q \in Paths
  PROVE  Moved(p, q, p) = q
<1>1. p \in Seq(Names) /\ q \in Seq(Names) /\ Len(p) \in Nat
  BY PathsAreSeqs
<1>2. Len(p) + 1 \in Int /\ Len(p) \in Int /\ Len(p) < Len(p) + 1
  BY <1>1
<1>3. SubSeq(p, Len(p) + 1, Len(p)) = << >>
  BY ONLY <1>2, SubSeqEmpty
<1>4. q \o << >> = q
  BY <1>1, ConcatEmptySeq
<1> QED BY <1>3, <1>4 DEF Moved

-----------------------------------------------------------------------------
(* getPerms finds the nearest row                                          *)

(* The rows that apply are no longer than the path. *)
LEMMA AppliesWithin ==
  ASSUME rows \subseteq Row, NEW s, NEW uid, NEW p \in Seq(Names)
  PROVE  \A r \in Applies(s, uid, p) :
           r \in Row /\ Len(r.path) \in Nat /\ Len(r.path) >= 1 /\ Len(r.path) <= Len(p)
<1> SUFFICES ASSUME NEW r \in Applies(s, uid, p)
             PROVE  r \in Row /\ Len(r.path) \in Nat /\ Len(r.path) >= 1
                    /\ Len(r.path) <= Len(p)
  OBVIOUS
<1>1. r \in Row /\ (r.path = p \/ Below(r.path, p))
  BY DEF Applies
<1>2. r.path \in Paths
  BY <1>1 DEF Row
<1>3. Len(r.path) \in Nat /\ Len(r.path) >= 1
  BY <1>2, PathsAreSeqs
<1>4. Len(p) \in Nat
  BY LenProperties
<1> QED BY <1>1, <1>3, <1>4 DEF Below

(* With no row further down, what the statement for a level returns is     *)
(* what the nearest row grants.                                            *)
LEMMA FoundIsNearest ==
  ASSUME rows \subseteq Row, NEW s, NEW uid, NEW p \in Seq(Names), NEW n \in 1..Len(p),
         \A r \in Applies(s, uid, p) : Len(r.path) <= n,
         NEW perms \in PermsAt(s, uid, SubSeq(p, 1, n))
  PROVE  perms \in Nearest(s, uid, p)
<1> DEFINE here == {r \in rows : r.share = s /\ r.path = SubSeq(p, 1, n)}
           own  == {r \in here : r.cu # AnyUid /\ UidOf[r.cu] = uid}
<1>1. PICK r \in (IF own # {} THEN own ELSE {x \in here : x.cu = AnyUid}) : perms = r.perms
  BY DEF PermsAt
<1>2. r \in rows /\ r.share = s /\ r.path = SubSeq(p, 1, n) /\ (r.cu = AnyUid \/ UidOf[r.cu] = uid)
  BY <1>1
<1>3. \A x \in rows : x.path \in Paths /\ x.path \in Seq(Names)
  BY PathsAreSeqs DEF Row
<1>4. \A x \in rows : (x.path = p \/ Below(x.path, p)) /\ Len(x.path) = n
                        <=> x.path = SubSeq(p, 1, n)
  BY <1>3, AboveIsBeginning
<1>5. r \in Applies(s, uid, p) /\ Len(r.path) = n
  BY <1>2, <1>4 DEF Applies
<1>6. ASSUME NEW x \in Applies(s, uid, p)
      PROVE  /\ Len(x.path) <= Len(r.path)
             /\ Len(x.path) = Len(r.path) /\ x.cu # AnyUid => r.cu # AnyUid
  <2>1. Len(x.path) <= Len(r.path)
    BY <1>5, <1>6
  <2>2. ASSUME Len(x.path) = Len(r.path), x.cu # AnyUid
        PROVE  r.cu # AnyUid
    <3>1. x \in rows /\ x.share = s /\ UidOf[x.cu] = uid
          /\ (x.path = p \/ Below(x.path, p))
      BY <2>2 DEF Applies
    <3>2. x.path = SubSeq(p, 1, n)
      BY <1>4, <1>5, <2>2, <3>1
    <3>3. x \in own
      BY <2>2, <3>1, <3>2
    <3> QED BY <1>1, <3>3
  <2> QED BY <2>1, <2>2
<1>7. Applies(s, uid, p) # {}
  BY <1>5
<1> QED BY <1>1, <1>5, <1>6, <1>7 DEF Nearest

(* When the statement for a level returns nothing, no row applies there. *)
LEMMA NoneFound ==
  ASSUME rows \subseteq Row, NEW s, NEW uid, NEW p \in Seq(Names), NEW n \in 1..Len(p),
         \A r \in Applies(s, uid, p) : Len(r.path) <= n,
         PermsAt(s, uid, SubSeq(p, 1, n)) = {}
  PROVE  \A r \in Applies(s, uid, p) : Len(r.path) <= n - 1
<1> SUFFICES ASSUME NEW r \in Applies(s, uid, p), Len(r.path) = n
             PROVE  FALSE
  <2>1. \A r \in Applies(s, uid, p) : Len(r.path) \in Nat
    BY AppliesWithin
  <2>2. n \in Nat
    BY LenProperties
  <2> QED BY <2>1, <2>2
<1>1. r \in rows /\ r.share = s /\ (r.cu = AnyUid \/ UidOf[r.cu] = uid)
      /\ (r.path = p \/ Below(r.path, p))
  BY DEF Applies
<1>2. r.path \in Seq(Names)
  BY <1>1, PathsAreSeqs DEF Row
<1>3. r.path = SubSeq(p, 1, n)
  BY <1>1, <1>2, AboveIsBeginning
<1> DEFINE here == {x \in rows : x.share = s /\ x.path = SubSeq(p, 1, n)}
           own  == {x \in here : x.cu # AnyUid /\ UidOf[x.cu] = uid}
<1>4. r \in here
  BY <1>1, <1>3
<1>5. own = {} /\ {x \in here : x.cu = AnyUid} = {}
  BY DEF PermsAt
<1> QED BY <1>1, <1>4, <1>5

(* Without any row the default permissions of the session hold. *)
LEMMA DefaultIsNearest ==
  ASSUME rows \subseteq Row, NEW s, NEW uid, NEW p \in Seq(Names),
         \A r \in Applies(s, uid, p) : Len(r.path) <= 0
  PROVE  Nearest(s, uid, p) = {DefaultPerms}
<1>1. \A r \in Applies(s, uid, p) : Len(r.path) \in Nat /\ Len(r.path) >= 1
  BY AppliesWithin
<1>2. Applies(s, uid, p) = {}
  BY <1>1
<1> QED BY <1>2 DEF Nearest

(* What the nearest row grants changes only with the rows. *)
LEMMA NearestStable ==
  ASSUME UNCHANGED rows, NEW s, NEW uid, NEW p
  PROVE  /\ Applies(s, uid, p)' = Applies(s, uid, p)
         /\ Nearest(s, uid, p)' = Nearest(s, uid, p)
  BY DEF Nearest, Applies

-----------------------------------------------------------------------------
(* Requests                                                                *)

Question == [path : Seq(Names), perm : {"r", "w", "x", "o"}]

Request == [at : {"idle", "look", "act", "sql"}, op : Ops \cup {"none"},
            from : Paths \cup {<<>>}, to : Paths \cup {<<>>}, uid : Uids \cup {0},
            there : BOOLEAN, todo : Seq(Question), n : Nat, fresh : BOOLEAN]

(* A request under way names paths, two of them only to rename; while it   *)
(* looks up there is a question, and a level of its path; a statement      *)
(* follows only a removed or renamed name.                                 *)
WellFormed(r) ==
  /\ r.at # "idle" => /\ r.op \in Ops /\ r.from \in Paths /\ r.to \in Paths
                      /\ r.op # "rename" => r.from = r.to
                      /\ r.op = "rename" => r.from # r.to
  /\ r.at = "look" => r.todo # <<>> /\ r.n <= Len(r.todo[1].path)
  /\ r.at = "sql" => r.op \in {"unlink", "rmdir", "rename"}

Typed == /\ rows \subseteq Row
         /\ req \in [Workers -> Request]
         /\ \A w \in Workers : WellFormed(req[w])

LEMMA IdleIsRequest == Idle \in Request /\ WellFormed(Idle)
<1>1. <<>> \in Seq(Question)
  BY EmptySeq
<1> QED BY <1>1 DEF Idle, Request, WellFormed

(* Every operation asks something, for paths. *)
LEMMA AsksTyped ==
  ASSUME NEW s, NEW op \in Ops, NEW p \in Paths, NEW q \in Paths
  PROVE  Asks(s, op, p, q) \in Seq(Question) /\ Asks(s, op, p, q) # <<>>
<1>1. p \in Seq(Names) /\ Parent(p) \in Seq(Names) /\ Parent(q) \in Seq(Names)
  BY PathsAreSeqs, ParentIsSeq
<1>2. \A c \in {"r", "w", "x", "o"} : /\ Ask(p, c) \in Question
                                      /\ Ask(Parent(p), c) \in Question
                                      /\ Ask(Parent(q), c) \in Question
  BY <1>1 DEF Ask, Question
<1>3. \A a \in Question : <<a>> \in Seq(Question) /\ <<a>> # <<>>
  OBVIOUS
<1>4. \A a, b \in Question : <<a, b>> \in Seq(Question) /\ <<a, b>> # <<>>
  OBVIOUS
<1> QED BY <1>2, <1>3, <1>4 DEF Asks, Ops

(* What is left of a list of questions. *)
LEMMA RestTyped ==
  ASSUME NEW t \in Seq(Question), t # <<>>
  PROVE  /\ Head(t) = t[1] /\ t[1] \in Question
         /\ Tail(t) \in Seq(Question)
         /\ \A i \in DOMAIN t : i # 1 => i - 1 \in DOMAIN Tail(t) /\ Tail(t)[i - 1] = t[i]
<1>1. Len(t) \in Nat /\ Len(t) >= 1 /\ DOMAIN t = 1..Len(t)
  BY LenProperties, EmptySeq
<1>2. /\ Head(t) \in Question /\ Tail(t) \in Seq(Question) /\ Len(Tail(t)) = Len(t) - 1
      /\ \A i \in 1..Len(Tail(t)) : Tail(t)[i] = t[i + 1]
  BY HeadTailProperties
<1>3. DOMAIN Tail(t) = 1..Len(Tail(t))
  BY <1>2, LenProperties
<1>4. t[1] \in Question
  BY <1>1, ElementOfSeq
<1>5. ASSUME NEW i \in DOMAIN t, i # 1
      PROVE  i - 1 \in DOMAIN Tail(t) /\ Tail(t)[i - 1] = t[i]
  <2>1. i \in Nat /\ i - 1 \in 1..Len(Tail(t)) /\ (i - 1) + 1 = i
    BY <1>1, <1>2, <1>5
  <2> QED BY <1>2, <1>3, <2>1
<1> QED BY <1>2, <1>4, <1>5

(* The request after an answer. *)
LEMMA DecidedTyped ==
  ASSUME Typed, NEW w \in Workers, req[w].at = "look", NEW perms, Decide(w, perms)
  PROVE  /\ req' \in [Workers -> Request] /\ \A v \in Workers : WellFormed(req'[v])
         /\ \A v \in Workers \ {w} : req'[v] = req[v]
         /\ \/ req'[w] = Idle
            \/ /\ req[w].todo[1].perm \in perms
               /\ req'[w] = [req[w] EXCEPT !.at = "act", !.todo = <<>>]
               /\ Tail(req[w].todo) = <<>>
            \/ /\ req[w].todo[1].perm \in perms /\ Tail(req[w].todo) # <<>>
               /\ req'[w] = [req[w] EXCEPT !.todo = Tail(req[w].todo),
                                           !.n = Len(Tail(req[w].todo)[1].path)]
<1> DEFINE t == req[w].todo   rest == Tail(t)
<1>1. req[w] \in Request /\ WellFormed(req[w]) /\ t \in Seq(Question) /\ t # <<>>
  BY DEF Typed, Request, WellFormed
<1>2. Head(t) = t[1] /\ t[1] \in Question /\ rest \in Seq(Question)
  BY <1>1, RestTyped
<1>3. rest # <<>> => rest[1] \in Question
  BY <1>2, RestTyped
<1>4. rest # <<>> => Len(rest[1].path) \in Nat
  BY <1>3, LenProperties DEF Question
<1>5. <<>> \in Seq(Question)
  BY EmptySeq
<1> DEFINE acts  == [req[w] EXCEPT !.at = "act", !.todo = <<>>]
           turns == [req[w] EXCEPT !.todo = rest, !.n = Len(rest[1].path)]
<1>6. acts \in Request /\ WellFormed(acts)
  BY <1>1, <1>5 DEF Request, WellFormed
<1>7. rest # <<>> => turns \in Request /\ WellFormed(turns)
  <2>1. ASSUME NEW u \in Seq(Question), NEW k \in Nat, u # <<>>, k = Len(u[1].path)
        PROVE  /\ [req[w] EXCEPT !.todo = u, !.n = k] \in Request
               /\ WellFormed([req[w] EXCEPT !.todo = u, !.n = k])
    <3> DEFINE r == [req[w] EXCEPT !.todo = u, !.n = k]
    <3>1. /\ r \in Request /\ r.at = req[w].at /\ r.op = req[w].op /\ r.from = req[w].from
          /\ r.to = req[w].to /\ r.todo = u /\ r.n = k
      BY <1>1 DEF Request
    <3> HIDE DEF r
    <3>2. WellFormed(r)
      BY <1>1, <2>1, <3>1 DEF WellFormed
    <3> QED BY <3>1, <3>2 DEF r
  <2> QED BY <1>2, <1>4, <2>1
<1>8. req \in [Workers -> Request] /\ \A v \in Workers : WellFormed(req[v])
  BY DEF Typed
<1>9. req' = [req EXCEPT ![w] = IF Head(t).perm \notin perms THEN Idle
                                ELSE IF rest = <<>> THEN acts ELSE turns]
  BY <1>8 DEF Decide
<1>10. /\ req'[w] = IF t[1].perm \notin perms THEN Idle
                    ELSE IF rest = <<>> THEN acts ELSE turns
       /\ \A v \in Workers \ {w} : req'[v] = req[v]
  BY <1>2, <1>8, <1>9
<1>11. /\ \/ req'[w] = Idle
          \/ t[1].perm \in perms /\ req'[w] = acts /\ rest = <<>>
          \/ t[1].perm \in perms /\ rest # <<>> /\ req'[w] = turns
  BY <1>10
<1>12. req'[w] \in Request /\ WellFormed(req'[w])
  BY <1>6, <1>7, <1>11, IdleIsRequest
<1>13. req' \in [Workers -> Request] /\ \A v \in Workers : WellFormed(req'[v])
  BY <1>8, <1>9, <1>10, <1>12
<1> QED BY <1>10, <1>11, <1>13

(* What a worker's step leaves of the requests and the rows of the others. *)
LEMMA TypedInit == Init => Typed
<1> SUFFICES ASSUME Init PROVE Typed
  OBVIOUS
<1>1. rows \subseteq Row
  BY SharePermsAssumption DEF Init
<1>2. req = [w \in Workers |-> Idle]
  BY DEF Init
<1>3. \A w \in Workers : req[w] = Idle
  BY <1>2
<1> QED BY <1>1, <1>2, <1>3, IdleIsRequest DEF Typed

(* The request of one worker replaced by another well-formed one. *)
LEMMA TypedReplace ==
  ASSUME Typed, NEW w \in Workers, NEW r \in Request, WellFormed(r),
         req' = [req EXCEPT ![w] = r], UNCHANGED rows
  PROVE  Typed'
<1>1. req \in [Workers -> Request] /\ \A v \in Workers : WellFormed(req[v])
  BY DEF Typed
<1>2. /\ req' \in [Workers -> Request] /\ req'[w] = r
      /\ \A v \in Workers \ {w} : req'[v] = req[v]
  BY <1>1
<1>3. \A v \in Workers : WellFormed(req'[v])
  BY <1>1, <1>2
<1>4. rows' \subseteq Row
  BY DEF Typed
<1> QED BY <1>2, <1>3, <1>4 DEF Typed

LEMMA BegunTyped ==
  ASSUME Typed, NEW w \in Workers, NEW op \in UsedOps, NEW p \in UsedPaths,
         NEW q \in UsedPaths, NEW uid \in Uids, Begin(w, op, p, q, uid)
  PROVE  /\ Typed'
         /\ req'[w] = [at |-> "look", op |-> op, from |-> p, to |-> q, uid |-> uid,
                       there |-> Exists(ShareOf[w], p), todo |-> Asks(ShareOf[w], op, p, q),
                       n |-> Len(Asks(ShareOf[w], op, p, q)[1].path), fresh |-> TRUE]
         /\ \A v \in Workers \ {w} : req'[v] = req[v]
<1> DEFINE asks == Asks(ShareOf[w], op, p, q)
           r == [at |-> "look", op |-> op, from |-> p, to |-> q, uid |-> uid,
                 there |-> Exists(ShareOf[w], p), todo |-> asks, n |-> Len(asks[1].path), fresh |-> TRUE]
<1>1. op \in Ops /\ p \in Paths /\ q \in Paths
  BY SharePermsAssumption
<1>2. asks \in Seq(Question) /\ asks # <<>>
  BY <1>1, AsksTyped
<1>3. asks[1] \in Question
  BY <1>2, RestTyped
<1>4. Len(asks[1].path) \in Nat
  BY <1>3, LenProperties DEF Question
<1>5. req' = [req EXCEPT ![w] = r] /\ UNCHANGED rows /\ ((op = "rename") = (p # q))
  BY DEF Begin
<1> HIDE DEF asks
<1>6. r \in Request
  <2>1. Exists(ShareOf[w], p) \in BOOLEAN
    BY DEF Exists
  <2> QED BY <1>1, <1>2, <1>4, <2>1 DEF Request
<1>7. WellFormed(r)
  BY <1>1, <1>2, <1>4, <1>5 DEF WellFormed
<1>8. req \in [Workers -> Request]
  BY DEF Typed
<1>9. req'[w] = r /\ \A v \in Workers \ {w} : req'[v] = req[v]
  BY <1>5, <1>8
<1> HIDE DEF r
<1>10. Typed'
  BY <1>5, <1>6, <1>7, TypedReplace
<1> QED BY <1>9, <1>10 DEF r, asks

(* A level further up. *)
LEMMA ClimbedTyped ==
  ASSUME Typed, NEW w \in Workers, req[w].at = "look", req[w].n # 0,
         req' = [req EXCEPT ![w].n = @ - 1], UNCHANGED rows
  PROVE  Typed' /\ req'[w] = [req[w] EXCEPT !.n = @ - 1]
         /\ \A v \in Workers \ {w} : req'[v] = req[v]
<1> DEFINE r == [req[w] EXCEPT !.n = @ - 1]
<1>1. req \in [Workers -> Request] /\ req[w] \in Request /\ WellFormed(req[w])
  BY DEF Typed
<1>2. req' = [req EXCEPT ![w] = r]
  BY <1>1
<1>3. /\ r \in Request /\ r.at = "look" /\ r.todo = req[w].todo /\ r.n = req[w].n - 1
      /\ r.op = req[w].op /\ r.from = req[w].from /\ r.to = req[w].to
      /\ req[w].n \in Nat /\ req[w].todo \in Seq(Question)
  <2>1. req[w].n \in Nat /\ req[w].todo \in Seq(Question)
    BY <1>1 DEF Request
  <2>2. req[w].n - 1 \in Nat
    BY <2>1
  <2> QED BY <1>1, <2>1, <2>2 DEF Request
<1>4. req'[w] = r /\ \A v \in Workers \ {w} : req'[v] = req[v]
  BY <1>1, <1>2
<1> HIDE DEF r
<1>5. req[w].todo # <<>> /\ req[w].n <= Len(req[w].todo[1].path)
  BY <1>1 DEF WellFormed
<1>6. req[w].todo[1] \in Question
  BY <1>3, <1>5, RestTyped
<1>7. Len(req[w].todo[1].path) \in Nat
  BY <1>6, LenProperties DEF Question
<1>8. WellFormed(r)
  BY <1>1, <1>3, <1>5, <1>7 DEF WellFormed
<1>9. Typed'
  BY <1>2, <1>3, <1>8, TypedReplace
<1> QED BY <1>4, <1>9 DEF r

(* On to the statement after a removed or renamed name. *)
LEMMA CalledTyped ==
  ASSUME Typed, NEW w \in Workers, req[w].at = "act",
         req[w].op \in {"unlink", "rmdir", "rename"},
         req' = [req EXCEPT ![w].at = "sql"], UNCHANGED rows
  PROVE  Typed' /\ req'[w] = [req[w] EXCEPT !.at = "sql"]
         /\ \A v \in Workers \ {w} : req'[v] = req[v]
<1> DEFINE r == [req[w] EXCEPT !.at = "sql"]
<1>1. req \in [Workers -> Request] /\ req[w] \in Request /\ WellFormed(req[w])
  BY DEF Typed
<1>2. req' = [req EXCEPT ![w] = r]
  BY <1>1
<1>3. /\ r \in Request /\ r.at = "sql" /\ r.op = req[w].op
      /\ r.from = req[w].from /\ r.to = req[w].to
  BY <1>1 DEF Request
<1>4. WellFormed(r)
  BY <1>1, <1>3 DEF WellFormed
<1>5. req'[w] = r /\ \A v \in Workers \ {w} : req'[v] = req[v]
  BY <1>1, <1>2
<1> HIDE DEF r
<1>6. Typed'
  BY <1>2, <1>3, <1>4, TypedReplace
<1> QED BY <1>5, <1>6 DEF r

(* After the request. *)
LEMMA EndedTyped ==
  ASSUME Typed, NEW w \in Workers, req' = [req EXCEPT ![w] = Idle], UNCHANGED rows
  PROVE  Typed' /\ req'[w] = Idle /\ \A v \in Workers \ {w} : req'[v] = req[v]
<1>1. req \in [Workers -> Request]
  BY DEF Typed
<1>2. req'[w] = Idle /\ \A v \in Workers \ {w} : req'[v] = req[v]
  BY <1>1
<1> QED BY <1>2, IdleIsRequest, TypedReplace

(* After the statement: the rows are still rows, and the other requests    *)
(* differ at most in what they know of the rows.                           *)
LEMMA FollowedTyped ==
  ASSUME Typed, NEW w \in Workers, Follow(w)
  PROVE  /\ Typed' /\ req'[w] = Idle
         /\ \A v \in Workers \ {w} :
              req'[v] = [req[v] EXCEPT !.fresh = @ /\ rows' = rows]
<1> DEFINE after(v) == [req[v] EXCEPT !.fresh = @ /\ rows' = rows]
<1>1. /\ req \in [Workers -> Request] /\ \A v \in Workers : req[v] \in Request /\ WellFormed(req[v])
      /\ rows \subseteq Row
  BY DEF Typed
<1>2. req' = [v \in Workers |-> IF v = w THEN Idle ELSE after(v)]
  BY DEF Follow
<1>3. req'[w] = Idle /\ \A v \in Workers \ {w} : req'[v] = after(v)
  BY <1>2
<1>4. ASSUME NEW v \in Workers
      PROVE  after(v) \in Request /\ WellFormed(after(v))
  <2>1. (req[v].fresh /\ rows' = rows) \in BOOLEAN
    OBVIOUS
  <2>2. /\ after(v) \in Request /\ after(v).at = req[v].at /\ after(v).op = req[v].op
        /\ after(v).from = req[v].from /\ after(v).to = req[v].to
        /\ after(v).todo = req[v].todo /\ after(v).n = req[v].n
    BY <1>1, <2>1 DEF Request
  <2>3. WellFormed(after(v))
    BY <1>1, <2>2 DEF WellFormed
  <2> QED BY <2>2, <2>3
<1>5. req' \in [Workers -> Request] /\ \A v \in Workers : WellFormed(req'[v])
  <2> HIDE DEF after
  <2> QED BY <1>2, <1>3, <1>4, IdleIsRequest
<1>6. rows' \subseteq Row
  <2>1. CASE req[w].op = "rename" /\ rows' = MovedRows(req[w].from, req[w].to)
    <3>1. req[w].to \in Paths
      BY <1>1 DEF WellFormed, Follow
    <3>2. \A r \in Row : [r EXCEPT !.path = IF @ = req[w].from THEN req[w].to ELSE @] \in Row
      BY <3>1 DEF Row
    <3> QED BY <1>1, <2>1, <3>2 DEF MovedRows
  <2>2. CASE rows' = {r \in rows : r.path # req[w].from}
    BY <1>1, <2>2
  <2>3. CASE rows' = rows
    BY <1>1, <2>3
  <2> QED BY <2>1, <2>2, <2>3 DEF Follow
<1>7. Typed'
  BY <1>5, <1>6 DEF Typed
<1> QED BY <1>3, <1>7

-----------------------------------------------------------------------------
(* What comes to the system call was granted                               *)

(* Where an operation has to be allowed to write. *)
Needs(r) ==
  IF r.op \in {"mknod", "mkdir", "unlink", "rmdir", "rename"} THEN {Parent(r.from), Parent(r.to)}
  ELSE IF r.op = "create" /\ ~r.there THEN {r.from, Parent(r.from)}
  ELSE IF r.op \in {"truncate", "utimens", "create"} THEN {r.from} ELSE {}

(* While no row changes: no row applies below the level reached, and what  *)
(* has to be allowed is allowed or still to be asked; before the call, it  *)
(* is allowed.                                                             *)
Asked(w) ==
  /\ req[w].at = "look" /\ req[w].fresh =>
       /\ \A r \in Applies(ShareOf[w], req[w].uid, req[w].todo[1].path) :
            Len(r.path) <= req[w].n
       /\ \A x \in Needs(req[w]) :
            MayWrite(w, x) \/ \E i \in DOMAIN req[w].todo : req[w].todo[i] = Ask(x, "w")
  /\ req[w].at = "act" /\ req[w].fresh => \A x \in Needs(req[w]) : MayWrite(w, x)

GrantInv == Typed /\ \A w \in Workers : Asked(w)

LEMMA MayWriteStable ==
  ASSUME UNCHANGED rows, NEW w, req'[w].uid = req[w].uid, NEW x
  PROVE  MayWrite(w, x)' = MayWrite(w, x)
<1>1. Nearest(ShareOf[w], req[w].uid, x)' = Nearest(ShareOf[w], req[w].uid, x)
  BY NearestStable DEF Nearest, Applies
<1> QED BY <1>1 DEF MayWrite

LEMMA AskedStable ==
  ASSUME UNCHANGED rows, NEW w, req'[w] = req[w], Asked(w)
  PROVE  Asked(w)'
<1>1. \A x : MayWrite(w, x)' = MayWrite(w, x)
  BY MayWriteStable
<1>2. \A s, uid, p : Applies(s, uid, p)' = Applies(s, uid, p)
  BY NearestStable
<1>3. Applies(ShareOf[w], req[w].uid, req[w].todo[1].path)'
        = Applies(ShareOf[w], req[w].uid, req[w].todo[1].path)
  BY DEF Applies
<1> QED BY <1>1, <1>3 DEF Asked, Needs

(* Every operation begins with all its questions to ask. *)
LEMMA BegunAsked ==
  ASSUME Typed, NEW w \in Workers, NEW op \in UsedOps, NEW p \in UsedPaths,
         NEW q \in UsedPaths, NEW uid \in Uids, Begin(w, op, p, q, uid)
  PROVE  Asked(w)'
<1> DEFINE asks == Asks(ShareOf[w], op, p, q)
<1>1. /\ req'[w].at = "look" /\ req'[w].op = op /\ req'[w].from = p /\ req'[w].to = q
      /\ req'[w].uid = uid /\ req'[w].todo = asks /\ req'[w].n = Len(asks[1].path)
      /\ req'[w].there = Exists(ShareOf[w], p)
  <2>1. req'[w] = [at |-> "look", op |-> op, from |-> p, to |-> q, uid |-> uid,
                   there |-> Exists(ShareOf[w], p), todo |-> asks, n |-> Len(asks[1].path), fresh |-> TRUE]
    BY BegunTyped
  <2> HIDE DEF asks
  <2> QED BY <2>1
<1>2. op \in Ops /\ p \in Paths /\ q \in Paths
  BY SharePermsAssumption
<1>3. asks \in Seq(Question) /\ asks # <<>>
  BY <1>2, AsksTyped
<1>4. asks[1] \in Question
  BY <1>3, RestTyped
<1>5. asks[1].path \in Seq(Names)
  BY <1>4 DEF Question
<1>6. UNCHANGED rows /\ rows \subseteq Row /\ (op # "rename" => p = q)
  BY DEF Begin, Typed
<1>7. \A r \in Applies(ShareOf[w], uid, asks[1].path) : Len(r.path) <= Len(asks[1].path)
  BY <1>5, <1>6, AppliesWithin
<1>8. ASSUME NEW x \in Needs(req'[w])
      PROVE  \E i \in DOMAIN asks : asks[i] = Ask(x, "w")
  <2>1. CASE op \in {"mknod", "mkdir", "unlink", "rmdir"}
    <3>1. asks = <<Ask(Parent(p), "w")>> /\ x = Parent(p)
      BY <1>1, <1>6, <1>8, <2>1 DEF Needs, Asks
    <3> HIDE DEF asks
    <3> QED BY <3>1
  <2>2. CASE op = "rename"
    <3>1. asks = <<Ask(Parent(p), "w"), Ask(Parent(q), "w")>> /\ x \in {Parent(p), Parent(q)}
      BY <1>1, <1>8, <2>2 DEF Needs, Asks
    <3> HIDE DEF asks
    <3> QED BY <3>1
  <2>3. CASE op \in {"truncate", "utimens"}
    <3>1. asks = <<Ask(p, "w")>> /\ x = p
      BY <1>1, <1>8, <2>3 DEF Needs, Asks
    <3> HIDE DEF asks
    <3> QED BY <3>1
  <2>4. CASE op = "create" /\ Exists(ShareOf[w], p)
    <3>1. asks = <<Ask(p, "w")>> /\ x = p
      BY <1>1, <1>8, <2>4 DEF Needs, Asks
    <3> HIDE DEF asks
    <3> QED BY <3>1
  <2>5. CASE op = "create" /\ ~Exists(ShareOf[w], p)
    <3>1. asks = <<Ask(Parent(p), "w"), Ask(p, "w")>> /\ x \in {p, Parent(p)}
      BY <1>1, <1>8, <2>5 DEF Needs, Asks
    <3> HIDE DEF asks
    <3> QED BY <3>1
  <2>6. CASE op \in {"readdir", "readlink", "access", "chmod", "chown"}
    BY <1>1, <1>8, <2>6 DEF Needs
  <2> QED BY <1>2, <2>1, <2>2, <2>3, <2>4, <2>5, <2>6 DEF Ops
<1> HIDE DEF asks
<1>9. Needs(req[w])' = Needs(req'[w])
  BY DEF Needs
<1>10. \A r \in Applies(ShareOf[w], req[w].uid, req[w].todo[1].path)' : Len(r.path) <= req'[w].n
  <2>1. \A x : x \in Applies(ShareOf[w], req[w].uid, req[w].todo[1].path)'
                <=> x \in Applies(ShareOf[w], uid, asks[1].path)
    BY <1>1, <1>6 DEF Applies
  <2> QED BY <1>1, <1>7, <2>1
<1> QED BY <1>1, <1>8, <1>9, <1>10 DEF Asked

(* An answer that lets the request go on, given what the nearest row       *)
(* grants for the question at hand.                                        *)
LEMMA DecidedAsked ==
  ASSUME GrantInv, NEW w \in Workers, req[w].at = "look", NEW perms, Decide(w, perms),
         UNCHANGED rows,
         req[w].fresh /\ req[w].todo[1].perm \in perms
           => perms \in Nearest(ShareOf[w], req[w].uid, req[w].todo[1].path)
  PROVE  Asked(w)'
<1> DEFINE t == req[w].todo   rest == Tail(t)
<1>1. Typed /\ Asked(w) /\ rows \subseteq Row
  BY DEF GrantInv, Typed
<1>2. req[w] \in Request /\ WellFormed(req[w]) /\ t \in Seq(Question) /\ t # <<>>
  BY <1>1 DEF Typed, Request, WellFormed
<1>3. /\ t[1] \in Question /\ rest \in Seq(Question)
      /\ \A i \in DOMAIN t : i # 1 => i - 1 \in DOMAIN rest /\ rest[i - 1] = t[i]
  BY <1>2, RestTyped
<1> DEFINE acts  == [req[w] EXCEPT !.at = "act", !.todo = <<>>]
           turns == [req[w] EXCEPT !.todo = rest, !.n = Len(rest[1].path)]
<1>4. \/ req'[w] = Idle
      \/ t[1].perm \in perms /\ req'[w] = acts /\ rest = <<>>
      \/ t[1].perm \in perms /\ rest # <<>> /\ req'[w] = turns
  BY <1>1, DecidedTyped
<1>5. /\ acts.at = "act" /\ acts.uid = req[w].uid /\ acts.op = req[w].op
      /\ acts.from = req[w].from /\ acts.to = req[w].to /\ acts.fresh = req[w].fresh
      /\ acts.there = req[w].there
  BY <1>2 DEF Request
<1>6. /\ turns.at = "look" /\ turns.uid = req[w].uid /\ turns.op = req[w].op
      /\ turns.from = req[w].from /\ turns.to = req[w].to /\ turns.fresh = req[w].fresh
      /\ turns.there = req[w].there /\ turns.todo = rest /\ turns.n = Len(rest[1].path)
  <2>1. turns.at = req[w].at
    BY <1>2 DEF Request
  <2> QED BY <1>2, <2>1 DEF Request
<1> HIDE DEF acts, turns
<1>7. CASE req'[w] = Idle
  BY <1>7 DEF Asked, Idle
<1>8. CASE ~req[w].fresh /\ req'[w] # Idle
  <2>1. ~req'[w].fresh
    BY <1>8, <1>4, <1>5, <1>6
  <2> QED BY <2>1 DEF Asked
<1>9. CASE req[w].fresh /\ req'[w] # Idle
  <2>1. t[1].perm \in perms
    BY <1>9, <1>4
  <2>2. perms \in Nearest(ShareOf[w], req[w].uid, t[1].path)
    BY <1>9, <2>1
  <2>3. /\ req'[w].uid = req[w].uid /\ req'[w].op = req[w].op
        /\ req'[w].from = req[w].from /\ req'[w].to = req[w].to
        /\ req'[w].there = req[w].there
    BY <1>9, <1>4, <1>5, <1>6
  <2>4. \A x : MayWrite(w, x)' = MayWrite(w, x)
    BY <2>3, MayWriteStable
  <2>5. Needs(req[w])' = Needs(req[w])
    BY <2>3 DEF Needs
  <2>6. ASSUME NEW x \in Needs(req[w])
        PROVE  MayWrite(w, x) \/ \E i \in DOMAIN rest : rest[i] = Ask(x, "w")
    <3>1. CASE MayWrite(w, x)
      BY <3>1
    <3>2. ASSUME NEW i \in DOMAIN t, t[i] = Ask(x, "w")
          PROVE  MayWrite(w, x) \/ \E j \in DOMAIN rest : rest[j] = Ask(x, "w")
      <4>1. CASE i = 1
        <5>1. t[1].path = x /\ "w" \in perms
          BY <2>1, <3>2, <4>1 DEF Ask
        <5> QED BY <2>2, <5>1 DEF MayWrite
      <4>2. CASE i # 1
        BY <1>3, <3>2, <4>2
      <4> QED BY <4>1, <4>2
    <3> QED BY <1>1, <1>9, <2>6, <3>1, <3>2 DEF Asked
  <2>7. CASE req'[w].at = "act" /\ rest = <<>>
    <3>1. DOMAIN rest = {}
      BY <2>7, EmptySeq
    <3>2. \A x \in Needs(req[w]) : MayWrite(w, x)
      BY <2>6, <3>1
    <3> QED BY <2>4, <2>5, <2>7, <3>2 DEF Asked
  <2>8. CASE /\ rest # <<>> /\ req'[w].at = "look" /\ req'[w].todo = rest
             /\ req'[w].n = Len(rest[1].path)
    <3>1. rest[1] \in Question
      BY <1>3, <2>8, RestTyped
    <3>2. rest[1].path \in Seq(Names)
      BY <3>1 DEF Question
    <3> HIDE DEF rest
    <3>3. \A r \in Applies(ShareOf[w], req[w].uid, rest[1].path) : Len(r.path) <= Len(rest[1].path)
      BY <1>1, <3>2, AppliesWithin
    <3>4. Applies(ShareOf[w], req[w].uid, req[w].todo[1].path)'
            = Applies(ShareOf[w], req[w].uid, rest[1].path)
      BY <2>3, <2>8 DEF Applies
    <3> QED BY <2>4, <2>5, <2>6, <2>8, <3>3, <3>4 DEF Asked
  <2>9. \/ req'[w].at = "act" /\ rest = <<>>
        \/ /\ rest # <<>> /\ req'[w].at = "look" /\ req'[w].todo = rest
           /\ req'[w].n = Len(rest[1].path)
    BY <1>9, <1>4, <1>5, <1>6
  <2> QED BY <2>7, <2>8, <2>9
<1> QED BY <1>7, <1>8, <1>9

(* The statement of one level. *)
LEMMA LookedAsked ==
  ASSUME GrantInv, NEW w \in Workers, Look(w)
  PROVE  Typed' /\ Asked(w)' /\ \A v \in Workers \ {w} : req'[v] = req[v]
<1> DEFINE p == req[w].todo[1].path   n == req[w].n
           found == IF n = 0 THEN {DefaultPerms} ELSE PermsAt(ShareOf[w], req[w].uid, SubSeq(p, 1, n))
<1>1. Typed /\ Asked(w) /\ rows \subseteq Row
  BY DEF GrantInv, Typed
<1>2. req[w] \in Request /\ WellFormed(req[w]) /\ req[w].at = "look" /\ UNCHANGED rows
  BY <1>1 DEF Typed, Look
<1>3. req[w].todo \in Seq(Question) /\ req[w].todo # <<>> /\ n \in Nat /\ n <= Len(p)
  BY <1>2 DEF Request, WellFormed
<1>4. Head(req[w].todo) = req[w].todo[1] /\ req[w].todo[1] \in Question
  BY <1>3, RestTyped
<1>5. p \in Seq(Names) /\ Len(p) \in Nat
  BY <1>4, LenProperties DEF Question
<1>6. \/ \E perms \in found : Decide(w, perms)
      \/ found = {} /\ req' = [req EXCEPT ![w].n = @ - 1]
      \/ n > 0 /\ Decide(w, {})
  BY <1>4 DEF Look
<1>7. req[w].fresh => \A r \in Applies(ShareOf[w], req[w].uid, p) : Len(r.path) <= n
  BY <1>1, <1>2 DEF Asked
<1>8. ASSUME NEW perms, Decide(w, perms), perms \in found \/ perms = {}
      PROVE  Typed' /\ Asked(w)' /\ \A v \in Workers \ {w} : req'[v] = req[v]
  <2>1. /\ req' \in [Workers -> Request] /\ \A v \in Workers : WellFormed(req'[v])
        /\ \A v \in Workers \ {w} : req'[v] = req[v]
    BY <1>1, <1>2, <1>8, DecidedTyped
  <2>2. Typed'
    BY <1>1, <1>2, <2>1 DEF Typed
  <2>3. ASSUME req[w].fresh, req[w].todo[1].perm \in perms
        PROVE  perms \in Nearest(ShareOf[w], req[w].uid, p)
    <3>1. perms \in found
      BY <1>8, <2>3
    <3>2. CASE n = 0
      <4>1. \A r \in Applies(ShareOf[w], req[w].uid, p) : Len(r.path) <= 0
        BY <1>7, <2>3, <3>2
      <4>2. Nearest(ShareOf[w], req[w].uid, p) = {DefaultPerms}
        BY <1>1, <1>5, <4>1, DefaultIsNearest
      <4> QED BY <3>1, <3>2, <4>2
    <3>3. CASE n # 0
      <4>1. n \in 1..Len(p) /\ perms \in PermsAt(ShareOf[w], req[w].uid, SubSeq(p, 1, n))
        BY <1>3, <1>5, <3>1, <3>3
      <4> HIDE DEF p, n
      <4> QED BY <1>1, <1>5, <1>7, <2>3, <4>1, FoundIsNearest
    <3> QED BY <3>2, <3>3
  <2>4. Asked(w)'
    BY <1>2, <1>8, <2>3, DecidedAsked
  <2> QED BY <2>1, <2>2, <2>4
<1>9. CASE found = {} /\ req' = [req EXCEPT ![w].n = @ - 1]
  <2>1. n # 0 /\ n \in 1..Len(p) /\ PermsAt(ShareOf[w], req[w].uid, SubSeq(p, 1, n)) = {}
    BY <1>3, <1>5, <1>9
  <2>2. Typed' /\ req'[w] = [req[w] EXCEPT !.n = @ - 1] /\ \A v \in Workers \ {w} : req'[v] = req[v]
    BY <1>1, <1>2, <1>9, <2>1, ClimbedTyped
  <2>3. /\ req'[w].uid = req[w].uid /\ req'[w].op = req[w].op /\ req'[w].at = "look"
        /\ req'[w].from = req[w].from /\ req'[w].to = req[w].to /\ req'[w].fresh = req[w].fresh
        /\ req'[w].there = req[w].there /\ req'[w].todo = req[w].todo /\ req'[w].n = n - 1
    BY <1>2, <2>2 DEF Request
  <2>4. req[w].fresh => \A r \in Applies(ShareOf[w], req[w].uid, p) : Len(r.path) <= n - 1
    <3> HIDE DEF p, n
    <3> QED BY <1>1, <1>5, <1>7, <2>1, NoneFound
  <2>5. Applies(ShareOf[w], req[w].uid, req[w].todo[1].path)'
          = Applies(ShareOf[w], req[w].uid, p)
    BY <1>2, <2>3 DEF Applies
  <2>6. \A x : MayWrite(w, x)' = MayWrite(w, x)
    BY <1>2, <2>3, MayWriteStable
  <2>7. Needs(req[w])' = Needs(req[w])
    BY <2>3 DEF Needs
  <2>8. Asked(w)'
    BY <1>1, <1>2, <2>3, <2>4, <2>5, <2>6, <2>7 DEF Asked
  <2> QED BY <2>2, <2>8
<1> QED BY <1>6, <1>8, <1>9

LEMMA GrantInit == Init => GrantInv
<1> SUFFICES ASSUME Init PROVE GrantInv
  OBVIOUS
<1>1. \A w \in Workers : req[w].at = "idle"
  BY DEF Init, Idle
<1> QED BY <1>1, TypedInit DEF GrantInv, Asked

LEMMA GrantNext == GrantInv /\ [Next]_vars => GrantInv'
<1> SUFFICES ASSUME GrantInv, [Next]_vars
             PROVE  GrantInv'
  OBVIOUS
<1>1. Typed /\ \A w \in Workers : Asked(w)
  BY DEF GrantInv
<1>2. ASSUME UNCHANGED vars
      PROVE  GrantInv'
  <2>1. Typed'
    BY <1>1, <1>2 DEF vars, Typed
  <2>2. \A w \in Workers : Asked(w)'
    BY <1>1, <1>2, AskedStable DEF vars
  <2> QED BY <2>1, <2>2 DEF GrantInv
<1>3. ASSUME NEW w \in Workers, Typed', UNCHANGED rows, Asked(w)',
             \A v \in Workers \ {w} : req'[v] = req[v]
      PROVE  GrantInv'
  <2>1. \A v \in Workers \ {w} : Asked(v)'
    BY <1>1, <1>3, AskedStable
  <2> QED BY <1>3, <2>1 DEF GrantInv
<1>4. ASSUME NEW w \in Workers, req' = [req EXCEPT ![w] = Idle], UNCHANGED rows
      PROVE  GrantInv'
  <2>1. Typed' /\ req'[w] = Idle /\ \A v \in Workers \ {w} : req'[v] = req[v]
    BY <1>1, <1>4, EndedTyped
  <2>2. Asked(w)'
    BY <2>1 DEF Asked, Idle
  <2> QED BY <1>3, <1>4, <2>1, <2>2
<1>5. ASSUME NEW w \in Workers, req[w].at = "act", req[w].op \in {"unlink", "rmdir", "rename"},
             req' = [req EXCEPT ![w].at = "sql"], UNCHANGED rows
      PROVE  GrantInv'
  <2>1. Typed' /\ req'[w] = [req[w] EXCEPT !.at = "sql"]
        /\ \A v \in Workers \ {w} : req'[v] = req[v]
    BY <1>1, <1>5, CalledTyped
  <2>2. req[w] \in Request
    BY <1>1 DEF Typed
  <2>3. req'[w].at = "sql"
    BY <2>1, <2>2 DEF Request
  <2>4. Asked(w)'
    BY <2>3 DEF Asked
  <2> QED BY <1>3, <1>5, <2>1, <2>4
<1>6. ASSUME NEW w \in Workers, Step(w)
      PROVE  GrantInv'
  <2>1. ASSUME NEW op \in UsedOps, NEW p \in UsedPaths, NEW q \in UsedPaths, NEW uid \in Uids,
               Begin(w, op, p, q, uid)
        PROVE  GrantInv'
    <3>1. Typed' /\ \A v \in Workers \ {w} : req'[v] = req[v]
      BY <1>1, <2>1, BegunTyped
    <3>2. Asked(w)'
      BY <1>1, <2>1, BegunAsked
    <3>3. UNCHANGED rows
      BY <2>1 DEF Begin
    <3> QED BY <1>3, <3>1, <3>2, <3>3
  <2>2. CASE Look(w)
    <3>1. Typed' /\ Asked(w)' /\ \A v \in Workers \ {w} : req'[v] = req[v]
      BY <2>2, LookedAsked
    <3>2. UNCHANGED rows
      BY <2>2 DEF Look
    <3> QED BY <1>3, <3>1, <3>2
  <2>3. CASE CallFails(w)
    BY <1>4, <2>3 DEF CallFails
  <2>4. CASE Call(w)
    BY <1>4, <2>4 DEF Call
  <2>5. CASE RemoveName(w)
    BY <1>5, <2>5 DEF RemoveName
  <2>6. CASE Rename(w)
    BY <1>5, <2>6 DEF Rename
  <2>7. CASE Follow(w)
    <3>1. /\ Typed' /\ req'[w] = Idle
          /\ \A v \in Workers \ {w} : req'[v] = [req[v] EXCEPT !.fresh = @ /\ rows' = rows]
      BY <1>1, <2>7, FollowedTyped
    <3>2. ASSUME NEW v \in Workers, v # w
          PROVE  Asked(v)'
      <4>1. req[v] \in Request
        BY <1>1 DEF Typed
      <4>2. CASE rows' = rows
        <5>1. req'[v] = req[v]
          BY <3>1, <3>2, <4>1, <4>2 DEF Request
        <5> QED BY <1>1, <4>2, <5>1, AskedStable
      <4>3. CASE rows' # rows
        <5>1. ~req'[v].fresh
          BY <3>1, <3>2, <4>1, <4>3 DEF Request
        <5> QED BY <5>1 DEF Asked
      <4> QED BY <4>2, <4>3
    <3>3. Asked(w)'
      BY <3>1 DEF Asked, Idle
    <3> QED BY <3>1, <3>2, <3>3 DEF GrantInv
  <2> QED BY <1>6, <2>1, <2>2, <2>3, <2>4, <2>5, <2>6, <2>7 DEF Step
<1> QED BY <1>2, <1>6 DEF Next

(* Whatever the table has and however the workers interleave: a request    *)
(* that comes to its system call, while no row changed since it began, may *)
(* write in every directory whose names it was asked to change and to the  *)
(* file it changes, and to create a file that was not there when it began  *)
(* in both, by the row nearest to it for the client's uid (getPerms and    *)
(* the checks of ReadyToRead).  A file unlinked since is no part of this:  *)
(* open() makes it again without a question about its directory.           *)
THEOREM CallsAreGranted == Spec => []ActsGranted
<1>1. GrantInv => ActsGranted
  BY DEF GrantInv, Asked, ActsGranted, Needs
<1>2. Spec => []GrantInv
  BY GrantInit, GrantNext, PTL DEF Spec
<1> QED BY <1>1, <1>2, PTL

-----------------------------------------------------------------------------
(* The rows follow the files                                               *)

Pending(v)  == req[v].at = "sql"
Apart(x, y) == x # y /\ ~Below(x, y) /\ ~Below(y, x)
PutAt(r, q) == [r EXCEPT !.path = q]

(* The row r becomes g by the statements to come: moved by one of them, or *)
(* left by all.                                                            *)
Lands(r, g) ==
  \/ \E v \in Workers : /\ Pending(v) /\ req[v].op = "rename" /\ req[v].from = r.path
                        /\ g = PutAt(r, req[v].to)
  \/ g = r /\ \A v \in Workers : Pending(v) => req[v].from # r.path

(* The statements to come concern different parts of the tree; each finds  *)
(* rows of its own share only, and none in the way; and they will make the *)
(* rows what they would be if they belonged to the files.                  *)
Followed ==
  /\ \A v, w \in Workers : Pending(v) /\ Pending(w) /\ v # w =>
       \A x \in {req[v].from, req[v].to}, y \in {req[w].from, req[w].to} : Apart(x, y)
  /\ \A w \in Workers : Pending(w) =>
       \A r \in rows : /\ r.path = req[w].from => r.share = ShareOf[w]
                       /\ req[w].op = "rename" => r.path # req[w].to
  /\ \A g : g \in grants <=> \E r \in rows : Lands(r, g)

FollowInv == Typed /\ (odd = {} => Followed)

(* Rows at another path. *)
LEMMA PutAtFields ==
  ASSUME NEW r \in Row, NEW q
  PROVE  /\ PutAt(r, q).path = q /\ PutAt(r, q).share = r.share
         /\ PutAt(r, q).cu = r.cu /\ PutAt(r, q).perms = r.perms
         /\ PutAt(r, r.path) = r
         /\ \A x : PutAt(PutAt(r, q), x) = PutAt(r, x)
  BY DEF PutAt, Row

(* Nothing changes for the rows while no statement comes or goes. *)
LEMMA FollowedSame ==
  ASSUME Followed, UNCHANGED <<rows, grants>>, NEW w \in Workers,
         ~Pending(w), ~Pending(w)', \A v \in Workers \ {w} : req'[v] = req[v]
  PROVE  Followed'
<1>1. \A v \in Workers : Pending(v)' <=> Pending(v)
  BY DEF Pending
<1>2. \A v \in Workers : Pending(v) => req'[v] = req[v]
  BY DEF Pending
<1>3. \A r, g : Lands(r, g)' <=> Lands(r, g)
  BY <1>1, <1>2 DEF Lands
<1>4. \A g : g \in grants' <=> \E r \in rows' : Lands(r, g)'
  BY <1>3 DEF Followed
<1>5. \A v, x \in Workers : Pending(v)' /\ Pending(x)' /\ v # x =>
        \A y \in {req'[v].from, req'[v].to}, z \in {req'[x].from, req'[x].to} : Apart(y, z)
  BY <1>1, <1>2 DEF Followed
<1>6. \A x \in Workers : Pending(x)' =>
        \A r \in rows' : /\ r.path = req'[x].from => r.share = ShareOf[x]
                         /\ req'[x].op = "rename" => r.path # req'[x].to
  BY <1>1, <1>2 DEF Followed
<1> QED BY <1>4, <1>5, <1>6 DEF Followed

(* A name removed: what its rows grant is gone from the files, and they    *)
(* are of this share.                                                      *)
LEMMA RemovedFollowed ==
  ASSUME Typed, Followed, NEW w \in Workers, RemoveName(w), odd' = {}
  PROVE  Followed'
<1> DEFINE s == ShareOf[w]   p == req[w].from
<1>1. req[w] \in Request /\ WellFormed(req[w]) /\ rows \subseteq Row
  BY DEF Typed
<1>2. /\ req[w].at = "act" /\ req[w].op \in {"unlink", "rmdir"} /\ UNCHANGED rows
      /\ req' = [req EXCEPT ![w].at = "sql"]
      /\ grants' = {r \in grants : ~(r.share = s /\ r.path = p)}
  BY DEF RemoveName
<1>3. req'[w] = [req[w] EXCEPT !.at = "sql"] /\ \A v \in Workers \ {w} : req'[v] = req[v]
  BY <1>2, CalledTyped
<1>4. /\ req'[w].at = "sql" /\ req'[w].op = req[w].op /\ req'[w].from = p
      /\ req'[w].to = p /\ req[w].to = p
  BY <1>1, <1>2, <1>3 DEF Request, WellFormed
<1>5. Oddities(w) = {}
  BY DEF RemoveName
<1>6. \A r \in rows : r.path = p => r.share = s
  BY <1>5 DEF Oddities
<1>7. ~Race(w, {p, req[w].to})
  BY <1>5 DEF Oddities
<1>8. \A v \in Workers \ {w} : Pending(v) =>
        \A x \in {req[v].from, req[v].to} : Apart(x, p)
  BY <1>7 DEF Race, Pending, Apart
<1>9. Pending(w)' /\ ~Pending(w) /\ \A v \in Workers \ {w} : Pending(v)' <=> Pending(v)
  BY <1>2, <1>3, <1>4 DEF Pending
<1>10. \A x, y : Apart(x, y) <=> Apart(y, x)
  BY DEF Apart
<1>11. \A v, x \in Workers : Pending(v)' /\ Pending(x)' /\ v # x =>
         \A y \in {req'[v].from, req'[v].to}, z \in {req'[x].from, req'[x].to} : Apart(y, z)
  <2> SUFFICES ASSUME NEW v \in Workers, NEW x \in Workers, Pending(v)', Pending(x)', v # x,
                      NEW y \in {req'[v].from, req'[v].to}, NEW z \in {req'[x].from, req'[x].to}
               PROVE  Apart(y, z)
    OBVIOUS
  <2>1. CASE v = w
    <3>1. y = p /\ Pending(x) /\ z \in {req[x].from, req[x].to}
      BY <1>3, <1>4, <1>9, <2>1
    <3> QED BY <1>8, <1>10, <2>1, <3>1
  <2>2. CASE x = w
    <3>1. z = p /\ Pending(v) /\ y \in {req[v].from, req[v].to}
      BY <1>3, <1>4, <1>9, <2>2
    <3> QED BY <1>8, <2>2, <3>1
  <2>3. CASE v # w /\ x # w
    <3>1. Pending(v) /\ Pending(x) /\ req'[v] = req[v] /\ req'[x] = req[x]
      BY <1>3, <1>9, <2>3
    <3> QED BY <3>1 DEF Followed
  <2> QED BY <2>1, <2>2, <2>3
<1>12. \A x \in Workers : Pending(x)' =>
         \A r \in rows' : /\ r.path = req'[x].from => r.share = ShareOf[x]
                          /\ req'[x].op = "rename" => r.path # req'[x].to
  BY <1>2, <1>3, <1>4, <1>6, <1>9 DEF Followed
<1>13. ASSUME NEW g
       PROVE  g \in grants' <=> \E r \in rows' : Lands(r, g)'
  <2>1. ASSUME g \in grants, ~(g.share = s /\ g.path = p)
        PROVE  \E r \in rows : Lands(r, g)'
    <3>1. PICK r \in rows : Lands(r, g)
      BY <2>1 DEF Followed
    <3>2. CASE g = r /\ \A v \in Workers : Pending(v) => req[v].from # r.path
      <4>1. r.path # p
        BY <1>6, <2>1, <3>2
      <4> QED BY <1>3, <1>4, <1>9, <3>2, <4>1 DEF Lands
    <3>3. CASE \E v \in Workers : /\ Pending(v) /\ req[v].op = "rename" /\ req[v].from = r.path
                                  /\ g = PutAt(r, req[v].to)
      <4>1. PICK v \in Workers : /\ Pending(v) /\ req[v].op = "rename" /\ req[v].from = r.path
                                 /\ g = PutAt(r, req[v].to)
        BY <3>3
      <4>2. v # w
        BY <1>9, <4>1
      <4> QED BY <1>3, <1>9, <4>1, <4>2 DEF Lands
    <3> QED BY <3>1, <3>2, <3>3 DEF Lands
  <2>2. ASSUME NEW r \in rows, Lands(r, g)'
        PROVE  g \in grants /\ ~(g.share = s /\ g.path = p)
    <3>1. CASE g = r /\ \A v \in Workers : Pending(v)' => req'[v].from # r.path
      <4>1. r.path # p
        BY <1>4, <1>9, <3>1
      <4>2. Lands(r, g)
        BY <1>3, <1>9, <3>1 DEF Lands
      <4> QED BY <3>1, <4>1, <4>2 DEF Followed
    <3>2. CASE \E v \in Workers : /\ Pending(v)' /\ req'[v].op = "rename"
                                  /\ req'[v].from = r.path /\ g = PutAt(r, req'[v].to)
      <4>1. PICK v \in Workers : /\ Pending(v)' /\ req'[v].op = "rename"
                                 /\ req'[v].from = r.path /\ g = PutAt(r, req'[v].to)
        BY <3>2
      <4>2. v # w
        BY <1>2, <1>4, <4>1
      <4>3. Pending(v) /\ req'[v] = req[v]
        BY <1>3, <1>9, <4>1, <4>2
      <4>4. Lands(r, g)
        BY <4>1, <4>3 DEF Lands
      <4>5. g.path = req[v].to
        BY <1>1, <4>1, <4>3, PutAtFields
      <4>6. g.path # p
        BY <1>8, <4>2, <4>3, <4>5 DEF Apart
      <4> QED BY <4>4, <4>6 DEF Followed
    <3> QED BY <2>2, <3>1, <3>2 DEF Lands
  <2> QED BY <1>2, <2>1, <2>2
<1> QED BY <1>11, <1>12, <1>13 DEF Followed

(* A name renamed: no row is at the new name or below the old one, so each *)
(* row that is moved with the files is at the old name itself.             *)
LEMMA RenamedFollowed ==
  ASSUME Typed, Followed, NEW w \in Workers, Rename(w), odd' = {}
  PROVE  Followed'
<1> DEFINE s == ShareOf[w]   p == req[w].from   q == req[w].to
           moved(g) == [g EXCEPT !.path = IF g.share = s THEN Moved(p, q, @) ELSE @]
<1>1. req[w] \in Request /\ WellFormed(req[w]) /\ rows \subseteq Row
  BY DEF Typed
<1>2. /\ req[w].at = "act" /\ req[w].op = "rename" /\ UNCHANGED rows
      /\ req' = [req EXCEPT ![w].at = "sql"]
      /\ grants' = {moved(r) : r \in {g \in grants : ~(g.share = s /\ g.path = q)}}
  BY DEF Rename
<1>3. req'[w] = [req[w] EXCEPT !.at = "sql"] /\ \A v \in Workers \ {w} : req'[v] = req[v]
  BY <1>2, CalledTyped
<1>4. /\ req'[w].at = "sql" /\ req'[w].op = "rename" /\ req'[w].from = p /\ req'[w].to = q
      /\ p \in Paths /\ q \in Paths /\ p # q
  BY <1>1, <1>2, <1>3 DEF Request, WellFormed
<1>5. Oddities(w) = {}
  BY DEF Rename
<1>6. \A r \in rows : /\ r.path = p => r.share = s
                      /\ r.path # q /\ ~Below(p, r.path)
  BY <1>2, <1>5 DEF Oddities
<1>7. ~Race(w, {p, q})
  BY <1>5 DEF Oddities
<1>8. \A v \in Workers \ {w} : Pending(v) =>
        \A x \in {req[v].from, req[v].to}, y \in {p, q} : Apart(x, y) /\ Apart(y, x)
  BY <1>7 DEF Race, Pending, Apart
<1>9. Pending(w)' /\ ~Pending(w) /\ \A v \in Workers \ {w} : Pending(v)' <=> Pending(v)
  BY <1>2, <1>3, <1>4 DEF Pending
<1>10. Moved(p, q, p) = q /\ \A x : x # p /\ ~Below(p, x) => Moved(p, q, x) = x
  BY <1>4, MovedItself DEF Moved
<1>11. \A v, x \in Workers : Pending(v)' /\ Pending(x)' /\ v # x =>
         \A y \in {req'[v].from, req'[v].to}, z \in {req'[x].from, req'[x].to} : Apart(y, z)
  <2> SUFFICES ASSUME NEW v \in Workers, NEW x \in Workers, Pending(v)', Pending(x)', v # x,
                      NEW y \in {req'[v].from, req'[v].to}, NEW z \in {req'[x].from, req'[x].to}
               PROVE  Apart(y, z)
    OBVIOUS
  <2>1. CASE v = w
    <3>1. y \in {p, q} /\ Pending(x) /\ z \in {req[x].from, req[x].to}
      BY <1>3, <1>4, <1>9, <2>1
    <3> QED BY <1>8, <2>1, <3>1
  <2>2. CASE x = w
    <3>1. z \in {p, q} /\ Pending(v) /\ y \in {req[v].from, req[v].to}
      BY <1>3, <1>4, <1>9, <2>2
    <3> QED BY <1>8, <2>2, <3>1
  <2>3. CASE v # w /\ x # w
    <3>1. Pending(v) /\ Pending(x) /\ req'[v] = req[v] /\ req'[x] = req[x]
      BY <1>3, <1>9, <2>3
    <3> QED BY <3>1 DEF Followed
  <2> QED BY <2>1, <2>2, <2>3
<1>12. \A x \in Workers : Pending(x)' =>
         \A r \in rows' : /\ r.path = req'[x].from => r.share = ShareOf[x]
                          /\ req'[x].op = "rename" => r.path # req'[x].to
  BY <1>2, <1>3, <1>4, <1>6, <1>9 DEF Followed
<1> HIDE DEF p, q, s
<1>13. ASSUME NEW r \in Row, r.share = s, r.path = p
       PROVE  moved(r) = PutAt(r, q)
  BY <1>10, <1>13 DEF PutAt, Row
<1>14. ASSUME NEW r \in Row, r.path # p, ~Below(p, r.path), NEW x, x # p, ~Below(p, x)
       PROVE  moved(r) = r /\ moved(PutAt(r, x)) = PutAt(r, x)
  <2>1. /\ PutAt(r, x).path = x
        /\ PutAt(r, x) = [share |-> r.share, cu |-> r.cu, path |-> x, perms |-> r.perms]
    BY DEF PutAt, Row
  <2>2. Moved(p, q, r.path) = r.path /\ Moved(p, q, x) = x
    BY <1>10, <1>14
  <2>3. moved(r) = r
    BY <2>2 DEF Row
  <2>4. moved(PutAt(r, x)) = PutAt(r, x)
    BY <2>1, <2>2
  <2> QED BY <2>3, <2>4
<1>15. \A v \in Workers \ {w} : Pending(v) =>
         req[v].to # p /\ req[v].to # q /\ ~Below(p, req[v].to) /\ req[v].from # p
  BY <1>8 DEF Apart
<1>16. ASSUME NEW r \in rows, NEW g, Lands(r, g)
       PROVE  ~(g.share = s /\ g.path = q) /\ \A h : h = moved(g) => Lands(r, h)'
  <2>1. r \in Row /\ r.path # q /\ ~Below(p, r.path) /\ (r.path = p => r.share = s)
    BY <1>1, <1>6 DEF p, q, s
  <2>2. CASE g = r /\ \A v \in Workers : Pending(v) => req[v].from # r.path
    <3>1. CASE r.path = p
      <4>1. moved(g) = PutAt(r, q)
        BY <1>13, <2>1, <2>2, <3>1
      <4>2. \A h : h = PutAt(r, q) => Lands(r, h)'
        BY <1>4, <1>9, <3>1 DEF Lands, p, q
      <4> QED BY <2>1, <2>2, <4>1, <4>2
    <3>2. CASE r.path # p
      <4>1. moved(g) = r
        BY <1>4, <1>14, <2>1, <2>2, <3>2
      <4>2. \A v \in Workers : Pending(v)' => req'[v].from # r.path
        BY <1>3, <1>4, <1>9, <2>2, <3>2 DEF p
      <4>3. Lands(r, r)'
        BY <4>2 DEF Lands
      <4> QED BY <2>1, <2>2, <4>1, <4>3
    <3> QED BY <3>1, <3>2
  <2>3. CASE \E v \in Workers : /\ Pending(v) /\ req[v].op = "rename" /\ req[v].from = r.path
                                /\ g = PutAt(r, req[v].to)
    <3>1. PICK v \in Workers : /\ Pending(v) /\ req[v].op = "rename" /\ req[v].from = r.path
                               /\ g = PutAt(r, req[v].to)
      BY <2>3
    <3>2. v # w
      BY <1>9, <3>1
    <3>3. /\ req[v].to # p /\ req[v].to # q /\ ~Below(p, req[v].to) /\ r.path # p
      BY <1>15, <3>1, <3>2
    <3>4. moved(g) = g
      BY <1>14, <2>1, <3>1, <3>3
    <3>5. g.path # q
      BY <2>1, <3>1, <3>3, PutAtFields
    <3>6. Pending(v)' /\ req'[v] = req[v]
      BY <1>3, <1>9, <3>1, <3>2
    <3>7. Lands(r, g)'
      BY <3>1, <3>6 DEF Lands
    <3> QED BY <3>4, <3>5, <3>7
  <2> QED BY <1>16, <2>2, <2>3 DEF Lands
<1>17. ASSUME NEW r \in rows, NEW g, Lands(r, g)'
       PROVE  \E h : Lands(r, h) /\ g = moved(h)
  <2>1. r \in Row /\ ~Below(p, r.path) /\ (r.path = p => r.share = s)
    BY <1>1, <1>6 DEF p, s
  <2>2. CASE g = r /\ \A v \in Workers : Pending(v)' => req'[v].from # r.path
    <3>1. r.path # p
      BY <1>4, <1>9, <2>2 DEF p
    <3>2. \A v \in Workers : Pending(v) => req[v].from # r.path
      BY <1>3, <1>9, <2>2
    <3>3. Lands(r, r)
      BY <3>2 DEF Lands
    <3>4. moved(r) = r
      BY <1>4, <1>14, <2>1, <3>1
    <3> QED BY <2>2, <3>3, <3>4
  <2>3. CASE \E v \in Workers : /\ Pending(v)' /\ req'[v].op = "rename"
                                /\ req'[v].from = r.path /\ g = PutAt(r, req'[v].to)
    <3>1. PICK v \in Workers : /\ Pending(v)' /\ req'[v].op = "rename"
                               /\ req'[v].from = r.path /\ g = PutAt(r, req'[v].to)
      BY <2>3
    <3>2. CASE v = w
      <4>1. r.path = p /\ g = PutAt(r, q)
        BY <1>4, <3>1, <3>2 DEF p, q
      <4>2. \A x \in Workers : Pending(x) => req[x].from # r.path
        BY <1>9, <1>15, <4>1
      <4>3. Lands(r, r)
        BY <4>2 DEF Lands
      <4>4. moved(r) = PutAt(r, q)
        BY <1>13, <2>1, <4>1
      <4> QED BY <4>1, <4>3, <4>4
    <3>3. CASE v # w
      <4>1. Pending(v) /\ req'[v] = req[v]
        BY <1>3, <1>9, <3>1, <3>3
      <4>2. /\ req[v].to # p /\ ~Below(p, req[v].to) /\ r.path # p
        BY <1>15, <3>1, <3>3, <4>1
      <4>3. Lands(r, g)
        BY <3>1, <4>1 DEF Lands
      <4>4. moved(g) = g
        BY <1>14, <2>1, <3>1, <4>1, <4>2
      <4> QED BY <4>3, <4>4
    <3> QED BY <3>2, <3>3
  <2> QED BY <1>17, <2>2, <2>3 DEF Lands
<1>18. ASSUME NEW g
       PROVE  g \in grants' <=> \E r \in rows' : Lands(r, g)'
  <2>1. ASSUME g \in grants'
        PROVE  \E r \in rows' : Lands(r, g)'
    <3>1. PICK h \in grants : g = moved(h)
      BY <1>2, <2>1 DEF p, q, s
    <3>2. PICK r \in rows : Lands(r, h)
      BY <3>1 DEF Followed
    <3> HIDE DEF moved
    <3> QED BY <1>2, <1>16, <3>1, <3>2
  <2>2. ASSUME NEW r \in rows', Lands(r, g)'
        PROVE  g \in grants'
    <3>1. r \in rows
      BY <1>2
    <3>2. PICK h : Lands(r, h) /\ g = moved(h)
      BY <1>17, <2>2, <3>1
    <3>3. h \in grants
      BY <3>1, <3>2 DEF Followed
    <3>4. ~(h.share = s /\ h.path = q)
      BY <1>16, <3>1, <3>2
    <3> QED BY <1>2, <3>2, <3>3, <3>4 DEF p, q, s
  <2> QED BY <2>1, <2>2
<1> QED BY <1>11, <1>12, <1>18 DEF Followed

(* The statement: it moves or deletes what was to be moved or deleted.     *)
LEMMA StatementFollowed ==
  ASSUME Typed, Followed, NEW w \in Workers, Follow(w), odd' = {}
  PROVE  Followed'
<1> DEFINE p == req[w].from   q == req[w].to
<1>1. req[w] \in Request /\ WellFormed(req[w]) /\ rows \subseteq Row
  BY DEF Typed
<1>2. /\ Pending(w) /\ UNCHANGED grants
      /\ rows' = IF req[w].op = "rename" THEN MovedRows(p, q) ELSE {r \in rows : r.path # p}
  <2>1. odd \cup {"failed"} # {}
    OBVIOUS
  <2> QED BY <2>1 DEF Follow, Pending
<1>3. /\ req'[w].at = "idle"
      /\ \A v \in Workers \ {w} : /\ Pending(v)' <=> Pending(v)
                                  /\ req'[v].op = req[v].op /\ req'[v].from = req[v].from
                                  /\ req'[v].to = req[v].to
  <2>1. /\ req'[w] = Idle
        /\ \A v \in Workers \ {w} : req'[v] = [req[v] EXCEPT !.fresh = @ /\ rows' = rows]
    BY FollowedTyped
  <2>2. \A v \in Workers : req[v] \in Request
    BY DEF Typed
  <2>3. ASSUME NEW v \in Workers, v # w
        PROVE  /\ req'[v].at = req[v].at /\ req'[v].op = req[v].op
               /\ req'[v].from = req[v].from /\ req'[v].to = req[v].to
    <3>1. PICK b : req'[v] = [req[v] EXCEPT !.fresh = b]
      BY <2>1, <2>3
    <3> QED BY <2>2, <3>1 DEF Request
  <2> QED BY <2>1, <2>3 DEF Pending, Idle
<1>4. ~Pending(w)'
  BY <1>3 DEF Pending
<1>5. \A v \in Workers \ {w} : Pending(v) =>
        \A x \in {req[v].from, req[v].to} : x # p /\ x # q
  BY <1>2 DEF Followed, Apart
<1>6. \A v, x \in Workers : Pending(v)' /\ Pending(x)' /\ v # x =>
        \A y \in {req'[v].from, req'[v].to}, z \in {req'[x].from, req'[x].to} : Apart(y, z)
  <2> SUFFICES ASSUME NEW v \in Workers, NEW x \in Workers, Pending(v)', Pending(x)', v # x,
                      NEW y \in {req'[v].from, req'[v].to}, NEW z \in {req'[x].from, req'[x].to}
               PROVE  Apart(y, z)
    OBVIOUS
  <2>1. v # w /\ x # w /\ Pending(v) /\ Pending(x)
    BY <1>3, <1>4
  <2>2. y \in {req[v].from, req[v].to} /\ z \in {req[x].from, req[x].to}
    BY <1>3, <2>1
  <2> QED BY <2>1, <2>2 DEF Followed
<1>7. CASE req[w].op # "rename"
  <2>1. rows' = {r \in rows : r.path # p}
    BY <1>2, <1>7
  <2>2. \A x \in Workers : Pending(x)' =>
          \A r \in rows' : /\ r.path = req'[x].from => r.share = ShareOf[x]
                           /\ req'[x].op = "rename" => r.path # req'[x].to
    BY <1>3, <1>4, <2>1 DEF Followed
  <2>3. ASSUME NEW r \in rows, NEW g
        PROVE  Lands(r, g) <=> r.path # p /\ Lands(r, g)'
    <3>1. ASSUME Lands(r, g)
          PROVE  r.path # p /\ Lands(r, g)'
      <4>1. CASE g = r /\ \A v \in Workers : Pending(v) => req[v].from # r.path
        <5>1. r.path # p
          BY <1>2, <4>1
        <5> QED BY <1>3, <1>4, <4>1, <5>1 DEF Lands
      <4>2. CASE \E v \in Workers : /\ Pending(v) /\ req[v].op = "rename"
                                    /\ req[v].from = r.path /\ g = PutAt(r, req[v].to)
        <5>1. PICK v \in Workers : /\ Pending(v) /\ req[v].op = "rename"
                                   /\ req[v].from = r.path /\ g = PutAt(r, req[v].to)
          BY <4>2
        <5>2. v # w
          BY <1>7, <5>1
        <5>3. r.path # p
          BY <1>5, <5>1, <5>2
        <5> QED BY <1>3, <5>1, <5>2, <5>3 DEF Lands
      <4> QED BY <3>1, <4>1, <4>2 DEF Lands
    <3>2. ASSUME r.path # p, Lands(r, g)'
          PROVE  Lands(r, g)
      <4>1. CASE g = r /\ \A v \in Workers : Pending(v)' => req'[v].from # r.path
        BY <1>3, <3>2, <4>1 DEF Lands
      <4>2. CASE \E v \in Workers : /\ Pending(v)' /\ req'[v].op = "rename"
                                    /\ req'[v].from = r.path /\ g = PutAt(r, req'[v].to)
        <5>1. PICK v \in Workers : /\ Pending(v)' /\ req'[v].op = "rename"
                                   /\ req'[v].from = r.path /\ g = PutAt(r, req'[v].to)
          BY <4>2
        <5>2. v # w
          BY <1>4, <5>1
        <5> QED BY <1>3, <5>1, <5>2 DEF Lands
      <4> QED BY <3>2, <4>1, <4>2 DEF Lands
    <3> QED BY <3>1, <3>2
  <2>4. \A g : g \in grants' <=> \E r \in rows' : Lands(r, g)'
    BY <1>2, <2>1, <2>3 DEF Followed
  <2> QED BY <1>6, <2>2, <2>4 DEF Followed
<1>8. CASE req[w].op = "rename"
  <2>1. \A r \in rows : r.path # q
    BY <1>2, <1>8 DEF Followed
  <2>2. rows' = {[r EXCEPT !.path = IF @ = p THEN q ELSE @] : r \in rows}
    BY <1>2, <1>8, <2>1 DEF MovedRows
  <2> DEFINE new(r) == IF r.path = p THEN PutAt(r, q) ELSE r
  <2>3. \A r \in Row : [r EXCEPT !.path = IF @ = p THEN q ELSE @] = new(r)
    BY DEF Row, PutAt
  <2>4. \A r \in rows : new(r) \in rows'
    BY <1>1, <2>2, <2>3
  <2>5. \A y \in rows' : \E r \in rows : y = new(r)
    BY <1>1, <2>2, <2>3
  <2>6. \A r \in rows : /\ new(r).share = r.share
                        /\ new(r).path = IF r.path = p THEN q ELSE r.path
    BY <1>1, PutAtFields
  <2>7. p # q
    BY <1>1, <1>2, <1>8 DEF WellFormed, Pending
  <2>8. \A x \in Workers : Pending(x)' =>
          \A y \in rows' : /\ y.path = req'[x].from => y.share = ShareOf[x]
                           /\ req'[x].op = "rename" => y.path # req'[x].to
    <3> SUFFICES ASSUME NEW x \in Workers, Pending(x)', NEW y \in rows'
                 PROVE  /\ y.path = req'[x].from => y.share = ShareOf[x]
                        /\ req'[x].op = "rename" => y.path # req'[x].to
      OBVIOUS
    <3>1. x # w /\ Pending(x) /\ req'[x].op = req[x].op /\ req'[x].from = req[x].from
          /\ req'[x].to = req[x].to
      BY <1>3, <1>4
    <3>2. PICK r \in rows : y = new(r)
      BY <2>5
    <3>3. q # req[x].from /\ q # req[x].to
      BY <1>5, <3>1
    <3>4. y.share = r.share /\ (y.path = q \/ y.path = r.path)
      BY <2>6, <3>2
    <3>5. /\ r.path = req[x].from => r.share = ShareOf[x]
          /\ req[x].op = "rename" => r.path # req[x].to
      BY <3>1 DEF Followed
    <3> HIDE DEF new
    <3> QED BY <3>1, <3>3, <3>4, <3>5
  <2> HIDE DEF p, q
  <2>9. ASSUME NEW r \in rows, NEW g, NEW y, y = new(r)
        PROVE  Lands(r, g) <=> Lands(y, g)'
    <3>1. r \in Row
      BY <1>1
    <3>2. CASE r.path = p
      <4>1. y = PutAt(r, q) /\ y.path = q
        BY <2>9, <3>1, <3>2, PutAtFields
      <4>2. Lands(r, g) <=> g = PutAt(r, q)
        BY <1>2, <1>5, <1>8, <3>2 DEF Lands, p, q
      <4>3. \A v \in Workers : Pending(v)' => req'[v].from # q
        BY <1>3, <1>4, <1>5
      <4>4. Lands(y, g)' <=> g = y
        BY <4>1, <4>3 DEF Lands
      <4> QED BY <4>1, <4>2, <4>4
    <3>3. CASE r.path # p
      <4>1. y = r
        BY <2>9, <3>3
      <4>2. \A v \in Workers : /\ Pending(v) /\ req[v].from = r.path => v # w
                               /\ Pending(v)' => v # w
        BY <1>4, <3>3 DEF p
      <4>3. Lands(r, g) <=> Lands(r, g)'
        BY <1>3, <4>2 DEF Lands
      <4> QED BY <4>1, <4>3
    <3> QED BY <3>2, <3>3
  <2> HIDE DEF new
  <2>10. ASSUME NEW g
         PROVE  g \in grants' <=> \E y \in rows' : Lands(y, g)'
    <3>1. ASSUME g \in grants'
          PROVE  \E y \in rows' : Lands(y, g)'
      <4>1. PICK r \in rows : Lands(r, g)
        BY <1>2, <3>1 DEF Followed
      <4>2. PICK y \in rows' : y = new(r)
        BY <2>4
      <4> QED BY <2>9, <4>1, <4>2
    <3>2. ASSUME NEW y \in rows', Lands(y, g)'
          PROVE  g \in grants'
      <4>1. PICK r \in rows : y = new(r)
        BY <2>5
      <4>2. Lands(r, g)
        BY <2>9, <3>2, <4>1
      <4> QED BY <1>2, <4>2 DEF Followed
    <3> QED BY <3>1, <3>2
  <2> QED BY <1>6, <2>8, <2>10 DEF Followed
<1> QED BY <1>7, <1>8

LEMMA FollowInit == Init => FollowInv
<1> SUFFICES ASSUME Init PROVE FollowInv
  OBVIOUS
<1>1. \A w \in Workers : ~Pending(w)
  BY DEF Init, Idle, Pending
<1>2. \A r, g : Lands(r, g) <=> g = r
  BY <1>1 DEF Lands
<1>3. grants = rows
  BY DEF Init
<1> QED BY <1>1, <1>2, <1>3, TypedInit DEF FollowInv, Followed

LEMMA FollowNext == FollowInv /\ [Next]_vars => FollowInv'
<1> SUFFICES ASSUME FollowInv, [Next]_vars
             PROVE  FollowInv'
  OBVIOUS
<1>1. Typed /\ (odd = {} => Followed)
  BY DEF FollowInv
<1>2. CASE UNCHANGED vars
  <2>1. Typed'
    BY <1>1, <1>2 DEF vars, Typed
  <2>2. \A v \in Workers : Pending(v)' <=> Pending(v)
    BY <1>2 DEF vars, Pending
  <2>3. \A r, g : Lands(r, g)' <=> Lands(r, g)
    BY <1>2, <2>2 DEF vars, Lands
  <2>4. (odd = {} => Followed)'
    BY <1>1, <1>2, <2>2, <2>3 DEF vars, Followed
  <2> QED BY <2>1, <2>4 DEF FollowInv
<1>3. ASSUME NEW w \in Workers, Step(w)
      PROVE  FollowInv'
  <2>1. ASSUME req[w].at # "sql", req'[w].at # "sql", UNCHANGED <<rows, grants>>, Typed',
               odd \subseteq odd', \A v \in Workers \ {w} : req'[v] = req[v]
        PROVE  FollowInv'
    <3>1. ~Pending(w) /\ ~Pending(w)'
      BY <2>1 DEF Pending
    <3>2. ASSUME odd' = {}
          PROVE  Followed'
      <4>1. Followed
        BY <1>1, <2>1, <3>2
      <4> QED BY <2>1, <3>1, <4>1, FollowedSame
    <3> QED BY <2>1, <3>2 DEF FollowInv
  <2>2. ASSUME NEW op \in UsedOps, NEW p \in UsedPaths, NEW q \in UsedPaths, NEW uid \in Uids,
               Begin(w, op, p, q, uid)
        PROVE  FollowInv'
    <3>1. Typed' /\ req'[w].at = "look" /\ \A v \in Workers \ {w} : req'[v] = req[v]
      <4>1. req'[w] = [at |-> "look", op |-> op, from |-> p, to |-> q, uid |-> uid,
                       there |-> Exists(ShareOf[w], p), todo |-> Asks(ShareOf[w], op, p, q),
                       n |-> Len(Asks(ShareOf[w], op, p, q)[1].path), fresh |-> TRUE]
        BY <1>1, <2>2, BegunTyped
      <4>2. req'[w].at = "look"
        BY ONLY <4>1
      <4> QED BY <1>1, <2>2, <4>2, BegunTyped
    <3>2. req[w].at = "idle" /\ UNCHANGED <<rows, grants, odd>>
      BY <2>2 DEF Begin
    <3> QED BY <2>1, <3>1, <3>2
  <2>3. CASE Look(w)
    <3>1. req[w].at = "look" /\ UNCHANGED <<rows, grants, odd>>
      BY <2>3 DEF Look
    <3>2. ASSUME NEW perms, Decide(w, perms)
          PROVE  FollowInv'
      <4>1. /\ req' \in [Workers -> Request] /\ \A v \in Workers : WellFormed(req'[v])
            /\ \A v \in Workers \ {w} : req'[v] = req[v]
        BY <1>1, <3>1, <3>2, DecidedTyped
      <4>2. Typed'
        BY <1>1, <3>1, <4>1 DEF Typed
      <4>3. req[w] \in Request
        BY <1>1 DEF Typed
      <4>4. \/ req'[w] = Idle
            \/ req'[w] = [req[w] EXCEPT !.at = "act", !.todo = <<>>]
            \/ req'[w] = [req[w] EXCEPT !.todo = Tail(req[w].todo),
                                        !.n = Len(Tail(req[w].todo)[1].path)]
        BY <1>1, <3>1, <3>2, DecidedTyped
      <4>5. req'[w].at # "sql"
        <5>1. \A t : [req[w] EXCEPT !.at = "act", !.todo = t].at = "act"
          BY <4>3 DEF Request
        <5>2. \A t, k : [req[w] EXCEPT !.todo = t, !.n = k].at = "look"
          BY <3>1, <4>3 DEF Request
        <5>3. CASE req'[w] = Idle
          BY ONLY <5>3 DEF Idle
        <5>4. CASE req'[w] = [req[w] EXCEPT !.at = "act", !.todo = <<>>]
          <6>1. req'[w].at = [req[w] EXCEPT !.at = "act", !.todo = <<>>].at
            BY ONLY <5>4
          <6> QED BY <5>1, <6>1
        <5>5. CASE req'[w] = [req[w] EXCEPT !.todo = Tail(req[w].todo),
                                            !.n = Len(Tail(req[w].todo)[1].path)]
          <6>1. req'[w].at = [req[w] EXCEPT !.todo = Tail(req[w].todo),
                                            !.n = Len(Tail(req[w].todo)[1].path)].at
            BY ONLY <5>5
          <6> QED BY <5>2, <6>1
        <5> QED BY <4>4, <5>3, <5>4, <5>5
      <4> QED BY <2>1, <3>1, <4>1, <4>2, <4>5
    <3>3. CASE req[w].n # 0 /\ req' = [req EXCEPT ![w].n = @ - 1]
      <4>1. Typed' /\ req'[w] = [req[w] EXCEPT !.n = @ - 1]
            /\ \A v \in Workers \ {w} : req'[v] = req[v]
        BY <1>1, <3>1, <3>3, ClimbedTyped
      <4>2. req[w] \in Request
        BY <1>1 DEF Typed
      <4>3. req'[w].at # "sql"
        BY <3>1, <4>1, <4>2 DEF Request
      <4> QED BY <2>1, <3>1, <4>1, <4>3
    <3>4. {DefaultPerms} # {}
      OBVIOUS
    <3> QED BY <2>3, <3>2, <3>3, <3>4 DEF Look
  <2>4. CASE CallFails(w)
    <3>1. req[w].at = "act" /\ UNCHANGED <<rows, grants, odd>> /\ req' = [req EXCEPT ![w] = Idle]
      BY <2>4 DEF CallFails
    <3>2. Typed' /\ req'[w] = Idle /\ \A v \in Workers \ {w} : req'[v] = req[v]
      BY <1>1, <3>1, EndedTyped
    <3> QED BY <2>1, <3>1, <3>2 DEF Idle
  <2>5. CASE Call(w)
    <3>1. /\ req[w].at = "act" /\ UNCHANGED <<rows, grants>> /\ odd \subseteq odd'
          /\ req' = [req EXCEPT ![w] = Idle]
      BY <2>5 DEF Call
    <3>2. Typed' /\ req'[w] = Idle /\ \A v \in Workers \ {w} : req'[v] = req[v]
      BY <1>1, <3>1, EndedTyped
    <3> QED BY <2>1, <3>1, <3>2 DEF Idle
  <2>6. CASE RemoveName(w)
    <3>1. /\ req[w].at = "act" /\ UNCHANGED rows /\ odd \subseteq odd'
          /\ req[w].op \in {"unlink", "rmdir", "rename"} /\ req' = [req EXCEPT ![w].at = "sql"]
      BY <2>6 DEF RemoveName
    <3>2. Typed'
      BY <1>1, <3>1, CalledTyped
    <3>3. odd' = {} => Followed'
      BY <1>1, <2>6, <3>1, RemovedFollowed
    <3> QED BY <3>2, <3>3 DEF FollowInv
  <2>7. CASE Rename(w)
    <3>1. /\ req[w].at = "act" /\ UNCHANGED rows /\ odd \subseteq odd'
          /\ req[w].op \in {"unlink", "rmdir", "rename"} /\ req' = [req EXCEPT ![w].at = "sql"]
      BY <2>7 DEF Rename
    <3>2. Typed'
      BY <1>1, <3>1, CalledTyped
    <3>3. odd' = {} => Followed'
      BY <1>1, <2>7, <3>1, RenamedFollowed
    <3> QED BY <3>2, <3>3 DEF FollowInv
  <2>8. CASE Follow(w)
    <3>1. Typed' /\ odd \subseteq odd'
      BY <1>1, <2>8, FollowedTyped DEF Follow
    <3>2. odd' = {} => Followed'
      BY <1>1, <2>8, <3>1, StatementFollowed
    <3> QED BY <3>1, <3>2 DEF FollowInv
  <2> QED BY <1>3, <2>2, <2>3, <2>4, <2>5, <2>6, <2>7, <2>8 DEF Step
<1> QED BY <1>2, <1>3 DEF Next

(* Whatever the table has, however deep the tree and however many workers: *)
(* as long as no statement failed, no two workers were about paths above   *)
(* one another at once, and no rename met rows at the new name, below the  *)
(* old one or of another share, the rows are, between operations, where    *)
(* they would be if they belonged to the files (the statements after       *)
(* unlink, rmdir and rename).                                              *)
THEOREM RowsStayWithFiles == Spec => []RowsFollowFiles
<1>1. ASSUME FollowInv
      PROVE  RowsFollowFiles
  <2> SUFFICES ASSUME odd = {}, \A w \in Workers : req[w].at # "sql"
               PROVE  rows = grants
    BY DEF RowsFollowFiles
  <2>1. \A r, g : Lands(r, g) <=> g = r
    BY DEF Lands, Pending
  <2>2. \A g : g \in grants <=> \E r \in rows : Lands(r, g)
    BY <1>1 DEF FollowInv, Followed
  <2> QED BY <2>1, <2>2
<1>2. Spec => []FollowInv
  BY FollowInit, FollowNext, PTL DEF Spec
<1> QED BY <1>1, <1>2, PTL

-----------------------------------------------------------------------------
(***************************************************************************)
(* The modes that getattr reports and mknod gives.                         *)
(*                                                                         *)
(* What the user may do, looked up above, reaches the client as three bits *)
(* of st_mode, which FileMode computes.                                    *)
(***************************************************************************)

(* The last k digits of n in base b, read as a number in base c: what k    *)
(* turns of a loop make of n.                                              *)
Read1(b, c, n) == n % b
Read2(b, c, n) == (n % b) + c * Read1(b, c, n \div b)
Read3(b, c, n) == (n % b) + c * Read2(b, c, n \div b)
Read4(b, c, n) == (n % b) + c * Read3(b, c, n \div b)
Read5(b, c, n) == (n % b) + c * Read4(b, c, n \div b)
Read6(b, c, n) == (n % b) + c * Read5(b, c, n \div b)
Read(b, c, k, n) ==
  IF k = 0 THEN 0 ELSE IF k = 1 THEN Read1(b, c, n) ELSE IF k = 2 THEN Read2(b, c, n)
  ELSE IF k = 3 THEN Read3(b, c, n) ELSE IF k = 4 THEN Read4(b, c, n)
  ELSE IF k = 5 THEN Read5(b, c, n) ELSE Read6(b, c, n)

Bases == {8, 10}

LEMMA Div8 ==
  ASSUME NEW n \in Nat
  PROVE  n % 8 \in 0..7 /\ n \div 8 \in Nat /\ n = (n % 8) + 8 * (n \div 8) /\ n \div 8 <= n
<1>1. n % 8 \in 0..7 /\ n \div 8 \in Nat
      OBVIOUS
<1>2. n = (n % 8) + 8 * (n \div 8)
      OBVIOUS
<1>3. n \div 8 <= n
      OBVIOUS
<1> QED BY <1>1, <1>2, <1>3

LEMMA Div10 ==
  ASSUME NEW n \in Nat
  PROVE  n % 10 \in 0..9 /\ n \div 10 \in Nat /\ n = (n % 10) + 10 * (n \div 10) /\ n \div 10 <= n
<1>1. n % 10 \in 0..9 /\ n \div 10 \in Nat
      OBVIOUS
<1>2. n = (n % 10) + 10 * (n \div 10)
      OBVIOUS
<1>3. n \div 10 <= n
      OBVIOUS
<1> QED BY <1>1, <1>2, <1>3

LEMMA DivMod ==
  ASSUME NEW b \in Bases, NEW n \in Nat
  PROVE  /\ n % b \in 0..(b - 1) /\ n \div b \in Nat
         /\ n = (n % b) + b * (n \div b)
<1>1. CASE b = 8
      BY <1>1, Div8
<1>2. CASE b = 10
      BY <1>2, Div10
<1> QED BY <1>1, <1>2 DEF Bases

LEMMA NatLinear ==
  ASSUME NEW c \in Bases, NEW x \in Nat, NEW y \in Nat
  PROVE  x + c * y \in Nat
BY DEF Bases

LEMMA ReadTurn ==
  ASSUME NEW b \in Bases, NEW c \in Bases, NEW k \in 1..6, NEW n \in Nat
  PROVE  Read(b, c, k, n) = (n % b) + c * Read(b, c, k - 1, n \div b)
<1>0. n % b \in Nat
      BY DivMod DEF Bases
<1>1. CASE k = 1
  <2>1. Read(b, c, k, n) = n % b /\ Read(b, c, k - 1, n \div b) = 0
        BY <1>1 DEF Read, Read1
  <2> QED BY <1>0, <2>1 DEF Bases
<1>2. CASE k = 2
      BY <1>2 DEF Read, Read2
<1>3. CASE k = 3
      BY <1>3 DEF Read, Read3
<1>4. CASE k = 4
      BY <1>4 DEF Read, Read4
<1>5. CASE k = 5
      BY <1>5 DEF Read, Read5
<1>6. CASE k = 6
      BY <1>6 DEF Read, Read6
<1> QED
    BY <1>1, <1>2, <1>3, <1>4, <1>5, <1>6

LEMMA ReadNat ==
  ASSUME NEW b \in Bases, NEW c \in Bases, NEW k \in 0..6, NEW n \in Nat
  PROVE  Read(b, c, k, n) \in Nat
<1> DEFINE P(j) == \A m \in Nat : Read(b, c, j, m) \in Nat
<1>1. P(0)
      BY DEF Read
<1>2. ASSUME NEW j \in 1..6, P(j - 1) PROVE P(j)
  <2> SUFFICES ASSUME NEW m \in Nat PROVE Read(b, c, j, m) \in Nat
      OBVIOUS
  <2>1. m % b \in Nat /\ m \div b \in Nat
        BY DivMod DEF Bases
  <2>2. Read(b, c, j - 1, m \div b) \in Nat
        BY <1>2, <2>1
  <2> QED BY <2>1, <2>2, ReadTurn, NatLinear
<1> HIDE DEF P
<1>3. P(1)
      BY <1>1, <1>2
<1>4. P(2)
      BY <1>3, <1>2
<1>5. P(3)
      BY <1>4, <1>2
<1>6. P(4)
      BY <1>5, <1>2
<1>7. P(5)
      BY <1>6, <1>2
<1>8. P(6)
      BY <1>7, <1>2
<1>9. P(k)
      BY <1>1, <1>3, <1>4, <1>5, <1>6, <1>7, <1>8
<1> QED BY <1>9 DEF P

(* Zero has the digits 0 only.                                             *)
LEMMA ReadZero ==
  ASSUME NEW b \in Bases, NEW c \in Bases, NEW k \in 0..6
  PROVE  Read(b, c, k, 0) = 0
<1> DEFINE P(j) == Read(b, c, j, 0) = 0
<1>0. 0 % b = 0 /\ 0 \div b = 0
      BY DEF Bases
<1>1. P(0)
      BY DEF Read
<1>2. ASSUME NEW j \in 1..6, P(j - 1) PROVE P(j)
  <2>1. Read(b, c, j, 0) = (0 % b) + c * Read(b, c, j - 1, 0 \div b)
        BY ReadTurn
  <2>2. Read(b, c, j, 0) = 0 + c * 0
        BY <1>0, <1>2, <2>1
  <2> QED BY <2>2 DEF Bases
<1> HIDE DEF P
<1>3. P(1)
      BY <1>1, <1>2
<1>4. P(2)
      BY <1>3, <1>2
<1>5. P(3)
      BY <1>4, <1>2
<1>6. P(4)
      BY <1>5, <1>2
<1>7. P(5)
      BY <1>6, <1>2
<1>8. P(6)
      BY <1>7, <1>2
<1>9. P(k)
      BY <1>1, <1>3, <1>4, <1>5, <1>6, <1>7, <1>8
<1> QED BY <1>9 DEF P

(* One turn adds a digit at its place.                                     *)
LEMMA PowersOf ==
  /\ Pow(8, 0) = 1 /\ Pow(8, 1) = 8 /\ Pow(8, 2) = 64 /\ Pow(8, 3) = 512
  /\ Pow(8, 4) = 4096 /\ Pow(8, 5) = 32768 /\ Pow(8, 6) = 262144
  /\ Pow(10, 0) = 1 /\ Pow(10, 1) = 10 /\ Pow(10, 2) = 100
  /\ Pow(10, 3) = 1000 /\ Pow(10, 4) = 10000
  /\ Pow(10, 5) = 100000 /\ Pow(10, 6) = 1000000
BY DEF Pow

LEMMA PowNat ==
  ASSUME NEW k \in 0..6
  PROVE  Pow(8, k) \in Nat /\ Pow(10, k) \in Nat
<1>1. k = 0 \/ k = 1 \/ k = 2 \/ k = 3 \/ k = 4 \/ k = 5 \/ k = 6
      OBVIOUS
<1> QED BY ONLY <1>1, PowersOf

LEMMA PowUp ==
  ASSUME NEW k \in 0..5, NEW n, n = k + 1
  PROVE  Pow(8, n) = 8 * Pow(8, k) /\ Pow(10, n) = 10 * Pow(10, k)
<1>1. k = 0 \/ k = 1 \/ k = 2 \/ k = 3 \/ k = 4 \/ k = 5
      OBVIOUS
<1> QED BY ONLY <1>1, PowersOf, n = k + 1

LEMMA Horner ==
  ASSUME NEW p \in Nat, NEW o \in Nat, NEW a \in Nat, NEW x \in Nat
  PROVE  /\ (o + a * p) + (8 * p) * x = o + p * (a + 8 * x)
         /\ (o + a * p) + (10 * p) * x = o + p * (a + 10 * x)
OBVIOUS

(* and leaves a number that has a digit less.                              *)
LEMMA Shorter ==
  ASSUME NEW b \in Bases, NEW k \in 0..5, NEW n \in Nat, n < Pow(b, 6 - k)
  PROVE  n \div b < Pow(b, 6 - (k + 1))
<1>1. n \div b \in Nat /\ n % b \in Nat /\ n = (n % b) + b * (n \div b)
      BY DivMod DEF Bases
<1> DEFINE q == n \div b
           r == n % b
<1>2. q \in Nat /\ r \in Nat /\ n = r + b * q
      BY <1>1
<1> HIDE DEF q, r
<1>3. q < Pow(b, 6 - (k + 1))
  <2>1. CASE b = 8
    <3>2. CASE k = 0 BY <1>2, <2>1, PowersOf, <3>2
    <3>3. CASE k = 1 BY <1>2, <2>1, PowersOf, <3>3
    <3>4. CASE k = 2 BY <1>2, <2>1, PowersOf, <3>4
    <3>5. CASE k = 3 BY <1>2, <2>1, PowersOf, <3>5
    <3>6. CASE k = 4 BY <1>2, <2>1, PowersOf, <3>6
    <3>7. CASE k = 5 BY <1>2, <2>1, PowersOf, <3>7
    <3> QED BY <3>2, <3>3, <3>4, <3>5, <3>6, <3>7
  <2>2. CASE b = 10
    <3>2. CASE k = 0 BY <1>2, <2>2, PowersOf, <3>2
    <3>3. CASE k = 1 BY <1>2, <2>2, PowersOf, <3>3
    <3>4. CASE k = 2 BY <1>2, <2>2, PowersOf, <3>4
    <3>5. CASE k = 3 BY <1>2, <2>2, PowersOf, <3>5
    <3>6. CASE k = 4 BY <1>2, <2>2, PowersOf, <3>6
    <3>7. CASE k = 5 BY <1>2, <2>2, PowersOf, <3>7
    <3> QED BY <3>2, <3>3, <3>4, <3>5, <3>6, <3>7
  <2> QED BY <2>1, <2>2 DEF Bases
<1> QED BY <1>3 DEF q

(* A number put together from a last digit and the rest.                   *)
LEMMA Rest10 ==
  ASSUME NEW a \in 0..9, NEW x \in Nat, NEW n \in Nat, n = a + 10 * x
  PROVE  n % 10 = a /\ n \div 10 = x
<1>1. n % 10 = a
      OBVIOUS
<1>2. n \div 10 = x
      OBVIOUS
<1> QED BY <1>1, <1>2

(* Three octal digits, written out in decimal and read back, are unchanged. *)
LEMMA ReadBack3 ==
  ASSUME NEW x \in 0..7, NEW y \in 0..7, NEW z \in 0..7
  PROVE  /\ Read(10, 8, 3, x + 10 * (y + 10 * z)) = x + 8 * (y + 8 * z)
         /\ x + 10 * (y + 10 * z) \in Nat
<1> DEFINE u == y + 10 * z
           v == x + 10 * u
<1>0. x \in 0..9 /\ y \in 0..9 /\ z \in Nat
      OBVIOUS
<1>1. Read(10, 8, 1, z) = z
  <2>1. z % 10 = z
        OBVIOUS
  <2> QED BY <2>1 DEF Read, Read1
<1>2. u \in Nat /\ u = y + 10 * z
      OBVIOUS
<1> HIDE DEF u
<1>3. v \in Nat /\ v = x + 10 * u
      BY <1>2
<1> HIDE DEF v
<1>4. Read(10, 8, 2, u) = y + 8 * z
  <2>1. u % 10 = y /\ u \div 10 = z
        BY ONLY <1>0, <1>2, Rest10
  <2>2. Read(10, 8, 2, u) = (u % 10) + 8 * Read(10, 8, 1, u \div 10)
        BY DEF Read, Read2
  <2> QED BY <1>1, <2>1, <2>2
<1>5. Read(10, 8, 3, v) = x + 8 * (y + 8 * z)
  <2>1. v % 10 = x /\ v \div 10 = u
        BY ONLY <1>0, <1>2, <1>3, Rest10
  <2>2. Read(10, 8, 3, v) = (v % 10) + 8 * Read(10, 8, 2, v \div 10)
        BY DEF Read, Read3
  <2> QED BY <1>4, <2>1, <2>2
<1> QED BY <1>3, <1>5 DEF u, v

LEMMA Read3Octal ==
  ASSUME NEW n \in Nat, n < 512
  PROVE  \E x, y, z \in 0..7 : /\ n = x + 8 * (y + 8 * z)
                              /\ Read(8, 10, 3, n) = x + 10 * (y + 10 * z)
<1> DEFINE q == n \div 8
           r == q \div 8
<1>0. 8 \in Bases /\ 10 \in Bases
      BY DEF Bases
<1>1. n = (n % 8) + 8 * q /\ q \in Nat /\ n % 8 \in 0..7
      BY Div8
<1>2. Read(8, 10, 3, n) = (n % 8) + 10 * Read(8, 10, 2, q)
      BY <1>0, ReadTurn
<1> HIDE DEF q
<1>3. q = (q % 8) + 8 * r /\ r \in Nat /\ q % 8 \in 0..7
      BY <1>1, Div8
<1>4. Read(8, 10, 2, q) = (q % 8) + 10 * Read(8, 10, 1, r)
      BY <1>0, <1>1, ReadTurn
<1> HIDE DEF r
<1>5. q < 64
      BY <1>1
<1>6. r < 8
      BY <1>3, <1>5
<1>7. Read(8, 10, 1, r) = r
  <2>1. r % 8 = r
        BY <1>3, <1>6
  <2> QED BY <2>1 DEF Read, Read1
<1>8. r \in 0..7
      BY <1>3, <1>6
<1>9. n = (n % 8) + 8 * ((q % 8) + 8 * r)
      BY ONLY <1>1, <1>3
<1>10. Read(8, 10, 3, n) = (n % 8) + 10 * ((q % 8) + 10 * r)
       BY ONLY <1>2, <1>4, <1>7
<1> QED BY <1>1, <1>3, <1>8, <1>9, <1>10

LEMMA ReadBack ==
  ASSUME NEW n \in Nat, n < 512
  PROVE  /\ Read(10, 8, 3, Read(8, 10, 3, n)) = n
         /\ Read(8, 10, 3, n) \in Nat
         /\ n < 128 => Read(8, 10, 3, n) < 178
<1>1. PICK x, y, z \in 0..7 : /\ n = x + 8 * (y + 8 * z)
                              /\ Read(8, 10, 3, n) = x + 10 * (y + 10 * z)
      BY Read3Octal
<1>2. n < 128 => x + 10 * (y + 10 * z) < 178
      BY <1>1
<1> QED
    BY <1>1, <1>2, ReadBack3

(* To cut off three decimal digits of the spelling is to cut off nine bits. *)
LEMMA Spelling ==
  ASSUME NEW m \in Nat, m < 65536
  PROVE  /\ Read(8, 10, 6, m) \in Nat /\ Read(8, 10, 6, m) < 177778
         /\ Read(8, 10, 6, m) \div 1000 = Read(8, 10, 3, m \div 512)
         /\ m \div 512 \in Nat /\ m \div 512 < 128
<1> DEFINE q == m \div 8
           r == q \div 8
           h == r \div 8
           x == m % 8
           y == q % 8
           z == r % 8
           t == Read(8, 10, 3, h)
           o == Read(8, 10, 6, m)
<1>1. m = x + 8 * q /\ q \in Nat /\ x \in 0..7
      BY Div8
<1>2. o = x + 10 * Read(8, 10, 5, q)
      BY DEF Read, Read6
<1> HIDE DEF q, x
<1>3. q = y + 8 * r /\ r \in Nat /\ y \in 0..7
      BY <1>1, Div8
<1>4. Read(8, 10, 5, q) = y + 10 * Read(8, 10, 4, r)
      BY DEF Read, Read5
<1> HIDE DEF r, y
<1>5. r = z + 8 * h /\ h \in Nat /\ z \in 0..7
      BY <1>3, Div8
<1>6. Read(8, 10, 4, r) = z + 10 * t
      BY DEF Read, Read4
<1> HIDE DEF h, z
<1>7. h < 128
      BY <1>1, <1>3, <1>5
<1>8. t \in Nat /\ t < 178
      BY <1>5, <1>7, ReadBack
<1> HIDE DEF o, t
<1> DEFINE v == x + 8 * (y + 8 * z)
           w == x + 10 * (y + 10 * z)
<1>9. m = v + 512 * h /\ v \in Nat /\ v < 512
      BY ONLY <1>1, <1>3, <1>5, m \in Nat
<1>10. o = w + 1000 * t /\ w \in Nat /\ w < 778
       BY ONLY <1>1, <1>2, <1>3, <1>4, <1>5, <1>6, <1>8
<1> HIDE DEF v, w
<1>11. m \div 512 = h
  <2>1. \A a, b \in Nat : a < 512 => (a + 512 * b) \div 512 = b
        OBVIOUS
  <2> QED BY <1>5, <1>9, <2>1
<1>12. o \div 1000 = t
  <2>1. \A a, b \in Nat : a < 1000 => (a + 1000 * b) \div 1000 = b
        OBVIOUS
  <2> QED BY <1>8, <1>10, <2>1
<1>13. o \in Nat /\ o < 177778
       BY <1>8, <1>10
<1> QED
    BY <1>5, <1>7, <1>11, <1>12, <1>13 DEF t, o

(* The number that getattr or mknod makes of o reads back as the type and   *)
(* special bits of the mode and the three digits put in their place.       *)
LEMMA Changed ==
  ASSUME NEW m \in Nat, m < 65536, NEW s \in Nat, s < 778,
         NEW n, n = Chop(Read(8, 10, 6, m)) + s
  PROVE  /\ n \in Nat /\ n < 177778
         /\ Read(10, 8, 6, n) = (m \div 512) * 512 + Read(10, 8, 3, s)
<1> DEFINE h == m \div 512
           t == Read(8, 10, 3, h)
           n1 == n \div 10
           n2 == n1 \div 10
           n3 == n2 \div 10
           s1 == s \div 10
           s2 == s1 \div 10
<1>0. 8 \in Bases /\ 10 \in Bases
      BY DEF Bases
<1>1. /\ h \in Nat /\ h < 128 /\ Read(8, 10, 6, m) \div 1000 = t
      /\ Read(8, 10, 6, m) \in Nat /\ Read(8, 10, 6, m) < 177778
      BY Spelling
<1>2. t \in Nat /\ Read(10, 8, 3, t) = h /\ t < 178
      BY <1>1, ReadBack
<1>3. n = 1000 * t + s
      BY <1>1, <1>2 DEF Chop
<1>4. /\ Read(10, 8, 6, n) = (n % 10) + 8 * Read(10, 8, 5, n1)
      /\ Read(10, 8, 5, n1) = (n1 % 10) + 8 * Read(10, 8, 4, n2)
      /\ Read(10, 8, 4, n2) = (n2 % 10) + 8 * Read(10, 8, 3, n3)
      BY DEF Read, Read6, Read5, Read4
<1>5. /\ Read(10, 8, 3, s) = (s % 10) + 8 * Read(10, 8, 2, s1)
      /\ Read(10, 8, 2, s1) = (s1 % 10) + 8 * Read(10, 8, 1, s2)
      /\ Read(10, 8, 1, s2) = s2 % 10
      BY DEF Read, Read3, Read2, Read1
<1> HIDE DEF t, h
<1>6. n \in Nat /\ n < 177778
      BY <1>2, <1>3
<1>7. s = (s % 10) + 10 * s1 /\ s % 10 \in 0..9 /\ s1 \in Nat
      BY Div10
<1>8. n % 10 = s % 10 /\ n1 = s1 + 100 * t
  <2> DEFINE a == s % 10
             x == s1 + 100 * t
  <2>1. a \in 0..9 /\ x \in Nat /\ n = a + 10 * x
        BY <1>2, <1>3, <1>7
  <2> HIDE DEF a, x
  <2>2. n % 10 = a /\ n \div 10 = x
        BY ONLY <1>6, <2>1, Rest10
  <2> QED BY <2>2 DEF a, x
<1> HIDE DEF n1, s1
<1>9. s1 = (s1 % 10) + 10 * s2 /\ s1 % 10 \in 0..9 /\ s2 \in Nat
      BY <1>7, Div10
<1>10. n1 \in Nat
       BY <1>2, <1>7, <1>8
<1>11. n1 % 10 = s1 % 10 /\ n2 = s2 + 10 * t
  <2> DEFINE a == s1 % 10
             x == s2 + 10 * t
  <2>1. a \in 0..9 /\ x \in Nat /\ n1 = a + 10 * x
        BY <1>2, <1>8, <1>9
  <2> HIDE DEF a, x
  <2>2. n1 % 10 = a /\ n1 \div 10 = x
        BY ONLY <1>10, <2>1, Rest10
  <2> QED BY <2>2 DEF a, x
<1> HIDE DEF n2, s2
<1>12. s2 \in 0..9 /\ s2 % 10 = s2
  <2>1. s2 < 10
        BY <1>7, <1>9
  <2>2. s2 \in 0..9
        BY <1>9, <2>1
  <2> QED BY ONLY <2>2
<1>13. n2 \in Nat
       BY <1>2, <1>9, <1>11
<1>14. n2 % 10 = s2 /\ n3 = t
       BY ONLY <1>2, <1>11, <1>12, <1>13, Rest10 DEF n3
<1> HIDE DEF n3
<1> DEFINE a == s % 10
           b == s1 % 10
<1>15. a \in Nat /\ b \in Nat
       BY <1>7, <1>9
<1>16. Read(10, 8, 6, n) = a + 8 * (b + 8 * (s2 + 8 * h))
       BY <1>2, <1>4, <1>8, <1>11, <1>14
<1>17. Read(10, 8, 3, s) = a + 8 * (b + 8 * s2)
       BY <1>5, <1>12
<1> HIDE DEF a, b
<1>18. Read(10, 8, 6, n) = h * 512 + Read(10, 8, 3, s)
       BY ONLY <1>1, <1>12, <1>15, <1>16, <1>17
<1> QED
    BY <1>6, <1>18 DEF h

(* What the three digits of a setting stand for.                           *)
LEMMA ThreeDigits ==
  ASSUME NEW s \in Nat, s < 778
  PROVE  Read(10, 8, 3, s) = Bits(s) /\ Bits(s) \in Nat /\ Bits(s) < 512
<1> DEFINE s1 == s \div 10
           s2 == s1 \div 10
           a == s % 10
           b == s1 % 10
<1>1. s = a + 10 * s1 /\ a \in 0..9 /\ s1 \in Nat
      BY Div10
<1>2. Read(10, 8, 3, s) = a + 8 * Read(10, 8, 2, s1)
      BY DEF Read, Read3
<1>3. Read(10, 8, 2, s1) = b + 8 * Read(10, 8, 1, s2)
      BY DEF Read, Read2
<1>4. Read(10, 8, 1, s2) = s2 % 10
      BY DEF Read, Read1
<1> HIDE DEF a, s1
<1>5. s1 = b + 10 * s2 /\ b \in 0..9 /\ s2 \in Nat
      BY <1>1, Div10
<1> HIDE DEF b, s2
<1>6. s2 < 8
      BY <1>1, <1>5
<1>7. s2 % 10 = s2
      BY ONLY <1>5, <1>6
<1>8. s \div 100 = s2
  <2>1. \A x, y \in Nat : x < 100 => (x + 100 * y) \div 100 = y
        OBVIOUS
  <2>2. s = (a + 10 * b) + 100 * s2 /\ a + 10 * b \in Nat /\ a + 10 * b < 100
        BY <1>1, <1>5
  <2> QED BY <1>5, <2>1, <2>2
<1>9. Bits(s) = 64 * s2 + 8 * b + a
      BY <1>7, <1>8 DEF Bits, a, b, s1
<1>10. Bits(s) \in Nat /\ Bits(s) < 512
       BY <1>1, <1>5, <1>6, <1>9
<1> QED
    BY <1>1, <1>2, <1>3, <1>4, <1>5, <1>7, <1>9, <1>10

LEMMA OwnerBits ==
  ASSUME NEW p \in 0..7
  PROVE  Read(10, 8, 3, p * 100) = 64 * p
<1> DEFINE s == p * 100
<1>1. s \in Nat /\ s < 778
      OBVIOUS
<1>2. s % 10 = 0 /\ s \div 10 = p * 10 /\ (p * 10) % 10 = 0 /\ s \div 100 = p /\ p % 10 = p
      OBVIOUS
<1>3. Bits(s) = 64 * p
      BY <1>2 DEF Bits
<1> QED BY <1>1, <1>3, ThreeDigits

(***************************************************************************)
(* The first loop spells the mode: the digits it has written and the       *)
(* spelling of what it has not, moved to its place, are the spelling of    *)
(* the whole.  The second loop undoes the same with the changed number,    *)
(* unless a setting has become negative: then nothing is claimed of what   *)
(* it reads back, but that it ends within an int.                          *)
(***************************************************************************)
LastThree == IF operation = "getattr" THEN allowed * 100 ELSE setting
Target    == (mode \div 512) * 512 + Read(10, 8, 3, LastThree)

Shape ==
  /\ operation \in {"getattr", "mknod"} /\ mode \in Modes /\ allowed \in 0..7 /\ digit \in Nat
  /\ pc \in {"start", "toOctal", "fromOctal", "done"}
  /\ res \in {0, -EPERM, -EIO, -EACCES, -EINVAL}
  /\ setting \in Settings \cup {NotSet, NotANumber}
  /\ quotient \in Nat /\ quotient < 65536 /\ decimalnum \in Int
  /\ octalNumber \in Int /\ -(U32 \div 2) <= octalNumber /\ octalNumber < 177778
  /\ operation = "getattr" => res = 0
  /\ \A f \in made : /\ pc = "done" /\ res = 0 /\ operation = "mknod"
                     /\ f = NewFile(Low16(decimalnum))

Small ==
  /\ digit \in 0..6 /\ octalNumber \in Nat /\ decimalnum \in Nat /\ decimalnum < 65536

Spelled ==
  pc = "toOctal" =>
    /\ quotient < Pow(8, 6 - digit) /\ decimalnum = 0 /\ res = 0
    /\ octalNumber + Pow(10, digit) * Read(8, 10, 6 - digit, quotient) = Read(8, 10, 6, mode)

Changing == operation = "mknod" => ValidMode(setting) /\ ToInt(setting) = setting
Negative == operation = "mknod" /\ setting \in Settings /\ ToInt(setting) # setting
ReadingBack ==
  pc = "fromOctal" =>
    /\ Changing /\ octalNumber < Pow(10, 6 - digit) /\ res = 0
    /\ decimalnum + Pow(8, digit) * Read(10, 8, 6 - digit, octalNumber) = Target

Result == pc = "done" /\ res = 0 => Changing /\ decimalnum = Target
Begun  == pc = "start" => octalNumber = 0 /\ quotient = 0 /\ decimalnum = 0 /\ digit = 0 /\ res = 0

LoopInv == Small /\ Begun /\ Spelled /\ ReadingBack /\ Result

ModeInv == Shape /\ (LoopInv \/ (Negative /\ pc \in {"fromOctal", "done"}))

LEMMA ReadOf ==
  ASSUME NEW k \in 0..6, NEW n \in Nat
  PROVE  Read(8, 10, k, n) \in Nat /\ Read(10, 8, k, n) \in Nat
<1>1. 8 \in Bases /\ 10 \in Bases
      BY DEF Bases
<1> QED BY ONLY <1>1, ReadNat, k \in 0..6, n \in Nat

LEMMA LastTurn ==
  ASSUME NEW k \in 0..6, NEW n \in Nat, n # 0, n < Pow(8, 6 - k) \/ n < Pow(10, 6 - k)
  PROVE  k \in 0..5
<1>1. ASSUME k = 6 PROVE FALSE
  <2>1. Pow(8, 6 - k) = 1 /\ Pow(10, 6 - k) = 1
        BY <1>1, PowersOf
  <2> QED BY <2>1
<1> QED BY <1>1

LEMMA Sixteen ==
  ASSUME NEW n
  PROVE  n \in Bits16 <=> n \in Nat /\ n < 65536
<1>1. 2^16 = 65536
      OBVIOUS
<1> QED BY <1>1 DEF Bits16

LEMMA ModeRange ==
  ASSUME NEW m \in Modes
  PROVE  m \in Nat /\ m < 65536
<1>1. m \in Bits16
      BY FileModeAssumption
<1> QED BY <1>1, Sixteen

(* What an unsigned int becomes in an int.                                 *)
LEMMA IntRange ==
  ASSUME NEW u \in Settings
  PROVE  /\ u \in Nat /\ ToInt(u) \in Int
         /\ -(U32 \div 2) <= ToInt(u) /\ ToInt(u) < U32 \div 2
         /\ ToInt(u) >= 0 <=> ToInt(u) = u
         /\ ToInt(u) # u => ToInt(u) < 0
<1>1. u \in Nat /\ u < U32 /\ U32 \in Nat /\ U32 = 2 * (U32 \div 2) /\ U32 \div 2 \in Nat
  <2>1. u \in 0..(U32 - 1) /\ U32 \in Nat /\ U32 % 2 = 0
        BY FileModeAssumption
  <2> QED BY <2>1
<1> DEFINE half == U32 \div 2
<1> HIDE DEF half
<1>2. u \in Nat /\ u < U32 /\ U32 \in Nat /\ U32 = 2 * half /\ half \in Nat
      BY <1>1 DEF half
<1>3. ToInt(u) = IF u < half THEN u ELSE u - U32
      BY DEF ToInt, half
<1>4. /\ u \in Nat /\ ToInt(u) \in Int
      /\ -half <= ToInt(u) /\ ToInt(u) < half
      /\ ToInt(u) >= 0 <=> ToInt(u) = u
      /\ ToInt(u) # u => ToInt(u) < 0
  <2>1. CASE u < half
        BY <1>2, <1>3, <2>1
  <2>2. CASE ~(u < half)
        BY <1>2, <1>3, <2>2
  <2> QED BY <2>1, <2>2
<1> QED BY <1>4 DEF half

LEMMA HalfLarge == U32 \div 2 \in Nat /\ U32 \div 2 > 177777
BY FileModeAssumption

(* Division as C has it, of a number that is not negative and of one that  *)
(* may be.                                                                 *)
LEMMA QuotNat ==
  ASSUME NEW n \in Nat
  PROVE  Quot(n, 10) = n \div 10 /\ Rem(n, 10) = n % 10
<1>1. Quot(n, 10) = n \div 10
      BY DEF Quot
<1>2. n = (n % 10) + 10 * (n \div 10) /\ n \div 10 \in Nat /\ n % 10 \in 0..9
      BY Div10
<1> QED BY <1>1, <1>2 DEF Rem

LEMMA QuotInt ==
  ASSUME NEW n \in Int, NEW h \in Nat, NEW t \in Nat, -h <= n, n < t, 0 < t
  PROVE  /\ Quot(n, 10) \in Int /\ Rem(n, 10) \in Int
         /\ -h <= Quot(n, 10) /\ Quot(n, 10) < t
<1>1. CASE n >= 0
  <2>1. n \in Nat
        BY <1>1
  <2>2. Quot(n, 10) = n \div 10 /\ n \div 10 \in Nat /\ n \div 10 <= n
        BY <2>1, QuotNat, Div10
  <2> QED BY <2>2 DEF Rem
<1>2. CASE ~(n >= 0)
  <2>1. -n \in Nat
        BY <1>2
  <2> DEFINE q == (-n) \div 10
  <2>2. q \in Nat /\ q <= -n
        BY <2>1, Div10
  <2>3. Quot(n, 10) = -q
        BY <1>2 DEF Quot
  <2> HIDE DEF q
  <2>4. Quot(n, 10) \in Int /\ -h <= Quot(n, 10) /\ Quot(n, 10) < t
        BY <1>2, <2>2, <2>3
  <2> QED BY <2>4 DEF Rem
<1> QED BY <1>1, <1>2

LEMMA Ready ==
  ASSUME Shape, Changing
  PROVE  /\ LastThree \in Nat /\ LastThree < 778
         /\ Target \in Nat /\ Target < 65536
<1>1. mode \in Nat /\ mode < 65536
      BY ModeRange DEF Shape
<1>2. LastThree \in Nat /\ LastThree < 778
  <2>1. CASE operation = "getattr"
        BY <2>1 DEF LastThree, Shape
  <2>2. CASE operation = "mknod"
    <3>1. setting \in Settings /\ ToInt(setting) <= 777 /\ ToInt(setting) = setting
          BY <2>2 DEF Shape, Changing, ValidMode
    <3>2. setting \in Nat
          BY <3>1, IntRange
    <3>3. LastThree = setting
          BY <2>2 DEF LastThree
    <3> QED BY <3>1, <3>2, <3>3
  <2> QED BY <2>1, <2>2 DEF Shape
<1> DEFINE h == mode \div 512
           s == Read(10, 8, 3, LastThree)
<1>3. h \in Nat /\ h < 128
      BY <1>1, Spelling
<1>4. s \in Nat /\ s < 512
      BY <1>2, ThreeDigits
<1>5. Target = h * 512 + s
      BY DEF Target
<1> HIDE DEF h, s
<1> QED
    BY <1>2, <1>3, <1>4, <1>5

LEMMA ModeInvInit ==
  ASSUME ModeInit
  PROVE  ModeInv
<1>1. Shape /\ Small
      BY HalfLarge DEF ModeInit, Shape, Small
<1> QED
    BY <1>1 DEF ModeInit, ModeInv, LoopInv, Begun, Spelled, ReadingBack, Result

LEMMA LoopNext ==
  ASSUME Shape, LoopInv, [ModeNext]_modeVars
  PROVE  ModeInv'
<1> 8 \in Bases /\ 10 \in Bases
    BY DEF Bases
<1> USE DEF LoopInv
<1>0. SUFFICES Shape' /\ (LoopInv' \/ (Negative' /\ pc' \in {"fromOctal", "done"}))
      BY DEF ModeInv
<1>1. mode \in Nat /\ mode < 65536
      BY ModeRange DEF Shape
<1>12. pc # "done" => made = {}
      BY DEF Shape
<1>2. CASE RefuseDevice
  <2>1. Shape' /\ Small'
        BY <1>2, <1>12 DEF RefuseDevice, Done, Rest, Fixed, Shape, Small, EINVAL
  <2> QED
      BY <1>2, <2>1 DEF RefuseDevice, Done, Rest, Fixed, EINVAL,
         Begun, Spelled, ReadingBack, Result
<1>3. CASE StartLoop
  <2>1. Shape' /\ Small'
        BY <1>1, <1>3, <1>12 DEF StartLoop, Fixed, Shape, Small
  <2>2. /\ pc' = "toOctal" /\ mode' = mode /\ quotient' = mode
        /\ octalNumber' = 0 /\ decimalnum' = 0 /\ digit' = 0 /\ res' = 0
        BY <1>3 DEF StartLoop, Fixed, Begun
  <2>3. Read(8, 10, 6, mode) \in Nat
        BY ONLY <1>1, ReadOf
  <2>4. 0 + Pow(10, 0) * Read(8, 10, 6 - 0, mode) = Read(8, 10, 6, mode)
        BY <2>3, PowersOf
  <2>5. mode < Pow(8, 6 - 0)
        BY <1>1, PowersOf
  <2>6. Spelled'
        BY <2>2, <2>4, <2>5 DEF Spelled
  <2> QED
      BY <2>1, <2>2, <2>6 DEF Begun, ReadingBack, Result
<1>4. CASE ToOctal
  <2>1. /\ pc = "toOctal" /\ pc' = "toOctal" /\ quotient # 0 /\ digit' = digit + 1
        /\ octalNumber' = octalNumber + (quotient % 8) * Pow(10, digit)
        /\ quotient' = quotient \div 8
        /\ UNCHANGED <<operation, mode, allowed, setting, decimalnum, res, made>>
        BY <1>4 DEF ToOctal, Fixed, MoreDigits
  <2>2. /\ quotient < Pow(8, 6 - digit) /\ decimalnum = 0 /\ res = 0
        /\ octalNumber + Pow(10, digit) * Read(8, 10, 6 - digit, quotient) = Read(8, 10, 6, mode)
        BY <2>1 DEF Spelled
  <2>3. digit \in 0..5
    <3>1. digit \in 0..6 /\ quotient \in Nat
          BY DEF Small, Shape
    <3> QED BY ONLY <2>1, <2>2, <3>1, LastTurn
  <2>4. quotient \in Nat /\ quotient < 65536 /\ octalNumber \in Nat
        BY DEF Small, Shape
  <2>5. quotient' < Pow(8, 6 - (digit + 1))
        BY <2>1, <2>2, <2>3, <2>4, Shorter
  <2>6. quotient % 8 \in 0..7 /\ quotient' \in Nat /\ quotient = (quotient % 8) + 8 * quotient'
        BY <2>1, <2>4, Div8
  <2> DEFINE rest == Read(8, 10, 6 - (digit + 1), quotient')
             a == quotient % 8
  <2>7. rest \in Nat /\ a \in Nat
    <3>1. 6 - (digit + 1) \in 0..6
          BY <2>3
    <3>2. a \in Nat
          BY ONLY <2>6 DEF a
    <3>3. Read(8, 10, 6 - (digit + 1), quotient') \in Nat
          BY ONLY <2>6, <3>1, ReadOf
    <3> QED BY <3>2, <3>3 DEF rest
  <2>8. Read(8, 10, 6 - digit, quotient) = a + 10 * rest
    <3>1. 6 - digit \in 1..6 /\ (6 - digit) - 1 = 6 - (digit + 1)
          BY <2>3
    <3> QED BY <2>1, <2>4, <3>1, ReadTurn
  <2> HIDE DEF rest, a
  <2>9. (octalNumber + a * Pow(10, digit)) + Pow(10, digit + 1) * rest
         = octalNumber + Pow(10, digit) * (a + 10 * rest)
    <3>1. Pow(10, digit + 1) = 10 * Pow(10, digit)
          BY ONLY <2>3, PowUp
    <3>2. digit \in 0..6
          BY <2>3
    <3>3. Pow(10, digit) \in Nat
          BY ONLY <3>2, PowNat
    <3>4. (octalNumber + a * Pow(10, digit)) + (10 * Pow(10, digit)) * rest
           = octalNumber + Pow(10, digit) * (a + 10 * rest)
          BY ONLY <2>4, <2>7, <3>3, Horner
    <3> QED BY ONLY <3>1, <3>4
  <2>10. octalNumber' + Pow(10, digit + 1) * rest = Read(8, 10, 6, mode)
         BY <2>1, <2>2, <2>8, <2>9 DEF a
  <2>11. Spelled'
         BY <2>1, <2>2, <2>5, <2>10 DEF Spelled, rest
  <2>12. octalNumber' \in Nat /\ octalNumber' < 177778
    <3>1. Read(8, 10, 6, mode) < 177778
          BY <1>1, Spelling
    <3>2. Pow(10, digit) \in Nat /\ Pow(10, digit + 1) \in Nat
      <4>1. digit \in 0..6 /\ digit + 1 \in 0..6
            BY ONLY <2>3
      <4> QED BY ONLY <4>1, PowNat
    <3>3. a * Pow(10, digit) \in Nat /\ Pow(10, digit + 1) * rest \in Nat
          BY <2>7, <3>2
    <3>4. octalNumber' = octalNumber + a * Pow(10, digit)
          BY <2>1 DEF a
    <3> QED BY <2>4, <2>10, <3>1, <3>3, <3>4
  <2>13. quotient' < 65536
    <3>1. quotient' <= quotient
          BY <2>1, <2>4, Div8
    <3> QED BY ONLY <2>4, <2>6, <3>1
  <2>14. Shape' /\ Small'
    <3>1. -(U32 \div 2) <= octalNumber'
          BY <2>12, HalfLarge
    <3>2. Small'
          BY <2>1, <2>3, <2>12 DEF Small
    <3> QED BY <1>12, <2>1, <2>3, <2>6, <2>12, <2>13, <3>1, <3>2 DEF Shape
  <2> QED
      BY <2>1, <2>11, <2>14 DEF Begun, ReadingBack, Result
<1>5. ASSUME Changing, pc = "toOctal", ~ MoreDigits,
             octalNumber' = Chop(octalNumber) + LastThree,
             pc' = "fromOctal", digit' = 0, decimalnum' = 0,
             UNCHANGED <<quotient, res, operation, mode, allowed, setting, made>>
      PROVE  Shape' /\ LoopInv'
  <2>1. /\ res = 0 /\ quotient = 0 /\ octalNumber \in Nat
        /\ octalNumber + Pow(10, digit) * Read(8, 10, 6 - digit, quotient) = Read(8, 10, 6, mode)
        BY <1>5 DEF Spelled, MoreDigits, Small, Shape
  <2>2. octalNumber = Read(8, 10, 6, mode)
    <3>1. 6 - digit \in 0..6 /\ digit \in 0..6
          BY DEF Small
    <3>2. Read(8, 10, 6 - digit, 0) = 0
          BY <3>1, ReadZero
    <3>3. Pow(10, digit) \in Nat
          BY ONLY <3>1, PowNat
    <3> QED BY <2>1, <3>2, <3>3
  <2>3. LastThree \in Nat /\ LastThree < 778 /\ Target \in Nat /\ Target < 65536
        BY <1>5, Ready
  <2> DEFINE n == Chop(Read(8, 10, 6, mode)) + LastThree
  <2>4. n \in Nat /\ n < 177778 /\ Read(10, 8, 6, n) = Target
    <3>1. n = Chop(Read(8, 10, 6, mode)) + LastThree
          OBVIOUS
    <3> HIDE DEF n
    <3>2. /\ n \in Nat /\ n < 177778
          /\ Read(10, 8, 6, n) = (mode \div 512) * 512 + Read(10, 8, 3, LastThree)
          BY ONLY <1>1, <2>3, <3>1, Changed
    <3> QED BY <3>2 DEF Target
  <2>5. octalNumber' = n
        BY <1>5, <2>2
  <2> HIDE DEF n
  <2>6. 0 + Pow(8, 0) * Read(10, 8, 6 - 0, n) = Target
        BY <2>3, <2>4, PowersOf
  <2>7. n < Pow(10, 6 - 0)
        BY <2>4, PowersOf
  <2>8. Target' = Target /\ Changing' = Changing
        BY <1>5 DEF Target, LastThree, Changing
  <2>9. ReadingBack'
        BY <1>5, <2>1, <2>5, <2>6, <2>7, <2>8 DEF ReadingBack
  <2>10. Shape' /\ Small'
    <3>1. -(U32 \div 2) <= octalNumber'
          BY <2>4, <2>5, HalfLarge
    <3> QED BY <1>5, <1>12, <2>4, <2>5, <3>1 DEF Shape, Small
  <2> QED
      BY <1>5, <2>9, <2>10 DEF Begun, Spelled, Result
<1>6. CASE SetPerms
      BY <1>5, <1>6 DEF SetPerms, Fixed, LastThree, Changing
<1>7. CASE SetNewFileMode
  <2>1. /\ pc = "toOctal" /\ ~ MoreDigits /\ operation = "mknod" /\ ValidMode(setting)
        /\ octalNumber' = Chop(octalNumber) + ToInt(setting)
        /\ pc' = "fromOctal" /\ digit' = 0 /\ decimalnum' = 0
        /\ UNCHANGED <<quotient, res, operation, mode, allowed, setting, made>>
        BY <1>7 DEF SetNewFileMode, Fixed, WithSetting
  <2>2. CASE ToInt(setting) = setting
        BY <1>5, <2>1, <2>2 DEF LastThree, Changing
  <2>3. CASE ToInt(setting) # setting
    <3>1. setting \in Settings
          BY <2>1 DEF Shape, ValidMode
    <3>2. ToInt(setting) \in Int /\ -(U32 \div 2) <= ToInt(setting) /\ ToInt(setting) < 0
          BY <2>3, <3>1, IntRange
    <3>3. octalNumber \in Nat /\ octalNumber < 177778
          BY DEF Small, Shape
    <3> DEFINE c == Chop(octalNumber)
    <3>4. c \in Nat /\ c <= octalNumber
          BY <3>3 DEF Chop
    <3>5. octalNumber' = c + ToInt(setting) /\ U32 \div 2 \in Nat
          BY <2>1, HalfLarge
    <3> HIDE DEF c
    <3>6. octalNumber' \in Int /\ -(U32 \div 2) <= octalNumber' /\ octalNumber' < 177778
          BY <3>2, <3>3, <3>4, <3>5
    <3>7. Shape'
          BY <1>12, <2>1, <3>6 DEF Shape
    <3>8. Negative' /\ pc' \in {"fromOctal", "done"}
          BY <2>1, <2>3, <3>1 DEF Negative
    <3> QED BY <3>7, <3>8
  <2> QED BY <2>2, <2>3
<1>8. CASE Deny
  <2>1. Shape' /\ Small'
        BY <1>8, <1>12 DEF Deny, Done, Rest, Fixed, Shape, Small, EACCES
  <2> QED
      BY <1>8, <2>1 DEF Deny, Done, Rest, Fixed, EACCES,
         Begun, Spelled, ReadingBack, Result
<1>9. CASE FromOctal
  <2>1. /\ pc = "fromOctal" /\ pc' = "fromOctal" /\ octalNumber # 0 /\ digit' = digit + 1
        /\ decimalnum' = decimalnum + (octalNumber % 10) * Pow(8, digit)
        /\ octalNumber' = octalNumber \div 10
        /\ UNCHANGED <<operation, mode, allowed, setting, quotient, res, made>>
    <3>1. octalNumber \in Nat
          BY DEF Small
    <3> QED BY <1>9, <3>1, QuotNat DEF FromOctal, Fixed
  <2>2. /\ octalNumber < Pow(10, 6 - digit) /\ Changing /\ res = 0
        /\ decimalnum + Pow(8, digit) * Read(10, 8, 6 - digit, octalNumber) = Target
        BY <2>1 DEF ReadingBack
  <2>3. digit \in 0..5
    <3>1. digit \in 0..6 /\ octalNumber \in Nat
          BY DEF Small
    <3> QED BY ONLY <2>1, <2>2, <3>1, LastTurn
  <2>4. decimalnum \in Nat /\ octalNumber \in Nat /\ octalNumber < 177778
        BY DEF Small, Shape
  <2>5. octalNumber' < Pow(10, 6 - (digit + 1))
        BY <2>1, <2>2, <2>3, <2>4, Shorter
  <2>6. /\ octalNumber % 10 \in 0..9 /\ octalNumber' \in Nat
        /\ octalNumber = (octalNumber % 10) + 10 * octalNumber'
        BY <2>1, <2>4, Div10
  <2> DEFINE rest == Read(10, 8, 6 - (digit + 1), octalNumber')
             a == octalNumber % 10
  <2>7. rest \in Nat /\ a \in Nat
    <3>1. 6 - (digit + 1) \in 0..6
          BY <2>3
    <3>2. a \in Nat
          BY ONLY <2>6 DEF a
    <3>3. Read(10, 8, 6 - (digit + 1), octalNumber') \in Nat
          BY ONLY <2>6, <3>1, ReadOf
    <3> QED BY <3>2, <3>3 DEF rest
  <2>8. Read(10, 8, 6 - digit, octalNumber) = a + 8 * rest
    <3>1. 6 - digit \in 1..6 /\ (6 - digit) - 1 = 6 - (digit + 1)
          BY <2>3
    <3> QED BY <2>1, <2>4, <3>1, ReadTurn
  <2> HIDE DEF rest, a
  <2>9. (decimalnum + a * Pow(8, digit)) + Pow(8, digit + 1) * rest
         = decimalnum + Pow(8, digit) * (a + 8 * rest)
    <3>1. Pow(8, digit + 1) = 8 * Pow(8, digit)
          BY ONLY <2>3, PowUp
    <3>2. digit \in 0..6
          BY <2>3
    <3>3. Pow(8, digit) \in Nat
          BY ONLY <3>2, PowNat
    <3>4. (decimalnum + a * Pow(8, digit)) + (8 * Pow(8, digit)) * rest
           = decimalnum + Pow(8, digit) * (a + 8 * rest)
          BY ONLY <2>4, <2>7, <3>3, Horner
    <3> QED BY ONLY <3>1, <3>4
  <2>10. decimalnum' + Pow(8, digit + 1) * rest = Target
         BY <2>1, <2>2, <2>8, <2>9 DEF a
  <2>11. Target' = Target /\ Changing' = Changing
         BY <2>1 DEF Target, LastThree, Changing
  <2>12. ReadingBack'
         BY <2>1, <2>2, <2>5, <2>10, <2>11 DEF ReadingBack, rest
  <2>13. decimalnum' \in Nat /\ decimalnum' < 65536
    <3>1. Target < 65536
          BY <2>2, Ready
    <3>2. Pow(8, digit) \in Nat /\ Pow(8, digit + 1) \in Nat
      <4>1. digit \in 0..6 /\ digit + 1 \in 0..6
            BY ONLY <2>3
      <4> QED BY ONLY <4>1, PowNat
    <3>3. a * Pow(8, digit) \in Nat /\ Pow(8, digit + 1) * rest \in Nat
          BY <2>7, <3>2
    <3>4. decimalnum' = decimalnum + a * Pow(8, digit)
          BY <2>1 DEF a
    <3> QED BY <2>4, <2>10, <3>1, <3>3, <3>4
  <2>14. octalNumber' < 177778
    <3>1. octalNumber' <= octalNumber
          BY <2>1, <2>4, Div10
    <3> QED BY ONLY <2>4, <2>6, <3>1
  <2>15. Shape' /\ Small'
    <3>1. -(U32 \div 2) <= octalNumber'
          BY <2>6, HalfLarge
    <3>2. Small'
          BY <2>1, <2>3, <2>6, <2>13 DEF Small
    <3> QED BY <1>12, <2>1, <2>3, <2>6, <2>13, <2>14, <3>1, <3>2 DEF Shape
  <2> QED
      BY <2>1, <2>12, <2>15 DEF Begun, Spelled, Result
<1>10. CASE Finish
  <2>1. /\ pc = "fromOctal" /\ octalNumber = 0 /\ pc' = "done" /\ res' \in {0, -EPERM, -EIO}
        /\ operation = "getattr" => res' = 0
        /\ UNCHANGED <<octalNumber, quotient, decimalnum, digit, operation, mode, allowed, setting>>
        BY <1>10 DEF Finish, Done, Rest, Fixed
  <2>2. Changing /\ decimalnum + Pow(8, digit) * Read(10, 8, 6 - digit, 0) = Target
        BY <2>1 DEF ReadingBack
  <2>3. 6 - digit \in 0..6 /\ digit \in 0..6 /\ decimalnum \in Nat
        BY DEF Small
  <2>4. Read(10, 8, 6 - digit, 0) = 0
        BY <2>3, ReadZero
  <2>5. Pow(8, digit) \in Nat
        BY ONLY <2>3, PowNat
  <2>6. decimalnum = Target
        BY <2>2, <2>3, <2>4, <2>5
  <2>7. Target' = Target /\ Changing' = Changing
        BY <2>1 DEF Target, LastThree, Changing
  <2>8. Shape' /\ Small'
    <3>1. \A f \in made' : res' = 0 /\ operation = "mknod" /\ f = NewFile(Low16(decimalnum))
          BY <1>10, <1>12 DEF Finish, Done
    <3> QED BY <2>1, <3>1 DEF Shape, Small, NewFile, PermBits, Low16
  <2> QED
      BY <2>1, <2>2, <2>6, <2>7, <2>8 DEF Begun, Spelled, ReadingBack, Result
<1>11. CASE UNCHANGED modeVars
  <2>1. Target' = Target /\ Changing' = Changing
        BY <1>11 DEF modeVars, Target, LastThree, Changing
  <2> QED
      BY <1>11, <2>1 DEF modeVars, Shape, NewFile, PermBits, Low16, Small, Begun, Spelled, ReadingBack, Result
<1> QED
    BY <1>2, <1>3, <1>4, <1>6, <1>7, <1>8, <1>9, <1>10, <1>11 DEF ModeNext

(* Past the setting, a negative one has only the second loop before it.    *)
LEMMA NegativeNext ==
  ASSUME Shape, Negative, pc \in {"fromOctal", "done"}, [ModeNext]_modeVars
  PROVE  ModeInv'
<1>1. SUFFICES Shape' /\ Negative' /\ pc' \in {"fromOctal", "done"}
      BY DEF ModeInv
<1>2. CASE FromOctal
  <2>1. /\ pc = "fromOctal" /\ digit' = digit + 1
        /\ decimalnum' = decimalnum + Rem(octalNumber, 10) * Pow(8, digit)
        /\ octalNumber' = Quot(octalNumber, 10)
        /\ UNCHANGED <<operation, mode, allowed, setting, pc, quotient, res, made>>
        BY <1>2 DEF FromOctal, Fixed
  <2>2. /\ octalNumber \in Int /\ -(U32 \div 2) <= octalNumber /\ octalNumber < 177778
        /\ decimalnum \in Int /\ digit \in Nat
        BY DEF Shape
  <2>3. /\ octalNumber' \in Int /\ Rem(octalNumber, 10) \in Int
        /\ -(U32 \div 2) <= octalNumber' /\ octalNumber' < 177778
        BY <2>1, <2>2, QuotInt, HalfLarge
  <2>4. Pow(8, digit) \in Int
        BY <2>2 DEF Pow
  <2>5. decimalnum' \in Int /\ digit' \in Nat
        BY <2>1, <2>2, <2>3, <2>4
  <2>6. Shape'
        BY <2>1, <2>3, <2>5 DEF Shape
  <2> QED BY <2>1, <2>6 DEF Negative
<1>3. CASE Finish
  <2>1. /\ pc = "fromOctal" /\ pc' = "done" /\ res' \in {0, -EPERM, -EIO}
        /\ operation = "getattr" => res' = 0
        /\ UNCHANGED <<octalNumber, quotient, decimalnum, digit, operation, mode, allowed, setting>>
        BY <1>3 DEF Finish, Done, Rest, Fixed
  <2>2. made = {}
        BY <2>1 DEF Shape
  <2>3. \A f \in made' : res' = 0 /\ operation = "mknod" /\ f = NewFile(Low16(decimalnum))
        BY <1>3, <2>2 DEF Finish, Done
  <2>4. Shape'
        BY <2>1, <2>3 DEF Shape, NewFile, PermBits, Low16
  <2> QED BY <2>1, <2>4 DEF Negative
<1>4. CASE UNCHANGED modeVars
      BY <1>4 DEF modeVars, Shape, NewFile, PermBits, Low16, Negative
<1>5. ~(RefuseDevice \/ StartLoop \/ ToOctal \/ SetPerms \/ SetNewFileMode \/ Deny)
      BY DEF RefuseDevice, StartLoop, ToOctal, SetPerms, SetNewFileMode, Deny
<1> QED BY <1>2, <1>3, <1>4, <1>5 DEF ModeNext

LEMMA ModeInvariant == ModeSpec => []ModeInv
<1>1. ModeInit => ModeInv
      BY ModeInvInit
<1>2. ModeInv /\ [ModeNext]_modeVars => ModeInv'
      BY LoopNext, NegativeNext DEF ModeInv
<1> QED BY <1>1, <1>2, PTL DEF ModeSpec

(* A getattr never has a negative setting to deal with.                    *)
LEMMA GetattrFollowed ==
  ASSUME ModeInv, operation = "getattr"
  PROVE  Shape /\ LoopInv
BY DEF ModeInv, Negative

(* The loops stay within an int, whatever the setting, and report one of   *)
(* the errors that the handlers return.                                    *)
THEOREM ModesTyped == ModeSpec => []ModeTypeOK
<1>1. ModeInv => ModeTypeOK
      BY Sixteen DEF ModeInv, Shape, ModeTypeOK
<1> QED BY <1>1, ModeInvariant, PTL

(* getattr reports the type and the special bits of the file's own mode,   *)
(* and what the user may do as the owner's bits, whatever the mode is.     *)
THEOREM ReportsPerms == ModeSpec => []PermsReported
<1>1. ASSUME ModeInv PROVE PermsReported
  <2> SUFFICES ASSUME pc = "done", operation = "getattr"
               PROVE  decimalnum = (mode \div 512) * 512 + 64 * allowed
      BY DEF PermsReported
  <2>1. Shape /\ LoopInv
        BY <1>1, GetattrFollowed
  <2>2. decimalnum = (mode \div 512) * 512 + Read(10, 8, 3, allowed * 100)
    <3>1. res = 0
          BY <2>1 DEF Shape
    <3> QED BY <2>1, <3>1 DEF LoopInv, Result, Target, LastThree
  <2>3. allowed \in 0..7
        BY <2>1 DEF Shape
  <2> QED BY <2>2, <2>3, OwnerBits
<1> QED BY <1>1, ModeInvariant, PTL

(* The permission bits of a number are those of its last nine bits.        *)
LEMMA NineBits ==
  ASSUME NEW h \in Nat, NEW x \in Nat, x < 512
  PROVE  PermBits(h * 512 + x) = PermBits(x) /\ (h * 512 + x) \div 512 = h
<1>1. 2^0 = 1 /\ 2^1 = 2 /\ 2^2 = 4 /\ 2^3 = 8 /\ 2^4 = 16 /\ 2^5 = 32 /\ 2^6 = 64
      /\ 2^7 = 128 /\ 2^8 = 256
      OBVIOUS
<1> DEFINE Same(p) == (((h * 512 + x) \div p) % 2) = ((x \div p) % 2)
<1>2. Same(1) /\ Same(2) /\ Same(4)
      OBVIOUS
<1>3. Same(8) /\ Same(16) /\ Same(32)
      OBVIOUS
<1>4. Same(64) /\ Same(128) /\ Same(256)
      OBVIOUS
<1> HIDE DEF Same
<1>5. \A i \in 0..8 : i = 0 \/ i = 1 \/ i = 2 \/ i = 3 \/ i = 4 \/ i = 5 \/ i = 6 \/ i = 7 \/ i = 8
      OBVIOUS
<1>6. ASSUME NEW i \in 0..8 PROVE Same(2^i)
  <2>1. CASE i \in {0, 1, 2, 3}
    <3>1. CASE i = 0
          BY <1>1, <1>2, <3>1
    <3>2. CASE i = 1
          BY <1>1, <1>2, <3>2
    <3>3. CASE i = 2
          BY <1>1, <1>2, <3>3
    <3>4. CASE i = 3
          BY <1>1, <1>3, <3>4
    <3> QED BY <2>1, <3>1, <3>2, <3>3, <3>4
  <2>2. CASE i \in {4, 5, 6, 7, 8}
    <3>1. CASE i = 4
          BY <1>1, <1>3, <3>1
    <3>2. CASE i = 5
          BY <1>1, <1>3, <3>2
    <3>3. CASE i = 6
          BY <1>1, <1>4, <3>3
    <3>4. CASE i = 7
          BY <1>1, <1>4, <3>4
    <3>5. CASE i = 8
          BY <1>1, <1>4, <3>5
    <3> QED BY <2>2, <3>1, <3>2, <3>3, <3>4, <3>5
  <2> QED BY <1>5, <2>1, <2>2
<1>7. PermBits(h * 512 + x) = PermBits(x)
      BY <1>6 DEF Same, PermBits
<1>8. (h * 512 + x) \div 512 = h
      OBVIOUS
<1> QED BY <1>7, <1>8

(* mknod creates with the bits that the setting spells, for every setting   *)
(* of octal digits and every umask; settings that an int takes for a        *)
(* negative number are not among them.                                      *)
THEOREM CreatesAsSet == ModeSpec => []CreatedAsSet
<1>1. ASSUME ModeInv PROVE CreatedAsSet
  <2> SUFFICES ASSUME NEW f \in made, Octal(setting)
               PROVE  f = [kind |-> mode \div 512, perms |-> PermBits(Bits(setting)) \ Umask]
      BY DEF CreatedAsSet
  <2>1. Shape /\ pc = "done" /\ res = 0 /\ operation = "mknod" /\ f = NewFile(Low16(decimalnum))
        BY <1>1 DEF ModeInv, Shape
  <2>2. ~Negative
    <3> SUFFICES ASSUME setting \in Settings PROVE ToInt(setting) = setting
        BY DEF Negative
    <3>1. setting \in Nat /\ setting <= 777 /\ U32 \div 2 \in Nat /\ U32 \div 2 > 177777
          BY IntRange, HalfLarge DEF Octal
    <3> QED BY <3>1 DEF ToInt
  <2>3. Changing /\ decimalnum = Target /\ decimalnum \in Nat /\ decimalnum < 65536
        BY <1>1, <2>1, <2>2 DEF ModeInv, LoopInv, Small, Result
  <2>4. LastThree = setting
        BY <2>1 DEF LastThree
  <2>5. setting \in Nat /\ setting < 778
        BY <2>1, <2>3, <2>4, Ready
  <2> DEFINE h == mode \div 512
             x == Bits(setting)
  <2>6. decimalnum = h * 512 + x /\ x \in Nat /\ x < 512
        BY <2>3, <2>4, <2>5, ThreeDigits DEF Target
  <2>7. h \in Nat
    <3>1. mode \in Nat /\ mode < 65536
          BY <2>1, ModeRange DEF Shape
    <3> QED BY <3>1, Spelling
  <2>8. Low16(decimalnum) = decimalnum
    <3>1. 2^16 = 65536
          OBVIOUS
    <3> QED BY <2>3, <3>1 DEF Low16
  <2> HIDE DEF h, x
  <2>9. decimalnum \div 512 = h /\ PermBits(decimalnum) = PermBits(x)
        BY <2>6, <2>7, NineBits
  <2> QED BY <2>1, <2>8, <2>9 DEF NewFile, h, x
<1> QED BY <1>1, ModeInvariant, PTL
=============================================================================
