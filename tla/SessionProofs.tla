--------------------------- MODULE SessionProofs ---------------------------
(***************************************************************************)
(* The conversation for any number of connections, calls, mounts, attempts *)
(* and users: client and worker stay in step, never wait for each other,   *)
(* and Client_Users gets names that /etc/passwd had.                       *)
(*                                                                         *)
(* The invariant says where a conversation can be.  On the client's        *)
(* connection, while it is up, the place where FuseClient is leaves two    *)
(* possibilities: its message is on the way, or the answer is.  On a       *)
(* connection that is down only the worker's unread input matters.         *)
(***************************************************************************)
EXTENDS Session, TLAPS

Kinds == {"Hello", "Share", "op", "UpdateLocalUsers", "args", "HTTP", "Register", "invalid"}
Message == [k : Kinds \cup {"name", "uid", "end", "OK", "Error", "page", "result"},
            v : Uids \cup Names]

(* The types, with the messages; an attempt that goes on is not beyond the *)
(* last.                                                                   *)
Types ==
  /\ TypeOK
  /\ toS \in [Conns -> Seq(Message)]
  /\ toC \in [Conns -> Seq(Message)]
  /\ pc \in {"connect", "hello", "share"} => retry < maxRetryCount

(* A connection that was never made.                                       *)
Unused ==
  /\ \A c \in Conns : link[c] = "free" => toS[c] = <<>> /\ toC[c] = <<>>
  /\ cur # 0 => link[cur] # "free"

(* FuseClient has a connection where it uses one.                          *)
HasConn == Waiting \/ pc = "ready" => cur # 0

(* A message that is the uid of the user called name, one of us.           *)
UidOf(m, name, us) == \E u \in Uids : m = UidMsg(u) /\ <<u, name>> \in us

(* What is left of the users that syncLocalUsers sends: names of us, each  *)
(* with its uid, and at most one end.                                      *)
UserList(q, us) ==
  \A i \in 1..Len(q) : i % 2 = 1 =>
     \/ /\ q[i].k = "name" /\ q[i].v \in Names
        /\ i < Len(q) => UidOf(q[i + 1], q[i].v, us)
     \/ q[i].k = "end" /\ i = Len(q)

(* What a worker has not read: the list of users, or one message.          *)
Unread(c) ==
  \/ toS[c] = <<>>
  \/ wst[c] = "users" /\ UserList(toS[c], listed)
  \/ \E k \in Kinds : toS[c] = <<Msg(k)>>

AllUnread == \A c \in Conns : Unread(c)

(* The connection of FuseClient, while it is up.                           *)
At(w, s, r) == wst[cur] = w /\ toS[cur] = s /\ toC[cur] = r

Operation == IF call = "sync" THEN "UpdateLocalUsers" ELSE "op"

Listing ==
  /\ wst[cur] = "users" /\ toC[cur] = <<>>
  /\ UserList(toS[cur], listed) /\ toS[cur] # <<>> /\ toS[cur][Len(toS[cur])] = Msg("end")

Dialogue ==
  \/ pc = "hello" /\ (At("hello", <<Msg("Hello")>>, <<>>) \/ At("share", <<>>, <<Msg("Hello")>>))
  \/ pc = "share" /\ (At("share", <<Msg("Share")>>, <<>>) \/ At("wait", <<>>, <<Msg("OK")>>))
  \/ pc \in {"init", "idle", "ready"} /\ At("wait", <<>>, <<>>)
  \/ pc = "ok" /\ \/ At("wait", <<Msg(Operation)>>, <<>>)
                  \/ At(IF call = "sync" THEN "users" ELSE "op", <<>>, <<Msg("OK")>>)
  \/ pc = "result" /\ (At("op", <<Msg("args")>>, <<>>) \/ At("wait", <<>>, <<Msg("result")>>))
  \/ pc = "users" /\ (Listing \/ At("wait", <<>>, <<Msg("OK")>>))

(* The client left UpdateLocalUsers open; the worker waits for a length    *)
(* and does not answer the next operation.                                 *)
LeftOpen ==
  /\ cur = abandoned
  /\ \/ pc \in {"init", "idle", "ready"} /\ At("users", <<>>, <<>>)
     \/ pc = "ok" /\ \E k \in {"op", "UpdateLocalUsers"} : At("users", <<Msg(k)>>, <<>>)

Talk == cur # 0 /\ link[cur] = "up" => Dialogue \/ LeftOpen

(* Any other connection that is up is a guest's.                           *)
GuestAt(c) ==
  \/ wst[c] = "hello" /\ \E k \in {"HTTP", "Register", "invalid"} : toS[c] = <<Msg(k)>>
  \/ wst[c] = "registered"

Guests == \A c \in Conns \ {cur} : link[c] = "up" => GuestAt(c)

IInv ==
  /\ Types
  /\ Unused
  /\ HasConn
  /\ AllUnread
  /\ Talk
  /\ Guests
  /\ RowsFromPasswd

-----------------------------------------------------------------------------
(* Sequences of at most one message, and prefixes.                         *)
LEMMA Short ==
  ASSUME NEW m
  PROVE  /\ <<m>> # <<>> /\ Len(<<m>>) = 1 /\ Head(<<m>>) = m /\ Tail(<<m>>) = <<>>
         /\ <<>> \o <<m>> = <<m>> /\ <<m>>[1] = m
  OBVIOUS

LEMMA PrefixOfShort ==
  ASSUME NEW m
  PROVE  /\ \A p \in Prefixes(<<m>>) : p = <<>> \/ p = <<m>>
         /\ \A p \in Prefixes(<<>>) : p = <<>>
  BY DEF Prefixes

LEMMA PrefixType ==
  ASSUME NEW S, NEW q \in Seq(S), NEW p \in Prefixes(q)
  PROVE  /\ p \in Seq(S) /\ Len(p) <= Len(q)
         /\ \A i \in 1..Len(p) : p[i] = q[i]
<1>1. PICK l \in 0..Len(q) : p = SubSeq(q, 1, l)
      BY DEF Prefixes
<1> QED
    BY <1>1

(* What is left of a sequence without its first two elements.              *)
LEMMA DropTwo ==
  ASSUME NEW S, NEW q \in Seq(S), Len(q) >= 2
  PROVE  /\ SubSeq(q, 3, Len(q)) \in Seq(S)
         /\ Len(SubSeq(q, 3, Len(q))) = Len(q) - 2
         /\ \A i \in 1..Len(SubSeq(q, 3, Len(q))) :
              i + 2 \in 1..Len(q) /\ SubSeq(q, 3, Len(q))[i] = q[i + 2]
<1>1. PICK n \in Nat : n = Len(q)
      OBVIOUS
<1>2. CASE n = 2
      BY <1>1, <1>2
<1>3. CASE n >= 3
      BY <1>1, <1>3
<1>4. n >= 2
      BY <1>1
<1> QED
    BY <1>2, <1>3, <1>4

(* A sequence of one element has nothing behind it.                        *)
LEMMA NoElement ==
  ASSUME NEW S, NEW q \in Seq(S), Len(q) = 0
  PROVE  q = <<>>
  OBVIOUS

LEMMA TailOfOne ==
  ASSUME NEW S, NEW q \in Seq(S), Len(q) = 1
  PROVE  Tail(q) = <<>>
<1>1. Tail(q) \in Seq(S) /\ Len(Tail(q)) = 0
      OBVIOUS
<1> QED
    BY <1>1, NoElement

(* A sequence with one more element.                                       *)
LEMMA OneMore ==
  ASSUME NEW S, NEW q \in Seq(S), NEW m \in S
  PROVE  /\ q \o <<m>> \in Seq(S) /\ Len(q \o <<m>>) = Len(q) + 1
         /\ (q \o <<m>>)[Len(q) + 1] = m
         /\ \A i \in 1..Len(q) : (q \o <<m>>)[i] = q[i]
  OBVIOUS

LEMMA NothingBefore ==
  ASSUME NEW S, NEW q \in Seq(S)
  PROVE  <<>> \o q = q
  OBVIOUS

(* Messages are messages.                                                  *)
LEMMA MsgType == /\ \A k : Msg(k).k = k /\ Msg(k).v = 0
                 /\ \A k \in Kinds \cup {"end", "OK", "Error", "page", "result"} :
                      Msg(k) \in Message
                 /\ \A u \in Uids : UidMsg(u) \in Message
                 /\ \A n \in Names : NameMsg(n) \in Message
  BY DEF Msg, NameMsg, UidMsg, Message, Kinds, Uids

(* More users make no list worse.                                          *)
LEMMA UserListGrows ==
  ASSUME NEW q, NEW us, NEW more, UserList(q, us), us \subseteq more
  PROVE  UserList(q, more)
  BY DEF UserList, UidOf

(* What breaks off of a list of users is one.                              *)
LEMMA UserListPrefix ==
  ASSUME NEW us, NEW q \in Seq(Message), UserList(q, us), NEW p \in Prefixes(q)
  PROVE  UserList(p, us)
<1>1. /\ p \in Seq(Message) /\ Len(p) <= Len(q)
      /\ \A i \in 1..Len(p) : p[i] = q[i]
      BY PrefixType
<1> SUFFICES ASSUME NEW i \in 1..Len(p), i % 2 = 1
             PROVE  \/ /\ p[i].k = "name" /\ p[i].v \in Names
                       /\ i < Len(p) => UidOf(p[i + 1], p[i].v, us)
                    \/ p[i].k = "end" /\ i = Len(p)
    BY DEF UserList
<1>2. /\ i \in 1..Len(q) /\ p[i] = q[i]
      /\ i < Len(p) => i < Len(q) /\ p[i + 1] = q[i + 1]
      BY <1>1
<1> QED
    BY <1>1, <1>2 DEF UserList

(* A turn of the worker's loop takes a name with its uid off the list.     *)
LEMMA UserListRest ==
  ASSUME NEW us, NEW q \in Seq(Message), UserList(q, us), Len(q) >= 2, q[1].k = "name"
  PROVE  /\ q[1].v \in Names /\ UidOf(q[2], q[1].v, us)
         /\ SubSeq(q, 3, Len(q)) \in Seq(Message)
         /\ UserList(SubSeq(q, 3, Len(q)), us)
         /\ q[Len(q)] = Msg("end") => /\ SubSeq(q, 3, Len(q)) # <<>>
                                      /\ SubSeq(q, 3, Len(q))[Len(SubSeq(q, 3, Len(q)))]
                                           = Msg("end")
<1> DEFINE r == SubSeq(q, 3, Len(q))
<1>1. q[1].v \in Names /\ UidOf(q[2], q[1].v, us)
      BY DEF UserList
<1>2. /\ r \in Seq(Message) /\ Len(r) = Len(q) - 2
      /\ \A i \in 1..Len(r) : i + 2 \in 1..Len(q) /\ r[i] = q[i + 2]
      BY DropTwo
<1> HIDE DEF r
<1>3. UserList(r, us)
  <2> SUFFICES ASSUME NEW i \in 1..Len(r), i % 2 = 1
               PROVE  \/ /\ r[i].k = "name" /\ r[i].v \in Names
                         /\ i < Len(r) => UidOf(r[i + 1], r[i].v, us)
                      \/ r[i].k = "end" /\ i = Len(r)
      BY DEF UserList
  <2>1. (i + 2) % 2 = 1 /\ i + 2 \in 1..Len(q) /\ r[i] = q[i + 2]
        BY <1>2
  <2>2. i < Len(r) => i + 2 < Len(q) /\ r[i + 1] = q[(i + 2) + 1]
        BY <1>2
  <2>3. i + 2 = Len(q) => i = Len(r)
        BY <1>2
  <2> QED
      BY <2>1, <2>2, <2>3 DEF UserList
<1>4. ASSUME q[Len(q)] = Msg("end") PROVE r # <<>> /\ r[Len(r)] = Msg("end")
  <2>1. q[2].k = "uid" /\ Msg("end").k = "end"
        BY <1>1 DEF UidOf, UidMsg, Msg
  <2>2. Len(q) # 2
        BY <1>4, <2>1
  <2>3. Len(r) \in 1..Len(r)
        BY <1>2, <2>2
  <2> QED
      BY <1>2, <1>4, <2>2, <2>3
<1> QED
    BY <1>1, <1>2, <1>3, <1>4 DEF r

(* Every name has a place for its uid.                                     *)
LEMMA OddPlace ==
  ASSUME NEW k \in Nat, NEW m \in 1..2 * k, m % 2 = 1
  PROVE  m + 1 \in 1..2 * k /\ (m + 1) % 2 # 1 /\ ((m + 1) + 1) \div 2 = (m + 1) \div 2
  OBVIOUS

(* What syncLocalUsers sends is a list of the users of /etc/passwd that    *)
(* ends with -1.                                                           *)
LEMMA PasswdList ==
  ASSUME NEW p \in Passwds
  PROVE  /\ PasswdMsgs(p) \in Seq(Message) /\ UserList(PasswdMsgs(p), ToSet(p))
         /\ PasswdMsgs(p) # <<>> /\ PasswdMsgs(p)[Len(PasswdMsgs(p))] = Msg("end")
         /\ ToSet(p) \subseteq Nat \X Names
<1> DEFINE n == 2 * Len(p)
           us == [m \in 1..n |-> LET e == p[(m + 1) \div 2]
                                 IN  IF m % 2 = 1 THEN NameMsg(e[2]) ELSE UidMsg(e[1])]
<1>1. p \in Seq(Nat \X Names) /\ Len(p) \in Nat /\ n \in Nat
      BY SessionAssumption
<1>2. \A m \in 1..n : (m + 1) \div 2 \in 1..Len(p)
      BY <1>1
<1>3. \A i \in 1..Len(p) : /\ p[i] \in Nat \X Names /\ p[i] \in ToSet(p)
                           /\ p[i] = <<p[i][1], p[i][2]>> /\ p[i][1] \in Uids
                           /\ p[i][2] \in Names
  <2> TAKE i \in 1..Len(p)
  <2>1. p[i] \in Nat \X Names /\ p[i] \in ToSet(p)
        BY <1>1 DEF ToSet
  <2>2. p[i][1] \in Uids
        BY <2>1 DEF Uids
  <2> QED
      BY <2>1, <2>2
<1>4. us \in Seq(Message) /\ Len(us) = n
      BY <1>1, <1>2, <1>3, MsgType
<1>5. \A m \in 1..n : m % 2 = 1 =>
        /\ us[m] = NameMsg(p[(m + 1) \div 2][2])
        /\ m + 1 \in 1..n /\ us[m + 1] = UidMsg(p[(m + 1) \div 2][1])
  <2> SUFFICES ASSUME NEW m \in 1..n, m % 2 = 1
               PROVE  /\ us[m] = NameMsg(p[(m + 1) \div 2][2])
                      /\ m + 1 \in 1..n /\ us[m + 1] = UidMsg(p[(m + 1) \div 2][1])
      OBVIOUS
  <2>1. m + 1 \in 1..n /\ (m + 1) % 2 # 1 /\ ((m + 1) + 1) \div 2 = (m + 1) \div 2
        BY <1>1, OddPlace
  <2> QED
      BY <2>1
<1> DEFINE ms == PasswdMsgs(p)
<1>6. ms = us \o <<Msg("end")>>
      BY DEF PasswdMsgs
<1> HIDE DEF n, us, ms
<1>7. /\ ms \in Seq(Message) /\ Len(ms) = n + 1 /\ ms[n + 1] = Msg("end")
      /\ \A m \in 1..n : ms[m] = us[m]
  <2>1. Msg("end") \in Message
        BY MsgType
  <2> QED
      BY <1>4, <1>6, <2>1, OneMore
<1>8. UserList(ms, ToSet(p))
  <2> SUFFICES ASSUME NEW i \in 1..(n + 1), i % 2 = 1
               PROVE  \/ /\ ms[i].k = "name" /\ ms[i].v \in Names
                         /\ i < n + 1 => UidOf(ms[i + 1], ms[i].v, ToSet(p))
                      \/ ms[i].k = "end" /\ i = n + 1
      BY <1>7 DEF UserList
  <2>1. CASE i = n + 1
        BY <1>7, <2>1, MsgType
  <2>2. CASE i \in 1..n
    <3>1. ms[i] = NameMsg(p[(i + 1) \div 2][2])
          BY <1>5, <1>7, <2>2
    <3>2. ms[i + 1] = UidMsg(p[(i + 1) \div 2][1])
          BY <1>5, <1>7, <2>2
    <3>3. PICK e \in ToSet(p) : /\ e = <<e[1], e[2]>> /\ e[1] \in Uids /\ e[2] \in Names
                                /\ ms[i] = NameMsg(e[2]) /\ ms[i + 1] = UidMsg(e[1])
          BY <1>2, <1>3, <2>2, <3>1, <3>2
    <3>4. ms[i].k = "name" /\ ms[i].v = e[2]
          BY <3>3 DEF NameMsg
    <3>5. UidOf(ms[i + 1], ms[i].v, ToSet(p))
          BY <3>3, <3>4 DEF UidOf
    <3> QED
        BY <3>3, <3>4, <3>5
  <2>3. i = n + 1 \/ i \in 1..n
        BY <1>1
  <2> QED
      BY <2>1, <2>2, <2>3
<1>9. ToSet(p) \subseteq Nat \X Names
      BY <1>1, <1>3 DEF ToSet
<1>10. ms # <<>> /\ ms[Len(ms)] = Msg("end")
      BY <1>1, <1>7
<1> QED
    BY <1>7, <1>8, <1>9, <1>10 DEF ms

-----------------------------------------------------------------------------
Statuses == {"none", "hello", "share", "wait", "op", "users", "registered", "ended"}
Places   == {"off", "idle", "init", "connect", "ready",
             "hello", "share", "ok", "result", "users"}

(* Nothing is connected.                                                   *)
LEMMA InitInv == Init => IInv
<1> SUFFICES ASSUME Init PROVE IInv
    OBVIOUS
<1>1. Types
      BY SessionAssumption DEF Init, Types, TypeOK, Waiting, Conns
<1>2. Unused /\ HasConn /\ AllUnread /\ Talk /\ Guests
      BY DEF Init, Unused, HasConn, Waiting, AllUnread, Unread, Talk, Guests
<1>3. RowsFromPasswd
      BY DEF Init, RowsFromPasswd
<1> QED
    BY <1>1, <1>2, <1>3 DEF IInv

(* A step that touches one connection c, and FuseClient only if c is its   *)
(* own: what is to be shown of c alone.                                    *)
LEMMA ConnStep ==
  ASSUME IInv, NEW c \in Conns, Types', HasConn', RowsFromPasswd',
         cur' = cur, link'[c] # "free",
         \A d \in Conns \ {c} : /\ link'[d] = link[d] /\ wst'[d] = wst[d]
                                /\ toS'[d] = toS[d] /\ toC'[d] = toC[d],
         c # cur => UNCHANGED <<pc, call, abandoned>>, listed \subseteq listed',
         Unread(c)',
         link'[c] = "up" /\ c = cur => (Dialogue \/ LeftOpen)',
         link'[c] = "up" /\ c # cur => GuestAt(c)'
  PROVE  IInv'
<1>1. cur \in Conns \cup {0} /\ 0 \notin Conns
      BY SessionAssumption DEF IInv, Types, TypeOK, Conns
<1>2. Unused'
      BY <1>1 DEF IInv, Unused
<1>3. AllUnread'
      BY UserListGrows DEF IInv, AllUnread, Unread
<1>4. Talk'
  <2>1. CASE c = cur
        BY <2>1 DEF Talk
  <2>2. CASE c # cur /\ cur # 0
    <3>1. /\ link'[cur] = link[cur] /\ wst'[cur] = wst[cur]
          /\ toS'[cur] = toS[cur] /\ toC'[cur] = toC[cur]
          BY <1>1, <2>2
    <3>2. UNCHANGED <<cur, pc, call, abandoned>>
          BY <2>2
    <3>3. Listing => Listing'
          BY <3>1, <3>2, UserListGrows DEF Listing
    <3> QED
        BY <2>2, <3>1, <3>2, <3>3 DEF IInv, Talk, Dialogue, LeftOpen, At, Operation
  <2> QED
      BY <2>1, <2>2 DEF Talk
<1>5. Guests'
      BY DEF IInv, Guests, GuestAt
<1> QED
    BY <1>2, <1>3, <1>4, <1>5 DEF IInv

(* A step of FuseClient that sends nothing, when it has no connection that *)
(* is up.                                                                  *)
LEMMA AloneStep ==
  ASSUME IInv, Types', HasConn', cur' = cur, UNCHANGED <<link, wst, toS, rows>>,
         cur # 0 => link[cur] = "down", listed \subseteq listed',
         \A d \in Conns \ {cur} : toC'[d] = toC[d]
  PROVE  IInv'
<1>1. 0 \notin Conns
      BY SessionAssumption DEF Conns
<1>2. Unused'
      BY <1>1 DEF IInv, Unused
<1>3. AllUnread' /\ Guests' /\ RowsFromPasswd'
      BY UserListGrows DEF IInv, AllUnread, Unread, Guests, GuestAt, RowsFromPasswd
<1>4. Talk'
      BY DEF Talk
<1> QED
    BY <1>2, <1>3, <1>4 DEF IInv

(* What a worker does to its connection.                                   *)
LEMMA AnswerFacts ==
  ASSUME Types, NEW c \in Conns, NEW ms \in Seq(Message), NEW s, Answer(c, ms, s),
         toS[c] # <<>>
  PROVE  /\ link' = link
         /\ toS' \in [Conns -> Seq(Message)] /\ toC' \in [Conns -> Seq(Message)]
         /\ toS'[c] = Tail(toS[c]) /\ wst'[c] = s
         /\ link[c] = "up" => toC'[c] = toC[c] \o ms
         /\ \A d \in Conns \ {c} : wst'[d] = wst[d] /\ toS'[d] = toS[d] /\ toC'[d] = toC[d]
<1>1. toS[c] \in Seq(Message) /\ toC[c] \in Seq(Message)
      BY DEF Types
<1>2. Tail(toS[c]) \in Seq(Message) /\ toC[c] \o ms \in Seq(Message)
      BY <1>1
<1>3. toS' = [toS EXCEPT ![c] = Tail(toS[c])]
      BY DEF Answer, Received
<1>4. toC' = [toC EXCEPT ![c] = IF link[c] = "up" THEN toC[c] \o ms ELSE toC[c]]
      BY DEF Answer, Sent
<1>5. wst' = [wst EXCEPT ![c] = s] /\ link' = link
      BY DEF Answer
<1> QED
    BY <1>1, <1>2, <1>3, <1>4, <1>5 DEF Types, TypeOK

LEMMA CloseFacts ==
  ASSUME Types, NEW c \in Conns, NEW ms \in Seq(Message), Close(c, ms)
  PROVE  /\ link'[c] = "down" /\ wst'[c] = "ended" /\ toS'[c] = <<>>
         /\ toS' \in [Conns -> Seq(Message)] /\ toC' \in [Conns -> Seq(Message)]
         /\ link' = [link EXCEPT ![c] = "down"] /\ wst' = [wst EXCEPT ![c] = "ended"]
         /\ \A d \in Conns \ {c} : /\ link'[d] = link[d] /\ wst'[d] = wst[d]
                                    /\ toS'[d] = toS[d] /\ toC'[d] = toC[d]
<1>1. toS[c] \in Seq(Message) /\ toC[c] \in Seq(Message)
      BY DEF Types
<1>2. Sent(toC, c, ms)[c] \in Seq(Message)
      BY <1>1 DEF Types, Sent
<1>3. PICK p \in Prefixes(Sent(toC, c, ms)[c]) : toC' = [toC EXCEPT ![c] = p]
      BY DEF Close
<1>4. p \in Seq(Message)
      BY <1>2, PrefixType
<1> QED
    BY <1>1, <1>3, <1>4 DEF Close, Types, TypeOK

(* Types of a worker's step.                                               *)
LEMMA WorkerTypes ==
  ASSUME Types, NEW c \in Conns, NEW s \in Statuses \ {"none"}, wst[c] # "none",
         link' = link \/ link' = [link EXCEPT ![c] = "down"],
         wst' = [wst EXCEPT ![c] = s],
         toS' \in [Conns -> Seq(Message)], toC' \in [Conns -> Seq(Message)],
         rows' \in [Uids -> Names \cup {NoName, Absent}],
         UNCHANGED fuse, listed' = listed
  PROVE  Types'
<1>1. link' \in [Conns -> {"free", "up", "down"}] /\ wst' \in [Conns -> Statuses]
      BY DEF Types, TypeOK, Statuses
<1>2. \A d \in Conns : link'[d] = "free" <=> wst'[d] = "none"
      BY DEF Types, TypeOK, Statuses
<1>3. UNCHANGED <<cur, pc, call, retry>>
      BY DEF fuse
<1> QED
    BY <1>1, <1>2, <1>3 DEF Types, TypeOK, Waiting, Statuses

(* FuseClient stays where it is.                                           *)
LEMMA ClientStays ==
  ASSUME IInv, UNCHANGED fuse
  PROVE  UNCHANGED <<cur, pc, call, retry>> /\ HasConn'
  BY DEF IInv, fuse, HasConn, Waiting

(* A worker that closes its socket, or one that answers on a connection    *)
(* that is gone, upsets nothing.                                           *)
LEMMA CloseStep ==
  ASSUME IInv, NEW c \in Conns, NEW ms \in Seq(Message), Close(c, ms), wst[c] # "none",
         UNCHANGED <<rows, fuse, ghosts>>
  PROVE  IInv'
<1>1. Types
      BY DEF IInv
<1>2. UNCHANGED <<abandoned, listed>>
      BY DEF ghosts
<1>3. Types'
      BY <1>1, <1>2, CloseFacts, WorkerTypes DEF Types, TypeOK, Statuses
<1>4. RowsFromPasswd'
      BY <1>2 DEF IInv, RowsFromPasswd
<1>5. Unread(c)'
      BY <1>1, CloseFacts DEF Unread
<1> QED
    BY <1>1, <1>2, <1>3, <1>4, <1>5, CloseFacts, ClientStays, ConnStep

LEMMA AnswerStep ==
  ASSUME IInv, NEW c \in Conns, NEW ms \in Seq(Message), NEW s \in Statuses \ {"none"},
         Answer(c, ms, s), toS[c] # <<>>, wst[c] # "none",
         UNCHANGED <<rows, fuse, ghosts>>,
         Tail(toS[c]) = <<>>,
         link[c] = "up" /\ c = cur => (Dialogue \/ LeftOpen)',
         link[c] = "up" /\ c # cur => GuestAt(c)'
  PROVE  IInv'
<1>1. Types
      BY DEF IInv
<1>2. UNCHANGED <<abandoned, listed>>
      BY DEF ghosts
<1>3. Types'
      BY <1>1, <1>2, AnswerFacts, WorkerTypes DEF Types, TypeOK, Answer
<1>4. RowsFromPasswd'
      BY <1>2 DEF IInv, RowsFromPasswd
<1>5. Unread(c)'
      BY <1>1, AnswerFacts DEF Unread
<1>6. link'[c] # "free"
      BY <1>1, AnswerFacts DEF Types, TypeOK
<1> QED
    BY <1>1, <1>2, <1>3, <1>4, <1>5, <1>6, AnswerFacts, ClientStays, ConnStep

(* The message that a worker finds is the only one, but for the users.     *)
LEMMA OnlyMessage ==
  ASSUME IInv, NEW c \in Conns, NEW k \in Kinds \cup {"end"}, Arrives(c, toS, k)
  PROVE  /\ toS[c] # <<>> /\ Tail(toS[c]) = <<>>
         /\ k \in Kinds => toS[c] = <<Msg(k)>>
<1>1. toS[c] \in Seq(Message) /\ toS[c] # <<>> /\ toS[c][1].k = k
      BY DEF IInv, Types, Arrives
<1>2. Unread(c)
      BY DEF IInv, AllUnread
<1>3. CASE \E l \in Kinds : toS[c] = <<Msg(l)>>
      BY <1>1, <1>3, Short, MsgType
<1>4. CASE UserList(toS[c], listed)
  <2>1. Len(toS[c]) \in Nat /\ 1 \in 1..Len(toS[c]) /\ 1 % 2 = 1
        BY <1>1
  <2>2. k = "end" /\ Len(toS[c]) = 1
        BY <1>1, <1>4, <2>1 DEF UserList, Kinds
  <2> QED
      BY <1>1, <2>2, TailOfOne DEF Kinds
<1> QED
    BY <1>1, <1>2, <1>3, <1>4 DEF Unread

-----------------------------------------------------------------------------
(* The worker of a connection.                                             *)

(* What the steps of a worker send.                                        *)
LEMMA Replies ==
  /\ <<>> \in Seq(Message)
  /\ \A k \in Kinds \cup {"end", "OK", "Error", "page", "result"} : <<Msg(k)>> \in Seq(Message)
  BY MsgType

(* A guest never sends a Hello, and a worker that has a conversation's     *)
(* status has FuseClient as its peer.                                      *)
LEMMA Peer ==
  ASSUME IInv, NEW c \in Conns, link[c] = "up"
  PROVE  /\ wst[c] = "hello" /\ toS[c] = <<Msg("Hello")>> => c = cur
         /\ wst[c] \in {"share", "wait", "op", "users"} => c = cur
         /\ c = cur => Dialogue \/ LeftOpen
<1>1. c # cur => GuestAt(c)
      BY DEF IInv, Guests
<1>2. \A k \in {"HTTP", "Register", "invalid"} : <<Msg(k)>> # <<Msg("Hello")>>
  <2> TAKE k \in {"HTTP", "Register", "invalid"}
  <2>1. Msg(k).k # Msg("Hello").k
        BY MsgType
  <2> QED
      BY <2>1, Short
<1>3. c = cur => cur # 0
      BY SessionAssumption DEF Conns
<1>4. c = cur => Dialogue \/ LeftOpen
      BY <1>3 DEF IInv, Talk
<1>5. wst[c] = "hello" /\ toS[c] = <<Msg("Hello")>> => ~GuestAt(c)
      BY <1>2 DEF GuestAt
<1>6. wst[c] \in {"share", "wait", "op", "users"} => ~GuestAt(c)
      BY DEF GuestAt
<1> QED
    BY <1>1, <1>4, <1>5, <1>6

(* One answer on a connection that is up.                                  *)
LEMMA OneAnswer ==
  ASSUME IInv, NEW c \in Conns, NEW k \in {"Hello", "OK", "result"}, NEW s,
         Answer(c, <<Msg(k)>>, s), toS[c] # <<>>, Tail(toS[c]) = <<>>,
         link[c] = "up", toC[c] = <<>>
  PROVE  toS'[c] = <<>> /\ wst'[c] = s /\ toC'[c] = <<Msg(k)>>
<1>1. Types /\ <<Msg(k)>> \in Seq(Message)
      BY Replies DEF IInv, Kinds
<1>2. toS'[c] = Tail(toS[c]) /\ wst'[c] = s /\ toC'[c] = toC[c] \o <<Msg(k)>>
      BY <1>1, AnswerFacts
<1> QED
    BY <1>2, Short

LEMMA WorkerHelloStep ==
  ASSUME IInv, NEW c \in Conns, WorkerHello(c)
  PROVE  IInv'
<1>1. /\ wst[c] = "hello" /\ toS[c] = <<Msg("Hello")>> /\ Tail(toS[c]) = <<>>
      /\ toS[c] # <<>> /\ UNCHANGED <<rows, fuse, ghosts>>
      BY OnlyMessage DEF WorkerHello, Kinds
<1>2. CASE \E ms \in {<<>>, <<Msg("Error")>>} : Close(c, ms)
      BY <1>1, <1>2, Replies, CloseStep
<1>3. CASE Answer(c, <<Msg("Hello")>>, "share")
  <2>1. ASSUME link[c] = "up" PROVE c = cur /\ Dialogue'
    <3>1. c = cur /\ (Dialogue \/ LeftOpen)
          BY <1>1, <2>1, Peer
    <3>2. pc = "hello" /\ toC[c] = <<>>
          BY <1>1, <3>1 DEF Dialogue, LeftOpen, At, Listing
    <3>3. toS'[c] = <<>> /\ wst'[c] = "share" /\ toC'[c] = <<Msg("Hello")>>
          BY <1>1, <1>3, <2>1, <3>2, OneAnswer
    <3>4. UNCHANGED <<cur, pc>>
          BY <1>1 DEF fuse
    <3> QED
        BY <3>1, <3>2, <3>3, <3>4 DEF Dialogue, At
  <2> QED
      BY <1>1, <1>3, <2>1, Replies, AnswerStep DEF Kinds, Statuses
<1> QED
    BY <1>2, <1>3 DEF WorkerHello

LEMMA WorkerNoHelloStep ==
  ASSUME IInv, NEW c \in Conns, WorkerNoHello(c)
  PROVE  IInv'
<1>1. wst[c] = "hello" /\ UNCHANGED <<rows, fuse, ghosts>>
      BY DEF WorkerNoHello
<1>2. CASE \E ms \in {<<>>, <<Msg("page")>>} : Close(c, ms)
      BY <1>1, <1>2, Replies, CloseStep
<1>3. CASE Arrives(c, toS, "Register") /\ Answer(c, <<Msg("OK")>>, "registered")
  <2>1. toS[c] = <<Msg("Register")>> /\ toS[c] # <<>> /\ Tail(toS[c]) = <<>>
        BY <1>3, OnlyMessage DEF Kinds
  <2>2. toS[c] # <<Msg("Hello")>>
        BY <2>1, MsgType, Short
  <2>3. link[c] = "up" => c # cur
        BY <1>1, <2>2, Peer DEF Dialogue, LeftOpen, At, Listing
  <2>4. wst'[c] = "registered"
        BY <1>3, <2>1, AnswerFacts, Replies DEF IInv
  <2> QED
      BY <1>1, <1>3, <2>1, <2>3, <2>4, Replies, AnswerStep DEF GuestAt, Statuses
<1> QED
    BY <1>2, <1>3 DEF WorkerNoHello

LEMMA WorkerShareStep ==
  ASSUME IInv, NEW c \in Conns, WorkerShare(c)
  PROVE  IInv'
<1>1. wst[c] = "share" /\ UNCHANGED <<rows, fuse, ghosts>>
      BY DEF WorkerShare
<1>2. CASE \E ms \in {<<>>, <<Msg("Error")>>} : Close(c, ms)
      BY <1>1, <1>2, Replies, CloseStep
<1>3. CASE Arrives(c, toS, "Share") /\ Answer(c, <<Msg("OK")>>, "wait")
  <2>1. toS[c] = <<Msg("Share")>> /\ toS[c] # <<>> /\ Tail(toS[c]) = <<>>
        BY <1>3, OnlyMessage DEF Kinds
  <2>2. ASSUME link[c] = "up" PROVE c = cur /\ Dialogue'
    <3>1. c = cur /\ (Dialogue \/ LeftOpen)
          BY <1>1, <2>2, Peer
    <3>2. pc = "share" /\ toC[c] = <<>>
          BY <1>1, <2>1, <3>1 DEF Dialogue, LeftOpen, At, Listing
    <3>3. toS'[c] = <<>> /\ wst'[c] = "wait" /\ toC'[c] = <<Msg("OK")>>
          BY <1>3, <2>1, <2>2, <3>2, OneAnswer
    <3>4. UNCHANGED <<cur, pc>>
          BY <1>1 DEF fuse
    <3> QED
        BY <3>1, <3>2, <3>3, <3>4 DEF Dialogue, At
  <2> QED
      BY <1>1, <1>3, <2>1, <2>2, Replies, AnswerStep DEF Statuses
<1> QED
    BY <1>2, <1>3 DEF WorkerShare

(* The worker of an open UpdateLocalUsers is not waiting for an operation. *)
LEMMA WorkerOperationStep ==
  ASSUME IInv, NEW c \in Conns, WorkerOperation(c)
  PROVE  IInv'
<1>1. wst[c] = "wait" /\ UNCHANGED <<rows, fuse, ghosts>>
      BY DEF WorkerOperation
<1>2. CASE Close(c, <<>>)
      BY <1>1, <1>2, Replies, CloseStep
<1>3. ASSUME NEW k \in {"op", "UpdateLocalUsers"}, Arrives(c, toS, k),
             Answer(c, <<Msg("OK")>>, IF k = "op" THEN "op" ELSE "users")
      PROVE  IInv'
  <2>1. toS[c] = <<Msg(k)>> /\ toS[c] # <<>> /\ Tail(toS[c]) = <<>>
        BY <1>3, OnlyMessage DEF Kinds
  <2>2. ASSUME link[c] = "up" PROVE c = cur /\ Dialogue'
    <3>1. c = cur /\ (Dialogue \/ LeftOpen)
          BY <1>1, <2>2, Peer
    <3>2. pc = "ok" /\ toC[c] = <<>> /\ toS[c] = <<Msg(Operation)>>
          BY <1>1, <2>1, <3>1 DEF Dialogue, LeftOpen, At, Listing
    <3>3. k = Operation
          BY <2>1, <3>2, MsgType, Short
    <3>4. /\ toS'[c] = <<>> /\ wst'[c] = (IF k = "op" THEN "op" ELSE "users")
          /\ toC'[c] = <<Msg("OK")>>
          BY <1>3, <2>1, <2>2, <3>2, OneAnswer
    <3>5. UNCHANGED <<cur, pc, call>>
          BY <1>1 DEF fuse
    <3> QED
        BY <3>1, <3>2, <3>3, <3>4, <3>5 DEF Dialogue, At, Operation
  <2> QED
      BY <1>1, <1>3, <2>1, <2>2, Replies, AnswerStep DEF Statuses
<1> QED
    BY <1>2, <1>3 DEF WorkerOperation

LEMMA WorkerInOperationStep ==
  ASSUME IInv, NEW c \in Conns, WorkerInOperation(c)
  PROVE  IInv'
<1>1. wst[c] = "op" /\ UNCHANGED <<rows, fuse, ghosts>>
      BY DEF WorkerInOperation
<1>2. CASE Arrives(c, toS, "args") /\ Answer(c, <<Msg("result")>>, "wait")
  <2>1. toS[c] = <<Msg("args")>> /\ toS[c] # <<>> /\ Tail(toS[c]) = <<>>
        BY <1>2, OnlyMessage DEF Kinds
  <2>2. ASSUME link[c] = "up" PROVE c = cur /\ Dialogue'
    <3>1. c = cur /\ (Dialogue \/ LeftOpen)
          BY <1>1, <2>2, Peer
    <3>2. pc = "result" /\ toC[c] = <<>>
          BY <1>1, <2>1, <3>1 DEF Dialogue, LeftOpen, At, Listing
    <3>3. toS'[c] = <<>> /\ wst'[c] = "wait" /\ toC'[c] = <<Msg("result")>>
          BY <1>2, <2>1, <2>2, <3>2, OneAnswer
    <3>4. UNCHANGED <<cur, pc>>
          BY <1>1 DEF fuse
    <3> QED
        BY <3>1, <3>2, <3>3, <3>4 DEF Dialogue, At
  <2> QED
      BY <1>1, <1>2, <2>1, <2>2, Replies, AnswerStep DEF Statuses
<1>3. CASE /\ Broken(c, toS) /\ wst' = [wst EXCEPT ![c] = "wait"]
           /\ UNCHANGED <<link, toS, toC>>
  <2>1. link[c] = "down" /\ toS[c] = <<>>
        BY <1>3 DEF Broken
  <2>2. RowsFromPasswd' /\ UNCHANGED <<abandoned, listed>>
        BY <1>1 DEF IInv, RowsFromPasswd, ghosts
  <2>3. Types'
        BY <1>1, <1>3, <2>2, WorkerTypes DEF IInv, Types, TypeOK, Statuses
  <2>4. \A d \in Conns \ {c} : wst'[d] = wst[d]
        BY <1>3 DEF IInv, Types, TypeOK
  <2>5. Unread(c)'
        BY <1>3, <2>1 DEF Unread
  <2> QED
      BY <1>1, <1>3, <2>1, <2>2, <2>3, <2>4, <2>5, ClientStays, ConnStep
<1> QED
    BY <1>2, <1>3 DEF WorkerInOperation

(* INSERT OR IGNORE of a name under its uid, or under uid 0.               *)
LEMMA AddUserRows ==
  ASSUME IInv, NEW u \in Uids, NEW name \in Names \cup {NoName},
         u # 0 => <<u, name>> \in listed, AddUser(u, name), UNCHANGED listed
  PROVE  rows' \in [Uids -> Names \cup {NoName, Absent}] /\ RowsFromPasswd'
<1>1. rows \in [Uids -> Names \cup {NoName, Absent}] /\ RowsFromPasswd
      BY DEF IInv, Types, TypeOK
<1>2. CASE rows' = [rows EXCEPT ![u] = IF rows[u] = Absent THEN name ELSE rows[u]]
  <2>1. rows' \in [Uids -> Names \cup {NoName, Absent}]
        BY <1>1, <1>2
  <2>2. \A v \in Uids : rows'[v] = rows[v] \/ (v = u /\ rows'[v] = name)
        BY <1>1, <1>2
  <2> QED
      BY <1>1, <2>1, <2>2 DEF RowsFromPasswd
<1>3. CASE rows' = rows
      BY <1>1, <1>3 DEF RowsFromPasswd
<1> QED
    BY <1>2, <1>3 DEF AddUser

(* A turn of the loop of UpdateLocalUsers.                                 *)
LEMMA TurnStep ==
  ASSUME IInv, NEW c \in Conns, wst[c] = "users", NEW q \in Seq(Message), UserList(q, listed),
         rows' \in [Uids -> Names \cup {NoName, Absent}], RowsFromPasswd',
         toS' = [toS EXCEPT ![c] = q], UNCHANGED <<link, toC, wst, fuse, ghosts>>,
         link[c] = "up" => c = cur /\ Dialogue'
  PROVE  IInv'
<1>1. Types
      BY DEF IInv
<1>2. wst' = [wst EXCEPT ![c] = "users"]
      BY <1>1 DEF Types, TypeOK
<1>3. toS' \in [Conns -> Seq(Message)] /\ toS'[c] = q /\ \A d \in Conns \ {c} : toS'[d] = toS[d]
      BY <1>1 DEF Types
<1>4. UNCHANGED <<abandoned, listed>> /\ link'[c] # "free"
      BY <1>1 DEF ghosts, Types, TypeOK
<1>5. Types'
      BY <1>1, <1>2, <1>3, <1>4, WorkerTypes DEF Types, Statuses
<1>6. Unread(c)'
      BY <1>3, <1>4 DEF Unread
<1> QED
    BY <1>3, <1>4, <1>5, <1>6, ClientStays, ConnStep

LEMMA WorkerAddUserStep ==
  ASSUME IInv, NEW c \in Conns, WorkerAddUser(c)
  PROVE  IInv'
<1>1. wst[c] = "users" /\ UNCHANGED <<link, toC, wst, fuse, ghosts>> /\ listed' = listed
      BY DEF WorkerAddUser, ghosts
<1>2. toS[c] \in Seq(Message) /\ Unread(c)
      BY DEF IInv, Types, AllUnread
<1>3. Len(toS[c]) >= 1 /\ toS[c][1].k = "name" => UserList(toS[c], listed)
  <2>1. toS[c] = <<>> => Len(toS[c]) = 0
        OBVIOUS
  <2>2. \A k \in Kinds : toS[c] = <<Msg(k)>> => toS[c][1].k = k
        BY Short, MsgType
  <2> QED
      BY <1>2, <2>1, <2>2 DEF Unread, Kinds
<1>4. CASE /\ Len(toS[c]) >= 2 /\ toS[c][1].k = "name"
           /\ AddUser(toS[c][2].v, toS[c][1].v)
           /\ toS' = [toS EXCEPT ![c] = SubSeq(@, 3, Len(@))]
  <2> DEFINE q == toS[c]
             r == SubSeq(q, 3, Len(q))
  <2>1. Len(q) >= 1 /\ q[1] \in Message /\ q[2] \in Message
        BY <1>2, <1>4
  <2>2. UserList(q, listed)
        BY <1>3, <1>4, <2>1
  <2>3. /\ q[1].v \in Names /\ UidOf(q[2], q[1].v, listed)
        /\ r \in Seq(Message) /\ UserList(r, listed)
        BY <1>2, <1>4, <2>2, UserListRest
  <2>4. q[2].v \in Uids /\ <<q[2].v, q[1].v>> \in listed
        BY <2>3 DEF UidOf, UidMsg
  <2>5. rows' \in [Uids -> Names \cup {NoName, Absent}] /\ RowsFromPasswd'
        BY <1>1, <1>4, <2>3, <2>4, AddUserRows
  <2>6. toS' = [toS EXCEPT ![c] = r]
        BY <1>4
  <2>7. toS'[c] = r
        BY <2>6 DEF IInv, Types
  <2>8. ASSUME link[c] = "up" PROVE c = cur /\ Dialogue'
    <3>1. c = cur /\ (Dialogue \/ LeftOpen)
          BY <1>1, <2>8, Peer
    <3>2. \A m : q # <<m>>
          BY <1>4
    <3>3. q # <<>>
          BY <1>4
    <3>4. pc = "users" /\ Listing
          BY <1>1, <3>1, <3>2, <3>3 DEF Dialogue, LeftOpen, At
    <3>5. q[Len(q)] = Msg("end") /\ toC[c] = <<>>
          BY <3>1, <3>4 DEF Listing
    <3>6. r # <<>> /\ r[Len(r)] = Msg("end")
          BY <1>2, <1>4, <2>2, <3>5, UserListRest
    <3>7. UNCHANGED <<cur, pc, toC, wst>>
          BY <1>1 DEF fuse
    <3> HIDE DEF r, q
    <3>8. Listing'
          BY <1>1, <2>3, <2>7, <3>1, <3>5, <3>6, <3>7 DEF Listing
    <3> QED
        BY <3>1, <3>4, <3>7, <3>8 DEF Dialogue
  <2> HIDE DEF r, q
  <2> QED
      BY <1>1, <2>3, <2>5, <2>6, <2>8, TurnStep
<1>5. CASE /\ link[c] = "down" /\ Len(toS[c]) = 1 /\ toS[c][1].k = "name"
           /\ AddUser(0, toS[c][1].v)
           /\ toS' = [toS EXCEPT ![c] = <<>>]
  <2>1. UserList(toS[c], listed)
        BY <1>3, <1>5
  <2>2. toS[c][1].v \in Names /\ 0 \in Uids
        BY <1>5, <2>1 DEF UserList, Uids
  <2>3. rows' \in [Uids -> Names \cup {NoName, Absent}] /\ RowsFromPasswd'
        BY <1>1, <1>5, <2>2, AddUserRows
  <2>4. UserList(<<>>, listed) /\ <<>> \in Seq(Message)
        BY DEF UserList
  <2> QED
      BY <1>1, <1>5, <2>3, <2>4, TurnStep
<1> QED
    BY <1>4, <1>5 DEF WorkerAddUser

LEMMA WorkerEndUsersStep ==
  ASSUME IInv, NEW c \in Conns, WorkerEndUsers(c)
  PROVE  IInv'
<1>1. /\ wst[c] = "users" /\ UNCHANGED <<rows, fuse, ghosts>>
      /\ Arrives(c, toS, "end") /\ Answer(c, <<Msg("OK")>>, "wait")
      BY DEF WorkerEndUsers
<1>2. toS[c] # <<>> /\ Tail(toS[c]) = <<>>
      BY <1>1, OnlyMessage
<1>3. ASSUME link[c] = "up" PROVE c = cur /\ Dialogue'
  <2>1. c = cur /\ (Dialogue \/ LeftOpen)
        BY <1>1, <1>3, Peer
  <2>2. \A k \in {"op", "UpdateLocalUsers"} : toS[c] # <<Msg(k)>>
        BY <1>1, MsgType, Short DEF Arrives
  <2>3. pc = "users" /\ toC[c] = <<>>
        BY <1>1, <1>2, <2>1, <2>2 DEF Dialogue, LeftOpen, At, Listing
  <2>4. toS'[c] = <<>> /\ wst'[c] = "wait" /\ toC'[c] = <<Msg("OK")>>
        BY <1>1, <1>2, <1>3, <2>3, OneAnswer
  <2>5. UNCHANGED <<cur, pc>>
        BY <1>1 DEF fuse
  <2> QED
      BY <2>1, <2>3, <2>4, <2>5 DEF Dialogue, At
<1> QED
    BY <1>1, <1>2, <1>3, Replies, AnswerStep DEF Statuses

LEMMA WorkerUsersForeverStep ==
  ASSUME IInv, NEW c \in Conns, WorkerUsersForever(c)
  PROVE  IInv'
<1>1. /\ wst[c] = "users" /\ link[c] = "down" /\ AddUser(0, NoName)
      /\ toS' = [toS EXCEPT ![c] = <<>>] /\ UNCHANGED <<link, toC, wst, fuse, ghosts>>
      /\ listed' = listed
      BY DEF WorkerUsersForever, ghosts
<1>2. rows' \in [Uids -> Names \cup {NoName, Absent}] /\ RowsFromPasswd'
      BY <1>1, AddUserRows DEF Uids
<1>3. UserList(<<>>, listed) /\ <<>> \in Seq(Message)
      BY DEF UserList
<1> QED
    BY <1>1, <1>2, <1>3, TurnStep

-----------------------------------------------------------------------------
(* FuseClient.                                                             *)

LEMMA ClientTypes ==
  ASSUME Types, UNCHANGED <<link, wst, rows, cur>>, pc' \in Places,
         call' \in {"none", "mount", "sync", "op"}, retry' \in 0..maxRetryCount,
         toS' \in [Conns -> Seq(Message)], toC' \in [Conns -> Seq(Message)],
         pc' \in {"connect", "hello", "share"} => retry' < maxRetryCount,
         listed' \subseteq Nat \X Names
  PROVE  Types'
  BY DEF Types, TypeOK, Waiting, Places

(* A step of FuseClient on its connection, which is up.                    *)
LEMMA OwnStep ==
  ASSUME IInv, cur # 0, link[cur] = "up", Types',
         UNCHANGED <<link, wst, rows, cur>>, listed \subseteq listed',
         \A d \in Conns \ {cur} : toS'[d] = toS[d] /\ toC'[d] = toC[d],
         Unread(cur)', (Dialogue \/ LeftOpen)'
  PROVE  IInv'
<1>1. cur \in Conns
      BY DEF IInv, Types, TypeOK, Conns
<1>2. HasConn' /\ RowsFromPasswd'
      BY DEF IInv, HasConn, RowsFromPasswd
<1> QED
    BY <1>1, <1>2, ConnStep

(* Where the connection is down or there is none, and where it is up.      *)
LEMMA Own ==
  ASSUME IInv
  PROVE  /\ Types /\ cur \in {0} \cup Conns /\ 0 \notin Conns
         /\ Waiting \/ pc = "ready" => cur # 0
         /\ cur # 0 /\ link[cur] # "up" => link[cur] = "down"
         /\ cur # 0 /\ link[cur] = "up" => Dialogue \/ LeftOpen
         /\ pc \in {"off", "connect"} => (cur # 0 => link[cur] = "down")
         /\ listed \subseteq Nat \X Names
<1>1. Types /\ cur \in {0} \cup Conns /\ 0 \notin Conns
      BY SessionAssumption DEF IInv, Types, TypeOK, Conns
<1>2. cur # 0 /\ link[cur] # "up" => link[cur] = "down"
      BY <1>1 DEF IInv, Unused, Types, TypeOK
<1>3. cur # 0 /\ link[cur] = "up" => Dialogue \/ LeftOpen
      BY DEF IInv, Talk
<1>4. pc \in {"off", "connect"} => ~Dialogue /\ ~LeftOpen
      BY DEF Dialogue, LeftOpen
<1> QED
    BY <1>1, <1>2, <1>3, <1>4 DEF IInv, HasConn, Types, TypeOK

LEMMA StartStep ==
  ASSUME IInv, Start
  PROVE  IInv'
<1>1. /\ pc = "off" /\ pc' = "init" /\ call' = "mount"
      /\ UNCHANGED <<link, wst, toS, toC, rows, cur, retry, listed>>
      BY DEF Start, conn
<1>2. Types'
      BY <1>1, ClientTypes, Own DEF Types, TypeOK, Places
<1>3. HasConn'
      BY <1>1 DEF HasConn, Waiting
<1> QED
    BY <1>1, <1>2, <1>3, Own, AloneStep

(* A call, and initSocket on a connection that is up.                      *)
LEMMA SameChannels ==
  ASSUME IInv, cur # 0, link[cur] = "up",
         UNCHANGED <<link, wst, toS, toC, rows, cur, retry, abandoned, listed>>,
         pc \in {"init", "idle"}, pc' \in {"init", "ready"},
         call' \in {"none", "mount", "sync", "op"}
  PROVE  IInv'
<1>1. Types'
      BY ClientTypes, Own DEF Types, TypeOK, Places
<1>2. Unread(cur)'
      BY Own DEF IInv, AllUnread, Unread
<1>3. (Dialogue \/ LeftOpen)'
      BY Own DEF Dialogue, LeftOpen, At
<1> QED
    BY <1>1, <1>2, <1>3, OwnStep

LEMMA FsCallStep ==
  ASSUME IInv, FsCall
  PROVE  IInv'
<1>1. /\ pc = "idle" /\ pc' = "init" /\ call' = "op"
      /\ UNCHANGED <<link, wst, toS, toC, rows, cur, retry, abandoned, listed>>
      BY DEF FsCall, conn
<1>2. CASE cur # 0 /\ link[cur] = "up"
      BY <1>1, <1>2, SameChannels
<1>3. CASE cur # 0 => link[cur] = "down"
  <2>1. Types'
        BY <1>1, ClientTypes, Own DEF Types, TypeOK, Places
  <2>2. HasConn'
        BY <1>1 DEF HasConn, Waiting
  <2> QED
      BY <1>1, <1>3, <2>1, <2>2, AloneStep
<1> QED
    BY <1>2, <1>3, Own

LEMMA InitSocketStep ==
  ASSUME IInv, InitSocket
  PROVE  IInv'
<1>1. pc = "init" /\ UNCHANGED <<link, wst, toS, toC, rows, cur, abandoned, listed>>
      BY DEF InitSocket, conn, ghosts
<1>2. CASE cur # 0 /\ link[cur] = "up"
  <2>1. /\ pc' \in {"init", "ready"} /\ UNCHANGED retry
        /\ call' \in {call, "sync"}
        BY <1>2 DEF InitSocket, Connected
  <2>2. call' \in {"none", "mount", "sync", "op"}
        BY <2>1, Own DEF Types, TypeOK
  <2> QED
      BY <1>1, <1>2, <2>1, <2>2, SameChannels
<1>3. CASE ~(cur # 0 /\ link[cur] = "up")
  <2>1. pc' = "connect" /\ retry' = 0 /\ UNCHANGED call
        BY <1>3 DEF InitSocket
  <2>2. 0 \in 0..maxRetryCount /\ 0 < maxRetryCount
        BY SessionAssumption
  <2>3. Types'
        BY <1>1, <2>1, <2>2, ClientTypes, Own DEF Types, TypeOK, Places
  <2>4. HasConn'
        BY <2>1 DEF HasConn, Waiting
  <2> QED
      BY <1>1, <1>3, <2>3, <2>4, Own, AloneStep
<1> QED
    BY <1>2, <1>3

(* An attempt failed, on a connection that is gone or was never made.      *)
LEMMA RetryStep ==
  ASSUME IInv, Retry, pc \in {"connect", "hello", "share"},
         UNCHANGED <<link, wst, toS, rows, cur, listed>>,
         toC' \in [Conns -> Seq(Message)], \A d \in Conns \ {cur} : toC'[d] = toC[d],
         cur # 0 => link[cur] = "down"
  PROVE  IInv'
<1>1. retry < maxRetryCount /\ retry \in 0..maxRetryCount
      BY DEF IInv, Types, TypeOK
<1>2. retry' \in 0..maxRetryCount /\ (pc' = "connect" => retry' < maxRetryCount)
      BY <1>1, SessionAssumption DEF Retry
<1>3. pc' \in {"connect", "off", "idle"} /\ UNCHANGED call
      BY DEF Retry
<1>4. Types'
      BY <1>2, <1>3, ClientTypes, Own DEF Types, TypeOK, Places
<1>5. HasConn'
      BY <1>3 DEF HasConn, Waiting
<1> QED
    BY <1>4, <1>5, AloneStep

LEMMA ConnectFailsStep ==
  ASSUME IInv, ConnectFails
  PROVE  IInv'
  BY RetryStep, Own DEF ConnectFails, conn, ghosts, Types

LEMMA ConnectStep ==
  ASSUME IInv, NEW c \in Conns, Connect(c)
  PROVE  IInv'
<1>1. /\ pc = "connect" /\ link[c] = "free" /\ pc' = "hello" /\ cur' = c
      /\ UNCHANGED <<toC, rows, call, retry, listed>>
      BY DEF Connect, ghosts
<1>2. Types /\ (cur # 0 => link[cur] = "down") /\ c # cur
      BY <1>1, Own
<1>3. /\ link' = [link EXCEPT ![c] = "up"] /\ wst' = [wst EXCEPT ![c] = "hello"]
      /\ toS' = [toS EXCEPT ![c] = <<Msg("Hello")>>]
      BY DEF Connect
<1>4. <<Msg("Hello")>> \in Seq(Message)
      BY Replies DEF Kinds
<1>5. /\ link'[c] = "up" /\ wst'[c] = "hello" /\ toS'[c] = <<Msg("Hello")>>
      /\ toS' \in [Conns -> Seq(Message)]
      /\ \A d \in Conns \ {c} : link'[d] = link[d] /\ wst'[d] = wst[d] /\ toS'[d] = toS[d]
      BY <1>2, <1>3, <1>4 DEF Types, TypeOK
<1>6. Types'
  <2>1. link' \in [Conns -> {"free", "up", "down"}] /\ wst' \in [Conns -> Statuses]
        BY <1>2, <1>3 DEF Types, TypeOK, Statuses
  <2>2. \A d \in Conns : link'[d] = "free" <=> wst'[d] = "none"
        BY <1>2, <1>5 DEF Types, TypeOK
  <2>3. cur' \in 0..MaxConns
        BY <1>1, SessionAssumption DEF Conns
  <2> QED
      BY <1>1, <1>2, <1>5, <2>1, <2>2, <2>3 DEF Types, TypeOK, Waiting, Statuses
<1>7. Unused'
      BY <1>1, <1>5 DEF IInv, Unused
<1>8. HasConn'
      BY <1>1, Own DEF HasConn
<1>9. AllUnread'
      BY <1>1, <1>5 DEF IInv, AllUnread, Unread, Kinds
<1>10. Talk'
      BY <1>1, <1>5 DEF IInv, Unused, Talk, Dialogue, At
<1>11. Guests'
      BY <1>1, <1>2, <1>5, Own DEF IInv, Guests, GuestAt
<1>12. RowsFromPasswd'
      BY <1>1 DEF IInv, RowsFromPasswd
<1> QED
    BY <1>6, <1>7, <1>8, <1>9, <1>10, <1>11, <1>12 DEF IInv

(* FuseClient reads a message, and sends ms if the connection is up.       *)
LEMMA ReadFacts ==
  ASSUME IInv, cur \in Conns, toC[cur] # <<>>, toC' = Received(toC, cur)
  PROVE  /\ toC' \in [Conns -> Seq(Message)] /\ toC'[cur] = Tail(toC[cur])
         /\ \A d \in Conns \ {cur} : toC'[d] = toC[d]
<1>1. Tail(toC[cur]) \in Seq(Message)
      BY DEF IInv, Types
<1> QED
    BY <1>1 DEF IInv, Types, Received

LEMMA SendFacts ==
  ASSUME IInv, cur \in Conns, NEW ms \in Seq(Message), toS' = Sent(toS, cur, ms)
  PROVE  /\ toS' \in [Conns -> Seq(Message)]
         /\ link[cur] = "up" => toS'[cur] = toS[cur] \o ms
         /\ link[cur] # "up" => toS' = toS
         /\ \A d \in Conns \ {cur} : toS'[d] = toS[d]
<1>1. toS[cur] \in Seq(Message) /\ toS[cur] \o ms \in Seq(Message)
      BY DEF IInv, Types
<1>2. link[cur] # "up" => toS' = toS
      BY DEF IInv, Types, Sent
<1> QED
    BY <1>1, <1>2 DEF IInv, Types, Sent

(* What FuseClient finds on a connection that is up is the answer to what  *)
(* it sent.                                                                *)
LEMMA Answered ==
  ASSUME IInv, cur \in Conns, link[cur] = "up", NEW k, Arrives(cur, toC, k)
  PROVE  /\ Dialogue /\ toS[cur] = <<>> /\ toC[cur] = <<Msg(k)>> /\ Tail(toC[cur]) = <<>>
         /\ pc = "hello" => k = "Hello" /\ wst[cur] = "share"
         /\ pc = "share" => k = "OK" /\ wst[cur] = "wait"
         /\ pc = "ok" => k = "OK" /\ wst[cur] = IF call = "sync" THEN "users" ELSE "op"
         /\ pc \in {"result", "users"} => wst[cur] = "wait"
<1>1. Dialogue \/ LeftOpen
      BY Own
<1>2. toC[cur] # <<>> /\ Head(toC[cur]).k = k
      BY DEF Arrives
<1>3. Dialogue
      BY <1>1, <1>2 DEF LeftOpen, At
<1>4. \A l : toC[cur] = <<Msg(l)>> => k = l /\ Tail(toC[cur]) = <<>>
      BY <1>2, MsgType, Short
<1>5. \/ pc = "hello" /\ At("share", <<>>, <<Msg("Hello")>>)
      \/ pc = "share" /\ At("wait", <<>>, <<Msg("OK")>>)
      \/ pc = "ok" /\ At(IF call = "sync" THEN "users" ELSE "op", <<>>, <<Msg("OK")>>)
      \/ pc = "result" /\ At("wait", <<>>, <<Msg("result")>>)
      \/ pc = "users" /\ At("wait", <<>>, <<Msg("OK")>>)
      BY <1>2, <1>3 DEF Dialogue, At, Listing
<1> QED
    BY <1>3, <1>4, <1>5 DEF At

LEMMA ReadHelloStep ==
  ASSUME IInv, ReadHello
  PROVE  IInv'
<1>1. pc = "hello" /\ UNCHANGED <<link, wst, rows, cur, abandoned, listed>>
      BY DEF ReadHello, ghosts
<1>2. cur \in Conns /\ cur # 0 /\ (link[cur] = "up" \/ link[cur] = "down")
      BY <1>1, Own DEF Waiting
<1>3. CASE /\ Arrives(cur, toC, "Hello") /\ toC' = Received(toC, cur)
           /\ toS' = Sent(toS, cur, <<Msg("Share")>>)
           /\ pc' = "share" /\ UNCHANGED <<call, retry>>
  <2>1. toC[cur] # <<>> /\ <<Msg("Share")>> \in Seq(Message)
        BY <1>3, Replies DEF Arrives, Kinds
  <2>2. Types'
        BY <1>1, <1>2, <1>3, <2>1, ClientTypes, ReadFacts, SendFacts, Own
           DEF Types, TypeOK, Places
  <2>3. CASE link[cur] = "up"
    <3>1. /\ wst[cur] = "share" /\ toS[cur] = <<>> /\ Tail(toC[cur]) = <<>>
          BY <1>1, <1>2, <1>3, <2>3, Answered
    <3>2. toS'[cur] = <<Msg("Share")>> /\ toC'[cur] = <<>>
          BY <1>2, <1>3, <2>1, <2>3, <3>1, ReadFacts, SendFacts, Short
    <3>3. Dialogue' /\ Unread(cur)'
          BY <1>1, <1>3, <3>1, <3>2 DEF Dialogue, At, Unread, Kinds
    <3> QED
        BY <1>1, <1>2, <1>3, <2>1, <2>2, <2>3, <3>3, ReadFacts, SendFacts, OwnStep
  <2>4. CASE link[cur] = "down"
    <3>1. toS' = toS /\ HasConn'
          BY <1>1, <1>2, <1>3, <2>1, <2>4, SendFacts DEF HasConn
    <3> QED
        BY <1>1, <1>2, <1>3, <2>1, <2>2, <2>4, <3>1, ReadFacts, AloneStep
  <2> QED
      BY <1>2, <2>3, <2>4
<1>4. CASE Arrives(cur, toC, "Error") /\ Retry /\ toC' = Received(toC, cur) /\ UNCHANGED toS
  <2>1. link[cur] = "down" /\ toC[cur] # <<>>
        BY <1>1, <1>2, <1>4, Answered DEF Arrives
  <2> QED
      BY <1>1, <1>2, <1>4, <2>1, ReadFacts, RetryStep
<1>5. CASE Broken(cur, toC) /\ Retry /\ UNCHANGED <<toS, toC>>
      BY <1>1, <1>5, Own, RetryStep DEF Broken, Types
<1> QED
    BY <1>3, <1>4, <1>5 DEF ReadHello

LEMMA ReadShareStep ==
  ASSUME IInv, ReadShare
  PROVE  IInv'
<1>1. pc = "share" /\ UNCHANGED <<link, toS, wst, rows, cur, abandoned, listed>>
      BY DEF ReadShare, ghosts
<1>2. cur \in Conns /\ cur # 0 /\ (link[cur] = "up" \/ link[cur] = "down")
      BY <1>1, Own DEF Waiting
<1>3. CASE Arrives(cur, toC, "OK") /\ Connected /\ toC' = Received(toC, cur) /\ UNCHANGED retry
  <2>1. toC[cur] # <<>> /\ pc' \in {"init", "ready"} /\ call' \in {call, "sync"}
        BY <1>3 DEF Arrives, Connected
  <2>2. Types'
        BY <1>1, <1>2, <1>3, <2>1, ClientTypes, ReadFacts, Own DEF Types, TypeOK, Places
  <2>3. CASE link[cur] = "up"
    <3>1. /\ wst[cur] = "wait" /\ toS[cur] = <<>> /\ Tail(toC[cur]) = <<>>
          BY <1>1, <1>2, <1>3, <2>3, Answered
    <3>2. toC'[cur] = <<>>
          BY <1>2, <1>3, <2>1, <3>1, ReadFacts
    <3>3. Dialogue' /\ Unread(cur)'
          BY <1>1, <2>1, <3>1, <3>2 DEF Dialogue, At, Unread
    <3> QED
        BY <1>1, <1>2, <1>3, <2>1, <2>2, <2>3, <3>3, ReadFacts, OwnStep
  <2>4. CASE link[cur] = "down"
    <3>1. HasConn'
          BY <1>1, <1>2 DEF HasConn
    <3> QED
        BY <1>1, <1>2, <1>3, <2>1, <2>2, <2>4, <3>1, ReadFacts, AloneStep
  <2> QED
      BY <1>2, <2>3, <2>4
<1>4. CASE Arrives(cur, toC, "Error") /\ Retry /\ toC' = Received(toC, cur)
  <2>1. link[cur] = "down" /\ toC[cur] # <<>>
        BY <1>1, <1>2, <1>4, Answered DEF Arrives
  <2> QED
      BY <1>1, <1>2, <1>4, <2>1, ReadFacts, RetryStep
<1>5. CASE Broken(cur, toC) /\ Retry /\ UNCHANGED toC
      BY <1>1, <1>5, Own, RetryStep DEF Broken, Types
<1> QED
    BY <1>3, <1>4, <1>5 DEF ReadShare

LEMMA SendOperationStep ==
  ASSUME IInv, SendOperation
  PROVE  IInv'
<1>1. /\ pc = "ready" /\ pc' = "ok"
      /\ UNCHANGED <<link, toC, wst, rows, cur, call, retry, abandoned, listed>>
      /\ toS' = Sent(toS, cur, <<Msg(Operation)>>)
      BY DEF SendOperation, ghosts, Operation
<1>2. cur \in Conns /\ cur # 0 /\ (link[cur] = "up" \/ link[cur] = "down")
      BY <1>1, Own
<1>3. Operation \in {"op", "UpdateLocalUsers"} /\ <<Msg(Operation)>> \in Seq(Message)
      BY Replies DEF Kinds, Operation
<1>4. Types'
      BY <1>1, <1>2, <1>3, ClientTypes, SendFacts, Own DEF Types, TypeOK, Places
<1>5. CASE link[cur] = "up"
  <2>1. (Dialogue \/ LeftOpen) /\ toS[cur] = <<>> /\ toC[cur] = <<>>
        BY <1>1, <1>2, <1>5, Own DEF Dialogue, LeftOpen, At
  <2>2. toS'[cur] = <<Msg(Operation)>>
        BY <1>1, <1>2, <1>3, <1>5, <2>1, SendFacts, Short
  <2>3. Unread(cur)'
        BY <1>1, <1>3, <2>2 DEF Unread, Kinds
  <2>4. CASE Dialogue
    <3>1. wst[cur] = "wait" /\ Operation' = Operation
          BY <1>1, <2>4 DEF Dialogue, At, Operation
    <3>2. Dialogue'
          BY <1>1, <2>1, <2>2, <3>1 DEF Dialogue, At
    <3> QED
        BY <1>1, <1>2, <1>3, <1>4, <1>5, <2>3, <3>2, SendFacts, OwnStep
  <2>5. CASE LeftOpen
    <3>1. LeftOpen'
          BY <1>1, <1>3, <2>1, <2>2, <2>5 DEF LeftOpen, At
    <3> QED
        BY <1>1, <1>2, <1>3, <1>4, <1>5, <2>3, <3>1, SendFacts, OwnStep
  <2> QED
      BY <2>1, <2>4, <2>5
<1>6. CASE link[cur] = "down"
  <2>1. toS' = toS /\ HasConn'
        BY <1>1, <1>2, <1>3, <1>6, SendFacts DEF HasConn
  <2> QED
      BY <1>1, <1>2, <1>4, <1>6, <2>1, AloneStep
<1> QED
    BY <1>2, <1>5, <1>6

LEMMA ReadOkStep ==
  ASSUME IInv, ReadOk
  PROVE  IInv'
<1>1. pc = "ok" /\ UNCHANGED <<link, wst, rows, cur, call, retry>>
      BY DEF ReadOk
<1>2. cur \in Conns /\ cur # 0 /\ (link[cur] = "up" \/ link[cur] = "down")
      BY <1>1, Own DEF Waiting
<1>3. <<Msg("args")>> \in Seq(Message)
      BY Replies DEF Kinds
<1>4. ASSUME Arrives(cur, toC, "OK"), toC' = Received(toC, cur),
             (\E ms \in Seq(Message) : toS' = Sent(toS, cur, ms)) \/ toS' = toS,
             listed \subseteq listed', listed' \subseteq Nat \X Names,
             pc' \in {"result", "users", "idle"},
             link[cur] = "up" => Unread(cur)' /\ (Dialogue \/ LeftOpen)'
      PROVE  IInv'
  <2>1. toC[cur] # <<>>
        BY <1>4 DEF Arrives
  <2>2. /\ toS' \in [Conns -> Seq(Message)] /\ \A d \in Conns \ {cur} : toS'[d] = toS[d]
        /\ link[cur] = "down" => toS' = toS
        BY <1>2, <1>4, SendFacts DEF IInv, Types
  <2>3. Types'
        BY <1>1, <1>2, <1>4, <2>1, <2>2, ClientTypes, ReadFacts, Own DEF Types, TypeOK, Places
  <2>4. HasConn'
        BY <1>1, <1>2 DEF HasConn
  <2> QED
      BY <1>1, <1>2, <1>4, <2>1, <2>2, <2>3, <2>4, ReadFacts, OwnStep, AloneStep
<1>5. ASSUME Arrives(cur, toC, "OK"), toC' = Received(toC, cur), link[cur] = "up"
      PROVE  /\ toS[cur] = <<>> /\ toC'[cur] = <<>>
             /\ wst[cur] = IF call = "sync" THEN "users" ELSE "op"
      BY <1>1, <1>2, <1>5, Answered, ReadFacts DEF Arrives
<1>6. CASE /\ Arrives(cur, toC, "OK") /\ toC' = Received(toC, cur)
           /\ call = "op" /\ pc' = "result" /\ toS' = Sent(toS, cur, <<Msg("args")>>)
           /\ UNCHANGED listed
  <2>1. ASSUME link[cur] = "up" PROVE Unread(cur)' /\ Dialogue'
    <3>1. toS[cur] = <<>> /\ toC'[cur] = <<>> /\ wst[cur] = "op"
          BY <1>5, <1>6, <2>1
    <3>2. toS'[cur] = toS[cur] \o <<Msg("args")>>
          BY <1>2, <1>3, <1>6, <2>1, SendFacts
    <3>3. toS'[cur] = <<Msg("args")>>
          BY <3>1, <3>2, Short
    <3> QED
        BY <1>1, <1>6, <3>1, <3>3 DEF Dialogue, At, Unread, Kinds
  <2> QED
      BY <1>3, <1>4, <1>6, <2>1, Own
<1>7. ASSUME Arrives(cur, toC, "OK"), toC' = Received(toC, cur),
             call = "sync", pc' = "users",
             NEW p \in Passwds, toS' = Sent(toS, cur, PasswdMsgs(p)),
             listed' = listed \cup ToSet(p)
      PROVE  IInv'
  <2>1. /\ PasswdMsgs(p) \in Seq(Message) /\ PasswdMsgs(p) # <<>>
        /\ PasswdMsgs(p)[Len(PasswdMsgs(p))] = Msg("end")
        /\ listed' \subseteq Nat \X Names
        BY <1>7, PasswdList, Own
  <2>2. UserList(PasswdMsgs(p), listed')
        BY <1>7, PasswdList, UserListGrows
  <2>3. ASSUME link[cur] = "up" PROVE Unread(cur)' /\ Dialogue'
    <3>1. toS[cur] = <<>> /\ toC'[cur] = <<>> /\ wst[cur] = "users"
          BY <1>5, <1>7, <2>3
    <3>2. toS'[cur] = toS[cur] \o PasswdMsgs(p)
          BY <1>2, <1>7, <2>1, <2>3, SendFacts
    <3>3. <<>> \o PasswdMsgs(p) = PasswdMsgs(p)
          BY <2>1, NothingBefore
    <3>4. toS'[cur] = PasswdMsgs(p)
          BY <3>1, <3>2, <3>3
    <3>5. Listing'
          BY <1>1, <2>1, <2>2, <3>1, <3>4 DEF Listing
    <3> QED
        BY <1>1, <1>7, <2>2, <3>1, <3>4, <3>5 DEF Dialogue, Unread
  <2> QED
      BY <1>4, <1>7, <2>1, <2>3
<1>8. CASE /\ Arrives(cur, toC, "OK") /\ toC' = Received(toC, cur)
           /\ call = "sync" /\ pc' = "idle" /\ abandoned' = cur /\ UNCHANGED <<toS, listed>>
  <2>1. ASSUME link[cur] = "up" PROVE Unread(cur)' /\ LeftOpen'
        BY <1>1, <1>5, <1>8, <2>1 DEF LeftOpen, At, Unread
  <2> QED
      BY <1>4, <1>8, <2>1, Own
<1>9. CASE Broken(cur, toC) /\ pc' = "idle" /\ UNCHANGED <<toS, toC, listed>>
  <2>1. Types'
        BY <1>1, <1>9, ClientTypes, Own DEF Types, TypeOK, Places
  <2>2. HasConn'
        BY <1>9 DEF HasConn, Waiting
  <2> QED
      BY <1>1, <1>9, <2>1, <2>2, AloneStep DEF Broken
<1> QED
    BY <1>6, <1>7, <1>8, <1>9 DEF ReadOk

(* The last answer of a call.                                              *)
LEMMA LastAnswer ==
  ASSUME IInv, pc \in {"result", "users"}, pc' \in {"idle", "off"},
         UNCHANGED <<link, toS, wst, rows, cur, call, retry, listed>>,
         \/ Broken(cur, toC) /\ UNCHANGED toC
         \/ /\ pc' = "idle"
            /\ \E k \in {"OK", "result"} : Arrives(cur, toC, k) /\ toC' = Received(toC, cur)
  PROVE  IInv'
<1>1. cur \in Conns /\ cur # 0 /\ (link[cur] = "up" \/ link[cur] = "down")
      BY Own DEF Waiting
<1>2. toC' \in [Conns -> Seq(Message)] /\ \A d \in Conns \ {cur} : toC'[d] = toC[d]
      BY <1>1, ReadFacts DEF Arrives, IInv, Types
<1>3. Types'
      BY <1>2, ClientTypes, Own DEF Types, TypeOK, Places
<1>4. CASE link[cur] = "down"
  <2>1. HasConn'
        BY <1>1 DEF HasConn
  <2> QED
      BY <1>1, <1>2, <1>3, <1>4, <2>1, AloneStep
<1>5. CASE link[cur] = "up"
  <2>1. PICK k : pc' = "idle" /\ Arrives(cur, toC, k) /\ toC' = Received(toC, cur)
        BY <1>5 DEF Broken
  <2>2. toS[cur] = <<>> /\ wst[cur] = "wait" /\ Tail(toC[cur]) = <<>>
        BY <1>1, <1>5, <2>1, Answered
  <2>3. toC'[cur] = <<>>
        BY <1>1, <2>1, <2>2, ReadFacts DEF Arrives
  <2>4. Dialogue' /\ Unread(cur)'
        BY <2>1, <2>2, <2>3 DEF Dialogue, At, Unread
  <2> QED
      BY <1>1, <1>2, <1>3, <1>5, <2>4, OwnStep
<1> QED
    BY <1>1, <1>4, <1>5

LEMMA ReadResultStep ==
  ASSUME IInv, ReadResult
  PROVE  IInv'
  BY LastAnswer DEF ReadResult, ghosts

LEMMA ReadUsersOkStep ==
  ASSUME IInv, ReadUsersOk
  PROVE  IInv'
  BY LastAnswer DEF ReadUsersOk

-----------------------------------------------------------------------------
(* Connections that break, and guests.                                     *)

(* Of what was under way a prefix arrives.                                 *)
LEMMA BreakStep ==
  ASSUME IInv, NEW c \in Conns, Break(c), UNCHANGED <<cur, call, retry, abandoned, listed>>,
         c # cur => UNCHANGED pc, pc' \in {pc, "off"}
  PROVE  IInv'
<1>1. Types /\ Unread(c) /\ toS[c] \in Seq(Message) /\ toC[c] \in Seq(Message)
      BY DEF IInv, AllUnread, Types
<1>2. PICK p \in Prefixes(toS[c]) : toS' = [toS EXCEPT ![c] = p]
      BY DEF Break
<1>3. PICK r \in Prefixes(toC[c]) : toC' = [toC EXCEPT ![c] = r]
      BY DEF Break
<1>4. p \in Seq(Message) /\ r \in Seq(Message)
      BY <1>1, <1>2, <1>3, PrefixType
<1>5. link' = [link EXCEPT ![c] = "down"] /\ UNCHANGED <<wst, rows>> /\ link[c] = "up"
      BY DEF Break
<1>6. /\ link'[c] = "down" /\ toS'[c] = p
      /\ toS' \in [Conns -> Seq(Message)] /\ toC' \in [Conns -> Seq(Message)]
      /\ \A d \in Conns \ {c} : link'[d] = link[d] /\ toS'[d] = toS[d] /\ toC'[d] = toC[d]
      BY <1>1, <1>2, <1>3, <1>4, <1>5 DEF Types, TypeOK
<1>7. Types'
  <2>1. link' \in [Conns -> {"free", "up", "down"}]
        BY <1>1, <1>5 DEF Types, TypeOK
  <2>2. \A d \in Conns : link'[d] = "free" <=> wst'[d] = "none"
        BY <1>1, <1>5, <1>6 DEF Types, TypeOK
  <2> QED
      BY <1>1, <1>5, <1>6, <2>1, <2>2 DEF Types, TypeOK, Waiting
<1>8. HasConn' /\ RowsFromPasswd'
      BY <1>5 DEF IInv, HasConn, Waiting, RowsFromPasswd
<1>9. Unread(c)'
  <2>1. CASE toS[c] = <<>>
        BY <1>2, <1>6, <2>1, PrefixOfShort DEF Unread
  <2>2. CASE \E k \in Kinds : toS[c] = <<Msg(k)>>
    <3>1. PICK k \in Kinds : toS[c] = <<Msg(k)>>
          BY <2>2
    <3>2. p = <<>> \/ p = <<Msg(k)>>
          BY <1>2, <3>1, PrefixOfShort
    <3> QED
        BY <1>6, <3>2 DEF Unread
  <2>3. CASE wst[c] = "users" /\ UserList(toS[c], listed)
        BY <1>1, <1>2, <1>5, <1>6, <2>3, UserListPrefix DEF Unread
  <2> QED
      BY <1>1, <2>1, <2>2, <2>3 DEF Unread
<1> QED
    BY <1>5, <1>6, <1>7, <1>8, <1>9, ConnStep

LEMMA UnmountStep ==
  ASSUME IInv, Unmount
  PROVE  IInv'
<1>1. pc = "idle" /\ pc' = "off" /\ UNCHANGED <<cur, call, retry, abandoned, listed>>
      BY DEF Unmount, ghosts
<1>2. CASE cur # 0 /\ Break(cur)
      BY <1>1, <1>2, Own, BreakStep
<1>3. CASE (cur # 0 => link[cur] = "down") /\ UNCHANGED <<conn, rows>>
  <2>1. UNCHANGED <<link, wst, toS, toC, rows>>
        BY <1>3 DEF conn
  <2>2. Types'
        BY <1>1, <2>1, ClientTypes, Own DEF Types, TypeOK, Places
  <2>3. HasConn'
        BY <1>1 DEF HasConn, Waiting
  <2> QED
      BY <1>1, <1>3, <2>1, <2>2, <2>3, AloneStep
<1> QED
    BY <1>2, <1>3 DEF Unmount

LEMMA GuestStep ==
  ASSUME IInv, NEW c \in Conns, NEW k \in {"HTTP", "Register", "invalid"}, Guest(c, k)
  PROVE  IInv'
<1>1. link[c] = "free" /\ UNCHANGED <<toC, rows, fuse, ghosts>>
      BY DEF Guest
<1>2. Types /\ c # cur
      BY <1>1, Own DEF IInv, Unused
<1>3. /\ link' = [link EXCEPT ![c] = "up"] /\ wst' = [wst EXCEPT ![c] = "hello"]
      /\ toS' = [toS EXCEPT ![c] = <<Msg(k)>>]
      BY DEF Guest
<1>4. <<Msg(k)>> \in Seq(Message) /\ k \in Kinds
      BY Replies DEF Kinds
<1>5. /\ link'[c] = "up" /\ wst'[c] = "hello" /\ toS'[c] = <<Msg(k)>>
      /\ toS' \in [Conns -> Seq(Message)]
      /\ \A d \in Conns \ {c} : link'[d] = link[d] /\ wst'[d] = wst[d] /\ toS'[d] = toS[d]
      BY <1>2, <1>3, <1>4 DEF Types, TypeOK
<1>6. UNCHANGED <<cur, pc, call, retry, abandoned, listed>> /\ HasConn'
      BY <1>1, ClientStays DEF ghosts
<1>7. Types'
  <2>1. link' \in [Conns -> {"free", "up", "down"}] /\ wst' \in [Conns -> Statuses]
        BY <1>2, <1>3 DEF Types, TypeOK, Statuses
  <2>2. \A d \in Conns : link'[d] = "free" <=> wst'[d] = "none"
        BY <1>2, <1>5 DEF Types, TypeOK
  <2> QED
      BY <1>1, <1>2, <1>5, <1>6, <2>1, <2>2 DEF Types, TypeOK, Waiting, Statuses
<1>8. RowsFromPasswd'
      BY <1>1, <1>6 DEF IInv, RowsFromPasswd
<1>9. Unread(c)' /\ GuestAt(c)'
      BY <1>4, <1>5 DEF Unread, GuestAt
<1> QED
    BY <1>1, <1>2, <1>5, <1>6, <1>7, <1>8, <1>9, ConnStep

-----------------------------------------------------------------------------
(* Every step keeps the invariant.                                         *)
LEMMA NextInv == IInv /\ [Next]_vars => IInv'
<1> SUFFICES ASSUME IInv, [Next]_vars PROVE IInv'
    OBVIOUS
<1>1. CASE Start \/ FsCall \/ Unmount \/ InitSocket \/ ConnectFails \/ \E c \in Conns : Connect(c)
      BY <1>1, StartStep, FsCallStep, UnmountStep, InitSocketStep, ConnectFailsStep, ConnectStep
<1>2. CASE ReadHello \/ ReadShare \/ SendOperation \/ ReadOk \/ ReadResult \/ ReadUsersOk
      BY <1>2, ReadHelloStep, ReadShareStep, SendOperationStep, ReadOkStep, ReadResultStep,
         ReadUsersOkStep
<1>3. CASE \E c \in Conns : \/ WorkerHello(c) \/ WorkerNoHello(c) \/ WorkerShare(c)
                            \/ WorkerOperation(c) \/ WorkerInOperation(c)
                            \/ WorkerAddUser(c) \/ WorkerEndUsers(c) \/ WorkerUsersForever(c)
      BY <1>3, WorkerHelloStep, WorkerNoHelloStep, WorkerShareStep, WorkerOperationStep,
         WorkerInOperationStep, WorkerAddUserStep, WorkerEndUsersStep, WorkerUsersForeverStep
<1>4. CASE \E c \in Conns : Drop(c) \/ GuestLeaves(c)
  <2>1. PICK c \in Conns : Drop(c) \/ GuestLeaves(c)
        BY <1>4
  <2>2. Break(c) /\ UNCHANGED <<cur, call, retry, abandoned, listed, pc>>
        BY <2>1 DEF Drop, GuestLeaves, fuse, ghosts
  <2> QED
      BY <2>2, BreakStep
<1>5. CASE \E c \in Conns, k \in {"HTTP", "Register", "invalid"} : Guest(c, k)
      BY <1>5, GuestStep
<1>6. CASE UNCHANGED vars
  <2>1. UNCHANGED <<link, toS, toC, wst, rows, cur, pc, call, retry, abandoned,
                    listed>>
        BY <1>6 DEF vars, conn, fuse, ghosts
  <2>2. Types' /\ Unused' /\ HasConn' /\ RowsFromPasswd'
        BY <2>1 DEF IInv, Types, TypeOK, Waiting, Unused, HasConn, RowsFromPasswd
  <2>3. AllUnread' /\ Guests'
        BY <2>1 DEF IInv, AllUnread, Unread, Guests, GuestAt
  <2>4. Talk'
        BY <2>1 DEF IInv, Talk, Dialogue, LeftOpen, At, Listing, Operation
  <2> QED
      BY <2>2, <2>3, <2>4 DEF IInv
<1> QED
    BY <1>1, <1>2, <1>3, <1>4, <1>5, <1>6 DEF Next

(* The types of the variables, in every reachable state.                   *)
THEOREM SessionTypes == Spec => []TypeOK
<1>1. IInv => TypeOK
      BY DEF IInv, Types
<1> QED
    BY <1>1, InitInv, NextInv, PTL DEF Spec

(* Between two calls the worker waits for an operation and nothing is      *)
(* under way, so the next result answers the next call; and operations run *)
(* on the client's connection only, however often initSocket tried.        *)
THEOREM StaysInStep == Spec => []InStep
<1>1. IInv => InStep
  <2> SUFFICES ASSUME IInv PROVE InStep
      OBVIOUS
  <2>1. ASSUME pc \in {"idle", "ready"}, cur # 0, cur # abandoned, link[cur] = "up"
        PROVE  wst[cur] = "wait" /\ toS[cur] = <<>> /\ toC[cur] = <<>>
        BY <2>1, Own DEF Dialogue, LeftOpen, At
  <2>2. \A c \in Conns \ {cur} : link[c] = "up" => wst[c] \notin {"wait", "op", "users"}
        BY DEF IInv, Guests, GuestAt
  <2> QED
      BY <2>1, <2>2 DEF InStep
<1> QED
    BY <1>1, InitInv, NextInv, PTL DEF Spec

(* Where FuseClient waits for an answer on a connection that is up, its    *)
(* message or the answer is under way.                                     *)
THEOREM NeverBothWait == Spec => []NoMutualWait
<1>1. IInv => NoMutualWait
  <2> SUFFICES ASSUME IInv, Waiting, link[cur] = "up", cur # abandoned
               PROVE  toS[cur] # <<>> \/ toC[cur] # <<>>
      BY DEF NoMutualWait
  <2>1. Dialogue
        BY Own DEF LeftOpen
  <2> QED
      BY <2>1, Short DEF Dialogue, At, Listing, Waiting
<1> QED
    BY <1>1, InitInv, NextInv, PTL DEF Spec

(* Names and uids are paired as /etc/passwd paired them, at this mount or  *)
(* an earlier one, wherever the connection breaks in UpdateLocalUsers;     *)
(* only uid 0 can get another name.                                        *)
THEOREM NamesFromPasswd == Spec => []RowsFromPasswd
<1>1. IInv => RowsFromPasswd
      BY DEF IInv
<1> QED
    BY <1>1, InitInv, NextInv, PTL DEF Spec
=============================================================================
