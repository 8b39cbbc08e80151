------------------------------ MODULE Framing ------------------------------
(***************************************************************************)
(* The bytes of a connection.  Client and worker each know by heart which  *)
(* fields a conversation has, how wide they are and which of them say how  *)
(* long the next one is; nothing in the stream marks where a field begins. *)
(* This module holds both sides' forms, each taken from its own source,    *)
(* and reads with the one what was written with the other.                 *)
(*                                                                         *)
(* A byte is its field, its place in it, the width and the value of the    *)
(* field.  A name has a length in characters (what QString::length counts) *)
(* and one in bytes of UTF-8.  Connections do not break here (see Session).*)
(***************************************************************************)
EXTENDS Integers, Sequences, FiniteSets, SequencesExt

CONSTANTS Names,     \* file names, e-mail addresses, users: [c: characters, b: bytes]
          Lengths,   \* lengths a truncate asks for
          relativeFilePath,  \* QDir's: a name as seen from the mount point
          U32,       \* 2^32 in the code
          StatLen,   \* sizeof(struct stat) and sizeof(struct statvfs)
          MaxCalls   \* bound on the calls after the mount

ASSUME FramingAssumption ==
  /\ Names # {} /\ \A n \in Names : n.c \in Nat \ {0} /\ n.b \in Nat /\ n.c <= n.b
  /\ \E n \in Names : n.c = n.b      \* a text in ASCII
  /\ relativeFilePath \in [Names -> Names]
  /\ Lengths \subseteq Nat /\ U32 \in Nat \ {0}
  /\ StatLen \in Nat \ {0} /\ MaxCalls \in Nat

VARIABLES
  toS, toC,       \* the bytes under way
  cpc,            \* where the client is in the conversation
  call,           \* its call: operation, names, length
  cTodo, cGot,    \* what it still reads of this reply, and what it has read
  ret,            \* what the last call returned
  wst, wop,       \* status and operation of the worker
  wTodo, wGot,    \* what it still reads of this request, and what it has read
  failed,         \* the worker's last operation failed, or a part of it
  lost,           \* the call in which a read got other bytes than those meant, or "none"
  calls

vars == <<toS, toC, cpc, call, cTodo, cGot, ret, wst, wop, wTodo, wGot, failed, lost, calls>>

\* enum Operation, in its order, and the result codes that matter
Operations == << "getattr", "readdir", "open", "read", "access", "readlink", "mknod",
  "mkdir", "unlink", "rmdir", "symlink", "rename", "chmod", "chown", "truncate",
  "utimens", "write", "writebulk", "release", "statfs", "UpdateLocalUsers" >>
Hello == 1
OK == 2
Error == 3
Share == 4
Register == 5
NoCall == [op |-> "none", p |-> CHOOSE n \in Names : TRUE, q |-> CHOOSE n \in Names : TRUE,
           len |-> 0, batch |-> <<>>]

-----------------------------------------------------------------------------
(* What is written: getBytes makes a number into bytes.                    *)
getBytes(f, w, v)    == [i \in 1..w |-> <<f, i, w, v>>]
Text(l, f, w, n)     == getBytes(l, w, n.b) \o getBytes(f, n.b, n.b)
\* QString::length() before QString::toUtf8()
CharText(l, f, w, n) == getBytes(l, w, n.c) \o getBytes(f, n.b, n.b)
Each(s, F(_))        == FlattenSeq([i \in DOMAIN s |-> F(s[i])])
Msg                  == CHOOSE n \in Names : n.c = n.b   \* server texts are ASCII

(* What is read: a field of fixed width, or one whose width an earlier     *)
(* field gave.                                                             *)
Fix(f, w)  == [f |-> f, w |-> w, by |-> "none"]
Var(f, by) == [f |-> f, w |-> 0, by |-> by]
ReadText(l, f, w) == << Fix(l, w), Var(f, l) >>
Copies(n, s)      == FlattenSeq([i \in 1..n |-> s])

Latest(got, f) == LET at == {i \in DOMAIN got : got[i].f = f}
                  IN  got[CHOOSE i \in at : \A j \in at : j <= i].v
Width(it, got) == IF it.by = "none" THEN it.w ELSE Latest(got, it.by)

\* readExactBytes: no byte is read for a length of 0 or less
Enough(s, it, got) == Len(s) >= Width(it, got)
Taken(s, it, got)  == SubSeq(s, 1, Width(it, got))
Rest(s, it, got)   == IF Width(it, got) <= 0 THEN s ELSE SubSeq(s, Width(it, got) + 1, Len(s))
Meant(s, it, got)  ==
  LET t == Taken(s, it, got)
  IN  Width(it, got) > 0 => t = getBytes(it.f, Width(it, got), t[1][4])
Value(s, it, got)  == IF Width(it, got) <= 0 THEN 0 ELSE s[1][4]

-----------------------------------------------------------------------------
(* The client's side of an operation.                                      *)
\* mutant: the length of getattr's path in two bytes, like the others
MutPathWidth(op)  == 2
PathWidth(op)     == IF op = "getattr" THEN 4 ELSE 2
\* mutant: the length in 31 bits
MutSentLength(l)  == l % (U32 \div 2)
SentLength(l)     == l % U32
\* mutant: one more than there are
MutSentCount(b)   == Len(b) + 1
SentCount(b)      == Len(b)
\* the target of a symbolic link is rewritten, any other name is sent as it is
NameSent(k) == IF k.op = "symlink" THEN relativeFilePath[k.p] ELSE k.p
BulkWrite(n) == CharText("pathLen", "path", 2, n) \o getBytes("fd", 4, 0) \o getBytes("size", 8, n.c)
                \o getBytes("offset", 8, 0) \o getBytes("data", n.c, n.c)
LocalUser(n) == Text("userLen", "user", 4, n) \o getBytes("localUid", 4, 0)

ClientArgs(k) ==
  LET uid  == getBytes("uid", 4, 0)
      path == Text("pathLen", "path", PathWidth(k.op), NameSent(k))
      four(f)  == getBytes(f, 4, 0)
      eight(f) == getBytes(f, 8, 0)
  IN CASE k.op \in {"getattr", "readdir", "unlink", "rmdir", "statfs"} -> uid \o path
       [] k.op = "open" -> uid \o path \o four("flags")
       [] k.op = "access" -> uid \o path \o four("mask")
       [] k.op = "readlink" -> uid \o path \o four("bufsize")
       [] k.op \in {"mknod", "mkdir", "chmod"} -> uid \o path \o four("mode")
       [] k.op = "chown" -> uid \o path \o four("owner") \o four("group")
       [] k.op = "truncate" -> uid \o path \o getBytes("length", 4, SentLength(k.len))
       [] k.op = "utimens" -> uid \o path \o eight("asec") \o eight("ansec")
                                  \o eight("msec") \o eight("mnsec")
       [] k.op = "release" -> uid \o path \o four("fd")
       [] k.op = "read" -> uid \o path \o four("fd") \o eight("size") \o eight("offset")
       [] k.op = "write" -> uid \o path \o four("fd") \o getBytes("size", 8, k.q.b)
                                \o eight("offset") \o getBytes("data", k.q.b, k.q.b)
       [] k.op = "writebulk" -> uid \o getBytes("count", 4, SentCount(k.batch)) \o Each(k.batch, BulkWrite)
       [] k.op \in {"symlink", "rename"} -> uid \o path \o Text("path2Len", "path2", 2, k.q)
       [] k.op = "UpdateLocalUsers" -> Each(k.batch, LocalUser) \o getBytes("userLen", 4, -1)

ClientReads(op) ==
  CASE op = "getattr" -> << Fix("res", 4), Fix("stat", StatLen) >>
    [] op = "read" -> << Fix("res", 4), Var("data", "res") >>
    [] op = "readlink" -> << Fix("res", 4), Var("link", "res") >>
    [] op = "statfs" -> << Fix("statvfs", StatLen), Fix("res", 4) >>
    [] op = "UpdateLocalUsers" -> << Fix("code", 1) >>
    [] OTHER -> << Fix("res", 4) >>

\* mutant: the result of rmdir is read and not returned, like readdir's
MutReturned(op, r) == IF op \in {"readdir", "readlink", "rmdir", "UpdateLocalUsers"} THEN 0 ELSE r
\* what the call returns when the result is r
Returned(op, r) ==
  CASE op \in {"readdir", "readlink", "UpdateLocalUsers"} -> 0
    [] op \in {"open", "mknod"} -> IF r > 0 THEN 0 ELSE r
    [] OTHER -> r

(* The worker's side.                                                      *)
WorkerBulk == ReadText("pathLen", "path", 2) \o << Fix("fd", 4), Fix("size", 8), Fix("offset", 8),
                                       Var("data", "size") >>
WorkerReads(op) ==
  LET head == << Fix("uid", 4) >> \o ReadText("pathLen", "path", 2)
  IN CASE op = "getattr" -> << Fix("uid", 4) >> \o ReadText("pathLen", "path", 4)
       [] op \in {"readdir", "unlink", "rmdir", "statfs"} -> head
       [] op = "open" -> head \o << Fix("flags", 4) >>
       [] op = "access" -> head \o << Fix("mask", 4) >>
       [] op = "readlink" -> head \o << Fix("bufsize", 4) >>
       [] op \in {"mknod", "mkdir", "chmod"} -> head \o << Fix("mode", 4) >>
       [] op = "chown" -> head \o << Fix("owner", 4), Fix("group", 4) >>
       [] op = "truncate" -> head \o << Fix("length", 4) >>
       [] op = "utimens" -> head \o << Fix("asec", 8), Fix("ansec", 8), Fix("msec", 8), Fix("mnsec", 8) >>
       [] op = "release" -> head \o << Fix("fd", 4) >>
       [] op = "read" -> head \o << Fix("fd", 4), Fix("size", 8), Fix("offset", 8) >>
       [] op = "write" -> head \o << Fix("fd", 4), Fix("size", 8), Fix("offset", 8), Var("data", "size") >>
       [] op = "writebulk" -> << Fix("uid", 4), Fix("count", 4) >>
       [] op \in {"symlink", "rename"} -> head \o ReadText("path2Len", "path2", 2)
       [] op = "UpdateLocalUsers" -> << Fix("userLen", 4) >>

\* the loops: what reading field f with value v adds to what is to be read
Loops(f, v, op) ==
  CASE f = "count" -> Copies(v, WorkerBulk)
    [] f = "userLen" /\ v # -1 -> << Var("user", "userLen"), Fix("localUid", 4), Fix("userLen", 4) >>
    [] f = "res" /\ op = "readdir" -> Copies(v, ReadText("entryLen", "entry", 4))
    [] f = "code" /\ v = Hello /\ op = "WaitingForHello" -> ReadText("helloLen", "hello", 4) \o ReadText("sysInfoLen", "sysInfo", 4)
    [] f = "code" /\ v = Hello /\ op = "hello" -> ReadText("helloLen", "hello", 4)
    [] f = "code" /\ v = Share -> ReadText("shareLen", "share", 4)
    [] f = "code" /\ v = Error -> ReadText("msgLen", "msg", 4)
    [] f = "code" /\ v = OK /\ op = "regInfo" -> ReadText("msgLen", "msg", 4)
    [] OTHER -> <<>>

\* the reply of an operation with result r on name n (the link, the entries)
Reply(op, r, n) ==
  LET result == getBytes("res", 4, r)
  IN CASE op = "getattr" -> result \o getBytes("stat", StatLen, 0)
       [] op = "readdir" /\ r > 0 -> result \o Copies(r, Text("entryLen", "entry", 4, n))
       [] op = "read" /\ r > 0 -> result \o getBytes("data", r, r)
       [] op = "readlink" /\ r > 0 -> CharText("res", "link", 4, n)
       [] op = "statfs" -> getBytes("statvfs", StatLen, 0) \o result
       [] op = "UpdateLocalUsers" -> getBytes("code", 1, OK)
       [] OTHER -> result

\* mutant: the result of the last write
MutBulkResult(rs) == IF rs = <<>> THEN 0 ELSE IF rs[Len(rs)] < 0 THEN rs[Len(rs)] ELSE 0
\* writebulk goes on after a failed write; the last failure is the result
BulkResult(rs) == LET bad == {i \in DOMAIN rs : rs[i] < 0}
                  IN  IF bad = {} THEN 0 ELSE rs[CHOOSE i \in bad : \A j \in bad : j <= i]

\* whether the operation failed, in part or in whole, and the result that is sent
Results(op, n) ==
  IF op = "writebulk"
    THEN {<<\E i \in DOMAIN rs : rs[i] < 0, BulkResult(rs)>> : rs \in [1..Latest(wGot, "count") -> {-1, 1}]}
    ELSE {<<r < 0, r>> : r \in CASE op = "UpdateLocalUsers" -> {0}
                                [] op = "readdir"  -> {-1, 2}
                                [] op = "readlink" -> {-1, n.c}
                                [] op \in {"read", "write"} -> {-1, 0, n.b}
                                [] op = "open" -> {-1, 1}
                                [] OTHER -> {-1, 0}}

-----------------------------------------------------------------------------
Batches == UNION {[1..i -> Names] : i \in 0..2}
Calls ==
  LET Simple(op) == {[NoCall EXCEPT !.op = op, !.p = n] : n \in Names}
  IN  (UNION {Simple(op) : op \in ToSet(Operations)
                 \ {"writebulk", "UpdateLocalUsers", "symlink", "rename", "write", "truncate"}})
      \cup {[NoCall EXCEPT !.op = "truncate", !.len = l] : l \in Lengths}
      \cup {[NoCall EXCEPT !.op = op, !.p = n, !.q = m] :
               op \in {"symlink", "rename", "write"}, n \in Names, m \in Names}
      \cup {[NoCall EXCEPT !.op = op, !.batch = b] :
               op \in {"writebulk", "UpdateLocalUsers"}, b \in Batches}

Init ==
  /\ toS = <<>> /\ toC = <<>>
  /\ cpc = "start" /\ call = NoCall /\ cTodo = <<>> /\ cGot = <<>> /\ ret = 0
  /\ wst = "WaitingForHello" /\ wop = "none" /\ wTodo = << Fix("code", 1) >> /\ wGot = <<>>
  /\ failed = FALSE /\ lost = "none" /\ calls = 0

\* one call of readExactBytes on each side
ClientRead ==
  /\ lost = "none" /\ cTodo # <<>> /\ Enough(toC, cTodo[1], cGot)
  /\ LET it == cTodo[1]
         v  == Value(toC, it, cGot)
     IN  IF Meant(toC, it, cGot)
           THEN /\ cGot' = Append(cGot, [f |-> it.f, v |-> v])
                /\ cTodo' = Loops(it.f, v, IF cpc = "args" THEN call.op ELSE cpc) \o Tail(cTodo)
                /\ toC' = Rest(toC, it, cGot) /\ UNCHANGED lost
           ELSE /\ lost' = IF cpc = "args" THEN call.op ELSE cpc
                /\ UNCHANGED <<cGot, cTodo, toC>>
  /\ UNCHANGED <<toS, cpc, call, ret, wst, wop, wTodo, wGot, failed, calls>>

WorkerRead ==
  /\ lost = "none" /\ wTodo # <<>> /\ Enough(toS, wTodo[1], wGot)
  /\ LET it == wTodo[1]
         v  == Value(toS, it, wGot)
     IN  IF Meant(toS, it, wGot)
           THEN /\ wGot' = Append(wGot, [f |-> it.f, v |-> v])
                /\ wTodo' = Loops(it.f, v, wst) \o Tail(wTodo)
                /\ toS' = Rest(toS, it, wGot) /\ UNCHANGED lost
           ELSE /\ lost' = IF wst = "InOperation" THEN wop ELSE wst
                /\ UNCHANGED <<wGot, wTodo, toS>>
  /\ UNCHANGED <<toC, cpc, call, cTodo, cGot, ret, wst, wop, failed, calls>>

-----------------------------------------------------------------------------
(* The client between two reads.                                           *)
ClientAt(p) == lost = "none" /\ cpc = p /\ cTodo = <<>>
ClientSays(p, bytes, reads) ==
  /\ cpc' = p /\ toS' = toS \o bytes /\ cTodo' = reads /\ cGot' = <<>>
  /\ UNCHANGED <<toC, wst, wop, wTodo, wGot, failed, lost>>
ClientStops(p) ==
  /\ cpc' = p /\ UNCHANGED <<toS, toC, call, cTodo, cGot, wst, wop, wTodo, wGot, failed, lost, calls>>
Code == << Fix("code", 1) >>

\* initSocket
SayHello ==
  /\ ClientAt("start")
  /\ ClientSays("hello", getBytes("code", 1, Hello) \o Text("helloLen", "hello", 4, Msg)
                           \o Text("sysInfoLen", "sysInfo", 4, Msg), Code)
  /\ UNCHANGED <<call, ret, calls>>
SayShare(n) ==
  /\ ClientAt("hello") /\ Latest(cGot, "code") = Hello
  /\ ClientSays("share", getBytes("code", 1, Share) \o Text("shareLen", "share", 4, n), Code)
  /\ UNCHANGED <<call, ret, calls>>
Mounted ==
  /\ ClientAt("share") /\ Latest(cGot, "code") = OK
  /\ ClientStops("idle") /\ UNCHANGED ret
Refused ==
  /\ cpc \in {"hello", "share", "regAuth", "regInfo"} /\ ClientAt(cpc)
  /\ Latest(cGot, "code") = Error
  /\ ClientStops("refused") /\ UNCHANGED ret

\* RegisterIface
SayRegister ==
  /\ ClientAt("start")
  /\ ClientSays("register", getBytes("code", 1, Register), Code)
  /\ UNCHANGED <<call, ret, calls>>
SayEmail(n) ==
  /\ ClientAt("register")
  /\ call' = [NoCall EXCEPT !.op = "register", !.p = n]
  /\ ClientSays("regAuth", CharText("emailLen", "email", 4, n) \o Text("passLen", "pass", 4, Msg), Code)
  /\ UNCHANGED <<ret, calls>>
SayComputer(n) ==
  /\ ClientAt("regAuth") /\ Latest(cGot, "code") = OK
  /\ ClientSays("regInfo", Text("nameLen", "name", 4, n) \o Text("sysInfoLen", "sysInfo", 4, Msg)
                             \o Text("certLen", "cert", 4, Msg), Code)
  /\ UNCHANGED <<call, ret, calls>>
Registered ==
  /\ ClientAt("regInfo") /\ Latest(cGot, "code") = OK
  /\ ClientStops("registered") /\ UNCHANGED ret

\* the frame of every operation, and syncLocalUsers
Begin(k) ==
  /\ ClientAt("idle") /\ calls < MaxCalls
  /\ call' = k /\ calls' = calls + 1
  /\ ClientSays("op", getBytes("opcode", 2, CHOOSE i \in DOMAIN Operations : Operations[i] = k.op), Code)
  /\ UNCHANGED ret
SendArgs ==
  /\ ClientAt("op") /\ Latest(cGot, "code") = OK
  /\ ClientSays("args", ClientArgs(call), ClientReads(call.op))
  /\ UNCHANGED <<call, ret, calls>>
Return ==
  /\ ClientAt("args")
  /\ ret' = Returned(call.op, IF call.op = "UpdateLocalUsers" THEN 0 ELSE Latest(cGot, "res"))
  /\ ClientStops("idle")

-----------------------------------------------------------------------------
(* The worker between two reads.                                           *)
WorkerAt(s) == lost = "none" /\ wst = s /\ wTodo = <<>>
WorkerSays(s, bytes, reads) ==
  /\ wst' = s /\ toC' = toC \o bytes /\ wTodo' = reads /\ wGot' = <<>>
  /\ UNCHANGED <<toS, cpc, call, cTodo, cGot, ret, lost, calls>>
Fails == getBytes("code", 1, Error) \o Text("msgLen", "msg", 4, Msg)

\* the certificate is looked up before the system information is read
GreetRefused ==
  /\ lost = "none" /\ wst = "WaitingForHello" /\ wGot # <<>> /\ wGot[1].v = Hello
  /\ wTodo \in {<<>>, ReadText("sysInfoLen", "sysInfo", 4)}
  /\ WorkerSays("closed", Fails, <<>>) /\ UNCHANGED <<wop, failed>>
Greet ==
  /\ WorkerAt("WaitingForHello") /\ wGot[1].v = Hello
  /\ WorkerSays("WaitingForShare", getBytes("code", 1, Hello) \o Text("helloLen", "hello", 4, Msg), Code)
  /\ UNCHANGED <<wop, failed>>
GiveShare ==
  /\ WorkerAt("WaitingForShare")
  /\ \/ WorkerSays("WaitingForOperation", getBytes("code", 1, OK), << Fix("opcode", 2) >>)
     \/ WorkerSays("closed", Fails, <<>>)
  /\ UNCHANGED <<wop, failed>>
GetOperation ==
  /\ WorkerAt("WaitingForOperation")
  /\ wop' = Operations[Latest(wGot, "opcode")]
  /\ WorkerSays("InOperation", getBytes("code", 1, OK), WorkerReads(wop'))
  /\ UNCHANGED failed
\* n: the link, an entry, or what was read
Operate(n) ==
  /\ WorkerAt("InOperation")
  /\ \E r \in Results(wop, n) :
       /\ failed' = r[1]
       /\ WorkerSays("WaitingForOperation", Reply(wop, r[2], n), << Fix("opcode", 2) >>)
  /\ UNCHANGED wop
\* handleRegistration
StartRegistration ==
  /\ WorkerAt("WaitingForHello") /\ wGot[1].v = Register
  /\ WorkerSays("registerAuth", getBytes("code", 1, OK),
                ReadText("emailLen", "email", 4) \o ReadText("passLen", "pass", 4))
  /\ UNCHANGED <<wop, failed>>
Authenticate ==
  /\ WorkerAt("registerAuth")
  /\ \/ WorkerSays("registerInfo", getBytes("code", 1, OK),
           ReadText("nameLen", "name", 4) \o ReadText("sysInfoLen", "sysInfo", 4)
             \o ReadText("certLen", "cert", 4))
     \/ WorkerSays("closed", Fails, <<>>)
  /\ UNCHANGED <<wop, failed>>
FileRequest ==
  /\ WorkerAt("registerInfo")
  /\ \/ WorkerSays("closed", getBytes("code", 1, OK) \o Text("msgLen", "msg", 4, Msg), <<>>)
     \/ WorkerSays("closed", Fails, <<>>)
  /\ UNCHANGED <<wop, failed>>

Client == \/ ClientRead \/ SayHello \/ Mounted \/ Refused \/ SayRegister
          \/ Registered \/ SendArgs \/ Return
          \/ \E n \in Names : SayShare(n) \/ SayEmail(n) \/ SayComputer(n)
Worker == \/ WorkerRead \/ GreetRefused \/ Greet \/ GiveShare \/ GetOperation
          \/ StartRegistration \/ Authenticate \/ FileRequest
          \/ \E n \in Names : Operate(n)
Next == Client \/ Worker \/ \E k \in Calls : Begin(k)

\* Neither side stops while it can move.
Spec == Init /\ [][Next]_vars /\ WF_vars(Client) /\ WF_vars(Worker)

-----------------------------------------------------------------------------
TypeOK ==
  /\ \A s \in {toS, toC} : \A i \in DOMAIN s : s[i][2] \in 1..s[i][3] /\ s[i][4] \in Int
  /\ cpc \in {"start", "hello", "share", "idle", "op", "args", "register", "regAuth", "regInfo",
              "registered", "refused"}
  /\ cTodo # <<>> => cpc \notin {"start", "idle", "registered", "refused"}
  /\ call \in Calls \cup {NoCall} \cup {[NoCall EXCEPT !.op = "register", !.p = n] : n \in Names}
  /\ wst \in {"WaitingForHello", "WaitingForShare", "WaitingForOperation", "InOperation",
              "registerAuth", "registerInfo", "closed"}
  /\ wop \in ToSet(Operations) \cup {"none"}
  /\ \A t \in {cTodo, wTodo} : \A i \in DOMAIN t : t[i] = Fix(t[i].f, t[i].w) \/ t[i] = Var(t[i].f, t[i].by)
  /\ \A g \in {cGot, wGot} : \A i \in DOMAIN g : g[i].v \in Int
  /\ ret \in Int /\ failed \in BOOLEAN /\ calls \in 0..MaxCalls

\* A read gets other bytes than those meant for it in three places only, where
\* the number of characters is sent for a text that follows in UTF-8: the paths
\* of a batch (writeBuffer), the target of a link (the worker's readlink) and
\* the e-mail address of a registration, and there only if the text has a
\* character of more than one byte.
Wide(n) == n.c < n.b
OnlyWideTextsLoseStep ==
  lost # "none" =>
    \/ lost = "writebulk" /\ \E i \in DOMAIN call.batch : Wide(call.batch[i])
    \/ lost = "readlink" /\ toC[1][1] = "link" /\ toC[1][3] > Latest(cGot, "res")
    \/ lost = "registerAuth" /\ Wide(call.p)

\* The worker acts on the names that the call was made with, and on its length
\* unless the 32 bits of the field do not hold it.  The one name that is not the
\* caller's is the target of a symbolic link: fs_symlink makes it relative to the
\* mount point, wherever the link is.
AsAsked ==
  WorkerAt("InOperation") /\ wop \notin {"writebulk", "UpdateLocalUsers"} =>
    /\ wop = call.op
    /\ Latest(wGot, "path") = IF wop = "symlink" THEN relativeFilePath[call.p].b ELSE call.p.b
    /\ wop \in {"symlink", "rename"} => Latest(wGot, "path2") = call.q.b
    /\ wop = "write" => Latest(wGot, "data") = call.q.b
    /\ wop = "truncate" /\ call.len < U32 => Latest(wGot, "length") = call.len

\* operations that return 0 whatever happened
Silent == {"readdir", "readlink", "UpdateLocalUsers"}

\* A call returns an error exactly if the worker had one, in any part of the
\* request, except for readdir and readlink, which return 0 whatever happened
\* (and UpdateLocalUsers, whose failures are only logged).
ErrorsReported ==
  cpc = "idle" /\ call.op \notin {"none"} \cup Silent => (ret < 0 <=> failed)

\* Neither side waits for bytes that the other does not send: a conversation
\* comes to an end, unless a read got bytes of another field.
ConversationsEnd ==
  cpc \notin {"start", "idle"} ~> (cpc \in {"idle", "refused", "registered"} \/ lost # "none")

-----------------------------------------------------------------------------
(* The conversation without its bytes.                                     *)
Stage ==
  IF lost # "none" THEN "lost"
  ELSE CASE cpc \in {"start", "hello", "share"} -> "connected"
         [] cpc \in {"register", "regAuth", "regInfo"} -> "registering"
         [] cpc \in {"refused", "registered"} -> "ended"
         [] cpc = "idle" -> "ready"
         [] cpc = "op" \/ (cpc = "args" /\ wst = "InOperation") -> "asked"
         [] OTHER -> "answered"
Asked     == IF cpc \in {"idle", "op", "args"} THEN call ELSE NoCall
Performed == IF Asked # NoCall /\ cpc # "op" /\ wst = "WaitingForOperation" THEN wop ELSE "none"
WideBatch == {k \in Calls : k.op = "writebulk" /\ \E i \in DOMAIN k.batch : Wide(k.batch[i])}
Remote    == INSTANCE RemoteCall WITH
               Requests <- Calls, Nothing <- NoCall, Fragile <- WideBatch,
               FragileReplies <- {"readlink"},
               stage <- Stage, asked <- Asked, performed <- Performed, returned <- ret

\* Without the bytes there are calls, one at a time; the worker performs each
\* once, between its begin and its return and as the operation it was made as,
\* and it returns what came of that.  A place is lost in a batch, a link or a
\* registration only (the frame of every fs_ function, and ReadyToRead).
ImplementsRemoteCall == Remote!Spec
=============================================================================
