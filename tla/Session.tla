------------------------------ MODULE Session ------------------------------
(***************************************************************************)
(* The conversation of a client and the server: FuseClient::initSocket     *)
(* (three attempts of Hello and Share), syncLocalUsers, the calls that     *)
(* follow, and the worker that SSNFSServer starts for every connection     *)
(* (run and the status machine of ReadyToRead).                            *)
(*                                                                         *)
(* A connection carries messages both ways in order.  When it breaks, each *)
(* side still reads what arrived, a prefix of what was sent, and then      *)
(* nothing: readExactBytes returns no bytes, which are read as 0.  While   *)
(* the connection is up a read waits (the limit of readExactBytes, 5000    *)
(* waits of 5 seconds, is taken as never reached).                         *)
(***************************************************************************)
EXTENDS Integers, Sequences, FiniteSets, SequencesExt

CONSTANTS MaxConns,       \* bound on the connections of a behaviour
          MaxDrops,       \* bound on the connections that break
          MaxCalls,       \* bound on the calls after the mount
          MaxMounts,      \* bound on the times the client is started
          maxRetryCount,  \* 3 in the code
          Names,          \* user names
          Passwds,        \* what /etc/passwd may hold: lists of <<uid, name>>
          NoName,         \* the empty user name
          Absent          \* no row

Conns == 1..MaxConns
Uids  == {0} \cup UNION {{e[1] : e \in ToSet(p)} : p \in Passwds}

ASSUME SessionAssumption ==
  /\ MaxConns \in Nat /\ MaxDrops \in Nat /\ MaxCalls \in Nat /\ MaxMounts \in Nat
  /\ maxRetryCount \in Nat \ {0}
  /\ Passwds \subseteq Seq(Nat \X Names)
  /\ NoName \notin Names /\ Absent \notin Names \cup {NoName}

VARIABLES
  link,    \* link[c]: "free", "up" or "down"
  toS,     \* toS[c]: what the worker of c has not read yet
  toC,     \* toC[c]: what the peer of c has not read yet
  wst,     \* wst[c]: the worker's status and, in an operation, which one
  rows,    \* rows[u]: the name that Client_Users has for uid u of this client
  cur,     \* the connection of FuseClient's socket, 0 for none
  pc,      \* what FuseClient does
  call,    \* the caller of initSocket: "mount", "sync" or "op"
  retry,   \* retryCounter
  \* what happened, for the bounds and the properties
  drops, calls, mounts,
  listed,      \* the users that syncLocalUsers has sent, in any mount
  abandoned,   \* the connection on which syncLocalUsers left the operation open, or 0
  asserted     \* Q_ASSERT(res == Common::OK) failed

conn    == <<link, toS, toC, wst>>
counts  == <<drops, calls, mounts>>
ghosts  == <<counts, listed, abandoned, asserted>>
fuse    == <<cur, pc, call, retry>>
vars    == <<conn, rows, fuse, ghosts>>

Init ==
  /\ link = [c \in Conns |-> "free"]
  /\ toS = [c \in Conns |-> <<>>] /\ toC = [c \in Conns |-> <<>>]
  /\ wst = [c \in Conns |-> "none"]
  /\ rows = [u \in Uids |-> Absent]
  /\ cur = 0 /\ pc = "off" /\ call = "none" /\ retry = 0
  /\ drops = 0 /\ calls = 0 /\ mounts = 0
  /\ listed = {} /\ abandoned = 0 /\ asserted = FALSE

(* Messages: result codes, operation codes, arguments and results.         *)
Msg(k)     == [k |-> k, v |-> 0]
NameMsg(n) == [k |-> "name", v |-> n]
UidMsg(u)  == [k |-> "uid", v |-> u]

(* readExactBytes returns a message of kind k, or nothing. *)
Arrives(c, chan, k) == chan[c] # <<>> /\ Head(chan[c]).k = k
Broken(c, chan)     == link[c] = "down" /\ chan[c] = <<>>

Sent(chan, c, ms) == [chan EXCEPT ![c] = IF link[c] = "up" THEN @ \o ms ELSE @]
Received(chan, c) == [chan EXCEPT ![c] = Tail(@)]

-----------------------------------------------------------------------------
(* The worker of connection c.                                             *)

(* It reads one message, answers with ms and goes on in status s. *)
Answer(c, ms, s) ==
  /\ toS' = Received(toS, c)
  /\ toC' = Sent(toC, c, ms)
  /\ wst' = [wst EXCEPT ![c] = s]
  /\ UNCHANGED link

(* It answers and closes the socket: run() leaves its loop. *)
Close(c, ms) ==
  /\ \E s \in Prefixes(Sent(toC, c, ms)[c]) : toC' = [toC EXCEPT ![c] = s]
  /\ toS' = [toS EXCEPT ![c] = <<>>]
  /\ link' = [link EXCEPT ![c] = "down"]
  /\ wst' = [wst EXCEPT ![c] = "ended"]

(* A Hello: no certificate, an error of the database, no such client,      *)
(* other system information, or welcome.                                   *)
WorkerHello(c) ==
  /\ wst[c] = "hello" /\ Arrives(c, toS, "Hello")
  /\ \/ Close(c, <<>>)
     \/ Close(c, <<Msg("Error")>>)
     \/ Answer(c, <<Msg("Hello")>>, "share")
  /\ UNCHANGED <<rows, fuse, ghosts>>

(* Other first messages: a browser is answered by the web panel, a         *)
(* registration leaves `working` set for ever, and nothing or anything     *)
(* else closes the socket.                                                 *)
WorkerNoHello(c) ==
  /\ wst[c] = "hello"
  /\ \/ Arrives(c, toS, "HTTP") /\ Close(c, <<Msg("page")>>)
     \/ Arrives(c, toS, "Register") /\ Answer(c, <<Msg("OK")>>, "registered")
     \/ Arrives(c, toS, "invalid") /\ Close(c, <<>>)
     \/ Broken(c, toS) /\ Close(c, <<>>)
  /\ UNCHANGED <<rows, fuse, ghosts>>

WorkerShare(c) ==
  /\ wst[c] = "share"
  /\ \/ /\ Arrives(c, toS, "Share")
        /\ \/ Close(c, <<>>)
           \/ Close(c, <<Msg("Error")>>)
           \/ Answer(c, <<Msg("OK")>>, "wait")
     \/ Broken(c, toS) /\ Close(c, <<>>)
  /\ UNCHANGED <<rows, fuse, ghosts>>

(* Mutant: the OK is sent with the result of the operation. *)
MutNoOk(c) ==
  /\ wst[c] = "wait"
  /\ \/ Arrives(c, toS, "op") /\ Answer(c, <<>>, "op")
     \/ Arrives(c, toS, "UpdateLocalUsers") /\ Answer(c, <<>>, "users")
     \/ Broken(c, toS) /\ Close(c, <<>>)
  /\ UNCHANGED <<rows, fuse, ghosts>>

(* Mutant: an invalid operation does not close the socket. *)
MutInvalidIgnored(c) ==
  /\ wst[c] = "wait"
  /\ \/ Arrives(c, toS, "op") /\ Answer(c, <<Msg("OK")>>, "op")
     \/ Arrives(c, toS, "UpdateLocalUsers") /\ Answer(c, <<Msg("OK")>>, "users")
     \/ Broken(c, toS) /\ UNCHANGED conn
  /\ UNCHANGED <<rows, fuse, ghosts>>

(* An operation code; none is an InvalidOperation. *)
WorkerOperation(c) ==
  /\ wst[c] = "wait"
  /\ \/ Arrives(c, toS, "op") /\ Answer(c, <<Msg("OK")>>, "op")
     \/ Arrives(c, toS, "UpdateLocalUsers") /\ Answer(c, <<Msg("OK")>>, "users")
     \/ Broken(c, toS) /\ Close(c, <<>>)
  /\ UNCHANGED <<rows, fuse, ghosts>>

(* Mutant: a handler that refuses goes on and sends a second result. *)
MutTwoResults(c) ==
  /\ wst[c] = "op"
  /\ \/ Arrives(c, toS, "args") /\ Answer(c, <<Msg("result"), Msg("result")>>, "wait")
     \/ Broken(c, toS) /\ wst' = [wst EXCEPT ![c] = "wait"] /\ UNCHANGED <<link, toS, toC>>
  /\ UNCHANGED <<rows, fuse, ghosts>>

(* Any operation but UpdateLocalUsers: it runs with what was read of its   *)
(* arguments, all 0 on a broken connection, and sends a result.            *)
WorkerInOperation(c) ==
  /\ wst[c] = "op"
  /\ \/ Arrives(c, toS, "args") /\ Answer(c, <<Msg("result")>>, "wait")
     \/ Broken(c, toS) /\ wst' = [wst EXCEPT ![c] = "wait"] /\ UNCHANGED <<link, toS, toC>>
  /\ UNCHANGED <<rows, fuse, ghosts>>

(* INSERT OR IGNORE, or an error of the database that is logged. *)
AddUser(u, name) ==
  \/ rows' = [rows EXCEPT ![u] = IF @ = Absent THEN name ELSE @]
  \/ UNCHANGED rows

(* One turn of the loop of UpdateLocalUsers: a name and a uid.  A name     *)
(* whose uid did not arrive goes with uid 0.                               *)
WorkerAddUser(c) ==
  /\ wst[c] = "users"
  /\ \/ /\ Len(toS[c]) >= 2 /\ toS[c][1].k = "name"
        /\ AddUser(toS[c][2].v, toS[c][1].v)
        /\ toS' = [toS EXCEPT ![c] = SubSeq(@, 3, Len(@))]
     \/ /\ link[c] = "down" /\ Len(toS[c]) = 1 /\ toS[c][1].k = "name"
        /\ AddUser(0, toS[c][1].v)
        /\ toS' = [toS EXCEPT ![c] = <<>>]
  /\ UNCHANGED <<link, toC, wst, fuse, ghosts>>

(* The loop ends with the length -1. *)
WorkerEndUsers(c) ==
  /\ wst[c] = "users" /\ Arrives(c, toS, "end")
  /\ Answer(c, <<Msg("OK")>>, "wait")
  /\ UNCHANGED <<rows, fuse, ghosts>>

(* The connection broke before the -1: the loop reads the length 0 again   *)
(* and again.  Part of a length (an operation code) is dropped.            *)
WorkerUsersForever(c) ==
  /\ wst[c] = "users" /\ link[c] = "down"
  /\ toS[c] = <<>> \/ toS[c] = <<Msg("op")>>
  /\ AddUser(0, NoName)
  /\ toS' = [toS EXCEPT ![c] = <<>>]
  /\ UNCHANGED <<link, toC, wst, fuse, ghosts>>
-----------------------------------------------------------------------------
(* FuseClient.                                                             *)

(* The process starts: initSocket, syncLocalUsers, then the mount. *)
Start ==
  /\ pc = "off" /\ mounts < MaxMounts
  /\ mounts' = mounts + 1
  /\ pc' = "init" /\ call' = "mount"
  /\ UNCHANGED <<conn, rows, cur, retry, drops, calls, listed, abandoned, asserted>>

(* An application's call of any operation. *)
FsCall ==
  /\ pc = "idle" /\ calls < MaxCalls
  /\ calls' = calls + 1
  /\ pc' = "init" /\ call' = "op"
  /\ UNCHANGED <<conn, rows, cur, retry, drops, mounts, listed, abandoned, asserted>>

(* initSocket returned 0; started() goes on with syncLocalUsers. *)
Connected ==
  IF call = "mount" THEN pc' = "init" /\ call' = "sync" ELSE pc' = "ready" /\ UNCHANGED call

(* initSocket begins: a connection that is up is used. *)
InitSocket ==
  /\ pc = "init"
  /\ IF cur # 0 /\ link[cur] = "up"
     THEN Connected /\ UNCHANGED retry
     ELSE pc' = "connect" /\ retry' = 0 /\ UNCHANGED call
  /\ UNCHANGED <<conn, rows, cur, ghosts>>

(* Mutant: the attempts are not counted. *)
MutRetryForever == pc' = "connect" /\ UNCHANGED <<retry, call>>

(* retryCounter++ and the next attempt; after the last initSocket returns  *)
(* -1: started() exits, and a call returns -ECOMM.                         *)
Retry ==
  /\ retry' = retry + 1
  /\ pc' = IF retry' < maxRetryCount THEN "connect"
           ELSE IF call = "mount" THEN "off" ELSE "idle"
  /\ UNCHANGED call

(* incomingConnection starts a worker; the Hello is sent. *)
Connect(c) ==
  /\ pc = "connect"
  /\ link[c] = "free" /\ \A d \in Conns : d < c => link[d] # "free"
  /\ link' = [link EXCEPT ![c] = "up"]
  /\ wst' = [wst EXCEPT ![c] = "hello"]
  /\ toS' = [toS EXCEPT ![c] = <<Msg("Hello")>>]
  /\ cur' = c /\ pc' = "hello"
  /\ UNCHANGED <<toC, rows, call, retry, ghosts>>

ConnectFails ==
  /\ pc = "connect"
  /\ Retry
  /\ UNCHANGED <<conn, rows, cur, ghosts>>

(* The answer to Hello; the Share is sent. *)
ReadHello ==
  /\ pc = "hello"
  /\ \/ /\ Arrives(cur, toC, "Hello")
        /\ toC' = Received(toC, cur)
        /\ toS' = Sent(toS, cur, <<Msg("Share")>>)
        /\ pc' = "share"
        /\ UNCHANGED <<call, retry>>
     \/ Arrives(cur, toC, "Error") /\ Retry /\ toC' = Received(toC, cur) /\ UNCHANGED toS
     \/ Broken(cur, toC) /\ Retry /\ UNCHANGED <<toS, toC>>
  /\ UNCHANGED <<link, wst, rows, cur, ghosts>>

(* The answer to Share. *)
ReadShare ==
  /\ pc = "share"
  /\ \/ Arrives(cur, toC, "OK") /\ Connected /\ toC' = Received(toC, cur) /\ UNCHANGED retry
     \/ Arrives(cur, toC, "Error") /\ Retry /\ toC' = Received(toC, cur)
     \/ Broken(cur, toC) /\ Retry /\ UNCHANGED toC
  /\ UNCHANGED <<link, toS, wst, rows, cur, ghosts>>

SendOperation ==
  /\ pc = "ready"
  /\ toS' = Sent(toS, cur, <<Msg(IF call = "sync" THEN "UpdateLocalUsers" ELSE "op")>>)
  /\ pc' = "ok"
  /\ UNCHANGED <<link, toC, wst, rows, cur, call, retry, ghosts>>

(* Mutant: a uid goes with the name of the line before. *)
MutLateName(p) ==
  [m \in 1..2 * Len(p) |-> IF m % 2 = 0 THEN UidMsg(p[m \div 2][1])
                          ELSE NameMsg(p[IF m = 1 THEN 1 ELSE (m - 1) \div 2][2])]
    \o <<Msg("end")>>

(* The users of /etc/passwd and the length -1. *)
PasswdMsgs(p) ==
  [m \in 1..2 * Len(p) |-> LET e == p[(m + 1) \div 2]
                          IN  IF m % 2 = 1 THEN NameMsg(e[2]) ELSE UidMsg(e[1])]
    \o <<Msg("end")>>

(* The worker's OK; the arguments are sent, for UpdateLocalUsers what      *)
(* /etc/passwd holds by now.  When it cannot be opened syncLocalUsers      *)
(* returns at once.                                                        *)
ReadOk ==
  /\ pc = "ok"
  /\ \/ /\ Arrives(cur, toC, "OK")
        /\ toC' = Received(toC, cur)
        /\ \/ /\ call = "op" /\ pc' = "result"
              /\ toS' = Sent(toS, cur, <<Msg("args")>>) /\ UNCHANGED <<listed, abandoned>>
           \/ /\ call = "sync" /\ pc' = "users"
              /\ \E p \in Passwds : /\ toS' = Sent(toS, cur, PasswdMsgs(p))
                                    /\ listed' = listed \cup ToSet(p)
              /\ UNCHANGED abandoned
           \/ /\ call = "sync" /\ pc' = "idle"
              /\ abandoned' = cur /\ UNCHANGED <<toS, listed>>
     \/ Broken(cur, toC) /\ pc' = "idle" /\ UNCHANGED <<toS, toC, listed, abandoned>>
  /\ UNCHANGED <<link, wst, rows, cur, call, retry, counts, asserted>>

ReadResult ==
  /\ pc = "result"
  /\ \/ Arrives(cur, toC, "result") /\ toC' = Received(toC, cur)
     \/ Broken(cur, toC) /\ UNCHANGED toC
  /\ pc' = "idle"
  /\ UNCHANGED <<link, toS, wst, rows, cur, call, retry, ghosts>>

(* The end of syncLocalUsers: Q_ASSERT(res == Common::OK), which a release *)
(* build leaves out.                                                       *)
ReadUsersOk ==
  /\ pc = "users"
  /\ \/ /\ Arrives(cur, toC, "OK") /\ toC' = Received(toC, cur)
        /\ pc' = "idle" /\ UNCHANGED asserted
     \/ /\ Broken(cur, toC) /\ UNCHANGED toC
        /\ pc' \in {"idle", "off"} /\ asserted' = TRUE
  /\ UNCHANGED <<link, toS, wst, rows, cur, call, retry, counts, listed, abandoned>>

(* Connection c breaks, or one end closes it. *)
Break(c) ==
  /\ link[c] = "up"
  /\ link' = [link EXCEPT ![c] = "down"]
  /\ \E s \in Prefixes(toS[c]) : toS' = [toS EXCEPT ![c] = s]
  /\ \E s \in Prefixes(toC[c]) : toC' = [toC EXCEPT ![c] = s]
  /\ UNCHANGED <<wst, rows>>

Drop(c) ==
  /\ drops < MaxDrops /\ drops' = drops + 1
  /\ Break(c)
  /\ UNCHANGED <<fuse, calls, mounts, listed, abandoned, asserted>>

(* The share is unmounted and the process ends. *)
Unmount ==
  /\ pc = "idle"
  /\ pc' = "off"
  /\ \/ cur # 0 /\ Break(cur)
     \/ (cur # 0 => link[cur] = "down") /\ UNCHANGED <<conn, rows>>
  /\ UNCHANGED <<cur, call, retry, ghosts>>

(* A browser or a client that registers connects, and leaves. *)
Guest(c, k) ==
  /\ link[c] = "free" /\ \A d \in Conns : d < c => link[d] # "free"
  /\ link' = [link EXCEPT ![c] = "up"]
  /\ wst' = [wst EXCEPT ![c] = "hello"]
  /\ toS' = [toS EXCEPT ![c] = <<Msg(k)>>]
  /\ UNCHANGED <<toC, rows, fuse, ghosts>>

GuestLeaves(c) ==
  /\ c # cur /\ Break(c)
  /\ UNCHANGED <<fuse, ghosts>>

-----------------------------------------------------------------------------
Worker(c) ==
  \/ WorkerHello(c) \/ WorkerNoHello(c) \/ WorkerShare(c)
  \/ WorkerOperation(c) \/ WorkerInOperation(c)
  \/ WorkerAddUser(c) \/ WorkerEndUsers(c) \/ WorkerUsersForever(c)

Client ==
  \/ InitSocket \/ (\E c \in Conns : Connect(c)) \/ ConnectFails
  \/ ReadHello \/ ReadShare
  \/ SendOperation \/ ReadOk \/ ReadResult \/ ReadUsersOk

Next ==
  \/ Start \/ FsCall \/ Unmount
  \/ InitSocket \/ ConnectFails \/ \E c \in Conns : Connect(c)
  \/ ReadHello \/ ReadShare
  \/ SendOperation \/ ReadOk \/ ReadResult \/ ReadUsersOk
  \/ \E c \in Conns :
       \/ WorkerHello(c) \/ WorkerNoHello(c) \/ WorkerShare(c)
       \/ WorkerOperation(c) \/ WorkerInOperation(c)
       \/ WorkerAddUser(c) \/ WorkerEndUsers(c) \/ WorkerUsersForever(c)
       \/ Drop(c) \/ GuestLeaves(c)
  \/ \E c \in Conns, k \in {"HTTP", "Register", "invalid"} : Guest(c, k)

(* The client's thread and every worker's thread run. *)
Fairness == WF_vars(Client) /\ \A c \in Conns : WF_vars(Worker(c))

Spec == Init /\ [][Next]_vars /\ Fairness

-----------------------------------------------------------------------------
Waiting == pc \in {"hello", "share", "ok", "result", "users"}

(* The variables have the types of the code's; a connection that was never *)
(* made has no worker.                                                     *)
TypeOK ==
  /\ link \in [Conns -> {"free", "up", "down"}]
  /\ wst \in [Conns -> {"none", "hello", "share", "wait", "op", "users", "registered", "ended"}]
  /\ \A c \in Conns : link[c] = "free" <=> wst[c] = "none"
  /\ rows \in [Uids -> Names \cup {NoName, Absent}]
  /\ listed \subseteq Nat \X Names
  /\ cur \in 0..MaxConns
  /\ pc \in {"off", "idle", "init", "connect", "ready"} \/ Waiting
  /\ call \in {"none", "mount", "sync", "op"}
  /\ retry \in 0..maxRetryCount

(* Between two calls on a connection that is up, nothing is under way: the *)
(* worker waits for an operation and both directions are empty, so the     *)
(* next result the client reads answers the call it made.  Only a          *)
(* syncLocalUsers that found no /etc/passwd upsets this.  And however      *)
(* often initSocket tried (its sockets are left to deleteLater), no other  *)
(* connection of the client is one on which operations run.                *)
InStep ==
  /\ pc \in {"idle", "ready"} /\ cur # 0 /\ cur # abandoned /\ link[cur] = "up" =>
       wst[cur] = "wait" /\ toS[cur] = <<>> /\ toC[cur] = <<>>
  /\ \A c \in Conns \ {cur} : link[c] = "up" => wst[c] \notin {"wait", "op", "users"}

(* The client and its worker never wait for each other: one of them has a  *)
(* message to read, or the connection broke.                               *)
NoMutualWait ==
  Waiting /\ link[cur] = "up" /\ cur # abandoned => toS[cur] # <<>> \/ toC[cur] # <<>>

(* Client_Users gives a uid of the client only names that /etc/passwd has  *)
(* given it, now or at an earlier mount: connections that broke between a  *)
(* name and its uid, or in a list, do not mix users up.  Only uid 0 can    *)
(* get another one.  That the name is today's is not so: the row of an     *)
(* earlier mount stays when the file has changed (INSERT OR IGNORE).       *)
RowsFromPasswd ==
  \A u \in Uids \ {0} : rows[u] # Absent => <<u, rows[u]>> \in listed

(* Every call returns and every mount settles, because the attempts of     *)
(* initSocket are counted and no read of a broken connection waits.        *)
CallsSettle ==
  pc \notin {"idle", "off"} ~> (pc \in {"idle", "off"} \/ cur = abandoned)

(* The worker of a connection that is gone ends, but for one that handled  *)
(* a registration and one that is in the loop of UpdateLocalUsers.         *)
WorkersEnd ==
  \A c \in Conns : link[c] = "down" ~> wst[c] \in {"ended", "registered", "users"}

(* "Q_ASSERT(res == Common::OK)": UpdateLocalUsers always succeeds. *)
SyncAssertion == ~asserted
=============================================================================
