---------------------------- MODULE Registration ----------------------------
(***************************************************************************)
(* Registration of computers: the client's --register dialogue             *)
(* (registeriface.cpp), the worker's handleRegistration, the web panel's   *)
(* approve_pending, the handshake that looks a certificate up, and the     *)
(* foreign key check of getConfDB when the server starts.                  *)
(*                                                                         *)
(* Every SQL statement is a step of its own: each worker has its own       *)
(* connection to the database and none opens a transaction.  On these      *)
(* connections foreign keys are not enforced: run() only opens the clone,  *)
(* and the pragma of getConfDB counts for the connection it was given on.  *)
(***************************************************************************)
EXTENDS Integers, FiniteSets

CONSTANTS Users, Admins,     \* users, and those with the permission "computers"
          Certs,             \* fingerprints; a computer is named by its own
          Names, Infos, Uids,
          Attempts,          \* the runs of --register, one worker each
          Approvers,         \* the web workers
          Sessions,          \* the connections with a handshake
          MaxClients,        \* bound on the rows ever put into Clients
          MaxStops,          \* bound on the stops of the server
          Empty, None

ASSUME RegistrationAssumption ==
  /\ Admins \subseteq Users
  /\ Empty \notin Certs \cup Names \cup Infos
  /\ None \notin Users
  /\ MaxClients \in Nat /\ MaxStops \in Nat

VARIABLES
  clients,     \* the rows of Clients
  clientSeq,   \* its key counter in sqlite_sequence
  pending,     \* the rows of Pending_Clients
  pendingSeq,
  clientUsers, \* the rows of Client_Users, with the computer that reported them
  reg,         \* reg[a]: what the worker of attempt a holds
  told,        \* told[a]: what the computer of attempt a read
  listening,   \* the attempts whose computer still waits
  app,         \* app[v]: the key approver v has still to delete, or 0
  sess,        \* sess[s]: the clientKey and certificate of a session
  info,        \* info[c]: the system information of computer c
  server,      \* "up", "down" or "refused"
  stops,
  \* history
  accepted,    \* the rows ever put into Pending_Clients
  approved     \* the Pending_Client_Keys that were copied to Clients

db      == <<clients, clientSeq, pending, pendingSeq, clientUsers>>
workers == <<reg, told, listening, app, sess>>
history == <<accepted, approved>>
vars    == <<db, workers, info, server, stops, history>>

Row     == [key : Nat, user : Users, name : Names \cup {Empty},
            cert : Certs \cup {Empty}, info : Infos \cup {Empty}]
Idle    == [at |-> "free", user |-> None, name |-> Empty, cert |-> Empty, info |-> Empty]
NoSess  == [key |-> 0, cert |-> Empty]
Answers == {"none", "password", "registered", "submitted", "internal", "saved"}

Init ==
  /\ clients = {} /\ clientSeq = 0 /\ pending = {} /\ pendingSeq = 0 /\ clientUsers = {}
  /\ reg = [a \in Attempts |-> Idle]
  /\ told = [a \in Attempts |-> "none"] /\ listening = {}
  /\ app = [v \in Approvers |-> 0]
  /\ sess = [s \in Sessions |-> NoSess]
  /\ info \in [Certs -> Infos]
  /\ server = "up" /\ stops = 0
  /\ accepted = {} /\ approved = {}

-----------------------------------------------------------------------------
(* handleRegistration                                                      *)

(* The worker answers, and is never used again; a computer that gave up    *)
(* does not read the answer.                                               *)
Reply(a, m) ==
  /\ reg' = [reg EXCEPT ![a] = [@ EXCEPT !.at = "done"]]
  /\ told' = IF a \in listening THEN [told EXCEPT ![a] = m] ELSE told
  /\ listening' = listening \ {a}

(* A computer connects and sends email and password of u: checkEmailPass.  *)
Connect(a, c, u) ==
  /\ server = "up" /\ reg[a].at = "free"
  /\ \/ /\ reg' = [reg EXCEPT ![a] = [Idle EXCEPT !.at = "done"]]
        /\ told' = [told EXCEPT ![a] = "password"]
        /\ UNCHANGED listening
     \/ /\ reg' = [reg EXCEPT ![a] = [@ EXCEPT !.at = "fields", !.user = u, !.cert = c]]
        /\ listening' = listening \cup {a}
        /\ UNCHANGED told
  /\ UNCHANGED <<db, app, sess, info, server, stops, history>>

(* Any wait of the dialogue may end after 10 seconds, or the user leaves.  *)
GiveUp(a) ==
  /\ a \in listening
  /\ listening' = listening \ {a}
  /\ UNCHANGED <<db, reg, told, app, sess, info, server, stops, history>>

(* The worker reads name, system information and certificate; from a       *)
(* computer that left it reads nothing, three times.                       *)
ReadFields(a) ==
  /\ reg[a].at = "fields"
  /\ \E n \in Names :
       reg' = [reg EXCEPT ![a] =
                 IF a \in listening
                   THEN [@ EXCEPT !.at = "existing", !.name = n, !.info = info[reg[a].cert]]
                   ELSE [@ EXCEPT !.at = "existing", !.cert = Empty]]
  /\ UNCHANGED <<db, told, listening, app, sess, info, server, stops, history>>

(* Mutant: the checks do not compare the system information. *)
MutSameComputer(r, a) == r.user = reg[a].user /\ r.cert = reg[a].cert

SameComputer(r, a) ==
  r.user = reg[a].user /\ r.cert = reg[a].cert /\ r.info = reg[a].info

(* CheckIfExisting and CheckIfSubmitted; a statement may fail. *)
Check(a, at, table, found, next) ==
  /\ reg[a].at = at
  /\ \/ (\E r \in table : SameComputer(r, a)) /\ Reply(a, found)
     \/ Reply(a, "internal")
     \/ /\ ~\E r \in table : SameComputer(r, a)
        /\ reg' = [reg EXCEPT ![a].at = next]
        /\ UNCHANGED <<told, listening>>
  /\ UNCHANGED <<db, app, sess, info, server, stops, history>>

CheckIfExisting(a)  == Check(a, "existing", clients, "registered", "submitted")
CheckIfSubmitted(a) == Check(a, "submitted", pending, "submitted", "insert")

(* A plain INSERT: it fails when the index over user and certificate has   *)
(* the pair, or for any other reason.                                      *)
DoInsert(a) ==
  /\ reg[a].at = "insert"
  /\ \/ /\ ~\E r \in pending : r.user = reg[a].user /\ r.cert = reg[a].cert
        /\ LET row == [key |-> pendingSeq + 1, user |-> reg[a].user, name |-> reg[a].name,
                       cert |-> reg[a].cert, info |-> reg[a].info]
           IN  /\ pending' = pending \cup {row}
               /\ accepted' = accepted \cup {row}
        /\ pendingSeq' = pendingSeq + 1
        /\ Reply(a, "saved")
     \/ /\ Reply(a, "internal")
        /\ UNCHANGED <<pending, pendingSeq, accepted>>
  /\ UNCHANGED <<clients, clientSeq, clientUsers, app, sess, info, server, stops,
                 approved>>

-----------------------------------------------------------------------------
(* approve_pending                                                         *)

(* Mutant: the row is given to the user who approves. *)
MutRowFor(p, u, n) ==
  [key |-> clientSeq + 1, user |-> u, name |-> n, cert |-> p.cert, info |-> p.info]

(* Mutant: the key of a row with the same name is kept. *)
MutRowKeepsKey(p, u, n) ==
  [key |-> IF \E c \in clients : c.user = p.user /\ c.name = n
             THEN (CHOOSE c \in clients : c.user = p.user /\ c.name = n).key
             ELSE clientSeq + 1,
   user |-> p.user, name |-> n, cert |-> p.cert, info |-> p.info]

RowFor(p, u, n) ==
  [key |-> clientSeq + 1, user |-> p.user, name |-> n, cert |-> p.cert, info |-> p.info]

(* INSERT OR REPLACE deletes the rows that either index of Clients has in  *)
(* the way.                                                                *)
InTheWay(row) ==
  {c \in clients : c.user = row.user /\ (c.cert = row.cert \/ c.name = row.name)}

(* User u approves key k, one the panel listed at some time, under the     *)
(* submitted or another name.  No row affected: "The computer was not      *)
(* approved", and nothing changes.                                         *)
Approve(v, u, k) ==
  /\ server = "up" /\ app[v] = 0 /\ clientSeq < MaxClients
  /\ \E p \in pending :
       /\ p.key = k /\ (u \in Admins \/ p.user = u)
       /\ \E n \in Names \cup {p.name} :
            LET row == RowFor(p, u, n)
            IN  clients' = (clients \ InTheWay(row)) \cup {row}
       /\ clientSeq' = clientSeq + 1
       /\ app' = [app EXCEPT ![v] = k]
       /\ approved' = approved \cup {p.key}
  /\ UNCHANGED <<pending, pendingSeq, clientUsers, reg, told, listening, sess, info,
                 server, stops, accepted>>

(* Mutant: the row is deleted by user and certificate. *)
MutDelApproved(v) ==
  /\ app[v] # 0
  /\ \/ pending' = {p \in pending : ~\E q \in accepted :
                      q.key = app[v] /\ q.user = p.user /\ q.cert = p.cert}
     \/ UNCHANGED pending
  /\ app' = [app EXCEPT ![v] = 0]
  /\ UNCHANGED <<clients, clientSeq, pendingSeq, clientUsers, reg, told, listening, sess,
                 info, server, stops, history>>

(* The second statement, which may fail. *)
DelApproved(v) ==
  /\ app[v] # 0
  /\ \/ pending' = {p \in pending : p.key # app[v]}
     \/ UNCHANGED pending
  /\ app' = [app EXCEPT ![v] = 0]
  /\ UNCHANGED <<clients, clientSeq, pendingSeq, clientUsers, reg, told, listening, sess,
                 info, server, stops, history>>

-----------------------------------------------------------------------------
(* The handshake and what is stored under the key it read                  *)

(* The first row with the certificate decides; its system information must *)
(* be what the computer sends.                                             *)
Handshake(s, c) ==
  /\ server = "up" /\ sess[s] = NoSess
  /\ \E r \in clients :
       /\ r.cert = c /\ r.info = info[c]
       /\ sess' = [sess EXCEPT ![s] = [key |-> r.key, cert |-> c]]
  /\ UNCHANGED <<db, reg, told, listening, app, info, server, stops, history>>

(* UpdateLocalUsers: INSERT OR IGNORE with the key of the handshake. *)
AddUser(s, uid) ==
  /\ sess[s] # NoSess
  /\ clientUsers' = clientUsers \cup
       {r \in [key : {sess[s].key}, uid : {uid}, by : {sess[s].cert}] :
          ~\E q \in clientUsers : q.key = r.key /\ q.uid = uid}
  /\ UNCHANGED <<clients, clientSeq, pending, pendingSeq, workers, info, server, stops,
                 history>>

Disconnect(s) ==
  /\ sess[s] # NoSess
  /\ sess' = [sess EXCEPT ![s] = NoSess]
  /\ UNCHANGED <<db, reg, told, listening, app, info, server, stops, history>>

(* New hardware or another host name. *)
ChangeInfo(c) ==
  /\ \E i \in Infos \ {info[c]} : info' = [info EXCEPT ![c] = i]
  /\ UNCHANGED <<db, workers, server, stops, history>>

-----------------------------------------------------------------------------
(* The server stops with all its workers, at any time, and is started.     *)

Stop ==
  /\ server = "up" /\ stops < MaxStops
  /\ server' = "down" /\ stops' = stops + 1
  /\ reg' = [a \in Attempts |-> IF reg[a].at = "free" THEN Idle
                                 ELSE [reg[a] EXCEPT !.at = "done"]]
  /\ app' = [v \in Approvers |-> 0]
  /\ sess' = [s \in Sessions |-> NoSess]
  /\ listening' = {}
  /\ UNCHANGED <<db, told, info, history>>

Orphans == {r \in clientUsers : ~\E c \in clients : c.key = r.key}

(* getConfDB: PRAGMA foreign_key_check. *)
Start ==
  /\ server = "down"
  /\ server' = IF Orphans = {} THEN "up" ELSE "refused"
  /\ UNCHANGED <<db, workers, info, stops, history>>

Next ==
  \/ \E a \in Attempts :
       \/ \E c \in Certs, u \in Users : Connect(a, c, u)
       \/ GiveUp(a) \/ ReadFields(a)
       \/ CheckIfExisting(a) \/ CheckIfSubmitted(a) \/ DoInsert(a)
  \/ \E v \in Approvers :
       \/ \E u \in Users, k \in 1..pendingSeq : Approve(v, u, k)
       \/ DelApproved(v)
  \/ \E s \in Sessions :
       \/ \E c \in Certs : Handshake(s, c)
       \/ \E uid \in Uids : AddUser(s, uid)
       \/ Disconnect(s)
  \/ \E c \in Certs : ChangeInfo(c)
  \/ Stop \/ Start

Spec == Init /\ [][Next]_vars

-----------------------------------------------------------------------------
(* Properties                                                              *)

TypeOK ==
  /\ clients \subseteq Row /\ pending \subseteq Row
  /\ clientSeq \in Nat /\ pendingSeq \in Nat
  /\ clientUsers \subseteq [key : Nat, uid : Uids, by : Certs]
  /\ reg \in [Attempts -> [at : {"free", "fields", "existing", "submitted", "insert", "done"},
                           user : Users \cup {None}, name : Names \cup {Empty},
                           cert : Certs \cup {Empty}, info : Infos \cup {Empty}]]
  /\ told \in [Attempts -> Answers] /\ listening \subseteq Attempts
  /\ app \in [Approvers -> Nat]
  /\ sess \in [Sessions -> [key : Nat, cert : Certs \cup {Empty}]]
  /\ info \in [Certs -> Infos]
  /\ server \in {"up", "down", "refused"} /\ stops \in Nat
  /\ accepted \subseteq Row /\ approved \subseteq Nat

(* A request that was saved is still pending or was approved: no approval  *)
(* that is late, done twice, or cut short by a failed statement or a stop  *)
(* deletes a request that nobody approved (DELETE goes by the key, and     *)
(* AUTOINCREMENT never gives a key out again).                             *)
NoRequestLost == \A r \in accepted : r \in pending \/ r.key \in approved

(* A computer that was told its request is saved, was submitted before or  *)
(* is registered, has had a request accepted for that user, certificate    *)
(* and system information, however often it timed out and tried again.     *)
ToldIsTrue ==
  \A a \in Attempts : told[a] \in {"saved", "submitted", "registered"} =>
     \E r \in accepted :
        r.user = reg[a].user /\ r.cert = reg[a].cert /\ r.info = reg[a].info

(* Every registered computer was submitted by its own user, with this      *)
(* certificate and system information, whoever approved it.                *)
ClientsFromRequests ==
  \A c \in clients : \E r \in accepted :
     r.user = c.user /\ r.cert = c.cert /\ r.info = c.info

(* The local users stored for a registered computer were reported by that  *)
(* computer, though sessions go on under a key whose row was replaced.     *)
RowsFromOwner ==
  \A r \in clientUsers, c \in clients : c.key = r.key => c.cert = r.by

(* The comment at the foreign key check: a violation can only be made by   *)
(* a user who edits the database.  No action here is one, yet it is not    *)
(* so: a computer that is approved again leaves rows under its old key.    *)
StartNeverRefused == server # "refused"
=============================================================================
