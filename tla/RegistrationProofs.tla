------------------------- MODULE RegistrationProofs -------------------------
(***************************************************************************)
(* Registration for any number of users, computers, attempts, approvers    *)
(* and sessions: no saved request is lost, what a computer is told of its  *)
(* request is true, every registered computer was submitted, and the local *)
(* users stored for a computer were reported by it.                        *)
(***************************************************************************)
EXTENDS Registration, TLAPS

Worker == [at : {"free", "fields", "existing", "submitted", "insert", "done"},
           user : Users \cup {None}, name : Names \cup {Empty},
           cert : Certs \cup {Empty}, info : Infos \cup {Empty}]

(* The types of what is updated; a worker about to read the fields has the *)
(* certificate of its connection.                                          *)
Types ==
  /\ reg \in [Attempts -> Worker]
  /\ told \in [Attempts -> Answers]
  /\ app \in [Approvers -> Nat]
  /\ info \in [Certs -> Infos]
  /\ \A a \in Attempts : reg[a].at = "fields" => reg[a].cert \in Certs

(* A row of Pending_Clients was accepted.  Needed where a row is copied to *)
(* Clients or found by a check.                                            *)
PendingAccepted == pending \subseteq accepted

(* The key that an approver has still to delete was copied to Clients.     *)
DeletesApproved == \A v \in Approvers : app[v] # 0 => app[v] \in approved

(* A worker that has answered does nothing more: what it read stays what   *)
(* the answer was about.                                                   *)
AnsweredDone == \A a \in Attempts : told[a] # "none" => reg[a].at = "done"

IInv ==
  /\ Types
  /\ PendingAccepted
  /\ DeletesApproved
  /\ AnsweredDone
  /\ NoRequestLost
  /\ ClientsFromRequests
  /\ ToldIsTrue

-----------------------------------------------------------------------------
(* The invariant holds of the empty database with no worker.               *)
LEMMA InitInv == Init => IInv
<1> SUFFICES ASSUME Init PROVE IInv
    OBVIOUS
<1>1. Types
      BY DEF Init, Types, Worker, Idle, Answers
<1>2. PendingAccepted /\ DeletesApproved /\ AnsweredDone
      BY DEF Init, PendingAccepted, DeletesApproved, AnsweredDone
<1>3. NoRequestLost /\ ClientsFromRequests /\ ToldIsTrue
      BY DEF Init, NoRequestLost, ClientsFromRequests, ToldIsTrue
<1> QED
    BY <1>1, <1>2, <1>3 DEF IInv

(* An answer keeps the types, and every field but at.                      *)
LEMMA ReplyFields ==
  ASSUME Types, NEW a \in Attempts, NEW m \in Answers, Reply(a, m)
  PROVE  /\ reg' \in [Attempts -> Worker] /\ told' \in [Attempts -> Answers]
         /\ reg'[a].at = "done"
         /\ \A b \in Attempts : /\ reg'[b].user = reg[b].user
                                /\ reg'[b].cert = reg[b].cert
                                /\ reg'[b].info = reg[b].info
                                /\ b # a => reg'[b] = reg[b] /\ told'[b] = told[b]
                                /\ told'[b] # told[b] => b = a /\ told'[b] = m
  BY DEF Types, Reply, Worker

(* What a step leaves that only moves workers which have not answered, and *)
(* adds no answer: the invariants about the tables are untouched, and the  *)
(* answered workers keep what they read.                                   *)
LEMMA QuietStep ==
  ASSUME IInv,
         UNCHANGED <<clients, pending, accepted, approved, app, told>>,
         Types',
         \A a \in Attempts : reg[a].at = "done" => reg'[a] = reg[a]
  PROVE  IInv'
<1>1. Types' /\ PendingAccepted' /\ DeletesApproved' /\ NoRequestLost' /\ ClientsFromRequests'
      BY DEF IInv, Types, PendingAccepted, DeletesApproved, NoRequestLost, ClientsFromRequests
<1>2. AnsweredDone'
      BY DEF IInv, AnsweredDone
<1>3. ToldIsTrue'
  <2> SUFFICES ASSUME NEW a \in Attempts, told[a] \in {"saved", "submitted", "registered"}
               PROVE  \E r \in accepted : r.user = reg'[a].user /\ r.cert = reg'[a].cert
                                           /\ r.info = reg'[a].info
      BY DEF ToldIsTrue
  <2>1. reg'[a] = reg[a]
        BY DEF IInv, AnsweredDone
  <2> QED
      BY <2>1 DEF IInv, ToldIsTrue
<1> QED
    BY <1>1, <1>2, <1>3 DEF IInv

(* An answer that claims a request is true of one that was accepted.       *)
LEMMA ReplyStep ==
  ASSUME IInv, NEW a \in Attempts, NEW m \in Answers, Reply(a, m),
         UNCHANGED <<clients, approved, app, info>>,
         accepted \subseteq accepted', pending' \subseteq accepted',
         \A r \in accepted' : r \in pending' \/ r.key \in approved,
         m \in {"saved", "submitted", "registered"} =>
           \E r \in accepted' : r.user = reg[a].user /\ r.cert = reg[a].cert
                                 /\ r.info = reg[a].info
  PROVE  IInv'
<1>1. Types /\ AnsweredDone /\ ToldIsTrue /\ ClientsFromRequests /\ DeletesApproved
      BY DEF IInv
<1>2. Types' /\ PendingAccepted' /\ DeletesApproved' /\ NoRequestLost'
      BY <1>1, ReplyFields DEF Types, PendingAccepted, DeletesApproved, NoRequestLost
<1>3. ClientsFromRequests'
      BY <1>1 DEF ClientsFromRequests
<1>4. AnsweredDone'
      BY <1>1, ReplyFields DEF AnsweredDone
<1>5. ToldIsTrue'
  <2> SUFFICES ASSUME NEW b \in Attempts, told'[b] \in {"saved", "submitted", "registered"}
               PROVE  \E r \in accepted' : r.user = reg'[b].user /\ r.cert = reg'[b].cert
                                           /\ r.info = reg'[b].info
      BY DEF ToldIsTrue
  <2>1. CASE told'[b] = told[b]
        BY <1>1, <2>1, ReplyFields DEF ToldIsTrue
  <2>2. CASE told'[b] # told[b]
        BY <1>1, <2>2, ReplyFields
  <2> QED
      BY <2>1, <2>2
<1> QED
    BY <1>2, <1>3, <1>4, <1>5 DEF IInv

(* The worker of a registration: connecting, reading and giving up.        *)
LEMMA ConnectStep ==
  ASSUME IInv, NEW a \in Attempts, NEW c \in Certs, NEW u \in Users, Connect(a, c, u)
  PROVE  IInv'
<1>1. Types /\ AnsweredDone
      BY DEF IInv
<1>2. CASE /\ reg' = [reg EXCEPT ![a] = [Idle EXCEPT !.at = "done"]]
           /\ told' = [told EXCEPT ![a] = "password"]
  <2>1. Types'
        BY <1>1, <1>2 DEF Types, Worker, Idle, Answers, Connect
  <2>2. PendingAccepted' /\ DeletesApproved' /\ NoRequestLost' /\ ClientsFromRequests'
        BY DEF IInv, Connect, db, history, PendingAccepted, DeletesApproved, NoRequestLost,
               ClientsFromRequests
  <2>3. \A b \in Attempts : b # a => reg'[b] = reg[b] /\ told'[b] = told[b]
        BY <1>1, <1>2 DEF Types
  <2>4. told'[a] = "password" /\ reg'[a].at = "done"
        BY <1>1, <1>2 DEF Types, Idle
  <2>5. AnsweredDone'
        BY <1>1, <2>3, <2>4 DEF AnsweredDone
  <2>6. ToldIsTrue'
        BY <2>3, <2>4 DEF IInv, ToldIsTrue, Connect, history
  <2> QED
      BY <2>1, <2>2, <2>5, <2>6 DEF IInv
<1>3. CASE /\ reg' = [reg EXCEPT ![a] = [@ EXCEPT !.at = "fields", !.user = u, !.cert = c]]
           /\ UNCHANGED told
  <2>1. Types'
        BY <1>1, <1>3 DEF Types, Worker, Connect
  <2>2. \A b \in Attempts : reg[b].at = "done" => reg'[b] = reg[b]
        BY <1>1, <1>3 DEF Types, Connect
  <2> QED
      BY <1>3, <2>1, <2>2, QuietStep DEF Connect, db, history
<1> QED
    BY <1>2, <1>3 DEF Connect

LEMMA ReadFieldsStep ==
  ASSUME IInv, NEW a \in Attempts, ReadFields(a)
  PROVE  IInv'
<1>1. Types
      BY DEF IInv
<1>2. PICK n \in Names :
        reg' = [reg EXCEPT ![a] =
                  IF a \in listening
                    THEN [@ EXCEPT !.at = "existing", !.name = n, !.info = info[reg[a].cert]]
                    ELSE [@ EXCEPT !.at = "existing", !.cert = Empty]]
      BY DEF ReadFields
<1>3. Types'
  <2>1. reg[a] \in Worker /\ reg[a].cert \in Certs /\ info[reg[a].cert] \in Infos
        BY <1>1 DEF Types, ReadFields
  <2>2. reg' \in [Attempts -> Worker]
        BY <1>1, <1>2, <2>1 DEF Types, Worker
  <2>3. \A b \in Attempts : reg'[b].at = "fields" => reg'[b] = reg[b]
        BY <1>1, <1>2, <2>1 DEF Types, Worker
  <2> QED
      BY <1>1, <2>2, <2>3 DEF Types, ReadFields
<1>4. \A b \in Attempts : reg[b].at = "done" => reg'[b] = reg[b]
      BY <1>1, <1>2 DEF Types, ReadFields
<1> QED
    BY <1>3, <1>4, QuietStep DEF ReadFields, db, history

(* The two checks: a row that is found was accepted, or is a client whose  *)
(* request was.                                                            *)
LEMMA CheckStep ==
  ASSUME IInv, NEW a \in Attempts, CheckIfExisting(a) \/ CheckIfSubmitted(a)
  PROVE  IInv'
<1> USE DEF CheckIfExisting, CheckIfSubmitted
<1>1. Types /\ ClientsFromRequests /\ PendingAccepted /\ NoRequestLost
      BY DEF IInv
<1>2. UNCHANGED <<clients, pending, accepted, approved, app, info>>
      BY DEF Check, db, history
<1>3. CASE (\E r \in clients : SameComputer(r, a)) /\ Reply(a, "registered")
  <2>1. \E r \in accepted' : r.user = reg[a].user /\ r.cert = reg[a].cert /\ r.info = reg[a].info
        BY <1>1, <1>2, <1>3 DEF ClientsFromRequests, SameComputer
  <2> QED
      BY <1>1, <1>2, <1>3, <2>1, ReplyStep DEF Answers, PendingAccepted, NoRequestLost
<1>4. CASE (\E r \in pending : SameComputer(r, a)) /\ Reply(a, "submitted")
  <2>1. \E r \in accepted' : r.user = reg[a].user /\ r.cert = reg[a].cert /\ r.info = reg[a].info
        BY <1>1, <1>2, <1>4 DEF PendingAccepted, SameComputer
  <2> QED
      BY <1>1, <1>2, <1>4, <2>1, ReplyStep DEF Answers, PendingAccepted, NoRequestLost
<1>5. CASE Reply(a, "internal")
      BY <1>1, <1>2, <1>5, ReplyStep DEF Answers, PendingAccepted, NoRequestLost
<1>6. CASE /\ reg[a].at \in {"existing", "submitted"}
           /\ \E next \in {"submitted", "insert"} : reg' = [reg EXCEPT ![a].at = next]
           /\ UNCHANGED told
  <2>1. Types'
        BY <1>1, <1>2, <1>6 DEF Types, Worker
  <2>2. \A b \in Attempts : reg[b].at = "done" => reg'[b] = reg[b]
        BY <1>1, <1>6 DEF Types
  <2> QED
      BY <1>2, <1>6, <2>1, <2>2, QuietStep
<1> QED
    BY <1>3, <1>4, <1>5, <1>6 DEF Check

(* A new row is pending.                                                   *)
LEMMA DoInsertStep ==
  ASSUME IInv, NEW a \in Attempts, DoInsert(a)
  PROVE  IInv'
<1>1. Types /\ PendingAccepted /\ NoRequestLost
      BY DEF IInv
<1>2. UNCHANGED <<clients, approved, app, info>>
      BY DEF DoInsert
<1> DEFINE row == [key |-> pendingSeq + 1, user |-> reg[a].user, name |-> reg[a].name,
                   cert |-> reg[a].cert, info |-> reg[a].info]
<1>3. CASE /\ pending' = pending \cup {row} /\ accepted' = accepted \cup {row}
           /\ Reply(a, "saved")
  <2>1. row.user = reg[a].user /\ row.cert = reg[a].cert /\ row.info = reg[a].info
        OBVIOUS
  <2> HIDE DEF row
  <2>2. /\ accepted \subseteq accepted' /\ pending' \subseteq accepted'
        /\ \A r \in accepted' : r \in pending' \/ r.key \in approved
        BY <1>1, <1>3 DEF PendingAccepted, NoRequestLost
  <2>3. \E r \in accepted' : r.user = reg[a].user /\ r.cert = reg[a].cert /\ r.info = reg[a].info
        BY <1>3, <2>1
  <2> QED
      BY <1>2, <1>3, <2>2, <2>3, ReplyStep DEF Answers
<1>4. CASE Reply(a, "internal") /\ UNCHANGED <<pending, accepted>>
      BY <1>1, <1>2, <1>4, ReplyStep DEF Answers, PendingAccepted, NoRequestLost
<1> QED
    BY <1>3, <1>4 DEF DoInsert

(* A row of Clients is copied from a pending one, which was accepted; the  *)
(* key that is left to delete is the one just approved.                    *)
LEMMA ApproveStep ==
  ASSUME IInv, NEW v \in Approvers, NEW u \in Users, NEW k \in 1..pendingSeq, Approve(v, u, k)
  PROVE  IInv'
<1>1. Types /\ PendingAccepted /\ DeletesApproved /\ ClientsFromRequests
      BY DEF IInv
<1>2. PICK p \in pending :
        /\ p.key = k
        /\ \E n \in Names \cup {p.name} :
             clients' = (clients \ InTheWay(RowFor(p, u, n))) \cup {RowFor(p, u, n)}
        /\ app' = [app EXCEPT ![v] = k]
        /\ approved' = approved \cup {p.key}
      BY DEF Approve
<1>3. UNCHANGED <<pending, reg, told, info, accepted>>
      BY DEF Approve
<1>4. k \in Nat
      OBVIOUS
<1>5. Types'
      BY <1>1, <1>2, <1>3, <1>4 DEF Types
<1>6. PendingAccepted' /\ AnsweredDone' /\ ToldIsTrue'
      BY <1>3 DEF IInv, PendingAccepted, AnsweredDone, ToldIsTrue
<1>7. DeletesApproved'
      BY <1>1, <1>2 DEF Types, DeletesApproved
<1>8. NoRequestLost'
      BY <1>2, <1>3 DEF IInv, NoRequestLost
<1>9. ClientsFromRequests'
  <2>0. PICK n : clients' = (clients \ InTheWay(RowFor(p, u, n))) \cup {RowFor(p, u, n)}
        BY <1>2
  <2>1. /\ RowFor(p, u, n).user = p.user /\ RowFor(p, u, n).cert = p.cert
        /\ RowFor(p, u, n).info = p.info
        BY DEF RowFor
  <2>2. p \in accepted
        BY <1>1 DEF PendingAccepted
  <2> QED
      BY <1>1, <1>3, <2>0, <2>1, <2>2 DEF ClientsFromRequests
<1> QED
    BY <1>5, <1>6, <1>7, <1>8, <1>9 DEF IInv

(* The deletion goes by a key that was approved.                           *)
LEMMA DelApprovedStep ==
  ASSUME IInv, NEW v \in Approvers, DelApproved(v)
  PROVE  IInv'
<1>1. Types /\ DeletesApproved /\ NoRequestLost /\ PendingAccepted
      BY DEF IInv
<1>2. UNCHANGED <<clients, reg, told, info, accepted, approved>>
      BY DEF DelApproved, history
<1>3. app' = [app EXCEPT ![v] = 0] /\ app[v] \in approved
      BY <1>1 DEF DelApproved, DeletesApproved
<1>4. pending' \subseteq pending /\ \A p \in pending : p.key # app[v] => p \in pending'
      BY DEF DelApproved
<1>5. Types'
      BY <1>1, <1>2, <1>3 DEF Types
<1>6. PendingAccepted' /\ AnsweredDone' /\ ToldIsTrue' /\ ClientsFromRequests'
      BY <1>2, <1>4 DEF IInv, PendingAccepted, AnsweredDone, ToldIsTrue, ClientsFromRequests
<1>7. DeletesApproved'
      BY <1>1, <1>2, <1>3 DEF Types, DeletesApproved
<1>8. NoRequestLost'
      BY <1>1, <1>2, <1>3, <1>4 DEF NoRequestLost
<1> QED
    BY <1>5, <1>6, <1>7, <1>8 DEF IInv

(* Workers stop wherever they are, approvers between their statements too. *)
LEMMA StopStep ==
  ASSUME IInv, Stop
  PROVE  IInv'
<1>1. Types
      BY DEF IInv
<1>2. UNCHANGED <<clients, pending, told, info, accepted, approved>>
      BY DEF Stop, db, history
<1>3. /\ app' = [v \in Approvers |-> 0]
      /\ reg' = [a \in Attempts |-> IF reg[a].at = "free" THEN Idle
                                      ELSE [reg[a] EXCEPT !.at = "done"]]
      BY DEF Stop
<1>4. Types'
      BY <1>1, <1>2, <1>3 DEF Types, Worker, Idle
<1>5. \A a \in Attempts : reg[a].at = "done" =>
        /\ reg'[a].at = "done" /\ reg'[a].user = reg[a].user
        /\ reg'[a].cert = reg[a].cert /\ reg'[a].info = reg[a].info
      BY <1>1, <1>3 DEF Types, Worker
<1>6. PendingAccepted' /\ DeletesApproved' /\ NoRequestLost' /\ ClientsFromRequests'
      BY <1>2, <1>3 DEF IInv, PendingAccepted, DeletesApproved, NoRequestLost,
                        ClientsFromRequests
<1>7. AnsweredDone' /\ ToldIsTrue'
      BY <1>2, <1>5 DEF IInv, AnsweredDone, ToldIsTrue
<1> QED
    BY <1>4, <1>6, <1>7 DEF IInv

(* Every step keeps the invariant.                                         *)
LEMMA NextInv == IInv /\ [Next]_vars => IInv'
<1> SUFFICES ASSUME IInv, [Next]_vars PROVE IInv'
    OBVIOUS
<1>1. CASE \E a \in Attempts : \/ \E c \in Certs, u \in Users : Connect(a, c, u)
                               \/ ReadFields(a)
                               \/ CheckIfExisting(a) \/ CheckIfSubmitted(a)
                               \/ DoInsert(a)
      BY <1>1, ConnectStep, ReadFieldsStep, CheckStep, DoInsertStep
<1>2. CASE \E v \in Approvers : \/ \E u \in Users, k \in 1..pendingSeq : Approve(v, u, k)
                                \/ DelApproved(v)
      BY <1>2, ApproveStep, DelApprovedStep
<1>3. CASE Stop
      BY <1>3, StopStep
<1>4. CASE \/ \E a \in Attempts : GiveUp(a)
           \/ \E s \in Sessions : \/ \E c \in Certs : Handshake(s, c)
                                  \/ \E uid \in Uids : AddUser(s, uid)
                                  \/ Disconnect(s)
           \/ \E c \in Certs : ChangeInfo(c)
           \/ Start
           \/ UNCHANGED vars
  <2>1. UNCHANGED <<clients, pending, accepted, approved, app, told, reg>>
        BY <1>4 DEF GiveUp, Handshake, AddUser, Disconnect, ChangeInfo, Start, vars, db, workers,
                    history
  <2>2. info' \in [Certs -> Infos]
        BY <1>4 DEF IInv, Types, GiveUp, Handshake, AddUser, Disconnect, ChangeInfo, Start, vars
  <2>3. Types'
        BY <2>1, <2>2 DEF IInv, Types
  <2> QED
      BY <2>1, <2>3, QuietStep
<1> QED
    BY <1>1, <1>2, <1>3, <1>4 DEF Next

-----------------------------------------------------------------------------
(* A saved request is pending or was approved, whatever interleaving of    *)
(* registrations, late or double approvals, failed statements and stops of *)
(* the server led there.                                                   *)
THEOREM RequestsKept == Spec => []NoRequestLost
<1>1. IInv => NoRequestLost
      BY DEF IInv
<1> QED
    BY <1>1, InitInv, NextInv, PTL DEF Spec

(* What handleRegistration tells a computer is true of a request that was  *)
(* accepted for it.                                                        *)
THEOREM AnswersTrue == Spec => []ToldIsTrue
<1>1. IInv => ToldIsTrue
      BY DEF IInv
<1> QED
    BY <1>1, InitInv, NextInv, PTL DEF Spec

(* A row of Clients was submitted by its own user with its certificate and *)
(* system information.                                                     *)
THEOREM ClientsSubmitted == Spec => []ClientsFromRequests
<1>1. IInv => ClientsFromRequests
      BY DEF IInv
<1> QED
    BY <1>1, InitInv, NextInv, PTL DEF Spec

-----------------------------------------------------------------------------
(* Keys of Clients.  AUTOINCREMENT counts up, so a key stands for one      *)
(* certificate for ever, in the table, in the sessions that read it and in *)
(* the rows of Client_Users stored under it.                               *)

KeysBelowSeq ==
  /\ clientSeq \in Nat
  /\ \A c \in clients : c.key \in 1..clientSeq
  /\ \A s \in Sessions : sess[s].key \in 0..clientSeq
  /\ \A r \in clientUsers : r.key \in 0..clientSeq

KeyOneCert == \A c, d \in clients : c.key = d.key => c.cert = d.cert

SessionCert == \A s \in Sessions, c \in clients : c.key = sess[s].key => c.cert = sess[s].cert

KeyInv ==
  /\ sess \in [Sessions -> [key : Nat, cert : Certs \cup {Empty}]]
  /\ KeysBelowSeq
  /\ KeyOneCert
  /\ SessionCert
  /\ RowsFromOwner

(* No key has been given out.                                              *)
LEMMA InitKeys == Init => KeyInv
  BY DEF Init, KeyInv, NoSess, KeysBelowSeq, KeyOneCert, SessionCert, RowsFromOwner

(* An approval gives out the next key; sessions and rows that are older    *)
(* have a smaller one.                                                     *)
LEMMA ApproveKeys ==
  ASSUME KeyInv, NEW v \in Approvers, NEW u \in Users, NEW k, Approve(v, u, k)
  PROVE  KeyInv'
<1>1. PICK row : /\ clients' = (clients \ InTheWay(row)) \cup {row}
                 /\ row.key = clientSeq + 1
      BY DEF Approve, RowFor
<1>2. clientSeq' = clientSeq + 1 /\ UNCHANGED <<sess, clientUsers>>
      BY DEF Approve
<1>3. \A c \in clients' : c \in clients \/ c = row
      BY <1>1
<1>4. KeysBelowSeq'
      BY <1>1, <1>2, <1>3 DEF KeyInv, KeysBelowSeq
<1>5. KeyOneCert' /\ SessionCert' /\ RowsFromOwner'
      BY <1>1, <1>2, <1>3 DEF KeyInv, KeysBelowSeq, KeyOneCert, SessionCert, RowsFromOwner
<1> QED
    BY <1>2, <1>4, <1>5 DEF KeyInv

(* A handshake takes key and certificate from one row.                     *)
LEMMA HandshakeKeys ==
  ASSUME KeyInv, NEW s \in Sessions, NEW c \in Certs, Handshake(s, c)
  PROVE  KeyInv'
<1>1. PICK r \in clients : r.cert = c /\ sess' = [sess EXCEPT ![s] = [key |-> r.key, cert |-> c]]
      BY DEF Handshake
<1>2. UNCHANGED <<clients, clientSeq, clientUsers>>
      BY DEF Handshake, db
<1>3. r.key \in 1..clientSeq /\ clientSeq \in Nat
      BY DEF KeyInv, KeysBelowSeq
<1>4. \A t \in Sessions : sess'[t] = IF t = s THEN [key |-> r.key, cert |-> c] ELSE sess[t]
      BY <1>1 DEF KeyInv
<1>5. sess' \in [Sessions -> [key : Nat, cert : Certs \cup {Empty}]]
      BY <1>1, <1>3 DEF KeyInv
<1>6. KeysBelowSeq' /\ KeyOneCert' /\ RowsFromOwner'
      BY <1>2, <1>3, <1>4 DEF KeyInv, KeysBelowSeq, KeyOneCert, RowsFromOwner
<1>7. SessionCert'
      BY <1>1, <1>2, <1>4 DEF KeyInv, KeyOneCert, SessionCert
<1> QED
    BY <1>5, <1>6, <1>7 DEF KeyInv

(* What UpdateLocalUsers stores goes under the key of the session.         *)
LEMMA AddUserKeys ==
  ASSUME KeyInv, NEW s \in Sessions, NEW uid \in Uids, AddUser(s, uid)
  PROVE  KeyInv'
<1>1. UNCHANGED <<clients, clientSeq, sess>>
      BY DEF AddUser, workers
<1>2. \A r \in clientUsers' : r \in clientUsers \/ (r.key = sess[s].key /\ r.by = sess[s].cert)
      BY DEF AddUser
<1>3. KeysBelowSeq'
      BY <1>1, <1>2 DEF KeyInv, KeysBelowSeq
<1>4. KeyOneCert' /\ SessionCert'
      BY <1>1 DEF KeyInv, KeyOneCert, SessionCert
<1>5. RowsFromOwner'
      BY <1>1, <1>2 DEF KeyInv, SessionCert, RowsFromOwner
<1> QED
    BY <1>1, <1>3, <1>4, <1>5 DEF KeyInv

(* A session that ends, or all of them with the server.                    *)
LEMMA EndKeys ==
  ASSUME KeyInv, UNCHANGED <<clients, clientSeq, clientUsers>>,
         sess' \in [Sessions -> [key : Nat, cert : Certs \cup {Empty}]],
         \A s \in Sessions : sess'[s] \in {sess[s], NoSess}
  PROVE  KeyInv'
<1>1. \A s \in Sessions : sess'[s] = sess[s] \/ sess'[s].key = 0
      BY DEF NoSess
<1>2. KeysBelowSeq' /\ KeyOneCert' /\ RowsFromOwner'
      BY <1>1 DEF KeyInv, KeysBelowSeq, KeyOneCert, RowsFromOwner
<1>3. SessionCert'
      BY <1>1 DEF KeyInv, KeysBelowSeq, SessionCert
<1> QED
    BY <1>2, <1>3 DEF KeyInv

(* Every step keeps the keys apart.                                        *)
LEMMA NextKeys == KeyInv /\ [Next]_vars => KeyInv'
<1> SUFFICES ASSUME KeyInv, [Next]_vars PROVE KeyInv'
    OBVIOUS
<1>1. CASE \E v \in Approvers, u \in Users, k \in 1..pendingSeq : Approve(v, u, k)
      BY <1>1, ApproveKeys
<1>2. CASE \E s \in Sessions, c \in Certs : Handshake(s, c)
      BY <1>2, HandshakeKeys
<1>3. CASE \E s \in Sessions, uid \in Uids : AddUser(s, uid)
      BY <1>3, AddUserKeys
<1>4. CASE Stop \/ \E s \in Sessions : Disconnect(s)
  <2>1. UNCHANGED <<clients, clientSeq, clientUsers>>
        BY <1>4 DEF Stop, Disconnect, db
  <2>2. /\ sess' \in [Sessions -> [key : Nat, cert : Certs \cup {Empty}]]
        /\ \A s \in Sessions : sess'[s] \in {sess[s], NoSess}
        BY <1>4 DEF KeyInv, Stop, Disconnect, NoSess
  <2> QED
      BY <2>1, <2>2, EndKeys
<1>5. CASE \/ \E a \in Attempts : \/ \E c \in Certs, u \in Users : Connect(a, c, u)
                                  \/ GiveUp(a) \/ ReadFields(a)
                                  \/ CheckIfExisting(a) \/ CheckIfSubmitted(a) \/ DoInsert(a)
           \/ \E v \in Approvers : DelApproved(v)
           \/ \E c \in Certs : ChangeInfo(c)
           \/ Start \/ UNCHANGED vars
  <2>1. UNCHANGED <<clients, clientSeq, clientUsers, sess>>
        BY <1>5 DEF Connect, GiveUp, ReadFields, CheckIfExisting, CheckIfSubmitted, Check,
                    DoInsert, DelApproved, ChangeInfo, Start, vars, db, workers
  <2> QED
      BY <2>1, EndKeys DEF KeyInv
<1> QED
    BY <1>1, <1>2, <1>3, <1>4, <1>5 DEF Next

(* The rows of Client_Users under the key of a registered computer came    *)
(* from that computer, though a session goes on under a key whose row an   *)
(* approval has replaced.                                                  *)
THEOREM UsersFromOwner == Spec => []RowsFromOwner
<1>1. KeyInv => RowsFromOwner
      BY DEF KeyInv
<1> QED
    BY <1>1, InitKeys, NextKeys, PTL DEF Spec
=============================================================================
