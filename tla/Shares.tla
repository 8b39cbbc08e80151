------------------------------- MODULE Shares -------------------------------
(***************************************************************************)
(* The shares page of the web panel: get_shares, the edit form of          *)
(* shares.php and save_share, by several administrators at a time, and the *)
(* clients' subscription to a share (WaitingForShare).                     *)
(*                                                                         *)
(* save_share is a row of SQL statements outside any transaction: the      *)
(* deletion of users while the list is walked, the share itself, the key   *)
(* of a new share, then one INSERT OR IGNORE per listed user.  Each is a   *)
(* step, and each may fail (a locked database), which ends the request     *)
(* with what was done until then.  Nothing deletes shares or users.        *)
(***************************************************************************)
EXTENDS Integers, FiniteSets, Sequences, SequencesExt

CONSTANTS Users, Names, Perms,
          Paths, Dirs,        \* what may be entered as path; the directories among it
          Editors, Sessions,
          MaxKey,             \* bound on the counter of Shares
          MaxSaves            \* bound on the different forms sent

ASSUME SharesAssumption ==
  /\ Dirs \subseteq Paths /\ 0 \notin Users
  /\ MaxKey \in Nat /\ MaxSaves \in Nat

VARIABLES
  shares,      \* key -> name and path: the rows of Shares
  shareSeq,    \* its counter in sqlite_sequence
  userShares,  \* the rows of User_Shares, with the share they were entered for
  ed,          \* ed[e]: the request of an editor; history: the share it is about (own)
               \* and whether no other editor was at work since its page was opened
  sess,        \* sess[s]: what a subscribed session holds, or none
  sent         \* history: the forms sent

vars == <<shares, shareSeq, userShares, ed, sess, sent>>

NewKey  == -1
Lists   == UNION {[D -> Perms] : D \in SUBSET Users}
NoForm  == [key |-> 0, name |-> 0, path |-> 0, list |-> <<>>]
NoEd    == [at |-> "idle", orig |-> {}, form |-> NoForm, gone |-> {}, left |-> {}, key |-> 0,
            own |-> 0, alone |-> FALSE]
NoSess  == [user |-> 0, share |-> 0, path |-> 0, perms |-> 0]

Init ==
  /\ shares = <<>> /\ shareSeq = 0 /\ userShares = {}
  /\ ed = [e \in Editors |-> NoEd]
  /\ sess = [s \in Sessions |-> NoSess]
  /\ sent = {}

-----------------------------------------------------------------------------
(* get_shares: the joined rows come share by share; a share without users  *)
(* gives one row with no user.                                             *)

RowsOf(k) ==
  LET us == {r \in userShares : r.share = k}
  IN  IF us = {} THEN <<[share |-> k, user |-> 0]>>
      ELSE [n \in 1..Cardinality(us) |-> [share |-> k, user |-> SetToSeq(us)[n].user]]

JoinedRows ==
  LET upTo[k \in 0..MaxKey] ==
        IF k = 0 THEN <<>>
        ELSE upTo[k - 1] \o IF k \in DOMAIN shares THEN RowsOf(k) ELSE <<>>
  IN  upTo[MaxKey]

(* The loop: a row whose key is not the last one finishes the share before *)
(* it.                                                                     *)
NextRow(acc, row) ==
  LET users == IF row.user = 0 THEN {} ELSE {row.user}
  IN  IF row.share = acc.cur.share
        THEN [acc EXCEPT !.cur.users = @ \cup users]
        ELSE [done |-> IF acc.cur.share = NewKey THEN acc.done ELSE Append(acc.done, acc.cur),
              cur  |-> [share |-> row.share, users |-> users]]

Collected(rows) ==
  LET after[n \in 0..Len(rows)] ==
        IF n = 0 THEN [done |-> <<>>, cur |-> [share |-> NewKey, users |-> {}]]
                 ELSE NextRow(after[n - 1], rows[n])
  IN  after[Len(rows)]

(* Mutant: what was collected last is not added after the loop. *)
MutGetShares(rows) == Collected(rows).done

GetShares(rows) ==
  LET end == Collected(rows)
  IN  IF end.cur.share = NewKey THEN end.done ELSE Append(end.done, end.cur)

-----------------------------------------------------------------------------
(* The form                                                                *)

AtRest(e) == ed[e].at \in {"idle", "saved", "failed"}

Page(e, k, users) ==
  ed' = [f \in Editors |->
           IF f = e THEN [NoEd EXCEPT !.at = "page", !.key = k, !.orig = users,
                                      !.alone = \A g \in Editors : AtRest(g)]
                    ELSE [ed[f] EXCEPT !.alone = FALSE]]

(* shares.php?key=k or ?new: the page remembers the users it was sent. *)
OpenPage(e, k) ==
  /\ AtRest(e)
  /\ \/ k = NewKey /\ Page(e, k, {})
     \/ /\ k \in DOMAIN shares
        /\ LET page == GetShares(RowsOf(k))
           IN  Len(page) = 1 /\ Page(e, k, page[1].users)
  /\ UNCHANGED <<shares, shareSeq, userShares, sess, sent>>

(* A user of the page who was removed from the list is sent as deleted;    *)
(* permissions of any user in the list can be changed.                     *)
Submit(e) ==
  /\ ed[e].at = "page" /\ Cardinality(sent) < MaxSaves
  /\ \E list \in Lists, n \in Names, p \in Paths :
       LET form == [key |-> ed[e].key, name |-> n, path |-> p, list |-> list]
       IN  /\ ed' = [ed EXCEPT ![e] = [@ EXCEPT !.at = "walk", !.form = form,
                                        !.gone = ed[e].orig \ DOMAIN list,
                                        !.left = DOMAIN list, !.own = ed[e].key]]
           /\ sent' = sent \cup {form}
  /\ UNCHANGED <<shares, shareSeq, userShares, sess>>

-----------------------------------------------------------------------------
(* save_share                                                              *)

Fail(e) == ed' = [ed EXCEPT ![e].at = "failed"]

(* Any statement fails. *)
StatementFails(e) ==
  /\ ed[e].at \in {"walk", "key", "users"}
  /\ Fail(e)
  /\ UNCHANGED <<shares, shareSeq, userShares, sess, sent>>

(* Mutant: users marked as deleted are skipped. *)
MutWalk(e) ==
  /\ ed[e].at = "walk" /\ ed[e].gone # {}
  /\ \E u \in ed[e].gone : ed' = [ed EXCEPT ![e].gone = @ \ {u}]
  /\ UNCHANGED <<shares, shareSeq, userShares, sess, sent>>

(* shareUsersWalk1 deletes a user, before path and name are looked at. *)
Walk(e) ==
  /\ ed[e].at = "walk" /\ ed[e].gone # {}
  /\ \E u \in ed[e].gone :
       /\ userShares' = {r \in userShares : ~(r.share = ed[e].key /\ r.user = u)}
       /\ ed' = [ed EXCEPT ![e].gone = @ \ {u}]
  /\ UNCHANGED <<shares, shareSeq, sess, sent>>

NameTaken(n, k) == \E j \in DOMAIN shares \ {k} : shares[j].name = n

(* No directory, or a name that another share has.  An INSERT that is      *)
(* ignored for the name has used up a key.                                 *)
Refused(e) ==
  /\ ed[e].at = "walk" /\ ed[e].gone = {}
  /\ \/ ed[e].form.path \notin Dirs /\ UNCHANGED shareSeq
     \/ /\ ed[e].form.path \in Dirs /\ NameTaken(ed[e].form.name, ed[e].key)
        /\ shareSeq' = IF ed[e].key = NewKey THEN shareSeq + 1 ELSE shareSeq
        /\ shareSeq' <= MaxKey
  /\ Fail(e)
  /\ UNCHANGED <<shares, userShares, sess, sent>>

ShareRow(e) == [name |-> ed[e].form.name, path |-> ed[e].form.path]

(* INSERT OR IGNORE of a new share. *)
AddShare(e) ==
  /\ ed[e].at = "walk" /\ ed[e].gone = {} /\ ed[e].key = NewKey
  /\ ed[e].form.path \in Dirs /\ ~NameTaken(ed[e].form.name, NewKey)
  /\ shareSeq < MaxKey
  /\ shareSeq' = shareSeq + 1
  /\ shares' = [k \in DOMAIN shares \cup {shareSeq'} |->
                  IF k = shareSeq' THEN ShareRow(e) ELSE shares[k]]
  /\ ed' = [ed EXCEPT ![e].at = "key", ![e].own = shareSeq']
  /\ UNCHANGED <<userShares, sess, sent>>

(* Mutant: one less than the counter. *)
MutGetShareKey(e) ==
  /\ ed[e].at = "key"
  /\ ed' = [ed EXCEPT ![e].at = "users", ![e].key = shareSeq - 1]
  /\ UNCHANGED <<shares, shareSeq, userShares, sess, sent>>

(* The key of the new share is looked up in sqlite_sequence afterwards. *)
GetShareKey(e) ==
  /\ ed[e].at = "key"
  /\ ed' = [ed EXCEPT ![e].at = "users", ![e].key = shareSeq]
  /\ UNCHANGED <<shares, shareSeq, userShares, sess, sent>>

UpdateShare(e) ==
  /\ ed[e].at = "walk" /\ ed[e].gone = {} /\ ed[e].key # NewKey
  /\ ed[e].form.path \in Dirs /\ ~NameTaken(ed[e].form.name, ed[e].key)
  /\ shares' = [shares EXCEPT ![ed[e].key] = ShareRow(e)]
  /\ ed' = [ed EXCEPT ![e].at = "users"]
  /\ UNCHANGED <<shareSeq, userShares, sess, sent>>

(* INSERT OR IGNORE: nothing for a user who is there already. *)
AddShareUser(e) ==
  /\ ed[e].at = "users"
  /\ \E u \in ed[e].left :
       /\ userShares' = userShares \cup
            {r \in [user : {u}, share : {ed[e].key}, perms : {ed[e].form.list[u]},
                    for : {ed[e].own}] :
               ~\E q \in userShares : q.user = u /\ q.share = r.share}
       /\ ed' = [ed EXCEPT ![e].left = @ \ {u}]
  /\ UNCHANGED <<shares, shareSeq, sess, sent>>

(* "OK": shares.php?success *)
Done(e) ==
  /\ ed[e].at = "users" /\ ed[e].left = {}
  /\ ed' = [ed EXCEPT ![e].at = "saved"]
  /\ UNCHANGED <<shares, shareSeq, userShares, sess, sent>>

-----------------------------------------------------------------------------
(* Mutant: the join does not ask for the user. *)
MutSubscribe(s, u) ==
  /\ sess[s] = NoSess
  /\ \E r \in userShares :
       /\ r.share \in DOMAIN shares
       /\ sess' = [sess EXCEPT ![s] = [user |-> u, share |-> r.share, perms |-> r.perms,
                                       path |-> shares[r.share].path]]
  /\ UNCHANGED <<shares, shareSeq, userShares, ed, sent>>

(* WaitingForShare: key, path and permissions are read once.               *)
Subscribe(s, u) ==
  /\ sess[s] = NoSess
  /\ \E r \in userShares :
       /\ r.user = u /\ r.share \in DOMAIN shares
       /\ sess' = [sess EXCEPT ![s] = [user |-> u, share |-> r.share, perms |-> r.perms,
                                       path |-> shares[r.share].path]]
  /\ UNCHANGED <<shares, shareSeq, userShares, ed, sent>>

Leave(s) ==
  /\ sess[s] # NoSess
  /\ sess' = [sess EXCEPT ![s] = NoSess]
  /\ UNCHANGED <<shares, shareSeq, userShares, ed, sent>>

Next ==
  \/ \E e \in Editors :
       \/ \E k \in DOMAIN shares \cup {NewKey} : OpenPage(e, k)
       \/ Submit(e) \/ StatementFails(e) \/ Walk(e) \/ Refused(e)
       \/ AddShare(e) \/ GetShareKey(e) \/ UpdateShare(e) \/ AddShareUser(e) \/ Done(e)
  \/ \E s \in Sessions : Leave(s) \/ \E u \in Users : Subscribe(s, u)

Spec == Init /\ [][Next]_vars

-----------------------------------------------------------------------------
(* Properties                                                              *)

Form == [key : {NewKey} \cup 1..MaxKey, name : Names, path : Paths, list : Lists]

TypeOK ==
  /\ DOMAIN shares \subseteq 1..shareSeq /\ shareSeq \in 0..MaxKey
  /\ \A k \in DOMAIN shares : shares[k] \in [name : Names, path : Dirs]
  /\ userShares \subseteq [user : Users, share : 1..MaxKey, perms : Perms, for : 1..MaxKey]
  /\ ed \in [Editors -> [at : {"idle", "page", "walk", "key", "users", "saved", "failed"},
                         orig : SUBSET Users, form : Form \cup {NoForm},
                         gone : SUBSET Users, left : SUBSET Users,
                         key : {0, NewKey} \cup 1..MaxKey, own : {0, NewKey} \cup 1..MaxKey,
                         alone : BOOLEAN]]
  /\ sess \in [Sessions -> {NoSess} \cup
                 [user : Users, share : 1..MaxKey, path : Dirs, perms : Perms]]
  /\ sent \subseteq Form

Entered(k) == {r.user : r \in {q \in userShares : q.share = k}}

(* The list of shares shows every share once, with all its users: the      *)
(* grouping loses neither the last share nor one without users.  So does   *)
(* the page of each share, which get_shares fills from its rows alone.     *)
ListComplete ==
  LET page == GetShares(JoinedRows)
  IN  /\ Len(page) = Cardinality(DOMAIN shares)
      /\ \A k \in DOMAIN shares :
           /\ \E i \in DOMAIN page : page[i] = [share |-> k, users |-> Entered(k)]
           /\ GetShares(RowsOf(k)) = <<[share |-> k, users |-> Entered(k)]>>

(* Users entered for a share are stored for that share or, when two        *)
(* editors add shares at a time, under a key given out later; a save of an *)
(* existing share never strays.                                            *)
StraysOnlyToNewer ==
  /\ \A r \in userShares : r.share >= r.for
  /\ \A e \in Editors : ed[e].form.key > 0 => ed[e].key = ed[e].form.key

(* A session's user was entered with these permissions in some form that   *)
(* was sent, for a share not newer than the one it uses.                   *)
SessionsFromForms ==
  \A s \in Sessions : sess[s] # NoSess =>
     \E f \in sent : /\ sess[s].user \in DOMAIN f.list
                     /\ f.list[sess[s].user] = sess[s].perms
                     /\ f.key <= sess[s].share

(* No other editor at work since the page was opened: after "saved         *)
(* successfully" exactly the listed users have the share, which has the    *)
(* entered name and path; also when a save before it failed half way.  The *)
(* users that are new to the page have the permissions of the form.        *)
AccessAsShown ==
  \A e \in Editors : ed[e].at = "saved" /\ ed[e].alone =>
     /\ Entered(ed[e].own) = DOMAIN ed[e].form.list
     /\ shares[ed[e].own] = ShareRow(e)
     /\ \A r \in userShares : r.share = ed[e].own /\ r.user \notin ed[e].orig =>
          r.perms = ed[e].form.list[r.user]

(* "The share has been saved successfully.": with the permissions that the *)
(* form had, no other editor being at work.  Not so for users that the     *)
(* share had before: their rows stay.                                      *)
SavedAsShown ==
  \A e \in Editors : ed[e].at = "saved" /\ ed[e].alone =>
     \A r \in userShares : r.share = ed[e].own => r.perms = ed[e].form.list[r.user]

(* "the key of a newly added share" is the key of the share this editor    *)
(* added.  Not so when another editor adds a share before it is read.      *)
KeyOfNewShare ==
  \A e \in Editors : ed[e].at = "users" => ed[e].key = ed[e].own
=============================================================================
