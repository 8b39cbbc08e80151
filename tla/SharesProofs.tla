---------------------------- MODULE SharesProofs ----------------------------
(***************************************************************************)
(* First the shares page, then, after a line, --init and the start of the  *)
(* server (Setup); the names of the two do not meet.                       *)
(*                                                                         *)
(* The shares page for any number of users, editors, sessions and shares:  *)
(* users stray to newer shares only, sessions hold what some form gave,    *)
(* the list of shares is complete, and a save that no other editor         *)
(* disturbed gives the access it showed.                                   *)
(***************************************************************************)
EXTENDS Shares, Setup, FiniteSetTheorems, SequenceTheorems, TLAPS

(* A record of an editor.  Nothing is said of orig and gone, which come    *)
(* from the page that get_shares made.                                     *)
IsEditor(d) ==
  d \in [at : {"idle", "page", "walk", "key", "users", "saved", "failed"},
         orig : {d.orig}, form : Form \cup {NoForm}, gone : {d.gone}, left : SUBSET Users,
         key : {0, NewKey} \cup 1..MaxKey, own : {0, NewKey} \cup 1..MaxKey,
         alone : BOOLEAN]

Types ==
  /\ DOMAIN shares \subseteq 1..shareSeq /\ shareSeq \in 0..MaxKey
  /\ ed = [e \in Editors |-> ed[e]] /\ \A e \in Editors : IsEditor(ed[e])
  /\ sess = [s \in Sessions |-> sess[s]]
  /\ sent \subseteq Form

Working(d) == d.at \in {"walk", "key", "users"}

(* The request of an editor, whoever else is at work: its form was sent,   *)
(* its keys are keys that were given out, and while it adds users it does  *)
(* so under a key not older than that of its share.                        *)
Request(d) ==
  /\ d.at = "page" => d.form = NoForm /\ d.key \in {NewKey} \cup DOMAIN shares
  /\ Working(d) => d.form \in sent /\ d.left \subseteq DOMAIN d.form.list
  /\ d.at = "walk" => /\ d.form.key = d.key /\ d.own = d.key
                      /\ d.key \in {NewKey} \cup DOMAIN shares
  /\ d.at = "key" => d.form.key = NewKey /\ d.own \in 1..shareSeq
  /\ d.at = "users" => d.key \in 1..shareSeq /\ d.own \in 1..d.key /\ d.form.key <= d.key
  /\ d.form.key > 0 => d.key = d.form.key

Requests == \A e \in Editors : Request(ed[e])

(* A row was entered in a form that was sent.                              *)
FromForm(u, perms, k) ==
  \E f \in sent : u \in DOMAIN f.list /\ f.list[u] = perms /\ f.key <= k

RowsEntered ==
  \A r \in userShares : /\ r.share \in 1..shareSeq /\ r.for \in 1..r.share
                        /\ FromForm(r.user, r.perms, r.share)

IInv == Types /\ Requests /\ RowsEntered /\ SessionsFromForms

-----------------------------------------------------------------------------
(* No share, and no editor at work.                                        *)
LEMMA InitInv == Init => IInv
<1> SUFFICES ASSUME Init PROVE IInv
    OBVIOUS
<1>1. DOMAIN shares = {}
      BY DEF Init
<1>2. IsEditor(NoEd) /\ Request(NoEd)
      BY DEF NoEd, IsEditor, NoForm, Request, Working
<1>3. Types
      BY <1>1, <1>2, SharesAssumption DEF Init, Types
<1>4. Requests /\ RowsEntered /\ SessionsFromForms
      BY <1>2 DEF Init, Requests, RowsEntered, SessionsFromForms
<1> QED
    BY <1>3, <1>4 DEF IInv

(* The types of a form.                                                    *)
LEMMA FormType ==
  ASSUME NEW f \in Form \cup {NoForm}
  PROVE  /\ f.key \in {0, NewKey} \cup 1..MaxKey
         /\ f \in Form => DOMAIN f.list \subseteq Users /\ \A u \in DOMAIN f.list : f.list[u] \in Perms
<1>1. f.key \in {0, NewKey} \cup 1..MaxKey
      BY DEF Form, NoForm
<1>2. ASSUME f \in Form
      PROVE  DOMAIN f.list \subseteq Users /\ \A u \in DOMAIN f.list : f.list[u] \in Perms
  <2>1. f.list \in Lists
        BY <1>2 DEF Form
  <2>2. PICK D \in SUBSET Users : f.list \in [D -> Perms]
        BY <2>1 DEF Lists
  <2> QED
      BY <2>2
<1> QED
    BY <1>1, <1>2

(* A step of one editor, the rest of the state growing.                    *)
LEMMA EditorStep ==
  ASSUME IInv, NEW e \in Editors, Types', Request(ed[e])',
         shareSeq <= shareSeq', DOMAIN shares \subseteq DOMAIN shares', sent \subseteq sent',
         \A f \in Editors \ {e} : \/ ed'[f] = ed[f]
                                  \/ ed'[f] = [ed[f] EXCEPT !.alone = FALSE],
         \A r \in userShares' : \/ r \in userShares
                                \/ /\ r.share \in 1..shareSeq' /\ r.for \in 1..r.share
                                   /\ FromForm(r.user, r.perms, r.share)',
         UNCHANGED sess
  PROVE  IInv'
<1>1. Types /\ Requests /\ RowsEntered /\ SessionsFromForms
      BY DEF IInv
<1>2. shareSeq \in Nat /\ shareSeq' \in Nat /\ \A k \in 1..shareSeq : k \in 1..shareSeq'
      BY <1>1, SharesAssumption DEF Types
<1>3. ASSUME NEW f \in Editors \ {e} PROVE Request(ed[f])'
  <2>1. IsEditor(ed[f]) /\ Request(ed[f])
        BY <1>1 DEF Types, Requests
  <2>2. /\ ed'[f].at = ed[f].at /\ ed'[f].form = ed[f].form /\ ed'[f].key = ed[f].key
        /\ ed'[f].own = ed[f].own /\ ed'[f].left = ed[f].left
        BY <2>1 DEF IsEditor
  <2> QED
      BY <1>2, <2>1, <2>2 DEF Request, Working
<1>4. Requests'
      BY <1>3 DEF Requests
<1>5. \A u, p, k : FromForm(u, p, k) => FromForm(u, p, k)'
      BY DEF FromForm
<1>6. RowsEntered'
      BY <1>1, <1>2, <1>5 DEF RowsEntered
<1>7. SessionsFromForms'
      BY <1>1 DEF SessionsFromForms
<1> QED
    BY <1>4, <1>6, <1>7 DEF IInv

LEMMA EdUpdate ==
  ASSUME Types, NEW e \in Editors, NEW d, IsEditor(d), ed' = [ed EXCEPT ![e] = d]
  PROVE  /\ ed' = [f \in Editors |-> ed'[f]] /\ ed'[e] = d
         /\ \A f \in Editors : IsEditor(ed'[f])
         /\ \A f \in Editors \ {e} : ed'[f] = ed[f]
  BY DEF Types

(* What is known of an editor at work.                                     *)
LEMMA EdFacts ==
  ASSUME IInv, NEW e \in Editors
  PROVE  /\ Types /\ IsEditor(ed[e]) /\ Request(ed[e])
         /\ ed[e].form.key \in {0, NewKey} \cup 1..MaxKey
         /\ shareSeq \in Nat /\ DOMAIN shares \subseteq 1..shareSeq
         /\ Working(ed[e]) => /\ ed[e].form \in Form
                              /\ DOMAIN ed[e].form.list \subseteq Users
                              /\ \A u \in DOMAIN ed[e].form.list : ed[e].form.list[u] \in Perms
<1>1. Types /\ IsEditor(ed[e]) /\ Request(ed[e])
      BY DEF IInv, Types, Requests
<1>2. ed[e].form \in Form \cup {NoForm}
      BY <1>1 DEF IsEditor
<1>3. Working(ed[e]) => ed[e].form \in Form
      BY <1>1 DEF Request, Types
<1>4. shareSeq \in Nat /\ DOMAIN shares \subseteq 1..shareSeq
      BY <1>1, SharesAssumption DEF Types
<1> QED
    BY <1>1, <1>2, <1>3, <1>4, FormType

(* The updates of an editor's record.                                      *)
LEMMA AloneUpdate ==
  ASSUME NEW d, IsEditor(d)
  PROVE  IsEditor([d EXCEPT !.alone = FALSE])
  BY DEF IsEditor

LEMMA AtUpdate ==
  ASSUME NEW d, IsEditor(d),
         NEW at \in {"idle", "page", "walk", "key", "users", "saved", "failed"},
         NEW key \in {0, NewKey} \cup 1..MaxKey, NEW own \in {0, NewKey} \cup 1..MaxKey
  PROVE  IsEditor([d EXCEPT !.at = at, !.key = key, !.own = own])
  BY DEF IsEditor

LEMMA OpenPageStep ==
  ASSUME IInv, NEW e \in Editors, NEW k \in DOMAIN shares \cup {NewKey}, OpenPage(e, k)
  PROVE  IInv'
<1>1. UNCHANGED <<shares, shareSeq, userShares, sess, sent>>
      BY DEF OpenPage
<1>2. PICK us : Page(e, k, us)
      BY DEF OpenPage
<1>3. k \in {0, NewKey} \cup 1..MaxKey
      BY EdFacts, SharesAssumption DEF Types
<1> DEFINE a == \A g \in Editors : AtRest(g)
<1>4. /\ ed'[e].at = "page" /\ ed'[e].form = NoForm /\ ed'[e].key = k /\ IsEditor(ed'[e])
  <2>1. ed'[e] = [NoEd EXCEPT !.at = "page", !.key = k, !.orig = us, !.alone = a]
        BY <1>2 DEF Page
  <2>2. a \in BOOLEAN
        OBVIOUS
  <2> HIDE DEF a
  <2> QED
      BY <1>3, <2>1, <2>2 DEF NoEd, IsEditor
<1>5. \A f \in Editors \ {e} : ed'[f] = [ed[f] EXCEPT !.alone = FALSE]
      BY <1>2 DEF Page
<1>6. \A f \in Editors : IsEditor(ed'[f])
      BY <1>4, <1>5, EdFacts, AloneUpdate
<1>7. ed' = [f \in Editors |-> ed'[f]]
      BY <1>2 DEF Page
<1>8. Types'
      BY <1>1, <1>6, <1>7 DEF IInv, Types
<1>9. Request(ed[e])'
      BY <1>1, <1>4 DEF Request, Working, NoForm
<1> QED
    BY <1>1, <1>5, <1>8, <1>9, EdFacts, EditorStep

LEMMA OwnStep ==
  ASSUME IInv, NEW e \in Editors, NEW d, IsEditor(d), ed' = [ed EXCEPT ![e] = d],
         ed'[e] = d => Request(ed[e])',
         shareSeq <= shareSeq', shareSeq' \in 0..MaxKey,
         DOMAIN shares \subseteq DOMAIN shares', DOMAIN shares' \subseteq 1..shareSeq',
         sent \subseteq sent', sent' \subseteq Form,
         \A r \in userShares' : \/ r \in userShares
                                \/ /\ r.share \in 1..shareSeq' /\ r.for \in 1..r.share
                                   /\ FromForm(r.user, r.perms, r.share)',
         UNCHANGED sess
  PROVE  IInv'
<1>1. /\ ed' = [f \in Editors |-> ed'[f]] /\ ed'[e] = d
      /\ \A f \in Editors : IsEditor(ed'[f])
      /\ \A f \in Editors \ {e} : ed'[f] = ed[f]
      BY EdUpdate DEF IInv
<1>2. Types'
      BY <1>1 DEF IInv, Types
<1> QED
    BY <1>1, <1>2, EditorStep

(* The database stays, and the editor only moves on.                       *)
LEMMA MoveStep ==
  ASSUME IInv, NEW e \in Editors, NEW d, IsEditor(d), ed' = [ed EXCEPT ![e] = d],
         ed'[e] = d => Request(ed[e])', UNCHANGED <<shares, shareSeq, sess, sent>>,
         userShares' \subseteq userShares
  PROVE  IInv'
<1>1. shareSeq <= shareSeq' /\ shareSeq' \in 0..MaxKey
      BY EdFacts DEF Types
<1>2. DOMAIN shares' \subseteq 1..shareSeq' /\ sent' \subseteq Form
      BY DEF IInv, Types
<1> QED
    BY <1>1, <1>2, OwnStep

LEMMA SubmitStep ==
  ASSUME IInv, NEW e \in Editors, Submit(e)
  PROVE  IInv'
<1>1. /\ ed[e].at = "page" /\ UNCHANGED <<shares, shareSeq, userShares, sess>>
      BY DEF Submit
<1>2. PICK list \in Lists, n \in Names, p \in Paths :
        LET form == [key |-> ed[e].key, name |-> n, path |-> p, list |-> list]
        IN  /\ ed' = [ed EXCEPT ![e] = [ed[e] EXCEPT !.at = "walk", !.form = form,
                                          !.gone = ed[e].orig \ DOMAIN list,
                                          !.left = DOMAIN list, !.own = ed[e].key]]
            /\ sent' = sent \cup {form}
      BY DEF Submit
<1> DEFINE form == [key |-> ed[e].key, name |-> n, path |-> p, list |-> list]
           d == [ed[e] EXCEPT !.at = "walk", !.form = form, !.gone = ed[e].orig \ DOMAIN list,
                              !.left = DOMAIN list, !.own = ed[e].key]
<1>3. ed' = [ed EXCEPT ![e] = d] /\ sent' = sent \cup {form}
      BY <1>2
<1>4. ed[e].key \in {NewKey} \cup DOMAIN shares /\ ed[e].key \in {NewKey} \cup 1..MaxKey
  <2>1. ed[e].key \in {NewKey} \cup DOMAIN shares
        BY <1>1, EdFacts DEF Request
  <2>2. DOMAIN shares \subseteq 1..MaxKey
        BY EdFacts, SharesAssumption DEF Types
  <2> QED
      BY <2>1, <2>2
<1>5. form \in Form
      BY <1>4 DEF Form
<1>6. DOMAIN list \subseteq Users
      BY <1>5, FormType
<1>7. form.key = ed[e].key /\ form.list = list
      OBVIOUS
<1> HIDE DEF form
<1>8. IsEditor(d)
      BY <1>4, <1>5, <1>6, EdFacts DEF IsEditor
<1>9. /\ d.at = "walk" /\ d.form = form /\ d.left = DOMAIN list /\ d.key = ed[e].key
      /\ d.own = ed[e].key
      BY EdFacts DEF IsEditor
<1> HIDE DEF d
<1>10. ASSUME ed'[e] = d PROVE Request(ed[e])'
      BY <1>1, <1>3, <1>4, <1>7, <1>9, <1>10 DEF Request, Working
<1>11. shareSeq <= shareSeq' /\ shareSeq' \in 0..MaxKey
      BY <1>1, EdFacts DEF Types
<1>12. DOMAIN shares' \subseteq 1..shareSeq' /\ sent' \subseteq Form /\ sent \subseteq sent'
      BY <1>1, <1>3, <1>5 DEF IInv, Types
<1> QED
    BY <1>1, <1>3, <1>8, <1>10, <1>11, <1>12, OwnStep

LEMMA FailStep ==
  ASSUME IInv, NEW e \in Editors, Fail(e), UNCHANGED <<shares, userShares, sess, sent>>,
         shareSeq <= shareSeq', shareSeq' \in 0..MaxKey
  PROVE  IInv'
<1> DEFINE d == [ed[e] EXCEPT !.at = "failed"]
<1>1. ed' = [ed EXCEPT ![e] = d]
      BY DEF Fail
<1>2. IsEditor(d) /\ d.at = "failed" /\ d.form = ed[e].form /\ d.key = ed[e].key
      BY EdFacts DEF IsEditor
<1> HIDE DEF d
<1>3. ASSUME ed'[e] = d PROVE Request(ed[e])'
      BY <1>2, <1>3, EdFacts DEF Request, Working
<1>4. shareSeq \in Nat /\ DOMAIN shares' \subseteq 1..shareSeq' /\ sent' \subseteq Form
      BY EdFacts, SharesAssumption DEF IInv, Types
<1> QED
    BY <1>1, <1>2, <1>3, <1>4, OwnStep

LEMMA RefusedStep ==
  ASSUME IInv, NEW e \in Editors, Refused(e) \/ StatementFails(e)
  PROVE  IInv'
<1>1. Fail(e) /\ UNCHANGED <<shares, userShares, sess, sent>>
      BY DEF Refused, StatementFails
<1>2. shareSeq \in 0..MaxKey /\ shareSeq \in Nat
      BY EdFacts DEF Types
<1>3. shareSeq' = shareSeq \/ (shareSeq' = shareSeq + 1 /\ shareSeq' <= MaxKey)
      BY DEF Refused, StatementFails
<1>4. shareSeq <= shareSeq' /\ shareSeq' \in 0..MaxKey
      BY <1>2, <1>3, SharesAssumption
<1> QED
    BY <1>1, <1>4, FailStep

LEMMA WalkStep ==
  ASSUME IInv, NEW e \in Editors, Walk(e)
  PROVE  IInv'
<1>1. ed[e].at = "walk" /\ UNCHANGED <<shares, shareSeq, sess, sent>> /\ userShares' \subseteq userShares
      BY DEF Walk
<1>2. PICK u : ed' = [ed EXCEPT ![e] = [ed[e] EXCEPT !.gone = ed[e].gone \ {u}]]
      BY DEF Walk
<1> DEFINE d == [ed[e] EXCEPT !.gone = ed[e].gone \ {u}]
<1>3. /\ IsEditor(d) /\ d.at = "walk" /\ d.form = ed[e].form /\ d.key = ed[e].key
      /\ d.own = ed[e].own /\ d.left = ed[e].left
      BY <1>1, EdFacts DEF IsEditor
<1> HIDE DEF d
<1>4. ASSUME ed'[e] = d PROVE Request(ed[e])'
      BY <1>1, <1>3, <1>4, EdFacts DEF Request, Working
<1>5. ed' = [ed EXCEPT ![e] = d]
      BY <1>2 DEF d
<1> QED
    BY <1>1, <1>3, <1>4, <1>5, MoveStep

LEMMA AddShareStep ==
  ASSUME IInv, NEW e \in Editors, AddShare(e)
  PROVE  IInv'
<1>1. /\ ed[e].at = "walk" /\ ed[e].key = NewKey /\ UNCHANGED <<userShares, sess, sent>>
      /\ shareSeq' = shareSeq + 1 /\ shareSeq < MaxKey
      /\ DOMAIN shares' = DOMAIN shares \cup {shareSeq'}
      BY DEF AddShare
<1> DEFINE d == [ed[e] EXCEPT !.at = "key", !.own = shareSeq']
<1>2. ed' = [ed EXCEPT ![e] = d]
      BY DEF AddShare
<1>3. shareSeq' \in 1..MaxKey /\ shareSeq \in Nat /\ DOMAIN shares \subseteq 1..shareSeq
      BY <1>1, EdFacts, SharesAssumption
<1>4. /\ IsEditor(d) /\ d.at = "key" /\ d.form = ed[e].form /\ d.key = ed[e].key
      /\ d.own = shareSeq' /\ d.left = ed[e].left
      BY <1>3, EdFacts DEF IsEditor
<1> HIDE DEF d
<1>5. ASSUME ed'[e] = d PROVE Request(ed[e])'
      BY <1>1, <1>3, <1>4, <1>5, EdFacts DEF Request, Working
<1>6. shareSeq <= shareSeq' /\ shareSeq' \in 0..MaxKey /\ DOMAIN shares' \subseteq 1..shareSeq'
      BY <1>1, <1>3, SharesAssumption
<1>7. sent' \subseteq Form
      BY <1>1 DEF IInv, Types
<1> QED
    BY <1>1, <1>2, <1>4, <1>5, <1>6, <1>7, OwnStep

(* The counter may have moved on, never back: the key is not older than    *)
(* the share that was added.                                               *)
LEMMA GetShareKeyStep ==
  ASSUME IInv, NEW e \in Editors, GetShareKey(e)
  PROVE  IInv'
<1>1. ed[e].at = "key" /\ UNCHANGED <<shares, shareSeq, userShares, sess, sent>>
      BY DEF GetShareKey
<1> DEFINE d == [ed[e] EXCEPT !.at = "users", !.key = shareSeq]
<1>2. ed' = [ed EXCEPT ![e] = d]
      BY DEF GetShareKey
<1>3. /\ ed[e].form.key = NewKey /\ ed[e].own \in 1..shareSeq
      /\ ed[e].form \in sent /\ ed[e].left \subseteq DOMAIN ed[e].form.list
      BY <1>1, EdFacts DEF Request, Working
<1>4. shareSeq \in 1..MaxKey
      BY <1>3, EdFacts, SharesAssumption DEF Types
<1>5. /\ IsEditor(d) /\ d.at = "users" /\ d.form = ed[e].form /\ d.key = shareSeq
      /\ d.own = ed[e].own /\ d.left = ed[e].left
      BY <1>4, EdFacts DEF IsEditor
<1> HIDE DEF d
<1>6. ASSUME ed'[e] = d PROVE Request(ed[e])'
      BY <1>1, <1>3, <1>4, <1>5, <1>6 DEF Request, Working, NewKey
<1> QED
    BY <1>1, <1>2, <1>5, <1>6, MoveStep

LEMMA UpdateShareStep ==
  ASSUME IInv, NEW e \in Editors, UpdateShare(e)
  PROVE  IInv'
<1>1. /\ ed[e].at = "walk" /\ ed[e].key # NewKey
      /\ UNCHANGED <<shareSeq, userShares, sess, sent>> /\ DOMAIN shares' = DOMAIN shares
      BY DEF UpdateShare
<1> DEFINE d == [ed[e] EXCEPT !.at = "users"]
<1>2. ed' = [ed EXCEPT ![e] = d]
      BY DEF UpdateShare
<1>3. /\ ed[e].form.key = ed[e].key /\ ed[e].own = ed[e].key /\ ed[e].key \in DOMAIN shares
      /\ ed[e].form \in sent /\ ed[e].left \subseteq DOMAIN ed[e].form.list
      BY <1>1, EdFacts DEF Request, Working
<1>4. ed[e].key \in 1..shareSeq /\ shareSeq \in Nat
      BY <1>3, EdFacts
<1>5. /\ IsEditor(d) /\ d.at = "users" /\ d.form = ed[e].form /\ d.key = ed[e].key
      /\ d.own = ed[e].own /\ d.left = ed[e].left
      BY EdFacts DEF IsEditor
<1> HIDE DEF d
<1>6. ASSUME ed'[e] = d PROVE Request(ed[e])'
      BY <1>1, <1>3, <1>4, <1>5, <1>6 DEF Request, Working
<1>7. /\ shareSeq <= shareSeq' /\ shareSeq' \in 0..MaxKey /\ DOMAIN shares' \subseteq 1..shareSeq'
      /\ sent' \subseteq Form
      BY <1>1, <1>4 DEF IInv, Types
<1> QED
    BY <1>1, <1>2, <1>5, <1>6, <1>7, OwnStep

LEMMA AddShareUserStep ==
  ASSUME IInv, NEW e \in Editors, AddShareUser(e)
  PROVE  IInv'
<1>1. ed[e].at = "users" /\ UNCHANGED <<shares, shareSeq, sess, sent>>
      BY DEF AddShareUser
<1>2. PICK u \in ed[e].left :
        /\ ed' = [ed EXCEPT ![e] = [ed[e] EXCEPT !.left = ed[e].left \ {u}]]
        /\ userShares' = userShares \cup
             {r \in [user : {u}, share : {ed[e].key}, perms : {ed[e].form.list[u]},
                     for : {ed[e].own}] :
                ~\E q \in userShares : q.user = u /\ q.share = r.share}
      BY DEF AddShareUser
<1>3. /\ ed[e].key \in 1..shareSeq /\ ed[e].own \in 1..ed[e].key /\ ed[e].form.key <= ed[e].key
      /\ ed[e].form \in sent /\ ed[e].left \subseteq DOMAIN ed[e].form.list
      /\ ed[e].form.key > 0 => ed[e].key = ed[e].form.key
      BY <1>1, EdFacts DEF Request, Working
<1> DEFINE d == [ed[e] EXCEPT !.left = ed[e].left \ {u}]
<1>4. /\ IsEditor(d) /\ d.at = "users" /\ d.form = ed[e].form /\ d.key = ed[e].key
      /\ d.own = ed[e].own /\ d.left = ed[e].left \ {u}
      BY <1>1, EdFacts DEF IsEditor
<1>5. ed' = [ed EXCEPT ![e] = d]
      BY <1>2
<1> HIDE DEF d
<1>6. ASSUME ed'[e] = d PROVE Request(ed[e])'
      BY <1>1, <1>3, <1>4, <1>6 DEF Request, Working
<1>7. \E f \in sent' : /\ u \in DOMAIN f.list /\ f.list[u] = ed[e].form.list[u]
                       /\ f.key <= ed[e].key
      BY <1>1, <1>2, <1>3
<1>8. ASSUME NEW r \in userShares', r \notin userShares
      PROVE  /\ r.share \in 1..shareSeq' /\ r.for \in 1..r.share
             /\ FromForm(r.user, r.perms, r.share)'
  <2>1. /\ r.user = u /\ r.share = ed[e].key /\ r.perms = ed[e].form.list[u]
        /\ r.for = ed[e].own
        BY <1>2, <1>8
  <2>2. r.share \in 1..shareSeq' /\ r.for \in 1..r.share
        BY <1>1, <1>3, <2>1
  <2>3. FromForm(r.user, r.perms, r.share)'
        BY <1>7, <2>1 DEF FromForm
  <2> QED
      BY <2>2, <2>3
<1>9. /\ shareSeq <= shareSeq' /\ shareSeq' \in 0..MaxKey /\ DOMAIN shares' \subseteq 1..shareSeq'
      /\ sent' \subseteq Form
      BY <1>1, EdFacts DEF IInv, Types
<1> QED
    BY <1>1, <1>4, <1>5, <1>6, <1>8, <1>9, OwnStep

LEMMA DoneStep ==
  ASSUME IInv, NEW e \in Editors, Done(e)
  PROVE  IInv'
<1>1. ed[e].at = "users" /\ UNCHANGED <<shares, shareSeq, userShares, sess, sent>>
      BY DEF Done
<1> DEFINE d == [ed[e] EXCEPT !.at = "saved"]
<1>2. ed' = [ed EXCEPT ![e] = d]
      BY DEF Done
<1>3. IsEditor(d) /\ d.at = "saved" /\ d.form = ed[e].form /\ d.key = ed[e].key
      BY EdFacts DEF IsEditor
<1> HIDE DEF d
<1>4. ASSUME ed'[e] = d PROVE Request(ed[e])'
      BY <1>3, <1>4, EdFacts DEF Request, Working
<1> QED
    BY <1>1, <1>2, <1>3, <1>4, MoveStep

(* A session takes user, key and permissions from one row.                 *)
LEMMA SessionStep ==
  ASSUME IInv, NEW s \in Sessions, Leave(s) \/ \E u \in Users : Subscribe(s, u)
  PROVE  IInv'
<1>1. UNCHANGED <<shares, shareSeq, userShares, ed, sent>>
      BY DEF Leave, Subscribe
<1>2. \/ sess' = [sess EXCEPT ![s] = NoSess]
      \/ \E r \in userShares : \E p :
           sess' = [sess EXCEPT ![s] = [user |-> r.user, share |-> r.share, perms |-> r.perms,
                                        path |-> p]]
      BY DEF Leave, Subscribe
<1>3. Types'
      BY <1>1, <1>2 DEF IInv, Types
<1>4. Requests' /\ RowsEntered'
      BY <1>1 DEF IInv, Requests, Request, Working, RowsEntered, FromForm
<1>5. SessionsFromForms'
  <2>1. \A t \in Sessions \ {s} : sess'[t] = sess[t]
        BY <1>2 DEF IInv, Types
  <2>2. sess'[s] # NoSess => FromForm(sess'[s].user, sess'[s].perms, sess'[s].share)
        BY <1>2 DEF IInv, Types, RowsEntered
  <2> QED
      BY <1>1, <2>1, <2>2 DEF IInv, SessionsFromForms, FromForm
<1> QED
    BY <1>3, <1>4, <1>5 DEF IInv

(* Every step keeps the invariant.                                         *)
LEMMA NextInv == IInv /\ [Next]_vars => IInv'
<1> SUFFICES ASSUME IInv, [Next]_vars PROVE IInv'
    OBVIOUS
<1>1. ASSUME NEW e \in Editors,
             \/ \E k \in DOMAIN shares \cup {NewKey} : OpenPage(e, k)
             \/ Submit(e) \/ StatementFails(e) \/ Walk(e) \/ Refused(e)
             \/ AddShare(e) \/ GetShareKey(e) \/ UpdateShare(e) \/ AddShareUser(e) \/ Done(e)
      PROVE  IInv'
      BY <1>1, OpenPageStep, SubmitStep, RefusedStep, WalkStep, AddShareStep, GetShareKeyStep,
         UpdateShareStep, AddShareUserStep, DoneStep
<1>2. CASE UNCHANGED vars
      BY <1>2 DEF vars, IInv, Types, Requests, Request, Working, RowsEntered, FromForm,
                  SessionsFromForms
<1> QED
    BY <1>1, <1>2, SessionStep DEF Next

(* Users of a form are stored for its share or for one that was added      *)
(* later, and for an existing share always under its own key.              *)
THEOREM UsersStrayToNewer == Spec => []StraysOnlyToNewer
<1>1. IInv => StraysOnlyToNewer
  <2> SUFFICES ASSUME IInv PROVE StraysOnlyToNewer
      OBVIOUS
  <2>1. \A r \in userShares : r.share >= r.for
        BY SharesAssumption DEF IInv, Types, RowsEntered
  <2>2. \A e \in Editors : ed[e].form.key > 0 => ed[e].key = ed[e].form.key
        BY DEF IInv, Requests, Request
  <2> QED
      BY <2>1, <2>2 DEF StraysOnlyToNewer
<1> QED
    BY <1>1, InitInv, NextInv, PTL DEF Spec

(* What a subscribed session may do was entered for its user in a form     *)
(* that was sent, for this share or an older one.                          *)
THEOREM SessionsAsEntered == Spec => []SessionsFromForms
<1>1. IInv => SessionsFromForms
      BY DEF IInv
<1> QED
    BY <1>1, InitInv, NextInv, PTL DEF Spec

-----------------------------------------------------------------------------
(* What get_shares shows, by induction over the rows and over the keys.  A *)
(* set of numbers that is not empty has a least one: were there a place    *)
(* where the claim fails, there would be a first one.                      *)
LEMMA Least ==
  ASSUME NEW T \in SUBSET Nat, T # {}
  PROVE  \E m \in T : \A k \in T : m <= k
<1>1. PICK m \in T : \A y \in T : ~(<<y, m>> \in OpToRel(<, Nat))
      BY NatLessThanWellFounded, WFMin
<1>2. \A y \in T : ~(y < m)
      BY <1>1 DEF OpToRel
<1> QED
    BY <1>2

JoinedRow == [share : Nat, user : Users \cup {0}]
NoPage    == [done |-> <<>>, cur |-> [share |-> NewKey, users |-> {}]]

(* f is what the loop has collected after each of the rows.                *)
Collects(f, rows) ==
  f = [n \in 0..Len(rows) |-> IF n = 0 THEN NoPage ELSE NextRow(f[n - 1], rows[n])]

LEMMA CollectsExists ==
  ASSUME NEW rows, Len(rows) \in Nat
  PROVE  \E f : Collects(f, rows)
<1> DEFINE Upto(f, m) ==
      f = [n \in 0..m |-> IF n = 0 THEN NoPage ELSE NextRow(f[n - 1], rows[n])]
<1> DEFINE T == {m \in Nat : ~\E f : Upto(f, m)}
<1>1. SUFFICES T = {}
      BY <1>1 DEF Collects
<1>2. SUFFICES ASSUME T # {} PROVE FALSE
      OBVIOUS
<1>3. PICK m \in T : \A k \in T : m <= k
      BY <1>2, Least
<1>4. m # 0
  <2>1. Upto([n \in 0..0 |-> NoPage], 0)
        OBVIOUS
  <2> QED
      BY <2>1
<1>5. m - 1 \in Nat /\ m - 1 \notin T
  <2>1. m \in Nat
        BY <1>3
  <2> HIDE DEF T
  <2>2. m - 1 \in Nat /\ ~(m <= m - 1)
        BY ONLY <2>1, <1>4
  <2> QED
      BY <1>3, <2>2
<1>6. PICK f : Upto(f, m - 1)
      BY <1>5
<1> DEFINE g == [n \in 0..m |-> IF n = m THEN NextRow(f[m - 1], rows[m]) ELSE f[n]]
<1>7. Upto(g, m)
  <2>1. ASSUME NEW n \in 0..m
        PROVE  g[n] = IF n = 0 THEN NoPage ELSE NextRow(g[n - 1], rows[n])
    <3>1. CASE n = m
          BY <3>1, <1>4
    <3>2. CASE n # m
          BY <3>2, <1>6
    <3> QED
        BY <3>1, <3>2
  <2> HIDE DEF g
  <2>2. g = [n \in 0..m |-> g[n]]
        BY DEF g
  <2> QED
      BY <2>1, <2>2
<1> QED
    BY <1>7

LEMMA CollectedIs ==
  ASSUME NEW rows, Len(rows) \in Nat
  PROVE  \E f : Collects(f, rows) /\ Collected(rows) = f[Len(rows)]
<1> DEFINE f == CHOOSE f : Collects(f, rows)
<1>1. Collects(f, rows)
      BY CollectsExists
<1>2. Collected(rows) = f[Len(rows)]
      BY DEF Collected, Collects, NoPage
<1> QED
    BY <1>1, <1>2

LEMMA CollectsStep ==
  ASSUME NEW rows, Len(rows) \in Nat, NEW f, Collects(f, rows)
  PROVE  /\ f[0] = NoPage
         /\ \A n \in 1..Len(rows) : f[n] = NextRow(f[n - 1], rows[n])
BY DEF Collects

Table == IsFiniteSet(userShares) /\ \A r \in userShares : r.user \in Users

(* The rows of one share: one of each of its users, or one without a user. *)
Sharing(k) == {r \in userShares : r.share = k}

LEMMA Listing ==
  ASSUME NEW S, IsFiniteSet(S)
  PROVE  /\ Cardinality(S) \in Nat
         /\ SetToSeq(S) \in [1..Cardinality(S) -> S]
         /\ \A r \in S : \E n \in 1..Cardinality(S) : SetToSeq(S)[n] = r
<1> DEFINE c == Cardinality(S)
<1>1. c \in Nat /\ ExistsBijection(1..c, S)
      BY FS_CardinalityType
<1>2. \E f \in [1..c -> S] : IsInjective(f)
      BY <1>1 DEF ExistsBijection, Bijection, Injection, IsInjective
<1>3. SetToSeq(S) \in [1..c -> S] /\ IsInjective(SetToSeq(S))
      BY <1>2 DEF SetToSeq
<1>4. SetToSeq(S) \in Injection(1..c, S)
      BY <1>3 DEF Injection, IsInjective
<1>5. IsFiniteSet(1..c) /\ Cardinality(1..c) = c
      BY <1>1, FS_Interval
<1>6. SetToSeq(S) \in Surjection(1..c, S)
      BY <1>1, <1>4, <1>5, FS_Injection
<1> QED
    BY <1>1, <1>3, <1>6 DEF Surjection

LEMMA RowsOfIs ==
  ASSUME Table, NEW k \in Nat
  PROVE  /\ RowsOf(k) \in Seq(JoinedRow)
         /\ Len(RowsOf(k)) > 0
         /\ \A n \in 1..Len(RowsOf(k)) : RowsOf(k)[n].share = k
         /\ {RowsOf(k)[n].user : n \in 1..Len(RowsOf(k))} \ {0} = Entered(k)
<1> DEFINE us == Sharing(k)
           c  == Cardinality(us)
<1>1. IsFiniteSet(us)
      BY FS_Subset DEF Sharing, Table
<1>2. \A r \in us : r.user \in Users
      BY DEF Table, Sharing
<1>3. Entered(k) = {r.user : r \in us}
      BY DEF Entered, Sharing
<1>4. CASE us = {}
  <2>1. RowsOf(k) = <<[share |-> k, user |-> 0]>>
        BY <1>4 DEF RowsOf, Sharing
  <2>2. [share |-> k, user |-> 0] \in JoinedRow
        BY DEF JoinedRow
  <2>3. /\ RowsOf(k) \in Seq(JoinedRow) /\ Len(RowsOf(k)) = 1
        /\ RowsOf(k)[1] = [share |-> k, user |-> 0]
        BY <2>1, <2>2
  <2>4. {RowsOf(k)[n].user : n \in 1..1} \ {0} = {}
        BY <2>3
  <2>5. Entered(k) = {}
        BY <1>3, <1>4
  <2> QED
      BY <2>3, <2>4, <2>5
<1>5. CASE us # {}
  <2>1. RowsOf(k) = [n \in 1..c |-> [share |-> k, user |-> SetToSeq(us)[n].user]]
        BY <1>5 DEF RowsOf, Sharing
  <2>2. c \in Nat /\ c # 0
        BY <1>1, <1>5, FS_EmptySet, FS_CardinalityType
  <2>3. /\ \A n \in 1..c : SetToSeq(us)[n] \in us
        /\ \A r \in us : \E n \in 1..c : SetToSeq(us)[n] = r
        BY <1>1, Listing
  <2>4. \A n \in 1..c : [share |-> k, user |-> SetToSeq(us)[n].user] \in JoinedRow
        BY <1>2, <2>3 DEF JoinedRow
  <2> HIDE DEF us, c
  <2>5. RowsOf(k) \in Seq(JoinedRow) /\ Len(RowsOf(k)) = c
        BY <2>1, <2>2, <2>4
  <2>6. \A n \in 1..c : RowsOf(k)[n].share = k /\ RowsOf(k)[n].user = SetToSeq(us)[n].user
        BY <2>1
  <2>7. {RowsOf(k)[n].user : n \in 1..c} \ {0} = Entered(k)
    <3>1. 0 \notin Entered(k)
          BY <1>2, <1>3, SharesAssumption
    <3>2. {RowsOf(k)[n].user : n \in 1..c} \subseteq Entered(k)
          BY <1>3, <2>3, <2>6
    <3>3. Entered(k) \subseteq {RowsOf(k)[n].user : n \in 1..c}
          BY <1>3, <2>3, <2>6
    <3> QED
        BY <3>1, <3>2, <3>3
  <2> QED
      BY <2>2, <2>5, <2>6, <2>7
<1> QED
    BY <1>4, <1>5

(* What GetShares makes of what was collected.                             *)
PageOf(acc) == IF acc.cur.share = NewKey THEN acc.done ELSE Append(acc.done, acc.cur)

Share == [share : Nat, users : SUBSET Users]

IsCollected(acc) ==
  /\ acc = [done |-> acc.done, cur |-> acc.cur]
  /\ acc.done \in Seq(Share)
  /\ \/ acc.cur \in Share
     \/ acc.cur = NoPage.cur /\ acc.done = <<>>

LEMMA PageOfType ==
  ASSUME NEW acc, IsCollected(acc) PROVE PageOf(acc) \in Seq(Share)
<1>1. CASE acc.cur.share = NewKey
      BY <1>1 DEF IsCollected, PageOf
<1>2. CASE acc.cur.share # NewKey
  <2>1. acc.cur \in Share /\ acc.done \in Seq(Share)
        BY <1>2 DEF IsCollected, NoPage
  <2> QED
      BY <1>2, <2>1, AppendProperties DEF PageOf
<1> QED
    BY <1>1, <1>2

UsersUpTo(s, m) == {s[n].user : n \in 1..m} \ {0}

(* Reading the rows of one share after those of others finishes the share  *)
(* before it and collects all its users.                                   *)
LEMMA ShareRead ==
  ASSUME NEW f, NEW rows \in Seq(JoinedRow), Collects(f, rows), NEW a \in 0..Len(rows),
         NEW k \in Nat, NEW t \in Seq(JoinedRow), Len(t) > 0, Len(rows) = a + Len(t),
         \A n \in 1..Len(t) : rows[a + n] = t[n] /\ t[n].share = k,
         IsCollected(f[a]), f[a].cur.share # k
  PROVE  f[Len(rows)] = [done |-> PageOf(f[a]),
                         cur  |-> [share |-> k, users |-> UsersUpTo(t, Len(t))]]
<1> DEFINE Res(m) == [done |-> PageOf(f[a]), cur |-> [share |-> k, users |-> UsersUpTo(t, m)]]
           T == {m \in 1..Len(t) : f[a + m] # Res(m)}
<1>1. SUFFICES ASSUME T # {} PROVE FALSE
  <2>1. Len(t) \in 1..Len(t)
        OBVIOUS
  <2>2. T = {} => f[a + Len(t)] = Res(Len(t))
        BY ONLY <2>1
  <2> QED
      BY <2>2
<1>2. PICK m \in T : \A j \in T : m <= j
  <2>1. T \in SUBSET Nat
        OBVIOUS
  <2> HIDE DEF T
  <2> QED
      BY <1>1, <2>1, Least
<1>3. m \in 1..Len(t) /\ f[a + m] # Res(m)
      OBVIOUS
<1>4. /\ f[a + m] = NextRow(f[a + m - 1], t[m])
      /\ t[m] = [share |-> k, user |-> t[m].user] /\ t[m].user \in Users \cup {0}
  <2>1. a + m \in 1..Len(rows) /\ rows[a + m] = t[m]
        BY <1>3
  <2>2. t[m] \in JoinedRow /\ t[m].share = k
        BY <1>3
  <2>3. f[a + m] = NextRow(f[a + m - 1], rows[a + m])
        BY <2>1, CollectsStep
  <2> QED
      BY <2>1, <2>2, <2>3 DEF JoinedRow
<1>5. CASE m = 1
  <2>1. UsersUpTo(t, 1) = IF t[1].user = 0 THEN {} ELSE {t[1].user}
        BY DEF UsersUpTo
  <2>2. a + m - 1 = a
        BY <1>5
  <2>3. NextRow(f[a], t[1]) = [done |-> PageOf(f[a]),
                               cur |-> [share |-> k, users |-> UsersUpTo(t, 1)]]
        BY <1>4, <1>5, <2>1 DEF NextRow, PageOf
  <2> QED
      BY <1>3, <1>4, <1>5, <2>2, <2>3
<1>6. CASE m # 1
  <2>1. m - 1 \in 1..Len(t) /\ m - 1 \notin T
        BY <1>2, <1>3, <1>6
  <2>2. f[a + (m - 1)] = Res(m - 1) /\ a + (m - 1) = a + m - 1
        BY <2>1
  <2>3. UsersUpTo(t, m) = UsersUpTo(t, m - 1) \cup (IF t[m].user = 0 THEN {} ELSE {t[m].user})
    <3>1. \A n : n \in 1..m <=> n \in 1..(m - 1) \/ n = m
          BY <1>3
    <3> QED
        BY <3>1 DEF UsersUpTo
  <2>4. NextRow(Res(m - 1), t[m]) = Res(m)
        BY <1>4, <2>3 DEF NextRow
  <2> QED
      BY <1>3, <1>4, <2>2, <2>4
<1> QED
    BY <1>5, <1>6

(* The page of one share: get_shares with a key.                           *)
LEMMA OnePage ==
  ASSUME Table, NEW k \in Nat
  PROVE  GetShares(RowsOf(k)) = <<[share |-> k, users |-> Entered(k)]>>
<1> DEFINE s == RowsOf(k)
<1>1. /\ s \in Seq(JoinedRow) /\ Len(s) > 0
      /\ \A n \in 1..Len(s) : s[n].share = k
      /\ UsersUpTo(s, Len(s)) = Entered(k)
      BY RowsOfIs DEF UsersUpTo
<1> HIDE DEF s
<1>2. PICK f : Collects(f, s) /\ Collected(s) = f[Len(s)]
      BY <1>1, CollectedIs
<1>3. f[0] = NoPage
      BY <1>1, <1>2, CollectsStep
<1>4. IsCollected(NoPage) /\ NoPage.cur.share # k /\ PageOf(NoPage) = <<>>
      BY DEF IsCollected, NoPage, NewKey, PageOf
<1>5. Collected(s) = [done |-> <<>>, cur |-> [share |-> k, users |-> Entered(k)]]
  <2>1. 0 \in 0..Len(s) /\ Len(s) = 0 + Len(s)
        BY <1>1
  <2>2. \A n \in 1..Len(s) : s[0 + n] = s[n] /\ s[n].share = k
        BY <1>1
  <2>3. IsCollected(f[0]) /\ f[0].cur.share # k /\ PageOf(f[0]) = <<>>
        BY <1>3, <1>4
  <2>4. f[Len(s)] = [done |-> PageOf(f[0]),
                     cur |-> [share |-> k, users |-> UsersUpTo(s, Len(s))]]
        BY ONLY <1>1, <1>2, <2>1, <2>2, <2>3, k \in Nat, ShareRead
  <2> QED
      BY <1>1, <1>2, <2>3, <2>4
<1>6. k # NewKey
      BY DEF NewKey
<1> QED
    BY <1>5, <1>6 DEF GetShares, s

-----------------------------------------------------------------------------
(* The list of all shares: the rows of the first k keys, and what they     *)
(* show.                                                                   *)

Joins(u) ==
  u = [k \in 0..MaxKey |->
         IF k = 0 THEN <<>>
         ELSE u[k - 1] \o IF k \in DOMAIN shares THEN RowsOf(k) ELSE <<>>]

LEMMA JoinsExists == \E u : Joins(u)
<1> DEFINE Row(p, k) == IF k = 0 THEN <<>>
                        ELSE p \o IF k \in DOMAIN shares THEN RowsOf(k) ELSE <<>>
           Upto(u, m) == u = [k \in 0..m |-> Row(u[k - 1], k)]
           T == {m \in Nat : ~\E u : Upto(u, m)}
<1>1. SUFFICES T = {}
  <2>1. ASSUME NEW u PROVE Upto(u, MaxKey) <=> Joins(u)
        BY DEF Joins
  <2>2. T = {} => \E u : Upto(u, MaxKey)
        BY SharesAssumption
  <2> QED
      BY <2>1, <2>2
<1>2. SUFFICES ASSUME T # {} PROVE FALSE
      OBVIOUS
<1>3. PICK m \in T : \A k \in T : m <= k
      BY <1>2, Least
<1>4. m # 0
  <2>1. Upto([k \in 0..0 |-> <<>>], 0)
        OBVIOUS
  <2> QED
      BY <2>1
<1>5. m - 1 \in Nat /\ m - 1 \notin T
  <2>1. T \subseteq Nat
        OBVIOUS
  <2> HIDE DEF T
  <2> QED
      BY <1>3, <1>4, <2>1
<1>6. PICK u : Upto(u, m - 1)
      BY <1>5
<1> HIDE DEF Row
<1> DEFINE v == [k \in 0..m |-> IF k = m THEN Row(u[m - 1], m) ELSE u[k]]
<1>7. Upto(v, m)
  <2>1. ASSUME NEW k \in 0..m
        PROVE  v[k] = Row(v[k - 1], k)
    <3>1. CASE k = m
          BY <3>1, <1>4
    <3>2. CASE k # m /\ k # 0
          BY <3>2, <1>6
    <3>3. CASE k = 0
          BY <3>3, <1>4, <1>6 DEF Row
    <3> QED
        BY <3>1, <3>2, <3>3
  <2> HIDE DEF v
  <2>2. v = [k \in 0..m |-> v[k]]
        BY DEF v
  <2> QED
      BY <2>1, <2>2
<1> QED
    BY <1>7

LEMMA JoinedIs == \E u : Joins(u) /\ JoinedRows = u[MaxKey]
<1> DEFINE u == CHOOSE u : Joins(u)
<1>1. Joins(u)
      BY JoinsExists
<1>2. JoinedRows = u[MaxKey]
      BY DEF JoinedRows, Joins
<1> QED
    BY <1>1, <1>2

LEMMA JoinsStep ==
  ASSUME NEW u, Joins(u)
  PROVE  /\ u[0] = <<>>
         /\ \A k \in 1..MaxKey :
              u[k] = u[k - 1] \o IF k \in DOMAIN shares THEN RowsOf(k) ELSE <<>>
<1>1. u[0] = <<>>
      BY SharesAssumption DEF Joins
<1>2. ASSUME NEW k \in 1..MaxKey
      PROVE  u[k] = u[k - 1] \o IF k \in DOMAIN shares THEN RowsOf(k) ELSE <<>>
      BY SharesAssumption DEF Joins
<1> QED
    BY <1>1, <1>2

(* The first k shares, each once and with its users.                       *)
Shows(page, k) ==
  /\ Len(page) = Cardinality(DOMAIN shares \cap 1..k)
  /\ \A j \in DOMAIN shares \cap 1..k :
       \E n \in DOMAIN page : page[n] = [share |-> j, users |-> Entered(j)]

Shown(rows, k) ==
  \A f : Collects(f, rows) =>
    LET acc == f[Len(rows)]
    IN  IsCollected(acc) /\ Shows(PageOf(acc), k) /\ acc.cur.share <= k /\ acc.cur.share \in Int

LEMMA CollectsBefore ==
  ASSUME NEW rows \in Seq(JoinedRow), NEW t \in Seq(JoinedRow), NEW f, Collects(f, rows \o t)
  PROVE  \E g : Collects(g, rows) /\ g[Len(rows)] = f[Len(rows)]
<1> DEFINE g == [n \in 0..Len(rows) |-> f[n]]
<1>1. /\ Len(rows \o t) = Len(rows) + Len(t)
      /\ \A n \in 1..Len(rows) : (rows \o t)[n] = rows[n]
      BY ConcatProperties
<1>2. ASSUME NEW n \in 0..Len(rows)
      PROVE  g[n] = IF n = 0 THEN NoPage ELSE NextRow(g[n - 1], rows[n])
  <2>1. n \in 0..Len(rows \o t) /\ Len(rows \o t) \in Nat
        BY <1>1
  <2>2. CASE n = 0
        BY <2>1, <2>2, CollectsStep
  <2>3. CASE n # 0
    <3>1. f[n] = NextRow(f[n - 1], (rows \o t)[n])
      <4>1. n \in 1..Len(rows \o t)
            BY <2>1, <2>3
      <4> QED
          BY <2>1, <4>1, CollectsStep
    <3>2. (rows \o t)[n] = rows[n] /\ g[n] = f[n] /\ g[n - 1] = f[n - 1]
          BY <1>1, <2>3
    <3> QED
        BY <3>1, <3>2, <2>3
  <2> QED
      BY <2>2, <2>3
<1> HIDE DEF g
<1>3. g = [n \in 0..Len(rows) |-> g[n]] /\ g[Len(rows)] = f[Len(rows)]
      BY DEF g
<1>4. Collects(g, rows)
      BY <1>2, <1>3 DEF Collects
<1> QED
    BY <1>3, <1>4

LEMMA ShowsNext ==
  ASSUME NEW acc, IsCollected(acc), NEW k \in 1..MaxKey, Shows(PageOf(acc), k - 1)
  PROVE  /\ k \notin DOMAIN shares => Shows(PageOf(acc), k)
         /\ k \in DOMAIN shares =>
              Shows(Append(PageOf(acc), [share |-> k, users |-> Entered(k)]), k)
<1> DEFINE D(m) == DOMAIN shares \cap 1..m
<1>1. PageOf(acc) \in Seq(Share)
      BY PageOfType
<1>2. D(k) = IF k \in DOMAIN shares THEN D(k - 1) \cup {k} ELSE D(k - 1)
  <2>1. \A j : j \in 1..k <=> j \in 1..(k - 1) \/ j = k
        BY SharesAssumption
  <2> QED
      BY <2>1
<1>3. k \notin D(k - 1)
      BY SharesAssumption
<1>4. IsFiniteSet(D(k - 1))
  <2>1. IsFiniteSet(1..(k - 1))
        BY SharesAssumption, FS_Interval
  <2> QED
      BY <2>1, FS_Subset
<1>5. CASE k \notin DOMAIN shares
      BY <1>2, <1>5 DEF Shows
<1>6. CASE k \in DOMAIN shares
  <2> DEFINE p == PageOf(acc)
             x == [share |-> k, users |-> Entered(k)]
  <2>1. /\ Len(Append(p, x)) = Len(p) + 1 /\ Len(p) \in Nat
        /\ \A n \in DOMAIN p : n \in DOMAIN Append(p, x) /\ Append(p, x)[n] = p[n]
        /\ Len(p) + 1 \in DOMAIN Append(p, x) /\ Append(p, x)[Len(p) + 1] = x
        BY <1>1
  <2>2. Cardinality(D(k)) = Cardinality(D(k - 1)) + 1
        BY <1>2, <1>3, <1>4, <1>6, FS_AddElement
  <2> HIDE DEF x, p
  <2>3. ASSUME NEW j \in D(k)
        PROVE  \E n \in DOMAIN Append(p, x) : Append(p, x)[n] = [share |-> j, users |-> Entered(j)]
    <3>1. CASE j = k
          BY <2>1, <3>1 DEF x
    <3>2. CASE j \in D(k - 1)
      <4>1. PICK n \in DOMAIN p : p[n] = [share |-> j, users |-> Entered(j)]
            BY <3>2 DEF Shows, p
      <4> QED
          BY <2>1, <4>1
    <3> QED
        BY <3>1, <3>2, <1>2, <1>6
  <2>4. Len(Append(p, x)) = Cardinality(D(k))
        BY <2>1, <2>2 DEF Shows, p
  <2> QED
      BY <2>3, <2>4, <1>6 DEF Shows, x, p
<1> QED
    BY <1>5, <1>6

LEMMA ShownNext ==
  ASSUME Table, NEW k \in 1..MaxKey, NEW rows \in Seq(JoinedRow), Shown(rows, k - 1)
  PROVE  Shown(rows \o IF k \in DOMAIN shares THEN RowsOf(k) ELSE <<>>, k)
<1> DEFINE t == IF k \in DOMAIN shares THEN RowsOf(k) ELSE <<>>
<1>0. k \in Nat /\ k # NewKey
      BY SharesAssumption DEF NewKey
<1>1. t \in Seq(JoinedRow)
      BY <1>0, RowsOfIs
<1> HIDE DEF t
<1>2. SUFFICES ASSUME NEW f, Collects(f, rows \o t)
               PROVE  LET acc == f[Len(rows \o t)]
                      IN  /\ IsCollected(acc) /\ Shows(PageOf(acc), k)
                          /\ acc.cur.share <= k /\ acc.cur.share \in Int
      BY DEF Shown, t
<1> DEFINE acc == f[Len(rows)]
<1>3. /\ IsCollected(acc) /\ Shows(PageOf(acc), k - 1)
      /\ acc.cur.share <= k - 1 /\ acc.cur.share \in Int
      BY <1>1, <1>2, CollectsBefore DEF Shown
<1> HIDE DEF acc
<1>4. CASE k \notin DOMAIN shares
  <2>1. rows \o t = rows
        BY <1>4 DEF t
  <2>2. Shows(PageOf(acc), k)
        BY <1>3, <1>4, ShowsNext
  <2> QED
      BY <1>0, <1>3, <2>1, <2>2 DEF acc
<1>5. CASE k \in DOMAIN shares
  <2> DEFINE x == [share |-> k, users |-> Entered(k)]
  <2>1. /\ t \in Seq(JoinedRow) /\ Len(t) > 0
        /\ \A n \in 1..Len(t) : t[n].share = k
        /\ UsersUpTo(t, Len(t)) = Entered(k)
        BY <1>0, <1>5, RowsOfIs DEF UsersUpTo, t
  <2>2. /\ rows \o t \in Seq(JoinedRow) /\ Len(rows \o t) = Len(rows) + Len(t)
        /\ Len(rows) \in 0..Len(rows \o t)
        /\ \A n \in 1..Len(t) : (rows \o t)[Len(rows) + n] = t[n]
        BY <1>1, ConcatProperties
  <2>3. IsCollected(f[Len(rows)]) /\ f[Len(rows)].cur.share # k
        BY <1>0, <1>3 DEF acc
  <2>4. f[Len(rows \o t)] = [done |-> PageOf(acc), cur |-> x]
    <3>1. f[Len(rows \o t)] = [done |-> PageOf(f[Len(rows)]),
                               cur  |-> [share |-> k, users |-> UsersUpTo(t, Len(t))]]
      <4>1. \A n \in 1..Len(t) : (rows \o t)[Len(rows) + n] = t[n] /\ t[n].share = k
            BY <2>1, <2>2
      <4> DEFINE r == rows \o t
                 a == Len(rows)
      <4>2. /\ r \in Seq(JoinedRow) /\ Collects(f, r) /\ a \in 0..Len(r)
            /\ Len(r) = a + Len(t) /\ \A n \in 1..Len(t) : r[a + n] = t[n] /\ t[n].share = k
            /\ IsCollected(f[a]) /\ f[a].cur.share # k
            BY <1>2, <2>2, <2>3, <4>1
      <4> HIDE DEF r, a
      <4>3. f[Len(r)] = [done |-> PageOf(f[a]),
                         cur  |-> [share |-> k, users |-> UsersUpTo(t, Len(t))]]
            BY ONLY <1>0, <2>1, <4>2, ShareRead
      <4> QED
          BY <4>3 DEF r, a
    <3> QED
        BY <2>1, <3>1 DEF acc
  <2>5. x \in Share /\ PageOf(acc) \in Seq(Share)
    <3>1. Entered(k) \in SUBSET Users
          BY DEF Entered, Table
    <3> QED
        BY <3>1, <1>0, <1>3, PageOfType DEF Share
  <2> DEFINE end == f[Len(rows \o t)]
  <2>6. IsCollected(end) /\ PageOf(end) = Append(PageOf(acc), x) /\ end.cur.share = k
        BY <2>4, <2>5, <1>0 DEF IsCollected, PageOf
  <2> HIDE DEF end, x
  <2>7. Shows(PageOf(end), k)
        BY <1>3, <1>5, <2>6, ShowsNext DEF x
  <2> QED
      BY <1>0, <2>6, <2>7 DEF end
<1> QED
    BY <1>4, <1>5

LEMMA AllShown ==
  ASSUME Table, NEW u, Joins(u), NEW k \in 0..MaxKey
  PROVE  u[k] \in Seq(JoinedRow) /\ Shown(u[k], k)
<1> DEFINE T == {m \in 0..MaxKey : ~(u[m] \in Seq(JoinedRow) /\ Shown(u[m], m))}
<1>1. SUFFICES ASSUME T # {} PROVE FALSE
      OBVIOUS
<1>2. T \in SUBSET Nat
      BY SharesAssumption
<1>3. PICK m \in T : \A j \in T : m <= j
  <2> HIDE DEF T
  <2> QED
      BY <1>1, <1>2, Least
<1>4. m \in 0..MaxKey /\ ~(u[m] \in Seq(JoinedRow) /\ Shown(u[m], m))
      OBVIOUS
<1>5. CASE m = 0
  <2>1. u[m] = <<>>
        BY <1>5, JoinsStep
  <2>2. Shown(<<>>, 0)
    <3> SUFFICES ASSUME NEW f, Collects(f, <<>>)
                 PROVE  /\ IsCollected(f[0]) /\ Shows(PageOf(f[0]), 0)
                        /\ f[0].cur.share <= 0 /\ f[0].cur.share \in Int
        BY DEF Shown
    <3>1. f[0] = NoPage
          BY CollectsStep
    <3>2. IsCollected(NoPage) /\ PageOf(NoPage) = <<>> /\ NoPage.cur.share = -1
          BY DEF IsCollected, NoPage, NewKey, PageOf
    <3>3. Shows(<<>>, 0)
          BY FS_EmptySet DEF Shows
    <3> QED
        BY <3>1, <3>2, <3>3
  <2> QED
      BY <1>4, <1>5, <2>1, <2>2
<1>6. CASE m # 0
  <2>1. m \in 1..MaxKey /\ m - 1 \in 0..MaxKey /\ m - 1 \notin T
    <3> HIDE DEF T
    <3> QED
        BY <1>2, <1>3, <1>4, <1>6, SharesAssumption
  <2>2. u[m - 1] \in Seq(JoinedRow) /\ Shown(u[m - 1], m - 1)
        BY <2>1
  <2>3. u[m] = u[m - 1] \o IF m \in DOMAIN shares THEN RowsOf(m) ELSE <<>>
        BY <2>1, JoinsStep
  <2>4. (IF m \in DOMAIN shares THEN RowsOf(m) ELSE <<>>) \in Seq(JoinedRow)
        BY <1>2, <1>3, RowsOfIs
  <2>5. u[m] \in Seq(JoinedRow)
        BY <2>2, <2>3, <2>4
  <2>6. Shown(u[m], m)
        BY <2>1, <2>2, <2>3, ShownNext
  <2> QED
      BY <1>4, <2>5, <2>6
<1> QED
    BY <1>5, <1>6

LEMMA TableListed ==
  ASSUME Table, DOMAIN shares \subseteq 1..MaxKey
  PROVE  ListComplete
<1>1. PICK u : Joins(u) /\ JoinedRows = u[MaxKey]
      BY JoinedIs
<1>2. JoinedRows \in Seq(JoinedRow) /\ Shown(JoinedRows, MaxKey)
      BY <1>1, SharesAssumption, AllShown
<1>3. PICK f : Collects(f, JoinedRows) /\ Collected(JoinedRows) = f[Len(JoinedRows)]
      BY <1>2, CollectedIs
<1>4. Shows(PageOf(Collected(JoinedRows)), MaxKey)
      BY <1>2, <1>3 DEF Shown
<1>5. GetShares(JoinedRows) = PageOf(Collected(JoinedRows))
      BY DEF GetShares, PageOf
<1>6. DOMAIN shares \cap 1..MaxKey = DOMAIN shares
      OBVIOUS
<1>7. \A k \in DOMAIN shares : GetShares(RowsOf(k)) = <<[share |-> k, users |-> Entered(k)]>>
      BY OnePage
<1> QED
    BY <1>4, <1>5, <1>6, <1>7 DEF ListComplete, Shows

(* The table stays finite: each statement enters at most one row.          *)
LEMMA InitTable == Init => Table
BY FS_EmptySet DEF Init, Table

LEMMA NextTable == IInv /\ Table /\ [Next]_vars => Table'
<1> SUFFICES ASSUME IInv, Table, [Next]_vars PROVE Table'
    OBVIOUS
<1>1. CASE UNCHANGED userShares
      BY <1>1 DEF Table
<1>2. ASSUME NEW e \in Editors, Walk(e) PROVE Table'
  <2>1. userShares' \subseteq userShares
        BY <1>2 DEF Walk
  <2>2. IsFiniteSet(userShares')
        BY <2>1, FS_Subset DEF Table
  <2> QED
      BY <2>1, <2>2 DEF Table
<1>3. ASSUME NEW e \in Editors, AddShareUser(e) PROVE Table'
  <2>1. PICK u \in ed[e].left :
          userShares' \subseteq userShares \cup
            {[user |-> u, share |-> ed[e].key, perms |-> ed[e].form.list[u], for |-> ed[e].own]}
        BY <1>3 DEF AddShareUser
  <2>2. u \in Users
        BY <1>3, EdFacts DEF AddShareUser, Request, Working
  <2> DEFINE r == [user |-> u, share |-> ed[e].key, perms |-> ed[e].form.list[u],
                   for |-> ed[e].own]
  <2>3. IsFiniteSet(userShares \cup {r})
        BY FS_AddElement DEF Table
  <2>4. IsFiniteSet(userShares')
        BY <2>1, <2>3, FS_Subset
  <2>5. \A q \in userShares' : q.user \in Users
        BY <2>1, <2>2 DEF Table
  <2> QED
      BY <2>4, <2>5 DEF Table
<1> QED
    BY <1>1, <1>2, <1>3 DEF Next, vars, OpenPage, Submit, StatementFails, Refused, AddShare,
       GetShareKey, UpdateShare, Done, Leave, Subscribe

(* get_shares shows every share once, with all its users: in the list, and *)
(* on the page of each share.                                              *)
THEOREM SharesListed == Spec => []ListComplete
<1>1. IInv /\ Table => ListComplete
  <2>1. Types => DOMAIN shares \subseteq 1..MaxKey
        BY SharesAssumption DEF Types
  <2> QED
      BY <2>1, TableListed DEF IInv
<1> QED
    BY <1>1, InitInv, NextInv, InitTable, NextTable, PTL DEF Spec

-----------------------------------------------------------------------------
(* A save that no other editor disturbs.  Stage by stage, the users that   *)
(* the share has are those that the page showed, less the ones that were   *)
(* deleted, and then those of the form that are added.                     *)

Listed(d) == DOMAIN d.form.list

RowOf(d) == [name |-> d.form.name, path |-> d.form.path]

AsEntered(d) ==
  /\ shares[d.own] = RowOf(d)
  /\ \A r \in userShares : r.share = d.own /\ r.user \notin d.orig =>
       r.perms = d.form.list[r.user]

Staged(d) ==
  /\ d.at # "idle"
  /\ d.at \in {"page", "walk"} /\ d.key = NewKey => d.orig = {}
  /\ d.at = "page" => Entered(d.key) = d.orig
  /\ d.at = "walk" => /\ d.gone \cap Listed(d) = {} /\ d.left = Listed(d)
                      /\ Entered(d.key) = (d.orig \cap Listed(d)) \cup d.gone
  /\ d.at = "key" => /\ d.own = shareSeq /\ Entered(d.own) = {} /\ d.orig = {}
                     /\ d.left = Listed(d) /\ AsEntered(d)
  /\ d.at = "users" => /\ d.key = d.own /\ AsEntered(d)
                       /\ Entered(d.own) = (d.orig \cap Listed(d)) \cup (Listed(d) \ d.left)
  /\ d.at = "saved" => Entered(d.own) = Listed(d) /\ AsEntered(d)

Undisturbed ==
  \A e \in Editors : ed[e].alone => Staged(ed[e]) /\ \A g \in Editors \ {e} : AtRest(g)

LEMMA InitUndisturbed == Init => Undisturbed
  BY DEF Init, NoEd, Undisturbed

LEMMA EnteredHas ==
  \A k, u : u \in Entered(k) <=> \E r \in userShares : r.share = k /\ r.user = u
  BY DEF Entered

(* What the step of an editor at work has to show: no other editor is      *)
(* undisturbed meanwhile.                                                  *)
LEMMA StagedStep ==
  ASSUME Types, Undisturbed, NEW e \in Editors, ~AtRest(e),
         NEW d, IsEditor(d), ed' = [ed EXCEPT ![e] = d], d.alone = ed[e].alone,
         (ed'[e] = d /\ ed[e].alone /\ Staged(ed[e])) => Staged(ed[e])'
  PROVE  Undisturbed'
<1>1. ed'[e] = d /\ \A f \in Editors \ {e} : ed'[f] = ed[f]
      BY EdUpdate
<1>2. \A f \in Editors \ {e} : ~ed[f].alone
      BY DEF Undisturbed
<1>3. \A g \in Editors \ {e} : AtRest(g)' <=> AtRest(g)
      BY <1>1 DEF AtRest
<1>4. ASSUME ed'[e].alone
      PROVE  Staged(ed[e])' /\ \A g \in Editors \ {e} : AtRest(g)'
      BY <1>1, <1>3, <1>4 DEF Undisturbed
<1> QED
    BY <1>1, <1>2, <1>4 DEF Undisturbed

(* The page shows the users of the share, as ListComplete has it.          *)
LEMMA OpenPageUndisturbed ==
  ASSUME IInv, ListComplete, NEW e \in Editors, NEW k \in DOMAIN shares \cup {NewKey},
         OpenPage(e, k)
  PROVE  Undisturbed'
<1>1. UNCHANGED <<shares, shareSeq, userShares>>
      BY DEF OpenPage
<1>2. Entered(NewKey) = {}
  <2>1. \A r \in userShares : r.share # NewKey
        BY EdFacts DEF IInv, RowsEntered, NewKey
  <2> QED
      BY <2>1, EnteredHas
<1>3. \A j \in DOMAIN shares : GetShares(RowsOf(j)) = <<[share |-> j, users |-> Entered(j)]>>
      BY DEF ListComplete
<1>4. NewKey \notin DOMAIN shares
      BY EdFacts DEF NewKey
<1>5. Page(e, k, Entered(k)) /\ (k = NewKey => Entered(k) = {})
      BY <1>2, <1>3, <1>4 DEF OpenPage
<1> DEFINE a == \A g \in Editors : AtRest(g)
<1>6. /\ ed'[e] = [NoEd EXCEPT !.at = "page", !.key = k, !.orig = Entered(k), !.alone = a]
      /\ \A f \in Editors \ {e} : ed'[f] = [ed[f] EXCEPT !.alone = FALSE]
      BY <1>5 DEF Page
<1>7. ASSUME NEW f \in Editors \ {e} PROVE ed'[f].alone = FALSE /\ ed'[f].at = ed[f].at
  <2>1. IsEditor(ed[f])
        BY EdFacts
  <2> QED
      BY <1>6, <2>1 DEF IsEditor
<1>8. /\ ed'[e].alone => \A g \in Editors \ {e} : AtRest(g)
      /\ ed'[e].at = "page" /\ ed'[e].key = k /\ ed'[e].orig = Entered(k)
      BY <1>6 DEF NoEd
<1>9. Staged(ed[e])'
      BY <1>1, <1>5, <1>8 DEF Staged, Entered
<1>10. \A g \in Editors \ {e} : AtRest(g) => AtRest(g)'
      BY <1>7 DEF AtRest
<1> QED
    BY <1>7, <1>8, <1>9, <1>10 DEF Undisturbed

LEMMA SubmitUndisturbed ==
  ASSUME IInv, Undisturbed, NEW e \in Editors, Submit(e)
  PROVE  Undisturbed'
<1>1. /\ ed[e].at = "page" /\ UNCHANGED <<shares, shareSeq, userShares, sess>>
      BY DEF Submit
<1>2. PICK list \in Lists, n \in Names, p \in Paths :
        ed' = [ed EXCEPT ![e] = [ed[e] EXCEPT !.at = "walk",
                 !.form = [key |-> ed[e].key, name |-> n, path |-> p, list |-> list],
                 !.gone = ed[e].orig \ DOMAIN list,
                 !.left = DOMAIN list, !.own = ed[e].key]]
      BY DEF Submit
<1> DEFINE form == [key |-> ed[e].key, name |-> n, path |-> p, list |-> list]
           d == [ed[e] EXCEPT !.at = "walk", !.form = form, !.gone = ed[e].orig \ DOMAIN list,
                              !.left = DOMAIN list, !.own = ed[e].key]
<1>3. ed' = [ed EXCEPT ![e] = d]
      BY <1>2
<1>4. ed[e].key \in {NewKey} \cup 1..MaxKey
  <2>1. ed[e].key \in {NewKey} \cup DOMAIN shares
        BY <1>1, EdFacts DEF Request
  <2>2. DOMAIN shares \subseteq 1..MaxKey
        BY EdFacts, SharesAssumption DEF Types
  <2> QED
      BY <2>1, <2>2
<1>5. form \in Form
      BY <1>4 DEF Form
<1>6. DOMAIN list \subseteq Users
      BY <1>5, FormType
<1>7. form.list = list
      OBVIOUS
<1> HIDE DEF form
<1>8. IsEditor(d)
      BY <1>4, <1>5, <1>6, EdFacts DEF IsEditor
<1>9. /\ d.at = "walk" /\ d.form = form /\ d.left = DOMAIN list /\ d.key = ed[e].key
      /\ d.gone = ed[e].orig \ DOMAIN list /\ d.orig = ed[e].orig /\ d.alone = ed[e].alone
      BY EdFacts DEF IsEditor
<1> HIDE DEF d
<1>10. ASSUME ed'[e] = d, Staged(ed[e]) PROVE Staged(ed[e])'
  <2>1. Listed(d) = DOMAIN list
        BY <1>7, <1>9 DEF Listed
  <2>2. Entered(ed[e].key) = ed[e].orig /\ (d.key = NewKey => d.orig = {})
        BY <1>1, <1>9, <1>10 DEF Staged
  <2>3. d.gone \cap Listed(d) = {} /\ Entered(d.key) = (d.orig \cap Listed(d)) \cup d.gone
        BY <1>9, <2>1, <2>2
  <2>4. \A k : Entered(k)' = Entered(k)
        BY <1>1 DEF Entered
  <2> QED
      BY <1>9, <1>10, <2>1, <2>2, <2>3, <2>4 DEF Staged, Listed
<1> QED
    BY <1>1, <1>3, <1>8, <1>9, <1>10, StagedStep, EdFacts DEF AtRest

LEMMA FailUndisturbed ==
  ASSUME IInv, Undisturbed, NEW e \in Editors, Refused(e) \/ StatementFails(e)
  PROVE  Undisturbed'
<1> DEFINE d == [ed[e] EXCEPT !.at = "failed"]
<1>1. ed' = [ed EXCEPT ![e] = d] /\ ~AtRest(e)
      BY DEF Refused, StatementFails, Fail, AtRest
<1>2. IsEditor(d) /\ d.at = "failed" /\ d.alone = ed[e].alone
      BY EdFacts DEF IsEditor
<1> HIDE DEF d
<1>3. ASSUME ed'[e] = d PROVE Staged(ed[e])'
      BY <1>2, <1>3 DEF Staged
<1> QED
    BY <1>1, <1>2, <1>3, StagedStep, EdFacts

LEMMA WalkUndisturbed ==
  ASSUME IInv, Undisturbed, NEW e \in Editors, Walk(e)
  PROVE  Undisturbed'
<1>1. ed[e].at = "walk" /\ ~AtRest(e)
      BY DEF Walk, AtRest
<1>2. PICK u \in ed[e].gone :
        /\ userShares' = {r \in userShares : ~(r.share = ed[e].key /\ r.user = u)}
        /\ ed' = [ed EXCEPT ![e] = [ed[e] EXCEPT !.gone = ed[e].gone \ {u}]]
      BY DEF Walk
<1> DEFINE d == [ed[e] EXCEPT !.gone = ed[e].gone \ {u}]
<1>3. ed' = [ed EXCEPT ![e] = d]
      BY <1>2
<1>4. /\ IsEditor(d) /\ d.at = "walk" /\ d.form = ed[e].form /\ d.left = ed[e].left
      /\ d.key = ed[e].key /\ d.orig = ed[e].orig /\ d.alone = ed[e].alone
      /\ d.gone = ed[e].gone \ {u}
      BY <1>1, EdFacts DEF IsEditor
<1> HIDE DEF d
<1>5. ASSUME ed'[e] = d, Staged(ed[e]) PROVE Staged(ed[e])'
  <2>1. /\ ed[e].gone \cap Listed(ed[e]) = {} /\ ed[e].left = Listed(ed[e])
        /\ Entered(ed[e].key) = (ed[e].orig \cap Listed(ed[e])) \cup ed[e].gone
        /\ ed[e].key = NewKey => ed[e].orig = {}
        BY <1>1, <1>5 DEF Staged
  <2>2. ASSUME NEW k, k = ed[e].key PROVE Entered(k)' = Entered(k) \ {u}
        BY <1>2, <2>2 DEF Entered
  <2>3. Listed(ed[e])' = Listed(ed[e])
        BY <1>4, <1>5 DEF Listed
  <2>4. Entered(ed[e].key)' = (ed[e].orig \cap Listed(ed[e])) \cup (ed[e].gone \ {u})
        BY <1>2, <1>4, <1>5, <2>1, <2>2
  <2> QED
      BY <1>4, <1>5, <2>1, <2>3, <2>4 DEF Staged
<1> QED
    BY <1>1, <1>3, <1>4, <1>5, StagedStep, EdFacts

(* No row has the key of a share that is new.                              *)
LEMMA AddShareUndisturbed ==
  ASSUME IInv, Undisturbed, NEW e \in Editors, AddShare(e)
  PROVE  Undisturbed'
<1>1. /\ ed[e].at = "walk" /\ ed[e].gone = {} /\ ed[e].key = NewKey /\ ~AtRest(e)
      /\ shareSeq' = shareSeq + 1 /\ UNCHANGED userShares
      BY DEF AddShare, AtRest
<1> DEFINE d == [ed[e] EXCEPT !.at = "key", !.own = shareSeq']
<1>2. ed' = [ed EXCEPT ![e] = d]
      BY DEF AddShare
<1>3. shareSeq' \in 1..MaxKey /\ shares'[shareSeq'] = RowOf(ed[e])
      BY <1>1, EdFacts, SharesAssumption DEF AddShare, Types, ShareRow, RowOf
<1>4. /\ IsEditor(d) /\ d.at = "key" /\ d.form = ed[e].form /\ d.left = ed[e].left
      /\ d.own = shareSeq' /\ d.orig = ed[e].orig /\ d.alone = ed[e].alone
      BY <1>3, EdFacts DEF IsEditor
<1> HIDE DEF d
<1>5. ASSUME NEW r \in userShares' PROVE r.share # shareSeq'
      BY <1>1, EdFacts DEF IInv, RowsEntered
<1>6. ASSUME ed'[e] = d, Staged(ed[e]) PROVE Staged(ed[e])'
  <2>1. ed[e].orig = {} /\ ed[e].left = Listed(ed[e])
        BY <1>1, <1>6 DEF Staged
  <2>2. Listed(ed[e])' = Listed(ed[e]) /\ RowOf(ed[e])' = RowOf(ed[e])
        BY <1>4, <1>6 DEF Listed, RowOf
  <2>3. Entered(ed[e].own)' = {} /\ AsEntered(ed[e])'
        BY <1>3, <1>4, <1>5, <1>6, <2>2 DEF Entered, AsEntered
  <2> QED
      BY <1>4, <1>6, <2>1, <2>2, <2>3 DEF Staged
<1> QED
    BY <1>1, <1>2, <1>4, <1>6, StagedStep, EdFacts

LEMMA GetShareKeyUndisturbed ==
  ASSUME IInv, Undisturbed, NEW e \in Editors, GetShareKey(e)
  PROVE  Undisturbed'
<1>1. ed[e].at = "key" /\ ~AtRest(e) /\ UNCHANGED <<shares, shareSeq, userShares>>
      BY DEF GetShareKey, AtRest
<1> DEFINE d == [ed[e] EXCEPT !.at = "users", !.key = shareSeq]
<1>2. ed' = [ed EXCEPT ![e] = d]
      BY DEF GetShareKey
<1>3. shareSeq \in 1..MaxKey
      BY <1>1, EdFacts, SharesAssumption DEF Types, Request
<1>4. /\ IsEditor(d) /\ d.at = "users" /\ d.form = ed[e].form /\ d.key = shareSeq
      /\ d.own = ed[e].own /\ d.left = ed[e].left /\ d.orig = ed[e].orig
      /\ d.alone = ed[e].alone
      BY <1>3, EdFacts DEF IsEditor
<1> HIDE DEF d
<1>5. ASSUME ed'[e] = d, Staged(ed[e]) PROVE Staged(ed[e])'
  <2>1. /\ ed[e].own = shareSeq /\ Entered(ed[e].own) = {} /\ ed[e].orig = {}
        /\ ed[e].left = Listed(ed[e]) /\ AsEntered(ed[e])
        BY <1>1, <1>5 DEF Staged
  <2>2. Listed(ed[e])' = Listed(ed[e]) /\ AsEntered(ed[e])'
        BY <1>1, <1>4, <1>5, <2>1 DEF Listed, AsEntered, RowOf
  <2>3. Entered(ed[e].own)' = {}
        BY <1>1, <1>4, <1>5, <2>1 DEF Entered
  <2> QED
      BY <1>1, <1>4, <1>5, <2>1, <2>2, <2>3 DEF Staged
<1> QED
    BY <1>1, <1>2, <1>4, <1>5, StagedStep, EdFacts

LEMMA UpdateShareUndisturbed ==
  ASSUME IInv, Undisturbed, NEW e \in Editors, UpdateShare(e)
  PROVE  Undisturbed'
<1>1. /\ ed[e].at = "walk" /\ ed[e].gone = {} /\ ed[e].key # NewKey /\ ~AtRest(e)
      /\ UNCHANGED userShares
      BY DEF UpdateShare, AtRest
<1> DEFINE d == [ed[e] EXCEPT !.at = "users"]
<1>2. ed' = [ed EXCEPT ![e] = d]
      BY DEF UpdateShare
<1>3. ed[e].own = ed[e].key /\ ed[e].key \in DOMAIN shares
      BY <1>1, EdFacts DEF Request
<1>4. shares'[ed[e].own] = RowOf(ed[e])
      BY <1>3 DEF UpdateShare, ShareRow, RowOf
<1>5. /\ IsEditor(d) /\ d.at = "users" /\ d.form = ed[e].form /\ d.key = ed[e].key
      /\ d.own = ed[e].own /\ d.left = ed[e].left /\ d.orig = ed[e].orig
      /\ d.alone = ed[e].alone
      BY EdFacts DEF IsEditor
<1> HIDE DEF d
<1>6. ASSUME ed'[e] = d, Staged(ed[e]) PROVE Staged(ed[e])'
  <2>1. /\ ed[e].left = Listed(ed[e])
        /\ Entered(ed[e].own) = ed[e].orig \cap Listed(ed[e])
        BY <1>1, <1>3, <1>6 DEF Staged
  <2>2. Listed(ed[e])' = Listed(ed[e]) /\ RowOf(ed[e])' = RowOf(ed[e])
        BY <1>5, <1>6 DEF Listed, RowOf
  <2>3. Entered(ed[e].own)' = ed[e].orig \cap Listed(ed[e])
        BY <1>1, <1>5, <1>6, <2>1 DEF Entered
  <2>4. \A r \in userShares : r.share = ed[e].own => r.user \in ed[e].orig
        BY <2>1, EnteredHas
  <2>5. AsEntered(ed[e])'
        BY <1>1, <1>4, <1>5, <1>6, <2>2, <2>4 DEF AsEntered
  <2> QED
      BY <1>3, <1>5, <1>6, <2>1, <2>2, <2>3, <2>5 DEF Staged
<1> QED
    BY <1>1, <1>2, <1>5, <1>6, StagedStep, EdFacts

(* A user that is there already keeps the row; any other gets the one of   *)
(* the form.                                                               *)
LEMMA AddShareUserUndisturbed ==
  ASSUME IInv, Undisturbed, NEW e \in Editors, AddShareUser(e)
  PROVE  Undisturbed'
<1>1. ed[e].at = "users" /\ ~AtRest(e) /\ UNCHANGED shares
      BY DEF AddShareUser, AtRest
<1>2. PICK u \in ed[e].left :
        /\ ed' = [ed EXCEPT ![e] = [ed[e] EXCEPT !.left = ed[e].left \ {u}]]
        /\ userShares' = userShares \cup
             {r \in [user : {u}, share : {ed[e].key}, perms : {ed[e].form.list[u]},
                     for : {ed[e].own}] :
                ~\E q \in userShares : q.user = u /\ q.share = r.share}
      BY DEF AddShareUser
<1> DEFINE d == [ed[e] EXCEPT !.left = ed[e].left \ {u}]
<1>3. ed' = [ed EXCEPT ![e] = d]
      BY <1>2
<1>4. /\ IsEditor(d) /\ d.at = "users" /\ d.form = ed[e].form /\ d.key = ed[e].key
      /\ d.own = ed[e].own /\ d.left = ed[e].left \ {u} /\ d.orig = ed[e].orig
      /\ d.alone = ed[e].alone
      BY <1>1, EdFacts DEF IsEditor
<1>5. u \in Listed(ed[e])
      BY <1>1, <1>2, EdFacts DEF Request, Working, Listed
<1> HIDE DEF d
<1> DEFINE k == ed[e].own
           row == [user |-> u, share |-> k, perms |-> ed[e].form.list[u], for |-> k]
<1>6. ASSUME ed'[e] = d, Staged(ed[e]) PROVE Staged(ed[e])'
  <2>1. /\ ed[e].key = k /\ AsEntered(ed[e])
        /\ Entered(k) = (ed[e].orig \cap Listed(ed[e])) \cup (Listed(ed[e]) \ ed[e].left)
        BY <1>1, <1>6 DEF Staged
  <2>2. IF \E q \in userShares : q.user = u /\ q.share = k
          THEN userShares' = userShares ELSE userShares' = userShares \cup {row}
        BY <1>2, <2>1
  <2>3. row.user = u /\ row.share = k /\ row.perms = ed[e].form.list[u]
        OBVIOUS
  <2> HIDE DEF row
  <2>4. \A v : (\E r \in userShares' : r.share = k /\ r.user = v) <=> v \in Entered(k) \cup {u}
        BY <2>2, <2>3, EnteredHas
  <2>5. Entered(ed[e].own)' = Entered(k) \cup {u}
        BY <1>4, <1>6, <2>4 DEF Entered
  <2>6. Listed(ed[e])' = Listed(ed[e]) /\ RowOf(ed[e])' = RowOf(ed[e])
        BY <1>4, <1>6 DEF Listed, RowOf
  <2>7. AsEntered(ed[e])'
        BY <1>1, <1>4, <1>6, <2>1, <2>2, <2>3, <2>6 DEF AsEntered
  <2>8. Entered(ed[e].own)' =
          (ed[e].orig \cap Listed(ed[e])) \cup (Listed(ed[e]) \ (ed[e].left \ {u}))
        BY <1>5, <2>1, <2>5
  <2> QED
      BY <1>4, <1>6, <2>1, <2>6, <2>7, <2>8 DEF Staged
<1> QED
    BY <1>1, <1>3, <1>4, <1>6, StagedStep, EdFacts

LEMMA DoneUndisturbed ==
  ASSUME IInv, Undisturbed, NEW e \in Editors, Done(e)
  PROVE  Undisturbed'
<1>1. /\ ed[e].at = "users" /\ ed[e].left = {} /\ ~AtRest(e)
      /\ UNCHANGED <<shares, shareSeq, userShares>>
      BY DEF Done, AtRest
<1> DEFINE d == [ed[e] EXCEPT !.at = "saved"]
<1>2. ed' = [ed EXCEPT ![e] = d]
      BY DEF Done
<1>3. /\ IsEditor(d) /\ d.at = "saved" /\ d.form = ed[e].form /\ d.own = ed[e].own
      /\ d.orig = ed[e].orig /\ d.alone = ed[e].alone
      BY EdFacts DEF IsEditor
<1> HIDE DEF d
<1>4. ASSUME ed'[e] = d, Staged(ed[e]) PROVE Staged(ed[e])'
  <2>1. AsEntered(ed[e]) /\ Entered(ed[e].own) = Listed(ed[e])
        BY <1>1, <1>4 DEF Staged
  <2>2. Listed(ed[e])' = Listed(ed[e]) /\ AsEntered(ed[e])'
        BY <1>1, <1>3, <1>4, <2>1 DEF Listed, AsEntered, RowOf
  <2>3. Entered(ed[e].own)' = Listed(ed[e])
        BY <1>1, <1>3, <1>4, <2>1 DEF Entered
  <2> QED
      BY <1>3, <1>4, <2>2, <2>3 DEF Staged
<1> QED
    BY <1>1, <1>2, <1>3, <1>4, StagedStep, EdFacts

LEMMA NextUndisturbed == IInv /\ ListComplete /\ Undisturbed /\ [Next]_vars => Undisturbed'
<1> SUFFICES ASSUME IInv, ListComplete, Undisturbed, [Next]_vars PROVE Undisturbed'
    OBVIOUS
<1>1. ASSUME NEW e \in Editors,
             \/ \E k \in DOMAIN shares \cup {NewKey} : OpenPage(e, k)
             \/ Submit(e) \/ StatementFails(e) \/ Walk(e) \/ Refused(e)
             \/ AddShare(e) \/ GetShareKey(e) \/ UpdateShare(e) \/ AddShareUser(e) \/ Done(e)
      PROVE  Undisturbed'
      BY <1>1, OpenPageUndisturbed, SubmitUndisturbed, FailUndisturbed, WalkUndisturbed,
         AddShareUndisturbed, GetShareKeyUndisturbed, UpdateShareUndisturbed,
         AddShareUserUndisturbed, DoneUndisturbed
<1>2. ASSUME UNCHANGED <<shares, shareSeq, userShares, ed>> PROVE Undisturbed'
  <2>1. \A k : Entered(k)' = Entered(k)
        BY <1>2 DEF Entered
  <2>2. \A e \in Editors : Staged(ed[e])' <=> Staged(ed[e])
        BY <1>2, <2>1 DEF Staged, Listed, AsEntered, RowOf
  <2> QED
      BY <1>2, <2>2 DEF Undisturbed, AtRest
<1>3. ASSUME NEW s \in Sessions, Leave(s) \/ \E u \in Users : Subscribe(s, u)
      PROVE  Undisturbed'
      BY <1>2, <1>3 DEF Leave, Subscribe
<1> QED
    BY <1>1, <1>2, <1>3 DEF Next, vars

(* A save that no other editor disturbed, from the page to "saved          *)
(* successfully", leaves exactly the listed users with the share, and the  *)
(* share with the entered name and path.                                   *)
THEOREM SavedAccessAsShown == Spec => []AccessAsShown
<1>1. Undisturbed => AccessAsShown
      BY DEF Undisturbed, Staged, AccessAsShown, Listed, AsEntered, RowOf, ShareRow
<1> QED
    BY <1>1, InitInv, NextInv, InitUndisturbed, NextUndisturbed, SharesListed, PTL DEF Spec
-----------------------------------------------------------------------------
(***************************************************************************)
(* Setting the server up, for any files, users, answers and number of runs *)
(* of --init: the administrator is the one that was entered, and a new     *)
(* pair of key and certificate is the one that is served.  The stages of   *)
(* --init are named in their order, from the right.                        *)
(***************************************************************************)
KeySet    == {"addUser", "addRole"}
SourceSet == {"setKey"} \cup KeySet
CertSet   == {"setSource"} \cup SourceSet
Scripted  == {"addLog", "addLogCat", "setPort", "setCert"} \cup CertSet
Written   == {"ask"} \cup Scripted
Stages    == {"writeKey", "writeCert", "writeCertBad"} \cup Written

SetupTypes ==
  /\ pc \in {"off"} \cup Stages
  /\ files = [p \in KeyPaths |-> files[p]]
  /\ settings \in [src : {settings.src}, key : {settings.key}, cert : {settings.cert},
                   port : {settings.port}]
  /\ seq \in Nat /\ users \in [Emails -> [key : 0..seq, pw : Passwords \cup {None}]]
  /\ 0 \notin hasClient

(* The answers are there as long as they count, and "ready" is the last    *)
(* word of a run.                                                          *)
Running ==
  /\ pc # "off" \/ "ready" \in said => ini \in Answers
  /\ pc # "off" => "ready" \notin said /\ set = None

(* The last key of the sequence belongs to a user.                         *)
LastKeyUsed == seq # 0 => \E e \in Emails : users[e].key = seq

(* The user that was entered, between its insertion and the role.          *)
UserAdded ==
  pc = "addRole" /\ "userFailed" \notin said =>
    users[ini.email] = [key |-> seq, pw |-> ini.pw]

(* What each stage has done of the pair and of the settings, unless it     *)
(* failed and was passed over.                                             *)
NewPair == ini.new /\ ini.cert # ini.key
PairSet ==
  /\ pc = "writeCert" => files[ini.key] = KeyOf(runs)
  /\ pc \in Written /\ NewPair =>
       /\ files[ini.key] = KeyOf(runs)
       /\ "cert" \notin passed => files[ini.cert] = CertOf(runs)
  /\ pc \in Scripted => dbMade
  /\ pc \in CertSet /\ "setCert" \notin passed => settings.cert = ini.cert
  /\ pc \in SourceSet /\ "setSource" \notin passed => settings.src = "file"
  /\ pc \in KeySet /\ "setKey" \notin passed => settings.key = ini.key

(* The key file that is set holds a key then, whichever option set it.     *)
KeyHeld == Ready /\ NewPair /\ passed \subseteq {"setPort"} => Holds(settings.key, "key")
Served  == NewPairServed /\ KeyHeld

SetupIInv == SetupTypes /\ Running /\ LastKeyUsed /\ UserAdded /\ PairSet /\ AdminAsEntered /\ Served

Pair   == <<files, settings, dbMade, passed, set, runs>>
People == <<users, admins, seq>>

LEMMA SetupInitInv == SetupInit => SetupIInv
<1> SUFFICES ASSUME SetupInit PROVE SetupIInv
    OBVIOUS
<1>1. SetupTypes
      BY DEF SetupInit, SetupTypes, NoUser, KeyOf, CertOf
<1>2. Running /\ UserAdded /\ Served
      BY DEF SetupInit, Running, UserAdded, Served, NewPairServed, KeyHeld, Ready
<1>3. LastKeyUsed /\ PairSet /\ AdminAsEntered
      BY DEF SetupInit, LastKeyUsed, PairSet, AdminAsEntered, Ready, Written, Scripted, CertSet,
             SourceSet, KeySet
<1> QED
    BY <1>1, <1>2, <1>3 DEF SetupIInv

-----------------------------------------------------------------------------
(* What a step that leaves users and roles alone has to show.              *)
LEMMA PeopleKept ==
  ASSUME SetupIInv, UNCHANGED People, Running',
         pc' = "addRole" => pc = "addRole" /\ said' = said /\ ini' = ini,
         Ready' => Ready /\ said' = said /\ ini' = ini
  PROVE  LastKeyUsed' /\ UserAdded' /\ AdminAsEntered'
<1>1. LastKeyUsed'
      BY DEF SetupIInv, LastKeyUsed, People
<1>2. UserAdded'
      BY DEF SetupIInv, UserAdded, People
<1>3. AdminAsEntered'
      BY DEF SetupIInv, AdminAsEntered, People
<1> QED
    BY <1>1, <1>2, <1>3

(* Nor has one that leaves the pair and the settings alone, and goes no    *)
(* further.                                                                *)
LEMMA PairKept ==
  ASSUME SetupIInv, UNCHANGED Pair,
         (pc' = pc /\ ini' = ini) \/ pc' = "off",
         Ready' => Ready /\ ini' = ini
  PROVE  PairSet' /\ Served'
<1>1. PairSet'
      BY DEF SetupIInv, PairSet, Pair, NewPair, KeyOf, CertOf, Written, Scripted, CertSet, SourceSet,
             KeySet
<1>2. NewPairServed'
      BY DEF SetupIInv, Served, NewPairServed, Pair, StartOK, Holds, KeyOf, CertOf
<1>3. KeyHeld'
      BY DEF SetupIInv, Served, KeyHeld, Pair, NewPair, Holds
<1> QED
    BY <1>1, <1>2, <1>3 DEF Served

LEMMA AnswerStep ==
  ASSUME SetupIInv, NEW a \in Answers, Answer(a)
  PROVE  SetupIInv'
<1>1. /\ UNCHANGED <<files, db, srv>> /\ ini' = a /\ pc' \in {"writeKey", "ask"} /\ said' = {}
      /\ set' = None
      /\ pc' = "ask" => ~a.new
      BY DEF Answer
<1>2. SetupTypes'
      BY <1>1 DEF SetupIInv, SetupTypes, db, Stages, Written
<1>3. Running'
      BY <1>1 DEF Running
<1>4. LastKeyUsed' /\ UserAdded' /\ AdminAsEntered'
      BY <1>1, <1>3, PeopleKept DEF db, People, Ready
<1>5. PairSet' /\ Served'
      BY <1>1 DEF PairSet, Served, NewPairServed, KeyHeld, NewPair, Ready, Written, Scripted, CertSet, SourceSet,
                  KeySet
<1> QED
    BY <1>2, <1>3, <1>4, <1>5 DEF SetupIInv

(* A stage of --init before the users.                                     *)
LEMMA StageStep ==
  ASSUME SetupIInv, UNCHANGED <<People, ini, set, runs, hasClient>>, SetupTypes', PairSet',
         pc # "off", pc' \in Stages \ {"addRole"}, "ready" \notin said'
  PROVE  SetupIInv'
<1>1. Running'
      BY DEF SetupIInv, Running, Stages, Written, Scripted, CertSet, SourceSet, KeySet
<1>2. ~Ready'
      BY DEF Ready
<1>3. LastKeyUsed' /\ UserAdded' /\ AdminAsEntered'
      BY <1>1, <1>2, PeopleKept
<1>4. Served'
      BY <1>2 DEF Served, NewPairServed, KeyHeld
<1> QED
    BY <1>1, <1>3, <1>4 DEF SetupIInv

LEMMA NotReady == ASSUME SetupIInv, pc # "off" PROVE ini \in Answers /\ "ready" \notin said
  BY DEF SetupIInv, Running

(* A run that ends before its last stage.                                  *)
LEMMA EndStep ==
  ASSUME SetupIInv, UNCHANGED <<db, ini, said, set, runs>>, pc # "off", pc' = "off",
         files' = [p \in KeyPaths |-> files'[p]]
  PROVE  SetupIInv'
<1>1. "ready" \notin said' /\ ~Ready'
      BY NotReady DEF Ready
<1>2. SetupTypes'
      BY DEF SetupIInv, SetupTypes, db
<1>3. Running'
      BY <1>1 DEF Running
<1>4. LastKeyUsed' /\ UserAdded' /\ AdminAsEntered'
      BY <1>1, <1>3, PeopleKept DEF db, People
<1>5. PairSet' /\ Served'
      BY <1>1 DEF PairSet, Served, NewPairServed, KeyHeld, Written, Scripted, CertSet, SourceSet, KeySet
<1> QED
    BY <1>2, <1>3, <1>4, <1>5 DEF SetupIInv

LEMMA WriteStep ==
  ASSUME SetupIInv, WriteKey \/ WriteCert
  PROVE  SetupIInv'
<1>1. /\ UNCHANGED <<db, said, ini, set, runs>> /\ pc \in {"writeKey", "writeCert", "writeCertBad"}
      /\ pc' \in {"off", "writeCert", "writeCertBad", "ask"}
      BY DEF WriteKey, WriteCert, Step, Asked
<1>2. ini.key \in KeyPaths /\ ini.cert \in KeyPaths /\ "ready" \notin said
      BY <1>1, NotReady DEF Answers
<1>3. files = [p \in KeyPaths |-> files[p]]
      BY DEF SetupIInv, SetupTypes
<1>4. files' = [p \in KeyPaths |-> files'[p]]
      BY <1>2, <1>3 DEF WriteKey, WriteCert, Spoilt
<1>5. SetupTypes'
      BY <1>1, <1>4 DEF SetupIInv, SetupTypes, db, Stages, Written
<1>6. CASE pc' = "off"
      BY <1>1, <1>4, <1>6, EndStep
<1>7. CASE pc' # "off"
  <2>1. PairSet'
    <3>1. CASE WriteKey /\ pc' = "writeCert"
      <4>1. files' = [files EXCEPT ![ini.key] = KeyOf(runs)]
            BY <3>1 DEF WriteKey
      <4>2. files'[ini.key] = KeyOf(runs)
            BY <1>2, <1>3, <4>1
      <4> QED
          BY <1>1, <3>1, <4>2 DEF PairSet, Written, Scripted, CertSet, SourceSet, KeySet, KeyOf
    <3>2. CASE WriteKey /\ pc' = "writeCertBad"
          BY <3>2 DEF PairSet, Written, Scripted, CertSet, SourceSet, KeySet
    <3>3. CASE WriteCert
      <4>1. pc = "writeCert" /\ pc' = "ask"
            BY <1>7, <3>3 DEF WriteCert, Step
      <4>2. files[ini.key] = KeyOf(runs)
            BY <4>1 DEF SetupIInv, PairSet
      <4>3. \/ files' = [files EXCEPT ![ini.cert] = CertOf(runs)]
            \/ /\ files' \in {files, [files EXCEPT ![ini.cert] = <<"other", 0>>]}
               /\ "cert" \in passed'
            BY <3>3 DEF WriteCert, Spoilt
      <4>4. ini.key # ini.cert => files'[ini.key] = KeyOf(runs)
            BY <1>2, <1>3, <4>2, <4>3
      <4>5. "cert" \notin passed' => files'[ini.cert] = CertOf(runs)
            BY <1>2, <1>3, <4>3
      <4> QED
          BY <1>1, <4>1, <4>4, <4>5 DEF PairSet, NewPair, Written, Scripted, CertSet, SourceSet,
                                        KeySet, KeyOf, CertOf
    <3> QED
        BY <1>7, <3>1, <3>2, <3>3 DEF WriteKey
  <2> QED
      BY <1>1, <1>2, <1>5, <1>7, <2>1, StageStep DEF db, People, Stages, Written
<1> QED
    BY <1>6, <1>7

LEMMA LogStep ==
  ASSUME SetupIInv, RunScript \/ AddLog \/ AddLogCat
  PROVE  SetupIInv'
<1>1. /\ UNCHANGED <<files, settings, users, admins, seq, hasShare, hasClient, ini, set, runs, passed>>
      /\ pc \in {"ask", "addLog", "addLogCat"}
      /\ pc' \in {"addLog", "addLogCat", "setPort"}
      /\ dbMade' \/ (pc # "ask" /\ dbMade' = dbMade)
      /\ said' \subseteq said \cup {"notice", "catsFailed"}
  <2>1. CASE RunScript
        BY <2>1 DEF RunScript, Step, Asked
  <2>2. CASE AddLog
        BY <2>2 DEF AddLog, Step, Asked
  <2>3. CASE AddLogCat
        BY <2>3 DEF AddLogCat, Step, Asked
  <2> QED
      BY <2>1, <2>2, <2>3
<1>2. "ready" \notin said'
      BY <1>1, NotReady
<1>3. SetupTypes'
      BY <1>1 DEF SetupIInv, SetupTypes, Stages, Written, Scripted
<1>4. PairSet'
      BY <1>1 DEF SetupIInv, PairSet, NewPair, Written, Scripted, CertSet, SourceSet, KeySet, KeyOf, CertOf
<1> QED
    BY <1>1, <1>2, <1>3, <1>4, StageStep DEF People, Stages, Written, Scripted

LEMMA SettingStep ==
  ASSUME SetupIInv, SetPort \/ SetCert \/ SetSource \/ SetKey
  PROVE  SetupIInv'
<1>1. /\ UNCHANGED <<files, dbMade, users, admins, seq, hasClient, said, ini, set, runs>>
      /\ passed \subseteq passed'
      /\ \/ /\ pc = "setPort" /\ pc' = "setCert"
            /\ settings' \in {settings, [settings EXCEPT !.port = ini.port]}
         \/ /\ pc = "setCert" /\ pc' = "setSource"
            /\ \/ settings' = settings /\ "setCert" \in passed'
               \/ settings' = [settings EXCEPT !.cert = ini.cert]
         \/ /\ pc = "setSource" /\ pc' = "setKey"
            /\ \/ settings' = settings /\ "setSource" \in passed'
               \/ settings' = [settings EXCEPT !.src = "file"]
         \/ /\ pc = "setKey" /\ pc' = "addUser"
            /\ \/ settings' = settings /\ "setKey" \in passed'
               \/ settings' = [settings EXCEPT !.key = ini.key]
      BY DEF SetPort, SetCert, SetSource, SetKey, Setting, Step, Asked
<1>2. "ready" \notin said'
      BY <1>1, NotReady
<1>3. SetupTypes'
      BY <1>1 DEF SetupIInv, SetupTypes, Stages, Written, Scripted, CertSet, SourceSet, KeySet
<1>4. /\ \/ settings'.cert = settings.cert /\ (pc = "setCert" => "setCert" \in passed')
         \/ settings'.cert = ini.cert
      /\ \/ settings'.src = settings.src /\ (pc = "setSource" => "setSource" \in passed')
         \/ settings'.src = "file"
      /\ \/ settings'.key = settings.key /\ (pc = "setKey" => "setKey" \in passed')
         \/ settings'.key = ini.key
      BY <1>1 DEF SetupIInv, SetupTypes
<1>5. PairSet'
      BY <1>1, <1>4 DEF SetupIInv, PairSet, NewPair, Written, Scripted, CertSet, SourceSet, KeySet,
                        KeyOf, CertOf
<1> QED
    BY <1>1, <1>2, <1>3, <1>5, StageStep
       DEF People, Stages, Written, Scripted, CertSet, SourceSet, KeySet

(* The user is replaced or added, or the statement fails.                  *)
LEMMA AddUserStep ==
  ASSUME SetupIInv, AddUser
  PROVE  SetupIInv'
<1>1. /\ pc = "addUser" /\ pc' = "addRole"
      /\ UNCHANGED <<files, settings, dbMade, hasClient, ini, set, runs, passed>>
      BY DEF AddUser, Step, Asked
<1>2. ini \in Answers /\ ini.email \in Emails /\ ini.pw \in Passwords /\ "ready" \notin said
      BY <1>1, NotReady DEF Answers
<1>3. PairSet' /\ Served'
  <2>1. PairSet'
        BY <1>1 DEF SetupIInv, PairSet, NewPair, Written, Scripted, CertSet, SourceSet, KeySet,
                    KeyOf, CertOf
  <2> QED
      BY <1>1, <2>1 DEF Served, NewPairServed, KeyHeld, Ready
<1>4. /\ seq \in Nat /\ users \in [Emails -> [key : 0..seq, pw : Passwords \cup {None}]]
      /\ 0 \notin hasClient /\ admins \subseteq {users[e].key : e \in Emails}
      BY DEF SetupIInv, SetupTypes, AdminAsEntered
<1> DEFINE old == users[ini.email].key
<1>5. CASE UNCHANGED <<users, admins, seq>> /\ said' = said \cup {"userFailed"}
  <2>1. UNCHANGED <<users, admins, seq>> /\ said' = said \cup {"userFailed"}
        BY <1>5
  <2>3. SetupTypes'
        BY <1>1, <2>1 DEF SetupIInv, SetupTypes, Stages, Written, Scripted, CertSet, SourceSet, KeySet
  <2>4. Running'
        BY <1>1, <1>2, <2>1 DEF SetupIInv, Running
  <2>5. LastKeyUsed'
        BY <2>1 DEF SetupIInv, LastKeyUsed
  <2>6. UserAdded' /\ AdminAsEntered'
        BY <1>1, <1>4, <2>1 DEF UserAdded, AdminAsEntered, Ready
  <2> QED
      BY <1>3, <2>3, <2>4, <2>5, <2>6 DEF SetupIInv
<1>6. CASE /\ users' = [users EXCEPT ![ini.email] = [key |-> seq + 1, pw |-> ini.pw]]
           /\ seq' = seq + 1 /\ admins' = admins \ {old} /\ said' = said
  <2>1. /\ users' = [users EXCEPT ![ini.email] = [key |-> seq + 1, pw |-> ini.pw]]
        /\ seq' = seq + 1 /\ admins' = admins \ {old} /\ said' = said
        BY <1>6
  <2>2. /\ users'[ini.email] = [key |-> seq', pw |-> ini.pw]
        /\ users'[ini.email].key = seq'
        /\ \A e \in Emails \ {ini.email} : users'[e] = users[e]
        BY <1>2, <1>4, <2>1
  <2>3. users' \in [Emails -> [key : 0..seq', pw : Passwords \cup {None}]]
        BY <1>2, <1>4, <2>1
  <2>4. SetupTypes'
        BY <1>1, <1>4, <2>1, <2>3
           DEF SetupIInv, SetupTypes, Stages, Written, Scripted, CertSet, SourceSet, KeySet
  <2>5. Running'
        BY <1>1, <1>2, <2>1 DEF SetupIInv, Running
  <2>6. LastKeyUsed'
        BY <1>2, <1>4, <2>1, <2>2 DEF LastKeyUsed
  <2>7. UserAdded'
        BY <1>1, <2>2 DEF UserAdded
  <2>8. AdminAsEntered'
        BY <1>1, <1>4, <2>1, <2>2 DEF AdminAsEntered, Ready
  <2> QED
      BY <1>3, <2>4, <2>5, <2>6, <2>7, <2>8 DEF SetupIInv
<1> QED
    BY <1>5, <1>6 DEF AddUser, Cascade

(* The last key is that of the user just added, or of one added before.    *)
LEMMA AddRoleStep ==
  ASSUME SetupIInv, AddRole
  PROVE  SetupIInv'
<1>1. /\ pc = "addRole" /\ pc' = "off"
      /\ \/ admins' = admins \cup {seq} /\ seq # 0 /\ said' = said \cup {"ready"}
         \/ admins' = admins /\ said' = said \cup {"roleFailed", "ready"}
      /\ UNCHANGED <<files, settings, dbMade, users, seq, hasClient, ini, set, runs, passed>>
      BY DEF AddRole, Step, Asked, NewAdmin
<1>2. ini \in Answers /\ ini.key \in KeyPaths /\ ini.cert \in KeyPaths
      BY <1>1, NotReady DEF Answers
<1>3. SetupTypes' /\ Running'
  <2>1. SetupTypes'
        BY <1>1 DEF SetupIInv, SetupTypes
  <2> QED
      BY <1>1, <1>2, <2>1 DEF Running
<1>4. LastKeyUsed' /\ UserAdded'
      BY <1>1 DEF SetupIInv, LastKeyUsed, UserAdded
<1>5. AdminAsEntered'
  <2>1. /\ seq # 0 => seq \in {users[e].key : e \in Emails}
        /\ admins \subseteq {users[e].key : e \in Emails}
        BY <1>1 DEF SetupIInv, LastKeyUsed, AdminAsEntered
  <2>2. "userFailed" \notin said => users[ini.email] = [key |-> seq, pw |-> ini.pw]
        BY <1>1 DEF SetupIInv, UserAdded
  <2> QED
      BY <1>1, <2>1, <2>2 DEF AdminAsEntered
<1>6. PairSet'
      BY <1>1 DEF PairSet, Written, Scripted, CertSet, SourceSet, KeySet
<1>7. Served'
  <2> SUFFICES ASSUME NewPair PROVE Served'
      BY <1>1 DEF Served, NewPairServed, KeyHeld, NewPair
  <2>0. files[ini.key] = KeyOf(runs)
        BY <1>1 DEF SetupIInv, PairSet, Written, Scripted, CertSet, SourceSet, KeySet
  <2>5. SUFFICES ASSUME passed \subseteq {"setPort"} PROVE Served'
        BY <1>1, <2>0 DEF Served, NewPairServed, KeyHeld, KeyOf
  <2>1. /\ files[ini.key] = KeyOf(runs) /\ files[ini.cert] = CertOf(runs) /\ dbMade
        /\ settings.cert = ini.cert /\ settings.src = "file" /\ settings.key = ini.key
    <3>1. "cert" \notin passed /\ "setCert" \notin passed /\ "setSource" \notin passed
          /\ "setKey" \notin passed
          BY <2>5
    <3> QED
        BY <1>1, <3>1 DEF SetupIInv, PairSet, Written, Scripted, CertSet, SourceSet, KeySet
  <2>2. None \notin KeyPaths
        BY SetupAssumption
  <2>3. files[ini.key][1] = "key" /\ files[ini.cert][1] = "cert"
        BY <2>1 DEF KeyOf, CertOf
  <2>4. StartOK
        BY <1>2, <2>1, <2>2, <2>3 DEF StartOK, Holds
  <2> QED
      BY <1>1, <2>1, <2>4 DEF Served, NewPairServed, KeyHeld, StartOK, Holds, KeyOf, CertOf
<1> QED
    BY <1>3, <1>4, <1>5, <1>6, <1>7 DEF SetupIInv

LEMMA QuitStep ==
  ASSUME SetupIInv, Quit
  PROVE  SetupIInv'
<1>1. UNCHANGED <<files, db, ini, said, set, runs>> /\ pc # "off" /\ pc' = "off"
      BY DEF Quit
<1>2. files' = [p \in KeyPaths |-> files'[p]]
      BY <1>1 DEF SetupIInv, SetupTypes
<1> QED
    BY <1>1, <1>2, EndStep

(* The other uses, between two runs of --init.                             *)
LEMMA UseStep ==
  ASSUME SetupIInv, pc = "off", UNCHANGED <<files, dbMade, users, admins, seq, ini, pc, said, passed, runs>>,
         0 \notin hasClient', Served',
         settings' \in [src : {settings'.src}, key : {settings'.key}, cert : {settings'.cert},
                        port : {settings'.port}]
  PROVE  SetupIInv'
<1>1. SetupTypes'
      BY DEF SetupIInv, SetupTypes
<1>2. Running'
      BY DEF SetupIInv, Running
<1>3. LastKeyUsed' /\ UserAdded' /\ AdminAsEntered'
      BY <1>2, PeopleKept DEF People, Ready
<1>4. PairSet'
      BY DEF PairSet, Written, Scripted, CertSet, SourceSet, KeySet
<1> QED
    BY <1>1, <1>2, <1>3, <1>4 DEF SetupIInv

(* The option that sets the key only takes a file that holds one, and      *)
(* --set-cert-file takes the key out of use.                               *)
LEMMA ConsoleStep ==
  ASSUME SetupIInv, NEW p \in KeyPaths, SetPkeyFile(p) \/ SetCertFile(p)
  PROVE  SetupIInv'
<1>1. /\ pc = "off" /\ UNCHANGED <<files, dbMade, users, admins, seq, ini, pc, said, passed, runs, hasClient>>
      BY DEF SetPkeyFile, SetCertFile, Use, Else
<1>2. set' # None
  <2>1. None \notin {"pkey", "cert"} \X KeyPaths
        BY SetupAssumption
  <2>2. set' = <<"pkey", p>> \/ set' = <<"cert", p>>
        BY DEF SetPkeyFile, SetCertFile
  <2> QED
      BY <2>1, <2>2
<1>3. \E src \in {"file", p, settings.src}, k \in {p, settings.key} :
         /\ settings' = [settings EXCEPT !.src = src, !.key = k]
         /\ k # settings.key => files[p][1] = "key"
      BY DEF SetPkeyFile, SetCertFile, SetTo
<1>4. p # None
  <2>1. None \notin KeyPaths
        BY SetupAssumption
  <2> QED
      BY <2>1
<1>5. /\ Holds(settings.key, "key") => Holds(settings.key, "key")'
      /\ settings'.cert = settings.cert
      BY <1>1, <1>3, <1>4 DEF SetupIInv, SetupTypes, Holds
<1>6. Served'
  <2>1. KeyHeld'
        BY <1>1, <1>5 DEF SetupIInv, Served, KeyHeld, Ready, NewPair
  <2>2. Ready /\ NewPair /\ passed \subseteq {"setPort"} => StartOK'
        BY <1>1, <1>5 DEF SetupIInv, Served, KeyHeld, NewPairServed, StartOK, Holds, NewPair
  <2>3. NewPairServed'
        BY <1>1, <1>2, <2>2 DEF SetupIInv, Served, NewPairServed, Ready, NewPair
  <2> QED
      BY <2>1, <2>3 DEF Served
<1>7. settings' \in [src : {settings'.src}, key : {settings'.key}, cert : {settings'.cert},
                     port : {settings'.port}]
      BY <1>3 DEF SetupIInv, SetupTypes
<1> QED
    BY <1>1, <1>6, <1>7, UseStep DEF SetupIInv, SetupTypes

LEMMA OtherStep ==
  ASSUME SetupIInv, \/ \E e \in Emails : GiveShare(e) \/ AddClient(e)
               \/ Start \/ StartRefused \/ Stop
  PROVE  SetupIInv'
<1>1. /\ pc = "off" /\ UNCHANGED settings /\ UNCHANGED set
      /\ UNCHANGED <<files, dbMade, users, admins, seq, ini, pc, said, passed, runs>>
      /\ hasClient' = hasClient \/ \E e \in Emails : /\ hasClient' = hasClient \cup {users[e].key}
                                                     /\ users[e].key # 0
      BY DEF GiveShare, AddClient, Start, StartRefused, Stop, Use, Else
<1>2. Served'
      BY <1>1, PairKept DEF Pair, Ready
<1> QED
    BY <1>1, <1>2, UseStep DEF SetupIInv, SetupTypes

LEMMA SetupNextInv == SetupIInv /\ [SetupNext]_setupVars => SetupIInv'
<1> SUFFICES ASSUME SetupIInv, [SetupNext]_setupVars PROVE SetupIInv'
    OBVIOUS
<1>1. CASE UNCHANGED setupVars
  <2>1. UNCHANGED <<files, settings, dbMade, users, admins, seq, hasClient, ini, pc, said, passed,
                    set, runs>>
        BY <1>1 DEF setupVars, db
  <2>2. SetupTypes' /\ Running'
        BY <2>1 DEF SetupIInv, SetupTypes, Running
  <2>3. LastKeyUsed' /\ UserAdded' /\ AdminAsEntered'
        BY <2>1, <2>2, PeopleKept DEF People, Ready
  <2>4. PairSet' /\ Served'
        BY <2>1, PairKept DEF Pair, Ready
  <2> QED
      BY <2>2, <2>3, <2>4 DEF SetupIInv
<1>2. CASE SetupNext
      BY <1>2, AnswerStep, WriteStep, QuitStep, LogStep, SettingStep, AddUserStep, AddRoleStep,
         ConsoleStep, OtherStep DEF SetupNext
<1> QED
    BY <1>1, <1>2

(* However often --init is run, stopped half way and run again, and        *)
(* whatever statement fails: the user of a completed run is there with the *)
(* password entered and is administrator, or the program said which of the *)
(* two failed, and no role is left to a user that was replaced.            *)
THEOREM EnteredUserIsAdmin == SetupSpec => []AdminAsEntered
<1>1. SetupIInv => AdminAsEntered
      BY DEF SetupIInv
<1> QED
    BY <1>1, SetupInitInv, SetupNextInv, PTL DEF SetupSpec

(* A completed --init that made a pair has written the key; and if neither *)
(* the certificate nor a setting of the pair failed and was passed over,   *)
(* it leaves a server that starts, and starts with that pair, whatever was *)
(* in the files and in the settings.                                       *)
THEOREM ServesNewPair == SetupSpec => []NewPairServed
<1>1. SetupIInv => NewPairServed
      BY DEF SetupIInv, Served
<1> QED
    BY <1>1, SetupInitInv, SetupNextInv, PTL DEF SetupSpec
=============================================================================
