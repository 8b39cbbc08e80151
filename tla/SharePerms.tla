----------------------------- MODULE SharePerms -----------------------------
(***************************************************************************)
(* Permissions inside a share: getPerms over the rows of User_Share_Perms, *)
(* the checks of the worker's operations, and what unlink, rmdir and       *)
(* rename do to the rows.                                                  *)
(*                                                                         *)
(* A path is the sequence of its names; the root, whose permissions are    *)
(* the defaultPerms of the session, is the empty one.  Every SQL statement *)
(* and every system call is a step, and workers interleave between them:   *)
(* getPerms asks one statement per level, rename looks two parents up, and *)
(* the rows are changed after the file.  Rows come from an administrator   *)
(* who edits the table before the start; no code of the program adds one.  *)
(* One user: what distinguishes rows of other users is, like that of other *)
(* clients' users, that they do not apply.                                 *)
(***************************************************************************)
EXTENDS Integers, FiniteSets, Sequences, SequencesExt

CONSTANTS Workers, ShareOf,      \* ShareOf[w]: the share that w's client uses
          Names, Depth,
          ClientUsers, UidOf,    \* rows of Client_Users and their uid
          AnyUid,                \* no client user: a row for every uid
          DefaultPerms,          \* defaultPerms, read at the subscription
          GrantPerms,            \* what a row may grant
          Tree0, Entered,        \* the files at first; the sets of rows entered for them
          UsedOps, UsedPaths,    \* the operations and paths the clients ask for
          MaxOps                 \* bound on their number

Shares == {ShareOf[w] : w \in Workers}
Uids   == {UidOf[c] : c \in ClientUsers}
Paths  == UNION {[1..n -> Names] : n \in 1..Depth}
Row    == [share : Shares, cu : ClientUsers \cup {AnyUid}, path : Paths, perms : GrantPerms]
Ops    == {"readdir", "readlink", "truncate", "utimens", "access", "chmod", "chown",
           "mknod", "mkdir", "unlink", "rmdir", "create", "rename"}

ASSUME SharePermsAssumption ==
  /\ Depth \in Nat /\ MaxOps \in Nat /\ DOMAIN Tree0 \cup UsedPaths \subseteq Paths
  /\ AnyUid \notin ClientUsers
  /\ UidOf \in [ClientUsers -> Uids]
  /\ UsedOps \subseteq Ops
  /\ \A R \in Entered : R \subseteq Row

VARIABLES
  tree,    \* tree[s]: path -> "file" or "dir" for what exists below s's local path
  rows,    \* the rows of User_Share_Perms
  req,     \* req[w]: the operation w works on; `there`: its file existed when it
           \* began; `fresh`: no row changed since
  ops,
  \* history
  grants,  \* where the entered rows would be if they belonged to the files
  odd      \* what happened that the rows cannot follow

vars == <<tree, rows, req, ops, grants, odd>>

Idle == [at |-> "idle", op |-> "none", from |-> <<>>, to |-> <<>>, uid |-> 0,
         there |-> FALSE, todo |-> <<>>, n |-> 0, fresh |-> FALSE]

Parent(p)   == Front(p)
Below(p, q) == Len(q) > Len(p) /\ SubSeq(q, 1, Len(p)) = p
Exists(s, p) == p = <<>> \/ p \in DOMAIN tree[s]
IsDir(s, p)  == p = <<>> \/ (p \in DOMAIN tree[s] /\ tree[s][p] = "dir")

-----------------------------------------------------------------------------
(* getPerms                                                                *)

(* Mutant: a row for every uid may win over one for this uid. *)
MutPermsAt(s, uid, p) ==
  {r.perms : r \in {q \in rows : q.share = s /\ q.path = p
                      /\ (q.cu = AnyUid \/ UidOf[q.cu] = uid)}}

(* One statement.  NULL sorts last in descending order, so a row for the   *)
(* uid comes before a row for all; between several the choice is open.     *)
PermsAt(s, uid, p) ==
  LET here == {r \in rows : r.share = s /\ r.path = p}
      own  == {r \in here : r.cu # AnyUid /\ UidOf[r.cu] = uid}
  IN  {r.perms : r \in IF own # {} THEN own ELSE {r \in here : r.cu = AnyUid}}

-----------------------------------------------------------------------------
(* What the operations ask for                                             *)

Ask(p, c) == [path |-> p, perm |-> c]

(* "create" is open with O_CREAT and O_WRONLY, which asks for the parent   *)
(* only when the file is not there; access asks for what the mask has      *)
(* (here X_OK); symlink asks and acts as mknod does.  getattr, statfs,     *)
(* read, write and release ask for nothing.                                *)
Asks(s, op, p, q) ==
  CASE op \in {"readdir", "readlink"}         -> <<Ask(p, "r")>>
    [] op \in {"truncate", "utimens"}         -> <<Ask(p, "w")>>
    [] op = "access"                          -> <<Ask(p, "x")>>
    [] op \in {"chmod", "chown"}              -> <<Ask(p, "o")>>
    [] op \in {"mknod", "mkdir", "unlink", "rmdir"} -> <<Ask(Parent(p), "w")>>
    [] op = "create" -> IF Exists(s, p) THEN <<Ask(p, "w")>>
                        ELSE <<Ask(Parent(p), "w"), Ask(p, "w")>>
    [] op = "rename" -> <<Ask(Parent(p), "w"), Ask(Parent(q), "w")>>

(* The request is read; chmod, chown and access first look whether the     *)
(* file exists (-EEXIST, -1).                                              *)
Begin(w, op, p, q, uid) ==
  /\ req[w].at = "idle" /\ ops < MaxOps
  /\ op \in {"access", "chmod", "chown"} => Exists(ShareOf[w], p)
  /\ (op = "rename") = (p # q)
  /\ LET asks == Asks(ShareOf[w], op, p, q)
     IN  req' = [req EXCEPT ![w] = [at |-> "look", op |-> op, from |-> p, to |-> q,
                                    uid |-> uid, there |-> Exists(ShareOf[w], p),
                                    todo |-> asks, n |-> Len(asks[1].path),
                                    fresh |-> TRUE]]
  /\ ops' = ops + 1
  /\ UNCHANGED <<tree, rows, grants, odd>>

(* An answer: refused, the next look-up, or on to the system call. *)
Decide(w, perms) ==
  LET rest == Tail(req[w].todo)
  IN  req' = [req EXCEPT ![w] =
                IF Head(req[w].todo).perm \notin perms THEN Idle
                ELSE IF rest = <<>> THEN [@ EXCEPT !.at = "act", !.todo = <<>>]
                ELSE [@ EXCEPT !.todo = rest, !.n = Len(rest[1].path)]]

(* One statement of getPerms; when it fails there are no permissions. *)
Look(w) ==
  /\ req[w].at = "look"
  /\ LET p     == SubSeq(Head(req[w].todo).path, 1, req[w].n)
         found == IF req[w].n = 0 THEN {DefaultPerms}
                  ELSE PermsAt(ShareOf[w], req[w].uid, p)
     IN  \/ \E perms \in found : Decide(w, perms)
         \/ found = {} /\ req' = [req EXCEPT ![w].n = @ - 1]
         \/ req[w].n > 0 /\ Decide(w, {})
  /\ UNCHANGED <<tree, rows, ops, grants, odd>>

-----------------------------------------------------------------------------
(* System calls and what follows them                                      *)

With(s, p, kind) == [tree EXCEPT ![s] =
                       [x \in DOMAIN tree[s] \cup {p} |-> IF x = p THEN kind ELSE tree[s][x]]]
Without(s, p)    == [tree EXCEPT ![s] = [x \in DOMAIN tree[s] \ {p} |-> tree[s][x]]]

(* The subtree of p becomes that of q. *)
Moved(p, q, x) == IF x = p \/ Below(p, x) THEN q \o SubSeq(x, Len(p) + 1, Len(x)) ELSE x

Renamed(s, p, q) ==
  LET kept == {x \in DOMAIN tree[s] : x # q /\ Len(Moved(p, q, x)) <= Depth}
  IN  [tree EXCEPT ![s] =
         [x \in {Moved(p, q, y) : y \in kept} |->
            tree[s][CHOOSE y \in kept : Moved(p, q, y) = x]]]

CanCreate(s, p) == ~Exists(s, p) /\ IsDir(s, Parent(p))
Empty(s, p)     == ~\E x \in DOMAIN tree[s] : Below(p, x)
CanRename(s, p, q) ==
  /\ p \in DOMAIN tree[s] /\ IsDir(s, Parent(q)) /\ ~Below(p, q)
  /\ \A x \in DOMAIN tree[s] : Len(Moved(p, q, x)) <= Depth
  /\ q \in DOMAIN tree[s] => tree[s][q] = tree[s][p] /\ Empty(s, q)

(* Another worker has still to change the rows of one of these paths, of a *)
(* directory above or of a file below one.                                 *)
Race(w, ps) ==
  \E v \in Workers \ {w} : req[v].at = "sql" /\
     \E x \in {req[v].from, req[v].to}, y \in ps : x = y \/ Below(x, y) \/ Below(y, x)

(* What the rows will not follow: rows that are at the new name already,   *)
(* rows below a renamed directory, rows of the other shares, and the order *)
(* of two workers' statements.                                             *)
Oddities(w) ==
  LET s == ShareOf[w]   p == req[w].from   q == req[w].to
  IN  {o \in {"overwrite", "subtree", "shares", "race"} :
         CASE o = "overwrite" -> req[w].op = "rename" /\ \E r \in rows : r.path = q
           [] o = "subtree"   -> req[w].op = "rename" /\ \E r \in rows : Below(p, r.path)
           [] o = "shares"    -> \E r \in rows : r.path = p /\ r.share # s
           [] o = "race"      -> Race(w, {p, q})}

CallFails(w) ==
  /\ req[w].at = "act"
  /\ req' = [req EXCEPT ![w] = Idle]
  /\ UNCHANGED <<tree, rows, ops, grants, odd>>

(* Operations that leave names alone, and those that make one. *)
Call(w) ==
  LET s == ShareOf[w]   p == req[w].from   op == req[w].op
  IN  /\ req[w].at = "act"
      /\ \/ op \notin {"mknod", "create", "mkdir", "unlink", "rmdir", "rename"} /\ UNCHANGED tree
         \/ op = "create" /\ Exists(s, p) /\ UNCHANGED tree
         \/ op \in {"mknod", "create"} /\ CanCreate(s, p) /\ tree' = With(s, p, "file")
         \/ op = "mkdir" /\ CanCreate(s, p) /\ tree' = With(s, p, "dir")
      /\ req' = [req EXCEPT ![w] = Idle]
      /\ odd' = odd \cup (IF tree' # tree /\ Race(w, {p}) THEN {"race"} ELSE {})
      /\ UNCHANGED <<rows, ops, grants>>

(* unlink and rmdir *)
RemoveName(w) ==
  LET s == ShareOf[w]   p == req[w].from
  IN  /\ req[w].at = "act" /\ p \in DOMAIN tree[s]
      /\ \/ req[w].op = "unlink" /\ tree[s][p] = "file"
         \/ req[w].op = "rmdir" /\ tree[s][p] = "dir" /\ Empty(s, p)
      /\ tree' = Without(s, p)
      /\ grants' = {r \in grants : ~(r.share = s /\ r.path = p)}
      /\ req' = [req EXCEPT ![w].at = "sql"]
      /\ odd' = odd \cup Oddities(w)
      /\ UNCHANGED <<rows, ops>>

Rename(w) ==
  LET s == ShareOf[w]   p == req[w].from   q == req[w].to
  IN  /\ req[w].at = "act" /\ req[w].op = "rename" /\ CanRename(s, p, q)
      /\ tree' = Renamed(s, p, q)
      /\ grants' = {[r EXCEPT !.path = IF r.share = s THEN Moved(p, q, @) ELSE @] :
                      r \in {g \in grants : ~(g.share = s /\ g.path = q)}}
      /\ req' = [req EXCEPT ![w].at = "sql"]
      /\ odd' = odd \cup Oddities(w)
      /\ UNCHANGED <<rows, ops>>

(* Mutant: the rows are deleted. *)
MutMovedGone(p, q) == {r \in rows : r.path # p}

(* UPDATE ... SET Path: the whole statement fails when the index (share,   *)
(* user, client user, path) has a row in the way; NULLs are never equal.   *)
MovedRows(p, q) ==
  IF \E r \in rows, x \in rows : r.path = p /\ x.path = q /\ r.share = x.share
                                 /\ r.cu = x.cu /\ r.cu # AnyUid
    THEN rows
    ELSE {[r EXCEPT !.path = IF @ = p THEN q ELSE @] : r \in rows}

(* The statement after the call goes by the path alone; its failure is     *)
(* logged and forgotten.                                                   *)
Follow(w) ==
  /\ req[w].at = "sql"
  /\ \/ /\ rows' = IF req[w].op = "rename" THEN MovedRows(req[w].from, req[w].to)
                   ELSE {r \in rows : r.path # req[w].from}
        /\ UNCHANGED odd
     \/ UNCHANGED rows /\ odd' = odd \cup {"failed"}
  /\ req' = [v \in Workers |-> IF v = w THEN Idle
                              ELSE [req[v] EXCEPT !.fresh = @ /\ rows' = rows]]
  /\ UNCHANGED <<tree, ops, grants>>

-----------------------------------------------------------------------------
Init ==
  /\ tree = [s \in Shares |-> Tree0]
  /\ rows \in Entered
  /\ req = [w \in Workers |-> Idle] /\ ops = 0
  /\ grants = rows /\ odd = {}

Step(w) ==
  \/ \E op \in UsedOps, p \in UsedPaths, q \in UsedPaths, uid \in Uids : Begin(w, op, p, q, uid)
  \/ Look(w) \/ CallFails(w) \/ Call(w) \/ RemoveName(w) \/ Rename(w) \/ Follow(w)

Next == \E w \in Workers : Step(w)

Spec == Init /\ [][Next]_vars

-----------------------------------------------------------------------------
(* Properties                                                              *)

TypeOK ==
  /\ \A s \in Shares : DOMAIN tree[s] \subseteq Paths
                       /\ \A p \in DOMAIN tree[s] : tree[s][p] \in {"file", "dir"}
  /\ rows \subseteq Row /\ grants \subseteq Row
  /\ \A w \in Workers : req[w].at \in {"idle", "look", "act", "sql"}
                        /\ req[w].n \in 0..Depth
  /\ ops \in 0..MaxOps
  /\ odd \subseteq {"overwrite", "subtree", "shares", "race", "failed"}

(* The rows for this uid or for all on p or above it; the nearest, and of  *)
(* the nearest the one for the uid.                                        *)
Applies(s, uid, p) ==
  {r \in rows : /\ r.share = s /\ (r.cu = AnyUid \/ UidOf[r.cu] = uid)
                /\ r.path = p \/ Below(r.path, p)}
Nearest(s, uid, p) ==
  LET near(r) == \A x \in Applies(s, uid, p) :
                   /\ Len(x.path) <= Len(r.path)
                   /\ Len(x.path) = Len(r.path) /\ x.cu # AnyUid => r.cu # AnyUid
  IN  IF Applies(s, uid, p) = {} THEN {DefaultPerms}
      ELSE {r.perms : r \in {x \in Applies(s, uid, p) : near(x)}}
MayWrite(w, p) == \E perms \in Nearest(ShareOf[w], req[w].uid, p) : "w" \in perms

(* Unless another worker moved or deleted rows meanwhile: what comes to    *)
(* the system call may write, by the nearest row, in the directories whose *)
(* names it was asked to change, or to the file it changes; create may     *)
(* write to the file, and in its directory when the file was not there as  *)
(* the worker looked.  (A file that was there then and is unlinked before  *)
(* open() with O_CREAT is made again by that call, and nobody asked for    *)
(* 'w' on its directory: the code does not look again.)                    *)
ActsGranted ==
  \A w \in Workers : req[w].at = "act" /\ req[w].fresh =>
     /\ req[w].op \in {"mknod", "mkdir", "unlink", "rmdir", "rename"} =>
          MayWrite(w, Parent(req[w].from)) /\ MayWrite(w, Parent(req[w].to))
     /\ req[w].op \in {"truncate", "utimens", "create"} => MayWrite(w, req[w].from)
     /\ req[w].op = "create" /\ ~req[w].there => MayWrite(w, Parent(req[w].from))

(* As long as nothing of the named kinds happened, the rows are where they *)
(* would be if they belonged to the files: deleted and renamed with them.  *)
RowsFollowFiles ==
  (odd = {} /\ \A w \in Workers : req[w].at # "sql") => rows = grants
=============================================================================
