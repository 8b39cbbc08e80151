---------------------------- MODULE MCSharePerms ----------------------------
(* Two workers on one share and one on another. *)
EXTENDS SharePerms, TLC

CONSTANTS w1, w2, w3, cu1, a, b, c

MCShareOf == w1 :> 1 @@ w2 :> 1 @@ w3 :> 2
MCUidOf   == cu1 :> 7
MCGrants  == {{"w"}, {"r"}}
MCDefault == {"w"}

(* readlink asks as readdir does, utimens as truncate, chown as chmod. *)
MCOps == {"readdir", "truncate", "access", "chmod",
          "mknod", "mkdir", "unlink", "rmdir", "create", "rename"}

MCPaths == {<<a>>, <<b>>, <<c>>, <<a, a>>}

(* A directory with a file in it, and a file. *)
MCTree == (<<a>> :> "dir") @@ (<<a, a>> :> "file") @@ (<<b>> :> "file")

(* At most two rows, one for each share, path and client user: a row for   *)
(* everyone lets write, a row for the uid does not.                        *)
MCEntered ==
  {R \in SUBSET {r \in Row : /\ r.path \in DOMAIN MCTree
                             /\ r.share = 2 => r.path = <<b>>
                             /\ r.perms = IF r.cu = AnyUid THEN {"w"} ELSE {"r"}} :
     Cardinality(R) <= 2}

MCSymmetry == Permutations({w1, w2})
=============================================================================
