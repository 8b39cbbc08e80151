----------------------------- MODULE MCSession -----------------------------
EXTENDS Session

CONSTANTS root, ann, bob

(* Two users; by the next mount the second may have been replaced. *)
MCPasswds == {<<<<0, root>>, <<1, ann>>>>, <<<<0, root>>, <<1, bob>>>>}
=============================================================================
