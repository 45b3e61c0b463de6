----------------------------- MODULE MCPublishing -----------------------------
(***************************************************************************)
(* Small instances of PublishingSystem: two rows of one post, the second   *)
(* of which can hold the first, or two posts of one row each.              *)
(***************************************************************************)
EXTENDS PublishingSystem, TLC

CONSTANTS p1, p2, post1, post2, w1, w2, e1

\* Both rows under one post.
Siblings == p1 :> post1 @@ p2 :> post1

\* One row per post.
Separate == p1 :> post1 @@ p2 :> post2

\* The rows of one post are alike.
Symmetry == Permutations({p1, p2})

MCBackoff == 0 :> 1 @@ 1 :> 2
===============================================================================
