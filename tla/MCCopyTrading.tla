--------------------------- MODULE MCCopyTrading ---------------------------
(***************************************************************************)
(* Copy trading for TLC: a follower of a master, or of two. The first      *)
(* master buys, and sells twice, the second time to the other one.         *)
(***************************************************************************)
EXTENDS CopyTrading, TLC

MCTermsOf == [t \in Trade |->
    CASE t = "t1" -> [buyer |-> "m1", seller |-> "x", quantity |-> 3]
      [] t = "t2" -> [buyer |-> "x", seller |-> "m1", quantity |-> 3]
      [] t = "t3" -> [buyer |-> "m2", seller |-> "m1", quantity |-> 2]]

MCSymmetry == Permutations(Instance) \cup Permutations(Handler)
=============================================================================
