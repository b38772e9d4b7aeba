----------------------------- MODULE MCFriends -----------------------------
(* An instance of Friends for TLC. *)
EXTENDS Friends
CONSTANTS ann, bob, c1, c2

(* Both connections are to Ann. *)
BothToAnn == [c \in {c1, c2} |-> ann]
=============================================================================
