------------------------------ MODULE MCInvite ------------------------------
(***************************************************************************)
(* Instance of Invite for TLC: Ann retries, Bob tries once.                *)
(***************************************************************************)
EXTENDS Invite, TLC

CONSTANTS Ann, Bob, Ann1, Ann2, Bob1

TwoInvitees == {Ann, Bob}
AnnRetries  == {Ann1, Ann2, Bob1}
Holder      == [a \in AnnRetries |-> IF a = Bob1 THEN Bob ELSE Ann]

(* Ann's attempts are alike. *)
Interchangeable == Permutations({Ann1, Ann2})
=============================================================================
