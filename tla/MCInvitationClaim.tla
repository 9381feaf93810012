-------------------------- MODULE MCInvitationClaim --------------------------
(* Small instances of InvitationClaim, and of VersionWorkflow in it. *)
EXTENDS InvitationClaim, TLC

CONSTANTS v1, i1, i2, r1, r2, c1, k1, k2

OneVersion == {v1}
OneItem == {i1}
TwoItems == {i1, i2}
TwoRequests == {r1, r2}
OneCode == {c1}
TwoClaims == {k1, k2}

Symmetry == Permutations(Request) \cup Permutations(Claim)
=============================================================================
