----------------------------- MODULE MCExchange -----------------------------
(* Instances of Exchange for TLC. *)
EXTENDS Exchange, TLC

CONSTANTS u1, u2, g1, g2

\* Users are interchangeable, and so are groups.
UsersAndGroups == Permutations(Uids) \cup Permutations(Gids)
=============================================================================
