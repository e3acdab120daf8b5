------------------------------ MODULE MCChat ------------------------------
(* Small instances of Chat. *)
EXTENDS Chat, TLC

DigestAndAlert == {DigestButtons, RedButtons}

Same == Permutations(Updates)

===========================================================================
