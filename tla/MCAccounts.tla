----------------------------- MODULE MCAccounts -----------------------------
(* Small instances of Accounts for TLC. *)
EXTENDS Accounts, TLC

Claim(s, e, v) == [subject |-> s, email |-> e, verified |-> v]

(* Two people; the second now has the address the first signed up with,    *)
(* and the first none.                                                     *)
MCClaims ==
  {Claim("s1", "e1", TRUE), Claim("s1", "", TRUE), Claim("s2", "e1", TRUE), Claim("s2", "e2", FALSE)}

Symmetry == Permutations(Requests) \cup Permutations(Browsers)
=============================================================================
