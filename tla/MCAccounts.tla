---------------------------- MODULE MCAccounts ----------------------------
(* Accounts with two or three emails, one of which begins with another. *)
EXTENDS Accounts, TLC

CONSTANTS e1, e2

PrefixPair == {<<d, d>> : d \in Emails} \cup {<<e1, e2>>}

Symmetric == Permutations(ContactIDs) \cup Permutations(Passwords) \cup Permutations(Conns)
=============================================================================
