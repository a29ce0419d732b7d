----------------------------- MODULE MCAccounts -----------------------------
(* Small instances of Accounts for TLC: addresses with the same local part,  *)
(* one of them also in upper case.                                           *)
EXTENDS Accounts, TLC

LowerCase(text) == CASE text = "Bob@x" -> "bob@x"
                     [] text = "Bob" -> "bob"
                     [] text = "Bob2" -> "bob2"
                     [] text = "Bob3" -> "bob3"
                     [] OTHER -> text
BeforeAt(address) == CASE address \in {"bob@x", "bob@y"} -> "bob"
                       [] address = "Bob@x" -> "Bob"
                       [] OTHER -> address
WithNumber(base, n) == IF n = 1 THEN base ELSE base \o ToString(n)

(* Requests are interchangeable, and so are invitations.                     *)
Symmetry == Permutations(Request) \cup Permutations(Invite)
=============================================================================
