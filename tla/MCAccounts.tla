----------------------------- MODULE MCAccounts -----------------------------
(***************************************************************************)
(* Accounts for model checking: two addresses that are admitted, one by    *)
(* its domain and one by name, and one that is not; two people who sign in *)
(* with Google, from any of them.                                          *)
(***************************************************************************)
EXTENDS Accounts, TLC

MCEmails == {"staff", "guest", "outsider"}
MCDomain == [e \in MCEmails |-> IF e = "staff" THEN "org" ELSE "elsewhere"]

Symmetry == Permutations(Requests) \cup Permutations(Subjects)
=============================================================================
