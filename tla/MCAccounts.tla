----------------------------- MODULE MCAccounts -----------------------------
(* Small instances of Accounts for TLC.                                    *)
EXTENDS Accounts, TLC

MCSymmetry == Permutations(Requests) \cup Permutations(Slugs) \cup Permutations(Emails)
=============================================================================
