----------------------------- MODULE MCAccounts -----------------------------
EXTENDS Accounts, TLC

\* Accounts without a fixed part and the requests are interchangeable.
Symmetric ==
  Permutations(Users \ Disabled) \cup Permutations(Tokens) \cup Permutations(Reqs)
=============================================================================
