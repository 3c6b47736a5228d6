---------------------------- MODULE MCFileStore ----------------------------
(* Instances of FileStore for TLC: two accounts, the first an administrator. *)
EXTENDS FileStore, TLC

CONSTANTS u1, u2, icon1, icon2, site

\* A field of an account and one of the site.
OwnerOfPair == (icon2 :> u2) @@ (site :> Site)
OwnerOfLive == (icon1 :> u1) @@ (site :> Site)

Symmetric == Permutations(Reqs) \cup Permutations(Files)
=============================================================================
