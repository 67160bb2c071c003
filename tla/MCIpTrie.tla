------------------------------ MODULE MCIpTrie ------------------------------
(* Addresses of three and four bits and every prefix of them; rules for up *)
(* to three IPv4 blocks, put and put again in any order, so that blocks    *)
(* nest, overlap and share a part of their path.                           *)
EXTENDS IpTrie, TLC

FourSix(n, m) == [f \in {"v4", "v6"} |-> IF f = "v4" THEN n ELSE m]
MCWidth  == FourSix(3, 4)
MCRules  == FourSix(3, 0)
MCRules6 == FourSix(0, 2)
Symmetry == Permutations(Tags)
=============================================================================
