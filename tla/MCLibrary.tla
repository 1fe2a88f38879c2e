------------------------------- MODULE MCLibrary -------------------------------
(***************************************************************************)
(* Small instances of Library: two groups that both have article 2, so that *)
(* the numbers collide, and three connections at once, so that two lists    *)
(* and the headers of one of them, or one list and two portions of headers, *)
(* overlap.                                                                 *)
(***************************************************************************)
EXTENDS Library

CONSTANTS g1, g2, t1, t2, t3

MCGroups == {g1, g2}
MCGroupList == << g1, g2 >>
MCListing == (g1 :> << 1, 2 >>) @@ (g2 :> << 2, 3 >>)
MCThreads == {t1, t2, t3}

Connections == Permutations(MCThreads)
================================================================================
