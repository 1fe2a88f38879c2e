----------------------------- MODULE MCGroupsTable -----------------------------
(***************************************************************************)
(* Small instances of GroupsTable: three groups, a text that two of them    *)
(* contain, and one with a quote.                                           *)
(***************************************************************************)
EXTENDS GroupsTable

CONSTANTS g1, g2, g3, part, quote

MCGroupList == << g1, g2, g3 >>

MCMatching == [t \in Texts |->
    CASE t = NoText -> {g1, g2, g3} [] t = part -> {g2, g3} [] OTHER -> {}]
================================================================================
