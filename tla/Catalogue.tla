------------------------------- MODULE Catalogue -------------------------------
(***************************************************************************)
(* What the library promises of its articles: an article, once known, stays *)
(* known and stays in its group; a portion of a group's list adds articles, *)
(* all at once, that have no header yet; and a header is added once.  An    *)
(* abstraction of Library.tla; no code corresponds to it line by line.      *)
(***************************************************************************)
CONSTANTS Groups, Numbers

VARIABLE known      \* number -> the group it belongs to and whether it has its header

Init == known = << >>

Add ==
    \E group \in Groups : \E new \in SUBSET (Numbers \ DOMAIN known) :
        known' = [n \in DOMAIN known \union new |->
                     IF n \in new THEN [group |-> group, headed |-> FALSE] ELSE known[n]]

AddHeader ==
    \E n \in DOMAIN known :
        /\ ~known[n].headed
        /\ known' = [known EXCEPT ![n].headed = TRUE]

Next == Add \/ AddHeader

Spec == Init /\ [][Next]_known
================================================================================
