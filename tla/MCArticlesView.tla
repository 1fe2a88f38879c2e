---------------------------- MODULE MCArticlesView -----------------------------
(***************************************************************************)
(* Small instances of ArticlesView: two parts of a post, an article by      *)
(* itself, one without a subject, and a part whose key is the number of     *)
(* another article.                                                         *)
(***************************************************************************)
EXTENDS ArticlesView

CONSTANTS p1, p2, single, bare, number, name, t1, t2

Alike == Permutations({t1, t2})

MCArticles == {p1, p2, single, bare, number}

MCKey == [a \in MCArticles |->
            CASE a \in {p1, p2} -> name [] a = number -> single [] OTHER -> None]

MCFileNumber == [a \in MCArticles |->
            CASE a = p1 -> 1 [] a = p2 -> 2 [] OTHER -> 0]
================================================================================
