------------------------------- MODULE Sifting --------------------------------
(***************************************************************************)
(* What is left of a sequence when it is sifted: the filters and filtered   *)
(* Results of the program, as recursive functions, which can be reasoned    *)
(* about.                                                                   *)
(***************************************************************************)
EXTENDS Naturals, Sequences

(* Of the first n elements of s those in X, in their order. *)
WithinFirst(s, X, n) ==
    LET kept[i \in 0 .. Len(s)] ==
          IF i = 0 THEN << >>
          ELSE IF s[i] \in X THEN Append(kept[i - 1], s[i])
          ELSE kept[i - 1]
    IN  kept[n]

Within(s, X) == WithinFirst(s, X, Len(s))

Without(s, X) == Within(s, {s[i] : i \in DOMAIN s} \ X)
===============================================================================
