------------------------------- MODULE MCDisplay -------------------------------
(***************************************************************************)
(* Small instances of Display and Decoding.  The articles: a text, an       *)
(* encoded picture, the first part of a longer encoding, and a line of text *)
(* that starts like one; the characters: one of each kind, and a buffer     *)
(* that some do not fit.                                                    *)
(*                                                                          *)
(* The text of an article is read and decoded on the thread of its          *)
(* connection before it is put on the main queue, and the two share no      *)
(* state.  So a behaviour is one of either part: all texts are read, and    *)
(* where there is none to read the user selects articles.                   *)
(***************************************************************************)
EXTENDS Display, Decoding

CONSTANTS prose, picture, part, quoted, r1, r2, wide, plain, narrow, latin

MCInit == Init /\ DecodingInit

Reading == DecodingNext /\ UNCHANGED vars

Showing == text = << >> /\ Next /\ UNCHANGED decoding

MCSpec ==
    /\ MCInit /\ [][Reading \/ Showing]_<< vars, decoding >>
    /\ Fairness
================================================================================
