----------------------------- MODULE MCNewsReader -----------------------------
(***************************************************************************)
(* Small instances of NewsReader: three lines in a list, two ids, lines of *)
(* one or two tokens.  The second entry can be cut in two by a read; the    *)
(* group line can be cut so that its second half still parses; one line of  *)
(* an article starts with a dot, and one of the other like a status line.   *)
(***************************************************************************)
EXTENDS NewsReader

MCListing ==
    Unlines(<< << "alt.", "bin 9 1 y" >>, << "bad line" >>, << "misc 3 1 n" >> >>)

MCGroupLines == {<< "alt.", "bin 9 1 y" >>, << "bin 9 1 y" >>, << "misc 3 1 n" >>}

MCIds == << "a1", "a2" >>
MCLookalikeIds == << "a2", "a1" >>

MCHeadOf ==
    "a1" :> Unlines(<< << "Subject: ", "one" >> >>)
    @@ "a2" :> Unlines(<< << "Subject: two" >>, << "Bytes: 2" >> >>)

MCBodyOf ==
    "a1" :> Unlines(<< << "begin ", "file" >>, << ".", ".stuffed" >> >>)
    @@ "a2" :> Unlines(<< << "211 ", "looks like a status line" >> >>)

MCPayload ==
    UNION {ToSet(text) : text \in {MCListing} \union {MCHeadOf[id] : id \in DOMAIN MCHeadOf}
                                            \union {MCBodyOf[id] : id \in DOMAIN MCBodyOf}}

(* The instances are among those whose promise is proved. *)
ASSUME MCProperPayload == ProperPayload

AllCommands == CommandKinds
AllRefusals == RefusalKinds
===============================================================================
