-------------------------------- MODULE Text --------------------------------
(***************************************************************************)
(* The text the news reader cuts up.  A text is a sequence of tokens: a     *)
(* token is a run of characters that no claim of this project looks inside *)
(* of, and CRLF is the token that ends a line.  Reads may end between any   *)
(* two tokens, so a line that a read can cut in two is written as two       *)
(* tokens.  A read that ends between the two characters of a line break is  *)
(* not among them.                                                          *)
(***************************************************************************)
EXTENDS Integers, Sifting, SequencesExt

CRLF == "CRLF"
Dot == "."

Breaks(text) == {i \in DOMAIN text : text[i] = CRLF}

(***************************************************************************)
(* NewsReader.splitter(line:) with its defaults: everything before the      *)
(* LAST line break, and everything after it.  A text without a line break   *)
(* is all prefix.                                                           *)
(***************************************************************************)
SplitPrefix(text) ==
    IF Breaks(text) = {} THEN text ELSE SubSeq(text, 1, Max(Breaks(text)) - 1)

SplitRest(text) ==
    IF Breaks(text) = {} THEN << >>
    ELSE SubSeq(text, Max(Breaks(text)) + 1, Len(text))

(***************************************************************************)
(* String.split(separator: "\r\n"): the lines of a text, empty ones omitted.*)
(* A token begins a line if it is the first or comes behind a line break.   *)
(***************************************************************************)
WithToken(lines, text, i) ==
    IF text[i] = CRLF THEN lines
    ELSE IF i = 1 \/ text[i - 1] = CRLF THEN Append(lines, << text[i] >>)
    ELSE [lines EXCEPT ![Len(lines)] = Append(@, text[i])]

Lines(text) ==
    LET lines[i \in 0 .. Len(text)] ==
          IF i = 0 THEN << >> ELSE WithToken(lines[i - 1], text, i)
    IN  lines[Len(text)]

(* The text of a sequence of lines, each with its line break. *)
Unlines(lines) ==
    FlattenSeq([i \in DOMAIN lines |-> Append(lines[i], CRLF)])

(* String.starts(with:) for a prefix given as a text. *)
StartsWith(text, prefix) == IsPrefix(prefix, text)
=============================================================================
