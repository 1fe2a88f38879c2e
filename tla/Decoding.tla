------------------------------- MODULE Decoding --------------------------------
(***************************************************************************)
(* How the reader turns the bytes of a connection into text: every read     *)
(* fills the front of one buffer that is kept, and what it brought is       *)
(* decoded by itself, as UTF-8, and if that fails as ASCII.  A read may end *)
(* anywhere, also within a character, and an article need not be UTF-8.     *)
(*                                                                          *)
(* A byte is the character it belongs to and its place in it.  External:    *)
(* the decoding as ASCII of a byte that is not makes a mark of it, or fails *)
(* as a whole; the model leaves both open.                                  *)
(***************************************************************************)
EXTENDS Sifting, SequencesExt

CONSTANTS
    Wide,           \* characters of two bytes in UTF-8
    Narrow,         \* characters of one, which ASCII has too
    Foreign,        \* bytes that are no UTF-8 wherever they are
    Mark,           \* what a byte becomes that is not ASCII
    maxReadLength,  \* the buffer's capacity
    MaxText         \* bound: characters sent

ASSUME DecodingAssumption ==
    /\ Wide \intersect (Narrow \union Foreign) = {} /\ Narrow \intersect Foreign = {}
    /\ Mark \notin Wide \union Narrow \union Foreign
    /\ maxReadLength \in Nat \ {0} /\ MaxText \in Nat

VARIABLES
    text,       \* what the server sends, by characters
    sent,       \* how many of its bytes have been read
    buffer,     \* the buffer: bytes of this read, and behind them of older ones
    length,     \* numberOfBytesRead
    response,   \* the text decoded so far
    damaged     \* history: a read was cut within a character, or brought foreign bytes

decoding == << text, sent, buffer, length, response, damaged >>

Characters == Wide \union Narrow \union Foreign

Bytes(c) == IF c \in Wide THEN << << c, 1 >>, << c, 2 >> >> ELSE << << c, 1 >> >>

Encoding(s) == FlattenSeq([i \in DOMAIN s |-> Bytes(s[i])])

DecodingInit ==
    /\ text \in SeqOf(Characters, MaxText)
    /\ sent = 0 /\ buffer = << >> /\ length = 0
    /\ response = << >>
    /\ damaged = FALSE
-------------------------------------------------------------------------------
\* Variant: only what ASCII has.
IsPlain(b) == \A i \in DOMAIN b : b[i][1] \in Narrow

\* The bytes of whole characters, and no others.
IsUTF8(b) ==
    \A i \in DOMAIN b :
        LET c == b[i][1] IN
        /\ c \notin Foreign
        /\ b[i][2] = 2 => i > 1 /\ b[i - 1] = << c, 1 >>
        /\ b[i][2] = 1 /\ c \in Wide => i < Len(b) /\ b[i + 1] = << c, 2 >>

\* What decoding as UTF-8 comes to.
AsUTF8(b) ==
    LET first == Within(b, Characters \X {1}) IN [i \in DOMAIN first |-> first[i][1]]

\* What decoding as ASCII can come to; << >> if it fails.
AsASCII(b) ==
    { << >>, [i \in DOMAIN b |-> IF b[i][1] \in Narrow THEN b[i][1] ELSE Mark] }

\* Variant: all that is in the buffer.
WholeBuffer(b, n) == b

\* buffer and length, as processedMessageString gets them.
Arrived(b, n) == SubSeq(b, 1, n)

\* The buffer after a read.
Filled(bytes) == bytes \o SubSeq(buffer, Len(bytes) + 1, Len(buffer))

\* The byte behind the first k is in the middle of a character.
WithinCharacter(k) == k < Len(Encoding(text)) /\ Encoding(text)[k + 1][2] = 2

\* A read, and processedMessageString.
Read(n) ==
    LET bytes == SubSeq(Encoding(text), sent + 1, sent + n)
        filled == Filled(bytes)
        arrived == Arrived(filled, n)
    IN /\ sent + n <= Len(Encoding(text))
       /\ sent' = sent + n
       /\ length' = n
       /\ buffer' = filled
       /\ \/ /\ IsUTF8(arrived)
             /\ response' = response \o AsUTF8(arrived)
          \/ /\ ~IsUTF8(arrived)
             /\ \E s \in AsASCII(arrived) : response' = response \o s
       /\ damaged' = (damaged \/ \E i \in 1 .. n : bytes[i][1] \in Foreign
                               \/ WithinCharacter(sent) \/ WithinCharacter(sent + n))
       /\ UNCHANGED text

DecodingNext == \E n \in 1 .. maxReadLength : Read(n)

DecodingSpec == DecodingInit /\ [][DecodingNext]_decoding
-------------------------------------------------------------------------------
\* Reads that end between characters of UTF-8 bring the text as it was sent,
\* all that has been read and nothing else (readAvailableBytes).
ExactUnlessDamaged ==
    ~damaged => IsPrefix(response, text) /\ Len(Encoding(response)) = sent

\* s is t with something left out.
IsThinned(s, t) ==
    \E place \in [DOMAIN s -> DOMAIN t] :
        /\ \A i, j \in DOMAIN s : i < j => place[i] < place[j]
        /\ \A i \in DOMAIN s : s[i] = t[place[i]]

\* A read cut within a character loses or marks what it brought, but what was
\* decoded before and after is in its place: without the marks the response is
\* the text with something left out, and a text of whole ASCII is never touched.
NothingInvented ==
    /\ IsThinned(Without(response, {Mark}), text)
    /\ ToSet(text) \subseteq Narrow => ~damaged
================================================================================
