------------------------------- MODULE Retrieval -------------------------------
(***************************************************************************)
(* What a connection promises to the command that opened it: the items the  *)
(* command asked for are handed over in order, in one or more portions,     *)
(* each item exactly once; and the connection is finished when, and only    *)
(* when, all of them have been.  A server may refuse the command: then      *)
(* nothing more comes, and the connection stays open until the server hangs *)
(* up, after which it may be finished with less.  An abstraction of         *)
(* NewsReader.tla and of the four commands; no code corresponds to it line  *)
(* by line.                                                                 *)
(***************************************************************************)
EXTENDS Naturals, Sequences

VARIABLES
    wanted,     \* the items the server has for this command; never changes
    result,     \* the items handed over so far
    finished,   \* the connection has been closed
    server      \* "serves", "refuses" or is "gone"

retrieval == << wanted, result, finished, server >>

Init ==
    /\ result = << >>
    /\ finished = FALSE
    /\ server = "serves"

(* The next items, possibly none; perhaps the last ones. *)
Deliver ==
    /\ ~finished /\ server # "refuses"
    /\ \E n \in Len(result) .. Len(wanted) :
         /\ result' = SubSeq(wanted, 1, n)
         /\ finished' \in {FALSE, server = "gone" \/ n = Len(wanted)}
    /\ UNCHANGED << wanted, server >>

Refuse ==
    /\ ~finished /\ server = "serves"
    /\ server' = "refuses"
    /\ UNCHANGED << wanted, result, finished >>

HangUp ==
    /\ server # "gone"
    /\ server' = "gone"
    /\ UNCHANGED << wanted, result, finished >>

Next == Deliver \/ Refuse \/ HangUp

(* Nothing else ever happens. *)
Safety == Init /\ [][Next]_retrieval

(* Whoever asks is served, refused, or left, in the end. *)
Outcome == <>(finished \/ server # "serves")

Spec == Safety /\ Outcome
================================================================================
