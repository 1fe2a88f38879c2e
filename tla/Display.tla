-------------------------------- MODULE Display --------------------------------
(***************************************************************************)
(* The article view of a group's tab.  Every selection in the table starts  *)
(* a connection of its own that fetches the article; what arrives is put on *)
(* the main queue, scanned there for an encoded picture, which uudecode and *)
(* open are run for while the main thread waits, and then shown.  Meanwhile *)
(* the threads that receive headers hand the main queue a block each for    *)
(* the reload of the table, and wait until it has run.                      *)
(*                                                                          *)
(* Of an article the lines count that MeganTableView looks for, and whether *)
(* uudecode finds a complete encoding: it ends after that, and otherwise at *)
(* the end of its input, which is never closed.                             *)
(***************************************************************************)
EXTENDS Naturals, Sequences

CONSTANTS
    Articles,       \* the articles in the table
    Begin,          \* those with a line that starts with "begin " ...
    Picture,        \* ... and names a picture in it
    Named,          \* ... as its third word or behind it
    End,            \* those with a line that starts with "end"
    Complete,       \* those with a whole encoding, its begin before its end
    Readers,        \* the threads that receive headers
    MaxSelections,  \* bound: selections that start a connection
    None

ASSUME DisplayAssumption ==
    /\ Complete \subseteq Begin \intersect End
    /\ Named \subseteq Picture /\ Picture \subseteq Begin /\ Begin \subseteq Articles
    /\ End \subseteq Articles
    /\ MaxSelections \in Nat
    /\ None \notin Articles

VARIABLES
    selected,   \* the articles selected so far, one connection each
    state,      \* connection -> how far it has come
    queue,      \* the main queue
    main,       \* what the main thread is doing
    shown,      \* the connection whose article is in the view, or 0
    reader,     \* header thread -> what it is doing
    rivals      \* history: connection -> those under way when it was selected

vars == << selected, state, queue, main, shown, reader, rivals >>

Connections == 1 .. MaxSelections

ShowBlock(k) == << "show", k >>
ReloadBlock(t) == << "reload", t >>

Free == [doing |-> "free", of |-> 0]

Init ==
    /\ selected = << >>
    /\ state = [k \in Connections |-> "none"]
    /\ queue = << >>
    /\ main = Free
    /\ shown = 0
    /\ reader = [t \in Readers |-> "running"]
    /\ rivals = [k \in Connections |-> {}]

UnderWay(k) == state[k] \in {"loading", "queued"}
-------------------------------------------------------------------------------
\* outlineViewSelectionDidChange.
Select(a) ==
    LET k == Len(selected) + 1 IN
    /\ main = Free
    /\ k <= MaxSelections
    /\ selected' = Append(selected, a)
    /\ state' = [state EXCEPT ![k] = "loading"]
    /\ rivals' = [rivals EXCEPT ![k] = {j \in Connections : UnderWay(j)}]
    /\ UNCHANGED << queue, main, shown, reader >>

\* onNewArticle, on the connection's thread.
OnNewArticle(k) ==
    /\ state[k] = "loading"
    /\ state' = [state EXCEPT ![k] = "queued"]
    /\ queue' = Append(queue, ShowBlock(k))
    /\ UNCHANGED << selected, main, shown, reader, rivals >>

\* The server refuses, or never answers.
Fail(k) ==
    /\ state[k] = "loading"
    /\ state' = [state EXCEPT ![k] = "failed"]
    /\ UNCHANGED << selected, queue, main, shown, reader, rivals >>

\* onArticleAdd, behind addArticle: DispatchQueue.main.sync.
SyncReload(t) ==
    /\ reader[t] = "running"
    /\ reader' = [reader EXCEPT ![t] = "waiting"]
    /\ queue' = Append(queue, ReloadBlock(t))
    /\ UNCHANGED << selected, state, main, shown, rivals >>
-------------------------------------------------------------------------------
\* beginFound && endFound, and isImage.
Decoded(a) == a \in Picture /\ a \in End

\* parts[2]: the begin line of a picture has no third word.
Traps(a) == a \in Picture /\ a \notin Named

Show(k) ==
    /\ shown' = k
    /\ state' = [state EXCEPT ![k] = "shown"]

\* The main thread takes the next block of its queue.
RunReload ==
    /\ main = Free /\ queue # << >> /\ queue[1][1] = "reload"
    /\ reader' = [reader EXCEPT ![queue[1][2]] = "running"]
    /\ queue' = Tail(queue)
    /\ UNCHANGED << selected, state, main, shown, rivals >>

RunShow ==
    /\ main = Free /\ queue # << >> /\ queue[1][1] = "show"
    /\ queue' = Tail(queue)
    /\ LET k == queue[1][2]
           a == selected[k]
       IN \/ /\ Traps(a)
             /\ main' = [doing |-> "crashed", of |-> k]
             /\ UNCHANGED << shown, state >>
          \/ /\ ~Traps(a) /\ Decoded(a)
             /\ main' = [doing |-> "uudecode", of |-> k]
             /\ UNCHANGED << shown, state >>
          \/ /\ ~Traps(a) /\ ~Decoded(a)
             /\ Show(k)
             /\ UNCHANGED main
    /\ UNCHANGED << selected, reader, rivals >>

\* Variant: uudecode reads on to the end of its input.
UudecodeEndsNever(a) == FALSE

\* uudecode comes to its end by itself.
UudecodeEnds(a) == a \in Complete

\* Variant: what uudecode fails on is not shown.
UudecodedOrNot ==
    /\ main.doing = "uudecode"
    /\ UudecodeEnds(selected[main.of])
    /\ \/ /\ main' = [main EXCEPT !.doing = "open"]
          /\ UNCHANGED << shown, state >>
       \/ /\ main' = Free
          /\ state' = [state EXCEPT ![main.of] = "shown"]
          /\ UNCHANGED shown
    /\ UNCHANGED << selected, queue, reader, rivals >>

\* waitUntilExit returns: the picture is opened if it has been written, or was
\* there from before.
Uudecoded ==
    /\ main.doing = "uudecode"
    /\ UudecodeEnds(selected[main.of])
    /\ \/ /\ main' = [main EXCEPT !.doing = "open"]
          /\ UNCHANGED << shown, state >>
       \/ /\ main' = Free
          /\ Show(main.of)
    /\ UNCHANGED << selected, queue, reader, rivals >>

Opened ==
    /\ main.doing = "open"
    /\ main' = Free
    /\ Show(main.of)
    /\ UNCHANGED << selected, queue, reader, rivals >>
-------------------------------------------------------------------------------
Main == RunReload \/ RunShow \/ Uudecoded \/ Opened

Next ==
    \/ Main
    \/ \E a \in Articles : Select(a)
    \/ \E k \in Connections : OnNewArticle(k) \/ Fail(k)
    \/ \E t \in Readers : SyncReload(t)

Spec == Init /\ [][Next]_vars

\* The main thread runs its blocks, child processes that can end do, and a
\* connection comes to an end.
Fairness ==
    /\ WF_vars(Main)
    /\ \A k \in Connections : WF_vars(OnNewArticle(k) \/ Fail(k))
-------------------------------------------------------------------------------
(***************************************************************************)
(* Properties.                                                              *)
(***************************************************************************)
\* An article that has been shown gives way to one of an earlier selection only if
\* that one was still under way when it was selected: only what the user has left
\* behind unfinished can come over a later article, however long the downloads, the
\* queue and uudecode take.  Who waits for each article sees the last one that came
\* (outlineViewSelectionDidChange, onNewArticle).
GivesWayToRivals ==
    \A k \in Connections : state[k] = "shown" => shown >= k \/ shown \in rivals[k]

\* The main thread is with an article that has the lines of an encoding but not a
\* complete one, or has been ended by a begin line without a name.
Caught == main.doing = "crashed" \/ (main.doing = "uudecode" /\ selected[main.of] \notin Complete)

\* Every header thread that hands the main thread a reload and waits for it is let
\* go, unless the main thread is caught (onArticleAdd, main.sync).
ReadersReturn == \A t \in Readers : reader[t] = "waiting" ~> (reader[t] = "running" \/ Caught)

\* Every article that arrives is shown, unless the main thread is caught, with it
\* or with one before it (onNewArticle).
ArrivedIsShown == \A k \in Connections : state[k] = "queued" ~> (state[k] = "shown" \/ Caught)
================================================================================
