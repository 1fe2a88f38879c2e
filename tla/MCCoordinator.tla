---------------------------- MODULE MCCoordinator -----------------------------
(***************************************************************************)
(* Small instances of Coordinator: the Realm of the main thread with its    *)
(* live Results, and the Realm of a reader's thread that writes.            *)
(***************************************************************************)
EXTENDS Coordinator

CONSTANTS main, reader, n1, n2

MCOwner == [n \in Notifiers |-> main]

\* One live Results in each Realm.
MCOwnerEach == [n \in Notifiers |-> IF n = n1 THEN main ELSE reader]
================================================================================
