----------------------------- MODULE Transactions ------------------------------
(***************************************************************************)
(* What Realm's ObjectStore promises the threads that use one database:     *)
(* versions are committed one at a time, each of them on top of the latest; *)
(* a thread reads one version until it is moved to a later one, and never   *)
(* goes back.                                                               *)
(***************************************************************************)
EXTENDS Naturals

CONSTANTS Realms, NoRealm

VARIABLES
    latest,     \* the number of the latest committed version
    writer,     \* the Realm in a write transaction, or NoRealm
    at          \* Realm -> the version it reads, or 0

tvars == << latest, writer, at >>

TInit == latest = 1 /\ writer = NoRealm /\ at = [r \in Realms |-> 0]

\* A Realm starts to read, or is moved forward, but not while it writes.
Forward(r) ==
    /\ writer # r
    /\ \E v \in 1 .. latest : v > at[r] /\ at' = [at EXCEPT ![r] = v]
    /\ UNCHANGED << latest, writer >>

Begin(r) ==
    /\ writer = NoRealm
    /\ writer' = r
    /\ at' = [at EXCEPT ![r] = latest]
    /\ UNCHANGED latest

Commit(r) ==
    /\ writer = r
    /\ writer' = NoRealm
    /\ latest' = latest + 1
    /\ at' = [at EXCEPT ![r] = latest + 1]

Cancel(r) ==
    /\ writer = r
    /\ writer' = NoRealm
    /\ UNCHANGED << latest, at >>

TNext == \E r \in Realms : Forward(r) \/ Begin(r) \/ Commit(r) \/ Cancel(r)

TSpec == TInit /\ [][TNext]_tvars
================================================================================
