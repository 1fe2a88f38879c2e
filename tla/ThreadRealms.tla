------------------------------ MODULE ThreadRealms -----------------------------
(***************************************************************************)
(* Which Realm a command's thread works on.  Every connection has a thread  *)
(* of its own, which ends when the connection is closed.  ReaderBox.realm   *)
(* keeps a Realm for every thread in a dictionary, by the description of    *)
(* the thread, which is never that of another; behind it the Realm library  *)
(* keeps the Realms that are still referred to by pthread_t, which is that  *)
(* of a later thread again once the first one has ended.                    *)
(*                                                                          *)
(* A Realm is called by the thread that made it.  Its run-loop source stays *)
(* with the run loop of that thread (EventLoopSignal).  A group is the      *)
(* version that created it.  The dictionary is shared without a lock: what  *)
(* is written to it while another thread writes may be lost, or it ends the *)
(* process, which ends everything.                                         *)
(***************************************************************************)
EXTENDS Naturals

CONSTANTS
    Threads,        \* the threads that are ever started for a connection
    Pthreads,       \* the values of pthread_t
    MaxVersion,     \* bound: no commit makes a later version
    None

ASSUME ThreadRealmsAssumption ==
    /\ MaxVersion \in Nat \ {0}
    /\ None \notin Threads /\ None \notin Pthreads

VARIABLES
    latest,     \* the latest version of the library
    writer,     \* the thread in a write transaction
    stage,      \* thread -> where it is
    pthread,    \* thread -> its pthread_t while it runs
    group,      \* thread -> the version that created its command's group
    uses,       \* thread -> the Realm its handler holds, through an object
    begun,      \* thread -> the Realm it began to write on
    met,        \* history: thread -> the Realm its last handler worked on
    realms,     \* ReaderBox.realms: thread -> Realm
    cache,      \* the Realm library's cache: pthread_t -> Realm
    at,         \* Realm -> the version it reads, 0 before it is first used
    home        \* Realm -> the pthread_t it was made on

vars == << latest, writer, stage, pthread, group, uses, begun, met, realms, cache, at, home >>

Init ==
    /\ latest = 1
    /\ writer = None
    /\ stage = [t \in Threads |-> "unborn"]
    /\ pthread = [t \in Threads |-> None]
    /\ group = [t \in Threads |-> 0]
    /\ uses = [t \in Threads |-> None]
    /\ begun = [t \in Threads |-> None]
    /\ met = [t \in Threads |-> None]
    /\ realms = [t \in Threads |-> None]
    /\ cache = [p \in Pthreads |-> None]
    /\ at = [t \in Threads |-> 0]
    /\ home = [t \in Threads |-> None]

Running(t) == stage[t] \notin {"unborn", "ended"}

Held(r) == \E t \in Threads : realms[t] = r \/ uses[t] = r \/ begun[t] = r
-------------------------------------------------------------------------------
\* Variant: RLMGetAnyCachedRealmForPath.
CachedAny(p) ==
    IF \E r \in Threads : Held(r) THEN CHOOSE r \in Threads : Held(r) ELSE None

\* RLMGetThreadLocalCachedRealmForPath: the values of the cache are weak.
Cached(p) == IF cache[p] # None /\ Held(cache[p]) THEN cache[p] ELSE None

\* Variant: the Realm is only looked for in the dictionary.
FoundInBox(t) == realms[t]

\* The Realm that ReaderBox.realm finds, or None.
Found(t) == IF realms[t] # None THEN realms[t] ELSE Cached(pthread[t])

\* ReaderBox.realms[threadName] = realm; lost, perhaps, beside another write.
Store(t, r) ==
    \/ realms' = [realms EXCEPT ![t] = r]
    \/ /\ \E u \in Threads \ {t} : stage[u] = "storing"
       /\ UNCHANGED realms

\* ReaderBox.realm: one is made by Realm() when there is none to be found.
Obtain(t, r) ==
    IF Found(t) # None THEN r = Found(t) /\ UNCHANGED << cache, home >>
    ELSE /\ r = t
         /\ cache' = [cache EXCEPT ![pthread[t]] = t]
         /\ home' = [home EXCEPT ![t] = pthread[t]]
-------------------------------------------------------------------------------
\* Something is committed on the main thread, a group perhaps.
MainCommit ==
    /\ writer = None /\ latest < MaxVersion
    /\ latest' = latest + 1
    /\ UNCHANGED << writer, stage, pthread, group, uses, begun, met, realms, cache, at, home >>

\* Variant: the connection is opened before its group is committed.
StartEarly(t) ==
    /\ stage[t] = "unborn"
    /\ \E p \in Pthreads :
        /\ \A u \in Threads : Running(u) => pthread[u] # p
        /\ pthread' = [pthread EXCEPT ![t] = p]
    /\ \E g \in 1 .. latest + 1 : group' = [group EXCEPT ![t] = g]
    /\ stage' = [stage EXCEPT ![t] = "open"]
    /\ UNCHANGED << latest, writer, uses, begun, met, realms, cache, at, home >>

\* NewsReader.open, for a group that exists by now, on a thread whose pthread_t no
\* running thread has.
Start(t) ==
    /\ stage[t] = "unborn"
    /\ \E p \in Pthreads :
        /\ \A u \in Threads : Running(u) => pthread[u] # p
        /\ pthread' = [pthread EXCEPT ![t] = p]
    /\ \E g \in 1 .. latest : group' = [group EXCEPT ![t] = g]
    /\ stage' = [stage EXCEPT ![t] = "open"]
    /\ UNCHANGED << latest, writer, uses, begun, met, realms, cache, at, home >>

\* A notification of the connection, handled on its thread, begins with
\* rbox.findGroup: the Realm is looked up.
Handle(t) ==
    /\ stage[t] = "open"
    /\ \E r \in Threads :
        /\ Obtain(t, r)
        /\ uses' = [uses EXCEPT ![t] = r]
        /\ met' = [met EXCEPT ![t] = r]
    /\ at' = IF Found(t) = None THEN [at EXCEPT ![t] = 0] ELSE at
    /\ stage' = [stage EXCEPT ![t] = IF realms[t] = None THEN "storing" ELSE "using"]
    /\ UNCHANGED << latest, writer, pthread, group, begun, realms >>

\* The Realm is stored in the dictionary, if it was not in there.
StoreRealm(t) ==
    /\ stage[t] = "storing"
    /\ Store(t, uses[t])
    /\ stage' = [stage EXCEPT ![t] = "using"]
    /\ UNCHANGED << latest, writer, pthread, group, uses, begun, met, cache, at, home >>

\* findGroup(byId:), which starts to read if the Realm does not yet.
ReadVersion(r) == IF at[r] = 0 THEN latest ELSE at[r]

FindGroup(t) ==
    LET r == uses[t] IN
    /\ stage[t] = "using"
    /\ at' = [at EXCEPT ![r] = ReadVersion(r)]
    /\ group[t] <= ReadVersion(r)
    /\ stage' = [stage EXCEPT ![t] = "found"]
    /\ UNCHANGED << latest, writer, pthread, group, uses, begun, met, realms, cache, home >>

\* Without the group the handler returns, nothing is requested, and the connection
\* waits for ever.
MissGroup(t) ==
    LET r == uses[t] IN
    /\ stage[t] = "using"
    /\ at' = [at EXCEPT ![r] = ReadVersion(r)]
    /\ group[t] > ReadVersion(r)
    /\ stage' = [stage EXCEPT ![t] = "stuck"]
    /\ uses' = [uses EXCEPT ![t] = None]
    /\ UNCHANGED << latest, writer, pthread, group, begun, met, realms, cache, home >>

\* rbox.realm?.beginWrite(), with the group at hand.
BeginWrite(t) ==
    /\ stage[t] = "found" /\ writer = None /\ latest < MaxVersion
    /\ writer' = t
    /\ \E r \in Threads :
        /\ Obtain(t, r)
        /\ begun' = [begun EXCEPT ![t] = r]
        /\ at' = [at EXCEPT ![r] = latest]
        /\ IF realms[t] = None THEN Store(t, r) ELSE UNCHANGED realms
    /\ stage' = [stage EXCEPT ![t] = "writing"]
    /\ UNCHANGED << latest, pthread, group, uses, met >>

\* rbox.realm?.commitWrite(), which looks the Realm up anew and stores it if it was
\* not in the dictionary, and the handler's end.
CommitWrite(t) ==
    /\ stage[t] = "writing"
    /\ writer' = None
    /\ latest' = latest + 1
    /\ at' = [at EXCEPT ![Found(t)] = latest + 1]
    /\ begun' = [begun EXCEPT ![t] = None]
    /\ uses' = [uses EXCEPT ![t] = None]
    /\ IF realms[t] = None THEN Store(t, Found(t)) ELSE UNCHANGED realms
    /\ stage' = [stage EXCEPT ![t] = "open"]
    /\ UNCHANGED << pthread, group, met, cache, home >>

\* The handler sends its request and returns to the run loop.
Return(t) ==
    /\ stage[t] = "found"
    /\ uses' = [uses EXCEPT ![t] = None]
    /\ stage' = [stage EXCEPT ![t] = "open"]
    /\ UNCHANGED << latest, writer, pthread, group, begun, met, realms, cache, at, home >>

\* NewsReader.close: the run loop is stopped and the thread ends; its Realm stays
\* in ReaderBox.realms.
Close(t) ==
    /\ stage[t] = "open" /\ met[t] # None
    /\ stage' = [stage EXCEPT ![t] = "ended"]
    /\ UNCHANGED << latest, writer, pthread, group, uses, begun, met, realms, cache, at, home >>

\* Variant: autorefresh is off.
AutorefreshOff(r) == FALSE /\ UNCHANGED vars

\* Realm::notify, on the run loop of the thread that made the Realm, if it runs.
Autorefresh(r) ==
    /\ stage[r] \in {"open", "stuck"}
    /\ Held(r) /\ home[r] = pthread[r]
    /\ at[r] # 0 /\ at[r] < latest
    /\ at' = [at EXCEPT ![r] = latest]
    /\ UNCHANGED << latest, writer, stage, pthread, group, uses, begun, met, realms, cache, home >>
-------------------------------------------------------------------------------
Step(t) ==
    \/ Handle(t) \/ StoreRealm(t) \/ FindGroup(t) \/ MissGroup(t)
    \/ BeginWrite(t) \/ CommitWrite(t) \/ Return(t) \/ Close(t)

Next == MainCommit \/ \E t \in Threads : Start(t) \/ Step(t) \/ Autorefresh(t)

Spec == Init /\ [][Next]_vars

\* The run loops of running threads serve their sources, and what a thread has
\* begun it ends.
FairSpec ==
    /\ Spec
    /\ \A t \in Threads :
        /\ WF_vars(Autorefresh(t))
        /\ WF_vars(StoreRealm(t) \/ FindGroup(t) \/ MissGroup(t) \/ CommitWrite(t) \/ Return(t))
-------------------------------------------------------------------------------
(***************************************************************************)
(* Properties.                                                              *)
(***************************************************************************)
Realms == Threads \union {None}

\* Every variable keeps its type: no thread knows of a version before it is
\* committed, and a Realm is one that a thread has made.
TypeOK ==
    /\ latest \in 1 .. MaxVersion
    /\ writer \in Realms
    /\ stage \in [Threads -> {"unborn", "open", "storing", "using", "found", "writing",
                              "stuck", "ended"}]
    /\ pthread \in [Threads -> Pthreads \union {None}]
    /\ group \in [Threads -> 0 .. latest]
    /\ uses \in [Threads -> Realms] /\ begun \in [Threads -> Realms]
    /\ met \in [Threads -> Realms] /\ realms \in [Threads -> Realms]
    /\ cache \in [Pthreads -> Realms]
    /\ at \in [Threads -> 0 .. latest]
    /\ home \in [Threads -> Pthreads \union {None}]

\* A Realm is only used on the pthread_t it was made on (Realm::verify_thread), and
\* never by two running threads, although two can have it in the dictionary.
ConfinedToThread ==
    \A t \in Threads : uses[t] # None =>
        /\ home[uses[t]] = pthread[t]
        /\ \A u \in Threads \ {t} : uses[u] # uses[t]

\* The write transaction that a command commits is the one it began, even if the
\* dictionary lost its Realm in between, or had another one from the start.
CommitsWhatItBegan ==
    \A t \in Threads : stage[t] = "writing" => Found(t) = begun[t] /\ begun[t] = uses[t]

\* A command misses its group, and its connection then waits for ever, only on a
\* Realm it has taken over from a thread that had its pthread_t before.
MissedOnInherited ==
    \A t \in Threads : stage[t] = "stuck" => met[t] # t /\ stage[met[t]] = "ended"

\* "changes made on other threads will be reflected in this Realm on the next cycle
\* of the run loop" (RLMRealm.h): for a thread in its run loop, whichever Realm
\* ReaderBox gives it.
Reflected ==
    \A t \in Threads, v \in 1 .. MaxVersion :
        (latest = v /\ stage[t] = "open" /\ realms[t] # None)
            ~> (stage[t] # "open" \/ (realms[t] # None /\ at[realms[t]] >= v))

\* The same for a Realm that the thread has made itself.
ReflectedInOwn ==
    \A t \in Threads, v \in 1 .. MaxVersion :
        (latest = v /\ stage[t] = "open" /\ realms[t] = t)
            ~> (stage[t] # "open" \/ at[t] >= v)
================================================================================
