------------------------------ MODULE Coordinator ------------------------------
(***************************************************************************)
(* The Realms of one database file and their RealmCoordinator (the Realm    *)
(* ObjectStore that the application links): write transactions, refreshes,  *)
(* the notification worker that keeps the queries of live Results up to     *)
(* date in the background, and the hand-over of what it found to the thread *)
(* of the Results.                                                          *)
(*                                                                          *)
(* A version is its number.  Of the data only one table is kept, the one    *)
(* that all Results query, as the set of the versions that changed it; the  *)
(* result of a query is the last such version it saw.  What is done under   *)
(* m_notifier_mutex is one action, and so is what a Realm's thread does     *)
(* between two uses of that mutex: it touches nothing that others read,     *)
(* apart from the flag read by ResultsNotifier::need_to_run, and for that   *)
(* packaging and delivering are actions of their own.  Realm core (the      *)
(* versions and their read locks, the write lock) is modelled from its use. *)
(***************************************************************************)
EXTENDS Naturals, FiniteSets

CONSTANTS
    Realms,         \* Realm instances, each with a thread of its own
    Notifiers,      \* the notifiers of the Results that are ever evaluated
    Owner,          \* notifier -> the Realm of its Results
    Callbacks,      \* the notifiers with a notification block
    Writers,        \* the Realms that write
    Refreshers,     \* the Realms that are refreshed explicitly
    Looping,        \* the Realms whose threads run a run loop
    MaxVersion,     \* bound: no commit makes a later version
    NoRealm

ASSUME CoordinatorAssumption ==
    /\ Owner \in [Notifiers -> Realms]
    /\ Callbacks \subseteq Notifiers
    /\ Writers \subseteq Realms /\ Refreshers \subseteq Realms /\ Looping \subseteq Realms
    /\ MaxVersion \in Nat \ {0}
    /\ NoRealm \notin Realms

VARIABLES
    latest,     \* the latest version
    touched,    \* the versions that changed the table
    writer,     \* the Realm that holds the write lock
    at,         \* Realm -> the version it reads, or 0
    op,         \* Realm -> what its thread is doing
    signal,     \* Realm -> its run loop has been signalled
    notifier,   \* notifier -> its state
    skip,       \* m_notifier_skip_version, or 0
    advancer,   \* the version m_advancer_sg reads, or 0
    helper,     \* the version m_notifier_sg reads, or 0
    pipe,       \* the notification pipe has been written to
    worker      \* the notification listener

vars == << latest, touched, writer, at, op, signal, notifier, skip, advancer,
           helper, pipe, worker >>

\* The result of the query at version v.
Content(v) == CHOOSE t \in touched : t <= v /\ \A u \in touched : u <= v => u <= t

NoView == [version |-> 0, content |-> 0]

NewNotifier ==
    [list |-> "none", alive |-> TRUE, version |-> 0, hasRun |-> FALSE,
     lastSeen |-> 0, tv |-> 0, changes |-> {}, accumulated |-> {},
     handover |-> NoView, toDeliver |-> NoView, toTell |-> {},
     view |-> NoView, used |-> FALSE, wants |-> TRUE, lapsed |-> FALSE,
     initial |-> FALSE, since |-> 0, told |-> {}]

Doing(stage, to, ns) == [stage |-> stage, to |-> to, ns |-> ns]
Idle == Doing("idle", 0, {})

Listening == [stage |-> "listen", skip |-> 0, to |-> 0, old |-> {}, new |-> {}]

Init ==
    /\ latest = 1
    /\ touched = {1}
    /\ writer = NoRealm
    /\ at = [r \in Realms |-> 0]
    /\ op = [r \in Realms |-> Idle]
    /\ signal = [r \in Realms |-> FALSE]
    /\ notifier = [n \in Notifiers |-> NewNotifier]
    /\ skip = 0
    /\ advancer = 0
    /\ helper = 0
    /\ pipe = FALSE
    /\ worker = Listening

Main == {n \in Notifiers : notifier[n].list = "main"}
New == {n \in Notifiers : notifier[n].list = "new"}

\* notifiers_for_realm
NotifiersFor(r) == {n \in Main \union New : Owner[n] = r /\ notifier[n].alive}

WorkerUnchanged == UNCHANGED << skip, advancer, helper, worker >>
-------------------------------------------------------------------------------
(***************************************************************************)
(* Packaging what the worker has found.                                     *)
(***************************************************************************)
\* The predicate of NotifierPackage::package_and_wait: only the notifiers with
\* callbacks are waited for.
Ready(ns, target) ==
    \A n \in ns \intersect Callbacks : notifier[n].hasRun /\ notifier[n].version >= target

Packed(n) == notifier[n].hasRun /\ notifier[n].alive

\* Variant: the changes are copied and not moved.
PackageCopy(n) ==
    [notifier[n] EXCEPT !.toDeliver = notifier[n].handover, !.handover = NoView,
                        !.toTell = notifier[n].accumulated]

\* package_for_delivery
PackageOf(n) ==
    [notifier[n] EXCEPT !.toDeliver = notifier[n].handover, !.handover = NoView,
                        !.toTell = notifier[n].accumulated, !.accumulated = {}]

Package(ns) ==
    notifier' = [n \in Notifiers |-> IF n \in ns THEN PackageOf(n) ELSE notifier[n]]

\* package_and_wait, once it need not wait: the version of what is packaged, 0
\* when nothing is, or when nothing is as recent as the target.
PackageVersion(ns, target) ==
    LET vs == {notifier[n].version : n \in {n \in ns : Packed(n)}}
        v == CHOOSE v \in vs : TRUE
    IN IF vs = {} \/ v < target THEN 0 ELSE v

\* after_advance, for what has been packaged, with the Realm at version v.  The first
\* call of a block has no changes, RLMAddNotificationBlock leaves them out; a later
\* one tells those that were packaged.
ToldOf(rec, v) ==
    IF rec.initial THEN [rec EXCEPT !.told = @ \union rec.toTell, !.toTell = {}]
    ELSE [rec EXCEPT !.initial = TRUE, !.since = v, !.toTell = {}]

AfterAdvance(n, rec, v) == IF n \in Callbacks THEN ToldOf(rec, v) ELSE rec

\* ResultsNotifier::deliver and Results::Internal::set_table_view, with the Realm
\* at version v.  History: lapsed, when the result before had not been used.
DeliverTo(rec, v) ==
    IF rec.alive /\ rec.toDeliver # NoView
    THEN [rec EXCEPT !.view = [version |-> v, content |-> rec.toDeliver.content],
                     !.wants = rec.used, !.used = FALSE, !.toDeliver = NoView,
                     !.lapsed = @ \/ ~rec.used]
    ELSE rec
-------------------------------------------------------------------------------
(***************************************************************************)
(* The thread of a Realm.                                                   *)
(***************************************************************************)
Idles(r) == op[r].stage = "idle"

\* Realm::read_group, without a read transaction.
ReadGroup(r) ==
    /\ Idles(r) /\ at[r] = 0
    /\ at' = [at EXCEPT ![r] = latest]
    /\ UNCHANGED << latest, touched, writer, op, signal, notifier, pipe >>
    /\ WorkerUnchanged

\* Realm::begin_transaction: after read_group, promote_to_write takes the write
\* lock, and only then waits for the worker.
BeginTransaction(r) ==
    /\ r \in Writers
    /\ Idles(r) /\ at[r] # 0
    /\ writer = NoRealm
    /\ writer' = r
    /\ op' = [op EXCEPT ![r] = Doing("promote", latest, NotifiersFor(r))]
    /\ pipe' = (pipe \/ ~Ready(NotifiersFor(r), latest))
    /\ UNCHANGED << latest, touched, at, signal, notifier >>
    /\ WorkerUnchanged

\* Variant: the transaction starts from the version the Realm reads.
PromotedInPlace(r) ==
    /\ op[r].stage = "promote"
    /\ Ready(op[r].ns, op[r].to)
    /\ op' = [op EXCEPT ![r] = Doing("write", 0, {})]
    /\ UNCHANGED << latest, touched, writer, at, signal, notifier, pipe >>
    /\ WorkerUnchanged

\* The rest of begin_transaction.  The package is not delivered, as the stage is Writing, but
\* the blocks are called.
Promoted(r) ==
    /\ op[r].stage = "promote"
    /\ Ready(op[r].ns, op[r].to)
    /\ LET ns == {n \in op[r].ns : Packed(n)}
           told == IF PackageVersion(ns, op[r].to) = 0 THEN {} ELSE ns
       IN notifier' = [n \in Notifiers |->
              IF n \in told THEN AfterAdvance(n, PackageOf(n), latest)
              ELSE IF n \in ns THEN PackageOf(n) ELSE notifier[n]]
    /\ at' = [at EXCEPT ![r] = latest]
    /\ op' = [op EXCEPT ![r] = Doing("write", 0, {})]
    /\ UNCHANGED << latest, touched, writer, signal, pipe >>
    /\ WorkerUnchanged

SkipAtCommit(r) == IF \E n \in Main : Owner[n] = r /\ notifier[n].alive THEN latest + 1 ELSE skip

\* RealmCoordinator::commit_write, under m_notifier_mutex.
CommitWrite(r) ==
    /\ op[r].stage = "write"
    /\ latest < MaxVersion
    /\ latest' = latest + 1
    /\ \/ touched' = touched
       \/ touched' = touched \union {latest + 1}
    /\ at' = [at EXCEPT ![r] = latest + 1]
    /\ writer' = NoRealm
    /\ skip' = SkipAtCommit(r)
    /\ op' = [op EXCEPT ![r] = Doing("committed", 0, {})]
    /\ UNCHANGED << signal, notifier, advancer, helper, pipe, worker >>

\* The rest of commit_write.
NotifyOthers(r) ==
    /\ op[r].stage = "committed"
    /\ pipe' = TRUE
    /\ op' = [op EXCEPT ![r] = Idle]
    /\ UNCHANGED << latest, touched, writer, at, signal, notifier >>
    /\ WorkerUnchanged

CancelTransaction(r) ==
    /\ op[r].stage = "write"
    /\ writer' = NoRealm
    /\ op' = [op EXCEPT ![r] = Idle]
    /\ UNCHANGED << latest, touched, at, signal, notifier, pipe >>
    /\ WorkerUnchanged

\* Realm::refresh, as far as NotifierPackage::package_and_wait.
Refresh(r) ==
    /\ r \in Refreshers
    /\ Idles(r) /\ at[r] # 0
    /\ op' = [op EXCEPT ![r] = Doing("refresh", latest, NotifiersFor(r))]
    /\ pipe' = (pipe \/ ~Ready(NotifiersFor(r), latest))
    /\ UNCHANGED << latest, touched, writer, at, signal, notifier >>
    /\ WorkerUnchanged

\* The package of advance_to_latest.
Refreshed(r) ==
    /\ op[r].stage = "refresh"
    /\ Ready(op[r].ns, op[r].to)
    /\ LET ns == {n \in op[r].ns : Packed(n)}
           v == PackageVersion(ns, op[r].to)
       IN /\ Package(ns)
          /\ op' = [op EXCEPT ![r] = Doing("deliver", v, IF v = 0 THEN {} ELSE ns)]
    /\ UNCHANGED << latest, touched, writer, at, signal, pipe >>
    /\ WorkerUnchanged

\* Realm::notify in a write transaction: the signal is used up.
NotifyInWrite(r) ==
    /\ signal[r]
    /\ op[r].stage = "write" \/ (Idles(r) /\ at[r] = 0)
    /\ signal' = [signal EXCEPT ![r] = FALSE]
    /\ UNCHANGED << latest, touched, writer, at, op, notifier, pipe >>
    /\ WorkerUnchanged

\* Realm::notify when nothing newer has been committed: process_available_async
\* packages what the worker found for this very version.
NotifyUnchanged(r) ==
    /\ signal[r]
    /\ Idles(r) /\ at[r] = latest
    /\ signal' = [signal EXCEPT ![r] = FALSE]
    /\ LET ns == {n \in NotifiersFor(r) : Packed(n) /\ notifier[n].version = at[r]}
       IN /\ Package(ns)
          /\ op' = [op EXCEPT ![r] = IF ns = {} THEN Idle ELSE Doing("deliver", at[r], ns)]
    /\ UNCHANGED << latest, touched, writer, at, pipe >>
    /\ WorkerUnchanged

\* Variant: what is older than the Realm is delivered too.
DiscardedNever(r, v) == FALSE
Discarded(r, v) == v # 0 /\ v < at[r]

\* Realm::notify with autorefresh: the package of advance_to_ready, which takes
\* what the worker has found so far.
NotifyChanged(r) ==
    /\ signal[r]
    /\ Idles(r) /\ at[r] # 0 /\ at[r] < latest
    /\ signal' = [signal EXCEPT ![r] = FALSE]
    /\ LET ns == {n \in NotifiersFor(r) : Packed(n)}
           v == PackageVersion(ns, 0)
       IN /\ Package(ns)
          /\ op' = [op EXCEPT ![r] = IF Discarded(r, v) THEN Idle ELSE Doing("deliver", v, ns)]
    /\ UNCHANGED << latest, touched, writer, at, pipe >>
    /\ WorkerUnchanged

\* Variant: the Realm is always advanced to the latest version.
DeliverAtLatest(r) ==
    /\ op[r].stage = "deliver"
    /\ at' = [at EXCEPT ![r] = latest]
    /\ notifier' = [n \in Notifiers |->
           IF n \in op[r].ns THEN AfterAdvance(n, DeliverTo(notifier[n], latest), latest)
           ELSE notifier[n]]
    /\ op' = [op EXCEPT ![r] = Idle]
    /\ UNCHANGED << latest, touched, writer, signal, pipe >>
    /\ WorkerUnchanged

\* The rest of a refresh or of a notification: transaction::advance to the version
\* of the package, or to the latest one without a package, then deliver and
\* after_advance.
Deliver(r) ==
    /\ op[r].stage = "deliver"
    /\ LET v == IF op[r].to = 0 THEN latest ELSE op[r].to
       IN /\ at' = [at EXCEPT ![r] = v]
          /\ notifier' = [n \in Notifiers |->
                 IF n \in op[r].ns THEN AfterAdvance(n, DeliverTo(notifier[n], v), v)
                 ELSE notifier[n]]
    /\ op' = [op EXCEPT ![r] = Idle]
    /\ UNCHANGED << latest, touched, writer, signal, pipe >>
    /\ WorkerUnchanged
-------------------------------------------------------------------------------
(***************************************************************************)
(* The Results of a Realm, used by its thread.                              *)
(***************************************************************************)
\* Variant: an older version than the one that is held is not pinned.
PinFirst(v) == IF New = {} THEN v ELSE advancer

\* pin_version, for a notifier that comes from version v.
Pin(v) == IF New = {} \/ v < advancer THEN v ELSE advancer

\* Results::evaluate_query_if_needed for the first time, outside of a write
\* transaction: the notifier is made and registered.
Watch(n) ==
    LET r == Owner[n] IN
    /\ Idles(r) /\ at[r] # 0
    /\ notifier[n].list = "none"
    /\ notifier' = [notifier EXCEPT
           ![n].list = "new", ![n].version = at[r], ![n].used = TRUE,
           ![n].view = [version |-> at[r], content |-> Content(at[r])]]
    /\ advancer' = Pin(at[r])
    /\ pipe' = (pipe \/ n \in Callbacks)
    /\ UNCHANGED << latest, touched, writer, at, op, signal, skip, helper, worker >>

InSync(n) == Content(notifier[n].view.version) = Content(at[Owner[n]])

\* What n then shows.
Shown(n) == IF InSync(n) THEN notifier[n].view.content ELSE Content(at[Owner[n]])

\* The same, later: the view is brought up to date if the table has changed since
\* it was last in sync.
Use(n) ==
    LET r == Owner[n] IN
    /\ Idles(r)
    /\ notifier[n].list # "none" /\ notifier[n].alive
    /\ notifier' = [notifier EXCEPT
           ![n].used = TRUE,
           ![n].view = IF InSync(n) THEN @ ELSE [version |-> at[r], content |-> Shown(n)]]
    /\ UNCHANGED << latest, touched, writer, at, op, signal, pipe >>
    /\ WorkerUnchanged

\* ~Results, CollectionNotifier::unregister: on the Realm's thread, or on another
\* one between packaging and delivery.
Drop(n) ==
    /\ notifier[n].list # "none" /\ notifier[n].alive
    /\ op[Owner[n]].stage \notin {"promote", "refresh"}
    /\ notifier' = [notifier EXCEPT ![n].alive = FALSE]
    /\ UNCHANGED << latest, touched, writer, at, op, signal, pipe >>
    /\ WorkerUnchanged
-------------------------------------------------------------------------------
(***************************************************************************)
(* The notification listener.                                               *)
(***************************************************************************)
RealmUnchanged == UNCHANGED << latest, touched, writer, at, op >>

Dead(ns) == {n \in ns : ~notifier[n].alive}

\* clean_up_dead_notifiers.
CleanedUp == [n \in Notifiers |->
    IF n \in Dead(Main \union New) THEN [notifier[n] EXCEPT !.list = "gone"] ELSE notifier[n]]

MainDied == Dead(Main) # {} /\ Main \ Dead(Main) = {}
NewDied == Dead(New) # {} /\ New \ Dead(New) = {}

HelperAfterCleanUp == IF MainDied THEN 0 ELSE helper

\* Variant: the skip version of notifiers that have died is kept.
SkipAfterCleanUpKept == skip
SkipAfterCleanUp == IF MainDied THEN 0 ELSE skip

AdvancerAfterCleanUp == IF NewDied THEN 0 ELSE advancer

\* Variant: on_change ends where run_async_notifiers returns early.
NothingToSignal ==
    /\ worker.stage = "listen" /\ pipe
    /\ pipe' = FALSE
    /\ Main \union New \subseteq Dead(Notifiers)
    /\ notifier' = CleanedUp
    /\ helper' = HelperAfterCleanUp
    /\ skip' = SkipAfterCleanUp
    /\ advancer' = AdvancerAfterCleanUp
    /\ UNCHANGED << signal, worker >>
    /\ RealmUnchanged

\* on_change, first part of run_async_notifiers: without notifiers there is
\* nothing to run.
NothingToRun ==
    /\ worker.stage = "listen" /\ pipe
    /\ pipe' = FALSE
    /\ Main \union New \subseteq Dead(Notifiers)
    /\ notifier' = CleanedUp
    /\ helper' = HelperAfterCleanUp
    /\ skip' = SkipAfterCleanUp
    /\ advancer' = AdvancerAfterCleanUp
    /\ worker' = [Listening EXCEPT !.stage = "signal"]
    /\ UNCHANGED signal
    /\ RealmUnchanged

\* The other: under the lock, the version to run to is chosen, the skip version is
\* taken, and the new notifiers join the others, which the worker has copied.
SelectNotifiers ==
    /\ worker.stage = "listen" /\ pipe
    /\ pipe' = FALSE
    /\ LET old == Main \ Dead(Main)
           new == New \ Dead(New)
       IN /\ old \union new # {}
          /\ helper' = IF old = {} THEN latest ELSE helper
          /\ worker' = [stage |-> IF SkipAfterCleanUp # 0 THEN "skip" ELSE "run",
                        skip |-> SkipAfterCleanUp, to |-> latest, old |-> old, new |-> new]
          /\ notifier' = [n \in Notifiers |->
                 IF n \in new THEN [notifier[n] EXCEPT !.list = "main"] ELSE CleanedUp[n]]
    /\ skip' = 0
    /\ advancer' = 0
    /\ UNCHANGED signal
    /\ RealmUnchanged

\* ResultsNotifier::need_to_run at version v.
NeedToRun(n, v) ==
    /\ notifier[n].alive
    /\ n \in Callbacks \/ notifier[n].wants
    /\ ~(notifier[n].hasRun /\ notifier[n].lastSeen = Content(v))

\* run and calculate_changes: what has changed since the query was last run is
\* told to the blocks, except the first time.
Run(n, v) ==
    IF NeedToRun(n, v)
    THEN [notifier[n] EXCEPT
             !.tv = Content(v), !.lastSeen = Content(v),
             !.changes = IF notifier[n].hasRun /\ n \in Callbacks
                         THEN {t \in touched : notifier[n].lastSeen < t /\ t <= v} ELSE {}]
    ELSE notifier[n]

RunAll(ns, v) == notifier' = [n \in Notifiers |-> IF n \in ns THEN Run(n, v) ELSE notifier[n]]

\* Variant: a result that nobody has fetched is kept for the new version.
HandoverKept(n, v) ==
    IF notifier[n].handover # NoView THEN [notifier[n].handover EXCEPT !.version = v]
    ELSE IF notifier[n].tv # 0 THEN [version |-> v, content |-> notifier[n].tv]
    ELSE NoView

\* do_prepare_handover: with no new result the last one is said to be of this
\* version too.
HandoverOf(n, v) ==
    IF notifier[n].tv # 0 THEN [version |-> v, content |-> notifier[n].tv]
    ELSE IF notifier[n].handover # NoView THEN [notifier[n].handover EXCEPT !.version = v]
    ELSE NoView

\* Variant: a notifier without a new result is left as it was.
PrepareResult(n, v) ==
    IF notifier[n].hasRun /\ notifier[n].tv = 0 THEN notifier[n]
    ELSE [notifier[n] EXCEPT
        !.version = v, !.hasRun = TRUE, !.handover = HandoverOf(n, v), !.tv = 0,
        !.accumulated = @ \union notifier[n].changes, !.changes = {}]

\* prepare_handover with m_notifier_sg at version v.
PrepareHandover(n, v) ==
    [notifier[n] EXCEPT
        !.version = v, !.hasRun = TRUE, !.handover = HandoverOf(n, v), !.tv = 0,
        !.accumulated = @ \union notifier[n].changes, !.changes = {}]

Prepared(ns, v) ==
    [n \in Notifiers |-> IF n \in ns THEN PrepareHandover(n, v) ELSE notifier[n]]

\* The notifiers that a write was skipped for are run at that version first.
RunToSkip ==
    /\ worker.stage = "skip"
    /\ helper' = worker.skip
    /\ RunAll(worker.old, worker.skip)
    /\ worker' = [worker EXCEPT !.stage = "skipped"]
    /\ UNCHANGED << signal, skip, advancer, pipe >>
    /\ RealmUnchanged

HandOverSkipped ==
    /\ worker.stage = "skipped"
    /\ notifier' = Prepared(worker.old, helper)
    /\ worker' = [worker EXCEPT !.stage = "run"]
    /\ UNCHANGED << signal, skip, advancer, helper, pipe >>
    /\ RealmUnchanged

RunNotifiers ==
    /\ worker.stage = "run"
    /\ helper' = worker.to
    /\ RunAll(worker.old \union worker.new, worker.to)
    /\ worker' = [worker EXCEPT !.stage = "handover"]
    /\ UNCHANGED << signal, skip, advancer, pipe >>
    /\ RealmUnchanged

\* Variant: only the new notifiers are prepared when there are any.
HandOverNew ==
    /\ worker.stage = "handover"
    /\ LET ready == Prepared(IF worker.new # {} THEN worker.new ELSE worker.old, helper)
       IN notifier' = [n \in Notifiers |-> [ready[n] EXCEPT !.list = CleanedUp[n].list]]
    /\ helper' = HelperAfterCleanUp
    /\ skip' = SkipAfterCleanUp
    /\ advancer' = AdvancerAfterCleanUp
    /\ worker' = [Listening EXCEPT !.stage = "signal"]
    /\ UNCHANGED << signal, pipe >>
    /\ RealmUnchanged

\* The last part, under the lock again; m_notifier_cv then wakes whoever waits.
HandOver ==
    /\ worker.stage = "handover"
    /\ LET ready == Prepared(worker.old \union worker.new, helper)
       IN notifier' = [n \in Notifiers |-> [ready[n] EXCEPT !.list = CleanedUp[n].list]]
    /\ helper' = HelperAfterCleanUp
    /\ skip' = SkipAfterCleanUp
    /\ advancer' = AdvancerAfterCleanUp
    /\ worker' = [Listening EXCEPT !.stage = "signal"]
    /\ UNCHANGED << signal, pipe >>
    /\ RealmUnchanged

\* The rest of on_change.
SignalRealms ==
    /\ worker.stage = "signal"
    /\ signal' = [r \in Realms |-> r \in Looping]
    /\ worker' = Listening
    /\ UNCHANGED << notifier, skip, advancer, helper, pipe >>
    /\ RealmUnchanged
-------------------------------------------------------------------------------
Worker ==
    NothingToRun \/ SelectNotifiers \/ RunToSkip \/ HandOverSkipped
    \/ RunNotifiers \/ HandOver \/ SignalRealms

Notify(r) == NotifyInWrite(r) \/ NotifyUnchanged(r) \/ NotifyChanged(r)

\* What the thread of a Realm does to end what it has begun.
Proceed(r) == Promoted(r) \/ NotifyOthers(r) \/ Refreshed(r) \/ Deliver(r)

EndTransaction(r) == CommitWrite(r) \/ CancelTransaction(r)

Next ==
    \/ Worker
    \/ \E r \in Realms :
        \/ ReadGroup(r) \/ BeginTransaction(r) \/ EndTransaction(r)
        \/ Refresh(r) \/ Notify(r) \/ Proceed(r)
    \/ \E n \in Notifiers : Watch(n) \/ Use(n) \/ Drop(n)

Spec == Init /\ [][Next]_vars

\* The listener's thread and the run loops run, a thread that is let go goes on,
\* and one that has begun to write ends its transaction.  Nobody need begin
\* anything.
Fairness ==
    /\ WF_vars(Worker)
    /\ \A r \in Realms :
        WF_vars(Notify(r)) /\ WF_vars(Proceed(r)) /\ WF_vars(EndTransaction(r))

FairSpec == Spec /\ Fairness
-------------------------------------------------------------------------------
(***************************************************************************)
(* Properties.                                                              *)
(***************************************************************************)
\* What the worker's own SharedGroups must be doing when it, or a thread that
\* registers a notifier, relies on it: each reads a version exactly as long as
\* there are notifiers for it, and the advancer one that is not later than that of
\* any new notifier (the REALM_ASSERTs of pin_version, clean_up_dead_notifiers and
\* run_async_notifiers).
HelpersHoldVersions ==
    /\ (advancer # 0) <=> (New # {})
    /\ \A n \in New : advancer <= notifier[n].version
    /\ (helper # 0) <=> (Main # {})

\* The version to skip to is still ahead of the worker, and there is somebody to
\* run at it: the worker is never asked to go back to a version it has passed (the
\* REALM_ASSERTs of run_async_notifiers, and the lock around the commit).
SkipIsAhead ==
    /\ skip # 0 => Main # {} /\ helper < skip /\ skip <= latest
    /\ worker.stage = "skip" =>
           worker.old # {} /\ helper < worker.skip /\ worker.skip <= worker.to
    /\ worker.stage \in {"skip", "skipped", "run"} => helper <= worker.to

\* What is handed over to one Realm is all of one version, whichever notifiers
\* were new, old or skipped when the worker ran (NotifierPackage keeps the version
\* of one of them for all).
OneVersionForAll ==
    \A m, n \in Main : notifier[m].hasRun /\ notifier[n].hasRun
                         => notifier[m].version = notifier[n].version

\* The three together: the order that the worker keeps its versions in.
WorkerInOrder == HelpersHoldVersions /\ SkipIsAhead /\ OneVersionForAll

\* A Realm is only moved forward, and what it is then handed was made for the very
\* version it has come to: import_from_handover throws BadVersion otherwise.
HandedOverAtItsVersion ==
    \A r \in Realms : op[r].stage = "deliver" =>
        /\ op[r].to = 0 \/ at[r] <= op[r].to
        /\ \A n \in op[r].ns : notifier[n].toDeliver # NoView =>
               notifier[n].toDeliver.version = op[r].to

\* From the first call of a notification block on, no change of the table is told
\* twice, and none is lost on the way from the worker to the block, although
\* advance_to_ready throws away what it has packaged when the Realm is ahead of it.
EachChangeOnce ==
    \A n \in Callbacks \intersect Main : notifier[n].initial /\ notifier[n].alive =>
        LET o == op[Owner[n]]
            rec == notifier[n]
            underWay == IF o.stage = "deliver" /\ n \in o.ns THEN rec.toTell ELSE {}
        IN /\ {t \in touched : rec.since < t /\ t <= rec.version}
                  = rec.told \union underWay \union rec.accumulated
           /\ rec.told \intersect (underWay \union rec.accumulated) = {}
           /\ underWay \intersect rec.accumulated = {}

\* A block is told of the changes up to the version its Realm is then at, no more
\* and no less, be it by a refresh, by a signal or at the start of a transaction.
ToldWhereItIs ==
    [][\A n \in Notifiers : notifier'[n].told # notifier[n].told =>
          notifier'[n].told =
              {t \in touched' : notifier'[n].since < t /\ t <= at'[Owner[n]]}]_vars

\* The worker never stops to run the query of n: it has a notification block, or
\* each result that it was given has been used before the next came.
KeptUp(n) == n \in Callbacks \/ ~notifier[n].lapsed

\* The view that such Results have been given shows what their query finds at the
\* version it was delivered at, though the query ran at another time, at another
\* version perhaps, on another thread (ResultsNotifier, set_table_view).
FreshIfKeptUp ==
    \A n \in Notifiers : LET view == notifier[n].view IN
        KeptUp(n) /\ view # NoView => view.content = Content(view.version)

\* "Results always reflect the current state of the Realm on the current thread"
\* (RLMResults.h), whether they have a block or not, whenever the thread uses them.
AlwaysReflect ==
    \A n \in Notifiers :
        notifier[n].list # "none" /\ notifier[n].alive /\ Idles(Owner[n]) =>
            Shown(n) = Content(at[Owner[n]])

\* A Realm that reads, on a thread with a run loop, comes to every version that is
\* committed, whatever its notifiers had ready when it was signalled.
ReachesEveryCommit ==
    \A r \in Looping, v \in 1 .. MaxVersion : (latest = v /\ at[r] # 0) ~> (at[r] >= v)

\* A thread that waits for the worker, in the middle of a refresh or with the
\* write lock in its hands, is let go.
WaitsEnd ==
    \A r \in Realms : (op[r].stage \in {"promote", "refresh"}) ~> (op[r].stage \in {"write", "idle"})

\* The Realms keep what Transactions promises; a Realm that has the write lock and
\* waits has not begun yet.
Abstract == INSTANCE Transactions WITH
    writer <- IF \E r \in Realms : op[r].stage = "write" THEN writer ELSE NoRealm
KeepsTransactions == Abstract!TSpec
================================================================================
