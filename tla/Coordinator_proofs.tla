--------------------------- MODULE Coordinator_proofs ---------------------------
(***************************************************************************)
(* The versions that the worker and the Realms' threads hold and hand over, *)
(* proved for any Realms, any Results and any number of commits.            *)
(***************************************************************************)
EXTENDS Coordinator, WellFoundedInduction, TLAPS

-------------------------------------------------------------------------------
(* The invariant. *)

View == [version : Nat, content : Nat]

Record ==
    [list : {"none", "new", "main", "gone"}, alive : BOOLEAN, version : Nat, hasRun : BOOLEAN,
     lastSeen : Nat, tv : Nat, changes : SUBSET Nat, accumulated : SUBSET Nat,
     handover : View, toDeliver : View, toTell : SUBSET Nat,
     view : View, used : BOOLEAN, wants : BOOLEAN, lapsed : BOOLEAN,
     initial : BOOLEAN, since : Nat, told : SUBSET Nat]

Operation ==
    [stage : {"idle", "promote", "write", "committed", "refresh", "deliver"},
     to : Nat, ns : SUBSET Notifiers]

Work ==
    [stage : {"listen", "skip", "skipped", "run", "handover", "signal"},
     skip : Nat, to : Nat, old : SUBSET Notifiers, new : SUBSET Notifiers]

Typed ==
    /\ latest \in Nat \ {0}
    /\ touched \subseteq Nat /\ 1 \in touched
    /\ writer \in Realms \union {NoRealm}
    /\ at \in [Realms -> Nat]
    /\ op \in [Realms -> Operation]
    /\ notifier \in [Notifiers -> Record]
    /\ skip \in Nat /\ advancer \in Nat /\ helper \in Nat
    /\ worker \in Work

(* No version is ahead of the latest; a notifier that has not run has nothing *)
(* to hand over, and what there is to hand over is of the notifier's version. *)
VersionOf(n) ==
    /\ notifier[n].version <= latest
    /\ notifier[n].list \in {"none", "new"} => ~notifier[n].hasRun
    /\ ~notifier[n].hasRun => notifier[n].handover = NoView
    /\ notifier[n].handover # NoView => notifier[n].handover.version = notifier[n].version

Versions ==
    /\ \A n \in Notifiers : VersionOf(n)
    /\ helper <= latest /\ skip <= latest /\ worker.to <= latest /\ worker.skip <= latest

(* The worker has copied all of m_notifiers, and what commits meanwhile is *)
(* ahead of the version that it runs to.                                   *)
AtWork == worker.stage \in {"skip", "skipped", "run", "handover"}

Working ==
    /\ AtWork =>
          /\ Main # {} /\ Main = worker.old \union worker.new
          /\ worker.old \intersect worker.new = {}
          /\ \A n \in worker.new : ~notifier[n].hasRun
          /\ worker.to # 0
          /\ skip # 0 => worker.to < skip
    /\ worker.stage = "handover" => helper = worker.to

(* What a thread is in the middle of. *)
ThreadOf(r) ==
    /\ at[r] <= latest
    /\ op[r].stage \in {"promote", "write"} <=> writer = r
    /\ op[r].stage = "refresh" => at[r] <= op[r].to /\ op[r].to <= latest
    /\ op[r].stage = "deliver" =>
          /\ op[r].to = 0 \/ (at[r] <= op[r].to /\ op[r].to <= latest)
          /\ \A n \in op[r].ns :
                /\ Owner[n] = r
                /\ notifier[n].toDeliver # NoView => notifier[n].toDeliver.version = op[r].to
    /\ op[r].stage \in {"promote", "refresh"} =>
          \A n \in op[r].ns : Owner[n] = r /\ notifier[n].alive /\ n \in Main \union New

Threads == \A r \in Realms : ThreadOf(r)

Reading == \A n \in Notifiers : notifier[n].list # "none" => at[Owner[n]] # 0

IInv == Typed /\ Versions /\ WorkerInOrder /\ Working /\ Threads /\ Reading

LEMMA InitIInv == Init => IInv
<1> SUFFICES ASSUME Init PROVE IInv
  OBVIOUS
<1>1. NewNotifier \in Record
  BY DEF NewNotifier, Record, View, NoView
<1>2. Idle \in Operation /\ Listening \in Work
  BY DEF Idle, Doing, Operation, Listening, Work
<1>3. Typed
  BY <1>1, <1>2 DEF Init, Typed
<1>4. Main = {} /\ New = {}
  BY DEF Init, Main, New, NewNotifier
<1>5. \A n \in Notifiers : notifier[n].list = "none" /\ notifier[n].version = 0
          /\ ~notifier[n].hasRun /\ notifier[n].handover = NoView
  BY DEF Init, NewNotifier
<1>6. Versions
  BY <1>5 DEF Init, Versions, VersionOf, Listening
<1>7. WorkerInOrder
  BY <1>4 DEF Init, WorkerInOrder, HelpersHoldVersions, SkipIsAhead, OneVersionForAll, Listening
<1>8. Working
  BY DEF Init, Working, AtWork, Listening
<1>9. Threads
  BY CoordinatorAssumption DEF Init, Threads, ThreadOf, Idle, Doing
<1>10. Reading
  BY <1>5 DEF Reading
<1> QED
  BY <1>3, <1>6, <1>7, <1>8, <1>9, <1>10 DEF IInv

-------------------------------------------------------------------------------
(* The operators on notifiers. *)

(* A set of versions with an early one has a last one up to any version. *)
LEMMA LastUpTo ==
    ASSUME NEW S \in SUBSET Nat, 1 \in S, NEW v \in Nat, v # 0
    PROVE  \E t \in S : t <= v /\ \A u \in S : u <= v => u <= t
<1> DEFINE T == {d \in Nat : d <= v /\ v - d \in S}
<1>1. T \subseteq Nat /\ v - 1 \in T
  OBVIOUS
<1>2. IsWellFoundedOn(OpToRel(<, Nat), Nat)
  BY NatLessThanWellFounded
<1>3. PICK d \in T : \A e \in T : ~(<< e, d >> \in OpToRel(<, Nat))
  <2> HIDE DEF T
  <2> QED
    BY <1>1, <1>2, WFMin
<1>4. \A e \in T : ~(e < d)
  BY <1>1, <1>3 DEF OpToRel
<1>5. v - d \in S /\ v - d <= v /\ v - d \in Nat
  OBVIOUS
<1>6. ASSUME NEW u \in S, u <= v PROVE u <= v - d
  <2>1. u \in Nat
    OBVIOUS
  <2>2. v - u \in T
    BY <1>6, <2>1
  <2>3. ~(v - u < d)
    BY <1>4, <2>2
  <2> QED
    BY <2>1, <2>3, <1>6
<1> QED
  BY <1>5, <1>6

LEMMA ContentIsLast ==
    ASSUME Typed, NEW v \in Nat, v # 0
    PROVE  /\ Content(v) \in touched /\ Content(v) \in Nat /\ Content(v) <= v
           /\ \A u \in touched : u <= v => u <= Content(v)
<1>1. touched \in SUBSET Nat /\ 1 \in touched
  BY DEF Typed
<1>2. \E t \in touched : t <= v /\ \A u \in touched : u <= v => u <= t
  BY <1>1, LastUpTo
<1> QED
  BY <1>1, <1>2 DEF Content

LEMMA ContentTyped ==
    ASSUME Typed, NEW v \in Nat, v # 0
    PROVE  Content(v) \in Nat
BY ContentIsLast

LEMMA PackageOfTyped ==
    ASSUME NEW n \in Notifiers, notifier[n] \in Record
    PROVE  /\ PackageOf(n) \in Record
           /\ PackageOf(n).list = notifier[n].list
           /\ PackageOf(n).version = notifier[n].version
           /\ PackageOf(n).hasRun = notifier[n].hasRun
           /\ PackageOf(n).alive = notifier[n].alive
           /\ PackageOf(n).handover = NoView
           /\ PackageOf(n).toDeliver = notifier[n].handover
BY ZenonT(60) DEF PackageOf, Record, NoView, View

LEMMA AfterAdvanceTyped ==
    ASSUME NEW n \in Notifiers, NEW rec \in Record, NEW v \in Nat
    PROVE  /\ AfterAdvance(n, rec, v) \in Record
           /\ AfterAdvance(n, rec, v).list = rec.list
           /\ AfterAdvance(n, rec, v).version = rec.version
           /\ AfterAdvance(n, rec, v).hasRun = rec.hasRun
           /\ AfterAdvance(n, rec, v).alive = rec.alive
           /\ AfterAdvance(n, rec, v).handover = rec.handover
           /\ AfterAdvance(n, rec, v).toDeliver = rec.toDeliver
BY ZenonT(60) DEF AfterAdvance, ToldOf, Record

LEMMA DeliverToTyped ==
    ASSUME NEW rec \in Record, NEW v \in Nat
    PROVE  /\ DeliverTo(rec, v) \in Record
           /\ DeliverTo(rec, v).list = rec.list
           /\ DeliverTo(rec, v).version = rec.version
           /\ DeliverTo(rec, v).hasRun = rec.hasRun
           /\ DeliverTo(rec, v).alive = rec.alive
           /\ DeliverTo(rec, v).handover = rec.handover
BY ZenonT(60) DEF DeliverTo, Record, View, NoView

LEMMA RunTyped ==
    ASSUME Typed, NEW n \in Notifiers, NEW v \in Nat, v # 0
    PROVE  /\ Run(n, v) \in Record
           /\ Run(n, v).list = notifier[n].list
           /\ Run(n, v).version = notifier[n].version
           /\ Run(n, v).hasRun = notifier[n].hasRun
           /\ Run(n, v).alive = notifier[n].alive
           /\ Run(n, v).handover = notifier[n].handover
           /\ Run(n, v).toDeliver = notifier[n].toDeliver
<1>1. notifier[n] \in Record /\ Content(v) \in Nat
  BY ContentTyped DEF Typed
<1>2. {t \in touched : notifier[n].lastSeen < t /\ t <= v} \in SUBSET Nat
  BY DEF Typed
<1> DEFINE c == Content(v)
           p == IF notifier[n].hasRun /\ n \in Callbacks
                THEN {t \in touched : notifier[n].lastSeen < t /\ t <= v} ELSE {}
<1>3. p \in SUBSET Nat /\ c \in Nat
  BY <1>1, <1>2
<1>4. Run(n, v) = notifier[n]
      \/ Run(n, v) = [notifier[n] EXCEPT !.tv = c, !.lastSeen = c, !.changes = p]
  BY DEF Run
<1> HIDE DEF c, p
<1> QED
  BY <1>1, <1>3, <1>4, ZenonT(60) DEF Record

LEMMA PrepareTyped ==
    ASSUME Typed, NEW n \in Notifiers, NEW v \in Nat
    PROVE  /\ PrepareHandover(n, v) \in Record
           /\ PrepareHandover(n, v).list = notifier[n].list
           /\ PrepareHandover(n, v).version = v
           /\ PrepareHandover(n, v).hasRun
           /\ PrepareHandover(n, v).alive = notifier[n].alive
           /\ PrepareHandover(n, v).toDeliver = notifier[n].toDeliver
           /\ PrepareHandover(n, v).handover # NoView =>
                 PrepareHandover(n, v).handover.version = v
<1>1. notifier[n] \in Record
  BY DEF Typed
<1>2. HandoverOf(n, v) \in View /\ (HandoverOf(n, v) # NoView => HandoverOf(n, v).version = v)
  BY <1>1 DEF HandoverOf, Record, View, NoView
<1> QED
  BY <1>1, <1>2, ZenonT(60) DEF PrepareHandover, Record

-------------------------------------------------------------------------------
(* What the steps of a Realm's thread have in common. *)

Kept(n) ==
    /\ notifier'[n].list = notifier[n].list
    /\ notifier'[n].version = notifier[n].version
    /\ notifier'[n].hasRun = notifier[n].hasRun
    /\ notifier'[n].alive => notifier[n].alive
    /\ notifier'[n].handover \in {notifier[n].handover, NoView}

LEMMA WorkerKept ==
    ASSUME IInv, UNCHANGED << latest, skip, advancer, helper, worker >>,
           \A n \in Notifiers : Kept(n)
    PROVE  Versions' /\ WorkerInOrder' /\ Working' /\ Main' = Main /\ New' = New
<1>1. Main' = Main /\ New' = New
  BY DEF Main, New, Kept
<1>2. Versions'
  BY DEF IInv, Versions, VersionOf, Kept
<1>3. \A n \in Main \union New : n \in Notifiers
  BY DEF Main, New
<1>4. HelpersHoldVersions'
  BY <1>1, <1>3 DEF IInv, WorkerInOrder, HelpersHoldVersions, Kept
<1>5. SkipIsAhead'
  BY <1>1 DEF IInv, WorkerInOrder, SkipIsAhead
<1>6. OneVersionForAll'
  BY <1>1, <1>3 DEF IInv, WorkerInOrder, OneVersionForAll, Kept
<1>7. Working'
  <2>1. \A n \in worker.new : n \in Notifiers
    BY DEF IInv, Typed, Work
  <2> QED
    BY <1>1, <2>1 DEF IInv, Working, AtWork, Kept
<1> QED
  BY <1>1, <1>2, <1>4, <1>5, <1>6, <1>7 DEF WorkerInOrder

(* A thread that the step is not of. *)
LEMMA OtherThread ==
    ASSUME IInv, NEW s \in Realms, at'[s] = at[s], op'[s] = op[s], latest' \in Nat, latest <= latest',
           writer = s <=> writer' = s,
           \A n \in Notifiers : Owner[n] = s => notifier'[n] = notifier[n]
    PROVE  ThreadOf(s)'
<1>1. op[s] \in Operation /\ at[s] \in Nat /\ latest \in Nat
  BY DEF IInv, Typed
<1>2. \A n \in op[s].ns : n \in Notifiers
  BY <1>1 DEF Operation
<1>3. \A n \in Notifiers : Owner[n] = s => (n \in Main' <=> n \in Main) /\ (n \in New' <=> n \in New)
  BY DEF Main, New
<1>4. op[s].to \in Nat
  BY <1>1 DEF Operation
<1> QED
  BY <1>1, <1>2, <1>3, <1>4 DEF IInv, Threads, ThreadOf

LEMMA ThreadStep ==
    ASSUME IInv, NEW r \in Realms, Typed', ThreadOf(r)',
           UNCHANGED << latest, skip, advancer, helper, worker >>,
           \A s \in Realms \ {r} : at'[s] = at[s] /\ op'[s] = op[s] /\ (writer = s <=> writer' = s),
           at[r] # 0 => at'[r] # 0,
           \A n \in Notifiers : Kept(n) /\ (Owner[n] # r => notifier'[n] = notifier[n])
    PROVE  IInv'
<1>1. Versions' /\ WorkerInOrder' /\ Working'
  BY WorkerKept
<1>2. Threads'
  <2> SUFFICES ASSUME NEW s \in Realms, s # r PROVE ThreadOf(s)'
    BY DEF Threads
  <2>1. latest' \in Nat /\ latest <= latest'
    BY DEF IInv, Typed
  <2> QED
    BY <2>1, OtherThread
<1>3. Reading'
  <2>1. \A n \in Notifiers : Owner[n] \in Realms
    BY CoordinatorAssumption
  <2> QED
    BY <2>1 DEF IInv, Reading, Kept
<1> QED
  BY <1>1, <1>2, <1>3 DEF IInv

(* Steps that leave the notifiers alone. *)
LEMMA QuietStep ==
    ASSUME IInv, NEW r \in Realms, Typed', ThreadOf(r)',
           UNCHANGED << latest, skip, advancer, helper, worker, notifier >>,
           \A s \in Realms \ {r} : at'[s] = at[s] /\ op'[s] = op[s] /\ (writer = s <=> writer' = s),
           at[r] # 0 => at'[r] # 0
    PROVE  IInv'
<1>1. \A n \in Notifiers : Kept(n) /\ (Owner[n] # r => notifier'[n] = notifier[n])
  BY DEF Kept
<1> QED
  BY <1>1, ThreadStep

LEMMA DoingTyped ==
    ASSUME NEW stage \in {"idle", "promote", "write", "committed", "refresh", "deliver"},
           NEW to \in Nat, NEW ns \in SUBSET Notifiers
    PROVE  /\ Doing(stage, to, ns) \in Operation
           /\ Doing(stage, to, ns).stage = stage /\ Doing(stage, to, ns).to = to
           /\ Doing(stage, to, ns).ns = ns
BY DEF Doing, Operation

LEMMA ReadGroupStep ==
    ASSUME IInv, NEW r \in Realms, ReadGroup(r)
    PROVE  IInv'
<1>1. /\ op[r].stage = "idle" /\ at[r] = 0 /\ at' = [at EXCEPT ![r] = latest]
      /\ UNCHANGED << latest, touched, writer, op, notifier, skip, advancer, helper, worker >>
  BY DEF ReadGroup, Idles, WorkerUnchanged
<1>2. Typed'
  BY <1>1 DEF IInv, Typed
<1>3. at'[r] = latest /\ \A s \in Realms \ {r} : at'[s] = at[s]
  BY <1>1 DEF IInv, Typed
<1>4. ThreadOf(r)'
  BY <1>1, <1>3 DEF IInv, Typed, Threads, ThreadOf
<1> QED
  BY <1>1, <1>2, <1>3, <1>4, QuietStep

LEMMA NotifiersForTyped ==
    ASSUME NEW r \in Realms
    PROVE  /\ NotifiersFor(r) \in SUBSET Notifiers
           /\ \A n \in NotifiersFor(r) : Owner[n] = r /\ notifier[n].alive /\ n \in Main \union New
BY DEF NotifiersFor, Main, New

LEMMA BeginTransactionStep ==
    ASSUME IInv, NEW r \in Realms, BeginTransaction(r)
    PROVE  IInv'
<1> DEFINE o == Doing("promote", latest, NotifiersFor(r))
<1>1. /\ writer = NoRealm /\ writer' = r /\ op[r].stage = "idle"
      /\ op' = [op EXCEPT ![r] = o]
      /\ UNCHANGED << latest, touched, at, notifier, skip, advancer, helper, worker >>
  BY DEF BeginTransaction, WorkerUnchanged, Idles
<1>2. o \in Operation /\ o.stage = "promote" /\ o.ns = NotifiersFor(r)
  BY DoingTyped, NotifiersForTyped DEF IInv, Typed
<1> HIDE DEF o
<1>3. Typed'
  BY <1>1, <1>2 DEF IInv, Typed
<1>4. op'[r] = o /\ \A s \in Realms \ {r} : op'[s] = op[s] /\ writer # s /\ writer' # s
  BY <1>1, CoordinatorAssumption DEF IInv, Typed
<1>5. Main' = Main /\ New' = New
  BY <1>1 DEF Main, New
<1>6. ThreadOf(r)'
  BY <1>1, <1>2, <1>4, <1>5, NotifiersForTyped DEF IInv, Typed, Threads, ThreadOf
<1> QED
  BY <1>1, <1>3, <1>4, <1>6, QuietStep

(* Packaging, of notifiers of one Realm. *)
LEMMA Packaged ==
    ASSUME IInv, NEW r \in Realms, NEW ns \in SUBSET Notifiers, \A n \in ns : Owner[n] = r,
           \A n \in Notifiers : notifier'[n] = IF n \in ns THEN PackageOf(n) ELSE notifier[n]
    PROVE  /\ \A n \in Notifiers : notifier'[n] \in Record
           /\ \A n \in Notifiers : Kept(n) /\ (Owner[n] # r => notifier'[n] = notifier[n])
           /\ \A n \in ns : notifier'[n].toDeliver = notifier[n].handover
<1>1. \A n \in Notifiers : notifier[n] \in Record
  BY DEF IInv, Typed
<1> QED
  BY <1>1, PackageOfTyped DEF Kept

(* Of the notifiers of one Realm all that have run are at one version. *)
LEMMA PackageVersions ==
    ASSUME IInv, NEW ns \in SUBSET (Main \union New), NEW target \in Nat
    PROVE  LET ps == {n \in ns : Packed(n)}
               v == PackageVersion(ps, target)
           IN /\ v \in Nat /\ v <= latest
              /\ v # 0 => v >= target
              /\ ps # {} => (v = 0 \/ \A n \in ps : notifier[n].version = v)
              /\ v = 0 /\ target = 0 => \A n \in ps : notifier[n].version = 0
              /\ \A n \in ps : notifier[n].handover # NoView =>
                    notifier[n].handover.version = notifier[n].version
<1> DEFINE ps == {n \in ns : Packed(n)}
           vs == {notifier[n].version : n \in {n \in ps : Packed(n)}}
           v == CHOOSE v \in vs : TRUE
<1>1. \A n \in ps : n \in Notifiers /\ n \in Main /\ notifier[n].hasRun
  BY DEF Packed, Main, New, IInv, Versions, VersionOf
<1>2. \A n \in ps : notifier[n].version \in Nat /\ notifier[n].version <= latest
  BY <1>1 DEF IInv, Typed, Versions, VersionOf, Record
<1>3. \A m, n \in ps : notifier[m].version = notifier[n].version
  BY <1>1 DEF IInv, WorkerInOrder, OneVersionForAll
<1>4. PackageVersion(ps, target) = IF vs = {} \/ v < target THEN 0 ELSE v
  BY DEF PackageVersion
<1>5. \A n \in ps : notifier[n].version \in vs
  OBVIOUS
<1>6. vs # {} => \E n \in ps : v = notifier[n].version
  OBVIOUS
<1>7. \A n \in ps : notifier[n].handover # NoView =>
         notifier[n].handover.version = notifier[n].version
  BY <1>1 DEF IInv, Versions, VersionOf
<1>8. latest \in Nat /\ 0 <= latest
  BY DEF IInv, Typed
<1> HIDE DEF ps, vs, v
<1>9. \A n \in ps : vs # {} /\ notifier[n].version = v
  BY <1>3, <1>5, <1>6
<1>10. vs # {} => v \in Nat /\ v <= latest
  BY <1>2, <1>6
<1>11. \/ PackageVersion(ps, target) = 0 /\ (vs = {} \/ v < target)
       \/ PackageVersion(ps, target) = v /\ vs # {} /\ ~(v < target)
  BY <1>4
<1>12. target = 0 => ~(v < target) \/ vs = {}
  BY <1>10
<1> QED
  BY <1>7, <1>8, <1>9, <1>10, <1>11, <1>12 DEF ps

LEMMA PromotedStep ==
    ASSUME IInv, NEW r \in Realms, Promoted(r)
    PROVE  IInv'
<1> DEFINE ns == {n \in op[r].ns : Packed(n)}
<1>1. /\ op[r].stage = "promote" /\ at' = [at EXCEPT ![r] = latest]
      /\ op' = [op EXCEPT ![r] = Doing("write", 0, {})]
      /\ UNCHANGED << latest, touched, writer, skip, advancer, helper, worker >>
  BY DEF Promoted, WorkerUnchanged
<1>2. notifier' = [n \in Notifiers |-> notifier'[n]]
      /\ \E told \in SUBSET Notifiers : told \subseteq ns /\
         \A n \in Notifiers : notifier'[n] =
            IF n \in told THEN AfterAdvance(n, PackageOf(n), latest)
            ELSE IF n \in ns THEN PackageOf(n) ELSE notifier[n]
  <2>1. op[r].ns \in SUBSET Notifiers
    BY DEF IInv, Typed, Operation
  <2> DEFINE told == IF PackageVersion(ns, op[r].to) = 0 THEN {} ELSE ns
  <2>2. told \in SUBSET Notifiers /\ told \subseteq ns
    BY <2>1
  <2>3. notifier' = [n \in Notifiers |->
              IF n \in told THEN AfterAdvance(n, PackageOf(n), latest)
              ELSE IF n \in ns THEN PackageOf(n) ELSE notifier[n]]
    BY DEF Promoted
  <2> HIDE DEF told, ns
  <2> QED
    BY <2>2, <2>3
<1>3. \A n \in ns : n \in Notifiers /\ Owner[n] = r
  BY <1>1 DEF IInv, Typed, Operation, Threads, ThreadOf
<1> HIDE DEF ns
<1>4. \A n \in Notifiers : notifier[n] \in Record
  BY DEF IInv, Typed
<1>5. \A n \in Notifiers : notifier'[n] \in Record /\ Kept(n) /\ (Owner[n] # r => notifier'[n] = notifier[n])
  <2> SUFFICES ASSUME NEW n \in Notifiers
               PROVE  notifier'[n] \in Record /\ Kept(n) /\ (Owner[n] # r => notifier'[n] = notifier[n])
    OBVIOUS
  <2> DEFINE p == PackageOf(n)
  <2>1. latest \in Nat
    BY DEF IInv, Typed
  <2>2. p \in Record /\ p.list = notifier[n].list /\ p.version = notifier[n].version
        /\ p.hasRun = notifier[n].hasRun /\ p.alive = notifier[n].alive /\ p.handover = NoView
    BY <1>4, PackageOfTyped
  <2>3. notifier'[n] \in {AfterAdvance(n, p, latest), p, notifier[n]}
        /\ (n \notin ns => notifier'[n] = notifier[n])
    BY <1>2
  <2> HIDE DEF p
  <2> QED
    BY <1>3, <1>4, <2>1, <2>2, <2>3, AfterAdvanceTyped DEF Kept
<1>6. Doing("write", 0, {}) \in Operation /\ Doing("write", 0, {}).stage = "write"
  BY DoingTyped
<1>7. Typed'
  BY <1>1, <1>2, <1>5, <1>6 DEF IInv, Typed
<1>8. /\ at'[r] = latest /\ op'[r] = Doing("write", 0, {})
      /\ \A s \in Realms \ {r} : at'[s] = at[s] /\ op'[s] = op[s]
  BY <1>1 DEF IInv, Typed
<1>9. ThreadOf(r)'
  BY <1>1, <1>6, <1>8 DEF IInv, Typed, Threads, ThreadOf
<1>10. latest # 0
  BY DEF IInv, Typed
<1> QED
  BY <1>1, <1>5, <1>7, <1>8, <1>9, <1>10, ThreadStep

LEMMA CommitWriteStep ==
    ASSUME IInv, NEW r \in Realms, CommitWrite(r)
    PROVE  IInv'
<1>1. /\ op[r].stage = "write" /\ latest' = latest + 1
      /\ touched' \in {touched, touched \union {latest + 1}}
      /\ at' = [at EXCEPT ![r] = latest + 1] /\ writer' = NoRealm
      /\ op' = [op EXCEPT ![r] = Doing("committed", 0, {})]
      /\ UNCHANGED << notifier, advancer, helper, worker >>
  BY DEF CommitWrite
<1>2. skip' = skip \/ (skip' = latest + 1 /\ Main # {})
  BY DEF CommitWrite, SkipAtCommit
<1>3. latest \in Nat \ {0} /\ skip \in Nat /\ helper \in Nat
      /\ helper <= latest /\ skip <= latest /\ worker.to <= latest /\ worker.skip <= latest
      /\ worker.to \in Nat /\ worker.skip \in Nat
  BY DEF IInv, Typed, Versions, Work
<1>4. Doing("committed", 0, {}) \in Operation /\ Doing("committed", 0, {}).stage = "committed"
  BY DoingTyped
<1>5. Typed'
  BY <1>1, <1>2, <1>3, <1>4 DEF IInv, Typed
<1>6. Main' = Main /\ New' = New
  BY <1>1 DEF Main, New
<1>7. \A n \in Notifiers : notifier[n].version \in Nat
  BY DEF IInv, Typed, Record
<1>8. Versions'
  BY <1>1, <1>2, <1>3, <1>7 DEF IInv, Versions, VersionOf
<1>9. WorkerInOrder'
  <2>1. HelpersHoldVersions' /\ OneVersionForAll'
    BY <1>1, <1>6 DEF IInv, WorkerInOrder, HelpersHoldVersions, OneVersionForAll
  <2>2. SkipIsAhead'
    BY <1>1, <1>2, <1>3, <1>6 DEF IInv, WorkerInOrder, SkipIsAhead
  <2> QED
    BY <2>1, <2>2 DEF WorkerInOrder
<1>10. Working'
  BY <1>1, <1>2, <1>3, <1>6 DEF IInv, Working, AtWork
<1>11. writer = r
  BY <1>1 DEF IInv, Threads, ThreadOf
<1>12. /\ at'[r] = latest + 1 /\ op'[r] = Doing("committed", 0, {})
       /\ \A s \in Realms \ {r} : at'[s] = at[s] /\ op'[s] = op[s]
  BY <1>1 DEF IInv, Typed
<1>13. Threads'
  <2>1. ThreadOf(r)'
    BY <1>1, <1>3, <1>4, <1>12, CoordinatorAssumption DEF ThreadOf
  <2>2. ASSUME NEW s \in Realms, s # r PROVE ThreadOf(s)'
    BY <1>1, <1>3, <1>11, <1>12, <2>2, OtherThread, CoordinatorAssumption
  <2> QED
    BY <2>1, <2>2 DEF Threads
<1>14. Reading'
  <2>1. \A n \in Notifiers : Owner[n] \in Realms
    BY CoordinatorAssumption
  <2> QED
    BY <1>1, <1>3, <1>12, <2>1 DEF IInv, Reading
<1> QED
  BY <1>5, <1>8, <1>9, <1>10, <1>13, <1>14 DEF IInv

(* The ends of a transaction, and signals that lead to nothing. *)
LEMMA EndStep ==
    ASSUME IInv, NEW r \in Realms, NotifyOthers(r) \/ CancelTransaction(r) \/ NotifyInWrite(r)
    PROVE  IInv'
<1>1. UNCHANGED << latest, touched, at, notifier, skip, advancer, helper, worker >>
  BY DEF NotifyOthers, CancelTransaction, NotifyInWrite, WorkerUnchanged
<1>2. \/ op' = op /\ writer' = writer
      \/ op' = [op EXCEPT ![r] = Idle] /\ op[r].stage = "committed" /\ writer' = writer
      \/ op' = [op EXCEPT ![r] = Idle] /\ op[r].stage = "write" /\ writer' = NoRealm
  BY DEF NotifyOthers, CancelTransaction, NotifyInWrite
<1>3. Idle \in Operation /\ Idle.stage = "idle"
  BY DoingTyped DEF Idle
<1>4. Typed'
  BY <1>1, <1>2, <1>3 DEF IInv, Typed
<1>5. \A s \in Realms \ {r} : op'[s] = op[s]
  BY <1>2 DEF IInv, Typed
<1>6. (op[r].stage = "write" => writer = r) /\ (op[r].stage = "committed" => writer # r)
  BY DEF IInv, Threads, ThreadOf
<1>7. \A s \in Realms \ {r} : writer = s <=> writer' = s
  BY <1>2, <1>6, CoordinatorAssumption
<1>8. Main' = Main /\ New' = New
  BY <1>1 DEF Main, New
<1>9. ThreadOf(r)'
  <2>1. \/ op'[r] = op[r] /\ writer' = writer
        \/ op'[r] = Idle /\ writer' # r
    <3>1. op' = [op EXCEPT ![r] = Idle] => op'[r] = Idle
      BY DEF IInv, Typed
    <3>2. NoRealm # r
      BY CoordinatorAssumption
    <3>3. CASE op' = op /\ writer' = writer
      BY <3>3
    <3>4. CASE op' = [op EXCEPT ![r] = Idle] /\ op[r].stage = "committed" /\ writer' = writer
      BY <1>6, <3>1, <3>4
    <3>5. CASE op' = [op EXCEPT ![r] = Idle] /\ op[r].stage = "write" /\ writer' = NoRealm
      BY <3>1, <3>2, <3>5
    <3> QED
      BY <1>2, <3>3, <3>4, <3>5
  <2> QED
    BY <1>1, <1>3, <1>8, <2>1 DEF IInv, Threads, ThreadOf
<1> QED
  BY <1>1, <1>4, <1>5, <1>7, <1>9, QuietStep

LEMMA RefreshStep ==
    ASSUME IInv, NEW r \in Realms, Refresh(r)
    PROVE  IInv'
<1> DEFINE o == Doing("refresh", latest, NotifiersFor(r))
<1>1. /\ op[r].stage = "idle" /\ op' = [op EXCEPT ![r] = o]
      /\ UNCHANGED << latest, touched, at, writer, notifier, skip, advancer, helper, worker >>
  BY DEF Refresh, WorkerUnchanged, Idles
<1>2. o \in Operation /\ o.stage = "refresh" /\ o.to = latest /\ o.ns = NotifiersFor(r)
  BY DoingTyped, NotifiersForTyped DEF IInv, Typed
<1> HIDE DEF o
<1>3. Typed'
  BY <1>1, <1>2 DEF IInv, Typed
<1>4. op'[r] = o /\ \A s \in Realms \ {r} : op'[s] = op[s]
  BY <1>1 DEF IInv, Typed
<1>5. Main' = Main /\ New' = New
  BY <1>1 DEF Main, New
<1>6. ThreadOf(r)'
  BY <1>1, <1>2, <1>4, <1>5, NotifiersForTyped DEF IInv, Typed, Threads, ThreadOf
<1> QED
  BY <1>1, <1>3, <1>4, <1>6, QuietStep

(* A package on its way: of notifiers of the Realm, at the version it goes to. *)
LEMMA PackageStep ==
    ASSUME IInv, NEW r \in Realms, NEW ps \in SUBSET Notifiers, NEW o \in Operation,
           \A n \in ps : Owner[n] = r, Package(ps), op' = [op EXCEPT ![r] = o],
           writer # r, o.stage = "idle" \/ (o.stage = "deliver" /\ o.ns \subseteq ps),
           o.stage = "deliver" => o.to = 0 \/ (at[r] <= o.to /\ o.to <= latest),
           o.stage = "deliver" => \A n \in o.ns :
              notifier[n].handover # NoView => notifier[n].handover.version = o.to,
           UNCHANGED << latest, touched, at, writer, skip, advancer, helper, worker >>
    PROVE  IInv'
<1>1. \A n \in Notifiers : notifier'[n] = IF n \in ps THEN PackageOf(n) ELSE notifier[n]
  BY DEF Package
<1>2. /\ \A n \in Notifiers : notifier'[n] \in Record
      /\ \A n \in Notifiers : Kept(n) /\ (Owner[n] # r => notifier'[n] = notifier[n])
      /\ \A n \in ps : notifier'[n].toDeliver = notifier[n].handover
  BY <1>1, Packaged, SMTT(60)
<1>3. notifier' \in [Notifiers -> Record]
  BY <1>2 DEF Package
<1>4. Typed'
  BY <1>3 DEF IInv, Typed
<1>5. op'[r] = o /\ \A s \in Realms \ {r} : op'[s] = op[s]
  BY DEF IInv, Typed
<1>6. ThreadOf(r)'
  BY <1>2, <1>5 DEF IInv, Threads, ThreadOf
<1> QED
  BY <1>2, <1>4, <1>5, <1>6, ThreadStep

LEMMA RefreshedStep ==
    ASSUME IInv, NEW r \in Realms, Refreshed(r)
    PROVE  IInv'
<1> DEFINE ps == {n \in op[r].ns : Packed(n)}
           v == PackageVersion(ps, op[r].to)
           o == Doing("deliver", v, IF v = 0 THEN {} ELSE ps)
<1>1. /\ op[r].stage = "refresh" /\ Package(ps) /\ op' = [op EXCEPT ![r] = o]
      /\ UNCHANGED << latest, touched, at, writer, skip, advancer, helper, worker >>
  BY DEF Refreshed, WorkerUnchanged
<1>2. /\ op[r].to \in Nat /\ at[r] \in Nat /\ at[r] <= op[r].to
      /\ op[r].ns \in SUBSET Notifiers /\ op[r].ns \in SUBSET (Main \union New)
      /\ \A n \in op[r].ns : Owner[n] = r
  BY <1>1 DEF IInv, Typed, Operation, Threads, ThreadOf
<1>3. /\ v \in Nat /\ v <= latest /\ (v # 0 => v >= op[r].to)
      /\ ps # {} => (v = 0 \/ \A n \in ps : notifier[n].version = v)
      /\ \A n \in ps : notifier[n].handover # NoView =>
            notifier[n].handover.version = notifier[n].version
  BY <1>2, PackageVersions
<1>4. ps \in SUBSET Notifiers /\ \A n \in ps : Owner[n] = r
  BY <1>2
<1> HIDE DEF ps, v
<1>5. /\ o \in Operation /\ o.stage = "deliver" /\ o.to = v
      /\ o.ns = IF v = 0 THEN {} ELSE ps
  BY <1>3, <1>4, DoingTyped
<1> HIDE DEF o
<1>6. writer # r
  BY <1>1 DEF IInv, Threads, ThreadOf
<1>7. o.to = 0 \/ (at[r] <= o.to /\ o.to <= latest)
  BY <1>2, <1>3, <1>5
<1>8. \A n \in o.ns : notifier[n].handover # NoView => notifier[n].handover.version = o.to
  BY <1>3, <1>5
<1>9. o.ns \subseteq ps
  BY <1>5
<1> QED
  BY <1>1, <1>4, <1>5, <1>6, <1>7, <1>8, <1>9, PackageStep

LEMMA NotifyUnchangedStep ==
    ASSUME IInv, NEW r \in Realms, NotifyUnchanged(r)
    PROVE  IInv'
<1> DEFINE ps == {n \in NotifiersFor(r) : Packed(n) /\ notifier[n].version = at[r]}
           o == IF ps = {} THEN Idle ELSE Doing("deliver", at[r], ps)
<1>1. /\ op[r].stage = "idle" /\ Package(ps) /\ op' = [op EXCEPT ![r] = o]
      /\ UNCHANGED << latest, touched, at, writer, skip, advancer, helper, worker >>
  BY DEF NotifyUnchanged, WorkerUnchanged, Idles
<1>2. ps \in SUBSET Notifiers /\ \A n \in ps : Owner[n] = r /\ notifier[n].version = at[r]
  BY NotifiersForTyped
<1>3. \A n \in ps : notifier[n].handover # NoView => notifier[n].handover.version = at[r]
  BY <1>2 DEF IInv, Versions, VersionOf
<1>4. at[r] \in Nat /\ at[r] <= latest /\ writer # r
  BY <1>1 DEF IInv, Typed, Threads, ThreadOf
<1> HIDE DEF ps
<1>5. \/ o = Idle /\ o \in Operation /\ o.stage = "idle"
      \/ o \in Operation /\ o.stage = "deliver" /\ o.to = at[r] /\ o.ns = ps
  BY <1>2, <1>4, DoingTyped DEF Idle
<1> HIDE DEF o
<1>6. o.stage = "deliver" => o.to = 0 \/ (at[r] <= o.to /\ o.to <= latest)
  BY <1>4, <1>5
<1>7. o.stage = "deliver" => \A n \in o.ns :
         notifier[n].handover # NoView => notifier[n].handover.version = o.to
  BY <1>3, <1>5
<1> QED
  BY <1>1, <1>2, <1>4, <1>5, <1>6, <1>7, PackageStep

LEMMA NotifyChangedStep ==
    ASSUME IInv, NEW r \in Realms, NotifyChanged(r)
    PROVE  IInv'
<1> DEFINE ps == {n \in NotifiersFor(r) : Packed(n)}
           v == PackageVersion(ps, 0)
           o == IF Discarded(r, v) THEN Idle ELSE Doing("deliver", v, ps)
<1>1. /\ op[r].stage = "idle" /\ Package(ps) /\ op' = [op EXCEPT ![r] = o]
      /\ UNCHANGED << latest, touched, at, writer, skip, advancer, helper, worker >>
  BY DEF NotifyChanged, WorkerUnchanged, Idles
<1>2. /\ ps \in SUBSET Notifiers /\ \A n \in ps : Owner[n] = r
      /\ NotifiersFor(r) \in SUBSET (Main \union New)
  BY NotifiersForTyped
<1>3. /\ v \in Nat /\ v <= latest
      /\ ps # {} => (v = 0 \/ \A n \in ps : notifier[n].version = v)
      /\ v = 0 => \A n \in ps : notifier[n].version = 0
      /\ \A n \in ps : notifier[n].handover # NoView =>
            notifier[n].handover.version = notifier[n].version
  BY <1>2, PackageVersions
<1>4. at[r] \in Nat /\ writer # r
  BY <1>1 DEF IInv, Typed, Threads, ThreadOf
<1> HIDE DEF ps, v
<1>5. \/ o \in Operation /\ o.stage = "idle"
      \/ /\ o \in Operation /\ o.stage = "deliver" /\ o.to = v /\ o.ns = ps
         /\ ~(v # 0 /\ v < at[r])
  BY <1>2, <1>3, DoingTyped DEF Idle, Discarded
<1> HIDE DEF o
<1>6. o.stage = "deliver" => o.to = 0 \/ (at[r] <= o.to /\ o.to <= latest)
  BY <1>3, <1>4, <1>5
<1>7. o.stage = "deliver" => \A n \in o.ns :
         notifier[n].handover # NoView => notifier[n].handover.version = o.to
  BY <1>3, <1>5
<1> QED
  BY <1>1, <1>2, <1>4, <1>5, <1>6, <1>7, PackageStep

LEMMA DeliverStep ==
    ASSUME IInv, NEW r \in Realms, Deliver(r)
    PROVE  IInv'
<1> DEFINE v == IF op[r].to = 0 THEN latest ELSE op[r].to
<1>1. /\ op[r].stage = "deliver" /\ at' = [at EXCEPT ![r] = v]
      /\ notifier' = [n \in Notifiers |->
            IF n \in op[r].ns THEN AfterAdvance(n, DeliverTo(notifier[n], v), v) ELSE notifier[n]]
      /\ op' = [op EXCEPT ![r] = Idle]
      /\ UNCHANGED << latest, touched, writer, skip, advancer, helper, worker >>
  BY DEF Deliver, WorkerUnchanged
<1>2. v \in Nat /\ v <= latest /\ v # 0 /\ at[r] <= v
  BY <1>1 DEF IInv, Typed, Operation, Threads, ThreadOf
<1> HIDE DEF v
<1>3. \A n \in op[r].ns : Owner[n] = r
  BY <1>1 DEF IInv, Threads, ThreadOf
<1>4. \A n \in Notifiers : notifier[n] \in Record
  BY DEF IInv, Typed
<1>5. \A n \in Notifiers : notifier'[n] \in Record /\ Kept(n) /\ (Owner[n] # r => notifier'[n] = notifier[n])
  <2> SUFFICES ASSUME NEW n \in Notifiers
               PROVE  notifier'[n] \in Record /\ Kept(n) /\ (Owner[n] # r => notifier'[n] = notifier[n])
    OBVIOUS
  <2> DEFINE d == DeliverTo(notifier[n], v)
  <2>1. d \in Record /\ d.list = notifier[n].list /\ d.version = notifier[n].version
        /\ d.hasRun = notifier[n].hasRun /\ d.alive = notifier[n].alive
        /\ d.handover = notifier[n].handover
    BY <1>2, <1>4, DeliverToTyped
  <2>2. notifier'[n] = IF n \in op[r].ns THEN AfterAdvance(n, d, v) ELSE notifier[n]
    BY <1>1
  <2> HIDE DEF d
  <2> QED
    BY <1>2, <1>3, <1>4, <2>1, <2>2, AfterAdvanceTyped, SMTT(60) DEF Kept
<1>6. Idle \in Operation /\ Idle.stage = "idle"
  BY DoingTyped DEF Idle
<1>7. Typed'
  BY <1>1, <1>2, <1>5, <1>6 DEF IInv, Typed
<1>8. /\ at'[r] = v /\ op'[r] = Idle
      /\ \A s \in Realms \ {r} : at'[s] = at[s] /\ op'[s] = op[s]
  BY <1>1 DEF IInv, Typed
<1>9. ThreadOf(r)'
  BY <1>1, <1>2, <1>6, <1>8 DEF IInv, Threads, ThreadOf
<1> QED
  BY <1>1, <1>2, <1>5, <1>7, <1>8, <1>9, ThreadStep

(* Results that are used or dropped. *)
LEMMA UseStep ==
    ASSUME IInv, NEW n \in Notifiers, Use(n) \/ Drop(n)
    PROVE  IInv'
<1> DEFINE r == Owner[n]
<1>0. r \in Realms /\ notifier[n] \in Record
  BY CoordinatorAssumption DEF IInv, Typed
<1>1. /\ notifier[n].list # "none" /\ op[r].stage \notin {"promote", "refresh"}
      /\ UNCHANGED << latest, touched, writer, at, op, skip, advancer, helper, worker >>
  BY DEF Use, Drop, WorkerUnchanged, Idles
<1>2. at[r] \in Nat /\ at[r] # 0
  BY <1>0, <1>1 DEF IInv, Typed, Reading
<1>3. /\ notifier'[n] \in Record /\ Kept(n) /\ notifier'[n].toDeliver = notifier[n].toDeliver
      /\ \A m \in Notifiers \ {n} : notifier'[m] = notifier[m]
      /\ notifier' \in [Notifiers -> Record]
  <2>1. CASE Drop(n)
    BY <1>0, <2>1, ZenonT(60) DEF Drop, Kept, IInv, Typed, Record
  <2>2. CASE Use(n)
    <3> DEFINE x == IF InSync(n) THEN notifier[n].view
                    ELSE [version |-> at[r], content |-> Content(at[r])]
    <3>1. Content(at[r]) \in Nat
      BY <1>2, ContentTyped DEF IInv
    <3>2. x \in View
      BY <1>0, <1>2, <3>1 DEF Record, View
    <3>3. notifier' = [notifier EXCEPT ![n].used = TRUE, ![n].view = x]
      BY <2>2 DEF Use, Shown
    <3> HIDE DEF x
    <3> QED
      BY <1>0, <3>2, <3>3, ZenonT(60) DEF Kept, IInv, Typed, Record
  <2> QED
    BY <2>1, <2>2
<1>4. Typed'
  BY <1>1, <1>3 DEF IInv, Typed
<1>5. \A m \in Notifiers : Kept(m) /\ (Owner[m] # r => notifier'[m] = notifier[m])
  BY <1>3 DEF Kept
<1>6. ThreadOf(r)'
  <2>1. \A m \in op[r].ns : m \in Notifiers
    BY <1>0 DEF IInv, Typed, Operation
  <2>2. \A m \in Notifiers : notifier'[m].toDeliver = notifier[m].toDeliver
    BY <1>3
  <2> QED
    BY <1>0, <1>1, <2>1, <2>2 DEF IInv, Threads, ThreadOf
<1> QED
  BY <1>0, <1>1, <1>4, <1>5, <1>6, ThreadStep

LEMMA WatchStep ==
    ASSUME IInv, NEW n \in Notifiers, Watch(n)
    PROVE  IInv'
<1> DEFINE r == Owner[n]
           x == [version |-> at[r], content |-> Content(at[r])]
<1>0. r \in Realms /\ notifier[n] \in Record
  BY CoordinatorAssumption DEF IInv, Typed
<1>1. /\ op[r].stage = "idle" /\ at[r] # 0 /\ notifier[n].list = "none"
      /\ notifier' = [notifier EXCEPT ![n].list = "new", ![n].version = at[r],
                                      ![n].used = TRUE, ![n].view = x]
      /\ advancer' = Pin(at[r])
      /\ UNCHANGED << latest, touched, writer, at, op, skip, helper, worker >>
  BY DEF Watch, Idles
<1>2. at[r] \in Nat /\ at[r] <= latest
  BY <1>0 DEF IInv, Typed, Threads, ThreadOf
<1>3. x \in View
  BY <1>1, <1>2, ContentTyped, SMTT(60) DEF IInv, View
<1> HIDE DEF x
<1>4. /\ notifier'[n] \in Record /\ notifier'[n].list = "new" /\ notifier'[n].version = at[r]
      /\ notifier'[n].hasRun = notifier[n].hasRun /\ notifier'[n].handover = notifier[n].handover
      /\ \A m \in Notifiers \ {n} : notifier'[m] = notifier[m]
      /\ notifier' \in [Notifiers -> Record]
  BY <1>0, <1>1, <1>2, <1>3, ZenonT(60) DEF IInv, Typed, Record
<1>5. Main' = Main /\ New' = New \union {n} /\ n \notin Main /\ n \notin New
  BY <1>1, <1>4 DEF Main, New
<1>6. /\ advancer' \in Nat /\ advancer' # 0 /\ advancer' <= at[r]
      /\ \A m \in New : advancer' <= notifier[m].version
  <2>1. /\ advancer \in Nat /\ (New # {} => advancer # 0)
        /\ \A m \in New : advancer <= notifier[m].version /\ notifier[m].version \in Nat
    BY DEF IInv, Typed, WorkerInOrder, HelpersHoldVersions, New, Record
  <2>2. \/ New = {} /\ advancer' = at[r]
        \/ at[r] < advancer /\ advancer' = at[r]
        \/ New # {} /\ ~(at[r] < advancer) /\ advancer' = advancer
    BY <1>1 DEF Pin
  <2> QED
    BY <1>1, <1>2, <2>1, <2>2
<1>7. Typed'
  BY <1>1, <1>4, <1>6 DEF IInv, Typed
<1>8. ~notifier[n].hasRun /\ notifier[n].handover = NoView
  BY <1>1, SMTT(60) DEF IInv, Versions, VersionOf
<1>9. Versions'
  BY <1>1, <1>2, <1>4, <1>8, ZenonT(60) DEF IInv, Versions, VersionOf
<1>10. WorkerInOrder'
  <2>1. HelpersHoldVersions'
    <3>1. \A m \in New \union {n} : advancer' <= notifier'[m].version
      <4>1. \A m \in New : m \in Notifiers /\ m # n
        BY <1>5 DEF New
      <4> QED
        BY <1>4, <1>6, <4>1
    <3> QED
      BY <1>1, <1>5, <1>6, <3>1 DEF IInv, WorkerInOrder, HelpersHoldVersions
  <2>2. SkipIsAhead'
    BY <1>1, <1>5 DEF IInv, WorkerInOrder, SkipIsAhead
  <2>3. OneVersionForAll'
    <3>1. \A m \in Main : m \in Notifiers /\ m # n
      BY <1>5, SMTT(60) DEF Main
    <3> QED
      BY <1>4, <1>5, <3>1 DEF IInv, WorkerInOrder, OneVersionForAll
  <2> QED
    BY <2>1, <2>2, <2>3 DEF WorkerInOrder
<1>11. Working'
  <2>1. \A m \in worker.new : m \in Notifiers
    BY DEF IInv, Typed, Work
  <2> QED
    BY <1>1, <1>4, <1>5, <2>1 DEF IInv, Working, AtWork
<1>12. Threads'
  <2> SUFFICES ASSUME NEW s \in Realms PROVE ThreadOf(s)'
    BY DEF Threads
  <2>1. CASE s # r
    BY <1>1, <1>4, <2>1, OtherThread, SMTT(60) DEF IInv, Typed
  <2>2. CASE s = r
    BY <1>1, <2>2 DEF IInv, Threads, ThreadOf
  <2> QED
    BY <2>1, <2>2
<1>13. Reading'
  BY <1>1, <1>4 DEF IInv, Reading
<1> QED
  BY <1>7, <1>9, <1>10, <1>11, <1>12, <1>13 DEF IInv

-------------------------------------------------------------------------------
(* What the steps of the worker have in common. *)

LEMMA WorkerStep ==
    ASSUME IInv, UNCHANGED << latest, touched, writer, at, op >>,
           notifier' \in [Notifiers -> Record],
           skip' \in Nat, advancer' \in Nat, helper' \in Nat, worker' \in Work,
           \A n \in Notifiers :
              /\ notifier'[n].alive = notifier[n].alive
              /\ notifier'[n].toDeliver = notifier[n].toDeliver
              /\ notifier'[n].list # "none" => notifier[n].list # "none"
              /\ notifier[n].alive /\ notifier[n].list \in {"new", "main"} =>
                    notifier'[n].list \in {"new", "main"},
           Versions', WorkerInOrder', Working'
    PROVE  IInv'
<1>1. Typed' /\ Reading'
  BY DEF IInv, Typed, Reading
<1>2. ASSUME NEW r \in Realms PROVE ThreadOf(r)'
  <2>1. \A n \in op[r].ns : n \in Notifiers
    BY DEF IInv, Typed, Operation
  <2>2. \A n \in Notifiers : notifier[n].alive /\ n \in Main \union New => n \in Main' \union New'
    BY DEF Main, New
  <2> QED
    BY <2>1, <2>2 DEF IInv, Threads, ThreadOf
<1> QED
  BY <1>1, <1>2 DEF IInv, Threads

(* Notifiers whose Results are gone leave their lists. *)
LEMMA CleanedUpTyped ==
    ASSUME Typed, NEW n \in Notifiers
    PROVE  /\ CleanedUp[n] \in Record
           /\ CleanedUp[n].version = notifier[n].version
           /\ CleanedUp[n].hasRun = notifier[n].hasRun
           /\ CleanedUp[n].alive = notifier[n].alive
           /\ CleanedUp[n].handover = notifier[n].handover
           /\ CleanedUp[n].toDeliver = notifier[n].toDeliver
           /\ CleanedUp[n].list = IF n \in Main \union New /\ ~notifier[n].alive
                                  THEN "gone" ELSE notifier[n].list
           /\ CleanedUp[n].list = "none" <=> notifier[n].list = "none"
<1>1. notifier[n] \in Record
  BY DEF Typed
<1> QED
  BY <1>1 DEF CleanedUp, Dead, Record, Main, New

(* The new notifiers are tidied up with the version that is pinned for them. *)
LEMMA Tidied ==
    ASSUME IInv,
           \A n \in Notifiers : notifier'[n].list = CleanedUp[n].list,
           \A n \in New : notifier'[n].version = notifier[n].version,
           advancer' = AdvancerAfterCleanUp
    PROVE  /\ Main' = Main \ Dead(Main) /\ New' = New \ Dead(New)
           /\ advancer' # 0 <=> New' # {}
           /\ \A n \in New' : advancer' <= notifier'[n].version
           /\ advancer' \in Nat
<1>1. Main' = Main \ Dead(Main) /\ New' = New \ Dead(New)
  BY CleanedUpTyped DEF IInv, Main, New, Dead
<1>2. advancer \in Nat /\ (advancer # 0 <=> New # {}) /\ \A n \in New : advancer <= notifier[n].version
  BY DEF IInv, Typed, WorkerInOrder, HelpersHoldVersions
<1>3. CASE NewDied
  BY <1>1, <1>3 DEF NewDied, AdvancerAfterCleanUp
<1>4. CASE ~NewDied
  <2>1. New' # {} <=> New # {}
    BY <1>1, <1>4 DEF NewDied, Dead
  <2> QED
    BY <1>1, <1>2, <1>4, <2>1 DEF AdvancerAfterCleanUp
<1> QED
  BY <1>1, <1>3, <1>4

LEMMA NothingToRunStep ==
    ASSUME IInv, NothingToRun
    PROVE  IInv'
<1>1. /\ Main \union New \subseteq Dead(Notifiers)
      /\ notifier' = CleanedUp /\ helper' = HelperAfterCleanUp /\ skip' = SkipAfterCleanUp
      /\ advancer' = AdvancerAfterCleanUp
      /\ worker' = [Listening EXCEPT !.stage = "signal"]
      /\ UNCHANGED << latest, touched, writer, at, op >>
  BY DEF NothingToRun, RealmUnchanged
<1>2. /\ Main' = Main \ Dead(Main) /\ New' = New \ Dead(New)
      /\ advancer' # 0 <=> New' # {}
      /\ \A n \in New' : advancer' <= notifier'[n].version
      /\ advancer' \in Nat
  <2>1. \A n \in New : n \in Notifiers
    BY DEF New
  <2> QED
    BY <1>1, <2>1, Tidied, CleanedUpTyped DEF IInv
<1>3. Main' = {} /\ New' = {}
  BY <1>1, <1>2 DEF Dead, Main, New
<1>4. helper' = 0 /\ skip' = 0
  <2>1. Main = {} => helper = 0 /\ skip = 0
    BY DEF IInv, WorkerInOrder, HelpersHoldVersions, SkipIsAhead
  <2>2. Main # {} => MainDied
    BY <1>2, <1>3 DEF MainDied
  <2>3. Main = {} => ~MainDied
    BY DEF MainDied, Dead
  <2> QED
    BY <1>1, <2>1, <2>2, <2>3 DEF HelperAfterCleanUp, SkipAfterCleanUp
<1>5. /\ worker' \in Work /\ worker'.stage = "signal" /\ worker'.to = 0 /\ worker'.skip = 0
  BY <1>1 DEF Listening, Work
<1>6. notifier' \in [Notifiers -> Record]
  BY <1>1, CleanedUpTyped DEF IInv, CleanedUp
<1>7. \A n \in Notifiers : notifier'[n].list \in {"none", "new"} => notifier[n].list \in {"none", "new"}
  BY <1>1, CleanedUpTyped DEF IInv
<1>8. latest \in Nat
  BY DEF IInv, Typed
<1>9. Versions'
  BY <1>1, <1>4, <1>5, <1>7, <1>8, CleanedUpTyped DEF IInv, Versions, VersionOf
<1>10. WorkerInOrder'
  BY <1>2, <1>3, <1>4, <1>5 DEF WorkerInOrder, HelpersHoldVersions, SkipIsAhead, OneVersionForAll
<1>11. Working'
  BY <1>5 DEF Working, AtWork
<1>12. \A n \in Notifiers : notifier[n].alive => notifier'[n].list = notifier[n].list
  BY <1>1, CleanedUpTyped DEF IInv
<1> QED
  BY <1>1, <1>2, <1>4, <1>5, <1>6, <1>9, <1>10, <1>11, <1>12, WorkerStep, CleanedUpTyped DEF IInv

LEMMA SelectNotifiersStep ==
    ASSUME IInv, SelectNotifiers
    PROVE  IInv'
<1> DEFINE old == Main \ Dead(Main)
           new == New \ Dead(New)
<1>1. /\ worker.stage = "listen" /\ old \union new # {}
      /\ helper' = IF old = {} THEN latest ELSE helper
      /\ worker' = [stage |-> IF SkipAfterCleanUp # 0 THEN "skip" ELSE "run",
                    skip |-> SkipAfterCleanUp, to |-> latest, old |-> old, new |-> new]
      /\ notifier' = [n \in Notifiers |->
            IF n \in new THEN [notifier[n] EXCEPT !.list = "main"] ELSE CleanedUp[n]]
      /\ skip' = 0 /\ advancer' = 0
      /\ UNCHANGED << latest, touched, writer, at, op >>
  BY DEF SelectNotifiers, RealmUnchanged
<1>2. /\ old = {n \in Notifiers : notifier[n].list = "main" /\ notifier[n].alive}
      /\ new = {n \in Notifiers : notifier[n].list = "new" /\ notifier[n].alive}
  BY DEF Main, New, Dead
<1>3. old \in SUBSET Notifiers /\ new \in SUBSET Notifiers /\ old \intersect new = {}
  BY <1>2
<1>4. latest \in Nat \ {0} /\ skip \in Nat /\ helper \in Nat /\ helper <= latest /\ skip <= latest
  BY DEF IInv, Typed, Versions
<1>5. SkipAfterCleanUp \in {0, skip}
  BY DEF SkipAfterCleanUp
<1>6. SkipAfterCleanUp # 0 => old # {} /\ helper < skip
  <2>1. skip # 0 => Main # {} /\ helper < skip
    BY DEF IInv, WorkerInOrder, SkipIsAhead
  <2>2. Main # {} /\ ~MainDied => old # {}
    BY DEF MainDied
  <2> QED
    BY <2>1, <2>2 DEF SkipAfterCleanUp
<1>7. old # {} => helper # 0
  BY DEF IInv, WorkerInOrder, HelpersHoldVersions
<1> HIDE DEF old, new
<1>8. /\ worker'.stage \in {"skip", "run"} /\ worker'.skip = SkipAfterCleanUp
      /\ worker'.stage = "skip" => SkipAfterCleanUp # 0
      /\ worker'.to = latest /\ worker'.old = old /\ worker'.new = new
      /\ worker' \in Work
  BY <1>1, <1>3, <1>4, <1>5 DEF Work
<1>9. \A n \in Notifiers :
         /\ notifier'[n] \in Record
         /\ notifier'[n].version = notifier[n].version
         /\ notifier'[n].hasRun = notifier[n].hasRun
         /\ notifier'[n].alive = notifier[n].alive
         /\ notifier'[n].handover = notifier[n].handover
         /\ notifier'[n].toDeliver = notifier[n].toDeliver
         /\ notifier'[n].list = IF n \in new THEN "main" ELSE CleanedUp[n].list
  <2> SUFFICES ASSUME NEW n \in Notifiers
               PROVE  /\ notifier'[n] \in Record
                      /\ notifier'[n].version = notifier[n].version
                      /\ notifier'[n].hasRun = notifier[n].hasRun
                      /\ notifier'[n].alive = notifier[n].alive
                      /\ notifier'[n].handover = notifier[n].handover
                      /\ notifier'[n].toDeliver = notifier[n].toDeliver
                      /\ notifier'[n].list = IF n \in new THEN "main" ELSE CleanedUp[n].list
    OBVIOUS
  <2>1. CASE n \in new
    BY <1>1, <2>1, SMTT(60) DEF IInv, Typed, Record
  <2>2. CASE n \notin new
    BY <1>1, <2>2, CleanedUpTyped DEF IInv
  <2> QED
    BY <2>1, <2>2
<1>10. \A n \in Notifiers : notifier'[n].list =
          IF n \in old \union new THEN "main"
          ELSE IF notifier[n].list \in {"main", "new"} THEN "gone" ELSE notifier[n].list
  BY <1>2, <1>9, CleanedUpTyped DEF IInv, Main, New
<1>11. \A n \in Notifiers : notifier[n].list \in {"none", "new", "main", "gone"}
  BY DEF IInv, Typed, Record
<1>12. Main' = old \union new /\ New' = {}
  BY <1>3, <1>10, <1>11 DEF Main, New
<1>13. notifier' \in [Notifiers -> Record]
  BY <1>1, <1>9
<1>14. Versions'
  <2>1. \A n \in Notifiers : notifier'[n].list \in {"none", "new"} => notifier[n].list = "none"
    BY <1>10, <1>11
  <2>2. helper' <= latest
    BY <1>1, <1>4
  <2>3. \A n \in Notifiers : VersionOf(n)'
    <3> SUFFICES ASSUME NEW n \in Notifiers PROVE VersionOf(n)'
      OBVIOUS
    <3>1. VersionOf(n)
      BY DEF IInv, Versions
    <3>2. /\ notifier'[n].version = notifier[n].version
          /\ notifier'[n].hasRun = notifier[n].hasRun
          /\ notifier'[n].handover = notifier[n].handover
      BY <1>9
    <3> QED
      BY <1>1, <2>1, <3>1, <3>2 DEF VersionOf
  <2>4. skip' <= latest /\ worker'.to <= latest /\ worker'.skip <= latest
    BY <1>1, <1>4, <1>5, <1>8
  <2> QED
    BY <1>1, <2>2, <2>3, <2>4 DEF Versions
<1>15. \A n \in new : ~notifier'[n].hasRun
  BY <1>2, <1>9 DEF IInv, Versions, VersionOf
<1>16. WorkerInOrder'
  <2>1. HelpersHoldVersions'
    BY <1>1, <1>4, <1>7, <1>12 DEF HelpersHoldVersions
  <2>2. SkipIsAhead'
    <3>1. worker'.stage = "skip" => worker'.old # {} /\ helper' < worker'.skip /\ worker'.skip <= worker'.to
      BY <1>1, <1>4, <1>5, <1>6, <1>8
    <3>2. helper' <= worker'.to
      BY <1>1, <1>4, <1>8
    <3> QED
      BY <1>1, <3>1, <3>2 DEF SkipIsAhead
  <2>3. OneVersionForAll'
    <3>1. \A n \in Main' : notifier'[n].hasRun => n \in Main /\ n \in Notifiers
      BY <1>2, <1>12, <1>15 DEF Main
    <3> QED
      BY <1>9, <3>1 DEF IInv, WorkerInOrder, OneVersionForAll
  <2> QED
    BY <2>1, <2>2, <2>3 DEF WorkerInOrder
<1>17. Working'
  BY <1>1, <1>3, <1>4, <1>8, <1>12, <1>15 DEF Working, AtWork
<1>18. \A n \in Notifiers :
          /\ notifier'[n].list # "none" => notifier[n].list # "none"
          /\ notifier[n].alive /\ notifier[n].list \in {"new", "main"} =>
                notifier'[n].list \in {"new", "main"}
  BY <1>2, <1>10
<1> QED
  BY <1>1, <1>4, <1>8, <1>9, <1>13, <1>14, <1>16, <1>17, <1>18, WorkerStep, ZenonT(60)

(* Queries that are run, with the worker at a later version. *)
LEMMA RunAllStep ==
    ASSUME IInv, NEW ns \in SUBSET Notifiers, NEW v \in Nat, v # 0, v <= latest,
           RunAll(ns, v), helper' = v, Main # {},
           UNCHANGED << latest, touched, writer, at, op, skip, advancer >>,
           worker' \in Work, worker'.stage \in {"skipped", "handover"},
           worker'.to = worker.to, worker'.skip = worker.skip, worker'.old = worker.old,
           worker'.new = worker.new, AtWork,
           worker'.stage = "skipped" => v <= worker.to,
           worker'.stage = "handover" => v = worker.to
    PROVE  IInv'
<1>1. \A n \in Notifiers :
         /\ notifier'[n] \in Record
         /\ notifier'[n].list = notifier[n].list
         /\ notifier'[n].version = notifier[n].version
         /\ notifier'[n].hasRun = notifier[n].hasRun
         /\ notifier'[n].alive = notifier[n].alive
         /\ notifier'[n].handover = notifier[n].handover
         /\ notifier'[n].toDeliver = notifier[n].toDeliver
  <2>1. \A n \in Notifiers : notifier'[n] = IF n \in ns THEN Run(n, v) ELSE notifier[n]
    BY DEF RunAll
  <2> QED
    BY <2>1, RunTyped DEF IInv, Typed
<1>2. notifier' \in [Notifiers -> Record]
  BY <1>1 DEF RunAll
<1>3. Main' = Main /\ New' = New
  BY <1>1 DEF Main, New
<1>4. Versions'
  BY <1>1 DEF IInv, Versions, VersionOf
<1>5. \A n \in Main \union New : n \in Notifiers
  BY DEF Main, New
<1>6. worker.to \in Nat /\ skip \in Nat /\ (skip # 0 => worker.to < skip)
  BY DEF IInv, Typed, Work, Working
<1>7. WorkerInOrder'
  <2>1. HelpersHoldVersions'
    BY <1>1, <1>3, <1>5 DEF IInv, WorkerInOrder, HelpersHoldVersions
  <2>2. SkipIsAhead'
    BY <1>3, <1>6 DEF IInv, WorkerInOrder, SkipIsAhead
  <2>3. OneVersionForAll'
    BY <1>1, <1>3, <1>5 DEF IInv, WorkerInOrder, OneVersionForAll
  <2> QED
    BY <2>1, <2>2, <2>3 DEF WorkerInOrder
<1>8. Working'
  <2>1. \A n \in worker.new : n \in Notifiers
    BY DEF IInv, Typed, Work
  <2> QED
    BY <1>1, <1>3, <2>1 DEF IInv, Working, AtWork
<1> QED
  BY <1>1, <1>2, <1>4, <1>7, <1>8, WorkerStep DEF IInv, Typed

LEMMA RunStep ==
    ASSUME IInv, RunToSkip \/ RunNotifiers
    PROVE  IInv'
<1>1. worker \in Work /\ worker.to \in Nat /\ worker.skip \in Nat /\ worker.to <= latest
      /\ worker.skip <= latest /\ helper \in Nat
      /\ worker.old \in SUBSET Notifiers /\ worker.new \in SUBSET Notifiers
  BY DEF IInv, Typed, Work, Versions
<1>2. CASE RunToSkip
  <2>1. /\ worker.stage = "skip" /\ helper' = worker.skip /\ RunAll(worker.old, worker.skip)
        /\ worker' = [worker EXCEPT !.stage = "skipped"]
        /\ UNCHANGED << latest, touched, writer, at, op, skip, advancer >>
    BY <1>2 DEF RunToSkip, RealmUnchanged
  <2>2. /\ worker' \in Work /\ worker'.stage = "skipped" /\ worker'.to = worker.to
        /\ worker'.skip = worker.skip /\ worker'.old = worker.old /\ worker'.new = worker.new
    BY <1>1, <2>1 DEF Work
  <2>3. AtWork /\ Main # {}
    BY <2>1 DEF IInv, Working, AtWork
  <2>4. worker.skip # 0 /\ worker.skip <= worker.to
    BY <1>1, <2>1 DEF IInv, WorkerInOrder, SkipIsAhead
  <2> QED
    BY <1>1, <2>1, <2>2, <2>3, <2>4, RunAllStep
<1>3. CASE RunNotifiers
  <2>1. /\ worker.stage = "run" /\ helper' = worker.to
        /\ RunAll(worker.old \union worker.new, worker.to)
        /\ worker' = [worker EXCEPT !.stage = "handover"]
        /\ UNCHANGED << latest, touched, writer, at, op, skip, advancer >>
    BY <1>3 DEF RunNotifiers, RealmUnchanged
  <2>2. /\ worker' \in Work /\ worker'.stage = "handover" /\ worker'.to = worker.to
        /\ worker'.skip = worker.skip /\ worker'.old = worker.old /\ worker'.new = worker.new
    BY <1>1, <2>1 DEF Work
  <2>3. AtWork /\ Main # {} /\ worker.to # 0
    BY <2>1 DEF IInv, Working, AtWork
  <2>4. worker.old \union worker.new \in SUBSET Notifiers
    BY <1>1
  <2> QED
    BY <1>1, <2>1, <2>2, <2>3, <2>4, RunAllStep
<1> QED
  BY <1>2, <1>3

(* All that the worker has copied is handed over at the worker's version. *)
LEMMA PreparedTyped ==
    ASSUME IInv, NEW ns \in SUBSET Notifiers, NEW n \in Notifiers
    PROVE  LET rec == Prepared(ns, helper)[n]
           IN /\ rec \in Record
              /\ rec.list = notifier[n].list /\ rec.alive = notifier[n].alive
              /\ rec.toDeliver = notifier[n].toDeliver
              /\ rec.version = IF n \in ns THEN helper ELSE notifier[n].version
              /\ rec.hasRun <=> n \in ns \/ notifier[n].hasRun
              /\ ~rec.hasRun => rec.handover = NoView
              /\ rec.handover # NoView => rec.handover.version = rec.version
              /\ rec.version <= latest
<1>1. notifier[n] \in Record /\ helper \in Nat /\ helper <= latest
  BY DEF IInv, Typed, Versions
<1>2. CASE n \in ns
  <2>1. Prepared(ns, helper)[n] = PrepareHandover(n, helper)
    BY <1>2 DEF Prepared
  <2> QED
    BY <1>1, <1>2, <2>1, PrepareTyped DEF IInv
<1>3. CASE n \notin ns
  <2>1. Prepared(ns, helper)[n] = notifier[n]
    BY <1>3 DEF Prepared
  <2> QED
    BY <1>1, <1>3, <2>1 DEF IInv, Versions, VersionOf
<1> QED
  BY <1>2, <1>3

LEMMA HandOverSkippedStep ==
    ASSUME IInv, HandOverSkipped
    PROVE  IInv'
<1>1. /\ worker.stage = "skipped" /\ notifier' = Prepared(worker.old, helper)
      /\ worker' = [worker EXCEPT !.stage = "run"]
      /\ UNCHANGED << latest, touched, writer, at, op, skip, advancer, helper >>
  BY DEF HandOverSkipped, RealmUnchanged
<1>2. worker \in Work /\ worker.old \in SUBSET Notifiers /\ worker.new \in SUBSET Notifiers
  BY DEF IInv, Typed, Work
<1>3. /\ worker' \in Work /\ worker'.stage = "run" /\ worker'.to = worker.to
      /\ worker'.skip = worker.skip /\ worker'.old = worker.old /\ worker'.new = worker.new
  BY <1>1, <1>2 DEF Work
<1>4. /\ Main # {} /\ Main = worker.old \union worker.new /\ worker.to # 0
      /\ \A n \in worker.new : ~notifier[n].hasRun
      /\ skip # 0 => worker.to < skip
  BY <1>1 DEF IInv, Working, AtWork
<1>5. \A n \in Notifiers :
         /\ notifier'[n] \in Record /\ notifier'[n].list = notifier[n].list
         /\ notifier'[n].alive = notifier[n].alive
         /\ notifier'[n].toDeliver = notifier[n].toDeliver
         /\ notifier'[n].version = IF n \in worker.old THEN helper ELSE notifier[n].version
         /\ notifier'[n].hasRun <=> n \in worker.old \/ notifier[n].hasRun
         /\ ~notifier'[n].hasRun => notifier'[n].handover = NoView
         /\ notifier'[n].handover # NoView => notifier'[n].handover.version = notifier'[n].version
         /\ notifier'[n].version <= latest
  BY <1>1, <1>2, PreparedTyped
<1>6. notifier' \in [Notifiers -> Record]
  BY <1>1, <1>5 DEF Prepared
<1>7. Main' = Main /\ New' = New
  BY <1>5 DEF Main, New
<1>8. \A n \in Main \union New : n \in Notifiers
  BY DEF Main, New
<1>9. \A n \in New : n \notin Main
  BY DEF Main, New
<1>10. worker.old \intersect worker.new = {}
  BY <1>1 DEF IInv, Working, AtWork
<1>11. Versions'
  <2>1. \A n \in Notifiers : notifier'[n].list \in {"none", "new"} => ~notifier'[n].hasRun
    <3>1. \A n \in worker.old : notifier[n].list = "main"
      BY <1>4 DEF Main
    <3> QED
      BY <1>5, <3>1 DEF IInv, Versions, VersionOf
  <2> QED
    BY <1>1, <1>3, <1>5, <2>1 DEF IInv, Versions, VersionOf
<1>12. WorkerInOrder'
  <2>1. HelpersHoldVersions'
    BY <1>1, <1>4, <1>5, <1>7, <1>8, <1>9 DEF IInv, WorkerInOrder, HelpersHoldVersions
  <2>2. SkipIsAhead'
    BY <1>1, <1>3, <1>7 DEF IInv, WorkerInOrder, SkipIsAhead
  <2>3. OneVersionForAll'
    <3>1. \A n \in Main' : notifier'[n].hasRun => notifier'[n].version = helper
      BY <1>4, <1>5, <1>7, <1>8
    <3> QED
      BY <3>1 DEF OneVersionForAll
  <2> QED
    BY <2>1, <2>2, <2>3 DEF WorkerInOrder
<1>13. Working'
  <2>1. \A n \in worker.new : ~notifier'[n].hasRun
    BY <1>2, <1>4, <1>5, <1>10
  <2> QED
    BY <1>1, <1>3, <1>4, <1>7, <1>10, <2>1 DEF Working, AtWork
<1> QED
  BY <1>1, <1>3, <1>5, <1>6, <1>11, <1>12, <1>13, WorkerStep DEF IInv, Typed

LEMMA HandOverStep ==
    ASSUME IInv, HandOver
    PROVE  IInv'
<1> DEFINE ready == Prepared(worker.old \union worker.new, helper)
<1>1. /\ worker.stage = "handover"
      /\ notifier' = [n \in Notifiers |-> [ready[n] EXCEPT !.list = CleanedUp[n].list]]
      /\ helper' = HelperAfterCleanUp /\ skip' = SkipAfterCleanUp
      /\ advancer' = AdvancerAfterCleanUp
      /\ worker' = [Listening EXCEPT !.stage = "signal"]
      /\ UNCHANGED << latest, touched, writer, at, op >>
  BY DEF HandOver, RealmUnchanged
<1>2. /\ Main # {} /\ Main = worker.old \union worker.new /\ helper = worker.to /\ worker.to # 0
  BY <1>1 DEF IInv, Working, AtWork
<1>3. Main \in SUBSET Notifiers /\ New \in SUBSET Notifiers /\ Main \intersect New = {}
  BY DEF Main, New
<1>4. \A n \in Notifiers :
         /\ ready[n] \in Record
         /\ ready[n].alive = notifier[n].alive
         /\ ready[n].toDeliver = notifier[n].toDeliver
         /\ ready[n].version = IF n \in Main THEN helper ELSE notifier[n].version
         /\ ready[n].hasRun <=> n \in Main \/ notifier[n].hasRun
         /\ ~ready[n].hasRun => ready[n].handover = NoView
         /\ ready[n].handover # NoView => ready[n].handover.version = ready[n].version
         /\ ready[n].version <= latest
  BY <1>2, <1>3, PreparedTyped
<1> HIDE DEF ready
<1>5. \A n \in Notifiers :
         /\ notifier'[n] \in Record
         /\ notifier'[n].list = CleanedUp[n].list
         /\ notifier'[n].alive = notifier[n].alive
         /\ notifier'[n].toDeliver = notifier[n].toDeliver
         /\ notifier'[n].version = IF n \in Main THEN helper ELSE notifier[n].version
         /\ notifier'[n].hasRun <=> n \in Main \/ notifier[n].hasRun
         /\ ~notifier'[n].hasRun => notifier'[n].handover = NoView
         /\ notifier'[n].handover # NoView => notifier'[n].handover.version = notifier'[n].version
         /\ notifier'[n].version <= latest
  <2>1. \A n \in Notifiers :
           /\ notifier'[n] = [ready[n] EXCEPT !.list = CleanedUp[n].list]
           /\ CleanedUp[n].list \in {"none", "new", "main", "gone"}
    <3>1. \A n \in Notifiers : CleanedUp[n] \in Record
      BY CleanedUpTyped DEF IInv
    <3> QED
      BY <1>1, <3>1 DEF Record
  <2>2. \A n \in Notifiers :
           /\ notifier'[n] \in Record
           /\ notifier'[n].list = CleanedUp[n].list
           /\ notifier'[n].alive = ready[n].alive
           /\ notifier'[n].version = ready[n].version
           /\ notifier'[n].hasRun = ready[n].hasRun
           /\ notifier'[n].toDeliver = ready[n].toDeliver
           /\ notifier'[n].handover = ready[n].handover
    <3> SUFFICES ASSUME NEW n \in Notifiers
                 PROVE  /\ notifier'[n] \in Record
                        /\ notifier'[n].list = CleanedUp[n].list
                        /\ notifier'[n].alive = ready[n].alive
                        /\ notifier'[n].version = ready[n].version
                        /\ notifier'[n].hasRun = ready[n].hasRun
                        /\ notifier'[n].toDeliver = ready[n].toDeliver
                        /\ notifier'[n].handover = ready[n].handover
      OBVIOUS
    <3> DEFINE rec == ready[n]
               list == CleanedUp[n].list
    <3>1. notifier'[n] = [rec EXCEPT !.list = list] /\ rec \in Record
          /\ list \in {"none", "new", "main", "gone"}
      BY <1>4, <2>1
    <3> HIDE DEF rec, list
    <3>2. /\ notifier'[n] \in Record /\ notifier'[n].list = list
          /\ notifier'[n].alive = rec.alive /\ notifier'[n].version = rec.version
          /\ notifier'[n].hasRun = rec.hasRun /\ notifier'[n].toDeliver = rec.toDeliver
          /\ notifier'[n].handover = rec.handover
      BY <3>1 DEF Record
    <3> QED
      BY <3>2 DEF rec, list
  <2> QED
    BY <1>4, <2>2
<1>6. notifier' \in [Notifiers -> Record]
  BY <1>1, <1>5
<1>7. /\ Main' = Main \ Dead(Main) /\ New' = New \ Dead(New)
      /\ advancer' # 0 <=> New' # {}
      /\ \A n \in New' : advancer' <= notifier'[n].version
      /\ advancer' \in Nat
  <2>1. \A n \in New : notifier'[n].version = notifier[n].version
    BY <1>3, <1>5
  <2> QED
    BY <1>1, <1>5, <2>1, Tidied
<1>8. /\ worker' \in Work /\ worker'.stage = "signal" /\ worker'.to = 0 /\ worker'.skip = 0
  BY <1>1 DEF Listening, Work
<1>9. latest \in Nat /\ helper \in Nat /\ skip \in Nat /\ helper <= latest /\ skip <= latest
      /\ (skip # 0 => helper < skip)
  BY DEF IInv, Typed, Versions, WorkerInOrder, SkipIsAhead
<1>10. /\ helper' \in {0, helper} /\ skip' \in {0, skip}
       /\ helper' # 0 <=> Main' # {}
       /\ skip' # 0 => Main' # {} /\ skip' = skip /\ helper' = helper
  <2>1. MainDied <=> Main' = {}
    BY <1>2, <1>7 DEF MainDied, Dead
  <2> QED
    BY <1>1, <1>2, <2>1 DEF HelperAfterCleanUp, SkipAfterCleanUp
<1>11. Versions'
  <2>1. \A n \in Notifiers : notifier'[n].list \in {"none", "new"} => ~notifier'[n].hasRun
    <3>1. \A n \in Notifiers : notifier'[n].list \in {"none", "new"} =>
             notifier[n].list \in {"none", "new"} /\ n \notin Main
      BY <1>5, CleanedUpTyped DEF IInv, Main
    <3> QED
      BY <1>5, <3>1 DEF IInv, Versions, VersionOf
  <2> QED
    BY <1>1, <1>5, <1>8, <1>9, <1>10, <2>1 DEF Versions, VersionOf
<1>12. WorkerInOrder'
  <2>1. HelpersHoldVersions'
    BY <1>7, <1>10 DEF HelpersHoldVersions
  <2>2. SkipIsAhead'
    BY <1>1, <1>8, <1>9, <1>10 DEF SkipIsAhead
  <2>3. OneVersionForAll'
    <3>1. \A n \in Main' : notifier'[n].version = helper
      BY <1>3, <1>5, <1>7
    <3> QED
      BY <3>1 DEF OneVersionForAll
  <2> QED
    BY <2>1, <2>2, <2>3 DEF WorkerInOrder
<1>13. Working'
  BY <1>8 DEF Working, AtWork
<1>14. \A n \in Notifiers :
          /\ notifier'[n].list # "none" => notifier[n].list # "none"
          /\ notifier[n].alive => notifier'[n].list = notifier[n].list
  BY <1>5, CleanedUpTyped DEF IInv
<1> QED
  BY <1>1, <1>5, <1>6, <1>7, <1>8, <1>9, <1>10, <1>11, <1>12, <1>13, <1>14, WorkerStep

LEMMA SignalRealmsStep ==
    ASSUME IInv, SignalRealms
    PROVE  IInv'
<1>1. /\ worker.stage = "signal" /\ worker' = Listening
      /\ UNCHANGED << latest, touched, writer, at, op, notifier, skip, advancer, helper >>
  BY DEF SignalRealms, RealmUnchanged
<1>2. worker' \in Work /\ worker'.stage = "listen" /\ worker'.to = 0 /\ worker'.skip = 0
  BY <1>1 DEF Listening, Work
<1>3. Main' = Main /\ New' = New
  BY <1>1 DEF Main, New
<1>4. Versions'
  BY <1>1, <1>2 DEF IInv, Typed, Versions, VersionOf
<1>5. WorkerInOrder'
  BY <1>1, <1>2, <1>3
     DEF IInv, WorkerInOrder, HelpersHoldVersions, SkipIsAhead, OneVersionForAll
<1>6. Working'
  BY <1>2 DEF Working, AtWork
<1> QED
  BY <1>1, <1>2, <1>4, <1>5, <1>6, WorkerStep DEF IInv, Typed

LEMMA Invariance == Spec => []IInv
<1>1. IInv /\ [Next]_vars => IInv'
  <2> SUFFICES ASSUME IInv, [Next]_vars PROVE IInv'
    OBVIOUS
  <2>1. CASE Worker
    BY <2>1, NothingToRunStep, SelectNotifiersStep, RunStep, HandOverSkippedStep, HandOverStep,
       SignalRealmsStep DEF Worker
  <2>2. ASSUME NEW r \in Realms,
               \/ ReadGroup(r) \/ BeginTransaction(r) \/ EndTransaction(r)
               \/ Refresh(r) \/ Notify(r) \/ Proceed(r)
        PROVE  IInv'
    BY <2>2, ReadGroupStep, BeginTransactionStep, CommitWriteStep, EndStep, RefreshStep,
       NotifyUnchangedStep, NotifyChangedStep, PromotedStep, RefreshedStep, DeliverStep
       DEF EndTransaction, Notify, Proceed
  <2>3. ASSUME NEW n \in Notifiers, Watch(n) \/ Use(n) \/ Drop(n) PROVE IInv'
    BY <2>3, WatchStep, UseStep
  <2>4. CASE UNCHANGED vars
    <3>1. UNCHANGED << latest, touched, writer, at, op, notifier, skip, advancer, helper, worker >>
      BY <2>4 DEF vars
    <3>2. Typed' /\ Reading' /\ Main' = Main /\ New' = New
      BY <3>1 DEF IInv, Typed, Reading, Main, New
    <3>3. Versions' /\ Working'
      BY <3>1, <3>2 DEF IInv, Versions, VersionOf, Working, AtWork
    <3>4. WorkerInOrder'
      BY <3>1, <3>2
         DEF IInv, WorkerInOrder, HelpersHoldVersions, SkipIsAhead, OneVersionForAll
    <3>5. Threads'
      BY <3>1, <3>2 DEF IInv, Threads, ThreadOf
    <3> QED
      BY <3>2, <3>3, <3>4, <3>5 DEF IInv
  <2> QED
    BY <2>1, <2>2, <2>3, <2>4 DEF Next
<1> QED
  BY InitIInv, <1>1, PTL DEF Spec

-------------------------------------------------------------------------------
(* The worker's transactions last as long as somebody relies on them, it is   *)
(* never sent back, and what it hands over is of one version                  *)
(* (RealmCoordinator::run_async_notifiers and the assertions around it).      *)
THEOREM WorkerKeepsOrder == Spec => []WorkerInOrder
<1>1. IInv => WorkerInOrder
  BY DEF IInv
<1> QED
  BY <1>1, Invariance, PTL

(* Realms go forward only, and get what was made for where they go            *)
(* (NotifierPackage, Realm::refresh and Realm::notify).                       *)
THEOREM HandoversFit == Spec => []HandedOverAtItsVersion
<1>1. IInv => HandedOverAtItsVersion
  BY DEF IInv, Threads, ThreadOf, HandedOverAtItsVersion
<1> QED
  BY <1>1, Invariance, PTL

-------------------------------------------------------------------------------
(* The refinement. *)

(* The Realm in a write transaction, as Transactions has it. *)
InWrite == IF \E r \in Realms : op[r].stage = "write" THEN writer ELSE NoRealm

LEMMA InWriteIs ==
    ASSUME IInv
    PROVE  /\ \A r \in Realms : op[r].stage = "write" <=> InWrite = r
           /\ (\A r \in Realms : op[r].stage # "write") => InWrite = NoRealm
           /\ \A r \in Realms : op[r].stage \in {"promote", "write"} <=> writer = r
BY CoordinatorAssumption DEF IInv, Threads, ThreadOf, InWrite

LEMMA InWriteKept ==
    ASSUME NEW r \in Realms, NEW o, op \in [Realms -> Operation], op' = [op EXCEPT ![r] = o],
           op[r].stage # "write", o.stage # "write",
           \A s \in Realms : op[s].stage = "write" => writer' = writer
    PROVE  InWrite' = InWrite
<1>1. \A s \in Realms : op'[s].stage = "write" <=> op[s].stage = "write"
  OBVIOUS
<1> QED
  BY <1>1 DEF InWrite

LEMMA Simulated ==
    ASSUME IInv, IInv', NEW r \in Realms,
           \/ ReadGroup(r) \/ BeginTransaction(r) \/ EndTransaction(r)
           \/ Refresh(r) \/ Notify(r) \/ Proceed(r)
    PROVE  \/ Abstract!Forward(r) \/ Abstract!Begin(r) \/ Abstract!Commit(r) \/ Abstract!Cancel(r)
           \/ UNCHANGED << latest, InWrite, at >>
<1>1. /\ latest \in Nat \ {0} /\ at \in [Realms -> Nat] /\ op \in [Realms -> Operation]
      /\ at[r] <= latest
  BY DEF IInv, Typed, Threads, ThreadOf
<1>2. CASE ReadGroup(r)
  <2>1. /\ op[r].stage = "idle" /\ at[r] = 0 /\ at' = [at EXCEPT ![r] = latest]
        /\ UNCHANGED << latest, writer, op >>
    BY <1>2 DEF ReadGroup, Idles
  <2>2. InWrite' = InWrite /\ InWrite # r
    BY <2>1, InWriteIs DEF InWrite
  <2>3. latest \in 1 .. latest /\ latest > at[r]
    BY <1>1, <2>1
  <2> QED
    BY <2>1, <2>2, <2>3 DEF Abstract!Forward, InWrite
<1>3. CASE BeginTransaction(r)
  <2> DEFINE o == Doing("promote", latest, NotifiersFor(r))
  <2>1. /\ op[r].stage = "idle" /\ writer = NoRealm /\ op' = [op EXCEPT ![r] = o]
        /\ UNCHANGED << latest, at >>
    BY <1>3 DEF BeginTransaction, Idles
  <2>2. \A s \in Realms : op[s].stage # "write"
    BY <2>1, InWriteIs, CoordinatorAssumption
  <2>3. o.stage = "promote"
    BY DEF Doing
  <2> HIDE DEF o
  <2>4. InWrite' = InWrite
    BY <1>1, <2>1, <2>2, <2>3, InWriteKept
  <2> QED
    BY <2>1, <2>4
<1>4. CASE Promoted(r)
  <2>1. /\ op[r].stage = "promote" /\ at' = [at EXCEPT ![r] = latest]
        /\ op' = [op EXCEPT ![r] = Doing("write", 0, {})] /\ UNCHANGED << latest, writer >>
    BY <1>4 DEF Promoted
  <2>2. InWrite = NoRealm
    BY <2>1, InWriteIs
  <2>3. op'[r].stage = "write"
    BY <1>1, <2>1 DEF Doing
  <2>4. InWrite' = r
    <3>1. writer = r
      BY <2>1, InWriteIs
    <3> QED
      BY <2>1, <2>3, <3>1 DEF InWrite
  <2> QED
    BY <2>1, <2>2, <2>4 DEF Abstract!Begin, InWrite
<1>5. CASE CommitWrite(r) \/ CancelTransaction(r)
  <2>1. /\ op[r].stage = "write" /\ writer' = NoRealm
        /\ \/ latest' = latest + 1 /\ at' = [at EXCEPT ![r] = latest + 1]
           \/ UNCHANGED << latest, at >>
    BY <1>5 DEF CommitWrite, CancelTransaction
  <2>2. InWrite = r
    BY <2>1, InWriteIs
  <2>3. InWrite' = NoRealm
    BY <2>1 DEF InWrite
  <2> QED
    BY <2>1, <2>2, <2>3 DEF Abstract!Commit, Abstract!Cancel, InWrite
<1>6. CASE NotifyInWrite(r)
  BY <1>6 DEF NotifyInWrite, InWrite
<1>7. CASE NotifyOthers(r) \/ Refresh(r) \/ Refreshed(r) \/ NotifyUnchanged(r) \/ NotifyChanged(r)
  <2>1. /\ op[r].stage # "write" /\ UNCHANGED << latest, at, writer >>
    BY <1>7 DEF NotifyOthers, Refresh, Refreshed, NotifyUnchanged, NotifyChanged, Idles
  <2>2. \E o : op' = [op EXCEPT ![r] = o] /\ o.stage # "write"
    <3>1. Idle.stage # "write"
          /\ \A stage \in {"refresh", "deliver"} : \A to, ns : Doing(stage, to, ns).stage # "write"
      BY DEF Idle, Doing
    <3>2. CASE NotifyOthers(r)
      BY <3>1, <3>2 DEF NotifyOthers
    <3>3. CASE Refresh(r)
      BY <3>1, <3>3 DEF Refresh
    <3>4. CASE Refreshed(r)
      BY <3>1, <3>4, ZenonT(60) DEF Refreshed
    <3>5. CASE NotifyUnchanged(r)
      BY <3>1, <3>5 DEF NotifyUnchanged
    <3>6. CASE NotifyChanged(r)
      BY <3>1, <3>6 DEF NotifyChanged
    <3> QED
      BY <1>7, <3>2, <3>3, <3>4, <3>5, <3>6
  <2>3. InWrite' = InWrite
    BY <1>1, <2>1, <2>2, InWriteKept
  <2> QED
    BY <2>1, <2>3
<1>8. CASE Deliver(r)
  <2> DEFINE v == IF op[r].to = 0 THEN latest ELSE op[r].to
  <2>1. /\ op[r].stage = "deliver" /\ at' = [at EXCEPT ![r] = v]
        /\ op' = [op EXCEPT ![r] = Idle] /\ UNCHANGED << latest, writer >>
    BY <1>8 DEF Deliver
  <2>2. v \in 1 .. latest /\ at[r] <= v
    BY <1>1, <2>1 DEF IInv, Typed, Operation, Threads, ThreadOf
  <2> HIDE DEF v
  <2>3. Idle.stage # "write"
    BY DEF Idle, Doing
  <2>4. InWrite' = InWrite
    BY <1>1, <2>1, <2>3, InWriteKept
  <2>5. InWrite # r
    BY <2>1, InWriteIs
  <2>6. CASE v = at[r]
    BY <1>1, <2>1, <2>4, <2>6
  <2>7. CASE v > at[r]
    BY <2>1, <2>2, <2>4, <2>5, <2>7 DEF Abstract!Forward, InWrite
  <2> QED
    BY <1>1, <2>2, <2>6, <2>7
<1> QED
  BY <1>2, <1>3, <1>4, <1>5, <1>6, <1>7, <1>8 DEF EndTransaction, Notify, Proceed

(* Whatever the worker, the notifications and the refreshes do, the threads   *)
(* have their transactions one after the other, each on top of the latest     *)
(* (Realm::begin_transaction, Realm::notify, RealmCoordinator::commit_write). *)
THEOREM TransactionsKept == Spec => KeepsTransactions
<1>1. Init => Abstract!TInit
  <2> SUFFICES ASSUME Init PROVE Abstract!TInit
    OBVIOUS
  <2>1. \A r \in Realms : op[r].stage # "write"
    BY DEF Init, Idle, Doing
  <2> QED
    BY <2>1 DEF Init, Abstract!TInit
<1>2. IInv /\ IInv' /\ [Next]_vars => [Abstract!TNext]_(Abstract!tvars)
  <2> SUFFICES ASSUME IInv, IInv', [Next]_vars PROVE [Abstract!TNext]_(Abstract!tvars)
    OBVIOUS
  <2>1. ASSUME NEW r \in Realms,
               \/ ReadGroup(r) \/ BeginTransaction(r) \/ EndTransaction(r)
               \/ Refresh(r) \/ Notify(r) \/ Proceed(r)
        PROVE  [Abstract!TNext]_(Abstract!tvars)
    BY <2>1, Simulated DEF Abstract!TNext, Abstract!tvars, InWrite
  <2>2. CASE \/ Worker \/ UNCHANGED vars
             \/ \E n \in Notifiers : Watch(n) \/ Use(n) \/ Drop(n)
    <3>1. UNCHANGED << latest, at, op, writer >>
      BY <2>2 DEF vars, Worker, NothingToRun, SelectNotifiers, RunToSkip, HandOverSkipped,
         RunNotifiers, HandOver, SignalRealms, RealmUnchanged, Watch, Use, Drop
    <3> QED
      BY <3>1, SMTT(60) DEF Abstract!tvars
  <2> QED
    BY <2>1, <2>2 DEF Next
<1> QED
  BY <1>1, <1>2, Invariance, PTL DEF Spec, KeepsTransactions, Abstract!TSpec

-------------------------------------------------------------------------------
(***************************************************************************)
(* What the blocks are told.                                                *)
(***************************************************************************)
(* The changes of the table after version a, up to version b. *)
Between(a, b) == {t \in touched : a < t /\ t <= b}

(* The worker has run n, and not handed it over yet: then the version is the  *)
(* helper's.                                                                *)
Ran(n) ==
    \/ worker.stage = "skipped" /\ n \in worker.old
    \/ worker.stage = "handover" /\ n \in worker.old \union worker.new

RanTo(n) == IF Ran(n) THEN helper ELSE notifier[n].version

(* What a query has found is of the version that it was run at last. *)
ResultOf(n) ==
    LET rec == notifier[n] IN
    /\ rec.hasRun \/ Ran(n) => rec.lastSeen = Content(RanTo(n))
    /\ ~rec.lapsed => rec.wants
    /\ n \in Callbacks =>
          rec.changes = IF rec.hasRun THEN Between(rec.version, RanTo(n)) ELSE {}
    /\ rec.tv # 0 => (rec.hasRun \/ Ran(n)) /\ rec.tv = Content(RanTo(n))
    /\ rec.tv = 0 =>
          IF rec.hasRun THEN Content(RanTo(n)) = Content(rec.version) ELSE ~Ran(n)
    /\ rec.handover # NoView => rec.handover.content = Content(rec.version)
    /\ rec.toDeliver # NoView =>
          /\ rec.toDeliver.version # 0 /\ rec.toDeliver.version <= latest
          /\ rec.toDeliver.content = Content(rec.toDeliver.version)

ViewOf(n) ==
    LET view == notifier[n].view IN
    view # NoView => /\ view.version # 0 /\ view.version <= latest
                     /\ view.content = Content(view.version)

UnderWay(n) == op[Owner[n]].stage = "deliver" /\ n \in op[Owner[n]].ns

(* The block has been told of the changes up to version q, and the others are *)
(* on their way.                                                            *)
ToldTo(n, q) ==
    LET rec == notifier[n]
        r == Owner[n]
    IN /\ rec.since <= q /\ q <= rec.version
       /\ q <= at[r] /\ at[r] <= q + 1
       /\ rec.told = Between(rec.since, q)
       /\ op[r].stage = "write" => q = at[r]
       /\ UnderWay(n) => q <= op[r].to /\ rec.toTell = Between(q, op[r].to)
       /\ ~UnderWay(n) => rec.accumulated = Between(q, rec.version)

TellingOf(n) ==
    LET rec == notifier[n]
        r == Owner[n]
    IN /\ ~rec.hasRun => ~rec.initial /\ rec.accumulated = {}
       /\ ~rec.initial => rec.told = {}
       /\ UnderWay(n) => /\ rec.hasRun /\ op[r].to # 0 /\ op[r].to <= rec.version
                         /\ rec.accumulated = Between(op[r].to, rec.version)
       /\ rec.initial => \E q \in Nat : ToldTo(n, q)
       /\ rec.initial /\ op[r].stage = "deliver" => n \in op[r].ns \/ op[r].to = at[r]

(* The notifiers with blocks that are alive, and those that the worker runs   *)
(* whenever there is something new.                                         *)
Blocks == {n \in Callbacks : notifier[n].alive}
Served == {n \in Notifiers : notifier[n].alive /\ KeptUp(n)}

Read ==
    /\ touched \subseteq 1 .. latest
    /\ \A n \in Notifiers : notifier[n].list # "none" => notifier[n].version # 0
    /\ \A n \in Notifiers : notifier[n].list = "gone" => ~notifier[n].alive
    /\ \A n \in Main : notifier[n].hasRun => notifier[n].version <= helper

CallOf(r) ==
    /\ op[r].stage \in {"promote", "refresh"} =>
          /\ op[r].to # 0 /\ at[r] # 0
          /\ \A n \in Blocks : Owner[n] = r /\ n \in Main \union New => n \in op[r].ns
    /\ op[r].stage = "promote" => op[r].to = latest
    /\ op[r].stage = "write" => at[r] = latest
    /\ op[r].stage = "deliver" => at[r] # 0 /\ (op[r].to = 0 => op[r].ns = {})

Results == \A n \in Served : ResultOf(n)
Views == \A n \in Notifiers : KeptUp(n) => ViewOf(n)
Telling == \A n \in Blocks : TellingOf(n)
Calls == \A r \in Realms : CallOf(r)

JInv == Read /\ Results /\ Views /\ Telling /\ Calls

(* What the sets of versions have in common. *)
LEMMA BetweenJoin ==
    ASSUME Typed, NEW a \in Nat, NEW b \in Nat, NEW c \in Nat, a <= b, b <= c
    PROVE  /\ Between(a, b) \union Between(b, c) = Between(a, c)
           /\ Between(a, b) \intersect Between(b, c) = {}
           /\ Between(a, a) = {}
<1>1. \A t \in touched : t \in Nat
  BY DEF Typed
<1>2. \A t \in touched : (a < t /\ t <= c) <=> (a < t /\ t <= b) \/ (b < t /\ t <= c)
  BY <1>1
<1>3. \A t \in touched : ~((a < t /\ t <= b) /\ (b < t /\ t <= c)) /\ ~(a < t /\ t <= a)
  BY <1>1
<1> QED
  BY <1>2, <1>3 DEF Between

LEMMA BetweenKept ==
    ASSUME Typed, touched \subseteq 1 .. latest, touched' \in {touched, touched \union {latest + 1}},
           NEW a \in Nat, NEW b \in Nat, b <= latest
    PROVE  Between(a, b)' = Between(a, b)
<1>1. latest \in Nat /\ touched \subseteq Nat
  BY DEF Typed
<1>2. \A t : t \in touched' <=> t \in touched \/ (t = latest + 1 /\ touched' # touched)
  OBVIOUS
<1>3. ~(latest + 1 <= b)
  BY <1>1
<1>4. \A t : t \in Between(a, b)' <=> t \in Between(a, b)
  BY <1>2, <1>3 DEF Between
<1> QED
  BY <1>4

LEMMA ContentKept ==
    ASSUME Typed, touched \subseteq 1 .. latest, touched' \in {touched, touched \union {latest + 1}},
           NEW v \in Nat, v # 0, v <= latest
    PROVE  Content(v)' = Content(v)
<1>1. touched' \in SUBSET Nat /\ 1 \in touched' /\ touched \subseteq Nat /\ latest \in Nat
  BY DEF Typed
<1>2. \E t \in touched' : t <= v /\ \A u \in touched' : u <= v => u <= t
  BY <1>1, LastUpTo, ZenonT(60)
<1> DEFINE c == Content(v)
           d == Content(v)'
<1>3. d \in touched' /\ d <= v /\ \A u \in touched' : u <= v => u <= d
  BY <1>2 DEF Content
<1>4. c \in touched /\ c <= v /\ \A u \in touched : u <= v => u <= c
  BY ContentIsLast
<1> HIDE DEF c, d
<1>5. d \in touched /\ c \in touched'
  BY <1>1, <1>3, <1>4
<1>6. c <= d /\ d <= c /\ c \in Nat /\ d \in Nat
  BY <1>1, <1>3, <1>4, <1>5
<1>7. c = d
  BY <1>6
<1> QED
  BY <1>7 DEF c, d

LEMMA SameContent ==
    ASSUME Typed, NEW v \in Nat, NEW w \in Nat, v # 0, v <= w
    PROVE  /\ Between(Content(v), w) = Between(v, w)
           /\ Content(v) = Content(w) <=> Between(v, w) = {}
           /\ Content(v) # 0
<1>1. touched \subseteq Nat /\ 1 \in touched
  BY DEF Typed
<1> DEFINE c == Content(v)
           d == Content(w)
<1>2. c \in touched /\ c \in Nat /\ c <= v /\ \A u \in touched : u <= v => u <= c
  BY ContentIsLast
<1>3. d \in touched /\ d \in Nat /\ d <= w /\ \A u \in touched : u <= w => u <= d
  BY ContentIsLast
<1> HIDE DEF c, d
<1>4. Between(c, w) = Between(v, w)
  <2>1. ASSUME NEW t \in touched, t <= w PROVE c < t <=> v < t
    BY <1>1, <1>2, <2>1
  <2> QED
    BY <2>1 DEF Between
<1>5. ASSUME c = d PROVE Between(v, w) = {}
  <2>1. ASSUME NEW t \in touched, v < t, t <= w PROVE FALSE
    BY <1>1, <1>2, <1>3, <1>5, <2>1
  <2> QED
    BY <2>1 DEF Between
<1>6. ASSUME Between(v, w) = {} PROVE c = d
  <2>1. d <= v
    BY <1>1, <1>3, <1>6 DEF Between
  <2>2. d <= c /\ c <= d
    BY <1>1, <1>2, <1>3, <2>1
  <2> QED
    BY <1>2, <1>3, <2>2
<1>7. c # 0
  BY <1>1, <1>2
<1> QED
  BY <1>4, <1>5, <1>6, <1>7 DEF c, d

LEMMA InitJInv == Init => JInv
<1> SUFFICES ASSUME Init PROVE JInv
  OBVIOUS
<1>1. \A n \in Notifiers : notifier[n] = NewNotifier
  BY DEF Init
<1>2. \A r \in Realms : op[r].stage = "idle"
  BY DEF Init, Idle, Doing
<1>3. \A n \in Notifiers : ~Ran(n)
  BY DEF Init, Ran, Listening
<1>4. Callbacks \subseteq Notifiers /\ \A n \in Notifiers : Owner[n] \in Realms
  BY CoordinatorAssumption
<1>5. Read
  BY <1>1 DEF Init, Read, Main, NewNotifier
<1>6. Results
  BY <1>1, <1>3, <1>4 DEF Results, Served, ResultOf, NewNotifier
<1>7. Views
  BY <1>1, <1>4 DEF Views, ViewOf, NewNotifier
<1>8. Telling
  BY <1>1, <1>2, <1>4 DEF Telling, Blocks, TellingOf, NewNotifier, UnderWay
<1>9. Calls
  BY <1>2 DEF Calls, CallOf
<1> QED
  BY <1>5, <1>6, <1>7, <1>8, <1>9 DEF JInv

LEMMA Facts ==
    ASSUME IInv, Read, NEW n \in Notifiers
    PROVE  /\ notifier[n] \in Record /\ notifier[n].version <= latest
           /\ Owner[n] \in Realms
           /\ Ran(n) => n \in Main
           /\ notifier[n].hasRun => notifier[n].version # 0
           /\ RanTo(n) \in Nat /\ RanTo(n) <= latest
           /\ notifier[n].hasRun \/ Ran(n) => RanTo(n) # 0
           /\ notifier[n].hasRun => notifier[n].version <= RanTo(n)
           /\ notifier[n].hasRun /\ notifier[n].alive => n \in Main
<1>1. notifier[n] \in Record /\ VersionOf(n) /\ helper \in Nat /\ helper <= latest /\ Owner[n] \in Realms
  BY CoordinatorAssumption DEF IInv, Typed, Versions
<1>2. ASSUME Ran(n) PROVE n \in Main /\ helper # 0
  BY <1>2 DEF Ran, IInv, Working, AtWork, WorkerInOrder, HelpersHoldVersions
<1>3. notifier[n].hasRun => notifier[n].list \in {"main", "gone"}
  BY <1>1 DEF VersionOf, Record
<1> QED
  BY <1>1, <1>2, <1>3 DEF RanTo, Read, Main, Record, VersionOf

(* Steps that run no query. *)
SameRun(n) ==
    LET old == notifier[n]
        rec == notifier'[n]
    IN /\ rec.version = old.version /\ rec.hasRun = old.hasRun
       /\ rec.lastSeen = old.lastSeen /\ rec.tv = old.tv /\ rec.changes = old.changes
       /\ rec.alive => old.alive
       /\ ~rec.lapsed => ~old.lapsed /\ (old.wants => rec.wants)
       /\ rec.handover \in {old.handover, NoView}
       /\ rec.toDeliver \in {old.toDeliver, old.handover, NoView}

LEMMA ResultKept ==
    ASSUME IInv, Read, NEW n \in Notifiers, ResultOf(n), SameRun(n), RanTo(n)' = RanTo(n),
           Ran(n)' = Ran(n), latest' \in {latest, latest + 1},
           touched' \in {touched, touched \union {latest + 1}}
    PROVE  ResultOf(n)'
<1>1. /\ notifier[n] \in Record /\ notifier[n].version <= latest
      /\ notifier[n].hasRun => notifier[n].version # 0
      /\ RanTo(n) \in Nat /\ RanTo(n) <= latest
      /\ notifier[n].hasRun \/ Ran(n) => RanTo(n) # 0
  BY Facts
<1>2. Typed /\ touched \subseteq 1 .. latest /\ latest \in Nat
  BY DEF IInv, Typed, Read
<1>3. \A v \in Nat : v # 0 /\ v <= latest => Content(v)' = Content(v)
  BY <1>2, ContentKept
<1>4. \A a, b \in Nat : b <= latest => Between(a, b)' = Between(a, b)
  BY <1>2, BetweenKept
<1>5. notifier[n].version \in Nat /\ notifier[n].toDeliver.version \in Nat
  BY <1>1 DEF Record, View
<1> DEFINE old == notifier[n]
           rec == notifier'[n]
           to == RanTo(n)
<1>6. /\ rec.version = old.version /\ rec.hasRun = old.hasRun
      /\ rec.lastSeen = old.lastSeen /\ rec.tv = old.tv /\ rec.changes = old.changes
      /\ ~rec.lapsed => ~old.lapsed /\ (old.wants => rec.wants)
      /\ rec.handover \in {old.handover, NoView}
      /\ rec.toDeliver \in {old.toDeliver, old.handover, NoView}
  BY DEF SameRun
<1>7. old.handover # NoView => old.hasRun /\ old.handover.version = old.version
  BY DEF IInv, Versions, VersionOf
<1>8. /\ old.hasRun \/ Ran(n) => old.lastSeen = Content(to)
      /\ ~old.lapsed => old.wants
      /\ n \in Callbacks => old.changes = IF old.hasRun THEN Between(old.version, to) ELSE {}
      /\ old.tv # 0 => (old.hasRun \/ Ran(n)) /\ old.tv = Content(to)
      /\ old.tv = 0 => IF old.hasRun THEN Content(to) = Content(old.version) ELSE ~Ran(n)
      /\ old.handover # NoView => old.handover.content = Content(old.version)
      /\ old.toDeliver # NoView =>
            /\ old.toDeliver.version # 0 /\ old.toDeliver.version <= latest
            /\ old.toDeliver.content = Content(old.toDeliver.version)
  BY DEF ResultOf
<1>9. old.hasRun \/ Ran(n) => Content(RanTo(n))' = Content(to)
  BY <1>1, <1>3
<1>10. old.hasRun => /\ Content(notifier[n].version)' = Content(old.version)
                    /\ Between(notifier[n].version, RanTo(n))' = Between(old.version, to)
  BY <1>1, <1>3, <1>4, <1>5, <1>6
<1>11. rec.toDeliver # NoView =>
          /\ rec.toDeliver.version # 0 /\ rec.toDeliver.version <= latest
          /\ rec.toDeliver.version \in Nat
          /\ rec.toDeliver.content = Content(rec.toDeliver.version)
  BY <1>1, <1>5, <1>6, <1>7, <1>8
<1>12. rec.toDeliver # NoView =>
          /\ rec.toDeliver.version # 0 /\ rec.toDeliver.version <= latest'
          /\ rec.toDeliver.content = Content(notifier[n].toDeliver.version)'
  BY <1>2, <1>3, <1>11
<1> HIDE DEF to
<1>13. /\ rec.hasRun \/ Ran(n) => rec.lastSeen = Content(RanTo(n))'
       /\ ~rec.lapsed => rec.wants
       /\ n \in Callbacks =>
             rec.changes = IF rec.hasRun THEN Between(notifier[n].version, RanTo(n))' ELSE {}
       /\ rec.tv # 0 => (rec.hasRun \/ Ran(n)) /\ rec.tv = Content(RanTo(n))'
  BY <1>6, <1>8, <1>9, <1>10
<1>14. rec.tv = 0 =>
          IF rec.hasRun THEN Content(RanTo(n))' = Content(notifier[n].version)' ELSE ~Ran(n)
  BY <1>6, <1>8, <1>9, <1>10
<1>15. rec.handover # NoView => rec.handover.content = Content(notifier[n].version)'
  BY <1>6, <1>7, <1>8, <1>10
<1> QED
  BY <1>12, <1>13, <1>14, <1>15 DEF ResultOf

LEMMA ViewsKept ==
    ASSUME IInv, Read, Views, latest' \in {latest, latest + 1},
           touched' \in {touched, touched \union {latest + 1}},
           \A n \in Notifiers : notifier'[n].view = notifier[n].view /\ (KeptUp(n)' => KeptUp(n))
    PROVE  Views'
<1>1. Typed /\ touched \subseteq 1 .. latest /\ latest \in Nat
  BY DEF IInv, Typed, Read
<1>2. SUFFICES ASSUME NEW n \in Notifiers, KeptUp(n)' PROVE ViewOf(n)'
  BY DEF Views
<1> DEFINE view == notifier[n].view
<1>3. view.version \in Nat
  BY <1>1 DEF Typed, Record, View
<1>4. view # NoView => /\ view.version # 0 /\ view.version <= latest
                       /\ view.content = Content(view.version)
  BY <1>2 DEF Views, ViewOf
<1>5. view # NoView => Content(view.version)' = Content(view.version)
  BY <1>1, <1>3, <1>4, ContentKept
<1> QED
  BY <1>1, <1>3, <1>4, <1>5 DEF ViewOf

(* Steps that tell nothing to a block, nor find anything for it. *)
SameCall(n) ==
    LET old == notifier[n]
        rec == notifier'[n]
    IN /\ rec.version = old.version /\ rec.hasRun = old.hasRun
       /\ rec.initial = old.initial /\ rec.since = old.since /\ rec.told = old.told
       /\ rec.toTell = old.toTell /\ rec.accumulated = old.accumulated
       /\ rec.alive => old.alive

LEMMA TellingKept ==
    ASSUME IInv, Read, NEW n \in Notifiers, TellingOf(n), SameCall(n),
           at'[Owner[n]] = at[Owner[n]], op'[Owner[n]] = op[Owner[n]],
           latest' \in {latest, latest + 1}, touched' \in {touched, touched \union {latest + 1}}
    PROVE  TellingOf(n)'
<1> DEFINE old == notifier[n]
           rec == notifier'[n]
           r == Owner[n]
           o == op[r]
<1>1. Typed /\ touched \subseteq 1 .. latest /\ latest \in Nat /\ r \in Realms
  BY Facts DEF IInv, Typed, Read
<1>2. old \in Record /\ old.version <= latest /\ old.version \in Nat /\ old.since \in Nat
  BY Facts DEF Record
<1>3. \A a, b \in Nat : b <= latest => Between(a, b)' = Between(a, b)
  BY <1>1, BetweenKept
<1>4. o \in Operation /\ o.to \in Nat
  BY <1>1 DEF Typed, Operation
<1>5. /\ rec.version = old.version /\ rec.hasRun = old.hasRun
      /\ rec.initial = old.initial /\ rec.since = old.since /\ rec.told = old.told
      /\ rec.toTell = old.toTell /\ rec.accumulated = old.accumulated
  BY DEF SameCall
<1>6. UnderWay(n)' <=> UnderWay(n)
  BY DEF UnderWay
<1>7. /\ rec.hasRun \/ (~rec.initial /\ rec.accumulated = {})
      /\ ~rec.initial => rec.told = {}
      /\ rec.initial /\ o.stage = "deliver" => n \in o.ns \/ o.to = at[r]
  BY <1>5 DEF TellingOf
<1>8. UnderWay(n) => /\ rec.hasRun /\ o.to # 0 /\ o.to <= rec.version
                     /\ rec.accumulated = Between(op[Owner[n]].to, notifier[n].version)'
  BY <1>2, <1>3, <1>4, <1>5 DEF TellingOf
<1>9. ASSUME rec.initial PROVE \E q \in Nat : ToldTo(n, q)'
  <2>1. PICK q \in Nat : ToldTo(n, q)
    BY <1>5, <1>9 DEF TellingOf
  <2>2. /\ old.since <= q /\ q <= old.version /\ q <= latest
        /\ q <= at[r] /\ at[r] <= q + 1
        /\ old.told = Between(old.since, q)
        /\ o.stage = "write" => q = at[r]
        /\ UnderWay(n) => q <= o.to /\ o.to <= latest /\ old.toTell = Between(q, o.to)
        /\ ~UnderWay(n) => old.accumulated = Between(q, old.version)
    BY <1>1, <1>2, <1>4, <2>1 DEF ToldTo, TellingOf
  <2>3. /\ rec.told = Between(notifier[n].since, q)'
        /\ UnderWay(n) => rec.toTell = Between(q, op[Owner[n]].to)'
        /\ ~UnderWay(n) => rec.accumulated = Between(q, notifier[n].version)'
    BY <1>2, <1>3, <1>4, <1>5, <2>2
  <2>4. ToldTo(n, q)'
    BY <1>5, <1>6, <2>2, <2>3 DEF ToldTo
  <2> QED
    BY <2>4
<1> QED
  BY <1>5, <1>6, <1>7, <1>8, <1>9 DEF TellingOf

LEMMA TellingQuiet ==
    ASSUME IInv, Read, NEW n \in Notifiers, TellingOf(n), SameCall(n),
           at'[Owner[n]] = at[Owner[n]], touched' = touched,
           op[Owner[n]].stage # "deliver", op'[Owner[n]].stage # "deliver",
           op'[Owner[n]].stage = "write" => op[Owner[n]].stage = "write"
    PROVE  TellingOf(n)'
<1> DEFINE old == notifier[n]
           rec == notifier'[n]
           r == Owner[n]
<1>1. /\ rec.version = old.version /\ rec.hasRun = old.hasRun
      /\ rec.initial = old.initial /\ rec.since = old.since /\ rec.told = old.told
      /\ rec.toTell = old.toTell /\ rec.accumulated = old.accumulated
  BY DEF SameCall
<1>2. ~UnderWay(n)' /\ ~UnderWay(n)
  BY DEF UnderWay
<1>3. \A a, b \in Nat : Between(a, b)' = Between(a, b)
  BY DEF Between
<1>4. \A q \in Nat : ToldTo(n, q) => ToldTo(n, q)'
  <2> SUFFICES ASSUME NEW q \in Nat, ToldTo(n, q) PROVE ToldTo(n, q)'
    OBVIOUS
  <2>1. /\ Between(notifier[n].since, q)' = Between(old.since, q)
        /\ Between(q, notifier[n].version)' = Between(q, old.version)
    BY <1>1 DEF Between
  <2> QED
    BY <1>1, <1>2, <2>1 DEF ToldTo
<1> QED
  BY <1>1, <1>2, <1>4 DEF TellingOf

(* What the steps of a Realm's thread have in common. *)
LEMMA ThreadFrame ==
    ASSUME IInv, JInv, NEW r \in Realms,
           latest' \in {latest, latest + 1}, touched' \in {touched, touched \union {latest + 1}},
           touched' \subseteq 1 .. latest', latest' # latest => writer = r,
           UNCHANGED << helper, worker >>,
           \A s \in Realms \ {r} : at'[s] = at[s] /\ op'[s] = op[s],
           \A n \in Notifiers : notifier'[n].list = notifier[n].list /\ SameRun(n)
                                /\ (Owner[n] # r => notifier'[n] = notifier[n]),
           \A n \in Notifiers : KeptUp(n)' => notifier'[n].view = notifier[n].view \/ ViewOf(n)',
           CallOf(r)',
           \A n \in Blocks : Owner[n] = r /\ notifier'[n].alive => TellingOf(n)'
    PROVE  JInv'
<1>0. Callbacks \subseteq Notifiers /\ (\A n \in Notifiers : Owner[n] \in Realms)
      /\ Read /\ Results /\ Views /\ Telling /\ Calls
  BY CoordinatorAssumption DEF JInv
<1>1. Main' = Main /\ New' = New /\ (\A n \in Notifiers : Ran(n)' = Ran(n) /\ RanTo(n)' = RanTo(n))
  BY DEF Main, New, Ran, RanTo, SameRun
<1>2. /\ Blocks' \subseteq Blocks /\ Served' \subseteq Served
      /\ \A n \in Notifiers : KeptUp(n)' => KeptUp(n)
  BY <1>0 DEF Blocks, Served, KeptUp, SameRun
<1>3. Read'
  BY <1>0, <1>1 DEF Read, SameRun, Main
<1>4. Results'
  <2> SUFFICES ASSUME NEW n \in Served' PROVE ResultOf(n)'
    BY DEF Results
  <2>1. n \in Notifiers /\ ResultOf(n)
    BY <1>0, <1>2 DEF Results, Served
  <2> QED
    BY <1>0, <1>1, <2>1, ResultKept
<1>5. Views'
  <2> SUFFICES ASSUME NEW n \in Notifiers, KeptUp(n)' PROVE ViewOf(n)'
    BY DEF Views
  <2>1. CASE notifier'[n].view = notifier[n].view
    <3>1. \A v \in Nat : v # 0 /\ v <= latest => Content(v)' = Content(v) /\ v <= latest'
      BY <1>0, ContentKept DEF IInv, Typed, Read
    <3>2. notifier[n].view.version \in Nat /\ ViewOf(n)
      BY <1>0, <1>2 DEF IInv, Typed, Record, View, Views
    <3> QED
      BY <2>1, <3>1, <3>2 DEF ViewOf
  <2> QED
    BY <2>1
<1>6. Telling'
  <2> SUFFICES ASSUME NEW n \in Blocks' PROVE TellingOf(n)'
    BY DEF Telling
  <2>1. n \in Notifiers /\ n \in Blocks /\ TellingOf(n) /\ notifier'[n].alive
    BY <1>0, <1>2 DEF Telling, Blocks
  <2>2. CASE Owner[n] # r
    <3>1. SameCall(n) /\ Owner[n] \in Realms \ {r}
      BY <1>0, <2>1, <2>2 DEF SameCall
    <3> QED
      BY <1>0, <2>1, <3>1, TellingKept
  <2> QED
    BY <2>1, <2>2
<1>7. Calls'
  <2> SUFFICES ASSUME NEW s \in Realms \ {r} PROVE CallOf(s)'
    BY DEF Calls
  <2>1. op[s].stage \in {"promote", "write"} => latest' = latest
    BY CoordinatorAssumption DEF IInv, Threads, ThreadOf
  <2>2. op'[s] = op[s] /\ at'[s] = at[s] /\ CallOf(s)
    BY <1>0 DEF Calls
  <2> QED
    BY <1>1, <1>2, <2>1, <2>2 DEF CallOf
<1> QED
  BY <1>3, <1>4, <1>5, <1>6, <1>7 DEF JInv

(* Steps that leave the notifiers alone and deliver nothing. *)
LEMMA QuietFrame ==
    ASSUME IInv, JInv, NEW r \in Realms,
           UNCHANGED << latest, touched, helper, worker, notifier >>,
           at[r] # 0 => at'[r] = at[r],
           op'[r] = op[r] \/ (op[r].stage # "deliver" /\ op'[r].stage \notin {"deliver", "write"}),
           \A s \in Realms \ {r} : at'[s] = at[s] /\ op'[s] = op[s],
           CallOf(r)'
    PROVE  JInv'
<1>0. Callbacks \subseteq Notifiers /\ Read /\ Telling
  BY CoordinatorAssumption DEF JInv
<1>1. \A n \in Notifiers : SameRun(n) /\ SameCall(n)
  BY DEF SameRun, SameCall
<1>2. ASSUME NEW n \in Blocks, Owner[n] = r PROVE TellingOf(n)'
  <2>1. n \in Notifiers /\ TellingOf(n)
    BY <1>0 DEF Blocks, Telling
  <2>2. CASE at[r] # 0 /\ op'[r] = op[r]
    BY <1>0, <1>1, <1>2, <2>1, <2>2, TellingKept
  <2>3. CASE at[r] # 0 /\ op'[r] # op[r]
    BY <1>0, <1>1, <1>2, <2>1, <2>3, TellingQuiet
  <2>4. CASE at[r] = 0
    <3>1. ~notifier[n].hasRun
      BY <1>2, <2>1, <2>4 DEF IInv, Reading, Versions, VersionOf
    <3>2. ~UnderWay(n) /\ ~UnderWay(n)'
      BY <1>2, <2>1, <3>1, <2>4 DEF TellingOf, UnderWay
    <3> QED
      BY <2>1, <3>1, <3>2 DEF TellingOf
  <2> QED
    BY <2>2, <2>3, <2>4
<1>3. touched' \subseteq 1 .. latest'
  BY <1>0 DEF Read
<1> QED
  BY <1>1, <1>2, <1>3, ThreadFrame

LEMMA QuietSteps ==
    ASSUME IInv, JInv, NEW r \in Realms,
           \/ ReadGroup(r) \/ BeginTransaction(r) \/ Refresh(r) \/ NotifyOthers(r)
           \/ CancelTransaction(r) \/ NotifyInWrite(r)
    PROVE  JInv'
<1>1. UNCHANGED << latest, touched, helper, worker, notifier >>
  BY DEF ReadGroup, BeginTransaction, Refresh, NotifyOthers, CancelTransaction, NotifyInWrite,
     WorkerUnchanged
<1>2. Blocks' = Blocks /\ Main' = Main /\ New' = New
  BY <1>1 DEF Blocks, Main, New
<1>3. /\ at \in [Realms -> Nat] /\ op \in [Realms -> Operation] /\ CallOf(r) /\ latest # 0
  BY DEF IInv, Typed, JInv, Calls
<1>4. CASE ReadGroup(r) \/ NotifyInWrite(r)
  <2>1. /\ op' = op /\ (at' = at \/ (at[r] = 0 /\ op[r].stage = "idle"
                                     /\ at' = [at EXCEPT ![r] = latest]))
    BY <1>4 DEF ReadGroup, NotifyInWrite, Idles
  <2>2. (\A s \in Realms \ {r} : at'[s] = at[s] /\ op'[s] = op[s]) /\ (at[r] # 0 => at'[r] = at[r])
    BY <1>3, <2>1
  <2>3. CallOf(r)'
    BY <1>1, <1>2, <1>3, <2>1 DEF CallOf
  <2> QED
    BY <1>1, <2>1, <2>2, <2>3, QuietFrame
<1>5. CASE BeginTransaction(r) \/ Refresh(r)
  <2> DEFINE ns == NotifiersFor(r)
  <2>1. /\ op[r].stage = "idle" /\ at' = at /\ at[r] # 0
        /\ \E stage \in {"promote", "refresh"} : op' = [op EXCEPT ![r] = Doing(stage, latest, ns)]
    BY <1>5 DEF BeginTransaction, Refresh, Idles
  <2>2. \A n \in Blocks : Owner[n] = r /\ n \in Main \union New => n \in ns
    BY DEF NotifiersFor, Blocks
  <2> HIDE DEF ns
  <2>3. /\ op'[r].stage \in {"promote", "refresh"} /\ op'[r].to = latest /\ op'[r].ns = ns
        /\ \A s \in Realms \ {r} : op'[s] = op[s]
    BY <1>3, <2>1 DEF Doing
  <2>4. CallOf(r)'
    BY <1>1, <1>2, <1>3, <2>1, <2>2, <2>3 DEF CallOf
  <2> QED
    BY <1>1, <2>1, <2>3, <2>4, QuietFrame
<1>6. CASE NotifyOthers(r) \/ CancelTransaction(r)
  <2>1. op[r].stage \in {"committed", "write"} /\ at' = at /\ op' = [op EXCEPT ![r] = Idle]
    BY <1>6 DEF NotifyOthers, CancelTransaction
  <2>2. op'[r].stage = "idle" /\ \A s \in Realms \ {r} : op'[s] = op[s]
    BY <1>3, <2>1 DEF Idle, Doing
  <2>3. CallOf(r)'
    BY <2>2 DEF CallOf
  <2> QED
    BY <1>1, <2>1, <2>2, <2>3, QuietFrame
<1> QED
  BY <1>4, <1>5, <1>6

LEMMA PackageOfIs ==
    ASSUME NEW n \in Notifiers, notifier[n] \in Record
    PROVE  LET old == notifier[n]
               rec == PackageOf(n)
           IN /\ rec.version = old.version /\ rec.hasRun = old.hasRun
              /\ rec.lastSeen = old.lastSeen /\ rec.tv = old.tv /\ rec.changes = old.changes
              /\ rec.alive = old.alive /\ rec.list = old.list
              /\ rec.lapsed = old.lapsed /\ rec.wants = old.wants
              /\ rec.initial = old.initial /\ rec.since = old.since /\ rec.told = old.told
              /\ rec.view = old.view /\ rec.handover = NoView /\ rec.toDeliver = old.handover
              /\ rec.toTell = old.accumulated /\ rec.accumulated = {}
              /\ rec \in Record
BY DEF PackageOf, Record, NoView, View

(* The changes that a package holds, for a block that has been called. *)
LEMMA PackageFrame ==
    ASSUME IInv, JInv, NEW r \in Realms, NEW ps \in SUBSET Notifiers, NEW o \in Operation,
           \A n \in ps : Owner[n] = r /\ n \in Main /\ notifier[n].hasRun,
           Package(ps), op' = [op EXCEPT ![r] = o], op[r].stage \in {"idle", "refresh"},
           UNCHANGED << latest, touched, at, helper, worker >>,
           at[r] # 0,
           \/ o.stage = "idle" /\ \A n \in ps : notifier[n].version < at[r]
           \/ o.stage = "idle" /\ ps = {}
           \/ /\ o.stage = "deliver" /\ o.ns = ps /\ (o.to = 0 => ps = {})
              /\ at[r] <= o.to \/ o.to = 0
              /\ \A n \in ps : o.to = notifier[n].version
              /\ \A n \in Blocks : Owner[n] = r /\ notifier[n].initial => n \in ps \/ o.to = at[r]
           \/ /\ o.stage = "deliver" /\ o.ns = {} /\ o.to = 0
              /\ \A n \in Blocks : ~(Owner[n] = r /\ (n \in ps \/ notifier[n].initial))
    PROVE  JInv'
<1>0. Callbacks \subseteq Notifiers /\ Read /\ Telling
  BY CoordinatorAssumption DEF JInv
<1>1. \A n \in Notifiers : notifier[n] \in Record
  BY DEF IInv, Typed
<1>2. \A n \in Notifiers : notifier'[n] = IF n \in ps THEN PackageOf(n) ELSE notifier[n]
  BY DEF Package
<1> DEFINE Same(n) ==
         /\ notifier'[n].version = notifier[n].version /\ notifier'[n].hasRun = notifier[n].hasRun
         /\ notifier'[n].initial = notifier[n].initial /\ notifier'[n].since = notifier[n].since
         /\ notifier'[n].told = notifier[n].told /\ notifier'[n].alive = notifier[n].alive
         /\ notifier'[n].list = notifier[n].list /\ notifier'[n].view = notifier[n].view
<1>3. \A n \in Notifiers :
         /\ notifier'[n].version = notifier[n].version /\ notifier'[n].hasRun = notifier[n].hasRun
         /\ notifier'[n].initial = notifier[n].initial /\ notifier'[n].since = notifier[n].since
         /\ notifier'[n].told = notifier[n].told /\ notifier'[n].alive = notifier[n].alive
         /\ notifier'[n].list = notifier[n].list /\ notifier'[n].view = notifier[n].view
         /\ SameRun(n)
         /\ notifier'[n].toTell = IF n \in ps THEN notifier[n].accumulated ELSE notifier[n].toTell
         /\ notifier'[n].accumulated = IF n \in ps THEN {} ELSE notifier[n].accumulated
  <2> SUFFICES ASSUME NEW n \in Notifiers
               PROVE  /\ Same(n) /\ SameRun(n)
                      /\ notifier'[n].toTell =
                            IF n \in ps THEN notifier[n].accumulated ELSE notifier[n].toTell
                      /\ notifier'[n].accumulated = IF n \in ps THEN {} ELSE notifier[n].accumulated
    BY DEF Same
  <2> DEFINE p == PackageOf(n)
  <2>1. p.toTell = notifier[n].accumulated /\ p.accumulated = {} /\ p.alive = notifier[n].alive
        /\ p.version = notifier[n].version /\ p.hasRun = notifier[n].hasRun
        /\ p.lastSeen = notifier[n].lastSeen /\ p.tv = notifier[n].tv /\ p.changes = notifier[n].changes
        /\ p.list = notifier[n].list /\ p.initial = notifier[n].initial
        /\ p.since = notifier[n].since /\ p.told = notifier[n].told /\ p.view = notifier[n].view
        /\ p.handover = NoView /\ p.toDeliver = notifier[n].handover
        /\ p.lapsed = notifier[n].lapsed /\ p.wants = notifier[n].wants
    BY <1>1, PackageOfIs
  <2>2. notifier'[n] = IF n \in ps THEN p ELSE notifier[n]
    BY <1>2
  <2> HIDE DEF p
  <2> QED
    BY <2>1, <2>2 DEF SameRun, Same
<1>4. op'[r] = o /\ op[r].stage # "deliver" /\ \A s \in Realms \ {r} : op'[s] = op[s]
  BY DEF IInv, Typed
<1>5. CallOf(r)'
  BY <1>4 DEF CallOf
<1>6. ASSUME NEW n \in Blocks, Owner[n] = r PROVE TellingOf(n)'
  <2>1. n \in Notifiers /\ TellingOf(n) /\ ~UnderWay(n)
    BY <1>0, <1>4, <1>6 DEF Blocks, Telling, UnderWay
  <2>3. /\ Between(notifier[n].since, notifier[n].version)' = Between(notifier[n].since, notifier[n].version)
        /\ \A q \in Nat : /\ Between(q, notifier[n].version)' = Between(q, notifier[n].version)
                          /\ Between(notifier[n].since, q)' = Between(notifier[n].since, q)
                          /\ Between(q, op[Owner[n]].to)' = Between(q, o.to)
        /\ Between(op[Owner[n]].to, notifier[n].version)' = Between(o.to, notifier[n].version)
    BY <1>3, <1>4, <1>6, <2>1 DEF Between
  <2>4. /\ notifier[n].version \in Nat /\ notifier[n].since \in Nat /\ o.to \in Nat /\ at[r] \in Nat
        /\ Between(notifier[n].version, notifier[n].version) = {}
    <3>1. notifier[n] \in Record /\ Typed
      BY <1>1, <2>1 DEF IInv
    <3>2. notifier[n].version \in Nat /\ notifier[n].since \in Nat
      BY <3>1 DEF Record
    <3>3. o.to \in Nat /\ at[r] \in Nat
      BY <3>1 DEF Typed, Operation
    <3> QED
      BY <3>1, <3>2, <3>3, BetweenJoin
  <2>5. CASE n \notin ps
    <3>1. ~UnderWay(n)' /\ SameCall(n)
      BY <1>1, <1>2, <1>3, <1>4, <1>6, <2>1, <2>5 DEF UnderWay, SameCall
    <3>2. op'[r].stage \in {"idle", "deliver"}
          /\ (notifier'[n].initial /\ op'[r].stage = "deliver" => op'[r].to = at'[r])
      BY <1>3, <1>4, <1>6, <2>1, <2>5
    <3>3. \A q \in Nat : ToldTo(n, q) => ToldTo(n, q)'
      BY <1>6, <2>1, <2>3, <3>1, <3>2 DEF ToldTo, SameCall
    <3> QED
      BY <1>6, <2>1, <3>1, <3>2, <3>3 DEF TellingOf, SameCall
  <2>6. CASE n \in ps
    <3>1. /\ op'[r] = o
          /\ \/ o.stage = "idle" /\ notifier[n].version < at[r]
             \/ o.stage = "deliver" /\ o.ns = ps /\ o.to = notifier[n].version /\ o.to # 0
      BY <1>4, <1>6, <2>6
    <3>2. UnderWay(n)' <=> o.stage = "deliver"
      BY <1>6, <2>6, <3>1 DEF UnderWay
    <3>3. /\ notifier'[n].toTell = notifier[n].accumulated /\ notifier'[n].accumulated = {}
          /\ notifier'[n].hasRun
      BY <1>3, <2>1, <2>6
    <3>4. ASSUME NEW q \in Nat, ToldTo(n, q) PROVE ToldTo(n, q)'
      <4>1. /\ notifier[n].since <= q /\ q <= notifier[n].version
            /\ q <= at[r] /\ at[r] <= q + 1
            /\ notifier[n].told = Between(notifier[n].since, q)
            /\ notifier[n].accumulated = Between(q, notifier[n].version)
        BY <1>6, <2>1, <3>4 DEF ToldTo
      <4>2. o.stage = "idle" => q = notifier[n].version
        BY <2>4, <3>1, <4>1
      <4> QED
        BY <1>3, <1>6, <2>1, <2>3, <2>4, <3>1, <3>2, <3>3, <4>1, <4>2 DEF ToldTo
    <3> QED
      BY <1>3, <1>6, <2>1, <2>3, <2>4, <2>6, <3>1, <3>2, <3>3, <3>4 DEF TellingOf
  <2> QED
    BY <2>5, <2>6
<1>7. \A n \in Notifiers : Owner[n] # r => notifier'[n] = notifier[n]
  BY <1>2
<1>8. touched' \subseteq 1 .. latest'
  BY <1>0 DEF Read
<1> QED
  BY <1>0, <1>3, <1>4, <1>5, <1>6, <1>7, <1>8, ThreadFrame

(* A notifier that is as recent as what is waited for makes the package. *)
LEMMA PackageVersionIs ==
    ASSUME IInv, NEW ns \in SUBSET (Main \union New), NEW target \in Nat,
           NEW n \in ns, Packed(n), notifier[n].version >= target
    PROVE  PackageVersion({m \in ns : Packed(m)}, target) = notifier[n].version
<1> DEFINE ps == {m \in ns : Packed(m)}
           vs == {notifier[m].version : m \in {m \in ps : Packed(m)}}
           v == CHOOSE v \in vs : TRUE
<1>1. \A m \in ps : m \in Main /\ notifier[m].hasRun
  BY DEF Packed, Main, New, IInv, Versions, VersionOf
<1>2. \A m \in ps : notifier[m].version = notifier[n].version
  BY <1>1 DEF IInv, WorkerInOrder, OneVersionForAll
<1>3. notifier[n].version \in vs /\ \A w \in vs : w = notifier[n].version
  BY <1>2
<1>4. PackageVersion(ps, target) = IF vs = {} \/ v < target THEN 0 ELSE v
  BY DEF PackageVersion
<1>5. notifier[n].version \in Nat
  BY DEF IInv, Typed, Record, Main, New
<1> HIDE DEF ps, vs
<1>6. v = notifier[n].version
  BY <1>3
<1> HIDE DEF v
<1>7. vs # {} /\ ~(v < target)
  BY <1>3, <1>5, <1>6
<1> QED
  BY <1>4, <1>6, <1>7 DEF ps

(* A block that has been called belongs to what the worker has handed over. *)
LEMMA CalledBlock ==
    ASSUME IInv, JInv, NEW n \in Blocks, notifier[n].initial
    PROVE  /\ n \in Main /\ Packed(n) /\ n \in Notifiers
           /\ n \in NotifiersFor(Owner[n])
<1>1. n \in Notifiers /\ TellingOf(n) /\ Read /\ notifier[n].alive
  BY CoordinatorAssumption DEF Blocks, JInv, Telling
<1>2. notifier[n].hasRun
  BY <1>1 DEF TellingOf
<1>3. n \in Main
  BY <1>1, <1>2, Facts
<1> QED
  BY <1>1, <1>2, <1>3 DEF Packed, NotifiersFor

LEMMA PackageJSteps ==
    ASSUME IInv, JInv, NEW r \in Realms, Refreshed(r) \/ NotifyUnchanged(r) \/ NotifyChanged(r)
    PROVE  JInv'
<1>0. Callbacks \subseteq Notifiers /\ Read /\ Telling /\ CallOf(r) /\ Calls
  BY CoordinatorAssumption DEF JInv, Calls
<1>1. at \in [Realms -> Nat] /\ op \in [Realms -> Operation] /\ latest # 0
  BY DEF IInv, Typed
<1>2. \A n \in Main : n \in Notifiers /\ (notifier[n].hasRun => notifier[n].version # 0)
  BY <1>0, Facts DEF Main
<1>3. \A n \in Main \union New : n \in Notifiers /\ (Packed(n) => n \in Main /\ notifier[n].hasRun)
  BY DEF Packed, Main, New, IInv, Versions, VersionOf
<1>4. CASE Refreshed(r)
  <2> DEFINE ns == op[r].ns
             to == op[r].to
             ps == {n \in ns : Packed(n)}
             v == PackageVersion(ps, to)
             o == Doing("deliver", v, IF v = 0 THEN {} ELSE ps)
  <2>1. /\ op[r].stage = "refresh" /\ Ready(ns, to) /\ Package(ps)
        /\ op' = [op EXCEPT ![r] = o]
        /\ UNCHANGED << latest, touched, at, helper, worker >>
    BY <1>4 DEF Refreshed, WorkerUnchanged
  <2>2. /\ to \in Nat /\ to # 0 /\ at[r] \in Nat /\ at[r] # 0 /\ at[r] <= to
        /\ ns \in SUBSET (Main \union New) /\ \A n \in ns : Owner[n] = r
    BY <1>0, <1>1, <2>1 DEF IInv, Operation, Threads, ThreadOf, CallOf
  <2>3. /\ v \in Nat /\ (v # 0 => v >= to)
        /\ ps # {} => (v = 0 \/ \A n \in ps : notifier[n].version = v)
    BY <2>2, PackageVersions
  <2>4. ps \in SUBSET Notifiers /\ \A n \in ps : Owner[n] = r /\ n \in Main /\ notifier[n].hasRun
    BY <1>3, <2>2
  <2>5. \A n \in Blocks : Owner[n] = r /\ notifier[n].initial => n \in ps
    BY <1>0, <2>1, CalledBlock DEF CallOf
  <2>6. \A n \in Blocks : n \in ps => v # 0
    <3> SUFFICES ASSUME NEW n \in Blocks, n \in ps PROVE v # 0
      OBVIOUS
    <3>1. n \in ns /\ Packed(n) /\ n \in Callbacks /\ n \in Main /\ notifier[n].version >= to
      BY <2>1, <2>4 DEF Ready, Blocks
    <3>2. v = notifier[n].version
      BY <2>2, <3>1, PackageVersionIs
    <3> QED
      BY <1>2, <3>1, <3>2 DEF Packed
  <2> HIDE DEF ps, v, ns
  <2>7. /\ o \in Operation /\ o.stage = "deliver" /\ o.to = v
        /\ o.ns = IF v = 0 THEN {} ELSE ps
    BY <2>3, <2>4, DoingTyped
  <2> HIDE DEF o
  <2>8. CASE v = 0
    <3>1. \A n \in Blocks : ~(Owner[n] = r /\ (n \in ps \/ notifier[n].initial))
      BY <2>5, <2>6, <2>8
    <3> QED
      BY <2>1, <2>2, <2>4, <2>7, <2>8, <3>1, PackageFrame, ZenonT(60)
  <2>9. CASE v # 0
    <3>1. at[r] <= o.to
      BY <2>2, <2>3, <2>7, <2>9
    <3>2. \A n \in ps : o.to = notifier[n].version
      BY <2>3, <2>7, <2>9
    <3> QED
      BY <2>1, <2>2, <2>4, <2>5, <2>7, <2>9, <3>1, <3>2, PackageFrame
  <2> QED
    BY <2>8, <2>9
<1>5. CASE NotifyUnchanged(r)
  <2> DEFINE ps == {n \in NotifiersFor(r) : Packed(n) /\ notifier[n].version = at[r]}
             o == IF ps = {} THEN Idle ELSE Doing("deliver", at[r], ps)
  <2>1. /\ op[r].stage = "idle" /\ Package(ps) /\ op' = [op EXCEPT ![r] = o] /\ at[r] = latest
        /\ UNCHANGED << latest, touched, at, helper, worker >>
    BY <1>5 DEF NotifyUnchanged, WorkerUnchanged, Idles
  <2>2. ps \in SUBSET Notifiers
        /\ \A n \in ps : Owner[n] = r /\ notifier[n].version = at[r] /\ n \in Main /\ notifier[n].hasRun
    BY <1>3, NotifiersForTyped
  <2> HIDE DEF ps
  <2>3. \/ o \in Operation /\ o.stage = "idle" /\ ps = {}
        \/ o \in Operation /\ o.stage = "deliver" /\ o.to = at[r] /\ o.ns = ps
    BY <1>1, <2>2, DoingTyped DEF Idle
  <2>4. at[r] # 0 /\ at[r] <= at[r] /\ at[r] \in Nat
    BY <1>1, <2>1
  <2> HIDE DEF o
  <2> QED
    BY <2>1, <2>2, <2>3, <2>4, PackageFrame, ZenonT(60)
<1>6. CASE NotifyChanged(r)
  <2> DEFINE ps == {n \in NotifiersFor(r) : Packed(n)}
             v == PackageVersion(ps, 0)
             o == IF Discarded(r, v) THEN Idle ELSE Doing("deliver", v, ps)
  <2>1. /\ op[r].stage = "idle" /\ Package(ps) /\ op' = [op EXCEPT ![r] = o] /\ at[r] # 0
        /\ UNCHANGED << latest, touched, at, helper, worker >>
    BY <1>6 DEF NotifyChanged, WorkerUnchanged, Idles
  <2>2. /\ ps \in SUBSET Notifiers /\ NotifiersFor(r) \in SUBSET (Main \union New)
        /\ \A n \in ps : Owner[n] = r /\ n \in Main /\ notifier[n].hasRun
    BY <1>3, NotifiersForTyped
  <2>3. /\ v \in Nat
        /\ ps # {} => (v = 0 \/ \A n \in ps : notifier[n].version = v)
        /\ v = 0 => \A n \in ps : notifier[n].version = 0
    BY <2>2, PackageVersions
  <2>4. v = 0 => ps = {}
    BY <1>2, <2>2, <2>3
  <2>5. \A n \in Blocks : Owner[n] = r /\ notifier[n].initial => n \in ps
    BY CalledBlock
  <2> HIDE DEF ps, v
  <2>6. \/ o \in Operation /\ o.stage = "idle" /\ v # 0 /\ v < at[r]
        \/ /\ o \in Operation /\ o.stage = "deliver" /\ o.to = v /\ o.ns = ps
           /\ ~(v # 0 /\ v < at[r])
    BY <2>2, <2>3, DoingTyped DEF Idle, Discarded
  <2> HIDE DEF o
  <2>7. at[r] \in Nat
    BY <1>1
  <2>8. CASE o \in Operation /\ o.stage = "idle" /\ v # 0 /\ v < at[r]
    <3>1. \A n \in ps : notifier[n].version < at[r]
      BY <2>3, <2>8
    <3> QED
      BY <2>1, <2>2, <2>8, <3>1, PackageFrame
  <2>9. CASE /\ o \in Operation /\ o.stage = "deliver" /\ o.to = v /\ o.ns = ps
             /\ ~(v # 0 /\ v < at[r])
    <3>1. (at[r] <= o.to \/ o.to = 0) /\ (o.to = 0 => ps = {})
          /\ \A n \in ps : o.to = notifier[n].version
      BY <2>3, <2>4, <2>7, <2>9
    <3> QED
      BY <2>1, <2>2, <2>5, <2>9, <3>1, PackageFrame
  <2> QED
    BY <2>6, <2>8, <2>9
<1> QED
  BY <1>4, <1>5, <1>6

(* A block that is called with the Realm at the version it was packaged for. *)
LEMMA TellingAfter ==
    ASSUME Typed, NEW n \in Callbacks, n \in Notifiers, NEW rec \in Record, NEW q \in Nat,
           notifier'[n] = AfterAdvance(n, rec, q), rec.hasRun, q <= rec.version, q # 0,
           rec.accumulated = Between(q, rec.version),
           rec.initial => rec.since <= q /\ rec.told \union rec.toTell = Between(rec.since, q),
           ~rec.initial => rec.told = {},
           at'[Owner[n]] = q, op'[Owner[n]].stage # "deliver", touched' = touched
    PROVE  TellingOf(n)'
<1> DEFINE new == notifier'[n]
<1>1. /\ new.initial /\ new.version = rec.version /\ new.hasRun = rec.hasRun
      /\ new.accumulated = rec.accumulated
      /\ IF rec.initial THEN new.since = rec.since /\ new.told = rec.told \union rec.toTell
         ELSE new.since = q /\ new.told = rec.told
  <2>1. new = ToldOf(rec, q)
    BY DEF AfterAdvance
  <2> HIDE DEF new
  <2>2. CASE rec.initial
    <3>1. new = [rec EXCEPT !.told = rec.told \union rec.toTell, !.toTell = {}]
      BY <2>1, <2>2 DEF ToldOf
    <3> QED
      BY <2>2, <3>1 DEF Record
  <2>3. CASE ~rec.initial
    <3>1. new = [rec EXCEPT !.initial = TRUE, !.since = q, !.toTell = {}]
      BY <2>1, <2>3 DEF ToldOf
    <3> QED
      BY <2>3, <3>1 DEF Record
  <2> QED
    BY <2>2, <2>3
<1> HIDE DEF new
<1>2. Between(q, q) = {}
  BY BetweenJoin
<1>3. new.since \in Nat /\ new.since <= q /\ new.told = Between(new.since, q)
  BY <1>1, <1>2, SMTT(60) DEF Record
<1>4. ~UnderWay(n)'
  BY DEF UnderWay
<1>5. \A a, b \in Nat : Between(a, b)' = Between(a, b)
  BY DEF Between
<1>6. notifier'[n] = new /\ q <= q /\ q <= q + 1 /\ rec.version \in Nat
  BY DEF new, Record
<1>7. /\ Between(notifier[n].since, q)' = Between(new.since, q)
      /\ Between(q, notifier[n].version)' = Between(q, rec.version)
  BY <1>1, <1>6 DEF Between
<1>8. ToldTo(n, q)'
  BY <1>1, <1>3, <1>4, <1>6, <1>7 DEF ToldTo
<1> QED
  BY <1>1, <1>4, <1>6, <1>8 DEF TellingOf

LEMMA PromotedJStep ==
    ASSUME IInv, JInv, NEW r \in Realms, Promoted(r)
    PROVE  JInv'
<1> DEFINE ns == {n \in op[r].ns : Packed(n)}
           told == IF PackageVersion(ns, op[r].to) = 0 THEN {} ELSE ns
<1>0. Callbacks \subseteq Notifiers /\ Read /\ Telling /\ CallOf(r)
  BY CoordinatorAssumption DEF JInv, Calls
<1>1. /\ op[r].stage = "promote" /\ Ready(op[r].ns, op[r].to) /\ at' = [at EXCEPT ![r] = latest]
      /\ op' = [op EXCEPT ![r] = Doing("write", 0, {})]
      /\ UNCHANGED << latest, touched, writer, skip, advancer, helper, worker >>
      /\ \A n \in Notifiers : notifier'[n] =
            IF n \in told THEN AfterAdvance(n, PackageOf(n), latest)
            ELSE IF n \in ns THEN PackageOf(n) ELSE notifier[n]
  BY DEF Promoted, WorkerUnchanged
<1>2. /\ op[r].to = latest /\ op[r].ns \in SUBSET (Main \union New)
      /\ \A n \in op[r].ns : n \in Notifiers /\ Owner[n] = r
      /\ \A n \in Blocks : Owner[n] = r /\ n \in Main \union New => n \in op[r].ns
  BY <1>0, <1>1 DEF IInv, Threads, ThreadOf, CallOf, Main, New
<1>3. Typed /\ latest \in Nat /\ latest # 0 /\ touched \subseteq 1 .. latest
      /\ \A n \in Notifiers : notifier[n] \in Record /\ notifier[n].version <= latest
  BY <1>0 DEF IInv, Typed, Versions, VersionOf, Read
<1>4. told \subseteq ns /\ \A n \in ns : Owner[n] = r
  BY <1>2
<1>5. /\ at'[r] = latest /\ op'[r] = Doing("write", 0, {}) /\ op'[r].stage = "write"
      /\ \A s \in Realms \ {r} : at'[s] = at[s] /\ op'[s] = op[s]
  BY <1>1 DEF IInv, Typed, Doing
<1>6. ASSUME NEW n \in Blocks, Owner[n] = r PROVE TellingOf(n)'
  <2>1. n \in Notifiers /\ n \in Callbacks /\ TellingOf(n) /\ notifier[n].alive /\ ~UnderWay(n)
    BY <1>0, <1>1, <1>6 DEF Blocks, Telling, UnderWay
  <2>2. CASE n \notin ns
    <3>1. ~notifier[n].hasRun
      <4>1. notifier[n].hasRun => n \in Main
        BY <1>0, <2>1, Facts
      <4> QED
        BY <1>2, <1>6, <2>1, <2>2, <4>1 DEF Packed
    <3>2. notifier'[n] = notifier[n]
      BY <1>1, <1>4, <2>1, <2>2
    <3>3. ~UnderWay(n)'
      BY <1>5, <1>6 DEF UnderWay
    <3> QED
      BY <2>1, <3>1, <3>2, <3>3 DEF TellingOf
  <2>3. CASE n \in ns
    <3>1. n \in op[r].ns /\ Packed(n) /\ notifier[n].hasRun /\ notifier[n].version >= op[r].to
      BY <1>1, <2>1, <2>3 DEF Ready
    <3>2. notifier[n].version = latest /\ notifier[n].since \in Nat /\ notifier[n].version \in Nat
      BY <1>2, <1>3, <2>1, <3>1 DEF Record
    <3>3. PackageVersion(ns, op[r].to) = latest
      BY <1>2, <1>3, <3>1, <3>2, PackageVersionIs
    <3> DEFINE p == PackageOf(n)
    <3>4. /\ p \in Record /\ p.hasRun /\ p.version = latest /\ p.accumulated = {}
          /\ p.initial = notifier[n].initial /\ p.since = notifier[n].since
          /\ p.told = notifier[n].told /\ p.toTell = notifier[n].accumulated
      BY <1>3, <2>1, <3>1, <3>2, PackageOfIs
    <3>5. notifier'[n] = AfterAdvance(n, p, latest)
      BY <1>1, <1>3, <2>1, <2>3, <3>3
    <3> HIDE DEF p
    <3>6. p.accumulated = Between(latest, p.version)
      BY <1>3, <3>4, BetweenJoin
    <3>7. ASSUME p.initial
          PROVE  p.since <= latest /\ p.told \union p.toTell = Between(p.since, latest)
      <4>1. PICK q \in Nat : ToldTo(n, q)
        BY <2>1, <3>4, <3>7 DEF TellingOf
      <4>2. /\ notifier[n].since <= q /\ q <= latest
            /\ notifier[n].told = Between(notifier[n].since, q)
            /\ notifier[n].accumulated = Between(q, latest)
        BY <2>1, <3>2, <4>1 DEF ToldTo
      <4> QED
        BY <1>3, <3>2, <3>4, <4>2, BetweenJoin
    <3>8. ~p.initial => p.told = {}
      BY <2>1, <3>4 DEF TellingOf
    <3>9. latest <= p.version /\ at'[Owner[n]] = latest /\ op'[Owner[n]].stage # "deliver"
      BY <1>3, <1>5, <1>6, <3>4
    <3> QED
      BY <1>1, <1>3, <2>1, <3>4, <3>5, <3>6, <3>7, <3>8, <3>9, TellingAfter
  <2> QED
    BY <2>2, <2>3
<1>7. \A n \in Notifiers : /\ notifier'[n].list = notifier[n].list /\ SameRun(n)
                           /\ notifier'[n].view = notifier[n].view
                           /\ (Owner[n] # r => notifier'[n] = notifier[n])
  <2> SUFFICES ASSUME NEW n \in Notifiers
               PROVE  /\ notifier'[n].list = notifier[n].list /\ SameRun(n)
                      /\ notifier'[n].view = notifier[n].view
                      /\ (Owner[n] # r => notifier'[n] = notifier[n])
    OBVIOUS
  <2> DEFINE p == PackageOf(n)
             old == notifier[n]
  <2>1. /\ p.version = old.version /\ p.hasRun = old.hasRun
        /\ p.lastSeen = old.lastSeen /\ p.tv = old.tv /\ p.changes = old.changes
        /\ p.alive = old.alive /\ p.list = old.list /\ p.view = old.view
        /\ p.handover = NoView /\ p.toDeliver = old.handover /\ p \in Record
        /\ p.lapsed = old.lapsed /\ p.wants = old.wants
    BY <1>3, PackageOfIs
  <2>2. notifier'[n] \in {AfterAdvance(n, p, latest), p, old} /\ (n \notin ns => notifier'[n] = old)
    BY <1>1, <1>4
  <2> HIDE DEF p, old, ns
  <2>3. LET a == AfterAdvance(n, p, latest)
        IN /\ a.version = p.version /\ a.hasRun = p.hasRun
           /\ a.lastSeen = p.lastSeen /\ a.tv = p.tv /\ a.changes = p.changes
           /\ a.alive = p.alive /\ a.list = p.list /\ a.view = p.view
           /\ a.handover = p.handover /\ a.toDeliver = p.toDeliver
           /\ a.lapsed = p.lapsed /\ a.wants = p.wants
    BY <2>1 DEF AfterAdvance, ToldOf, Record
  <2>4. Owner[n] # r => notifier'[n] = old
    BY <1>4, <2>2
  <2>5. notifier'[n].list = old.list /\ notifier'[n].view = old.view
    BY <2>1, <2>2, <2>3
  <2>6. SameRun(n)
    BY <2>1, <2>2, <2>3 DEF SameRun, old
  <2> QED
    BY <2>4, <2>5, <2>6 DEF old
<1>8. CallOf(r)'
  BY <1>1, <1>5 DEF CallOf
<1>9. touched' \subseteq 1 .. latest'
  BY <1>1, <1>3
<1> QED
  BY <1>0, <1>1, <1>5, <1>6, <1>7, <1>8, <1>9, ThreadFrame

LEMMA CommitWriteJStep ==
    ASSUME IInv, JInv, NEW r \in Realms, CommitWrite(r)
    PROVE  JInv'
<1>0. Callbacks \subseteq Notifiers /\ Read /\ Telling /\ CallOf(r)
  BY CoordinatorAssumption DEF JInv, Calls
<1>1. /\ op[r].stage = "write" /\ latest' = latest + 1
      /\ touched' \in {touched, touched \union {latest + 1}}
      /\ at' = [at EXCEPT ![r] = latest + 1]
      /\ op' = [op EXCEPT ![r] = Doing("committed", 0, {})]
      /\ UNCHANGED << notifier, helper, worker >>
  BY DEF CommitWrite
<1>2. /\ at[r] = latest /\ writer = r
      /\ at'[r] = latest + 1 /\ op'[r].stage = "committed"
      /\ \A s \in Realms \ {r} : at'[s] = at[s] /\ op'[s] = op[s]
  BY <1>0, <1>1 DEF CallOf, IInv, Typed, Threads, ThreadOf, Doing
<1>3. Typed /\ latest \in Nat /\ touched \subseteq 1 .. latest
  BY <1>0 DEF IInv, Typed, Read
<1>4. \A a, b \in Nat : b <= latest => Between(a, b)' = Between(a, b)
  BY <1>1, <1>3, BetweenKept
<1>5. ASSUME NEW n \in Blocks, Owner[n] = r PROVE TellingOf(n)'
  <2>1. n \in Notifiers /\ TellingOf(n) /\ ~UnderWay(n) /\ ~UnderWay(n)'
    BY <1>0, <1>1, <1>2, <1>5 DEF Blocks, Telling, UnderWay
  <2>2. notifier[n].version \in Nat /\ notifier[n].since \in Nat /\ notifier[n].version <= latest
    BY <1>0, <2>1, Facts DEF Record
  <2>3. ASSUME NEW q \in Nat, ToldTo(n, q) PROVE ToldTo(n, q)'
    <3>1. /\ notifier[n].since <= q /\ q <= notifier[n].version /\ q = latest
          /\ notifier[n].told = Between(notifier[n].since, q)
          /\ notifier[n].accumulated = Between(q, notifier[n].version)
      BY <1>1, <1>2, <1>5, <2>1, <2>3 DEF ToldTo
    <3>2. /\ Between(notifier[n].since, q)' = Between(notifier[n].since, q)
          /\ Between(q, notifier[n].version)' = Between(q, notifier[n].version)
      <4>1. notifier'[n] = notifier[n] /\ q <= latest
        BY <1>1, <1>3, <3>1
      <4> QED
        BY <1>4, <2>2, <4>1
    <3>3. q <= at'[r] /\ at'[r] <= q + 1
      BY <1>2, <1>3, <3>1
    <3> QED
      BY <1>1, <1>2, <1>5, <2>1, <3>1, <3>2, <3>3 DEF ToldTo
  <2> QED
    BY <1>1, <1>2, <1>5, <2>1, <2>3 DEF TellingOf
<1>6. \A n \in Notifiers : SameRun(n)
  BY <1>1 DEF SameRun
<1>7. touched' \subseteq 1 .. latest' /\ latest' \in {latest, latest + 1}
  BY <1>1, <1>3
<1>8. CallOf(r)'
  BY <1>2 DEF CallOf
<1> QED
  BY <1>0, <1>1, <1>2, <1>5, <1>6, <1>7, <1>8, ThreadFrame

LEMMA DeliverToIs ==
    ASSUME NEW rec \in Record, NEW v \in Nat
    PROVE  LET d == DeliverTo(rec, v)
           IN /\ d \in Record
              /\ d.version = rec.version /\ d.hasRun = rec.hasRun /\ d.lastSeen = rec.lastSeen
              /\ d.tv = rec.tv /\ d.changes = rec.changes /\ d.accumulated = rec.accumulated
              /\ d.alive = rec.alive /\ d.list = rec.list /\ d.handover = rec.handover
              /\ d.initial = rec.initial /\ d.since = rec.since /\ d.told = rec.told
              /\ d.toTell = rec.toTell /\ d.toDeliver \in {rec.toDeliver, NoView}
              /\ ~d.lapsed => ~rec.lapsed /\ (rec.wants => d.wants)
              /\ d.view = rec.view
                 \/ (rec.alive /\ rec.toDeliver # NoView
                     /\ d.view = [version |-> v, content |-> rec.toDeliver.content])
<1> DEFINE x == [version |-> v, content |-> rec.toDeliver.content]
           lapsed == rec.lapsed \/ ~rec.used
<1>1. x \in View
  BY DEF Record, View
<1>2. CASE ~(rec.alive /\ rec.toDeliver # NoView)
  BY <1>2 DEF DeliverTo
<1>3. CASE rec.alive /\ rec.toDeliver # NoView
  <2>1. DeliverTo(rec, v) = [rec EXCEPT !.view = x, !.wants = rec.used, !.used = FALSE,
                                        !.toDeliver = NoView, !.lapsed = lapsed]
    BY <1>3 DEF DeliverTo
  <2>2. NoView \in View /\ lapsed \in BOOLEAN /\ (~lapsed => ~rec.lapsed /\ rec.used)
    BY DEF NoView, View
  <2> HIDE DEF x, lapsed
  <2> DEFINE d == DeliverTo(rec, v)
  <2>3. d \in Record
    BY <1>1, <2>1, <2>2, ZenonT(60) DEF Record
  <2>4. /\ d.version = rec.version /\ d.hasRun = rec.hasRun /\ d.lastSeen = rec.lastSeen
        /\ d.tv = rec.tv /\ d.changes = rec.changes /\ d.accumulated = rec.accumulated
        /\ d.alive = rec.alive /\ d.list = rec.list /\ d.handover = rec.handover
    BY <2>1 DEF Record
  <2>5. /\ d.initial = rec.initial /\ d.since = rec.since /\ d.told = rec.told
        /\ d.toTell = rec.toTell /\ d.toDeliver = NoView /\ d.view = x
    BY <2>1 DEF Record
  <2>6. d.lapsed = lapsed /\ d.wants = rec.used
    BY <2>1, ZenonT(60) DEF Record
  <2>7. ~d.lapsed => ~rec.lapsed /\ (rec.wants => d.wants)
    BY <2>2, <2>6
  <2> QED
    BY <1>3, <2>3, <2>4, <2>5, <2>7 DEF x
<1> QED
  BY <1>2, <1>3

LEMMA DeliverJStep ==
    ASSUME IInv, JInv, NEW r \in Realms, Deliver(r)
    PROVE  JInv'
<1> DEFINE v == IF op[r].to = 0 THEN latest ELSE op[r].to
<1>0. Callbacks \subseteq Notifiers /\ Read /\ Results /\ Telling /\ CallOf(r)
  BY CoordinatorAssumption DEF JInv, Calls
<1>1. /\ op[r].stage = "deliver" /\ at' = [at EXCEPT ![r] = v]
      /\ op' = [op EXCEPT ![r] = Idle]
      /\ UNCHANGED << latest, touched, writer, skip, advancer, helper, worker >>
      /\ \A n \in Notifiers : notifier'[n] =
            IF n \in op[r].ns THEN AfterAdvance(n, DeliverTo(notifier[n], v), v) ELSE notifier[n]
  BY DEF Deliver, WorkerUnchanged
<1>2. v \in Nat /\ v <= latest /\ v # 0 /\ (op[r].to # 0 => v = op[r].to) /\ op[r].to \in Nat
  BY <1>1 DEF IInv, Typed, Operation, Threads, ThreadOf
<1>3. /\ \A n \in op[r].ns : Owner[n] = r /\ op[r].to # 0
                             /\ (notifier[n].toDeliver # NoView =>
                                    notifier[n].toDeliver.version = op[r].to)
      /\ at[r] # 0
  BY <1>0, <1>1 DEF IInv, Threads, ThreadOf, CallOf
<1>4. Typed /\ touched \subseteq 1 .. latest /\ \A n \in Notifiers : notifier[n] \in Record
  BY <1>0 DEF IInv, Typed, Read
<1> HIDE DEF v
<1>5. /\ at'[r] = v /\ op'[r].stage = "idle"
      /\ \A s \in Realms \ {r} : at'[s] = at[s] /\ op'[s] = op[s]
  BY <1>1 DEF IInv, Typed, Idle, Doing
<1>6. ASSUME NEW n \in Blocks, Owner[n] = r PROVE TellingOf(n)'
  <2>1. n \in Notifiers /\ n \in Callbacks /\ TellingOf(n)
    BY <1>0, <1>6 DEF Blocks, Telling
  <2>2. ~UnderWay(n)'
    BY <1>5, <1>6 DEF UnderWay
  <2>3. CASE n \in op[r].ns
    <3> DEFINE d == DeliverTo(notifier[n], v)
    <3>1. /\ d \in Record /\ d.version = notifier[n].version /\ d.hasRun = notifier[n].hasRun
          /\ d.accumulated = notifier[n].accumulated /\ d.initial = notifier[n].initial
          /\ d.since = notifier[n].since /\ d.told = notifier[n].told
          /\ d.toTell = notifier[n].toTell
      BY <1>2, <1>4, <2>1, DeliverToIs, ZenonT(60)
    <3>2. notifier'[n] = AfterAdvance(n, d, v)
      BY <1>1, <2>1, <2>3
    <3> HIDE DEF d
    <3>3. UnderWay(n) /\ v = op[r].to
      BY <1>1, <1>2, <1>3, <1>6, <2>3 DEF UnderWay
    <3>4. /\ notifier[n].hasRun /\ v <= notifier[n].version
          /\ notifier[n].accumulated = Between(v, notifier[n].version)
          /\ (~notifier[n].initial => notifier[n].told = {})
      BY <1>6, <2>1, <3>3 DEF TellingOf
    <3>5. ASSUME d.initial PROVE d.since <= v /\ d.told \union d.toTell = Between(d.since, v)
      <4>1. PICK q \in Nat : ToldTo(n, q)
        BY <2>1, <3>1, <3>5 DEF TellingOf
      <4>2. /\ notifier[n].since <= q /\ q <= v /\ notifier[n].since \in Nat
            /\ notifier[n].told = Between(notifier[n].since, q)
            /\ notifier[n].toTell = Between(q, v)
        BY <1>4, <1>6, <2>1, <3>3, <4>1 DEF ToldTo, Record
      <4> QED
        BY <1>2, <1>4, <3>1, <4>2, BetweenJoin
    <3>6. d.hasRun /\ v <= d.version /\ d.accumulated = Between(v, d.version)
      BY <3>1, <3>4
    <3>7. ~d.initial => d.told = {}
      BY <3>1, <3>4
    <3>8. at'[Owner[n]] = v /\ op'[Owner[n]].stage # "deliver"
      BY <1>5, <1>6
    <3> QED
      BY <1>1, <1>2, <1>4, <2>1, <3>1, <3>2, <3>5, <3>6, <3>7, <3>8, TellingAfter
  <2>4. CASE n \notin op[r].ns
    <3>1. notifier'[n] = notifier[n] /\ ~UnderWay(n)
      BY <1>1, <1>6, <2>1, <2>4 DEF UnderWay
    <3>2. notifier[n].initial => at'[r] = at[r]
      BY <1>1, <1>2, <1>3, <1>5, <1>6, <2>1, <2>4 DEF TellingOf
    <3>3. ASSUME NEW q \in Nat, ToldTo(n, q), notifier[n].initial PROVE ToldTo(n, q)'
      <4>1. /\ Between(notifier[n].since, q)' = Between(notifier[n].since, q)
            /\ Between(q, notifier[n].version)' = Between(q, notifier[n].version)
        BY <1>1, <3>1 DEF Between
      <4> QED
        BY <1>5, <1>6, <2>2, <3>1, <3>2, <3>3, <4>1 DEF ToldTo
    <3> QED
      BY <1>5, <1>6, <2>1, <2>2, <3>1, <3>3 DEF TellingOf
  <2> QED
    BY <2>3, <2>4
<1>7. \A n \in Notifiers :
         /\ notifier'[n].list = notifier[n].list /\ SameRun(n)
         /\ (Owner[n] # r => notifier'[n] = notifier[n])
         /\ \/ notifier'[n].view = notifier[n].view
            \/ /\ n \in op[r].ns /\ notifier[n].alive /\ notifier[n].toDeliver # NoView
               /\ notifier'[n].view = [version |-> v, content |-> notifier[n].toDeliver.content]
  <2> SUFFICES ASSUME NEW n \in Notifiers
               PROVE  /\ notifier'[n].list = notifier[n].list /\ SameRun(n)
                      /\ (Owner[n] # r => notifier'[n] = notifier[n])
                      /\ \/ notifier'[n].view = notifier[n].view
                         \/ /\ n \in op[r].ns /\ notifier[n].alive /\ notifier[n].toDeliver # NoView
                            /\ notifier'[n].view =
                                  [version |-> v, content |-> notifier[n].toDeliver.content]
    OBVIOUS
  <2>1. CASE n \notin op[r].ns
    BY <1>1, <2>1 DEF SameRun
  <2>2. CASE n \in op[r].ns
    <3> DEFINE old == notifier[n]
               d == DeliverTo(old, v)
               x == [version |-> v, content |-> old.toDeliver.content]
               a == AfterAdvance(n, d, v)
    <3>1. /\ d \in Record /\ d.version = old.version /\ d.hasRun = old.hasRun
          /\ d.lastSeen = old.lastSeen /\ d.tv = old.tv /\ d.changes = old.changes
          /\ d.alive = old.alive /\ d.list = old.list /\ d.handover = old.handover
          /\ d.toDeliver \in {old.toDeliver, NoView}
          /\ ~d.lapsed => ~old.lapsed /\ (old.wants => d.wants)
          /\ d.view = old.view \/ (old.alive /\ old.toDeliver # NoView /\ d.view = x)
      BY <1>2, <1>4, DeliverToIs
    <3>2. notifier'[n] = a
      BY <1>1, <2>2
    <3> HIDE DEF d, old, x
    <3>3. /\ a.version = d.version /\ a.hasRun = d.hasRun
          /\ a.lastSeen = d.lastSeen /\ a.tv = d.tv /\ a.changes = d.changes
          /\ a.alive = d.alive /\ a.list = d.list /\ a.view = d.view
          /\ a.handover = d.handover /\ a.toDeliver = d.toDeliver
          /\ a.lapsed = d.lapsed /\ a.wants = d.wants
      BY <3>1 DEF AfterAdvance, ToldOf, Record
    <3> HIDE DEF a
    <3>4. SameRun(n)
      BY <3>1, <3>2, <3>3 DEF SameRun, old
    <3> QED
      BY <1>3, <2>2, <3>1, <3>2, <3>3, <3>4 DEF old, x
  <2> QED
    BY <2>1, <2>2
<1>8. ASSUME NEW n \in Notifiers, KeptUp(n)'
      PROVE  notifier'[n].view = notifier[n].view \/ ViewOf(n)'
  <2>1. KeptUp(n)
    BY <1>7, <1>8 DEF KeptUp, SameRun
  <2>2. CASE notifier'[n].view # notifier[n].view
    <3>1. /\ n \in op[r].ns /\ notifier[n].alive /\ notifier[n].toDeliver # NoView
          /\ notifier'[n].view = [version |-> v, content |-> notifier[n].toDeliver.content]
      BY <1>7, <2>2
    <3>2. notifier[n].toDeliver.version = v /\ ResultOf(n)
      BY <1>0, <1>2, <1>3, <2>1, <3>1 DEF Results, Served
    <3>3. notifier[n].toDeliver.content = Content(v)
      BY <3>1, <3>2 DEF ResultOf
    <3>4. notifier'[n].view.version = v /\ notifier'[n].view.content = Content(v)
      BY <3>1, <3>3
    <3>5. Content(notifier[n].view.version)' = Content(v)
      BY <1>1, <3>4 DEF Content
    <3> QED
      BY <1>1, <1>2, <3>4, <3>5 DEF ViewOf
  <2> QED
    BY <2>2
<1>9. CallOf(r)'
  BY <1>5 DEF CallOf
<1>10. touched' \subseteq 1 .. latest'
  BY <1>1, <1>4
<1> QED
  BY <1>0, <1>1, <1>5, <1>6, <1>7, <1>8, <1>9, <1>10, ThreadFrame, ZenonT(60)

LEMMA UseJStep ==
    ASSUME IInv, JInv, NEW n \in Notifiers, Use(n) \/ Drop(n)
    PROVE  JInv'
<1> DEFINE r == Owner[n]
<1>0. /\ Callbacks \subseteq Notifiers /\ Read /\ Telling /\ CallOf(r) /\ r \in Realms
      /\ Typed /\ notifier[n] \in Record /\ touched \subseteq 1 .. latest
  BY CoordinatorAssumption DEF JInv, Calls, IInv, Typed, Read
<1>1. /\ notifier[n].list # "none"
      /\ UNCHANGED << latest, touched, writer, at, op, skip, advancer, helper, worker >>
      /\ \A m \in Notifiers \ {n} : notifier'[m] = notifier[m]
  BY DEF Use, Drop, WorkerUnchanged, IInv, Typed
<1>2. at[r] \in Nat /\ at[r] # 0 /\ at[r] <= latest
  BY <1>0, <1>1 DEF IInv, Typed, Reading, Threads, ThreadOf
<1> DEFINE x == [version |-> at[r], content |-> Content(at[r])]
<1>3. /\ SameRun(n) /\ SameCall(n) /\ notifier'[n].list = notifier[n].list
      /\ notifier'[n].view \in {notifier[n].view, x}
  <2>1. CASE Drop(n)
    <3>1. notifier'[n] = [notifier[n] EXCEPT !.alive = FALSE]
      BY <1>0, <2>1 DEF Drop, Typed
    <3> QED
      BY <1>0, <3>1 DEF SameRun, SameCall, Record
  <2>2. CASE Use(n)
    <3> DEFINE y == IF InSync(n) THEN notifier[n].view ELSE x
    <3>1. notifier'[n] = [notifier[n] EXCEPT !.used = TRUE, !.view = y] /\ y \in {notifier[n].view, x}
      BY <1>0, <2>2 DEF Use, Shown, Typed
    <3> HIDE DEF y, x
    <3> QED
      BY <1>0, <3>1 DEF SameRun, SameCall, Record
  <2> QED
    BY <2>1, <2>2
<1>4. \A m \in Notifiers : /\ notifier'[m].list = notifier[m].list /\ SameRun(m)
                           /\ (Owner[m] # r => notifier'[m] = notifier[m])
  BY <1>1, <1>3 DEF SameRun
<1>5. \A m \in Notifiers : SameCall(m)
  BY <1>1, <1>3 DEF SameCall
<1>6. ASSUME NEW m \in Notifiers PROVE notifier'[m].view = notifier[m].view \/ ViewOf(m)'
  <2>1. CASE m # n
    BY <1>0, <1>1, <2>1
  <2>2. CASE m = n /\ notifier'[n].view = x
    <3>1. notifier'[n].view.version = at[r] /\ notifier'[n].view.content = Content(at[r])
      BY <2>2
    <3>2. Content(notifier[n].view.version)' = Content(at[r])
      BY <1>1, <3>1 DEF Content
    <3> QED
      BY <1>1, <1>2, <2>2, <3>1, <3>2 DEF ViewOf
  <2> QED
    BY <1>3, <2>1, <2>2
<1>7. ASSUME NEW m \in Blocks, Owner[m] = r PROVE TellingOf(m)'
  BY <1>0, <1>1, <1>5, <1>7, TellingKept DEF Blocks, Telling
<1>8. CallOf(r)'
  <2>1. Blocks' \subseteq Blocks /\ Main' = Main /\ New' = New
    BY <1>0, <1>4 DEF Blocks, SameRun, Main, New
  <2> QED
    BY <1>0, <1>1, <2>1 DEF CallOf
<1> QED
  BY <1>0, <1>1, <1>4, <1>6, <1>7, <1>8, ThreadFrame

LEMMA WatchJStep ==
    ASSUME IInv, JInv, NEW n \in Notifiers, Watch(n)
    PROVE  JInv'
<1> DEFINE r == Owner[n]
           x == [version |-> at[r], content |-> Content(at[r])]
<1>0. /\ Callbacks \subseteq Notifiers /\ Read /\ Results /\ Views /\ Telling /\ Calls /\ r \in Realms
      /\ Typed /\ notifier[n] \in Record
  BY CoordinatorAssumption DEF JInv, IInv, Typed
<1>1. /\ op[r].stage = "idle" /\ at[r] # 0 /\ notifier[n].list = "none"
      /\ notifier' = [notifier EXCEPT ![n].list = "new", ![n].version = at[r],
                                      ![n].used = TRUE, ![n].view = x]
      /\ UNCHANGED << latest, touched, writer, at, op, skip, helper, worker >>
  BY DEF Watch, Idles
<1>2. at[r] \in Nat /\ at[r] <= latest
  BY <1>0 DEF IInv, Typed, Threads, ThreadOf
<1> HIDE DEF x
<1>3. /\ \A m \in Notifiers \ {n} : notifier'[m] = notifier[m]
      /\ notifier[n].list = "none" /\ at[r] # 0 /\ helper' = helper
  BY <1>0, <1>1 DEF Typed
<1>4. /\ notifier'[n].list = "new" /\ notifier'[n].version = at[r] /\ notifier'[n].view = x
      /\ notifier'[n].hasRun = notifier[n].hasRun /\ notifier'[n].alive = notifier[n].alive
      /\ notifier'[n].lastSeen = notifier[n].lastSeen /\ notifier'[n].tv = notifier[n].tv
      /\ notifier'[n].changes = notifier[n].changes
      /\ notifier'[n].handover = notifier[n].handover
      /\ notifier'[n].toDeliver = notifier[n].toDeliver
      /\ notifier'[n].initial = notifier[n].initial /\ notifier'[n].told = notifier[n].told
      /\ notifier'[n].accumulated = notifier[n].accumulated
      /\ notifier'[n].lapsed = notifier[n].lapsed /\ notifier'[n].wants = notifier[n].wants
  <2>1. notifier'[n] = [notifier[n] EXCEPT !.list = "new", !.version = at[r], !.used = TRUE, !.view = x]
    BY <1>0, <1>1 DEF Typed
  <2>2. /\ notifier'[n].list = "new" /\ notifier'[n].version = at[r] /\ notifier'[n].view = x
        /\ notifier'[n].hasRun = notifier[n].hasRun /\ notifier'[n].alive = notifier[n].alive
        /\ notifier'[n].lastSeen = notifier[n].lastSeen /\ notifier'[n].tv = notifier[n].tv
    BY <1>0, <2>1 DEF Record
  <2>3. /\ notifier'[n].changes = notifier[n].changes
        /\ notifier'[n].handover = notifier[n].handover
        /\ notifier'[n].toDeliver = notifier[n].toDeliver
        /\ notifier'[n].initial = notifier[n].initial /\ notifier'[n].told = notifier[n].told
        /\ notifier'[n].accumulated = notifier[n].accumulated
        /\ notifier'[n].lapsed = notifier[n].lapsed /\ notifier'[n].wants = notifier[n].wants
    BY <1>0, <2>1 DEF Record
  <2> QED
    BY <2>2, <2>3
<1>5. ~notifier[n].hasRun /\ notifier[n].handover = NoView /\ n \notin Main /\ ~Ran(n)
  <2>1. ~notifier[n].hasRun /\ notifier[n].handover = NoView /\ n \notin Main
    BY <1>1 DEF IInv, Versions, VersionOf, Main
  <2> QED
    BY <1>0, <2>1, Facts
<1>6. /\ Main' = Main /\ New' = New \union {n} /\ Blocks' = Blocks /\ Served' = Served
      /\ \A m \in Notifiers : Ran(m)' = Ran(m)
  <2>1. \A m \in Notifiers : /\ notifier'[m].alive = notifier[m].alive
                             /\ notifier'[m].list = IF m = n THEN "new" ELSE notifier[m].list
    BY <1>3, <1>4
  <2>2. Main' = Main /\ New' = New \union {n}
    BY <1>3, <2>1 DEF Main, New
  <2>3. Blocks' = Blocks
    BY <1>0, <2>1 DEF Blocks
  <2>4. \A m \in Notifiers : Ran(m)' = Ran(m)
    BY <1>1 DEF Ran
  <2>5. \A m \in Notifiers : notifier'[m].lapsed = notifier[m].lapsed
    BY <1>3, <1>4
  <2>6. Served' = Served
    BY <2>1, <2>5 DEF Served, KeptUp
  <2> QED
    BY <2>2, <2>3, <2>4, <2>6
<1>7. \A v : Content(v)' = Content(v)
  BY <1>1, SMTT(60) DEF Content
<1>8. Read'
  <2>1. \A m \in Notifiers : notifier'[m].list # "none" => notifier'[m].version # 0
    BY <1>0, <1>3, <1>4 DEF Read
  <2>2. \A m \in Notifiers : notifier'[m].list = "gone" => ~notifier'[m].alive
    BY <1>0, <1>3, <1>4 DEF Read
  <2>3. \A m \in Main : m \in Notifiers \ {n}
    BY <1>5 DEF Main
  <2>4. \A m \in Main : notifier'[m].hasRun => notifier'[m].version <= helper
    BY <1>0, <1>3, <2>3 DEF Read
  <2> QED
    BY <1>0, <1>1, <1>6, <2>1, <2>2, <2>4 DEF Read
<1>9. Results'
  <2> SUFFICES ASSUME NEW m \in Served PROVE ResultOf(m)'
    BY <1>6 DEF Results
  <2>1. m \in Notifiers /\ ResultOf(m)
    BY <1>0 DEF Results, Served
  <2>2. CASE m # n
    <3>1. SameRun(m) /\ RanTo(m)' = RanTo(m)
      <4>1. notifier'[m] = notifier[m] /\ Ran(m)' = Ran(m)
        BY <1>3, <1>6, <2>1, <2>2
      <4>2. SameRun(m)
        BY <4>1 DEF SameRun
      <4>3. RanTo(m)' = RanTo(m)
        BY <1>3, <4>1, SMTT(60) DEF RanTo
      <4> QED
        BY <4>2, <4>3
    <3> QED
      BY <1>0, <1>1, <1>6, <2>1, <3>1, ResultKept
  <2>3. CASE m = n
    <3>1. /\ n \in Callbacks => notifier[n].changes = {}
          /\ notifier[n].tv = 0 /\ (~notifier[n].lapsed => notifier[n].wants)
          /\ notifier[n].toDeliver # NoView =>
                /\ notifier[n].toDeliver.version # 0 /\ notifier[n].toDeliver.version <= latest
                /\ notifier[n].toDeliver.content = Content(notifier[n].toDeliver.version)
      BY <1>5, <2>1, <2>3 DEF ResultOf
    <3>2. notifier'[n].toDeliver # NoView =>
             notifier'[n].toDeliver.content = Content(notifier[n].toDeliver.version)'
      BY <1>4, <1>7, <3>1
    <3>3. ~Ran(n)' /\ ~notifier'[n].hasRun /\ notifier'[n].handover = NoView
      BY <1>4, <1>5, <1>6
    <3> QED
      BY <1>1, <1>4, <2>3, <3>1, <3>2, <3>3, ZenonT(60) DEF ResultOf
  <2> QED
    BY <2>2, <2>3
<1>10. Views'
  <2> SUFFICES ASSUME NEW m \in Notifiers, KeptUp(m)' PROVE ViewOf(m)'
    BY DEF Views
  <2>1. ViewOf(m)
    BY <1>0, <1>3, <1>4 DEF Views, KeptUp
  <2>2. CASE m # n
    <3>1. notifier'[m].view = notifier[m].view
          /\ Content(notifier[m].view.version)' = Content(notifier[m].view.version)
      BY <1>1, <1>3, <2>1, <2>2, ZenonT(60) DEF Content
    <3> QED
      BY <1>1, <2>1, <3>1, SMTT(60) DEF ViewOf
  <2>3. CASE m = n
    <3>1. notifier'[n].view.version = at[r] /\ notifier'[n].view.content = Content(at[r])
      BY <1>4, SMTT(60) DEF x
    <3>2. Content(notifier[n].view.version)' = Content(at[r])
      BY <1>1, <3>1 DEF Content
    <3> QED
      BY <1>1, <1>2, <2>3, <3>1, <3>2 DEF ViewOf
  <2> QED
    BY <2>2, <2>3
<1>11. Telling'
  <2> SUFFICES ASSUME NEW m \in Blocks PROVE TellingOf(m)'
    BY <1>6 DEF Telling
  <2>1. m \in Notifiers /\ TellingOf(m)
    BY <1>0 DEF Telling, Blocks
  <2>2. CASE m # n
    <3>1. SameCall(m)
      BY <1>3, <2>1, <2>2 DEF SameCall
    <3> QED
      BY <1>0, <1>1, <2>1, <3>1, TellingKept
  <2>3. CASE m = n
    <3>1. ~UnderWay(n)'
      BY <1>1 DEF UnderWay
    <3> QED
      BY <1>4, <1>5, <2>1, <2>3, <3>1 DEF TellingOf
  <2> QED
    BY <2>2, <2>3
<1>12. Calls'
  <2> SUFFICES ASSUME NEW s \in Realms PROVE CallOf(s)'
    BY DEF Calls
  <2>1. CallOf(s)
    BY <1>0 DEF Calls
  <2>2. s = r => op[s].stage = "idle"
    BY <1>1
  <2> QED
    BY <1>1, <1>6, <2>1, <2>2 DEF CallOf
<1> QED
  BY <1>8, <1>9, <1>10, <1>11, <1>12 DEF JInv

(* What the steps of the worker have in common. *)
LEMMA WorkerFrame ==
    ASSUME IInv, JInv, UNCHANGED << latest, touched, writer, at, op >>,
           \A n \in Notifiers :
              /\ notifier'[n].alive = notifier[n].alive /\ notifier'[n].view = notifier[n].view
              /\ notifier'[n].lapsed = notifier[n].lapsed
              /\ notifier[n].alive /\ notifier'[n].list \in {"new", "main"} =>
                    notifier[n].list \in {"new", "main"},
           Read',
           \A n \in Served : ResultOf(n)',
           \A n \in Blocks : TellingOf(n)'
    PROVE  JInv'
<1>0. Callbacks \subseteq Notifiers /\ Read /\ Views /\ Calls
  BY CoordinatorAssumption DEF JInv
<1>1. Blocks' = Blocks /\ Served' = Served
  BY <1>0 DEF Blocks, Served, KeptUp
<1>2. Views'
  <2>1. \A n \in Notifiers : notifier'[n].view = notifier[n].view /\ (KeptUp(n)' => KeptUp(n))
    BY DEF KeptUp
  <2> QED
    BY <1>0, <2>1, ViewsKept
<1>3. Calls'
  <2> SUFFICES ASSUME NEW s \in Realms PROVE CallOf(s)'
    BY DEF Calls
  <2>1. \A n \in Blocks : n \in Main' \union New' => n \in Main \union New
    BY <1>0 DEF Blocks, Main, New
  <2>2. CallOf(s)
    BY <1>0 DEF Calls
  <2> QED
    BY <1>1, <2>1, <2>2 DEF CallOf
<1> QED
  BY <1>1, <1>2, <1>3 DEF JInv, Results, Telling

(* A notifier that the step of the worker leaves alone. *)
LEMMA LeftAlone ==
    ASSUME IInv, JInv, NEW n \in Notifiers, UNCHANGED << latest, touched, at, op >>,
           SameRun(n), SameCall(n), ~Ran(n), ~Ran(n)'
    PROVE  (n \in Served => ResultOf(n)') /\ (n \in Blocks => TellingOf(n)')
<1>1. Read /\ (n \in Served => ResultOf(n)) /\ (n \in Blocks => TellingOf(n))
  BY DEF JInv, Results, Telling
<1>2. RanTo(n)' = RanTo(n) /\ Ran(n)' = Ran(n)
  BY DEF RanTo, SameRun, Ran
<1> QED
  BY <1>1, <1>2, ResultKept, TellingKept

LEMMA ListsJStep ==
    ASSUME IInv, JInv, NothingToRun \/ SelectNotifiers \/ SignalRealms
    PROVE  JInv'
<1>0. Callbacks \subseteq Notifiers /\ Read /\ Typed /\ \A n \in Notifiers : notifier[n] \in Record
  BY CoordinatorAssumption DEF JInv, IInv, Typed
<1>1. /\ UNCHANGED << latest, touched, writer, at, op >>
      /\ worker.stage \notin {"skipped", "handover"}
  BY DEF NothingToRun, SelectNotifiers, SignalRealms, RealmUnchanged
<1>2. worker'.stage \notin {"skipped", "handover"}
  BY DEF NothingToRun, SelectNotifiers, SignalRealms, Listening
<1> DEFINE old == Main \ Dead(Main)
           new == New \ Dead(New)
<1>3. ASSUME NEW n \in Notifiers
      PROVE  /\ \/ notifier'[n] = notifier[n]
                \/ notifier'[n] = [notifier[n] EXCEPT !.list = "gone"] /\ ~notifier[n].alive
                   /\ notifier[n].list # "none"
                \/ notifier'[n] = [notifier[n] EXCEPT !.list = "main"] /\ n \in new
  <2>1. CASE NothingToRun
    BY <2>1 DEF NothingToRun, CleanedUp, Dead, Main, New
  <2>2. CASE SelectNotifiers
    BY <2>2 DEF SelectNotifiers, CleanedUp, Dead, Main, New
  <2>3. CASE SignalRealms
    BY <2>3 DEF SignalRealms
  <2> QED
    BY <2>1, <2>2, <2>3
<1>4. ASSUME NEW n \in Notifiers
      PROVE  /\ SameRun(n) /\ SameCall(n)
             /\ notifier'[n].alive = notifier[n].alive /\ notifier'[n].view = notifier[n].view
             /\ notifier'[n].lapsed = notifier[n].lapsed
             /\ notifier'[n].list = notifier[n].list
                \/ (notifier'[n].list = "gone" /\ ~notifier[n].alive /\ notifier[n].list # "none")
                \/ (notifier'[n].list = "main" /\ n \in new)
  <2> HIDE DEF new
  <2>1. CASE notifier'[n] = notifier[n]
    BY <2>1 DEF SameRun, SameCall
  <2>2. CASE /\ notifier'[n] = [notifier[n] EXCEPT !.list = "gone"] /\ ~notifier[n].alive
             /\ notifier[n].list # "none"
    BY <1>0, <2>2 DEF SameRun, SameCall, Record
  <2>3. CASE notifier'[n] = [notifier[n] EXCEPT !.list = "main"] /\ n \in new
    BY <1>0, <2>3 DEF SameRun, SameCall, Record
  <2> QED
    BY <1>3, <2>1, <2>2, <2>3
<1>5. \A n \in Notifiers : /\ notifier'[n].version = notifier[n].version
                           /\ notifier'[n].hasRun = notifier[n].hasRun
  BY <1>4 DEF SameRun
<1>6. \A n \in new : n \in Notifiers /\ notifier[n].list = "new" /\ ~notifier[n].hasRun
  BY DEF New, IInv, Versions, VersionOf
<1>7. \A n \in Main' : n \in Notifiers /\ (n \in Main \/ n \in new)
  BY <1>4 DEF Main
<1>8. \A n \in Main' : n \in Main => helper' = helper
  <2>1. CASE NothingToRun
    <3>1. Main' = {}
      <4> SUFFICES ASSUME NEW n \in Notifiers, notifier'[n].list = "main" PROVE FALSE
        BY DEF Main
      <4>1. Main \union New \subseteq Dead(Notifiers) /\ notifier' = CleanedUp
        BY <2>1 DEF NothingToRun
      <4>2. n \in Main \/ n \in New
        BY <1>4 DEF Main
      <4>3. CleanedUp[n].list = "gone"
        BY <1>0, <4>1, <4>2, CleanedUpTyped DEF Dead
      <4> QED
        BY <4>1, <4>3
    <3> QED
      BY <3>1
  <2>2. CASE SelectNotifiers
    <3>1. helper' = IF old = {} THEN latest ELSE helper
      BY <2>2 DEF SelectNotifiers
    <3>2. ASSUME NEW n \in Main', n \in Main PROVE n \in old
      <4>1. n \in Notifiers /\ notifier[n].list = "main" /\ notifier'[n].list = "main"
        BY <3>2 DEF Main
      <4>2. ~notifier[n].alive => CleanedUp[n].list = "gone" /\ n \notin new
        BY <1>0, <1>6, <3>2, <4>1, CleanedUpTyped
      <4>3. n \notin new => notifier'[n] = CleanedUp[n]
        BY <2>2, <4>1 DEF SelectNotifiers
      <4> QED
        BY <3>2, <4>1, <4>2, <4>3 DEF Dead
    <3> QED
      BY <3>1, <3>2
  <2>3. CASE SignalRealms
    BY <2>3 DEF SignalRealms
  <2> QED
    BY <2>1, <2>2, <2>3
<1> HIDE DEF old, new
<1>9. Read'
  <2>1. \A n \in Notifiers : notifier'[n].list # "none" => notifier'[n].version # 0
    BY <1>0, <1>4, <1>5, <1>6 DEF Read
  <2>2. \A n \in Notifiers : notifier'[n].list = "gone" => ~notifier'[n].alive
    BY <1>0, <1>4 DEF Read
  <2>3. \A n \in Main' : notifier'[n].hasRun => notifier'[n].version <= helper'
    BY <1>0, <1>5, <1>6, <1>7, <1>8 DEF Read
  <2> QED
    BY <1>0, <1>1, <2>1, <2>2, <2>3 DEF Read
<1>10. ASSUME NEW n \in Notifiers
       PROVE  (n \in Served => ResultOf(n)') /\ (n \in Blocks => TellingOf(n)')
  <2>1. ~Ran(n) /\ ~Ran(n)'
    BY <1>1, <1>2 DEF Ran
  <2> QED
    BY <1>1, <1>4, <2>1, LeftAlone
<1>11. \A n \in Notifiers :
          /\ notifier'[n].alive = notifier[n].alive /\ notifier'[n].view = notifier[n].view
          /\ notifier'[n].lapsed = notifier[n].lapsed
          /\ notifier[n].alive /\ notifier'[n].list \in {"new", "main"} =>
                notifier[n].list \in {"new", "main"}
  BY <1>4, <1>6
<1> QED
  <2>1. (\A n \in Served : ResultOf(n)') /\ (\A n \in Blocks : TellingOf(n)')
    BY <1>0, <1>10 DEF Served, Blocks
  <2> QED
    BY <1>1, <1>9, <1>11, <2>1, WorkerFrame

(* A query that is run. *)
LEMMA RunIs ==
    ASSUME Typed, NEW n \in Notifiers, NEW v \in Nat, v # 0
    PROVE  LET old == notifier[n]
               rec == Run(n, v)
           IN /\ rec.version = old.version /\ rec.hasRun = old.hasRun /\ rec.alive = old.alive
              /\ rec.list = old.list /\ rec.view = old.view
              /\ rec.lapsed = old.lapsed /\ rec.wants = old.wants
              /\ rec.handover = old.handover /\ rec.toDeliver = old.toDeliver
              /\ rec.initial = old.initial /\ rec.since = old.since /\ rec.told = old.told
              /\ rec.toTell = old.toTell /\ rec.accumulated = old.accumulated
              /\ NeedToRun(n, v) =>
                    /\ rec.tv = Content(v) /\ rec.lastSeen = Content(v)
                    /\ rec.changes = IF old.hasRun /\ n \in Callbacks
                                     THEN Between(old.lastSeen, v) ELSE {}
              /\ ~NeedToRun(n, v) => rec = old
<1> DEFINE c == Content(v)
           p == IF notifier[n].hasRun /\ n \in Callbacks THEN Between(notifier[n].lastSeen, v) ELSE {}
           old == notifier[n]
           rec == Run(n, v)
<1>1. old \in Record
  BY DEF Typed
<1>2. CASE ~NeedToRun(n, v)
  BY <1>2 DEF Run
<1>3. CASE NeedToRun(n, v)
  <2>1. rec = [old EXCEPT !.tv = c, !.lastSeen = c, !.changes = p]
    BY <1>3 DEF Run, Between
  <2> HIDE DEF c, p, old, rec
  <2>2. /\ rec.version = old.version /\ rec.hasRun = old.hasRun /\ rec.alive = old.alive
        /\ rec.list = old.list /\ rec.view = old.view
        /\ rec.handover = old.handover /\ rec.toDeliver = old.toDeliver
    BY <1>1, <2>1 DEF Record
  <2>3. /\ rec.initial = old.initial /\ rec.since = old.since /\ rec.told = old.told
        /\ rec.toTell = old.toTell /\ rec.accumulated = old.accumulated
        /\ rec.lapsed = old.lapsed /\ rec.wants = old.wants
        /\ rec.tv = c /\ rec.lastSeen = c /\ rec.changes = p
    BY <1>1, <2>1 DEF Record
  <2> QED
    BY <1>3, <2>2, <2>3 DEF c, p, old, rec
<1> QED
  BY <1>2, <1>3

(* What a query has found, once it has been run. *)
LEMMA ResultRun ==
    ASSUME IInv, JInv, NEW n \in Served, NEW v \in Nat, v # 0, v <= latest,
           n \in Main, ~Ran(n), helper <= v, UNCHANGED << latest, touched >>,
           notifier'[n] = Run(n, v), RanTo(n)' = v, Ran(n)'
    PROVE  ResultOf(n)'
<1> DEFINE old == notifier[n]
           new == notifier'[n]
<1>0. n \in Notifiers /\ old.alive /\ KeptUp(n) /\ ResultOf(n) /\ Read /\ Typed /\ old \in Record
  BY DEF JInv, Served, Results, IInv, Typed
<1>1. old.version \in Nat /\ old.version # 0 /\ (old.hasRun => old.version <= v) /\ helper \in Nat
  BY <1>0 DEF Record, Typed, Read, Main
<1>2. RanTo(n) = old.version
  BY DEF RanTo
<1>3. /\ old.hasRun => old.lastSeen = Content(old.version)
      /\ n \in Callbacks => old.changes = {}
      /\ n \in Callbacks \/ old.wants
      /\ ~old.lapsed => old.wants
      /\ ~old.hasRun => old.tv = 0
      /\ old.tv # 0 => old.hasRun /\ old.tv = Content(old.version)
      /\ old.handover # NoView => old.handover.content = Content(old.version)
      /\ old.toDeliver # NoView =>
            /\ old.toDeliver.version # 0 /\ old.toDeliver.version <= latest
            /\ old.toDeliver.content = Content(old.toDeliver.version)
  <2>1. Between(old.version, old.version) = {}
    BY <1>0, <1>1, BetweenJoin
  <2> QED
    BY <1>0, <1>2, <2>1 DEF ResultOf, KeptUp
<1>4. old.hasRun => /\ Between(Content(old.version), v) = Between(old.version, v)
                    /\ (Content(old.version) = Content(v) <=> Between(old.version, v) = {})
  BY <1>0, <1>1, SameContent
<1>5. Content(v) # 0
  BY <1>0, SameContent
<1>6. /\ new.version = old.version /\ new.hasRun = old.hasRun
      /\ new.handover = old.handover /\ new.toDeliver = old.toDeliver
      /\ new.lapsed = old.lapsed /\ new.wants = old.wants
      /\ NeedToRun(n, v) =>
            /\ new.tv = Content(v) /\ new.lastSeen = Content(v)
            /\ n \in Callbacks =>
                  new.changes = IF old.hasRun THEN Between(old.lastSeen, v) ELSE {}
      /\ ~NeedToRun(n, v) => new = old
  BY <1>0, RunIs
<1>7. ~NeedToRun(n, v) => old.hasRun /\ old.lastSeen = Content(v)
  BY <1>0, <1>3 DEF NeedToRun
<1>8. /\ new.lastSeen = Content(v)
      /\ n \in Callbacks => new.changes = IF new.hasRun THEN Between(old.version, v) ELSE {}
      /\ new.tv # 0 => new.tv = Content(v)
      /\ new.tv = 0 => new.hasRun /\ Content(v) = Content(old.version)
  <2>1. CASE NeedToRun(n, v)
    BY <1>3, <1>4, <1>5, <1>6, <2>1
  <2>2. CASE ~NeedToRun(n, v)
    BY <1>3, <1>4, <1>6, <1>7, <2>2
  <2> QED
    BY <2>1, <2>2
<1> HIDE DEF new
<1>9. /\ Content(RanTo(n))' = Content(v) /\ Content(notifier[n].version)' = Content(old.version)
      /\ Between(notifier[n].version, RanTo(n))' = Between(old.version, v)
      /\ Content(notifier[n].toDeliver.version)' = Content(old.toDeliver.version)
  BY <1>6 DEF Content, Between, new
<1>10. /\ new.handover # NoView => new.handover.content = Content(notifier[n].version)'
       /\ new.toDeliver # NoView =>
             /\ new.toDeliver.version # 0 /\ new.toDeliver.version <= latest'
             /\ new.toDeliver.content = Content(notifier[n].toDeliver.version)'
  BY <1>3, <1>6, <1>9
<1>11. /\ new.lastSeen = Content(RanTo(n))'
       /\ ~new.lapsed => new.wants
       /\ n \in Callbacks =>
             new.changes = IF new.hasRun THEN Between(notifier[n].version, RanTo(n))' ELSE {}
       /\ new.tv # 0 => new.tv = Content(RanTo(n))'
       /\ new.tv = 0 => new.hasRun /\ Content(RanTo(n))' = Content(notifier[n].version)'
  BY <1>3, <1>6, <1>8, <1>9
<1> QED
  BY <1>10, <1>11 DEF ResultOf, new

LEMMA RunAllJStep ==
    ASSUME IInv, JInv, NEW ns \in SUBSET Main, NEW v \in Nat, v # 0, v <= latest, helper <= v,
           RunAll(ns, v), helper' = v,
           UNCHANGED << latest, touched, writer, at, op >>,
           \A n \in Notifiers : ~Ran(n) /\ (Ran(n)' <=> n \in ns)
    PROVE  JInv'
<1>0. /\ Callbacks \subseteq Notifiers /\ Read /\ Typed /\ Telling
      /\ \A n \in Main : n \in Notifiers
  BY CoordinatorAssumption DEF JInv, IInv, Main
<1>1. \A n \in Notifiers : notifier'[n] = IF n \in ns THEN Run(n, v) ELSE notifier[n]
  BY DEF RunAll
<1>2. ASSUME NEW n \in Notifiers
      PROVE  /\ SameCall(n) /\ notifier'[n].alive = notifier[n].alive
             /\ notifier'[n].view = notifier[n].view /\ notifier'[n].list = notifier[n].list
             /\ notifier'[n].lapsed = notifier[n].lapsed
             /\ (n \notin ns => SameRun(n))
  <2>1. CASE n \in ns
    <3> DEFINE new == Run(n, v)
               old == notifier[n]
    <3>1. /\ new.version = old.version /\ new.hasRun = old.hasRun /\ new.alive = old.alive
          /\ new.list = old.list /\ new.view = old.view /\ new.lapsed = old.lapsed
          /\ new.initial = old.initial /\ new.since = old.since /\ new.told = old.told
          /\ new.toTell = old.toTell /\ new.accumulated = old.accumulated
      BY <1>0, RunIs
    <3>2. notifier'[n] = new
      BY <1>1, <2>1
    <3> HIDE DEF new
    <3> QED
      BY <2>1, <3>1, <3>2 DEF SameCall
  <2>2. CASE n \notin ns
    BY <1>1, <2>2 DEF SameCall, SameRun
  <2> QED
    BY <2>1, <2>2
<1>3. Read'
  <2>1. Main' = Main
    BY <1>2 DEF Main
  <2>2. \A n \in Notifiers : /\ notifier'[n].version = notifier[n].version
                             /\ notifier'[n].hasRun = notifier[n].hasRun
    BY <1>2 DEF SameCall
  <2>3. helper \in Nat /\ \A n \in Notifiers : notifier[n].version \in Nat
    BY <1>0 DEF Typed, Record
  <2>4. \A n \in Main : notifier'[n].hasRun => notifier'[n].version <= helper'
    BY <1>0, <2>2, <2>3 DEF Read
  <2> QED
    BY <1>0, <1>2, <2>1, <2>2, <2>4 DEF Read
<1>4. ASSUME NEW n \in Notifiers
      PROVE  (n \in Served => ResultOf(n)') /\ (n \in Blocks => TellingOf(n)')
  <2>1. n \in Blocks => TellingOf(n)
    BY <1>0 DEF Telling
  <2>2. CASE n \in ns
    <3>1. RanTo(n)' = v
      BY <2>1, <2>2 DEF RanTo
    <3>2. n \in Served => ResultOf(n)'
      BY <1>1, <2>1, <2>2, <3>1, ResultRun
    <3> QED
      BY <1>0, <1>2, <2>1, <3>2, TellingKept
  <2>3. CASE n \notin ns
    BY <1>2, <2>1, <2>3, LeftAlone
  <2> QED
    BY <2>2, <2>3
<1> QED
  <2>1. (\A n \in Served : ResultOf(n)') /\ (\A n \in Blocks : TellingOf(n)')
    BY <1>0, <1>4 DEF Served, Blocks
  <2> QED
    BY <1>2, <1>3, <2>1, WorkerFrame

LEMMA RunJStep ==
    ASSUME IInv, JInv, RunToSkip \/ RunNotifiers
    PROVE  JInv'
<1>1. /\ worker.to \in Nat /\ worker.skip \in Nat /\ worker.to <= latest
      /\ worker.skip <= latest /\ helper \in Nat /\ worker \in Work
  BY DEF IInv, Typed, Work, Versions
<1>2. CASE RunToSkip
  <2>1. /\ worker.stage = "skip" /\ helper' = worker.skip /\ RunAll(worker.old, worker.skip)
        /\ worker' = [worker EXCEPT !.stage = "skipped"]
        /\ UNCHANGED << latest, touched, writer, at, op >>
    BY <1>2 DEF RunToSkip, RealmUnchanged
  <2>2. worker'.stage = "skipped" /\ worker'.old = worker.old
    BY <1>1, <2>1 DEF Work
  <2>3. worker.old \in SUBSET Main
    BY <2>1 DEF IInv, Working, AtWork
  <2>4. worker.skip # 0 /\ helper <= worker.skip
    BY <1>1, <2>1 DEF IInv, WorkerInOrder, SkipIsAhead
  <2>5. \A n \in Notifiers : ~Ran(n) /\ (Ran(n)' <=> n \in worker.old)
    BY <2>1, <2>2 DEF Ran
  <2> QED
    BY <1>1, <2>1, <2>3, <2>4, <2>5, RunAllJStep
<1>3. CASE RunNotifiers
  <2>1. /\ worker.stage = "run" /\ helper' = worker.to
        /\ RunAll(worker.old \union worker.new, worker.to)
        /\ worker' = [worker EXCEPT !.stage = "handover"]
        /\ UNCHANGED << latest, touched, writer, at, op >>
    BY <1>3 DEF RunNotifiers, RealmUnchanged
  <2>2. worker'.stage = "handover" /\ worker'.old = worker.old /\ worker'.new = worker.new
    BY <1>1, <2>1 DEF Work
  <2>3. worker.old \union worker.new \in SUBSET Main /\ worker.to # 0
    BY <2>1 DEF IInv, Working, AtWork
  <2>4. helper <= worker.to
    BY <2>1 DEF IInv, WorkerInOrder, SkipIsAhead
  <2>5. \A n \in Notifiers : ~Ran(n) /\ (Ran(n)' <=> n \in worker.old \union worker.new)
    BY <2>1, <2>2 DEF Ran
  <2> QED
    BY <1>1, <2>1, <2>3, <2>4, <2>5, RunAllJStep
<1> QED
  BY <1>2, <1>3

(* A notifier that is prepared for the hand-over, but for the list it is in. *)
HandedOver(n) ==
    LET old == notifier[n]
        rec == notifier'[n]
    IN /\ rec.version = helper /\ rec.hasRun /\ rec.lastSeen = old.lastSeen /\ rec.tv = 0
       /\ rec.changes = {} /\ rec.accumulated = old.accumulated \union old.changes
       /\ rec.handover = HandoverOf(n, helper) /\ rec.toDeliver = old.toDeliver
       /\ rec.toTell = old.toTell /\ rec.view = old.view /\ rec.alive = old.alive
       /\ rec.initial = old.initial /\ rec.since = old.since /\ rec.told = old.told
       /\ rec.lapsed = old.lapsed /\ rec.wants = old.wants

LEMMA PrepareIs ==
    ASSUME Typed, NEW n \in Notifiers, NEW list \in {"none", "new", "main", "gone"},
           notifier'[n] = [PrepareHandover(n, helper) EXCEPT !.list = list]
    PROVE  HandedOver(n) /\ notifier'[n].list = list
<1> DEFINE old == notifier[n]
           rec == notifier'[n]
           h == HandoverOf(n, helper)
           a == old.accumulated \union old.changes
           p == PrepareHandover(n, helper)
<1>1. old \in Record /\ p \in Record
  BY PrepareTyped DEF Typed
<1>2. p = [old EXCEPT !.version = helper, !.hasRun = TRUE, !.handover = h, !.tv = 0,
                      !.accumulated = a, !.changes = {}]
  BY DEF PrepareHandover
<1> HIDE DEF h, a, p
<1>3. /\ p.version = helper /\ p.hasRun /\ p.lastSeen = old.lastSeen /\ p.tv = 0
      /\ p.changes = {} /\ p.accumulated = a /\ p.handover = h
  BY <1>1, <1>2 DEF Record
<1>4. /\ p.toDeliver = old.toDeliver
      /\ p.toTell = old.toTell /\ p.view = old.view /\ p.alive = old.alive
      /\ p.initial = old.initial /\ p.since = old.since /\ p.told = old.told
      /\ p.lapsed = old.lapsed /\ p.wants = old.wants
  BY <1>1, <1>2 DEF Record
<1>5. rec = [p EXCEPT !.list = list]
  BY DEF p
<1> HIDE DEF rec
<1>6. /\ rec.version = p.version /\ rec.hasRun = p.hasRun /\ rec.lastSeen = p.lastSeen
      /\ rec.tv = p.tv /\ rec.changes = p.changes /\ rec.accumulated = p.accumulated
      /\ rec.handover = p.handover /\ rec.list = list
  BY <1>1, <1>5 DEF Record
<1>7. /\ rec.toDeliver = p.toDeliver
      /\ rec.toTell = p.toTell /\ rec.view = p.view /\ rec.alive = p.alive
      /\ rec.initial = p.initial /\ rec.since = p.since /\ rec.told = p.told
      /\ rec.lapsed = p.lapsed /\ rec.wants = p.wants
  BY <1>1, <1>5 DEF Record
<1> QED
  BY <1>3, <1>4, <1>6, <1>7 DEF HandedOver, rec, h, a

(* What a block has been told, and what it will be, when more is handed over. *)
LEMMA PreparedBlock ==
    ASSUME IInv, JInv, NEW n \in Notifiers, Ran(n), ~Ran(n)', HandedOver(n),
           UNCHANGED << latest, touched, at, op >>
    PROVE  (n \in Served => ResultOf(n)') /\ (n \in Blocks => TellingOf(n)')
<1> DEFINE old == notifier[n]
           rec == notifier'[n]
           r == Owner[n]
<1>0. /\ n \in Served => ResultOf(n)
      /\ n \in Blocks => n \in Served /\ n \in Callbacks /\ TellingOf(n)
      /\ Read /\ Typed /\ old \in Record
      /\ r \in Realms /\ op[r].to \in Nat
  BY CoordinatorAssumption
     DEF JInv, Blocks, Served, KeptUp, Results, Telling, IInv, Typed, Operation
<1>1. /\ RanTo(n) = helper /\ helper \in Nat /\ helper # 0 /\ helper <= latest /\ n \in Main
      /\ old.version \in Nat /\ old.since \in Nat
      /\ old.hasRun => old.version <= helper /\ old.version # 0
  BY <1>0, Facts DEF RanTo, Record, IInv, Versions, Typed
<1>2. /\ rec.version = helper /\ rec.hasRun /\ rec.lastSeen = old.lastSeen /\ rec.tv = 0
      /\ rec.changes = {} /\ rec.accumulated = old.accumulated \union old.changes
      /\ rec.handover = HandoverOf(n, helper) /\ rec.toDeliver = old.toDeliver
      /\ rec.toTell = old.toTell
      /\ rec.initial = old.initial /\ rec.since = old.since /\ rec.told = old.told
      /\ rec.lapsed = old.lapsed /\ rec.wants = old.wants
  BY DEF HandedOver
<1>3. RanTo(n)' = helper
  BY <1>2 DEF RanTo
<1>4. ASSUME n \in Served
      PROVE
      /\ old.lastSeen = Content(helper)
      /\ ~old.lapsed => old.wants
      /\ n \in Callbacks => old.changes = IF old.hasRun THEN Between(old.version, helper) ELSE {}
      /\ old.tv # 0 => old.tv = Content(helper)
      /\ old.tv = 0 => old.hasRun /\ Content(helper) = Content(old.version)
      /\ old.handover # NoView => old.handover.content = Content(old.version)
      /\ old.toDeliver # NoView =>
            /\ old.toDeliver.version # 0 /\ old.toDeliver.version <= latest
            /\ old.toDeliver.content = Content(old.toDeliver.version)
  BY <1>0, <1>1, <1>4 DEF ResultOf
<1>5. ASSUME n \in Served PROVE rec.handover # NoView => rec.handover.content = Content(helper)
  <2>1. CASE old.tv # 0
    <3>1. rec.handover = [version |-> helper, content |-> old.tv]
      BY <1>2, <2>1 DEF HandoverOf
    <3> QED
      BY <1>4, <1>5, <2>1, <3>1
  <2>2. CASE old.tv = 0 /\ old.handover # NoView
    <3>1. rec.handover = [old.handover EXCEPT !.version = helper]
      BY <1>2, <2>2 DEF HandoverOf
    <3>2. old.handover \in View
      BY <1>0 DEF Record
    <3>3. rec.handover.content = old.handover.content
      BY <3>1, <3>2 DEF View
    <3> QED
      BY <1>4, <1>5, <2>2, <3>3
  <2>3. CASE old.tv = 0 /\ old.handover = NoView
    BY <1>2, <2>3 DEF HandoverOf
  <2> QED
    BY <2>1, <2>2, <2>3
<1>6. Between(helper, helper) = {}
  BY <1>0, <1>1, BetweenJoin
<1> HIDE DEF rec
<1>7. ASSUME n \in Served PROVE ResultOf(n)'
  <2>1. /\ Content(RanTo(n))' = Content(helper)
        /\ Content(notifier[n].version)' = Content(helper)
        /\ Between(notifier[n].version, RanTo(n))' = Between(helper, helper)
        /\ Content(notifier[n].toDeliver.version)' = Content(old.toDeliver.version)
    BY <1>2, <1>3 DEF Content, Between, rec
  <2> QED
    BY <1>2, <1>4, <1>5, <1>6, <1>7, <2>1 DEF ResultOf, rec
<1>8. ASSUME n \in Blocks PROVE TellingOf(n)'
  <2>1. UnderWay(n)' <=> UnderWay(n)
    BY DEF UnderWay
  <2>2. /\ op[r].to \in Nat
        /\ UnderWay(n) => /\ old.hasRun /\ op[r].to # 0 /\ op[r].to <= old.version
                          /\ old.accumulated = Between(op[r].to, old.version)
    BY <1>0, <1>8 DEF TellingOf
  <2>3. UnderWay(n) => /\ op[r].to <= rec.version
                       /\ rec.accumulated = Between(op[r].to, rec.version)
    BY <1>0, <1>1, <1>2, <1>4, <1>8, <2>2, BetweenJoin
  <2>4. Between(op[Owner[n]].to, notifier[n].version)' = Between(op[r].to, rec.version)
    BY DEF Between, rec
  <2>5. ASSUME old.initial PROVE \E q \in Nat : ToldTo(n, q)'
    <3>1. PICK q \in Nat : ToldTo(n, q)
      BY <1>0, <1>8, <2>5 DEF TellingOf
    <3>2. old.hasRun
      BY <1>0, <1>8, <2>5 DEF TellingOf
    <3>3. /\ old.since <= q /\ q <= old.version
          /\ q <= at[r] /\ at[r] <= q + 1
          /\ old.told = Between(old.since, q)
          /\ op[r].stage = "write" => q = at[r]
          /\ UnderWay(n) => q <= op[r].to /\ old.toTell = Between(q, op[r].to)
          /\ ~UnderWay(n) => old.accumulated = Between(q, old.version)
      BY <3>1 DEF ToldTo
    <3>4. q <= helper /\ (~UnderWay(n) => rec.accumulated = Between(q, helper))
      BY <1>0, <1>1, <1>2, <1>4, <1>8, <3>2, <3>3, BetweenJoin
    <3>5. /\ Between(notifier[n].since, q)' = Between(old.since, q)
          /\ Between(q, op[Owner[n]].to)' = Between(q, op[r].to)
          /\ Between(q, notifier[n].version)' = Between(q, helper)
      BY <1>2 DEF Between, rec
    <3>6. ToldTo(n, q)'
      BY <1>2, <2>1, <3>3, <3>4, <3>5 DEF ToldTo, rec
    <3> QED
      BY <3>6
  <2> QED
    BY <1>0, <1>2, <1>8, <2>1, <2>2, <2>3, <2>4, <2>5 DEF TellingOf, rec
<1> QED
  BY <1>7, <1>8

LEMMA HandOversJStep ==
    ASSUME IInv, JInv, HandOverSkipped \/ HandOver
    PROVE  JInv'
<1> DEFINE ns == IF worker.stage = "skipped" THEN worker.old ELSE worker.old \union worker.new
<1>0. /\ Callbacks \subseteq Notifiers /\ Read /\ Typed /\ helper \in Nat /\ worker \in Work
      /\ \A n \in Notifiers : notifier[n] \in Record
  BY CoordinatorAssumption DEF JInv, IInv, Typed
<1>1. /\ UNCHANGED << latest, touched, writer, at, op >>
      /\ worker.stage \in {"skipped", "handover"} /\ worker'.stage \in {"run", "signal"}
  BY <1>0 DEF HandOverSkipped, HandOver, RealmUnchanged, Listening, Work
<1>2. \A n \in Notifiers : (Ran(n) <=> n \in ns) /\ ~Ran(n)'
  BY <1>1 DEF Ran
<1>3. /\ helper # 0 /\ Main # {} /\ ns \subseteq Main /\ worker.old \union worker.new = Main
  BY <1>1 DEF IInv, Working, AtWork, WorkerInOrder, HelpersHoldVersions
<1>4. ASSUME NEW n \in Notifiers
      PROVE  \E list \in {notifier[n].list, CleanedUp[n].list} :
                /\ n \in ns => notifier'[n] = [PrepareHandover(n, helper) EXCEPT !.list = list]
                /\ n \notin ns => notifier'[n] = [notifier[n] EXCEPT !.list = list]
                /\ HandOver => list = CleanedUp[n].list
  <2>1. CASE HandOverSkipped
    <3>1. notifier'[n] = (IF n \in ns THEN PrepareHandover(n, helper) ELSE notifier[n])
          /\ ~HandOver
      BY <2>1 DEF HandOverSkipped, Prepared, HandOver
    <3> DEFINE p == PrepareHandover(n, helper)
    <3>2. p \in Record /\ p.list = notifier[n].list /\ notifier[n] \in Record
      BY <1>0, PrepareTyped
    <3> HIDE DEF p
    <3>3. p = [p EXCEPT !.list = notifier[n].list]
          /\ notifier[n] = [notifier[n] EXCEPT !.list = notifier[n].list]
      BY <3>2 DEF Record
    <3> QED
      BY <3>1, <3>3 DEF p
  <2>2. CASE HandOver
    BY <2>2 DEF HandOver, Prepared
  <2> QED
    BY <2>1, <2>2
<1>5. \A n \in Notifiers : notifier[n].list \in {"none", "new", "main", "gone"}
                           /\ CleanedUp[n].list \in {"none", "new", "main", "gone"}
  BY <1>0, CleanedUpTyped DEF Record
<1>6. ASSUME NEW n \in Notifiers
      PROVE  /\ n \in ns => HandedOver(n)
             /\ n \notin ns => /\ SameRun(n) /\ SameCall(n)
                               /\ notifier'[n].view = notifier[n].view
                               /\ notifier'[n].alive = notifier[n].alive
                               /\ notifier'[n].lapsed = notifier[n].lapsed
             /\ notifier'[n].list \in {notifier[n].list, CleanedUp[n].list}
             /\ HandOver => notifier'[n].list = CleanedUp[n].list
  <2>1. PICK list \in {notifier[n].list, CleanedUp[n].list} :
                /\ n \in ns => notifier'[n] = [PrepareHandover(n, helper) EXCEPT !.list = list]
                /\ n \notin ns => notifier'[n] = [notifier[n] EXCEPT !.list = list]
                /\ HandOver => list = CleanedUp[n].list
    BY <1>4
  <2>2. list \in {"none", "new", "main", "gone"}
    BY <1>5
  <2> HIDE DEF ns
  <2>3. CASE n \in ns
    BY <1>0, <2>1, <2>2, <2>3, PrepareIs
  <2>4. CASE n \notin ns
    <3>1. notifier'[n] = [notifier[n] EXCEPT !.list = list] /\ notifier[n] \in Record
      BY <1>0, <2>1, <2>4
    <3> QED
      BY <2>1, <2>4, <3>1 DEF SameRun, SameCall, Record
  <2> QED
    BY <2>3, <2>4
<1>7. \A n \in Notifiers :
         /\ notifier'[n].alive = notifier[n].alive /\ notifier'[n].view = notifier[n].view
         /\ notifier'[n].lapsed = notifier[n].lapsed
         /\ \/ notifier'[n].list = notifier[n].list
            \/ notifier'[n].list = "gone" /\ ~notifier[n].alive /\ notifier[n].list # "none"
  <2>1. \A n \in Notifiers :
           \/ CleanedUp[n].list = notifier[n].list
           \/ CleanedUp[n].list = "gone" /\ ~notifier[n].alive /\ notifier[n].list # "none"
    BY <1>0, CleanedUpTyped DEF Main, New
  <2> QED
    BY <1>6, <2>1 DEF HandedOver
<1>8. \A n \in Notifiers : notifier'[n].version =
         IF n \in ns THEN helper ELSE notifier[n].version
  BY <1>6 DEF HandedOver, SameRun
<1>9. \A n \in Notifiers : n \notin ns => notifier'[n].hasRun = notifier[n].hasRun
  BY <1>6 DEF SameRun
<1>10. \A n \in Main' : n \in Notifiers /\ n \in Main
  BY <1>7 DEF Main
<1>11. Main' # {} => helper' = helper
  <2>1. CASE HandOverSkipped
    BY <2>1 DEF HandOverSkipped
  <2>2. CASE HandOver
    <3>1. \A n \in Main' : notifier[n].alive
      BY <1>0, <1>6, <1>10, <2>2, CleanedUpTyped DEF Main
    <3>2. Main' # {} => ~MainDied
      BY <1>10, <3>1 DEF MainDied, Dead
    <3> QED
      BY <2>2, <3>2 DEF HandOver, HelperAfterCleanUp
  <2> QED
    BY <2>1, <2>2
<1> HIDE DEF ns
<1>12. Read'
  <2>1. \A n \in Notifiers : notifier'[n].list # "none" => notifier'[n].version # 0
    BY <1>0, <1>3, <1>7, <1>8 DEF Read
  <2>2. \A n \in Notifiers : notifier'[n].list = "gone" => ~notifier'[n].alive
    BY <1>0, <1>7 DEF Read
  <2>3. \A n \in Main' : notifier'[n].hasRun => notifier'[n].version <= helper'
    BY <1>0, <1>8, <1>9, <1>10, <1>11 DEF Read
  <2> QED
    BY <1>0, <1>1, <2>1, <2>2, <2>3 DEF Read
<1>13. ASSUME NEW n \in Notifiers
       PROVE  (n \in Served => ResultOf(n)') /\ (n \in Blocks => TellingOf(n)')
  <2>1. ~Ran(n)' /\ (Ran(n) <=> n \in ns)
    BY <1>2
  <2>2. CASE n \in ns
    BY <1>1, <1>6, <2>1, <2>2, PreparedBlock
  <2>3. CASE n \notin ns
    BY <1>1, <1>6, <2>1, <2>3, LeftAlone
  <2> QED
    BY <2>2, <2>3
<1>14. \A n \in Notifiers : notifier[n].alive /\ notifier'[n].list \in {"new", "main"} =>
          notifier[n].list \in {"new", "main"}
  BY <1>7
<1> QED
  <2>1. (\A n \in Served : ResultOf(n)') /\ (\A n \in Blocks : TellingOf(n)')
    BY <1>0, <1>13 DEF Served, Blocks
  <2> QED
    BY <1>1, <1>7, <1>12, <1>14, <2>1, WorkerFrame

LEMMA JStep == IInv /\ JInv /\ [Next]_vars => JInv'
<1> SUFFICES ASSUME IInv, JInv, [Next]_vars PROVE JInv'
  OBVIOUS
<1>1. CASE Worker
  BY <1>1, ListsJStep, RunJStep, HandOversJStep DEF Worker
<1>2. ASSUME NEW r \in Realms,
             \/ ReadGroup(r) \/ BeginTransaction(r) \/ EndTransaction(r)
             \/ Refresh(r) \/ Notify(r) \/ Proceed(r)
      PROVE  JInv'
  BY <1>2, QuietSteps, CommitWriteJStep, PackageJSteps, PromotedJStep, DeliverJStep
     DEF EndTransaction, Notify, Proceed
<1>3. ASSUME NEW n \in Notifiers, Watch(n) \/ Use(n) \/ Drop(n) PROVE JInv'
  BY <1>3, WatchJStep, UseJStep
<1>4. CASE UNCHANGED vars
  <2>1. UNCHANGED << latest, touched, at, op, notifier, helper, worker >>
    BY <1>4 DEF vars
  <2>2. Main' = Main /\ New' = New /\ Blocks' = Blocks /\ Served' = Served
    BY <2>1 DEF Main, New, Blocks, Served, KeptUp
  <2>3. \A a, b : Between(a, b)' = Between(a, b) /\ Content(a)' = Content(a)
    BY <2>1 DEF Between, Content
  <2>4. Read' /\ Calls'
    BY <2>1, <2>2 DEF JInv, Read, Calls, CallOf
  <2>5. Views'
    BY <2>1 DEF JInv, Views, ViewOf, Content, KeptUp
  <2>6. Results'
    <3> SUFFICES ASSUME NEW n \in Served PROVE ResultOf(n)'
      BY <2>2 DEF Results
    <3>1. n \in Notifiers /\ ResultOf(n) /\ Read
      BY DEF Served, JInv, Results
    <3>2. SameRun(n) /\ Ran(n)' = Ran(n) /\ RanTo(n)' = RanTo(n)
      BY <2>1 DEF SameRun, Ran, RanTo
    <3> QED
      BY <2>1, <3>1, <3>2, ResultKept
  <2>7. Telling'
    BY <2>1, <2>2 DEF JInv, Telling, TellingOf, ToldTo, UnderWay, Between
  <2> QED
    BY <2>4, <2>5, <2>6, <2>7 DEF JInv
<1> QED
  BY <1>1, <1>2, <1>3, <1>4 DEF Next

(* A block is called only by a refresh, by a notification or when its Realm   *)
(* starts to write, and even then a package is made of live notifiers.        *)
Untold(n) ==
    LET old == notifier[n]
        rec == notifier'[n]
    IN /\ rec.told = old.told /\ rec.toTell = old.toTell
       /\ rec.initial = old.initial /\ rec.since = old.since

LEMMA WorkerTellsNobody ==
    ASSUME IInv, JInv, Worker, NEW n \in Notifiers
    PROVE  Untold(n) /\ op' = op
<1>0. Typed /\ notifier[n] \in Record
  BY DEF IInv, Typed
<1>1. op' = op
  BY DEF Worker, NothingToRun, SelectNotifiers, RunToSkip, HandOverSkipped, RunNotifiers, HandOver,
     SignalRealms, RealmUnchanged
<1>2. CASE NothingToRun \/ SelectNotifiers \/ SignalRealms
  <2>1. notifier'[n] = notifier[n]
        \/ \E list : notifier'[n] = [notifier[n] EXCEPT !.list = list]
    BY <1>2 DEF NothingToRun, SelectNotifiers, SignalRealms, CleanedUp
  <2> QED
    BY <1>0, <1>1, <2>1 DEF Untold, Record
<1>3. CASE RunToSkip \/ RunNotifiers
  <2>1. \E v \in Nat : v # 0 /\ notifier'[n] \in {notifier[n], Run(n, v)}
    <3>1. worker.to \in Nat /\ worker.skip \in Nat /\ helper \in Nat
      BY DEF IInv, Typed, Work
    <3>2. CASE RunToSkip
      <4>1. worker.skip # 0
        BY <3>1, <3>2 DEF RunToSkip, IInv, WorkerInOrder, SkipIsAhead
      <4>2. notifier'[n] \in {notifier[n], Run(n, worker.skip)}
        BY <3>2 DEF RunToSkip, RunAll
      <4> QED
        BY <3>1, <4>1, <4>2
    <3>3. CASE RunNotifiers
      <4>1. worker.to # 0
        BY <3>3 DEF RunNotifiers, IInv, Working, AtWork
      <4>2. notifier'[n] \in {notifier[n], Run(n, worker.to)}
        BY <3>3 DEF RunNotifiers, RunAll
      <4> QED
        BY <3>1, <4>1, <4>2
    <3> QED
      BY <1>3, <3>2, <3>3
  <2>2. PICK v \in Nat : v # 0 /\ notifier'[n] \in {notifier[n], Run(n, v)}
    BY <2>1
  <2> DEFINE new == Run(n, v)
  <2>3. /\ new.told = notifier[n].told /\ new.toTell = notifier[n].toTell
        /\ new.initial = notifier[n].initial /\ new.since = notifier[n].since
    BY <1>0, <2>2, RunIs
  <2> HIDE DEF new
  <2>4. notifier'[n] = notifier[n] \/ notifier'[n] = new
    BY <2>2 DEF new
  <2> QED
    BY <1>1, <2>3, <2>4 DEF Untold
<1>4. CASE HandOverSkipped \/ HandOver
  <2> DEFINE p == PrepareHandover(n, helper)
  <2>1. \/ notifier'[n] = notifier[n] \/ notifier'[n] = p
        \/ notifier'[n] = [notifier[n] EXCEPT !.list = CleanedUp[n].list]
        \/ notifier'[n] = [p EXCEPT !.list = CleanedUp[n].list]
    BY <1>4 DEF HandOverSkipped, HandOver, Prepared
  <2>2. p \in Record /\ CleanedUp[n].list \in {"none", "new", "main", "gone"}
        /\ p.list \in {"none", "new", "main", "gone"}
    <3>1. p \in Record /\ CleanedUp[n] \in Record
      BY <1>0, PrepareTyped, CleanedUpTyped DEF IInv, Typed
    <3> QED
      BY <3>1 DEF Record
  <2>3. p = [p EXCEPT !.list = p.list]
    <3> HIDE DEF p
    <3> QED
      BY <2>2 DEF Record
  <2>4. CASE notifier'[n] = p \/ notifier'[n] = [p EXCEPT !.list = CleanedUp[n].list]
    <3>1. \E list \in {"none", "new", "main", "gone"} : notifier'[n] = [p EXCEPT !.list = list]
      BY <2>2, <2>3, <2>4
    <3>2. HandedOver(n)
      BY <1>0, <3>1, PrepareIs
    <3> QED
      BY <1>1, <3>2 DEF HandedOver, Untold
  <2>5. CASE notifier'[n] = notifier[n] \/ notifier'[n] = [notifier[n] EXCEPT !.list = CleanedUp[n].list]
    BY <1>0, <1>1, <2>5 DEF Untold, Record
  <2> QED
    BY <2>1, <2>4, <2>5
<1> QED
  BY <1>2, <1>3, <1>4 DEF Worker

LEMMA WhoIsTold ==
    ASSUME IInv, JInv, [Next]_vars, NEW n \in Notifiers
    PROVE  \/ Untold(n) /\ (UnderWay(n)' => op'[Owner[n]] = op[Owner[n]])
           \/ Promoted(Owner[n]) \/ Deliver(Owner[n])
           \/ notifier'[n].told = notifier[n].told /\ notifier'[n].alive
<1> DEFINE r == Owner[n]
<1>0. r \in Realms /\ notifier[n] \in Record /\ op \in [Realms -> Operation]
  BY CoordinatorAssumption DEF IInv, Typed
<1>1. CASE Worker
  BY <1>1, WorkerTellsNobody
<1>2. CASE UNCHANGED vars
  BY <1>2 DEF vars, Untold
<1>3. ASSUME NEW m \in Notifiers, Watch(m) \/ Use(m) \/ Drop(m)
      PROVE  Untold(n) /\ op'[r] = op[r]
  <2>1. op' = op
    BY <1>3 DEF Watch, Use, Drop
  <2>2. CASE m # n
    <3>1. notifier \in [Notifiers -> Record]
      BY DEF IInv, Typed
    <3>2. notifier'[n] = notifier[n]
      <4>1. CASE Watch(m)
        BY <2>2, <3>1, <4>1 DEF Watch
      <4>2. CASE Use(m)
        BY <2>2, <3>1, <4>2 DEF Use
      <4>3. CASE Drop(m)
        BY <2>2, <3>1, <4>3 DEF Drop
      <4> QED
        BY <1>3, <4>1, <4>2, <4>3
    <3> QED
      BY <2>1, <3>2 DEF Untold
  <2>3. CASE m = n
    <3>1. CASE Watch(n)
      <4>1. \E v, x : notifier'[n] = [notifier[n] EXCEPT !.list = "new", !.version = v, !.used = TRUE, !.view = x]
        BY <3>1 DEF Watch, IInv, Typed
      <4> QED
        BY <1>0, <2>1, <4>1 DEF Untold, Record
    <3>2. CASE Use(n)
      <4>1. \E x : notifier'[n] = [notifier[n] EXCEPT !.used = TRUE, !.view = x]
        BY <3>2 DEF Use, IInv, Typed
      <4> QED
        BY <1>0, <2>1, <4>1 DEF Untold, Record
    <3>3. CASE Drop(n)
      <4>1. notifier'[n] = [notifier[n] EXCEPT !.alive = FALSE]
        BY <3>3 DEF Drop, IInv, Typed
      <4> QED
        BY <1>0, <2>1, <4>1 DEF Untold, Record
    <3> QED
      BY <1>3, <2>3, <3>1, <3>2, <3>3
  <2> QED
    BY <2>2, <2>3
<1>4. ASSUME NEW s \in Realms,
             \/ ReadGroup(s) \/ BeginTransaction(s) \/ EndTransaction(s) \/ Refresh(s)
             \/ NotifyOthers(s) \/ NotifyInWrite(s)
      PROVE  Untold(n) /\ (UnderWay(n)' => op'[r] = op[r])
  <2>1. notifier' = notifier
    BY <1>4 DEF ReadGroup, BeginTransaction, EndTransaction, CommitWrite, CancelTransaction, Refresh,
       NotifyOthers, NotifyInWrite
  <2>2. op' = op \/ \E o : op' = [op EXCEPT ![s] = o] /\ o.stage # "deliver"
    <3>1. Idle.stage # "deliver"
          /\ \A stage \in {"promote", "refresh", "committed"} : \A to, ns :
                Doing(stage, to, ns).stage # "deliver"
      BY DEF Idle, Doing
    <3>2. CASE ReadGroup(s) \/ NotifyInWrite(s)
      BY <3>2 DEF ReadGroup, NotifyInWrite
    <3>3. CASE BeginTransaction(s)
      BY <3>1, <3>3 DEF BeginTransaction
    <3>4. CASE EndTransaction(s)
      BY <3>1, <3>4 DEF EndTransaction, CommitWrite, CancelTransaction
    <3>5. CASE Refresh(s)
      BY <3>1, <3>5 DEF Refresh
    <3>6. CASE NotifyOthers(s)
      BY <3>1, <3>6 DEF NotifyOthers
    <3> QED
      BY <1>4, <3>2, <3>3, <3>4, <3>5, <3>6
  <2>3. UnderWay(n)' => op'[r] = op[r]
    BY <1>0, <2>2 DEF UnderWay
  <2> QED
    BY <2>1, <2>3 DEF Untold
<1>5. ASSUME NEW s \in Realms, Refreshed(s) \/ NotifyUnchanged(s) \/ NotifyChanged(s)
      PROVE  \/ Untold(n) /\ (UnderWay(n)' => op'[r] = op[r])
             \/ notifier'[n].told = notifier[n].told /\ notifier'[n].alive
  <2>1. \E ps \in SUBSET Notifiers : \E o :
           /\ Package(ps) /\ op' = [op EXCEPT ![s] = o] /\ o.ns \subseteq ps
           /\ \A m \in ps : notifier[m].alive
    <3>1. \A stage, to, ns : Doing(stage, to, ns).ns = ns /\ Idle.ns = {}
      BY DEF Doing, Idle
    <3>2. CASE Refreshed(s)
      <4> DEFINE ps == {m \in op[s].ns : Packed(m)}
                 v == PackageVersion(ps, op[s].to)
      <4>1. Package(ps) /\ op' = [op EXCEPT ![s] = Doing("deliver", v, IF v = 0 THEN {} ELSE ps)]
        BY <3>2 DEF Refreshed
      <4>2. ps \in SUBSET Notifiers /\ \A m \in ps : notifier[m].alive
        BY <1>0 DEF Operation, Packed
      <4> HIDE DEF ps, v
      <4>3. Doing("deliver", v, IF v = 0 THEN {} ELSE ps).ns \subseteq ps
        BY <3>1
      <4> QED
        BY <4>1, <4>2, <4>3
    <3>3. CASE NotifyUnchanged(s)
      <4> DEFINE ps == {m \in NotifiersFor(s) : Packed(m) /\ notifier[m].version = at[s]}
                 o == IF ps = {} THEN Idle ELSE Doing("deliver", at[s], ps)
      <4>1. Package(ps) /\ op' = [op EXCEPT ![s] = o]
        BY <3>3 DEF NotifyUnchanged
      <4>2. ps \in SUBSET Notifiers /\ \A m \in ps : notifier[m].alive
        BY NotifiersForTyped DEF Packed
      <4> HIDE DEF ps
      <4>3. o.ns \subseteq ps
        BY <3>1
      <4> QED
        BY <4>1, <4>2, <4>3
    <3>4. CASE NotifyChanged(s)
      <4> DEFINE ps == {m \in NotifiersFor(s) : Packed(m)}
                 v == PackageVersion(ps, 0)
                 o == IF Discarded(s, v) THEN Idle ELSE Doing("deliver", v, ps)
      <4>1. Package(ps) /\ op' = [op EXCEPT ![s] = o]
        BY <3>4 DEF NotifyChanged
      <4>2. ps \in SUBSET Notifiers /\ \A m \in ps : notifier[m].alive
        BY NotifiersForTyped DEF Packed
      <4> HIDE DEF ps, v
      <4>3. o.ns \subseteq ps
        BY <3>1
      <4> QED
        BY <4>1, <4>2, <4>3
    <3> QED
      BY <1>5, <3>2, <3>3, <3>4
  <2>a. PICK ps \in SUBSET Notifiers : \E o :
           /\ Package(ps) /\ op' = [op EXCEPT ![s] = o] /\ o.ns \subseteq ps
           /\ \A m \in ps : notifier[m].alive
    BY <2>1
  <2>2. PICK o :
           /\ Package(ps) /\ op' = [op EXCEPT ![s] = o] /\ o.ns \subseteq ps
           /\ \A m \in ps : notifier[m].alive
    BY <2>a
  <2>3. CASE n \in ps
    <3> DEFINE p == PackageOf(n)
    <3>1. p.told = notifier[n].told /\ p.alive = notifier[n].alive
      BY <1>0, PackageOfIs
    <3>2. notifier'[n] = p
      BY <2>2, <2>3 DEF Package
    <3> HIDE DEF p
    <3> QED
      BY <2>2, <2>3, <3>1, <3>2
  <2>4. CASE n \notin ps
    <3>1. notifier'[n] = notifier[n]
      BY <2>2, <2>4 DEF Package
    <3>2. UnderWay(n)' => op'[r] = op[r]
      BY <1>0, <2>2, <2>4 DEF UnderWay
    <3> QED
      BY <3>1, <3>2 DEF Untold
  <2> QED
    BY <2>3, <2>4
<1>6. ASSUME NEW s \in Realms, s # r, Promoted(s) \/ Deliver(s)
      PROVE  Untold(n) /\ op'[r] = op[r]
  <2>1. /\ op[s].stage \in {"promote", "deliver"}
        /\ \E o : op' = [op EXCEPT ![s] = o]
        /\ n \notin op[s].ns => notifier'[n] = notifier[n]
    BY <1>6 DEF Promoted, Deliver
  <2>2. n \notin op[s].ns
    BY <1>6, <2>1 DEF IInv, Threads, ThreadOf
  <2> QED
    BY <1>0, <1>6, <2>1, <2>2 DEF Untold
<1> QED
  BY <1>1, <1>2, <1>3, <1>4, <1>5, <1>6 DEF Next, Notify, Proceed

(* What is on its way to a block follows what it has been told, even when its *)
(* Results are gone by now.                                                 *)
ToTellOf(n) ==
    UnderWay(n) /\ notifier[n].initial =>
        notifier[n].told \union notifier[n].toTell
            = Between(notifier[n].since, op[Owner[n]].to)

ToldInv == \A n \in Callbacks : ToTellOf(n)

LEMMA Joined ==
    ASSUME NEW S \in SUBSET Nat, NEW a \in Nat, NEW b \in Nat, NEW c \in Nat, a <= b, b <= c
    PROVE  {t \in S : a < t /\ t <= b} \union {t \in S : b < t /\ t <= c}
              = {t \in S : a < t /\ t <= c}
<1>1. \A t \in S : (a < t /\ t <= c) <=> (a < t /\ t <= b) \/ (b < t /\ t <= c)
  OBVIOUS
<1> QED
  BY <1>1

LEMMA ToldStep == IInv /\ JInv /\ ToldInv /\ [Next]_vars /\ IInv' /\ JInv' => ToldInv'
<1> SUFFICES ASSUME IInv, JInv, ToldInv, [Next]_vars, IInv', JInv', NEW n \in Callbacks,
                    UnderWay(n)', notifier'[n].initial
             PROVE  notifier'[n].told \union notifier'[n].toTell
                        = Between(notifier[n].since, op[Owner[n]].to)'
  BY DEF ToldInv, ToTellOf
<1> DEFINE r == Owner[n]
           new == notifier'[n]
           to == op'[r].to
<1>1. /\ n \in Notifiers /\ r \in Realms /\ touched' \in SUBSET Nat /\ new \in Record /\ to \in Nat
      /\ new.since \in Nat
  BY CoordinatorAssumption DEF IInv, Typed, Record, Operation
<1>2. CASE new.alive
  <2>1. TellingOf(n)'
    BY <1>2 DEF JInv, Telling, Blocks
  <2>2. \E q \in Nat : ToldTo(n, q)'
    BY <2>1 DEF TellingOf
  <2>3. PICK q \in Nat : ToldTo(n, q)'
    BY <2>2
  <2>4. /\ new.since <= q /\ q <= to
        /\ new.told = {t \in touched' : new.since < t /\ t <= q}
        /\ new.toTell = {t \in touched' : q < t /\ t <= to}
    BY <2>3 DEF ToldTo, Between
  <2> HIDE DEF new, to
  <2>5. new.told \union new.toTell = {t \in touched' : new.since < t /\ t <= to}
    <3>1. \A S \in SUBSET Nat, a, b, c \in Nat : a <= b /\ b <= c =>
             {t \in S : a < t /\ t <= b} \union {t \in S : b < t /\ t <= c}
                = {t \in S : a < t /\ t <= c}
      BY Joined
    <3>2. {t \in touched' : new.since < t /\ t <= q} \union {t \in touched' : q < t /\ t <= to}
             = {t \in touched' : new.since < t /\ t <= to}
      BY <1>1, <2>4, <3>1
    <3> QED
      BY <2>4, <3>2
  <2> QED
    BY <2>5 DEF Between, new, to
<1>3. CASE ~new.alive
  <2>1. op'[r].stage = "deliver"
    BY DEF UnderWay
  <2>2. ~Promoted(r) /\ ~Deliver(r)
    <3>1. op \in [Realms -> Operation] /\ Doing("write", 0, {}).stage = "write" /\ Idle.stage = "idle"
      BY DEF IInv, Typed, Doing, Idle
    <3>2. ASSUME Promoted(r) PROVE op'[r].stage = "write"
      BY <1>1, <3>1, <3>2 DEF Promoted
    <3>3. ASSUME Deliver(r) PROVE op'[r].stage = "idle"
      BY <1>1, <3>1, <3>3 DEF Deliver
    <3> QED
      BY <2>1, <3>2, <3>3
  <2>3. Untold(n) /\ op'[r] = op[r]
    BY <1>1, <1>3, <2>2, WhoIsTold
  <2>4. /\ new.told = notifier[n].told /\ new.toTell = notifier[n].toTell
        /\ new.since = notifier[n].since /\ notifier[n].initial
    BY <2>3 DEF Untold
  <2>5. UnderWay(n)
    BY <2>3 DEF UnderWay
  <2>6. new.told \union new.toTell = Between(new.since, to)
    BY <2>3, <2>4, <2>5 DEF ToldInv, ToTellOf
  <2>7. touched' \in {touched, touched \union {latest + 1}}
    <3>1. CASE \E s \in Realms : CommitWrite(s)
      BY <3>1, SMTT(60) DEF CommitWrite
    <3>2. CASE ~\E s \in Realms : CommitWrite(s)
      BY <3>2 DEF Next, vars, Worker, NothingToRun, SelectNotifiers, RunToSkip, HandOverSkipped,
         RunNotifiers, HandOver, SignalRealms, RealmUnchanged, ReadGroup, BeginTransaction,
         EndTransaction, CancelTransaction, Refresh, Notify, NotifyInWrite, NotifyUnchanged,
         NotifyChanged, Proceed, Promoted, NotifyOthers, Refreshed, Deliver, Watch, Use, Drop
    <3> QED
      BY <3>1, <3>2
  <2>8. to <= latest
    BY <1>1, <2>1, <2>3 DEF IInv, Typed, Threads, ThreadOf
  <2>9. Typed /\ touched \subseteq 1 .. latest
    BY DEF IInv, JInv, Read
  <2> HIDE DEF new, to
  <2>10. {t \in touched' : new.since < t /\ t <= to} = {t \in touched : new.since < t /\ t <= to}
    <3>1. latest \in Nat /\ ~(latest + 1 <= to)
      BY <1>1, <2>8, <2>9 DEF Typed
    <3> QED
      BY <2>7, <3>1
  <2> QED
    BY <2>6, <2>10 DEF Between, new, to
<1> QED
  BY <1>2, <1>3

LEMMA BlocksInvariance == Spec => [](IInv /\ JInv /\ ToldInv)
<1>1. Init => JInv /\ ToldInv
  <2>1. Init => ToldInv
    <3> SUFFICES ASSUME Init, NEW n \in Callbacks PROVE ~UnderWay(n)
      BY DEF ToldInv, ToTellOf
    <3>1. Owner[n] \in Realms
      BY CoordinatorAssumption
    <3> QED
      BY <3>1 DEF Init, UnderWay, Idle, Doing
  <2> QED
    BY <2>1, InitJInv
<1>2. IInv /\ JInv /\ ToldInv /\ [Next]_vars /\ IInv' => JInv' /\ ToldInv'
  BY JStep, ToldStep
<1> QED
  BY <1>1, <1>2, Invariance, PTL DEF Spec

-------------------------------------------------------------------------------
(* From the first call of a block on, each change is told once, or is on its  *)
(* way, or waits for the next hand-over: none twice, none lost                *)
(* (CollectionNotifier::package_for_delivery, add_changes and after_advance,  *)
(* RealmCoordinator::advance_to_ready).                                       *)
THEOREM EachToldOnce == Spec => []EachChangeOnce
<1>1. IInv /\ JInv => EachChangeOnce
  <2> SUFFICES ASSUME IInv, JInv, NEW n \in Callbacks \intersect Main,
                      notifier[n].initial, notifier[n].alive
               PROVE  LET o == op[Owner[n]]
                          rec == notifier[n]
                          underWay == IF o.stage = "deliver" /\ n \in o.ns THEN rec.toTell ELSE {}
                      IN /\ {t \in touched : rec.since < t /\ t <= rec.version}
                                = rec.told \union underWay \union rec.accumulated
                         /\ rec.told \intersect (underWay \union rec.accumulated) = {}
                         /\ underWay \intersect rec.accumulated = {}
    BY DEF EachChangeOnce
  <2> DEFINE o == op[Owner[n]]
             rec == notifier[n]
             underWay == IF o.stage = "deliver" /\ n \in o.ns THEN rec.toTell ELSE {}
             v == rec.version
             s == rec.since
  <2>1. /\ n \in Blocks /\ n \in Notifiers /\ TellingOf(n) /\ Typed /\ rec \in Record
        /\ Owner[n] \in Realms /\ s \in Nat /\ v \in Nat /\ o.to \in Nat
    BY CoordinatorAssumption DEF Blocks, JInv, Telling, IInv, Typed, Record, Operation
  <2>2. PICK q \in Nat : ToldTo(n, q)
    BY <2>1 DEF TellingOf
  <2>3. /\ s <= q /\ q <= v /\ rec.told = Between(s, q)
        /\ UnderWay(n) => /\ q <= o.to /\ o.to <= v /\ rec.toTell = Between(q, o.to)
                          /\ rec.accumulated = Between(o.to, v)
        /\ ~UnderWay(n) => rec.accumulated = Between(q, v)
    BY <2>1, <2>2 DEF ToldTo, TellingOf
  <2>4. UnderWay(n) <=> o.stage = "deliver" /\ n \in o.ns
    BY DEF UnderWay
  <2> HIDE DEF s, v, o, rec
  <2>5. /\ Between(s, q) \union Between(q, v) = Between(s, v)
        /\ Between(s, q) \intersect Between(q, v) = {}
    BY <2>1, <2>3, BetweenJoin
  <2>6. UnderWay(n) => /\ Between(q, o.to) \union Between(o.to, v) = Between(q, v)
                       /\ Between(q, o.to) \intersect Between(o.to, v) = {}
    BY <2>1, <2>3, BetweenJoin
  <2>7. Between(s, v) = rec.told \union underWay \union rec.accumulated
    BY <2>3, <2>4, <2>5, <2>6
  <2>8. rec.told \intersect (underWay \union rec.accumulated) = {}
        /\ underWay \intersect rec.accumulated = {}
    BY <2>3, <2>4, <2>5, <2>6
  <2>9. {t \in touched : rec.since < t /\ t <= rec.version} = Between(s, v)
    BY DEF Between, s, v
  <2> QED
    BY <2>7, <2>8, <2>9 DEF o, rec
<1> QED
  BY <1>1, BlocksInvariance, PTL

(* A block is told of the changes up to where its Realm has just come to      *)
(* (Realm::begin_transaction and Realm::notify, CollectionNotifier::           *)
(* after_advance).                                                            *)
THEOREM ToldInStep == Spec => ToldWhereItIs
<1>1. IInv /\ JInv /\ ToldInv /\ [Next]_vars /\ IInv' /\ JInv' =>
         [\A n \in Notifiers : notifier'[n].told # notifier[n].told =>
             notifier'[n].told =
                 {t \in touched' : notifier'[n].since < t /\ t <= at'[Owner[n]]}]_vars
  <2> SUFFICES ASSUME IInv, JInv, ToldInv, [Next]_vars, IInv', JInv', NEW n \in Notifiers,
                      notifier'[n].told # notifier[n].told
               PROVE  notifier'[n].told =
                          {t \in touched' : notifier'[n].since < t /\ t <= at'[Owner[n]]}
    OBVIOUS
  <2> DEFINE r == Owner[n]
             new == notifier'[n]
             old == notifier[n]
  <2>1. /\ r \in Realms /\ old \in Record /\ op \in [Realms -> Operation] /\ at \in [Realms -> Nat]
        /\ latest \in Nat
    BY CoordinatorAssumption DEF IInv, Typed
  <2>2. Promoted(r) \/ Deliver(r)
    BY WhoIsTold DEF Untold
  <2>3. CASE Promoted(r)
    <3> DEFINE p == PackageOf(n)
    <3>1. p.told = old.told /\ p.alive = old.alive /\ p \in Record
      BY <2>1, PackageOfIs
    <3>2. /\ new \in {AfterAdvance(n, p, latest), p, old} /\ (n \notin op[r].ns => new = old)
          /\ op[r].stage = "promote" /\ op' = [op EXCEPT ![r] = Doing("write", 0, {})]
      BY <2>3 DEF Promoted
    <3> HIDE DEF p
    <3>3. n \in op[r].ns /\ new = AfterAdvance(n, p, latest)
      BY <3>1, <3>2
    <3>4. n \in Callbacks
      BY <3>1, <3>3 DEF AfterAdvance
    <3>5. old.alive
      BY <2>1, <3>2, <3>3 DEF IInv, Threads, ThreadOf
    <3>6. new.initial /\ new.alive
      BY <3>1, <3>3, <3>4, <3>5 DEF AfterAdvance, ToldOf, Record
    <3>7. TellingOf(n)'
      BY <3>4, <3>6 DEF JInv, Telling, Blocks
    <3>8. \E q \in Nat : ToldTo(n, q)'
      BY <3>6, <3>7 DEF TellingOf
    <3>9. PICK q \in Nat : ToldTo(n, q)'
      BY <3>8
    <3>10. op'[r].stage = "write"
      BY <2>1, <3>2 DEF Doing
    <3> QED
      BY <3>9, <3>10 DEF ToldTo, Between
  <2>4. CASE Deliver(r)
    <3> DEFINE v == IF op[r].to = 0 THEN latest ELSE op[r].to
               d == DeliverTo(old, v)
    <3>1. /\ op[r].stage = "deliver" /\ at' = [at EXCEPT ![r] = v]
          /\ new = IF n \in op[r].ns THEN AfterAdvance(n, d, v) ELSE old
          /\ touched' = touched
      BY <2>4 DEF Deliver
    <3>2. n \in op[r].ns /\ new = AfterAdvance(n, d, v)
      BY <3>1
    <3>3. v = op[r].to /\ v \in Nat
      <4>1. CallOf(r)
        BY <2>1 DEF JInv, Calls
      <4> QED
        BY <2>1, <3>1, <3>2, <4>1 DEF CallOf, Operation
    <3>4. at'[r] = v
      BY <2>1, <3>1
    <3> HIDE DEF v
    <3>5. /\ d.told = old.told /\ d.toTell = old.toTell /\ d.since = old.since
          /\ d.initial = old.initial /\ d \in Record
      BY <2>1, <3>3, DeliverToIs, ZenonT(60)
    <3> HIDE DEF d
    <3>6. n \in Callbacks /\ d.initial /\ new.told = d.told \union d.toTell /\ new.since = d.since
      BY <3>2, <3>5 DEF AfterAdvance, ToldOf, Record
    <3>7. old.told \union old.toTell = Between(old.since, v)
      BY <3>1, <3>2, <3>3, <3>5, <3>6 DEF ToldInv, ToTellOf, UnderWay
    <3> QED
      BY <3>1, <3>4, <3>5, <3>6, <3>7 DEF Between
  <2> QED
    BY <2>2, <2>3, <2>4
<1> QED
  BY <1>1, BlocksInvariance, PTL DEF Spec, ToldWhereItIs

(* What the view of Results shows is what the query finds at the version it    *)
(* was delivered at, unless the worker may have stopped to run the query       *)
(* (ResultsNotifier::need_to_run and deliver).                                *)
THEOREM ViewsAreFresh == Spec => []FreshIfKeptUp
<1>1. JInv => FreshIfKeptUp
  BY DEF JInv, Views, ViewOf, FreshIfKeptUp
<1> QED
  BY <1>1, BlocksInvariance, PTL
================================================================================
