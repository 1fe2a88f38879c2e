-------------------------- MODULE ArticlesView_proofs --------------------------
(***************************************************************************)
(* What remains of the articles view when threads overlap in addArticle,    *)
(* proved for any articles, subjects and threads.                           *)
(***************************************************************************)
EXTENDS ArticlesView, FiniteSetTheorems, TLAPS

Places == {"idle", "shown", "matched", "part", "post", "added"}

(***************************************************************************)
(* The inductive invariants.  Every outline that the label is behind by is  *)
(* that of a thread between its addition and its reload.                    *)
(***************************************************************************)
Typed ==
    /\ articles \in Seq(Articles)
    /\ doing \in [Threads -> [at : Places, with : Articles \union {None}]]
    /\ received \subseteq Articles
    /\ articleCache \in [Articles \union Keys -> Articles \union {None}]
    /\ subject \in [Articles -> Articles]
    /\ running \in BOOLEAN

Counts ==
    /\ count \in Nat /\ IsFiniteSet(Unreloaded)
    /\ CountInStep

(***************************************************************************)
(* An outline is cached under its own number or its key only, and an        *)
(* article that has not arrived bears its own subject.                      *)
(***************************************************************************)
InArrivals ==
    \A t \in Threads : InAddArticle(t) \/ doing[t].at = "added" => doing[t].with \in received

WithKey == \A t \in Threads : doing[t].at \in {"matched", "part"} => Key[doing[t].with] # None

CachedAsItself ==
    \A k \in Articles \union Keys : articleCache[k] # None =>
        articleCache[k] \in received /\ (k = articleCache[k] \/ k = Key[articleCache[k]])

OwnBefore == \A a \in Articles \ received : subject[a] = a

IInv == Typed /\ Counts /\ InArrivals /\ WithKey /\ CachedAsItself /\ OwnBefore /\ SubjectsKept

LEMMA InitIInv == Init => IInv
<1> SUFFICES ASSUME Init PROVE IInv
  OBVIOUS
<1>1. Typed
  BY DEF Init, Typed, Idle, Places
<1>2. Counts
  <2>1. Unreloaded = {}
    BY DEF Init, Unreloaded, Idle
  <2>2. IsFiniteSet(Unreloaded) /\ Cardinality(Unreloaded) = 0
    BY <2>1, FS_EmptySet
  <2> QED
    BY <2>2 DEF Init, Counts, CountInStep
<1> QED
  BY <1>1, <1>2
     DEF Init, IInv, InArrivals, InAddArticle, WithKey, CachedAsItself, OwnBefore, SubjectsKept, Idle
-------------------------------------------------------------------------------
(***************************************************************************)
(* Every step preserves the invariant.                                      *)
(***************************************************************************)
(* One more outline, or none, and one more thread that waits for its reload. *)
LEMMA LabelBehind ==
    ASSUME Counts, articles \in Seq(Articles), articles' \in Seq(Articles), NEW t, t \notin Unreloaded,
           UNCHANGED << count, running >>,
           \/ articles' = articles /\ Unreloaded' = Unreloaded
           \/ /\ articles' = articles \/ Len(articles') = Len(articles) + 1
              /\ Unreloaded' = Unreloaded \union {t}
    PROVE  Counts'
<1>1. /\ Cardinality(Unreloaded) \in Nat /\ IsFiniteSet(Unreloaded \union {t})
      /\ Cardinality(Unreloaded \union {t}) = Cardinality(Unreloaded) + 1
  BY FS_AddElement, FS_CardinalityType DEF Counts
<1>2. Len(articles) \in Nat /\ Len(articles') \in Nat
  OBVIOUS
<1> HIDE DEF Unreloaded
<1>3. CASE articles' = articles /\ Unreloaded' = Unreloaded
  BY <1>3 DEF Counts, CountInStep
<1>4. CASE /\ articles' = articles \/ Len(articles') = Len(articles) + 1
           /\ Unreloaded' = Unreloaded \union {t}
  BY <1>1, <1>2, <1>4 DEF Counts, CountInStep
<1> QED
  BY <1>3, <1>4

LEMMA ReceiveStep ==
    ASSUME IInv, NEW t \in Threads, NEW a \in Articles, Receive(t, a)
    PROVE  IInv'
<1> DEFINE cArticle == articleCache[a]
<1>1. /\ doing[t].at = "idle" /\ a \notin received
      /\ received' = received \union {a}
      /\ subject' = IF cArticle = None THEN subject ELSE [subject EXCEPT ![cArticle] = subject[a]]
      /\ UNCHANGED << articleCache, articles, count, running >>
  BY DEF Receive, LookUp, At
<1>2. PICK place \in {"added", "shown"} : doing' = [doing EXCEPT ![t] = [at |-> place, with |-> a]]
  BY DEF Receive, LookUp
<1>3. \A u \in Threads : \/ doing'[u] = doing[u] /\ (u = t => FALSE)
                         \/ u = t /\ doing'[u] = [at |-> place, with |-> a]
  BY <1>2 DEF IInv, Typed
<1>4. subject[a] = a
  BY <1>1 DEF IInv, OwnBefore
<1>5. cArticle # None => cArticle \in received /\ cArticle \in Articles /\ a = Key[cArticle]
  BY <1>1 DEF IInv, CachedAsItself, Typed
<1>6. \A b \in Articles : \/ subject'[b] = subject[b]
                          \/ subject'[b] = a /\ a = Key[b] /\ b \in received
  BY <1>1, <1>4, <1>5 DEF IInv, Typed
<1>7. Typed'
  BY <1>1, <1>2, <1>4, <1>5 DEF IInv, Typed, Places
<1>8. Counts'
  <2>1. articles \in Seq(Articles) /\ articles' = articles
    BY <1>1 DEF IInv, Typed
  <2>2. t \notin Unreloaded
    BY <1>1 DEF Unreloaded
  <2>3. Unreloaded' = IF place = "added" THEN Unreloaded \union {t} ELSE Unreloaded
    BY <1>3, <2>2 DEF Unreloaded
  <2> QED
    BY <1>1, <2>1, <2>2, <2>3, LabelBehind DEF IInv
<1>9. InArrivals' /\ WithKey'
  BY <1>1, <1>3 DEF IInv, InArrivals, InAddArticle, WithKey
<1>10. CachedAsItself'
  BY <1>1 DEF IInv, CachedAsItself
<1>11. OwnBefore' /\ SubjectsKept'
  BY <1>1, <1>6 DEF IInv, OwnBefore, SubjectsKept
<1> QED
  BY <1>7, <1>8, <1>9, <1>10, <1>11 DEF IInv

(* What the writes to articleCache can come to. *)
LEMMA WrittenCache ==
    ASSUME IInv, NEW t \in Threads, NEW a \in received, NEW ks, ks \subseteq CacheKeys(a),
           articleCache' \in CacheWrites(t, ks, a)
    PROVE  /\ articleCache' \in [Articles \union Keys -> Articles \union {None}]
           /\ \A k \in Articles \union Keys :
                 articleCache'[k] = articleCache[k] \/ (articleCache'[k] = a /\ (k = a \/ k = Key[a]))
<1>1. PICK written \in SUBSET ks :
         articleCache' = [k \in DOMAIN articleCache |-> IF k \in written THEN a ELSE articleCache[k]]
  BY DEF CacheWrites
<1>2. DOMAIN articleCache = Articles \union Keys /\ a \in Articles
  BY DEF IInv, Typed
<1>3. \A k \in ks : k = a \/ k = Key[a]
  BY DEF CacheKeys
<1> QED
  BY <1>1, <1>2, <1>3 DEF IInv, Typed

(* The steps of a thread between its arrival and its reload. *)
LEMMA StepOn ==
    ASSUME IInv, NEW t \in Threads, NEW place \in Places,
           InAddArticle(t), doing' = [doing EXCEPT ![t].at = place],
           place = "idle" => FALSE,
           place \in {"matched", "part"} => Key[doing[t].with] # None,
           articles' \in Seq(Articles),
           articles' = articles \/ (place = "added" /\ Len(articles') = Len(articles) + 1),
           articleCache' \in [Articles \union Keys -> Articles \union {None}],
           \A k \in Articles \union Keys :
               \/ articleCache'[k] = articleCache[k]
               \/ /\ articleCache'[k] = doing[t].with
                  /\ (k = doing[t].with \/ k = Key[doing[t].with]),
           UNCHANGED << subject, count, received, running >>
    PROVE  IInv'
<1>1. /\ doing[t].with \in received
      /\ \A u \in Threads : \/ u # t /\ doing'[u] = doing[u]
                            \/ u = t /\ doing'[u] = [at |-> place, with |-> doing[t].with]
  BY DEF IInv, Typed, InArrivals
<1>2. Typed'
  BY SMTT(60) DEF IInv, Typed
<1>3. Counts'
  <2>1. articles \in Seq(Articles)
    BY DEF IInv, Typed
  <2>2. t \notin Unreloaded
    BY DEF Unreloaded, InAddArticle
  <2>3. Unreloaded' = IF place = "added" THEN Unreloaded \union {t} ELSE Unreloaded
    BY <1>1, <2>2 DEF Unreloaded
  <2> QED
    BY <2>1, <2>2, <2>3, LabelBehind DEF IInv
<1>4. InArrivals' /\ WithKey'
  BY <1>1 DEF IInv, InArrivals, InAddArticle, WithKey
<1>5. CachedAsItself'
  BY <1>1 DEF IInv, CachedAsItself
<1>6. OwnBefore' /\ SubjectsKept'
  BY DEF IInv, OwnBefore, SubjectsKept
<1> QED
  BY <1>2, <1>3, <1>4, <1>5, <1>6 DEF IInv

LEMMA CacheBareStep ==
    ASSUME IInv, NEW t \in Threads, CacheBare(t)
    PROVE  IInv'
<1>1. InAddArticle(t) /\ doing[t].with \in received
  BY DEF CacheBare, At, InAddArticle, IInv, InArrivals
<1>2. /\ articleCache' \in CacheWrites(t, {doing[t].with}, doing[t].with)
      /\ doing' = [doing EXCEPT ![t].at = "added"]
      /\ UNCHANGED << articles, subject, count, received, running >>
  BY DEF CacheBare, Article, Go
<1>3. {doing[t].with} \subseteq CacheKeys(doing[t].with)
  BY DEF CacheKeys
<1>4. /\ articleCache' \in [Articles \union Keys -> Articles \union {None}]
      /\ \A k \in Articles \union Keys :
            \/ articleCache'[k] = articleCache[k]
            \/ /\ articleCache'[k] = doing[t].with
               /\ (k = doing[t].with \/ k = Key[doing[t].with])
  BY <1>1, <1>2, <1>3, WrittenCache
<1>5. articles' \in Seq(Articles)
  BY <1>2 DEF IInv, Typed
<1> QED
  BY <1>1, <1>2, <1>4, <1>5, StepOn DEF Places

LEMMA DisplayStep ==
    ASSUME IInv, NEW t \in Threads, Display(t)
    PROVE  IInv'
<1>1. InAddArticle(t)
  BY DEF Display, At, InAddArticle
<1>2. PICK place \in {"post", "matched"} :
         /\ doing' = [doing EXCEPT ![t].at = place]
         /\ place = "matched" => Key[doing[t].with] # None
  BY DEF Display, Article, Go
<1>3. UNCHANGED << articleCache, articles, subject, count, received, running >>
  BY DEF Display
<1>4. articles' \in Seq(Articles) /\ articleCache' \in [Articles \union Keys -> Articles \union {None}]
  BY <1>3 DEF IInv, Typed
<1> QED
  BY <1>1, <1>2, <1>3, <1>4, StepOn DEF Places

LEMMA FindPostStep ==
    ASSUME IInv, NEW t \in Threads, FindPost(t)
    PROVE  IInv'
<1>1. InAddArticle(t) /\ Key[doing[t].with] # None
  BY DEF FindPost, At, InAddArticle, IInv, WithKey
<1>2. PICK place \in {"part", "post"} : doing' = [doing EXCEPT ![t].at = place]
  BY DEF FindPost, Go
<1>3. UNCHANGED << articleCache, articles, subject, count, received, running >>
  BY DEF FindPost
<1>4. articles' \in Seq(Articles) /\ articleCache' \in [Articles \union Keys -> Articles \union {None}]
  BY <1>3 DEF IInv, Typed
<1> QED
  BY <1>1, <1>2, <1>3, <1>4, StepOn DEF Places

LEMMA AddPartStep ==
    ASSUME IInv, NEW t \in Threads, AddPart(t)
    PROVE  IInv'
<1>1. InAddArticle(t)
  BY DEF AddPart, At, InAddArticle
<1>2. /\ doing' = [doing EXCEPT ![t].at = "added"]
      /\ UNCHANGED << articleCache, articles, subject, count, received, running >>
  BY DEF AddPart, Go
<1>3. articles' \in Seq(Articles) /\ articleCache' \in [Articles \union Keys -> Articles \union {None}]
  BY <1>2, SMTT(60) DEF IInv, Typed
<1> QED
  BY <1>1, <1>2, <1>3, StepOn DEF Places

(* A sequence with one more at its end. *)
LEMMA Appended ==
    ASSUME NEW S, NEW s \in Seq(S), NEW e \in S
    PROVE  Append(s, e) \in Seq(S) /\ Len(Append(s, e)) = Len(s) + 1
OBVIOUS

LEMMA AddPostStep ==
    ASSUME IInv, NEW t \in Threads, AddPost(t)
    PROVE  IInv'
<1>1. InAddArticle(t) /\ doing[t].with \in received /\ doing[t].with \in Articles
  BY DEF AddPost, At, InAddArticle, IInv, InArrivals, Typed
<1>2. /\ articleCache' \in CacheWrites(t, CacheKeys(doing[t].with), doing[t].with)
      /\ doing' = [doing EXCEPT ![t].at = "added"]
      /\ articles' = Append(articles, doing[t].with) \/ articles' = articles
      /\ UNCHANGED << subject, count, received, running >>
  BY DEF AddPost, Article, Go
<1>3. /\ articleCache' \in [Articles \union Keys -> Articles \union {None}]
      /\ \A k \in Articles \union Keys :
            \/ articleCache'[k] = articleCache[k]
            \/ /\ articleCache'[k] = doing[t].with
               /\ (k = doing[t].with \/ k = Key[doing[t].with])
  BY <1>1, <1>2, WrittenCache, ZenonT(60)
<1>4. /\ articles' \in Seq(Articles)
      /\ articles' = articles \/ Len(articles') = Len(articles) + 1
  <2>1. articles \in Seq(Articles) /\ doing[t].with \in Articles
    BY <1>1 DEF IInv, Typed
  <2> QED
    BY <1>2, <2>1, Appended
<1> QED
  BY <1>1, <1>2, <1>3, <1>4, StepOn DEF Places

(* The reload counts all that has been added, by whichever thread. *)
LEMMA ReloadStep ==
    ASSUME IInv, NEW t \in Threads, Reload(t)
    PROVE  IInv'
<1>1. /\ count' = Len(articles) /\ doing' = [doing EXCEPT ![t] = Idle]
      /\ UNCHANGED << articleCache, articles, subject, received, running >>
  BY DEF Reload
<1>2. \A u \in Threads : (u # t /\ doing'[u] = doing[u]) \/ doing'[u] = Idle
  BY <1>1 DEF IInv, Typed
<1>3. Typed'
  BY <1>1 DEF IInv, Typed, Idle, Places
<1>4. Counts'
  <2>1. Len(articles) \in Nat
    BY DEF IInv, Typed
  <2>2. Unreloaded' = Unreloaded \ {t}
    BY <1>1, <1>2 DEF IInv, Typed, Unreloaded, Idle
  <2>3. IsFiniteSet(Unreloaded') /\ Cardinality(Unreloaded') \in Nat
    BY <2>2, FS_RemoveElement, FS_CardinalityType DEF IInv, Counts
  <2> QED
    BY <1>1, <2>1, <2>3 DEF Counts, CountInStep
<1>5. InArrivals' /\ WithKey'
  BY <1>1, <1>2 DEF IInv, InArrivals, InAddArticle, WithKey, Idle
<1>6. CachedAsItself' /\ OwnBefore' /\ SubjectsKept'
  BY <1>1 DEF IInv, CachedAsItself, OwnBefore, SubjectsKept
<1> QED
  BY <1>3, <1>4, <1>5, <1>6 DEF IInv

LEMMA TrapStep ==
    ASSUME IInv, NEW t \in Threads, Trap(t)
    PROVE  IInv'
<1>1. /\ running' = FALSE /\ doing' = [u \in Threads |-> Idle]
      /\ UNCHANGED << articleCache, articles, subject, count, received >>
  BY DEF Trap
<1>2. Typed'
  BY <1>1 DEF IInv, Typed, Idle, Places
<1>5. Counts'
  <2>1. Unreloaded' = {}
    BY <1>1 DEF Unreloaded, Idle
  <2> QED
    BY <1>1, <1>2, <2>1, FS_EmptySet DEF IInv, Counts, CountInStep
<1>3. InArrivals' /\ WithKey'
  BY <1>1 DEF InArrivals, InAddArticle, WithKey, Idle
<1>4. CachedAsItself' /\ OwnBefore' /\ SubjectsKept'
  BY <1>1 DEF IInv, CachedAsItself, OwnBefore, SubjectsKept
<1> QED
  BY <1>2, <1>3, <1>4, <1>5 DEF IInv

LEMMA Invariance == Spec => []IInv
<1>1. IInv /\ [Next]_vars => IInv'
  <2> SUFFICES ASSUME IInv, [Next]_vars PROVE IInv'
    OBVIOUS
  <2>1. ASSUME NEW t \in Threads, NEW a \in Articles, Receive(t, a) PROVE IInv'
    BY <2>1, ReceiveStep
  <2>2. ASSUME NEW t \in Threads, Step(t) PROVE IInv'
    BY <2>2, CacheBareStep, DisplayStep, FindPostStep, AddPartStep, AddPostStep, ReloadStep DEF Step
  <2>3. ASSUME NEW t \in Threads, Trap(t) PROVE IInv'
    BY <2>3, TrapStep
  <2>4. CASE UNCHANGED vars
    BY <2>4 DEF vars, IInv, Typed, Counts, CountInStep, Unreloaded, InArrivals, InAddArticle, WithKey,
                CachedAsItself, OwnBefore, SubjectsKept
  <2> QED
    BY <2>1, <2>2, <2>3, <2>4 DEF Next
<1> QED
  BY InitIInv, <1>1, PTL DEF Spec
-------------------------------------------------------------------------------
(***************************************************************************)
(* Whatever threads lose of each other's writes, the label is never ahead   *)
(* of the outlines, and behind by no more than the threads whose reload is  *)
(* still to come: each reload comes behind its own addition and counts all  *)
(* others (onArticleAdd).                                                   *)
(***************************************************************************)
THEOREM LabelInStep == Spec => []CountInStep
<1>1. IInv => CountInStep
  BY DEF IInv, Counts
<1> QED
  BY <1>1, Invariance, PTL

(***************************************************************************)
(* Article numbers and the rests of subjects share one cache: an article    *)
(* loses its subject to another only if that one's number is the rest of    *)
(* its own subject, and only once that one has come (addArticle).           *)
(***************************************************************************)
THEOREM SubjectsMeetInKeys == Spec => []SubjectsKept
<1>1. IInv => SubjectsKept
  BY DEF IInv
<1> QED
  BY <1>1, Invariance, PTL
-------------------------------------------------------------------------------
(***************************************************************************)
(* The posts, as long as one thread at a time is in addArticle.  An article *)
(* is settled when it has arrived and no thread is adding it any more.  The *)
(* home of a post is the outline that its articles are found under: there   *)
(* is none before the first of them is settled, and from then on it holds   *)
(* all that are.                                                            *)
(***************************************************************************)
InProgress == { doing[t].with : t \in { u \in Threads : InAddArticle(u) } }

Settled == received \ InProgress

Alone == \A t, u \in Threads : InAddArticle(t) /\ InAddArticle(u) => t = u

(* What a thread has found out about its article still holds. *)
WithSubject ==
    \A t \in Threads : doing[t].at \in {"matched", "part", "post"} => doing[t].with \notin Bare

FoundPost ==
    \A t \in Threads : doing[t].at = "part" => articleCache[Key[doing[t].with]] # None

FoundNone ==
    \A t \in Threads :
        doing[t].at = "post" /\ Key[doing[t].with] # None => articleCache[Key[doing[t].with]] = None

DisplayedArrived == displayedCache \subseteq received

OutlinesTyped == children \in [Articles -> Seq(Articles)]

OutlinesOnce ==
    /\ \A i \in DOMAIN articles : articles[i] \in Settled
    /\ \A i, j \in DOMAIN articles : articles[i] = articles[j] => i = j

Home(a) == IF Key[a] = None THEN a ELSE articleCache[Key[a]]

NoTwins(s) == \A i, j \in DOMAIN s : s[i] = s[j] => i = j

HoldsAll(o, a) ==
    /\ o \in Fellows(a) \intersect Settled
    /\ \E i \in DOMAIN articles : articles[i] = o
    /\ ToSet(children[o]) = Fellows(a) \intersect Settled
    /\ NoTwins(children[o])
    /\ Ordered(children[o])

WholePosts == \A a \in Settled \ Bare : Apart(a) => HoldsAll(Home(a), a)

NoneYet ==
    \A a \in Articles \ Bare :
        Apart(a) /\ Key[a] # None /\ Fellows(a) \intersect Settled = {}
            => articleCache[Key[a]] = None

Posts == OutlinesOnce /\ WholePosts /\ NoneYet

InTurn == Alone /\ WithSubject /\ FoundPost /\ FoundNone

PostsInv == DisplayedArrived /\ OutlinesTyped /\ (~overlapped => InTurn /\ Posts)

(* Which articles are parts of one post. *)
LEMMA Fellowship ==
    ASSUME NEW a \in Articles
    PROVE  /\ a \in Fellows(a) /\ Fellows(a) \subseteq Articles
           /\ \A b \in Articles : b \in Fellows(a) <=>
                 (Key[a] = None /\ b = a) \/ (Key[a] # None /\ Key[b] = Key[a])
           /\ \A b \in Fellows(a) : Fellows(b) = Fellows(a) /\ (Apart(b) <=> Apart(a)) /\ Key[b] = Key[a]
<1>1. CASE Key[a] = None
  <2>1. Fellows(a) = {a}
    BY <1>1 DEF Fellows
  <2> QED
    BY <1>1, <2>1
<1>2. CASE Key[a] # None
  <2>1. Fellows(a) = {b \in Articles : Key[b] = Key[a]}
    BY <1>2 DEF Fellows
  <2>2. \A b \in Fellows(a) : Fellows(b) = Fellows(a) /\ Key[b] = Key[a]
    BY <1>2, <2>1 DEF Fellows
  <2> QED
    BY <1>2, <2>1, <2>2 DEF Apart
<1> QED
  BY <1>1, <1>2

(* A bare article has no key. *)
LEMMA BareHasNone == \A a \in Bare : a \in Articles /\ Key[a] = None
BY ArticlesViewAssumption

(* Sorting in a new part rearranges what there is then. *)
Rearranges(p, all, u) ==
    /\ p \in [DOMAIN all -> DOMAIN all]
    /\ \A i, j \in DOMAIN all : p[i] = p[j] => i = j
    /\ \A k \in DOMAIN all : \E i \in DOMAIN all : p[i] = k
    /\ DOMAIN u = DOMAIN all
    /\ \A i \in DOMAIN all : u[i] = all[p[i]]

LEMMA Rearranged ==
    ASSUME NEW all \in Seq(Articles), NEW p \in Bijection(DOMAIN all, DOMAIN all), NEW u,
           u = [i \in DOMAIN all |-> all[p[i]]]
    PROVE  u \in Seq(Articles) /\ Rearranges(p, all, u)
<1>1. /\ p \in [DOMAIN all -> DOMAIN all]
      /\ \A i, j \in DOMAIN all : p[i] = p[j] => i = j
      /\ \A k \in DOMAIN all : \E i \in DOMAIN all : p[i] = k
  BY DEF Bijection, Injection, Surjection, IsInjective
<1>2. DOMAIN u = DOMAIN all /\ \A i \in DOMAIN all : u[i] = all[p[i]]
  OBVIOUS
<1>3. \A i \in DOMAIN all : p[i] \in DOMAIN all /\ all[p[i]] \in Articles
  BY <1>1
<1>4. u \in [DOMAIN all -> Articles]
  BY <1>3
<1>5. DOMAIN all = 1 .. Len(all) /\ Len(all) \in Nat
  OBVIOUS
<1>6. u \in Seq(Articles)
  BY <1>4, <1>5
<1> QED
  BY <1>1, <1>2, <1>6 DEF Rearranges

LEMMA SortedTyped ==
    ASSUME NEW s \in Seq(Articles), NEW a \in Articles, NEW u \in Sorted(s, a)
    PROVE  /\ u \in Seq(Articles)
           /\ \E p : Rearranges(p, Append(s, a), u)
           /\ \A i, j \in DOMAIN u : i < j => FileNumber[subject[u[i]]] <= FileNumber[subject[u[j]]]
<1> DEFINE all == Append(s, a)
<1>1. all \in Seq(Articles)
  OBVIOUS
<1>2. PICK p \in Bijection(DOMAIN all, DOMAIN all) : u = [i \in DOMAIN all |-> all[p[i]]]
  BY DEF Sorted
<1>3. \A i, j \in DOMAIN u : i < j => FileNumber[subject[u[i]]] <= FileNumber[subject[u[j]]]
  BY DEF Sorted
<1> HIDE DEF all
<1>4. u \in Seq(Articles) /\ Rearranges(p, all, u)
  BY <1>1, <1>2, Rearranged
<1> QED
  BY <1>3, <1>4 DEF all

LEMMA SortedIn ==
    ASSUME NEW s \in Seq(Articles), NEW a \in Articles, NoTwins(s), a \notin ToSet(s),
           NEW u \in Sorted(s, a)
    PROVE  /\ u \in Seq(Articles) /\ ToSet(u) = ToSet(s) \union {a} /\ NoTwins(u)
           /\ \A i, j \in DOMAIN u : i < j => FileNumber[subject[u[i]]] <= FileNumber[subject[u[j]]]
<1> DEFINE all == Append(s, a)
<1>1. /\ all \in Seq(Articles) /\ DOMAIN all = 1 .. Len(s) + 1 /\ Len(s) \in Nat
      /\ \A i \in 1 .. Len(s) : all[i] = s[i]
      /\ all[Len(s) + 1] = a
  OBVIOUS
<1>2. ToSet(s) = {s[i] : i \in 1 .. Len(s)}
  BY DEF ToSet
<1>3. PICK p : Rearranges(p, all, u)
  BY SortedTyped
<1> HIDE DEF all
<1>4. \A i, j \in DOMAIN all : all[i] = all[j] => i = j
  <2>1. \A i \in 1 .. Len(s) : s[i] # a
    BY <1>2
  <2>2. \A i, j \in 1 .. Len(s) : s[i] = s[j] => i = j
    BY DEF NoTwins
  <2> QED
    BY <1>1, <2>1, <2>2
<1>5. ToSet(s) \union {a} = {all[i] : i \in DOMAIN all}
  BY <1>1, <1>2
<1>6. ToSet(u) = {all[i] : i \in DOMAIN all}
  <2>1. ToSet(u) = {u[i] : i \in DOMAIN all}
    BY <1>3 DEF ToSet, Rearranges
  <2>2. \A i \in DOMAIN all : \E k \in DOMAIN all : u[i] = all[k]
    BY <1>3 DEF Rearranges
  <2>3. \A k \in DOMAIN all : \E i \in DOMAIN all : u[i] = all[k]
    <3> TAKE k \in DOMAIN all
    <3>1. PICK i \in DOMAIN all : p[i] = k
      BY <1>3 DEF Rearranges
    <3> QED
      BY <1>3, <3>1 DEF Rearranges
  <2> QED
    BY <2>1, <2>2, <2>3
<1>7. NoTwins(u)
  <2> SUFFICES ASSUME NEW i \in DOMAIN u, NEW j \in DOMAIN u, u[i] = u[j] PROVE i = j
    BY DEF NoTwins
  <2>1. i \in DOMAIN all /\ j \in DOMAIN all /\ all[p[i]] = all[p[j]]
    BY <1>3 DEF Rearranges
  <2>2. p[i] \in DOMAIN all /\ p[j] \in DOMAIN all
    BY <1>3, <2>1 DEF Rearranges
  <2>3. p[i] = p[j]
    BY <1>4, <2>1, <2>2
  <2> QED
    BY <1>3, <2>1, <2>3 DEF Rearranges
<1> QED
  BY <1>5, <1>6, <1>7, SortedTyped

(***************************************************************************)
(* Threads that take turns.                                                 *)
(***************************************************************************)
LEMMA OneInside ==
    ASSUME IInv, Alone, NEW t \in Threads, InAddArticle(t)
    PROVE  /\ InProgress = {doing[t].with} /\ Settled = received \ {doing[t].with}
           /\ doing[t].with \in received /\ doing[t].with \in Articles
           /\ doing[t].with \notin Settled
           /\ ~Contested(t)
<1>1. doing[t].with \in received /\ received \subseteq Articles
  BY DEF IInv, InArrivals, Typed
<1>2. InProgress = {doing[t].with}
  BY DEF InProgress, Alone
<1>3. ~Contested(t)
  BY DEF Contested, Alone
<1> QED
  BY <1>1, <1>2, <1>3 DEF Settled

(* A thread goes on within addArticle. *)
LEMMA GoesOn ==
    ASSUME IInv, Alone, NEW t \in Threads, InAddArticle(t),
           NEW place \in {"matched", "part", "post"}, doing' = [doing EXCEPT ![t].at = place],
           received' = received
    PROVE  /\ Alone' /\ Settled' = Settled
           /\ \A u \in Threads : InAddArticle(u)' =>
                 u = t /\ doing'[u].at = place /\ doing'[u].with = doing[t].with
<1>1. \A u \in Threads : \/ u # t /\ doing'[u] = doing[u]
                         \/ u = t /\ doing'[u].at = place /\ doing'[u].with = doing[t].with
  BY DEF IInv, Typed
<1>2. \A u \in Threads : InAddArticle(u)' <=> u = t
  BY <1>1 DEF InAddArticle, Alone
<1>3. InProgress' = {doing[t].with}
  BY <1>1, <1>2 DEF InProgress
<1>4. InProgress = {doing[t].with}
  BY OneInside
<1> QED
  BY <1>1, <1>2, <1>3, <1>4 DEF Alone, Settled

(* A thread is done with its article. *)
LEMMA GoesOut ==
    ASSUME IInv, Alone, NEW t \in Threads, InAddArticle(t),
           doing' = [doing EXCEPT ![t].at = "added"], received' = received
    PROVE  InTurn' /\ Settled' = Settled \union {doing[t].with}
<1>1. \A u \in Threads : (u # t /\ doing'[u] = doing[u]) \/ (u = t /\ doing'[u].at = "added")
  BY DEF IInv, Typed
<1>2. \A u \in Threads : ~InAddArticle(u)'
  BY <1>1 DEF InAddArticle, Alone
<1>3. InProgress' = {}
  BY <1>2 DEF InProgress
<1>4. Settled' = received
  BY <1>3 DEF Settled
<1>5. Settled \union {doing[t].with} = received
  BY OneInside
<1> QED
  BY <1>2, <1>4, <1>5 DEF InTurn, Alone, WithSubject, FoundPost, FoundNone, InAddArticle

(* What settles nothing and writes to no outline. *)
LEMMA PostsKept ==
    ASSUME Posts, Settled' = Settled, UNCHANGED << articleCache, articles, children >>
    PROVE  Posts'
BY DEF Posts, OutlinesOnce, WholePosts, NoneYet, HoldsAll, Home

LEMMA TurnReceive ==
    ASSUME IInv, PostsInv, NEW t \in Threads, NEW a \in Articles, Receive(t, a)
    PROVE  PostsInv'
<1>1. /\ doing[t].at = "idle" /\ a \notin received
      /\ received' = received \union {a}
      /\ overlapped' = (overlapped \/ Contested(t))
      /\ UNCHANGED << articleCache, displayedCache, articles, children >>
  BY DEF Receive, At
<1>2. a \notin displayedCache
  BY <1>1 DEF PostsInv, DisplayedArrived
<1>3. doing' = [doing EXCEPT ![t] = [at |-> "shown", with |-> a]]
  BY <1>2 DEF Receive
<1>4. DisplayedArrived' /\ OutlinesTyped'
  BY <1>1 DEF PostsInv, DisplayedArrived, OutlinesTyped
<1>5. ASSUME ~overlapped' PROVE InTurn' /\ Posts'
  <2>1. ~overlapped /\ \A u \in Threads \ {t} : ~InAddArticle(u)
    BY <1>1, <1>5 DEF Contested
  <2>2. InTurn /\ Posts
    BY <2>1 DEF PostsInv
  <2>3. \A u \in Threads : \/ u # t /\ doing'[u] = doing[u]
                           \/ u = t /\ doing'[u].at = "shown" /\ doing'[u].with = a
    BY <1>3 DEF IInv, Typed
  <2>4. \A u \in Threads : ~InAddArticle(u) /\ (InAddArticle(u)' <=> u = t)
    BY <1>1, <2>1, <2>3 DEF InAddArticle
  <2>5. InProgress = {} /\ InProgress' = {a}
    BY <2>3, <2>4 DEF InProgress
  <2>6. Settled' = Settled
    BY <1>1, <2>5 DEF Settled
  <2>7. InTurn'
    BY <2>3, <2>4 DEF InTurn, Alone, WithSubject, FoundPost, FoundNone, InAddArticle
  <2> QED
    BY <1>1, <2>2, <2>6, <2>7, PostsKept
<1> QED
  BY <1>4, <1>5 DEF PostsInv

LEMMA TurnDisplay ==
    ASSUME IInv, PostsInv, NEW t \in Threads, Display(t)
    PROVE  PostsInv'
<1>1. /\ InAddArticle(t) /\ doing[t].with \notin Bare
      /\ displayedCache' \subseteq displayedCache \union {doing[t].with}
      /\ UNCHANGED << articleCache, articles, children, received, overlapped >>
  BY DEF Display, At, InAddArticle, Article
<1>2. PICK place \in {"post", "matched"} :
         /\ doing' = [doing EXCEPT ![t].at = place]
         /\ place = "post" => Key[doing[t].with] = None
  BY DEF Display, Article, Go
<1>3. doing[t].with \in received
  BY <1>1 DEF IInv, InArrivals
<1>4. DisplayedArrived' /\ OutlinesTyped'
  BY <1>1, <1>3 DEF PostsInv, DisplayedArrived, OutlinesTyped
<1>5. ASSUME ~overlapped' PROVE InTurn' /\ Posts'
  <2>1. InTurn /\ Posts /\ Alone
    BY <1>1, <1>5 DEF PostsInv, InTurn
  <2>2. /\ Alone' /\ Settled' = Settled
        /\ \A u \in Threads : InAddArticle(u)' =>
              u = t /\ doing'[u].at = place /\ doing'[u].with = doing[t].with
    BY <1>1, <1>2, <2>1, GoesOn, ZenonT(60)
  <2>3. InTurn'
    BY <1>1, <1>2, <2>2 DEF InTurn, WithSubject, FoundPost, FoundNone, InAddArticle
  <2> QED
    BY <1>1, <2>1, <2>2, <2>3, PostsKept
<1> QED
  BY <1>4, <1>5 DEF PostsInv

LEMMA TurnFindPost ==
    ASSUME IInv, PostsInv, NEW t \in Threads, FindPost(t)
    PROVE  PostsInv'
<1>1. /\ InAddArticle(t) /\ doing[t].at = "matched"
      /\ UNCHANGED << articleCache, displayedCache, articles, children, received, overlapped >>
  BY DEF FindPost, At, InAddArticle
<1>2. PICK place \in {"part", "post"} :
         /\ doing' = [doing EXCEPT ![t].at = place]
         /\ place = "part" <=> articleCache[Key[doing[t].with]] # None
  BY DEF FindPost, Article, Go
<1>4. DisplayedArrived' /\ OutlinesTyped'
  BY <1>1 DEF PostsInv, DisplayedArrived, OutlinesTyped
<1>5. ASSUME ~overlapped' PROVE InTurn' /\ Posts'
  <2>1. InTurn /\ Posts /\ Alone /\ doing[t].with \notin Bare
    BY <1>1, <1>5 DEF PostsInv, InTurn, WithSubject
  <2>2. /\ Alone' /\ Settled' = Settled
        /\ \A u \in Threads : InAddArticle(u)' =>
              u = t /\ doing'[u].at = place /\ doing'[u].with = doing[t].with
    <3>1. /\ place \in {"matched", "part", "post"} /\ doing' = [doing EXCEPT ![t].at = place]
          /\ received' = received
      BY <1>1, <1>2
    <3> QED
      BY <1>1, <2>1, <3>1, GoesOn, ZenonT(60)
  <2>3. InTurn'
    BY <1>1, <1>2, <2>1, <2>2 DEF InTurn, WithSubject, FoundPost, FoundNone, InAddArticle
  <2> QED
    BY <1>1, <2>1, <2>2, <2>3, PostsKept
<1> QED
  BY <1>4, <1>5 DEF PostsInv

LEMMA TurnReload ==
    ASSUME IInv, PostsInv, NEW t \in Threads, Reload(t)
    PROVE  PostsInv'
<1>1. /\ doing[t].at = "added" /\ doing' = [doing EXCEPT ![t] = Idle]
      /\ UNCHANGED << articleCache, displayedCache, articles, children, received, overlapped >>
  BY DEF Reload, At
<1>2. \A u \in Threads : (u # t /\ doing'[u] = doing[u]) \/ (u = t /\ doing'[u].at = "idle")
  BY <1>1 DEF IInv, Typed, Idle
<1>3. \A u \in Threads : /\ InAddArticle(u)' <=> InAddArticle(u)
                         /\ InAddArticle(u) => doing'[u] = doing[u]
  BY <1>1, <1>2 DEF InAddArticle
<1>4. InProgress' = InProgress
  BY <1>3 DEF InProgress
<1>5. Settled' = Settled
  BY <1>1, <1>4 DEF Settled
<1>6. InTurn => InTurn'
  BY <1>1, <1>2, <1>3 DEF InTurn, Alone, WithSubject, FoundPost, FoundNone
<1> QED
  BY <1>1, <1>5, <1>6, PostsKept DEF PostsInv, DisplayedArrived, OutlinesTyped

LEMMA TurnTrap ==
    ASSUME IInv, PostsInv, NEW t \in Threads, Trap(t)
    PROVE  PostsInv'
<1>1. /\ InAddArticle(t) /\ Contested(t)
      /\ UNCHANGED << articleCache, displayedCache, articles, children, received, overlapped >>
  BY DEF Trap
<1>2. ~Alone
  BY <1>1 DEF Alone, Contested
<1> QED
  BY <1>1, <1>2 DEF PostsInv, InTurn, DisplayedArrived, OutlinesTyped

(* The writes of a thread that is alone in addArticle all last. *)
LEMMA WrittenAlone ==
    ASSUME IInv, NEW t \in Threads, ~Contested(t), NEW a \in Articles, NEW ks,
           ks \subseteq CacheKeys(a), articleCache' \in CacheWrites(t, ks, a)
    PROVE  \A k \in Articles \union Keys :
              articleCache'[k] = IF k \in ks THEN a ELSE articleCache[k]
BY DEF CacheWrites, IInv, Typed

LEMMA KeysOfKeyed == \A a \in Articles : Key[a] # None => Key[a] \in Keys
BY DEF Keys

(* The home of a post that is apart is one of its own articles.  *)
LEMMA ApartHome ==
    ASSUME IInv, NEW b \in Articles, Apart(b), NEW k \in Keys, k # Key[b], articleCache[k] # None
    PROVE  articleCache[k] \notin Fellows(b)
<1>1. PICK o : o = articleCache[k]
  OBVIOUS
<1>2. o \in Articles /\ (k = o \/ k = Key[o])
  BY <1>1 DEF IInv, CachedAsItself, Typed
<1> SUFFICES ASSUME o \in Fellows(b) PROVE FALSE
  BY <1>1
<1>3. Key[o] = Key[b]
  BY Fellowship
<1> QED
  BY <1>2, <1>3 DEF Apart

LEMMA TurnCacheBare ==
    ASSUME IInv, PostsInv, NEW t \in Threads, CacheBare(t)
    PROVE  PostsInv'
<1> DEFINE a == doing[t].with
<1>1. /\ InAddArticle(t) /\ a \in Bare /\ doing' = [doing EXCEPT ![t].at = "added"]
      /\ articleCache' \in CacheWrites(t, {a}, a)
      /\ children' = [children EXCEPT ![a] = << a >>]
      /\ UNCHANGED << displayedCache, articles, received, overlapped >>
  BY DEF CacheBare, At, InAddArticle, Article, Go
<1> HIDE DEF a
<1>2. a \in Articles /\ Key[a] = None
  BY <1>1, BareHasNone
<1>3. DisplayedArrived' /\ OutlinesTyped'
  BY <1>1, <1>2 DEF PostsInv, DisplayedArrived, OutlinesTyped
<1>4. ASSUME ~overlapped' PROVE InTurn' /\ Posts'
  <2>1. InTurn /\ Posts /\ Alone
    BY <1>1, <1>4 DEF PostsInv, InTurn
  <2>2. InTurn' /\ Settled' = Settled \union {a} /\ a \notin Settled /\ ~Contested(t)
    BY <1>1, <2>1, GoesOut, OneInside DEF a
  <2>3. \A k \in Keys \ Articles : articleCache'[k] = articleCache[k]
    <3>1. {a} \subseteq CacheKeys(a)
      BY DEF CacheKeys
    <3> QED
      BY <1>1, <1>2, <2>2, <3>1, WrittenAlone
  <2>4. \A o \in Articles : o # a => children'[o] = children[o]
    BY <1>1 DEF PostsInv, OutlinesTyped
  <2>5. \A b \in Articles \ Bare : Apart(b) => Home(b)' = Home(b)
    BY <2>3, KeysOfKeyed DEF Home, Apart
  <2>6. \A b \in Articles \ Bare : a \notin Fellows(b)
    BY <1>1, <1>2, Fellowship
  <2>7. WholePosts'
    <3> SUFFICES ASSUME NEW b \in Settled' \ Bare, Apart(b) PROVE HoldsAll(Home(b), b)'
      BY DEF WholePosts
    <3>1. b \in Settled /\ b \in Articles
      BY <1>1, <2>2 DEF Settled, IInv, Typed
    <3>2. HoldsAll(Home(b), b)
      BY <2>1, <3>1 DEF Posts, WholePosts
    <3>3. Home(b) # a /\ Home(b) \in Articles /\ Home(b)' = Home(b)
      BY <2>2, <2>5, <3>1, <3>2, Fellowship DEF HoldsAll
    <3>4. Fellows(b) \intersect Settled' = Fellows(b) \intersect Settled
      BY <2>2, <2>6, <3>1
    <3> QED
      BY <1>1, <2>4, <3>2, <3>3, <3>4 DEF HoldsAll
  <2>8. NoneYet'
    BY <2>1, <2>2, <2>3, KeysOfKeyed DEF Posts, NoneYet, Apart
  <2>9. OutlinesOnce'
    BY <1>1, <2>1, <2>2 DEF Posts, OutlinesOnce
  <2> QED
    BY <2>2, <2>7, <2>8, <2>9 DEF Posts
<1> QED
  BY <1>3, <1>4 DEF PostsInv

(* The subjects of a post that is apart are its articles' own. *)
LEMMA OwnSubjects ==
    ASSUME IInv, NEW a \in Articles, Apart(a), NEW b \in Fellows(a)
    PROVE  subject[b] = b
<1>1. b \in Articles /\ Key[b] = Key[a]
  BY Fellowship
<1>2. Key[b] \notin Articles
  BY <1>1 DEF Apart
<1>3. subject[b] \in Articles
  BY <1>1 DEF IInv, Typed
<1> QED
  BY <1>1, <1>2, <1>3 DEF IInv, SubjectsKept

LEMMA TurnAddPart ==
    ASSUME IInv, PostsInv, NEW t \in Threads, AddPart(t)
    PROVE  PostsInv'
<1> DEFINE a == doing[t].with
           m == articleCache[Key[a]]
<1>1. /\ InAddArticle(t) /\ doing[t].at = "part" /\ doing' = [doing EXCEPT ![t].at = "added"]
      /\ UNCHANGED << articleCache, displayedCache, articles, received, overlapped >>
  BY SMTT(60) DEF AddPart, At, InAddArticle, Go
<1>2. \/ \E parts \in Sorted(children[m], a) : children' = [children EXCEPT ![m] = parts]
      \/ Contested(t) /\ children' = children
  BY DEF AddPart, Article
<1>3. a \in Articles /\ Key[a] # None /\ Key[a] \in Keys
  BY <1>1, KeysOfKeyed DEF IInv, WithKey, Typed, InArrivals, InAddArticle
<1>4. m = None \/ m \in Articles
  BY <1>3 DEF IInv, Typed
<1>5. DisplayedArrived'
  BY <1>1 DEF PostsInv, DisplayedArrived
<1>6. \A o \in Articles : children[o] \in Seq(Articles)
  BY SMTT(60) DEF PostsInv, OutlinesTyped
<1>7. OutlinesTyped'
  <2>1. CASE children' = children
    BY <2>1 DEF PostsInv, OutlinesTyped
  <2>2. CASE m \in Articles /\ \E parts \in Sorted(children[m], a) :
                children' = [children EXCEPT ![m] = parts]
    <3> HIDE DEF a, m
    <3>1. PICK parts \in Sorted(children[m], a) : children' = [children EXCEPT ![m] = parts]
      BY <2>2
    <3>2. parts \in Seq(Articles)
      BY <1>3, <1>6, <2>2, <3>1, SortedTyped
    <3> QED
      BY <2>2, <3>1, <3>2 DEF PostsInv, OutlinesTyped
  <2>3. CASE m \notin Articles
    <3>1. children' = children \/ \E parts : children' = [children EXCEPT ![m] = parts]
      BY <1>2
    <3>2. children \in [Articles -> Seq(Articles)]
      BY DEF PostsInv, OutlinesTyped
    <3> HIDE DEF m
    <3>3. children' = children
      BY <2>3, <3>1, <3>2
    <3> QED
      BY <3>2, <3>3, SMTT(60) DEF OutlinesTyped
  <2> QED
    BY <1>2, <2>1, <2>2, <2>3
<1> HIDE DEF m
<1>8. ASSUME ~overlapped' PROVE InTurn' /\ Posts'
  <2>1. InTurn /\ Posts /\ Alone
    BY <1>1, <1>8 DEF PostsInv, InTurn
  <2>2. InTurn' /\ Settled' = Settled \union {a} /\ a \notin Settled /\ ~Contested(t)
    BY <1>1, <2>1, GoesOut, OneInside
  <2>3. m # None /\ a \notin Bare
    BY <1>1, <2>1 DEF m, InTurn, FoundPost, WithSubject
  <2>4. PICK parts \in Sorted(children[m], a) : children' = [children EXCEPT ![m] = parts]
    BY <1>2, <2>2 DEF m
  <2>5. m \in Articles
    BY <1>4, <2>3
  <2> HIDE DEF a
  <2>6. children'[m] = parts /\ \A o \in Articles : o # m => children'[o] = children[o]
    BY <2>4, <2>5 DEF PostsInv, OutlinesTyped
  <2>7. \A b : Home(b)' = Home(b)
    BY <1>1 DEF Home
  <2>8. ASSUME Apart(a)
        PROVE  /\ m \in Fellows(a) \intersect Settled
               /\ \E i \in DOMAIN articles : articles[i] = m
               /\ ToSet(parts) = Fellows(a) \intersect Settled'
               /\ NoTwins(parts) /\ Ordered(parts)
    <3>1. PICK c \in Fellows(a) \intersect Settled : TRUE
      BY <1>3, <2>1, <2>3, <2>8 DEF Posts, NoneYet, m
    <3>2. c \in Articles \ Bare /\ Key[c] = Key[a] /\ Fellows(c) = Fellows(a) /\ Apart(c)
      BY <1>3, <2>8, <3>1, Fellowship, BareHasNone
    <3>3. HoldsAll(m, c)
      <4>1. Home(c) = m
        BY <1>3, <3>2 DEF Home, m
      <4> QED
        BY <2>1, <3>1, <3>2, <4>1 DEF Posts, WholePosts
    <3>4. /\ m \in Fellows(a) \intersect Settled
          /\ \E i \in DOMAIN articles : articles[i] = m
          /\ ToSet(children[m]) = Fellows(a) \intersect Settled
          /\ NoTwins(children[m])
      BY <3>2, <3>3 DEF HoldsAll
    <3>5. a \notin ToSet(children[m]) /\ children[m] \in Seq(Articles)
      BY <1>6, <2>2, <2>5, <3>4
    <3>6. /\ parts \in Seq(Articles) /\ ToSet(parts) = ToSet(children[m]) \union {a} /\ NoTwins(parts)
          /\ \A i, j \in DOMAIN parts :
                i < j => FileNumber[subject[parts[i]]] <= FileNumber[subject[parts[j]]]
      BY <1>3, <2>4, <3>4, <3>5, SortedIn
    <3>7. ToSet(parts) = Fellows(a) \intersect Settled'
      BY <1>3, <2>2, <3>4, <3>6, Fellowship
    <3>8. \A i \in DOMAIN parts : subject[parts[i]] = parts[i]
      <4>1. \A i \in DOMAIN parts : parts[i] \in Fellows(a)
        BY <3>7 DEF ToSet
      <4> QED
        BY <1>3, <2>8, <4>1, OwnSubjects
    <3>9. Ordered(parts)
      BY <3>6, <3>8 DEF Ordered
    <3> QED
      BY <3>4, <3>6, <3>7, <3>9
  <2>9. WholePosts'
    <3> SUFFICES ASSUME NEW b \in Settled' \ Bare, Apart(b) PROVE HoldsAll(Home(b), b)'
      BY DEF WholePosts
    <3>1. b \in Articles
      BY <1>1, <1>3, <2>2 DEF Settled, IInv, Typed
    <3>2. CASE b \in Fellows(a)
      <4>1. Fellows(b) = Fellows(a) /\ Apart(a) /\ Key[b] = Key[a]
        BY <1>3, <3>2, Fellowship
      <4>2. Home(b)' = m
        BY <1>3, <2>7, <4>1 DEF Home, m
      <4> QED
        BY <1>1, <2>2, <2>6, <2>8, <4>1, <4>2 DEF HoldsAll
    <3>3. CASE b \notin Fellows(a)
      <4>1. b \in Settled
        BY <1>3, <2>2, <3>3, Fellowship
      <4>2. HoldsAll(Home(b), b)
        BY <2>1, <4>1 DEF Posts, WholePosts
      <4>3. a \notin Fellows(b) /\ Key[a] # Key[b]
        BY <1>3, <3>1, <3>3, Fellowship
      <4>4. m \notin Fellows(b)
        BY <1>3, <2>3, <3>1, <4>3, ApartHome DEF m
      <4>5. Home(b) # m /\ Home(b) \in Articles
        BY <3>1, <4>2, <4>4, Fellowship DEF HoldsAll
      <4>6. Fellows(b) \intersect Settled' = Fellows(b) \intersect Settled
        BY <2>2, <4>3
      <4> QED
        BY <1>1, <2>6, <2>7, <4>2, <4>5, <4>6 DEF HoldsAll
    <3> QED
      BY <3>2, <3>3
  <2>10. NoneYet'
    BY <1>1, <2>1, <2>2 DEF Posts, NoneYet
  <2>11. OutlinesOnce'
    BY <1>1, <2>1, <2>2 DEF Posts, OutlinesOnce
  <2> QED
    BY <2>2, <2>9, <2>10, <2>11 DEF Posts
<1> QED
  BY <1>5, <1>7, <1>8 DEF PostsInv

LEMMA TurnAddPost ==
    ASSUME IInv, PostsInv, NEW t \in Threads, AddPost(t)
    PROVE  PostsInv'
<1>0. PICK a \in Articles : a = doing[t].with
  BY DEF AddPost, At, IInv, InArrivals, InAddArticle, Typed
<1>1. /\ InAddArticle(t) /\ doing[t].at = "post" /\ doing' = [doing EXCEPT ![t].at = "added"]
      /\ children' = [children EXCEPT ![a] = << a >>]
      /\ articleCache' \in CacheWrites(t, CacheKeys(a), a)
      /\ articles' = Append(articles, a) \/ (Contested(t) /\ articles' = articles)
      /\ UNCHANGED << displayedCache, received, overlapped >>
  BY <1>0 DEF AddPost, At, InAddArticle, Go, Article
<1>2. a \in Articles /\ (Key[a] # None => Key[a] \in Keys)
  BY KeysOfKeyed
<1>3. DisplayedArrived' /\ OutlinesTyped'
  BY <1>1, <1>2 DEF PostsInv, DisplayedArrived, OutlinesTyped
<1>4. ASSUME ~overlapped' PROVE InTurn' /\ Posts'
  <2>1. InTurn /\ Posts /\ Alone
    BY <1>1, <1>4 DEF PostsInv, InTurn
  <2>2. InTurn' /\ Settled' = Settled \union {a} /\ a \notin Settled /\ ~Contested(t)
    BY <1>0, <1>1, <2>1, GoesOut, OneInside
  <2>3. a \notin Bare /\ (Key[a] # None => articleCache[Key[a]] = None)
    BY <1>0, <1>1, <2>1 DEF InTurn, FoundNone, WithSubject
  <2>4. \A k \in Articles \union Keys :
           articleCache'[k] = IF k = a \/ k = Key[a] THEN a ELSE articleCache[k]
    <3>1. \A k \in Articles \union Keys :
             articleCache'[k] = IF k \in CacheKeys(a) THEN a ELSE articleCache[k]
      BY <1>1, <1>2, <2>2, WrittenAlone
    <3>2. None \notin Articles \union Keys
      BY ArticlesViewAssumption DEF Keys
    <3> QED
      BY <3>1, <3>2 DEF CacheKeys
  <2>5. children'[a] = << a >> /\ \A o \in Articles : o # a => children'[o] = children[o]
    BY <1>1, <1>2 DEF PostsInv, OutlinesTyped
  <2>6. /\ articles' = Append(articles, a) /\ articles \in Seq(Articles)
        /\ \A i \in DOMAIN articles : i \in DOMAIN articles' /\ articles'[i] = articles[i]
        /\ \A i \in DOMAIN articles' : i \notin DOMAIN articles =>
              i = Len(articles) + 1 /\ articles'[i] = a
        /\ Len(articles) + 1 \in DOMAIN articles' /\ articles'[Len(articles) + 1] = a
    <3>1. articles' = Append(articles, a) /\ articles \in Seq(Articles)
      BY <1>1, <2>2 DEF IInv, Typed
    <3> QED
      BY <1>2, <3>1
  <2>7. OutlinesOnce'
    <3>1. \A i \in DOMAIN articles : articles[i] # a /\ articles[i] \in Settled
      BY <2>1, <2>2 DEF Posts, OutlinesOnce
    <3>2. \A i \in DOMAIN articles' : articles'[i] \in Settled'
      BY <2>2, <2>6, <3>1
    <3>3. ASSUME NEW i \in DOMAIN articles', NEW j \in DOMAIN articles', articles'[i] = articles'[j]
          PROVE  i = j
      BY <2>1, <2>6, <3>1, <3>3 DEF Posts, OutlinesOnce
    <3> QED
      BY <3>2, <3>3 DEF OutlinesOnce
  <2>8. Apart(a) => Fellows(a) \intersect Settled = {}
    <3> SUFFICES ASSUME Apart(a), NEW c \in Fellows(a) \intersect Settled PROVE FALSE
      OBVIOUS
    <3>1. c # a /\ Key[a] # None /\ Key[c] = Key[a] /\ c \in Articles \ Bare /\ Apart(c)
      BY <1>2, <2>2, Fellowship, BareHasNone
    <3>2. HoldsAll(articleCache[Key[a]], c)
      BY <2>1, <3>1 DEF Posts, WholePosts, Home
    <3>3. articleCache[Key[a]] \in Articles
      BY <3>1, <3>2, Fellowship DEF HoldsAll
    <3> QED
      BY <2>3, <3>1, <3>3, ArticlesViewAssumption
  <2>9. ASSUME NEW b \in Articles, Apart(b), b \notin Fellows(a)
        PROVE  a \notin Fellows(b) /\ Home(b)' = Home(b)
               /\ (Key[b] # None => articleCache'[Key[b]] = articleCache[Key[b]])
    <3>1. a \notin Fellows(b)
      BY <1>2, <2>9, Fellowship
    <3>2. Key[b] # None => Key[b] \in Keys /\ Key[b] # a /\ Key[b] # Key[a]
      BY <1>2, <2>9, <3>1, KeysOfKeyed, Fellowship DEF Apart
    <3> QED
      BY <2>4, <3>1, <3>2 DEF Home
  <2>10. WholePosts'
    <3> SUFFICES ASSUME NEW b \in Settled' \ Bare, Apart(b) PROVE HoldsAll(Home(b), b)'
      BY DEF WholePosts
    <3>1. b \in Articles
      BY <1>1, <1>2, <2>2 DEF Settled, IInv, Typed
    <3>2. CASE b \in Fellows(a)
      <4>1. Fellows(b) = Fellows(a) /\ Apart(a) /\ Key[b] = Key[a]
        BY <1>2, <3>2, Fellowship
      <4>2. b = a /\ Fellows(a) \intersect Settled' = {a}
        BY <1>2, <2>2, <2>8, <3>2, <4>1, Fellowship
      <4>3. Home(a)' = a
        <5>1. Key[a] # None => articleCache'[Key[a]] = a
          BY <1>2, <2>4
        <5> QED
          BY <5>1 DEF Home
      <4>4. ToSet(<< a >>) = {a} /\ NoTwins(<< a >>) /\ Ordered(<< a >>)
        BY DEF ToSet, NoTwins, Ordered
      <4>5. \E i \in DOMAIN articles' : articles'[i] = a
        BY <2>6
      <4>6. a \in Fellows(a) \intersect Settled' /\ children'[a] = << a >>
        BY <2>5, <4>2
      <4>7. HoldsAll(a, a)'
        BY <4>2, <4>4, <4>5, <4>6 DEF HoldsAll
      <4> QED
        BY <4>2, <4>3, <4>7 DEF HoldsAll
    <3>3. CASE b \notin Fellows(a)
      <4>1. b \in Settled
        BY <1>2, <2>2, <3>3, Fellowship
      <4>2. HoldsAll(Home(b), b)
        BY <2>1, <4>1 DEF Posts, WholePosts
      <4>3. Home(b)' = Home(b) /\ a \notin Fellows(b)
        BY <2>9, <3>1, <3>3
      <4>4. Home(b) # a /\ Home(b) \in Articles
        BY <2>2, <3>1, <4>2, Fellowship DEF HoldsAll
      <4>5. Fellows(b) \intersect Settled' = Fellows(b) \intersect Settled
        BY <2>2, <4>3
      <4>6. \E i \in DOMAIN articles' : articles'[i] = Home(b)
        BY <2>6, <4>2 DEF HoldsAll
      <4> QED
        BY <2>5, <4>2, <4>3, <4>4, <4>5, <4>6 DEF HoldsAll
    <3> QED
      BY <3>2, <3>3
  <2>11. NoneYet'
    <3> SUFFICES ASSUME NEW b \in Articles \ Bare, Apart(b), Key[b] # None,
                        Fellows(b) \intersect Settled' = {}
                 PROVE  articleCache'[Key[b]] = None
      BY DEF NoneYet
    <3>1. b \notin Fellows(a)
      BY <1>2, <2>2, Fellowship
    <3>2. articleCache'[Key[b]] = articleCache[Key[b]] /\ Fellows(b) \intersect Settled = {}
      BY <2>2, <2>9, <3>1
    <3> QED
      BY <2>1, <3>2 DEF Posts, NoneYet
  <2> QED
    BY <2>2, <2>7, <2>10, <2>11 DEF Posts
<1> QED
  BY <1>3, <1>4 DEF PostsInv
(***************************************************************************)
(* No header is being added: the posts, as they are.                        *)
(***************************************************************************)
LEMMA InitPosts == Init => PostsInv
<1> SUFFICES ASSUME Init PROVE PostsInv
  OBVIOUS
<1>1. \A t \in Threads : doing[t].at = "idle"
  BY DEF Init, Idle
<1>2. \A t \in Threads : ~InAddArticle(t)
  BY <1>1 DEF InAddArticle
<1>3. received = {} /\ Settled = {} /\ articles = << >> /\ displayedCache = {}
  BY DEF Init, Settled
<1>4. \A k \in Keys : articleCache[k] = None
  BY DEF Init
<1>5. NoneYet
  BY <1>4, KeysOfKeyed DEF NoneYet
<1>6. OutlinesOnce
  <2>1. DOMAIN articles = {}
    BY <1>3
  <2> QED
    BY <2>1 DEF OutlinesOnce
<1>7. InTurn
  BY <1>1, <1>2 DEF InTurn, Alone, WithSubject, FoundPost, FoundNone
<1>8. OutlinesTyped
  BY DEF Init, OutlinesTyped
<1> QED
  BY <1>3, <1>5, <1>6, <1>7, <1>8 DEF PostsInv, Posts, WholePosts, DisplayedArrived

LEMMA PostsInvariance == Spec => []PostsInv
<1>1. IInv /\ PostsInv /\ [Next]_vars => PostsInv'
  <2> SUFFICES ASSUME IInv, PostsInv, [Next]_vars PROVE PostsInv'
    OBVIOUS
  <2>1. ASSUME NEW t \in Threads, NEW a \in Articles, Receive(t, a) PROVE PostsInv'
    BY <2>1, TurnReceive
  <2>2. ASSUME NEW t \in Threads, Step(t) PROVE PostsInv'
    BY <2>2, TurnCacheBare, TurnDisplay, TurnFindPost, TurnAddPart, TurnAddPost, TurnReload DEF Step
  <2>3. ASSUME NEW t \in Threads, Trap(t) PROVE PostsInv'
    BY <2>3, TurnTrap
  <2>4. CASE UNCHANGED vars
    <3>1. UNCHANGED << articleCache, displayedCache, articles, children, doing, received, overlapped >>
      BY <2>4 DEF vars
    <3>2. InProgress' = InProgress
      BY <3>1 DEF InProgress, InAddArticle
    <3>3. Settled' = Settled
      BY <3>1, <3>2 DEF Settled
    <3>4. InTurn => InTurn'
      BY <3>1 DEF InTurn, Alone, WithSubject, FoundPost, FoundNone, InAddArticle
    <3> QED
      BY <3>1, <3>3, <3>4, PostsKept DEF PostsInv, DisplayedArrived, OutlinesTyped
  <2> QED
    BY <2>1, <2>2, <2>3, <2>4 DEF Next
<1> QED
  BY InitPosts, Invariance, <1>1, PTL DEF Spec

(* Without twins a sequence is as long as the set of its members is large. *)
LEMMA AsManyAsMembers ==
    ASSUME NEW S, NEW s \in Seq(S), NoTwins(s)
    PROVE  Len(s) = Cardinality(ToSet(s))
<1>1. s \in [1 .. Len(s) -> ToSet(s)] /\ Len(s) \in Nat /\ ToSet(s) = {s[i] : i \in 1 .. Len(s)}
  BY DEF ToSet
<1>2. s \in Bijection(1 .. Len(s), ToSet(s))
  BY <1>1 DEF NoTwins, Bijection, Injection, Surjection, IsInjective
<1>3. ExistsBijection(1 .. Len(s), ToSet(s))
  BY <1>2 DEF ExistsBijection
<1> QED
  BY <1>1, <1>3, FS_CountingElements

(***************************************************************************)
(* Whatever the order in which the headers arrive, and whichever threads    *)
(* bring them one at a time, each post has one outline, with all of its     *)
(* parts and no others, each of them once and in order (addArticle).        *)
(***************************************************************************)
THEOREM WholePostsAlone == Spec => []PostsWhole
<1>1. IInv /\ PostsInv => PostsWhole
  <2> SUFFICES ASSUME IInv, PostsInv, ~overlapped, \A t \in Threads : ~InAddArticle(t),
                      NEW a \in Articles \ Bare, a \in received, Apart(a)
               PROVE  \E o \in Articles :
                /\ \E i \in DOMAIN articles :
                       articles[i] = o /\ \A j \in DOMAIN articles : articles[j] = o => j = i
                /\ ToSet(children[o]) = Fellows(a) \intersect received
                /\ Len(children[o]) = Cardinality(ToSet(children[o]))
                /\ Ordered(children[o])
    BY DEF PostsWhole
  <2>1. Posts /\ OutlinesTyped
    BY DEF PostsInv
  <2>2. Settled = received
    BY DEF Settled, InProgress
  <2>3. HoldsAll(Home(a), a)
    BY <2>1, <2>2 DEF Posts, WholePosts
  <2>4. PICK o : o = Home(a)
    OBVIOUS
  <2>5. /\ o \in Articles /\ children[o] \in Seq(Articles) /\ NoTwins(children[o])
        /\ ToSet(children[o]) = Fellows(a) \intersect received /\ Ordered(children[o])
        /\ \E i \in DOMAIN articles : articles[i] = o
    BY <2>1, <2>2, <2>3, <2>4, Fellowship DEF HoldsAll, OutlinesTyped
  <2>6. \E i \in DOMAIN articles :
           articles[i] = o /\ \A j \in DOMAIN articles : articles[j] = o => j = i
    BY <2>1, <2>5 DEF Posts, OutlinesOnce
  <2>7. Len(children[o]) = Cardinality(ToSet(children[o]))
    BY <2>5, AsManyAsMembers
  <2> QED
    BY <2>5, <2>6, <2>7
<1> QED
  BY <1>1, Invariance, PostsInvariance, PTL
================================================================================
