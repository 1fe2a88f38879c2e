---------------------------- MODULE Library_proofs ----------------------------
(***************************************************************************)
(* Invariants of Library.tla for any groups, numbers, listings and threads. *)
(*                                                                          *)
(* The inductive invariant says three things beyond the properties.  The    *)
(* draft is the store when nobody writes, and has all of the store's        *)
(* articles when somebody does.  One thread writes, the one in the writing  *)
(* stage.  And a number that a command has as its own (a new article whose  *)
(* header nobody has asked for, or a header on its way) is claimed by that  *)
(* command alone, and its article is stored, by its group, without header.  *)
(***************************************************************************)
EXTENDS Library, FiniteSetTheorems, SequenceTheorems, TLAPS

(* The numbers a command has as its own. *)
Claims(j) == ToSet(j.newArticles) \union Wants(j)

(* Those whose headers have not been asked for yet. *)
Unasked(j) == ToSet(j.newArticles) \union (IF j.kind = "heads" THEN ToSet(j.todo) ELSE {})

Distinct(s) == \A i, k \in DOMAIN s : s[i] = s[k] => i = k

Has(s, article) == \E k \in DOMAIN s.articles : s.articles[k] = article

(* Every article of s is in u, in the same place, number and group. *)
Extends(u, s) ==
    \A k \in DOMAIN s.articles :
        /\ k \in DOMAIN u.articles
        /\ u.articles[k].id = s.articles[k].id
        /\ u.articles[k].group = s.articles[k].group

WriterWrites == \A t \in Threads : job[t].stage = "writing" <=> writer = t

DraftOfStore ==
    /\ writer = None => draft = store
    /\ Extends(draft, store)

StoreSound(s) == NoDuplicates(s) /\ NoTwins(s) /\ OwnHeaders(s) /\ ListsAllTwice(s)

(* A command in a stage that has no use for a field has it empty. *)
JobSound(j) ==
    /\ j.newArticles # << >> => j.kind = "list" /\ j.stage \in {"writing", "posting"}
    /\ j.kind = "heads" => Distinct(j.todo) /\ ToSet(j.todo) \intersect ToSet(j.chunk) = {}
    /\ j.kind = "heads" /\ j.chunk # << >> => Len(j.chunk) = 1
    /\ j.kind = "heads" /\ j.stage = "reading" => j.chunk = << >>
    /\ Distinct(j.newArticles)

ClaimsExclusive ==
    \A t, u \in Threads : t # u => Claims(job[t]) \intersect Claims(job[u]) = {}

ClaimsStored ==
    \A t \in Threads : \A n \in Claims(job[t]) :
        /\ Has(draft, NewArticle(job[t].group, n))
        /\ ~Runs(t, "list", "writing") => Has(store, NewArticle(job[t].group, n))

UnaskedNotAsked ==
    \A t \in Threads : \A n \in Unasked(job[t]) : asked[<< job[t].group, n >>] = 0

AskedIsStored ==
    \A h \in Headers : asked[h] # 0 =>
        \E k \in DOMAIN store.articles : store.articles[k].id = h[2]

Sound(s) == s \in Stores /\ ListsOnlyStored(s) /\ StoreSound(s)

DatabaseInv == Sound(store) /\ Sound(draft) /\ DraftOfStore

ThreadsInv ==
    /\ writer \in Threads \union {None}
    /\ job \in [Threads -> Jobs]
    /\ WriterWrites
    /\ \A t \in Threads : JobSound(job[t])

ClaimsInv == ClaimsExclusive /\ ClaimsStored /\ UnaskedNotAsked

AskedInv == asked \in [Headers -> Nat] /\ AskedIsStored /\ HeaderAskedOnce

IInv == DatabaseInv /\ ThreadsInv /\ ClaimsInv /\ AskedInv
-------------------------------------------------------------------------------
(***************************************************************************)
(* Sequences as sets.                                                       *)
(***************************************************************************)
LEMMA SetOfAppend ==
    ASSUME NEW S, NEW s \in Seq(S), NEW e \in S
    PROVE  ToSet(Append(s, e)) = ToSet(s) \union {e}
<1> DEFINE u == Append(s, e)
<1>1. /\ Len(s) \in Nat
      /\ DOMAIN s = 1 .. Len(s)
      /\ DOMAIN u = 1 .. Len(s) + 1
      /\ \A i \in 1 .. Len(s) : u[i] = s[i]
      /\ u[Len(s) + 1] = e
  OBVIOUS
<1> HIDE DEF u
<1>2. \A i \in DOMAIN u : u[i] \in ToSet(s) \union {e}
  BY <1>1 DEF ToSet
<1>3. \A i \in DOMAIN s : \E k \in DOMAIN u : u[k] = s[i]
  BY <1>1
<1>4. Len(s) + 1 \in DOMAIN u
  BY <1>1
<1> QED BY <1>1, <1>2, <1>3, <1>4 DEF ToSet, u

(* Head and tail of a sequence without repetitions share nothing. *)
LEMMA SetOfTail ==
    ASSUME NEW S, NEW s \in Seq(S), s # << >>
    PROVE  /\ Head(s) \in S
           /\ Head(s) \in ToSet(s)
           /\ ToSet(Tail(s)) \subseteq ToSet(s)
           /\ Distinct(s) => Distinct(Tail(s)) /\ Head(s) \notin ToSet(Tail(s))
<1> DEFINE u == Tail(s)
<1>1. /\ Len(s) \in Nat \ {0}
      /\ DOMAIN s = 1 .. Len(s)
      /\ Head(s) = s[1]
      /\ DOMAIN u = 1 .. Len(s) - 1
      /\ \A i \in 1 .. Len(s) - 1 : u[i] = s[i + 1]
  OBVIOUS
<1> HIDE DEF u
<1>2. \A i \in DOMAIN u : i + 1 \in DOMAIN s /\ u[i] = s[i + 1] /\ i + 1 # 1
  BY <1>1
<1>3. 1 \in DOMAIN s
  BY <1>1
<1>4. ToSet(u) \subseteq ToSet(s)
  BY <1>2 DEF ToSet
<1>5. ASSUME Distinct(s) PROVE Distinct(u) /\ Head(s) \notin ToSet(u)
  <2>1. \A i \in DOMAIN u : u[i] # s[1]
    BY <1>2, <1>3, <1>5 DEF Distinct
  <2>2. \A i, k \in DOMAIN u : u[i] = u[k] => i + 1 = k + 1
    BY <1>2, <1>5 DEF Distinct
  <2>3. \A i, k \in DOMAIN u : i + 1 = k + 1 => i = k
    BY <1>1
  <2> QED BY <1>1, <2>1, <2>2, <2>3 DEF Distinct, ToSet
<1> QED BY <1>1, <1>3, <1>4, <1>5 DEF ToSet, u

LEMMA DistinctAppend ==
    ASSUME NEW S, NEW s \in Seq(S), NEW e \in S, Distinct(s), e \notin ToSet(s)
    PROVE  Distinct(Append(s, e))
<1> DEFINE u == Append(s, e)
<1>1. /\ Len(s) \in Nat
      /\ DOMAIN s = 1 .. Len(s)
      /\ DOMAIN u = 1 .. Len(s) + 1
      /\ \A i \in 1 .. Len(s) : u[i] = s[i]
      /\ u[Len(s) + 1] = e
  OBVIOUS
<1> HIDE DEF u
<1>2. \A i \in 1 .. Len(s) : u[i] # e
  BY <1>1 DEF ToSet
<1>3. \A i, k \in 1 .. Len(s) : u[i] = u[k] => i = k
  BY <1>1 DEF Distinct
<1>4. \A i \in DOMAIN u : i \in 1 .. Len(s) \/ i = Len(s) + 1
  BY <1>1
<1>5. \A i, k \in DOMAIN u : u[i] = u[k] => i = k
  BY <1>1, <1>2, <1>3, <1>4
<1> QED BY <1>5 DEF Distinct, u
-------------------------------------------------------------------------------
(***************************************************************************)
(* What ReaderBox does to a sound database.                                 *)
(***************************************************************************)
(* With unique numbers, find-or-create finds exactly what is there. *)
LEMMA FindsWhatIsThere ==
    ASSUME NEW s \in Stores, NoDuplicates(s), NEW g, NEW n
    PROVE  /\ IsStored(s, g, n) <=> \E k \in DOMAIN s.articles : s.articles[k].id = n
           /\ \A k \in DOMAIN s.articles : s.articles[k].id = n => Places(s, n) = {k}
<1>1. ASSUME NEW k \in DOMAIN s.articles, s.articles[k].id = n
      PROVE  Places(s, n) = {k} /\ IsStored(s, g, n)
  <2>1. Places(s, n) = {k}
    BY <1>1 DEF NoDuplicates, Places
  <2>2. Cardinality({k}) = 1
    BY FS_Singleton
  <2> QED BY <2>1, <2>2 DEF IsStored
<1>2. ASSUME IsStored(s, g, n)
      PROVE  \E k \in DOMAIN s.articles : s.articles[k].id = n
  <2>1. CASE Places(s, n) = {}
    <3>1. Cardinality({}) = 0
      BY FS_EmptySet
    <3> QED BY <1>2, <2>1, <3>1 DEF IsStored
  <2>2. CASE Places(s, n) # {}
    BY <2>2 DEF Places
  <2> QED BY <2>1, <2>2
<1> QED BY <1>1, <1>2

(* One field of a database at a time. *)
LEMMA GroupsUpdate ==
    ASSUME NEW A, NEW B, NEW C, NEW s \in [groups : A, articles : B, lists : C], NEW e \in A
    PROVE  LET u == [s EXCEPT !.groups = e]
           IN  u \in [groups : A, articles : B, lists : C]
               /\ u.groups = e /\ u.articles = s.articles /\ u.lists = s.lists
OBVIOUS

LEMMA ArticlesUpdate ==
    ASSUME NEW A, NEW B, NEW C, NEW s \in [groups : A, articles : B, lists : C], NEW e \in B
    PROVE  LET u == [s EXCEPT !.articles = e]
           IN  u \in [groups : A, articles : B, lists : C]
               /\ u.groups = s.groups /\ u.articles = e /\ u.lists = s.lists
OBVIOUS

LEMMA ListsUpdate ==
    ASSUME NEW A, NEW B, NEW C, NEW s \in [groups : A, articles : B, lists : C], NEW e \in C
    PROVE  LET u == [s EXCEPT !.lists = e]
           IN  u \in [groups : A, articles : B, lists : C]
               /\ u.groups = s.groups /\ u.articles = s.articles /\ u.lists = e
OBVIOUS

LEMMA GroupKeepsSound ==
    ASSUME NEW s, Sound(s), NEW name \in Groups
    PROVE  /\ Sound(FindOrCreateGroup(s, name))
           /\ FindOrCreateGroup(s, name).articles = s.articles
<1>1. CASE HasGroup(s, name)
  BY <1>1 DEF FindOrCreateGroup
<1>2. CASE ~HasGroup(s, name)
  <2> DEFINE u == [s EXCEPT !.groups = Append(@, name)]
  <2>1. FindOrCreateGroup(s, name) = u
    BY <1>2 DEF FindOrCreateGroup
  <2>a. s \in Stores /\ s.groups \in Seq(Groups)
    BY DEF Sound, Stores
  <2>b. Append(s.groups, name) \in Seq(Groups) /\ [s EXCEPT !.groups = Append(s.groups, name)] = u
    BY <2>a
  <2>2. /\ u \in Stores
        /\ u.articles = s.articles
        /\ u.lists = s.lists
        /\ u.groups = Append(s.groups, name)
        /\ s.groups \in Seq(Groups)
    BY <2>a, <2>b, GroupsUpdate DEF Stores
  <2> HIDE DEF u
  <2>3. Distinct(s.groups) /\ name \notin ToSet(s.groups)
    BY <1>2 DEF HasGroup, Sound, StoreSound, NoTwins, Distinct
  <2>4. Distinct(u.groups)
    BY <2>2, <2>3, DistinctAppend
  <2>5. NoTwins(u)
    BY <2>4 DEF NoTwins, Distinct
  <2>6. ListsOnlyStored(s) /\ NoDuplicates(s) /\ OwnHeaders(s) /\ ListsAllTwice(s)
    BY DEF Sound, StoreSound
  <2>7. ListsOnlyStored(u)
    BY <2>2, <2>6 DEF ListsOnlyStored
  <2>8. NoDuplicates(u)
    BY <2>2, <2>6 DEF NoDuplicates
  <2>9. OwnHeaders(u)
    BY <2>2, <2>6 DEF OwnHeaders
  <2>10. \A g \in Groups : PlacesOf(u, g) = PlacesOf(s, g)
    BY <2>2 DEF PlacesOf
  <2>11. ListsAllTwice(u)
    BY <2>2, <2>6, <2>10 DEF ListsAllTwice
  <2> QED BY <2>1, <2>2, <2>5, <2>7, <2>8, <2>9, <2>11 DEF Sound, StoreSound
<1> QED BY <1>1, <1>2

(***************************************************************************)
(* An article that is not there yet is added, and listed twice.             *)
(***************************************************************************)
Added(s, group, number) == ListLast(Create(s, group, number), group)

LEMMA AddedFields ==
    ASSUME NEW s \in Stores, NEW g \in Groups, NEW n \in Numbers
    PROVE  LET u == Added(s, g, n)
               p == Len(s.articles) + 1
           IN  /\ u \in Stores
               /\ u.groups = s.groups
               /\ u.articles = Append(s.articles, NewArticle(g, n))
               /\ u.lists = [s.lists EXCEPT ![g] = Append(Append(s.lists[g], p), p)]
<1> DEFINE a == Append(s.articles, NewArticle(g, n))
           p == Len(s.articles) + 1
           s1 == [s EXCEPT !.articles = a]
           l1 == [s.lists EXCEPT ![g] = Append(s.lists[g], p)]
           s2 == [s1 EXCEPT !.lists = l1]
           l2 == [l1 EXCEPT ![g] = Append(l1[g], p)]
           s3 == [s2 EXCEPT !.lists = l2]
<1>1. NewArticle(g, n) \in Articles
  BY DEF NewArticle, Articles
<1>2. s.articles \in Seq(Articles) /\ s.lists \in [Groups -> Seq(Nat)]
  BY DEF Stores
<1>3. a \in Seq(Articles) /\ Len(a) = p /\ p \in Nat
  BY <1>1, <1>2
<1>4. s1 \in Stores /\ s1.groups = s.groups /\ s1.articles = a /\ s1.lists = s.lists
  BY <1>3, ArticlesUpdate DEF Stores
<1>5. l1 \in [Groups -> Seq(Nat)]
  BY <1>2, <1>3
<1>6. s2 \in Stores /\ s2.groups = s.groups /\ s2.articles = a /\ s2.lists = l1
  <2> HIDE DEF l1, s1
  <2> QED BY <1>4, <1>5, ListsUpdate DEF Stores
<1>7. l2 \in [Groups -> Seq(Nat)]
  BY <1>3, <1>5
<1>8. s3 \in Stores /\ s3.groups = s.groups /\ s3.articles = a /\ s3.lists = l2
  <2> HIDE DEF l2, s2
  <2> QED BY <1>6, <1>7, ListsUpdate DEF Stores
<1>9. l2 = [s.lists EXCEPT ![g] = Append(Append(s.lists[g], p), p)]
  BY <1>2, <1>3
<1>10. s2 = Create(s, g, n)
  <2>1. s2 = [s1 EXCEPT !.lists[g] = Append(@, p)]
    BY <1>4
  <2>2. s1 = [s EXCEPT !.articles = Append(@, NewArticle(g, n))]
    OBVIOUS
  <2> HIDE DEF s1, s2, a
  <2> QED BY <1>3, <1>4, <2>1, <2>2 DEF Create, ListLast
<1>11. s3 = Added(s, g, n)
  <2>1. s3 = [s2 EXCEPT !.lists[g] = Append(@, p)]
    BY <1>6
  <2> HIDE DEF s2, s3, a
  <2> QED BY <1>3, <1>6, <1>10, <2>1 DEF Added, ListLast
<1> HIDE DEF s1, s2, s3, l1, l2
<1> QED BY <1>8, <1>9, <1>11

LEMMA AddedIsSound ==
    ASSUME NEW s, Sound(s), NEW g \in Groups, NEW n \in Numbers, ~IsStored(s, g, n)
    PROVE  LET u == Added(s, g, n)
           IN  /\ Sound(u)
               /\ Extends(u, s)
               /\ \A a : Has(s, a) => Has(u, a)
               /\ Has(u, NewArticle(g, n))
               /\ ~ \E k \in DOMAIN s.articles : s.articles[k].id = n
<1> DEFINE u == Added(s, g, n)
           p == Len(s.articles) + 1
<1>1. /\ s \in Stores /\ ListsOnlyStored(s)
      /\ NoDuplicates(s) /\ NoTwins(s) /\ OwnHeaders(s) /\ ListsAllTwice(s)
  BY DEF Sound, StoreSound
<1>2. /\ u \in Stores
      /\ u.groups = s.groups
      /\ u.articles = Append(s.articles, NewArticle(g, n))
      /\ u.lists = [s.lists EXCEPT ![g] = Append(Append(s.lists[g], p), p)]
  BY <1>1, AddedFields, ZenonT(60)
<1> HIDE DEF u
<1>3. /\ s.articles \in Seq(Articles)
      /\ s.lists \in [Groups -> Seq(Nat)]
      /\ u.lists \in [Groups -> Seq(Nat)]
  BY <1>1, <1>2 DEF Stores
<1>4. /\ Len(s.articles) \in Nat /\ p \in Nat
      /\ DOMAIN s.articles = 1 .. Len(s.articles)
      /\ DOMAIN u.articles = DOMAIN s.articles \union {p}
      /\ p \notin DOMAIN s.articles
      /\ \A k \in DOMAIN s.articles : u.articles[k] = s.articles[k]
      /\ u.articles[p] = NewArticle(g, n)
  <2> DEFINE a == NewArticle(g, n)
  <2> HIDE DEF a
  <2>1. u.articles = Append(s.articles, a)
    BY <1>2 DEF a
  <2>2. /\ Len(s.articles) \in Nat /\ p \in Nat
        /\ DOMAIN s.articles = 1 .. Len(s.articles)
        /\ p \notin DOMAIN s.articles
    BY <1>3
  <2>3. DOMAIN u.articles = 1 .. p
    BY <1>3, <2>1, <2>2
  <2>4. DOMAIN u.articles = DOMAIN s.articles \union {p}
    BY <2>2, <2>3
  <2>5. \A k \in DOMAIN s.articles : u.articles[k] = s.articles[k]
    BY <1>3, <2>1, <2>2
  <2>6. u.articles[p] = a
    BY <1>3, <2>1, <2>2
  <2> QED BY <2>2, <2>4, <2>5, <2>6 DEF a
<1>5. ~ \E k \in DOMAIN s.articles : s.articles[k].id = n
  BY <1>1, FindsWhatIsThere
<1>6. /\ NewArticle(g, n).id = n
      /\ NewArticle(g, n).group = g
      /\ NewArticle(g, n).subject = NoSubject
  BY DEF NewArticle
<1>7. NoDuplicates(u)
  BY <1>1, <1>4, <1>5, <1>6, SMTT(60) DEF NoDuplicates
<1>8. NoTwins(u)
  BY <1>1, <1>2 DEF NoTwins
<1>9. OwnHeaders(u)
  <2>1. \A k \in DOMAIN s.articles :
          u.articles[k].subject \in {NoSubject, << u.articles[k].group, u.articles[k].id >>}
    BY <1>1, <1>4 DEF OwnHeaders
  <2>2. u.articles[p].subject \in {NoSubject, << u.articles[p].group, u.articles[p].id >>}
    BY <1>4, <1>6
  <2> QED BY <1>4, <2>1, <2>2 DEF OwnHeaders
<1>10. ASSUME NEW h \in Groups, h # g
       PROVE  /\ u.lists[h] = s.lists[h]
              /\ PlacesOf(u, h) = PlacesOf(s, h)
  <2>1. u.lists[h] = s.lists[h]
    BY <1>2, <1>3, <1>10
  <2>2. PlacesOf(u, h) = PlacesOf(s, h)
    BY <1>4, <1>6, <1>10 DEF PlacesOf
  <2> QED BY <2>1, <2>2
<1>11. u.lists[g] = Append(Append(s.lists[g], p), p) /\ s.lists[g] \in Seq(Nat)
  BY <1>2, <1>3
<1>12. PlacesOf(u, g) = PlacesOf(s, g) \union {p} /\ p \notin PlacesOf(s, g)
  BY <1>4, <1>6 DEF PlacesOf
<1>13. ToSet(u.lists[g]) = PlacesOf(u, g)
  <2>1. ToSet(s.lists[g]) = PlacesOf(s, g)
    BY <1>1 DEF ListsAllTwice
  <2>2. p \in Nat
    BY <1>4
  <2> HIDE DEF p
  <2>3. ASSUME NEW q \in Seq(Nat) PROVE ToSet(Append(q, p)) = ToSet(q) \union {p}
    BY <2>2, SetOfAppend
  <2>4. Append(s.lists[g], p) \in Seq(Nat)
    BY <1>11, <2>2
  <2>5. ToSet(u.lists[g]) = ToSet(s.lists[g]) \union {p} \union {p}
    BY <1>11, <2>3, <2>4
  <2> QED BY <1>12, <2>1, <2>5
<1>14. Len(u.lists[g]) = 2 * Cardinality(PlacesOf(u, g))
  <2>1. Len(s.lists[g]) = 2 * Cardinality(PlacesOf(s, g))
    BY <1>1 DEF ListsAllTwice
  <2>2. Len(u.lists[g]) = Len(s.lists[g]) + 2
    BY <1>4, <1>11
  <2>3. IsFiniteSet(PlacesOf(s, g))
    <3>1. IsFiniteSet(1 .. Len(s.articles))
      BY <1>4, FS_Interval
    <3>2. PlacesOf(s, g) \subseteq 1 .. Len(s.articles)
      BY <1>4 DEF PlacesOf
    <3> QED BY <3>1, <3>2, FS_Subset
  <2>4. /\ Cardinality(PlacesOf(u, g)) = Cardinality(PlacesOf(s, g)) + 1
        /\ Cardinality(PlacesOf(s, g)) \in Nat
    BY <1>12, <2>3, FS_AddElement, FS_CardinalityType
  <2> QED BY <2>1, <2>2, <2>4
<1>15. ListsAllTwice(u)
  <2>1. ASSUME NEW h \in Groups
        PROVE  /\ ToSet(u.lists[h]) = PlacesOf(u, h)
               /\ Len(u.lists[h]) = 2 * Cardinality(PlacesOf(u, h))
    <3>1. CASE h = g
      BY <1>13, <1>14, <3>1
    <3>2. CASE h # g
      BY <1>1, <1>10, <3>2 DEF ListsAllTwice
    <3> QED BY <3>1, <3>2
  <2> QED BY <2>1 DEF ListsAllTwice
<1>16. ListsOnlyStored(u)
  <2>1. ASSUME NEW h \in Groups, NEW i \in DOMAIN u.lists[h]
        PROVE  u.lists[h][i] \in DOMAIN u.articles
    <3>1. u.lists[h][i] \in ToSet(u.lists[h])
      BY DEF ToSet
    <3>2. u.lists[h][i] \in PlacesOf(u, h)
      BY <1>15, <3>1 DEF ListsAllTwice
    <3> QED BY <3>2 DEF PlacesOf
  <2> QED BY <2>1 DEF ListsOnlyStored
<1>17. Extends(u, s)
  BY <1>4 DEF Extends
<1>18. \A a : Has(s, a) => Has(u, a)
  BY <1>4 DEF Has
<1>19. Has(u, NewArticle(g, n))
  BY <1>4 DEF Has
<1>20. Sound(u)
  BY <1>2, <1>7, <1>8, <1>9, <1>15, <1>16 DEF Sound, StoreSound
<1> QED BY <1>5, <1>17, <1>18, <1>19, <1>20 DEF u

(***************************************************************************)
(* A header that is written to a new article of the group it came from.     *)
(***************************************************************************)
LEMMA HeaderKeepsSound ==
    ASSUME NEW s, Sound(s), NEW g \in Groups, NEW n \in Numbers, Has(s, NewArticle(g, n))
    PROVE  LET u == WithHeader(s, g, n)
           IN  /\ Sound(u)
               /\ Extends(u, s)
               /\ \A a : Has(s, a) /\ a.id # n => Has(u, a)
<1>1. /\ s \in Stores /\ ListsOnlyStored(s)
      /\ NoDuplicates(s) /\ NoTwins(s) /\ OwnHeaders(s) /\ ListsAllTwice(s)
  BY DEF Sound, StoreSound
<1>2. PICK p \in DOMAIN s.articles : s.articles[p] = NewArticle(g, n)
  BY DEF Has
<1>3. s.articles[p].id = n /\ s.articles[p].group = g
  BY <1>2 DEF NewArticle
<1>4. IsStored(s, g, n) /\ Places(s, n) = {p}
  BY <1>1, <1>3, FindsWhatIsThere
<1> DEFINE a == [s.articles[p] EXCEPT !.subject = << g, n >>]
           as == [s.articles EXCEPT ![p] = a]
           u == [s EXCEPT !.articles = as]
<1>5. u = WithHeader(s, g, n)
  <2>1. (CHOOSE k \in Places(s, n) : TRUE) = p
    BY <1>4
  <2>2. FindOrCreateGroupArticle(s, g, n) = s
    BY <1>4 DEF FindOrCreateGroupArticle
  <2> QED BY <1>4, <2>1, <2>2 DEF WithHeader
<1>6. s.articles \in Seq(Articles) /\ s.articles[p] \in Articles
  BY <1>1 DEF Stores
<1>7. /\ a \in Articles
      /\ a.id = n /\ a.group = g /\ a.subject = << g, n >>
  BY <1>3, <1>6 DEF Articles, Headers
<1> HIDE DEF a
<1>8. /\ as \in Seq(Articles)
      /\ DOMAIN as = DOMAIN s.articles
      /\ as[p] = a
      /\ \A k \in DOMAIN s.articles : k # p => as[k] = s.articles[k]
  BY <1>6, <1>7
<1> HIDE DEF as
<1>9. /\ u \in Stores
      /\ u.groups = s.groups /\ u.articles = as /\ u.lists = s.lists
  BY <1>1, <1>8, ArticlesUpdate DEF Stores
<1> HIDE DEF u
<1>10. \A k \in DOMAIN s.articles :
         as[k].id = s.articles[k].id /\ as[k].group = s.articles[k].group
  BY <1>3, <1>7, <1>8
<1>11. NoDuplicates(u)
  BY <1>1, <1>8, <1>9, <1>10, ZenonT(60) DEF NoDuplicates
<1>12. NoTwins(u)
  BY <1>1, <1>9 DEF NoTwins
<1>13. OwnHeaders(u)
  <2>1. \A k \in DOMAIN s.articles :
          as[k].subject \in {NoSubject, << as[k].group, as[k].id >>}
    BY <1>1, <1>7, <1>8 DEF OwnHeaders
  <2> QED BY <1>8, <1>9, <2>1 DEF OwnHeaders
<1>14. \A h \in Groups : PlacesOf(u, h) = PlacesOf(s, h)
  BY <1>8, <1>9, <1>10 DEF PlacesOf
<1>15. ListsAllTwice(u)
  BY <1>1, <1>9, <1>14 DEF ListsAllTwice
<1>16. ListsOnlyStored(u)
  BY <1>1, <1>8, <1>9 DEF ListsOnlyStored
<1>17. Extends(u, s)
  BY <1>8, <1>9, <1>10 DEF Extends
<1>18. \A b : Has(s, b) /\ b.id # n => Has(u, b)
  BY <1>3, <1>8, <1>9 DEF Has
<1>19. Sound(u)
  BY <1>9, <1>11, <1>12, <1>13, <1>15, <1>16 DEF Sound, StoreSound
<1> QED BY <1>5, <1>17, <1>18, <1>19
-------------------------------------------------------------------------------
(***************************************************************************)
(* The records of commands.  The sets are parameters so that the provers    *)
(* need not look into them.                                                 *)
(***************************************************************************)
WithStage(j, st) == [j EXCEPT !.stage = st]
WithChunk(j, c) == [j EXCEPT !.chunk = c]
WithNew(j, c, a) == [j EXCEPT !.chunk = c, !.newArticles = a]
WithPortion(j, m, c, d) == [j EXCEPT !.stage = "writing", !.more = m, !.chunk = c, !.todo = d]
WithAsked(j, c, d) == [j EXCEPT !.stage = "asked", !.chunk = c, !.todo = d]

LEMMA StageUpdate ==
    ASSUME NEW K, NEW G, NEW L, NEW j \in JobsOf(K, G, L),
           NEW st \in {"reading", "asked", "writing", "posting"}
    PROVE  LET v == WithStage(j, st)
           IN  /\ v \in JobsOf(K, G, L)
               /\ v.kind = j.kind /\ v.group = j.group /\ v.todo = j.todo /\ v.more = j.more
               /\ v.stage = st /\ v.chunk = j.chunk /\ v.newArticles = j.newArticles
BY DEF JobsOf, WithStage

LEMMA ChunkUpdate ==
    ASSUME NEW K, NEW G, NEW L, NEW j \in JobsOf(K, G, L), NEW c \in Seq(L)
    PROVE  LET v == WithChunk(j, c)
           IN  /\ v \in JobsOf(K, G, L)
               /\ v.kind = j.kind /\ v.group = j.group /\ v.todo = j.todo /\ v.more = j.more
               /\ v.stage = j.stage /\ v.chunk = c /\ v.newArticles = j.newArticles
BY DEF JobsOf, WithChunk

LEMMA ChunkAndNewUpdate ==
    ASSUME NEW K, NEW G, NEW L, NEW j \in JobsOf(K, G, L), NEW c \in Seq(L), NEW a \in Seq(Numbers)
    PROVE  LET v == WithNew(j, c, a)
           IN  /\ v \in JobsOf(K, G, L)
               /\ v.kind = j.kind /\ v.group = j.group /\ v.todo = j.todo /\ v.more = j.more
               /\ v.stage = j.stage /\ v.chunk = c /\ v.newArticles = a
BY DEF JobsOf, WithNew

LEMMA PortionUpdate ==
    ASSUME NEW K, NEW G, NEW L, NEW j \in JobsOf(K, G, L), NEW c \in Seq(L), NEW d \in Seq(L),
           NEW m \in BOOLEAN
    PROVE  LET v == WithPortion(j, m, c, d)
           IN  /\ v \in JobsOf(K, G, L)
               /\ v.kind = j.kind /\ v.group = j.group /\ v.todo = d /\ v.more = m
               /\ v.stage = "writing" /\ v.chunk = c /\ v.newArticles = j.newArticles
BY DEF JobsOf, WithPortion

LEMMA AskUpdate ==
    ASSUME NEW K, NEW G, NEW L, NEW j \in JobsOf(K, G, L), NEW c \in Seq(L), NEW d \in Seq(L)
    PROVE  LET v == WithAsked(j, c, d)
           IN  /\ v \in JobsOf(K, G, L)
               /\ v.kind = j.kind /\ v.group = j.group /\ v.todo = d /\ v.more = j.more
               /\ v.stage = "asked" /\ v.chunk = c /\ v.newArticles = j.newArticles
BY DEF JobsOf, WithAsked

LEMMA JobFields ==
    ASSUME NEW K, NEW G, NEW L, NEW j \in JobsOf(K, G, L)
    PROVE  /\ j.kind \in K /\ j.group \in G
           /\ j.todo \in Seq(L) /\ j.chunk \in Seq(L) /\ j.more \in BOOLEAN
           /\ j.stage \in {"reading", "asked", "writing", "posting"}
           /\ j.newArticles \in Seq(Numbers)
BY DEF JobsOf

LEMMA JobOfKind ==
    ASSUME NEW j \in Jobs
    PROVE  /\ j.kind = "idle" => j \in JobsOf({"idle"}, {None}, {})
           /\ j.kind = "groups" => j \in JobsOf({"groups"}, {None}, Groups)
           /\ j.kind \in {"list", "heads"} => j \in JobsOf({"list", "heads"}, Groups, Numbers)
           /\ j.kind \in {"idle", "groups", "list", "heads"}
<1>1. CASE j \in JobsOf({"idle"}, {None}, {})
  <2>1. j.kind = "idle"
    BY <1>1, JobFields
  <2> QED BY <1>1, <2>1
<1>2. CASE j \in JobsOf({"groups"}, {None}, Groups)
  <2>1. j.kind = "groups"
    BY <1>2, JobFields
  <2> QED BY <1>2, <2>1
<1>3. CASE j \in JobsOf({"list", "heads"}, Groups, Numbers)
  <2>1. j.kind \in {"list", "heads"}
    BY <1>3, JobFields
  <2> QED BY <1>3, <2>1
<1> QED BY <1>1, <1>2, <1>3 DEF Jobs

LEMMA NewJobTyped ==
    ASSUME NEW K, NEW G, NEW L, NEW kind \in K, NEW group \in G, NEW todo \in Seq(L)
    PROVE  LET j == NewJob(kind, group, todo)
           IN  /\ j \in JobsOf(K, G, L)
               /\ j.kind = kind /\ j.group = group /\ j.todo = todo
               /\ j.stage = "reading" /\ j.chunk = << >> /\ j.newArticles = << >>
BY DEF NewJob, JobsOf

LEMMA IdleTyped ==
    /\ Idle \in Jobs
    /\ Idle.kind = "idle" /\ Idle.stage = "reading"
    /\ Idle.chunk = << >> /\ Idle.newArticles = << >>
<1>1. << >> \in Seq({})
  OBVIOUS
<1>2. Idle \in JobsOf({"idle"}, {None}, {})
  BY <1>1, NewJobTyped DEF Idle
<1> QED BY <1>2 DEF Jobs, Idle, NewJob

LEMMA NothingToClaim ==
    ASSUME NEW j, j.newArticles = << >>
    PROVE  /\ j.kind # "heads" => Claims(j) = {} /\ Unasked(j) = {}
           /\ Claims(j) = Wants(j)
<1>1. ToSet(<< >>) = {}
  BY DEF ToSet
<1> QED BY <1>1 DEF Claims, Unasked, Wants
-------------------------------------------------------------------------------
(***************************************************************************)
(* Steps.  OnlyMoves: no command but t's changes.                           *)
(***************************************************************************)
OnlyMoves(t) ==
    /\ job' \in [Threads -> Jobs]
    /\ \A u \in Threads : u # t => job'[u] = job[u]

LEMMA Move ==
    ASSUME job \in [Threads -> Jobs], NEW t \in Threads, NEW v \in Jobs,
           job' = [job EXCEPT ![t] = v]
    PROVE  OnlyMoves(t) /\ job'[t] = v
BY DEF OnlyMoves

LEMMA NobodyOnNone == None \notin Threads
BY LibraryAssumption DEF LibraryAssumption

LEMMA ExclusiveKept ==
    ASSUME ClaimsExclusive, NEW t \in Threads, OnlyMoves(t),
           Claims(job'[t]) \subseteq Claims(job[t])
    PROVE  ClaimsExclusive'
<1>1. \A u \in Threads : Claims(job'[u]) \subseteq Claims(job[u])
  BY DEF OnlyMoves
<1>2. \A u, w \in Threads : u # w => Claims(job[u]) \intersect Claims(job[w]) = {}
  BY DEF ClaimsExclusive
<1>3. \A u, w \in Threads : u # w => Claims(job'[u]) \intersect Claims(job'[w]) = {}
  BY <1>1, <1>2
<1> QED BY <1>3 DEF ClaimsExclusive, Claims, Wants

LEMMA DatabaseUntouched ==
    ASSUME DatabaseInv, UNCHANGED << store, draft >>, writer' = None => writer = None
    PROVE  DatabaseInv'
<1>1. Sound(store') /\ Sound(draft') /\ Extends(draft', store')
  BY DEF DatabaseInv, DraftOfStore
<1>2. writer' = None => draft' = store'
  BY DEF DatabaseInv, DraftOfStore
<1>3. (Sound(store))' /\ (Sound(draft))'
  BY <1>1
<1>4. DraftOfStore'
  BY <1>1, <1>2 DEF DraftOfStore, Extends
<1> QED BY <1>3, <1>4 DEF DatabaseInv

LEMMA AskedUntouched ==
    ASSUME AskedInv, UNCHANGED << store, asked >>
    PROVE  AskedInv'
BY DEF AskedInv, AskedIsStored, HeaderAskedOnce

(* A thread drops its command, or takes one that claims nothing. *)
LEMMA FreshJobStep ==
    ASSUME IInv, NEW t \in Threads, NEW v \in Jobs, job' = [job EXCEPT ![t] = v],
           Claims(v) = {}, Unasked(v) = {}, JobSound(v), v.stage # "writing",
           job[t].stage # "writing", UNCHANGED << store, draft, writer, asked >>
    PROVE  IInv'
<1>1. DatabaseInv' /\ AskedInv'
  BY DatabaseUntouched, AskedUntouched DEF IInv
<1>2. OnlyMoves(t) /\ job'[t] = v
  BY Move DEF IInv, ThreadsInv
<1>3. ThreadsInv'
  <2>1. writer' \in Threads \union {None} /\ job' \in [Threads -> Jobs]
    BY <1>2 DEF IInv, ThreadsInv, OnlyMoves
  <2>2. \A u \in Threads : JobSound(job[u])
    BY DEF IInv, ThreadsInv
  <2>3. \A u \in Threads : JobSound(job'[u])
    BY <1>2, <2>2 DEF OnlyMoves
  <2>4. \A u \in Threads : job[u].stage = "writing" <=> writer = u
    BY DEF IInv, ThreadsInv, WriterWrites
  <2>5. \A u \in Threads : job'[u].stage = "writing" <=> writer' = u
    BY <1>2, <2>4 DEF OnlyMoves
  <2>6. (\A u \in Threads : JobSound(job[u]))'
    BY <2>3
  <2> QED BY <2>1, <2>5, <2>6 DEF ThreadsInv, WriterWrites
<1>4. ClaimsExclusive'
  BY <1>2, ExclusiveKept DEF IInv, ClaimsInv
<1>5. ClaimsStored'
  <2>1. ASSUME NEW u \in Threads, NEW n \in Claims(job'[u])
        PROVE  /\ Has(draft', NewArticle(job'[u].group, n))
               /\ ~(job'[u].kind = "list" /\ job'[u].stage = "writing")
                     => Has(store', NewArticle(job'[u].group, n))
    <3>1. u # t
      BY <1>2, <2>1
    <3>2. job'[u] = job[u]
      BY <1>2, <3>1 DEF OnlyMoves
    <3>3. n \in Claims(job[u])
      BY <2>1, <3>2
    <3>4. /\ Has(draft, NewArticle(job[u].group, n))
          /\ ~(job[u].kind = "list" /\ job[u].stage = "writing")
                => Has(store, NewArticle(job[u].group, n))
      BY <3>3 DEF IInv, ClaimsInv, ClaimsStored, Runs
    <3> QED BY <3>2, <3>4
  <2> QED BY <2>1 DEF ClaimsStored, Runs, Claims, Wants, Has, NewArticle
<1>6. UnaskedNotAsked'
  <2>1. ASSUME NEW u \in Threads, NEW n \in Unasked(job'[u])
        PROVE  asked'[<< job'[u].group, n >>] = 0
    <3>1. u # t
      BY <1>2, <2>1
    <3>2. job'[u] = job[u]
      BY <1>2, <3>1 DEF OnlyMoves
    <3> QED BY <2>1, <3>2 DEF IInv, ClaimsInv, UnaskedNotAsked
  <2> QED BY <2>1 DEF UnaskedNotAsked, Unasked
<1> QED BY <1>1, <1>3, <1>4, <1>5, <1>6 DEF IInv, ClaimsInv

LEMMA EmptyIsDistinct == Distinct(<< >>) /\ ToSet(<< >>) = {}
BY DEF Distinct, ToSet

LEMMA IdleClaimsNothing ==
    /\ Idle \in Jobs /\ Claims(Idle) = {} /\ Unasked(Idle) = {}
    /\ JobSound(Idle) /\ Idle.stage # "writing"
<1>1. Claims(Idle) = {} /\ Unasked(Idle) = {}
  BY IdleTyped, NothingToClaim
<1> QED BY <1>1, IdleTyped, EmptyIsDistinct DEF JobSound

(* A list that has just been asked for, or goes on, claims nothing. *)
LEMMA NewListClaimsNothing ==
    ASSUME NEW v, \/ \E todo \in Seq(Groups) : v = NewJob("groups", None, todo)
                  \/ \E g \in Groups, todo \in Seq(Numbers) : v = NewJob("list", g, todo)
    PROVE  /\ v \in Jobs /\ Claims(v) = {} /\ Unasked(v) = {}
           /\ JobSound(v) /\ v.stage # "writing"
<1>1. ASSUME NEW todo \in Seq(Groups), v = NewJob("groups", None, todo)
      PROVE  /\ v \in JobsOf({"groups"}, {None}, Groups)
             /\ v.kind = "groups" /\ v.stage = "reading" /\ v.newArticles = << >>
  <2> DEFINE K == {"groups"}
             G == {None}
  <2>1. "groups" \in K /\ None \in G
    OBVIOUS
  <2> HIDE DEF K, G
  <2>2. v \in JobsOf(K, G, Groups)
    BY <1>1, <2>1, NewJobTyped
  <2> QED BY <1>1, <2>2 DEF K, G, NewJob
<1>2. ASSUME NEW g \in Groups, NEW todo \in Seq(Numbers), v = NewJob("list", g, todo)
      PROVE  /\ v \in JobsOf({"list", "heads"}, Groups, Numbers)
             /\ v.kind = "list" /\ v.stage = "reading" /\ v.newArticles = << >>
  <2> DEFINE K == {"list", "heads"}
  <2>1. "list" \in K
    OBVIOUS
  <2> HIDE DEF K
  <2>2. v \in JobsOf(K, Groups, Numbers)
    BY <1>2, <2>1, NewJobTyped
  <2> QED BY <1>2, <2>2 DEF K, NewJob
<1>3. v \in Jobs /\ v.kind \in {"groups", "list"} /\ v.stage = "reading" /\ v.newArticles = << >>
  BY <1>1, <1>2 DEF Jobs
<1>4. Claims(v) = {} /\ Unasked(v) = {}
  BY <1>3, NothingToClaim
<1>5. JobSound(v)
  BY <1>3, EmptyIsDistinct DEF JobSound
<1> QED BY <1>3, <1>4, <1>5

LEMMA UpdateGroupsStep ==
    ASSUME IInv, NEW t \in Threads, UpdateGroups(t)
    PROVE  IInv'
<1> DEFINE v == NewJob("groups", None, GroupList)
<1>1. /\ v \in Jobs /\ Claims(v) = {} /\ Unasked(v) = {}
      /\ JobSound(v) /\ v.stage # "writing"
  BY LibraryAssumption, NewListClaimsNothing DEF LibraryAssumption
<1>2. job[t].stage # "writing"
  BY IdleTyped DEF UpdateGroups
<1>3. job' = [job EXCEPT ![t] = v] /\ UNCHANGED << store, draft, writer, asked >>
  BY DEF UpdateGroups
<1> HIDE DEF v
<1> QED BY <1>1, <1>2, <1>3, FreshJobStep

LEMMA OnRefreshStep ==
    ASSUME IInv, NEW t \in Threads, NEW g \in Groups, OnRefresh(t, g)
    PROVE  IInv'
<1> DEFINE v == NewJob("list", g, Listing[g])
<1>1. /\ v \in Jobs /\ Claims(v) = {} /\ Unasked(v) = {}
      /\ JobSound(v) /\ v.stage # "writing"
  BY LibraryAssumption, NewListClaimsNothing DEF LibraryAssumption
<1>2. job[t].stage # "writing"
  BY IdleTyped DEF OnRefresh
<1>3. job' = [job EXCEPT ![t] = v] /\ UNCHANGED << store, draft, writer, asked >>
  BY DEF OnRefresh
<1> HIDE DEF v
<1> QED BY <1>1, <1>2, <1>3, FreshJobStep

LEMMA ResumedClaimsNothing ==
    ASSUME NEW j \in Jobs, j.kind \in {"groups", "list"}
    PROVE  LET v == Resumed(j)
           IN  /\ v \in Jobs /\ Claims(v) = {} /\ Unasked(v) = {}
               /\ JobSound(v) /\ v.stage # "writing"
<1>1. CASE ~j.more
  BY <1>1, IdleClaimsNothing DEF Resumed
<1>2. CASE j.more /\ j.kind = "groups"
  <2>1. j.group = None /\ j.todo \in Seq(Groups)
    BY <1>2, JobOfKind, JobFields
  <2>2. Resumed(j) = NewJob("groups", None, j.todo)
    BY <1>2, <2>1 DEF Resumed
  <2> QED BY <2>1, <2>2, NewListClaimsNothing
<1>3. CASE j.more /\ j.kind = "list"
  <2>1. j.group \in Groups /\ j.todo \in Seq(Numbers)
    BY <1>3, JobOfKind, JobFields
  <2>2. Resumed(j) = NewJob("list", j.group, j.todo)
    BY <1>3 DEF Resumed
  <2> QED BY <2>1, <2>2, NewListClaimsNothing
<1> QED BY <1>1, <1>2, <1>3

LEMMA PostGroupsStep ==
    ASSUME IInv, NEW t \in Threads, PostGroups(t)
    PROVE  IInv'
<1> DEFINE v == Resumed(job[t])
<1>1. job[t] \in Jobs /\ job[t].kind = "groups" /\ job[t].stage # "writing"
  BY DEF IInv, ThreadsInv, PostGroups, Runs
<1>2. /\ v \in Jobs /\ Claims(v) = {} /\ Unasked(v) = {}
      /\ JobSound(v) /\ v.stage # "writing"
  BY <1>1, ResumedClaimsNothing
<1>3. job' = [job EXCEPT ![t] = v] /\ UNCHANGED << store, draft, writer, asked >>
  BY DEF PostGroups
<1> HIDE DEF v
<1> QED BY <1>1, <1>2, <1>3, FreshJobStep

LEMMA StallStep ==
    ASSUME IInv, NEW t \in Threads, Stall(t)
    PROVE  IInv'
<1>1. job' = [job EXCEPT ![t] = Idle] /\ UNCHANGED << store, draft, writer, asked >>
  BY DEF Stall
<1>2. job[t].stage # "writing"
  BY DEF Stall
<1> QED BY <1>1, <1>2, IdleClaimsNothing, FreshJobStep

LEMMA CrashStep ==
    ASSUME IInv, Crash
    PROVE  IInv'
<1>1. /\ job' = [t \in Threads |-> Idle]
      /\ writer' = None /\ draft' = store /\ store' = store /\ asked' = asked
  BY DEF Crash
<1>2. \A t \in Threads : job'[t] = Idle
  BY <1>1
<1>3. DatabaseInv'
  <2>1. Sound(store)
    BY DEF IInv, DatabaseInv
  <2>2. Sound(store') /\ Sound(draft')
    BY <1>1, <2>1
  <2>3. (Sound(store))' /\ (Sound(draft))'
    BY <2>2
  <2>4. DraftOfStore'
    BY <1>1 DEF DraftOfStore, Extends
  <2> QED BY <2>3, <2>4 DEF DatabaseInv
<1>4. ThreadsInv'
  <2>1. job' \in [Threads -> Jobs]
    BY <1>1, IdleClaimsNothing
  <2>2. WriterWrites'
    BY <1>1, <1>2, IdleClaimsNothing, NobodyOnNone DEF WriterWrites
  <2>3. \A t \in Threads : JobSound(job'[t])
    BY <1>2, IdleClaimsNothing
  <2>4. (\A t \in Threads : JobSound(job[t]))'
    BY <2>3
  <2> QED BY <1>1, <2>1, <2>2, <2>4 DEF ThreadsInv
<1>5. \A t \in Threads : Claims(job'[t]) = {} /\ Unasked(job'[t]) = {}
  BY <1>2, IdleClaimsNothing
<1>6. ClaimsInv'
  <2>1. ClaimsExclusive'
    BY <1>5 DEF ClaimsExclusive, Claims, Wants
  <2>2. ClaimsStored'
    BY <1>5 DEF ClaimsStored, Claims, Wants
  <2>3. UnaskedNotAsked'
    BY <1>5 DEF UnaskedNotAsked, Unasked
  <2> QED BY <2>1, <2>2, <2>3 DEF ClaimsInv
<1>7. AskedInv'
  BY <1>1, AskedUntouched DEF IInv
<1> QED BY <1>3, <1>4, <1>6, <1>7 DEF IInv

(***************************************************************************)
(* A command goes on without claiming more.                                 *)
(***************************************************************************)
LEMMA ThreadGoesOn ==
    ASSUME ThreadsInv, NEW t \in Threads, OnlyMoves(t), JobSound(job'[t]),
           writer' \in Threads \union {None},
           job'[t].stage = "writing" <=> writer' = t,
           \A u \in Threads : u # t => (writer' = u <=> writer = u)
    PROVE  ThreadsInv'
<1>1. \A u \in Threads : JobSound(job[u])
  BY DEF ThreadsInv
<1>2. \A u \in Threads : JobSound(job'[u])
  BY <1>1 DEF OnlyMoves
<1>3. \A u \in Threads : job[u].stage = "writing" <=> writer = u
  BY DEF ThreadsInv, WriterWrites
<1>4. \A u \in Threads : job'[u].stage = "writing" <=> writer' = u
  BY <1>3 DEF OnlyMoves
<1>5. (\A u \in Threads : JobSound(job[u]))'
  BY <1>2
<1>6. job' \in [Threads -> Jobs]
  BY DEF OnlyMoves
<1> QED BY <1>4, <1>5, <1>6 DEF ThreadsInv, WriterWrites

LEMMA ClaimsGoOn ==
    ASSUME ClaimsInv, NEW t \in Threads, OnlyMoves(t),
           Claims(job'[t]) \subseteq Claims(job[t]),
           Unasked(job'[t]) \subseteq Unasked(job[t]),
           job'[t].group = job[t].group,
           \A u \in Threads : \A n \in Claims(job'[u]) :
               Has(draft, NewArticle(job[u].group, n)) => Has(draft', NewArticle(job[u].group, n)),
           \A u \in Threads : \A n \in Claims(job'[u]) :
               /\ ~(job'[u].kind = "list" /\ job'[u].stage = "writing")
               /\ Has(draft, NewArticle(job[u].group, n))
               /\ ~Runs(u, "list", "writing") => Has(store, NewArticle(job[u].group, n))
               => Has(store', NewArticle(job[u].group, n)),
           \A u \in Threads : \A n \in Unasked(job'[u]) :
               asked'[<< job[u].group, n >>] = asked[<< job[u].group, n >>]
    PROVE  ClaimsInv'
<1>1. ASSUME NEW u \in Threads
      PROVE  /\ job'[u].group = job[u].group
             /\ Claims(job'[u]) \subseteq Claims(job[u])
             /\ Unasked(job'[u]) \subseteq Unasked(job[u])
  BY DEF OnlyMoves
<1>2. ClaimsExclusive'
  BY ExclusiveKept DEF ClaimsInv
<1>3. ClaimsStored'
  <2>1. ASSUME NEW u \in Threads, NEW n \in Claims(job'[u])
        PROVE  /\ Has(draft', NewArticle(job'[u].group, n))
               /\ ~(job'[u].kind = "list" /\ job'[u].stage = "writing")
                     => Has(store', NewArticle(job'[u].group, n))
    <3>1. /\ Has(draft, NewArticle(job[u].group, n))
          /\ ~Runs(u, "list", "writing") => Has(store, NewArticle(job[u].group, n))
      BY <1>1, <2>1 DEF ClaimsInv, ClaimsStored
    <3> QED BY <1>1, <2>1, <3>1
  <2> QED BY <2>1 DEF ClaimsStored, Runs, Claims, Wants, Has, NewArticle
<1>4. UnaskedNotAsked'
  <2>1. ASSUME NEW u \in Threads, NEW n \in Unasked(job'[u])
        PROVE  asked'[<< job'[u].group, n >>] = 0
    <3>1. asked[<< job[u].group, n >>] = 0
      BY <1>1, <2>1 DEF ClaimsInv, UnaskedNotAsked
    <3> QED BY <1>1, <2>1, <3>1
  <2> QED BY <2>1 DEF UnaskedNotAsked, Unasked
<1> QED BY <1>2, <1>3, <1>4 DEF ClaimsInv

(* What is known of the command that takes the step. *)
LEMMA OfThread ==
    ASSUME IInv, NEW t \in Threads
    PROVE  /\ job[t] \in Jobs /\ JobSound(job[t])
           /\ job \in [Threads -> Jobs]
           /\ writer \in Threads \union {None}
           /\ job[t].stage = "writing" <=> writer = t
           /\ \A u \in Threads : job[u].stage = "writing" => writer = u
BY DEF IInv, ThreadsInv, WriterWrites

LEMMA SubSeqTyped ==
    ASSUME NEW L, NEW s \in Seq(L), NEW n \in 0 .. Len(s)
    PROVE  SubSeq(s, 1, n) \in Seq(L) /\ SubSeq(s, n + 1, Len(s)) \in Seq(L)
<1>1. Len(s) \in Nat /\ n \in Nat /\ n <= Len(s)
  OBVIOUS
<1>2. \A i \in 1 .. n : s[i] \in L
  BY <1>1
<1>3. \A i \in n + 1 .. Len(s) : s[i] \in L
  BY <1>1
<1> QED BY <1>1, <1>2, <1>3

LEMMA PortionOfJob ==
    ASSUME NEW j \in Jobs, j.kind \in {"groups", "list"},
           NEW n \in 0 .. Len(j.todo), NEW more \in BOOLEAN
    PROVE  LET v == WithPortion(j, more, SubSeq(j.todo, 1, n), SubSeq(j.todo, n + 1, Len(j.todo)))
           IN  /\ v \in Jobs /\ v.kind = j.kind /\ v.group = j.group
               /\ v.stage = "writing" /\ v.newArticles = j.newArticles
<1> DEFINE c == SubSeq(j.todo, 1, n)
           d == SubSeq(j.todo, n + 1, Len(j.todo))
           v == WithPortion(j, more, c, d)
<1>1. ASSUME NEW K, NEW G, NEW L, j \in JobsOf(K, G, L)
      PROVE  /\ v \in JobsOf(K, G, L) /\ v.kind = j.kind /\ v.group = j.group
             /\ v.stage = "writing" /\ v.newArticles = j.newArticles
  <2>1. j.todo \in Seq(L)
    BY <1>1, JobFields
  <2>2. c \in Seq(L) /\ d \in Seq(L)
    BY <2>1, SubSeqTyped
  <2> HIDE DEF c, d
  <2> QED BY <1>1, <2>2, PortionUpdate
<1>2. \/ j \in JobsOf({"groups"}, {None}, Groups)
      \/ j \in JobsOf({"list", "heads"}, Groups, Numbers)
  BY JobOfKind
<1> HIDE DEF v
<1>3. /\ v \in Jobs /\ v.kind = j.kind /\ v.group = j.group
      /\ v.stage = "writing" /\ v.newArticles = j.newArticles
  BY <1>1, <1>2 DEF Jobs
<1> QED BY <1>3 DEF v

LEMMA ReceiveListStep ==
    ASSUME IInv, NEW t \in Threads, ReceiveList(t)
    PROVE  IInv'
<1>1. PICK n \in 0 .. Len(job[t].todo), more \in BOOLEAN :
        job' = [job EXCEPT
                  ![t].stage = "writing",
                  ![t].more = more,
                  ![t].chunk = SubSeq(job[t].todo, 1, n),
                  ![t].todo = SubSeq(@, n + 1, Len(@))]
  BY DEF ReceiveList
<1>2. /\ job[t].kind \in {"groups", "list"} /\ job[t].stage = "reading"
      /\ writer = None /\ writer' = t /\ draft' = store
      /\ store' = store /\ asked' = asked
  BY DEF ReceiveList, Runs, BeginWrite
<1> DEFINE c == SubSeq(job[t].todo, 1, n)
           d == SubSeq(job[t].todo, n + 1, Len(job[t].todo))
           v == WithPortion(job[t], more, c, d)
<1>3. job' = [job EXCEPT ![t] = v]
  BY <1>1, OfThread DEF WithPortion
<1>4. /\ v \in Jobs /\ v.kind = job[t].kind /\ v.group = job[t].group
      /\ v.stage = "writing" /\ v.newArticles = job[t].newArticles
  BY <1>2, OfThread, PortionOfJob
<1> HIDE DEF c, d, v
<1>5. OnlyMoves(t) /\ job'[t] = v
  BY <1>3, <1>4, OfThread, Move
<1>6. job[t].newArticles = << >>
  BY <1>2, OfThread DEF JobSound
<1>7. Claims(v) = {} /\ Unasked(v) = {}
  BY <1>2, <1>4, <1>6, NothingToClaim
<1>8. JobSound(v)
  BY <1>2, <1>4, <1>6, EmptyIsDistinct DEF JobSound
<1>9. draft = store
  BY <1>2 DEF IInv, DatabaseInv, DraftOfStore
<1>10. UNCHANGED << store, draft >> /\ t # None
  BY <1>2, <1>9, NobodyOnNone
<1>11. DatabaseInv'
  BY <1>2, <1>10, DatabaseUntouched DEF IInv
<1>12. ThreadsInv'
  BY <1>2, <1>4, <1>5, <1>8, <1>10, NobodyOnNone, ThreadGoesOn DEF IInv
<1>13. ClaimsInv'
  <2>1. \A u \in Threads : \A k \in Claims(job'[u]) :
          /\ ~(job'[u].kind = "list" /\ job'[u].stage = "writing")
          /\ ~Runs(u, "list", "writing") => Has(store, NewArticle(job[u].group, k))
          => Has(store', NewArticle(job[u].group, k))
    BY <1>2, <1>5, <1>7 DEF OnlyMoves, Runs
  <2> QED BY <1>2, <1>4, <1>5, <1>7, <1>10, <2>1, ClaimsGoOn DEF IInv
<1>14. AskedInv'
  BY <1>2, AskedUntouched DEF IInv
<1> QED BY <1>11, <1>12, <1>13, <1>14 DEF IInv

LEMMA StageOfJob ==
    ASSUME NEW j \in Jobs, NEW st \in {"reading", "asked", "writing", "posting"}
    PROVE  LET v == WithStage(j, st)
           IN  /\ v \in Jobs
               /\ v.kind = j.kind /\ v.group = j.group /\ v.todo = j.todo /\ v.more = j.more
               /\ v.stage = st /\ v.chunk = j.chunk /\ v.newArticles = j.newArticles
<1>1. ASSUME NEW K, NEW G, NEW L, j \in JobsOf(K, G, L)
      PROVE  LET v == WithStage(j, st)
             IN  /\ v \in JobsOf(K, G, L)
                 /\ v.kind = j.kind /\ v.group = j.group /\ v.todo = j.todo /\ v.more = j.more
                 /\ v.stage = st /\ v.chunk = j.chunk /\ v.newArticles = j.newArticles
  BY <1>1, StageUpdate
<1>2. \/ j \in JobsOf({"idle"}, {None}, {})
      \/ j \in JobsOf({"groups"}, {None}, Groups)
      \/ j \in JobsOf({"list", "heads"}, Groups, Numbers)
  BY DEF Jobs
<1> QED BY <1>1, <1>2 DEF Jobs

LEMMA TailOfJob ==
    ASSUME NEW j \in Jobs, j.chunk # << >>
    PROVE  LET v == WithChunk(j, Tail(j.chunk))
           IN  /\ v \in Jobs
               /\ v.kind = j.kind /\ v.group = j.group /\ v.todo = j.todo /\ v.more = j.more
               /\ v.stage = j.stage /\ v.chunk = Tail(j.chunk) /\ v.newArticles = j.newArticles
<1> DEFINE c == Tail(j.chunk)
<1>1. ASSUME NEW K, NEW G, NEW L, j \in JobsOf(K, G, L)
      PROVE  LET v == WithChunk(j, c)
             IN  /\ v \in JobsOf(K, G, L)
                 /\ v.kind = j.kind /\ v.group = j.group /\ v.todo = j.todo /\ v.more = j.more
                 /\ v.stage = j.stage /\ v.chunk = c /\ v.newArticles = j.newArticles
  <2>1. j.chunk \in Seq(L)
    BY <1>1, JobFields
  <2>2. c \in Seq(L)
    BY <2>1
  <2> HIDE DEF c
  <2> QED BY <1>1, <2>2, ChunkUpdate
<1>2. \/ j \in JobsOf({"idle"}, {None}, {})
      \/ j \in JobsOf({"groups"}, {None}, Groups)
      \/ j \in JobsOf({"list", "heads"}, Groups, Numbers)
  BY DEF Jobs
<1> HIDE DEF c
<1>3. LET v == WithChunk(j, c)
      IN  /\ v \in Jobs
          /\ v.kind = j.kind /\ v.group = j.group /\ v.todo = j.todo /\ v.more = j.more
          /\ v.stage = j.stage /\ v.chunk = c /\ v.newArticles = j.newArticles
  BY <1>1, <1>2 DEF Jobs
<1> QED BY <1>3 DEF c

LEMMA ReceiveHeaderStep ==
    ASSUME IInv, NEW t \in Threads, ReceiveHeader(t)
    PROVE  IInv'
<1> DEFINE v == WithStage(job[t], "writing")
<1>1. /\ job[t].kind = "heads" /\ job[t].stage = "asked"
      /\ writer = None /\ writer' = t /\ draft' = store
      /\ store' = store /\ asked' = asked
  BY DEF ReceiveHeader, Runs, BeginWrite
<1>2. job' = [job EXCEPT ![t] = v]
  BY OfThread DEF ReceiveHeader, WithStage
<1>3. /\ v \in Jobs
      /\ v.kind = job[t].kind /\ v.group = job[t].group /\ v.todo = job[t].todo
      /\ v.stage = "writing" /\ v.chunk = job[t].chunk /\ v.newArticles = job[t].newArticles
  BY OfThread, StageOfJob
<1> HIDE DEF v
<1>4. OnlyMoves(t) /\ job'[t] = v
  BY <1>2, <1>3, OfThread, Move
<1>5. Claims(v) = Claims(job[t]) /\ Unasked(v) = Unasked(job[t])
  BY <1>3 DEF Claims, Unasked, Wants
<1>6. JobSound(v)
  BY <1>1, <1>3, OfThread, ZenonT(60) DEF JobSound
<1>7. draft = store
  BY <1>1 DEF IInv, DatabaseInv, DraftOfStore
<1>8. UNCHANGED << store, draft >> /\ t # None
  BY <1>1, <1>7, NobodyOnNone
<1>9. DatabaseInv'
  BY <1>1, <1>8, DatabaseUntouched DEF IInv
<1>10. ThreadsInv'
  BY <1>1, <1>3, <1>4, <1>6, <1>8, NobodyOnNone, ThreadGoesOn DEF IInv
<1>11. ClaimsInv'
  <2>1. ASSUME NEW u \in Threads, NEW k \in Claims(job'[u]),
               ~Runs(u, "list", "writing") => Has(store, NewArticle(job[u].group, k))
        PROVE  ~(job'[u].kind = "list" /\ job'[u].stage = "writing")
                 => Has(store', NewArticle(job[u].group, k))
    <3>1. CASE u = t
      BY <1>1, <2>1, <3>1 DEF Runs
    <3>2. CASE u # t
      BY <1>1, <1>4, <2>1, <3>2 DEF Runs, OnlyMoves
    <3> QED BY <3>1, <3>2
  <2> QED BY <1>1, <1>3, <1>4, <1>5, <1>8, <2>1, ClaimsGoOn DEF IInv
<1>12. AskedInv'
  BY <1>1, AskedUntouched DEF IInv
<1> QED BY <1>9, <1>10, <1>11, <1>12 DEF IInv

(* The draft gets better and the store stays. *)
LEMMA DraftGrows ==
    ASSUME DatabaseInv, store' = store, writer' # None, Sound(draft'), Extends(draft', draft)
    PROVE  DatabaseInv'
<1>1. Sound(store') /\ Extends(draft, store')
  BY DEF DatabaseInv, DraftOfStore
<1>2. Extends(draft', store')
  BY <1>1 DEF Extends
<1>3. (Sound(store))' /\ (Sound(draft))'
  BY <1>1
<1>4. DraftOfStore'
  BY <1>2 DEF DraftOfStore, Extends
<1> QED BY <1>3, <1>4 DEF DatabaseInv

LEMMA WriteGroupStep ==
    ASSUME IInv, NEW t \in Threads, WriteGroup(t)
    PROVE  IInv'
<1> DEFINE v == WithChunk(job[t], Tail(job[t].chunk))
<1>1. /\ job[t].kind = "groups" /\ job[t].stage = "writing" /\ job[t].chunk # << >>
      /\ draft' = FindOrCreateGroup(draft, Head(job[t].chunk))
      /\ store' = store /\ writer' = writer /\ asked' = asked
  BY DEF WriteGroup, Runs
<1>2. job' = [job EXCEPT ![t] = v]
  BY OfThread DEF WriteGroup, WithChunk
<1>3. /\ v \in Jobs
      /\ v.kind = job[t].kind /\ v.group = job[t].group /\ v.todo = job[t].todo
      /\ v.stage = job[t].stage /\ v.newArticles = job[t].newArticles
  BY <1>1, OfThread, TailOfJob
<1> HIDE DEF v
<1>4. OnlyMoves(t) /\ job'[t] = v
  BY <1>2, <1>3, OfThread, Move
<1>5. job[t].newArticles = << >>
  BY <1>1, OfThread DEF JobSound
<1>6. Claims(v) = {} /\ Unasked(v) = {}
  BY <1>1, <1>3, <1>5, NothingToClaim
<1>7. JobSound(v)
  BY <1>1, <1>3, <1>5, EmptyIsDistinct DEF JobSound
<1>8. Head(job[t].chunk) \in Groups
  <2>1. job[t].chunk \in Seq(Groups)
    BY <1>1, OfThread, JobOfKind, JobFields
  <2> QED BY <1>1, <2>1
<1>9. Sound(draft') /\ draft'.articles = draft.articles
  BY <1>1, <1>8, GroupKeepsSound DEF IInv, DatabaseInv
<1>10. Extends(draft', draft) /\ \A a : Has(draft, a) => Has(draft', a)
  BY <1>9 DEF Extends, Has
<1>11. writer = t /\ t # None
  BY <1>1, OfThread, NobodyOnNone
<1>12. DatabaseInv'
  BY <1>1, <1>9, <1>10, <1>11, DraftGrows DEF IInv
<1>13. ThreadsInv'
  BY <1>1, <1>3, <1>4, <1>7, <1>11, ThreadGoesOn DEF IInv
<1>14. ClaimsInv'
  <2>1. \A u \in Threads : \A k \in Claims(job'[u]) :
          /\ ~(job'[u].kind = "list" /\ job'[u].stage = "writing")
          /\ ~Runs(u, "list", "writing") => Has(store, NewArticle(job[u].group, k))
          => Has(store', NewArticle(job[u].group, k))
    BY <1>1, <1>4, <1>6 DEF OnlyMoves, Runs
  <2> QED BY <1>1, <1>3, <1>4, <1>6, <1>10, <2>1, ClaimsGoOn DEF IInv
<1>15. AskedInv'
  BY <1>1, AskedUntouched DEF IInv
<1> QED BY <1>12, <1>13, <1>14, <1>15 DEF IInv

(***************************************************************************)
(* What was in the draft is in the store; the writer goes on without it.    *)
(***************************************************************************)
LEMMA CommitStep ==
    ASSUME IInv, NEW t \in Threads, NEW st \in {"reading", "posting"},
           job[t].stage = "writing", CommitWrite(t), asked' = asked,
           job' = [job EXCEPT ![t] = WithStage(job[t], st)],
           JobSound(WithStage(job[t], st))
    PROVE  IInv'
<1> DEFINE v == WithStage(job[t], st)
<1>1. writer = t /\ writer' = None /\ store' = draft /\ draft' = draft
  BY DEF CommitWrite
<1>2. /\ v \in Jobs
      /\ v.kind = job[t].kind /\ v.group = job[t].group /\ v.todo = job[t].todo
      /\ v.stage = st /\ v.chunk = job[t].chunk /\ v.newArticles = job[t].newArticles
  BY OfThread, StageOfJob
<1>3. JobSound(v) /\ job' = [job EXCEPT ![t] = v]
  OBVIOUS
<1> HIDE DEF v
<1>4. OnlyMoves(t) /\ job'[t] = v
  BY <1>2, <1>3, OfThread, Move
<1>5. Claims(v) = Claims(job[t]) /\ Unasked(v) = Unasked(job[t])
  BY <1>2 DEF Claims, Unasked, Wants
<1>6. DatabaseInv'
  <2>1. Sound(draft)
    BY DEF IInv, DatabaseInv
  <2>2. Sound(store') /\ Sound(draft')
    BY <1>1, <2>1
  <2>3. (Sound(store))' /\ (Sound(draft))'
    BY <2>2
  <2>4. DraftOfStore'
    BY <1>1 DEF DraftOfStore, Extends
  <2> QED BY <2>3, <2>4 DEF DatabaseInv
<1>7. ThreadsInv'
  <2>1. v.stage # "writing"
    BY <1>2
  <2> QED BY <1>1, <1>3, <1>4, <2>1, NobodyOnNone, ThreadGoesOn DEF IInv
<1>8. ClaimsInv'
  BY <1>1, <1>2, <1>4, <1>5, ClaimsGoOn DEF IInv
<1>9. AskedInv'
  <2>1. /\ asked \in [Headers -> Nat] /\ HeaderAskedOnce
        /\ \A h \in Headers : asked[h] # 0 =>
             \E k \in DOMAIN store.articles : store.articles[k].id = h[2]
    BY DEF IInv, AskedInv, AskedIsStored
  <2>2. \A k \in DOMAIN store.articles :
          k \in DOMAIN draft.articles /\ draft.articles[k].id = store.articles[k].id
    BY DEF IInv, DatabaseInv, DraftOfStore, Extends
  <2>3. \A h \in Headers : asked'[h] # 0 =>
          \E k \in DOMAIN store'.articles : store'.articles[k].id = h[2]
    BY <1>1, <2>1, <2>2
  <2> QED BY <2>1, <2>3 DEF AskedInv, AskedIsStored, HeaderAskedOnce
<1> QED BY <1>6, <1>7, <1>8, <1>9 DEF IInv

LEMMA CommitListStep ==
    ASSUME IInv, NEW t \in Threads, CommitList(t)
    PROVE  IInv'
<1> DEFINE v == WithStage(job[t], "posting")
<1>1. /\ job[t].kind \in {"groups", "list"} /\ job[t].stage = "writing"
      /\ CommitWrite(t) /\ asked' = asked
  BY DEF CommitList, Runs
<1>2. job' = [job EXCEPT ![t] = v]
  BY OfThread DEF CommitList, WithStage
<1>3. v.kind = job[t].kind /\ v.stage = "posting" /\ v.newArticles = job[t].newArticles
  BY OfThread, StageOfJob
<1>4. JobSound(v)
  <2> HIDE DEF v
  <2> QED BY <1>1, <1>3, OfThread DEF JobSound
<1> QED BY <1>1, <1>2, <1>4, CommitStep

LEMMA CommitHeaderStep ==
    ASSUME IInv, NEW t \in Threads, CommitHeader(t)
    PROVE  IInv'
<1> DEFINE v == WithStage(job[t], "reading")
<1>1. /\ job[t].kind = "heads" /\ job[t].stage = "writing" /\ job[t].chunk = << >>
      /\ CommitWrite(t) /\ asked' = asked
  BY DEF CommitHeader, Runs
<1>2. job' = [job EXCEPT ![t] = v]
  BY OfThread DEF CommitHeader, WithStage
<1>3. /\ v.kind = job[t].kind /\ v.todo = job[t].todo /\ v.chunk = job[t].chunk
      /\ v.stage = "reading" /\ v.newArticles = job[t].newArticles
  BY OfThread, StageOfJob
<1>4. JobSound(v)
  <2> HIDE DEF v
  <2> QED BY <1>1, <1>3, OfThread DEF JobSound
<1> QED BY <1>1, <1>2, <1>4, CommitStep

(***************************************************************************)
(* An article that is not found is nobody's: no claim, and never asked for. *)
(***************************************************************************)
LEMMA AbsentIsUnclaimed ==
    ASSUME IInv, NEW n \in Numbers, ~ \E k \in DOMAIN draft.articles : draft.articles[k].id = n
    PROVE  /\ \A u \in Threads : n \notin Claims(job[u])
           /\ \A g \in Groups : asked[<< g, n >>] = 0
<1>1. ASSUME NEW u \in Threads, n \in Claims(job[u]) PROVE FALSE
  <2>1. Has(draft, NewArticle(job[u].group, n))
    BY <1>1 DEF IInv, ClaimsInv, ClaimsStored
  <2> QED BY <2>1 DEF Has, NewArticle
<1>2. ASSUME NEW g \in Groups PROVE asked[<< g, n >>] = 0
  <2>1. << g, n >> \in Headers /\ << g, n >>[2] = n
    BY DEF Headers
  <2>2. asked[<< g, n >>] # 0 => \E k \in DOMAIN store.articles : store.articles[k].id = n
    BY <2>1 DEF IInv, AskedInv, AskedIsStored
  <2>3. \A k \in DOMAIN store.articles :
          k \in DOMAIN draft.articles /\ draft.articles[k].id = store.articles[k].id
    BY DEF IInv, DatabaseInv, DraftOfStore, Extends
  <2> QED BY <2>2, <2>3
<1> QED BY <1>1, <1>2

LEMMA FoundArticleStep ==
    ASSUME IInv, NEW t \in Threads, WriteArticle(t),
           IsStored(draft, job[t].group, Head(job[t].chunk))
    PROVE  IInv'
<1> DEFINE v == WithChunk(job[t], Tail(job[t].chunk))
<1>1. /\ job[t].kind = "list" /\ job[t].stage = "writing" /\ job[t].chunk # << >>
      /\ store' = store /\ draft' = draft /\ writer' = writer /\ asked' = asked
  BY DEF WriteArticle, Runs
<1>2. job' = [job EXCEPT ![t] = v]
  BY OfThread DEF WriteArticle, WithChunk
<1>3. /\ v \in Jobs
      /\ v.kind = job[t].kind /\ v.group = job[t].group /\ v.todo = job[t].todo
      /\ v.stage = job[t].stage /\ v.newArticles = job[t].newArticles
  BY <1>1, OfThread, TailOfJob
<1> HIDE DEF v
<1>4. OnlyMoves(t) /\ job'[t] = v
  BY <1>2, <1>3, OfThread, Move
<1>5. Claims(v) = Claims(job[t]) /\ Unasked(v) = Unasked(job[t])
  BY <1>1, <1>3 DEF Claims, Unasked, Wants
<1>6. JobSound(v)
  BY <1>1, <1>3, OfThread DEF JobSound
<1>7. DatabaseInv' /\ AskedInv'
  BY <1>1, DatabaseUntouched, AskedUntouched DEF IInv
<1>8. ThreadsInv'
  BY <1>1, <1>3, <1>4, <1>6, OfThread, ThreadGoesOn DEF IInv
<1>9. ClaimsInv'
  <2>1. \A u \in Threads : \A k \in Claims(job'[u]) :
          /\ ~(job'[u].kind = "list" /\ job'[u].stage = "writing")
          /\ ~Runs(u, "list", "writing") => Has(store, NewArticle(job[u].group, k))
          => Has(store', NewArticle(job[u].group, k))
    BY <1>1, <1>3, <1>4 DEF OnlyMoves, Runs
  <2> QED BY <1>1, <1>3, <1>4, <1>5, <2>1, ClaimsGoOn DEF IInv
<1> QED BY <1>7, <1>8, <1>9 DEF IInv

LEMMA NewArticleOfJob ==
    ASSUME NEW j \in Jobs, j.kind = "list", j.stage = "writing", j.chunk # << >>
    PROVE  LET n == Head(j.chunk)
               v == WithNew(j, Tail(j.chunk), Append(j.newArticles, n))
           IN  /\ j.group \in Groups /\ n \in Numbers /\ j.newArticles \in Seq(Numbers)
               /\ v \in Jobs
               /\ v.kind = "list" /\ v.group = j.group
               /\ v.stage = "writing" /\ v.newArticles = Append(j.newArticles, n)
<1> DEFINE K == {"list", "heads"}
           n == Head(j.chunk)
           c == Tail(j.chunk)
           a == Append(j.newArticles, n)
           v == WithNew(j, c, a)
<1>1. j \in JobsOf(K, Groups, Numbers)
  BY JobOfKind
<1> HIDE DEF K
<1>2. j.group \in Groups /\ j.chunk \in Seq(Numbers) /\ j.newArticles \in Seq(Numbers)
  BY <1>1, JobFields
<1>3. n \in Numbers /\ c \in Seq(Numbers)
  BY <1>2
<1> HIDE DEF n, c
<1>4. a \in Seq(Numbers)
  BY <1>2, <1>3
<1> HIDE DEF a
<1>5. /\ v \in JobsOf(K, Groups, Numbers)
      /\ v.kind = j.kind /\ v.group = j.group /\ v.stage = j.stage /\ v.newArticles = a
  BY <1>1, <1>3, <1>4, ChunkAndNewUpdate
<1> HIDE DEF v
<1>6. v \in Jobs
  BY <1>5 DEF K, Jobs
<1> QED BY <1>2, <1>3, <1>5, <1>6 DEF v, a, c, n

LEMMA NewArticleStep ==
    ASSUME IInv, NEW t \in Threads, WriteArticle(t),
           ~IsStored(draft, job[t].group, Head(job[t].chunk))
    PROVE  IInv'
<1> DEFINE g == job[t].group
           n == Head(job[t].chunk)
           v == WithNew(job[t], Tail(job[t].chunk), Append(job[t].newArticles, n))
<1>1. /\ job[t].kind = "list" /\ job[t].stage = "writing" /\ job[t].chunk # << >>
      /\ store' = store /\ writer' = writer /\ asked' = asked
      /\ draft' = Added(draft, g, n)
  BY DEF WriteArticle, Runs, Added
<1>2. job' = [job EXCEPT ![t] = v]
  BY OfThread DEF WriteArticle, WithNew
<1>3. /\ g \in Groups /\ n \in Numbers /\ job[t].newArticles \in Seq(Numbers)
      /\ v \in Jobs
      /\ v.kind = "list" /\ v.group = g
      /\ v.stage = "writing" /\ v.newArticles = Append(job[t].newArticles, n)
  BY <1>1, OfThread, NewArticleOfJob
<1> HIDE DEF v
<1>4. OnlyMoves(t) /\ job'[t] = v
  BY <1>2, <1>3, OfThread, Move
<1>5. ~IsStored(draft, g, n)
  OBVIOUS
<1> HIDE DEF g, n
<1>6. /\ Sound(draft')
      /\ Extends(draft', draft)
      /\ \A a : Has(draft, a) => Has(draft', a)
      /\ Has(draft', NewArticle(g, n))
      /\ ~ \E k \in DOMAIN draft.articles : draft.articles[k].id = n
  BY <1>1, <1>3, <1>5, AddedIsSound DEF IInv, DatabaseInv
<1>7. /\ \A u \in Threads : n \notin Claims(job[u])
      /\ asked[<< g, n >>] = 0
  BY <1>3, <1>6, AbsentIsUnclaimed
<1>8. /\ Claims(v) = Claims(job[t]) \union {n}
      /\ Unasked(v) = Unasked(job[t]) \union {n}
      /\ job[t].group = g
  <2>1. ToSet(v.newArticles) = ToSet(job[t].newArticles) \union {n}
    BY <1>3, SetOfAppend
  <2> QED BY <1>1, <1>3, <2>1 DEF Claims, Unasked, Wants, g
<1>9. JobSound(v)
  <2>1. n \notin ToSet(job[t].newArticles)
    BY <1>7 DEF Claims
  <2>2. Distinct(job[t].newArticles)
    BY OfThread DEF JobSound
  <2>3. Distinct(v.newArticles)
    BY <1>3, <2>1, <2>2, DistinctAppend
  <2> QED BY <1>3, <2>3 DEF JobSound
<1>10. writer = t /\ t # None
  BY <1>1, OfThread, NobodyOnNone
<1>11. DatabaseInv'
  BY <1>1, <1>6, <1>10, DraftGrows DEF IInv
<1>12. ThreadsInv'
  BY <1>1, <1>3, <1>4, <1>9, <1>10, ThreadGoesOn DEF IInv
<1>13. ClaimsExclusive'
  <2>1. \A u, w \in Threads : u # w => Claims(job[u]) \intersect Claims(job[w]) = {}
    BY DEF IInv, ClaimsInv, ClaimsExclusive
  <2>2. \A u \in Threads : u # t => Claims(job'[u]) = Claims(job[u])
    BY <1>4 DEF OnlyMoves
  <2>3. Claims(job'[t]) = Claims(job[t]) \union {n}
    BY <1>4, <1>8
  <2>4. \A u, w \in Threads : u # w => Claims(job'[u]) \intersect Claims(job'[w]) = {}
    BY <1>7, <2>1, <2>2, <2>3
  <2> QED BY <2>4 DEF ClaimsExclusive, Claims, Wants
<1>14. ClaimsStored'
  <2>1. ASSUME NEW u \in Threads, NEW m \in Claims(job'[u])
        PROVE  /\ Has(draft', NewArticle(job'[u].group, m))
               /\ ~(job'[u].kind = "list" /\ job'[u].stage = "writing")
                     => Has(store', NewArticle(job'[u].group, m))
    <3>1. CASE u # t
      <4>1. job'[u] = job[u]
        BY <1>4, <3>1 DEF OnlyMoves
      <4>2. /\ Has(draft, NewArticle(job[u].group, m))
            /\ ~(job[u].kind = "list" /\ job[u].stage = "writing")
                  => Has(store, NewArticle(job[u].group, m))
        BY <2>1, <4>1 DEF IInv, ClaimsInv, ClaimsStored, Runs
      <4> QED BY <1>1, <1>6, <4>1, <4>2
    <3>2. CASE u = t /\ m = n
      BY <1>3, <1>4, <1>6, <3>2
    <3>3. CASE u = t /\ m # n
      <4>1. m \in Claims(job[t])
        BY <1>4, <1>8, <2>1, <3>3
      <4>2. Has(draft, NewArticle(job[t].group, m))
        BY <4>1 DEF IInv, ClaimsInv, ClaimsStored
      <4> QED BY <1>3, <1>4, <1>6, <1>8, <3>3, <4>2
    <3> QED BY <3>1, <3>2, <3>3
  <2> QED BY <2>1 DEF ClaimsStored, Runs, Claims, Wants, Has, NewArticle
<1>15. UnaskedNotAsked'
  <2>1. ASSUME NEW u \in Threads, NEW m \in Unasked(job'[u])
        PROVE  asked'[<< job'[u].group, m >>] = 0
    <3>1. CASE u # t
      BY <1>1, <1>4, <2>1, <3>1 DEF OnlyMoves, IInv, ClaimsInv, UnaskedNotAsked
    <3>2. CASE u = t /\ m = n
      BY <1>1, <1>3, <1>4, <1>7, <3>2
    <3>3. CASE u = t /\ m # n
      <4>1. m \in Unasked(job[t])
        BY <1>4, <1>8, <2>1, <3>3
      <4>2. asked[<< job[t].group, m >>] = 0
        BY <4>1 DEF IInv, ClaimsInv, UnaskedNotAsked
      <4> QED BY <1>1, <1>3, <1>4, <1>8, <3>3, <4>2
    <3> QED BY <3>1, <3>2, <3>3
  <2> QED BY <2>1 DEF UnaskedNotAsked, Unasked
<1>16. AskedInv'
  BY <1>1, AskedUntouched DEF IInv
<1> QED BY <1>11, <1>12, <1>13, <1>14, <1>15, <1>16 DEF IInv, ClaimsInv

LEMMA TailOfOne ==
    ASSUME NEW S, NEW s \in Seq(S), Len(s) = 1
    PROVE  Tail(s) = << >>
<1>1. Tail(s) \in Seq(S) /\ Len(Tail(s)) = 0
  OBVIOUS
<1> QED BY <1>1, EmptySeq

LEMMA WriteHeaderStep ==
    ASSUME IInv, NEW t \in Threads, WriteHeader(t)
    PROVE  IInv'
<1> DEFINE g == job[t].group
           n == Head(job[t].chunk)
           v == WithChunk(job[t], Tail(job[t].chunk))
<1>1. /\ job[t].kind = "heads" /\ job[t].stage = "writing" /\ job[t].chunk # << >>
      /\ store' = store /\ writer' = writer /\ asked' = asked
      /\ draft' = WithHeader(draft, g, n)
  BY DEF WriteHeader, Runs
<1>2. job' = [job EXCEPT ![t] = v]
  BY OfThread DEF WriteHeader, WithChunk
<1>3. /\ v \in Jobs
      /\ v.kind = "heads" /\ v.group = g /\ v.todo = job[t].todo
      /\ v.stage = "writing" /\ v.chunk = Tail(job[t].chunk)
      /\ v.newArticles = job[t].newArticles
  BY <1>1, OfThread, TailOfJob
<1> HIDE DEF v
<1>4. OnlyMoves(t) /\ job'[t] = v
  BY <1>2, <1>3, OfThread, Move
<1>5. /\ g \in Groups /\ job[t].chunk \in Seq(Numbers) /\ Len(job[t].chunk) = 1
  BY <1>1, OfThread, JobOfKind, JobFields DEF JobSound
<1>6. /\ n \in Numbers /\ n \in ToSet(job[t].chunk) /\ v.chunk = << >>
  <2>1. n \in Numbers /\ n \in ToSet(job[t].chunk)
    BY <1>1, <1>5, SetOfTail
  <2> QED BY <1>3, <1>5, <2>1, TailOfOne
<1> HIDE DEF n
<1>7. n \notin ToSet(v.todo)
  BY <1>1, <1>3, <1>6, OfThread DEF JobSound
<1>8. n \in Claims(job[t])
  BY <1>1, <1>6 DEF Claims, Wants
<1>9. /\ Claims(v) = ToSet(job[t].newArticles) \union ToSet(job[t].todo)
      /\ Unasked(v) = Unasked(job[t])
      /\ ToSet(job[t].newArticles) = {}
      /\ Claims(v) \subseteq Claims(job[t])
  <2>1. job[t].newArticles = << >>
    BY <1>1, OfThread DEF JobSound
  <2> QED BY <1>1, <1>3, <1>6, <2>1, EmptyIsDistinct DEF Claims, Unasked, Wants
<1>10. \A u \in Threads : n \notin Claims(job'[u])
  <2>1. n \notin Claims(v)
    BY <1>3, <1>7, <1>9
  <2>2. \A u \in Threads : u # t => n \notin Claims(job[u])
    BY <1>8 DEF IInv, ClaimsInv, ClaimsExclusive
  <2> QED BY <1>4, <2>1, <2>2 DEF OnlyMoves
<1>11. /\ Sound(draft')
       /\ Extends(draft', draft)
       /\ \A a : Has(draft, a) /\ a.id # n => Has(draft', a)
  <2>1. Has(draft, NewArticle(g, n))
    BY <1>8 DEF IInv, ClaimsInv, ClaimsStored
  <2> QED BY <1>1, <1>5, <1>6, <2>1, HeaderKeepsSound DEF IInv, DatabaseInv
<1>12. JobSound(v)
  BY <1>1, <1>3, <1>6, OfThread, EmptyIsDistinct DEF JobSound
<1>13. writer = t /\ t # None
  BY <1>1, OfThread, NobodyOnNone
<1>14. DatabaseInv'
  BY <1>1, <1>11, <1>13, DraftGrows DEF IInv
<1>15. ThreadsInv'
  BY <1>1, <1>3, <1>4, <1>12, <1>13, ThreadGoesOn DEF IInv
<1>16. ClaimsInv'
  <2>1. \A u \in Threads : \A k \in Claims(job'[u]) :
          Has(draft, NewArticle(job[u].group, k)) => Has(draft', NewArticle(job[u].group, k))
    <3>1. \A u \in Threads : \A k \in Claims(job'[u]) : NewArticle(job[u].group, k).id # n
      BY <1>10 DEF NewArticle
    <3> QED BY <1>11, <3>1
  <2>2. \A u \in Threads : \A k \in Claims(job'[u]) :
          /\ ~(job'[u].kind = "list" /\ job'[u].stage = "writing")
          /\ ~Runs(u, "list", "writing") => Has(store, NewArticle(job[u].group, k))
          => Has(store', NewArticle(job[u].group, k))
    BY <1>1, <1>4 DEF OnlyMoves, Runs
  <2>3. v.group = job[t].group
    BY <1>3
  <2> QED BY <1>1, <1>4, <1>9, <2>1, <2>2, <2>3, ClaimsGoOn DEF IInv
<1>17. AskedInv'
  BY <1>1, AskedUntouched DEF IInv
<1> QED BY <1>14, <1>15, <1>16, <1>17 DEF IInv

LEMMA UnaskedIsClaimed == ASSUME NEW j PROVE Unasked(j) \subseteq Claims(j)
BY DEF Unasked, Claims, Wants

LEMMA AskedOfJob ==
    ASSUME NEW j \in Jobs, j.kind = "heads", j.todo # << >>
    PROVE  LET v == WithAsked(j, << Head(j.todo) >>, Tail(j.todo))
           IN  /\ v \in Jobs
               /\ v.kind = "heads" /\ v.group = j.group /\ v.todo = Tail(j.todo)
               /\ v.stage = "asked" /\ v.chunk = << Head(j.todo) >>
               /\ v.newArticles = j.newArticles
<1> DEFINE K == {"list", "heads"}
           n == Head(j.todo)
           c == << n >>
           d == Tail(j.todo)
           v == WithAsked(j, c, d)
<1>1. j \in JobsOf(K, Groups, Numbers)
  BY JobOfKind
<1> HIDE DEF K
<1>2. j.todo \in Seq(Numbers)
  BY <1>1, JobFields
<1>3. n \in Numbers /\ d \in Seq(Numbers)
  BY <1>2
<1> HIDE DEF n, d
<1>4. c \in Seq(Numbers)
  BY <1>3
<1> HIDE DEF c
<1>5. /\ v \in JobsOf(K, Groups, Numbers)
      /\ v.kind = j.kind /\ v.group = j.group /\ v.todo = d
      /\ v.stage = "asked" /\ v.chunk = c /\ v.newArticles = j.newArticles
  BY <1>1, <1>3, <1>4, AskUpdate
<1> HIDE DEF v
<1>6. v \in Jobs
  BY <1>5 DEF K, Jobs
<1> QED BY <1>5, <1>6 DEF v, c, d, n

LEMMA AskFirstStep ==
    ASSUME IInv, NEW t \in Threads, AskHeader(t), job[t].todo # << >>
    PROVE  IInv'
<1> DEFINE g == job[t].group
           n == Head(job[t].todo)
           v == WithAsked(job[t], << n >>, Tail(job[t].todo))
<1>1. /\ job[t].kind = "heads" /\ job[t].stage = "reading"
      /\ store' = store /\ draft' = draft /\ writer' = writer
      /\ asked' = [asked EXCEPT ![<< g, n >>] = @ + 1]
  BY DEF AskHeader, Runs
<1>2. job' = [job EXCEPT ![t] = v]
  BY OfThread DEF AskHeader, WithAsked
<1>3. /\ g \in Groups /\ job[t].todo \in Seq(Numbers)
      /\ job[t].chunk = << >> /\ job[t].newArticles = << >> /\ Distinct(job[t].todo)
  BY <1>1, OfThread, JobOfKind, JobFields DEF JobSound
<1>4. /\ n \in Numbers /\ n \in ToSet(job[t].todo)
      /\ ToSet(Tail(job[t].todo)) \subseteq ToSet(job[t].todo)
      /\ n \notin ToSet(Tail(job[t].todo)) /\ Distinct(Tail(job[t].todo))
  BY <1>3, SetOfTail
<1>5. /\ v \in Jobs
      /\ v.kind = "heads" /\ v.group = g /\ v.todo = Tail(job[t].todo)
      /\ v.stage = "asked" /\ v.chunk = << n >> /\ v.newArticles = << >>
  BY <1>1, <1>3, OfThread, AskedOfJob
<1> HIDE DEF v
<1>6. OnlyMoves(t) /\ job'[t] = v
  BY <1>2, <1>5, OfThread, Move
<1> HIDE DEF n
<1>7. Len(<< n >>) = 1 /\ ToSet(<< n >>) = {n}
  BY DEF ToSet
<1>8. JobSound(v)
  BY <1>4, <1>5, <1>7, EmptyIsDistinct DEF JobSound
<1>9. /\ Claims(v) \subseteq Claims(job[t])
      /\ Unasked(v) = ToSet(Tail(job[t].todo))
      /\ Unasked(v) \subseteq Unasked(job[t])
      /\ n \in Unasked(job[t]) /\ n \in Claims(job[t])
  BY <1>1, <1>3, <1>4, <1>5, <1>7, EmptyIsDistinct DEF Claims, Unasked, Wants
<1>10. \A u \in Threads : n \notin Unasked(job'[u])
  <2>1. n \notin Unasked(v)
    BY <1>4, <1>9
  <2>2. \A u \in Threads : u # t => n \notin Claims(job[u])
    BY <1>9 DEF IInv, ClaimsInv, ClaimsExclusive
  <2> QED BY <1>6, <2>1, <2>2, UnaskedIsClaimed DEF OnlyMoves
<1>11. /\ asked \in [Headers -> Nat] /\ << g, n >> \in Headers
       /\ asked[<< g, n >>] = 0
       /\ HeaderAskedOnce /\ AskedIsStored
  BY <1>3, <1>4, <1>9 DEF IInv, AskedInv, ClaimsInv, UnaskedNotAsked, Headers
<1>12. /\ asked' \in [Headers -> Nat]
       /\ asked'[<< g, n >>] = 1
       /\ \A h \in Headers : h # << g, n >> => asked'[h] = asked[h]
  BY <1>1, <1>11
<1>13. DatabaseInv'
  BY <1>1, DatabaseUntouched DEF IInv
<1>14. ThreadsInv'
  BY <1>1, <1>5, <1>6, <1>8, OfThread, ThreadGoesOn DEF IInv
<1>15. ClaimsInv'
  <2>1. ASSUME NEW u \in Threads, NEW m \in Unasked(job'[u])
        PROVE  asked'[<< job[u].group, m >>] = asked[<< job[u].group, m >>]
    <3>1. m # n
      BY <1>10, <2>1
    <3>2. << job[u].group, m >> # << g, n >>
      BY <3>1
    <3> QED BY <1>1, <1>11, <3>2
  <2>2. \A u \in Threads : \A k \in Claims(job'[u]) :
          /\ ~(job'[u].kind = "list" /\ job'[u].stage = "writing")
          /\ ~Runs(u, "list", "writing") => Has(store, NewArticle(job[u].group, k))
          => Has(store', NewArticle(job[u].group, k))
    BY <1>1, <1>6 DEF OnlyMoves, Runs
  <2>3. v.group = job[t].group
    BY <1>5
  <2> QED BY <1>1, <1>6, <1>9, <2>1, <2>2, <2>3, ClaimsGoOn DEF IInv
<1>16. AskedInv'
  <2>1. \E k \in DOMAIN store.articles : store.articles[k].id = n
    <3>1. Has(store, NewArticle(g, n))
      BY <1>1, <1>9 DEF IInv, ClaimsInv, ClaimsStored, Runs
    <3> QED BY <3>1 DEF Has, NewArticle
  <2>2. << g, n >>[2] = n
    OBVIOUS
  <2>3. ASSUME NEW h \in Headers, asked'[h] # 0
        PROVE  \E k \in DOMAIN store'.articles : store'.articles[k].id = h[2]
    <3>1. CASE h = << g, n >>
      BY <1>1, <2>1, <2>2, <3>1
    <3>2. CASE h # << g, n >>
      BY <1>1, <1>11, <1>12, <2>3, <3>2 DEF AskedIsStored
    <3> QED BY <3>1, <3>2
  <2>4. ASSUME NEW h \in Headers
        PROVE  asked'[h] <= 1
    <3>1. CASE h = << g, n >>
      BY <1>12, <3>1
    <3>2. CASE h # << g, n >>
      <4>1. asked'[h] = asked[h] /\ asked[h] <= 1
        BY <1>11, <1>12, <3>2 DEF HeaderAskedOnce
      <4> QED BY <4>1
    <3> QED BY <3>1, <3>2
  <2> QED BY <1>12, <2>3, <2>4 DEF AskedInv, AskedIsStored, HeaderAskedOnce
<1> QED BY <1>13, <1>14, <1>15, <1>16 DEF IInv

LEMMA AskHeaderStep ==
    ASSUME IInv, NEW t \in Threads, AskHeader(t)
    PROVE  IInv'
<1>1. CASE job[t].todo = << >>
  <2>1. job[t].stage # "writing"
    BY DEF AskHeader, Runs
  <2>2. job' = [job EXCEPT ![t] = Idle] /\ UNCHANGED << store, draft, writer, asked >>
    BY <1>1 DEF AskHeader
  <2> QED BY <2>1, <2>2, IdleClaimsNothing, FreshJobStep
<1>2. CASE job[t].todo # << >>
  BY <1>2, AskFirstStep
<1> QED BY <1>1, <1>2

(***************************************************************************)
(* The claims of the list go to the command for its headers.                *)
(***************************************************************************)
LEMMA PostArticlesStep ==
    ASSUME IInv, NEW t \in Threads, PostArticles(t)
    PROVE  IInv'
<1> DEFINE g == job[t].group
           v == Resumed(job[t])
           w == NewJob("heads", g, job[t].newArticles)
<1>1. /\ job[t].kind = "list" /\ job[t].stage = "posting"
      /\ UNCHANGED << store, draft, writer, asked >>
  BY DEF PostArticles, Runs
<1>2. PICK u \in IdleThreads : job' = [job EXCEPT ![t] = v, ![u] = w]
  BY DEF PostArticles
<1>3. u \in Threads /\ job[u] = Idle /\ u # t
  BY <1>1, <1>2, IdleTyped DEF IdleThreads
<1>4. g \in Groups /\ job[t].newArticles \in Seq(Numbers) /\ Distinct(job[t].newArticles)
  BY <1>1, OfThread, JobOfKind, JobFields DEF JobSound
<1>5. /\ v \in Jobs /\ Claims(v) = {} /\ Unasked(v) = {}
      /\ JobSound(v) /\ v.stage # "writing"
  BY <1>1, OfThread, ResumedClaimsNothing
<1>6. /\ w \in Jobs
      /\ w.kind = "heads" /\ w.group = g /\ w.todo = job[t].newArticles
      /\ w.stage = "reading" /\ w.chunk = << >> /\ w.newArticles = << >>
  <2> DEFINE K == {"list", "heads"}
  <2>1. "heads" \in K
    OBVIOUS
  <2> HIDE DEF K
  <2>2. w \in JobsOf(K, Groups, Numbers)
    BY <1>4, <2>1, NewJobTyped
  <2> QED BY <2>2 DEF K, Jobs, NewJob
<1> HIDE DEF v, w
<1>7. /\ job' \in [Threads -> Jobs] /\ job'[t] = v /\ job'[u] = w
      /\ \A x \in Threads : x # t /\ x # u => job'[x] = job[x]
  BY <1>2, <1>3, <1>5, <1>6, OfThread
<1>8. /\ Claims(w) = Claims(job[t]) /\ Unasked(w) = Unasked(job[t])
  BY <1>1, <1>6, EmptyIsDistinct DEF Claims, Unasked, Wants
<1>9. JobSound(w)
  BY <1>4, <1>6, EmptyIsDistinct DEF JobSound
<1>10. DatabaseInv' /\ AskedInv'
  BY <1>1, DatabaseUntouched, AskedUntouched DEF IInv
<1>11. ThreadsInv'
  <2>1. /\ \A x \in Threads : JobSound(job[x])
        /\ writer \in Threads \union {None}
        /\ \A x \in Threads : job[x].stage = "writing" <=> writer = x
    BY DEF IInv, ThreadsInv, WriterWrites
  <2>2. \A x \in Threads : JobSound(job'[x])
    BY <1>5, <1>7, <1>9, <2>1
  <2>3. job[t].stage # "writing" /\ job[u].stage # "writing"
    BY <1>1, <1>3, IdleTyped
  <2>4. \A x \in Threads : job'[x].stage = "writing" <=> writer' = x
    BY <1>1, <1>3, <1>5, <1>6, <1>7, <2>1, <2>3
  <2>5. (\A x \in Threads : JobSound(job[x]))'
    BY <2>2
  <2> QED BY <1>1, <1>7, <2>1, <2>4, <2>5 DEF ThreadsInv, WriterWrites
<1>12. ClaimsExclusive'
  <2>1. \A x, y \in Threads : x # y => Claims(job[x]) \intersect Claims(job[y]) = {}
    BY DEF IInv, ClaimsInv, ClaimsExclusive
  <2>2. \A x \in Threads : x # t /\ x # u => Claims(job'[x]) = Claims(job[x])
    BY <1>7
  <2>3. Claims(job'[t]) = {} /\ Claims(job'[u]) = Claims(job[t])
    BY <1>5, <1>7, <1>8
  <2>4. \A x, y \in Threads : x # y => Claims(job'[x]) \intersect Claims(job'[y]) = {}
    BY <2>1, <2>2, <2>3
  <2> QED BY <2>4 DEF ClaimsExclusive, Claims, Wants
<1>13. ClaimsStored'
  <2>1. ASSUME NEW x \in Threads, NEW m \in Claims(job'[x])
        PROVE  /\ Has(draft', NewArticle(job'[x].group, m))
               /\ ~(job'[x].kind = "list" /\ job'[x].stage = "writing")
                     => Has(store', NewArticle(job'[x].group, m))
    <3>1. CASE x = t
      BY <1>5, <1>7, <2>1, <3>1
    <3>2. CASE x = u
      <4>1. /\ Has(draft, NewArticle(g, m))
            /\ Has(store, NewArticle(g, m))
        BY <1>1, <1>7, <1>8, <2>1, <3>2 DEF IInv, ClaimsInv, ClaimsStored, Runs
      <4> QED BY <1>1, <1>6, <1>7, <3>2, <4>1
    <3>3. CASE x # t /\ x # u
      <4>1. job'[x] = job[x]
        BY <1>7, <3>3
      <4>2. /\ Has(draft, NewArticle(job[x].group, m))
            /\ ~(job[x].kind = "list" /\ job[x].stage = "writing")
                  => Has(store, NewArticle(job[x].group, m))
        BY <2>1, <4>1 DEF IInv, ClaimsInv, ClaimsStored, Runs
      <4> QED BY <1>1, <4>1, <4>2
    <3> QED BY <3>1, <3>2, <3>3
  <2> QED BY <2>1 DEF ClaimsStored, Runs, Claims, Wants, Has, NewArticle
<1>14. UnaskedNotAsked'
  <2>1. ASSUME NEW x \in Threads, NEW m \in Unasked(job'[x])
        PROVE  asked'[<< job'[x].group, m >>] = 0
    <3>1. CASE x = t
      BY <1>5, <1>7, <2>1, <3>1
    <3>2. CASE x = u
      BY <1>1, <1>6, <1>7, <1>8, <2>1, <3>2 DEF IInv, ClaimsInv, UnaskedNotAsked
    <3>3. CASE x # t /\ x # u
      BY <1>1, <1>7, <2>1, <3>3 DEF IInv, ClaimsInv, UnaskedNotAsked
    <3> QED BY <3>1, <3>2, <3>3
  <2> QED BY <2>1 DEF UnaskedNotAsked, Unasked
<1> QED BY <1>10, <1>11, <1>12, <1>13, <1>14 DEF IInv, ClaimsInv
-------------------------------------------------------------------------------
(***************************************************************************)
(* The invariant.                                                           *)
(***************************************************************************)
LEMMA EmptyIsSound == Sound(EmptyStore)
<1>1. /\ EmptyStore.groups = << >> /\ EmptyStore.articles = << >>
      /\ \A g \in Groups : EmptyStore.lists[g] = << >>
  BY DEF EmptyStore
<1>2. EmptyStore \in Stores
  BY DEF EmptyStore, Stores
<1>3. NoDuplicates(EmptyStore) /\ NoTwins(EmptyStore) /\ OwnHeaders(EmptyStore)
  BY <1>1 DEF NoDuplicates, NoTwins, OwnHeaders
<1>4. ListsOnlyStored(EmptyStore)
  BY <1>1 DEF ListsOnlyStored
<1>5. ListsAllTwice(EmptyStore)
  <2>1. \A g \in Groups : PlacesOf(EmptyStore, g) = {}
    BY <1>1 DEF PlacesOf
  <2>2. Len(<< >>) = 2 * Cardinality({})
    BY FS_EmptySet
  <2> QED BY <1>1, <2>1, <2>2, EmptyIsDistinct DEF ListsAllTwice
<1> QED BY <1>2, <1>3, <1>4, <1>5 DEF Sound, StoreSound

LEMMA InitInvariant == Init => IInv
<1> SUFFICES ASSUME Init PROVE IInv
  OBVIOUS
<1>1. \A t \in Threads : job[t] = Idle
  BY DEF Init
<1>2. \A t \in Threads : Claims(job[t]) = {} /\ Unasked(job[t]) = {}
  BY <1>1, IdleClaimsNothing
<1>3. DatabaseInv
  <2>1. Sound(store) /\ Sound(draft) /\ draft = store
    BY EmptyIsSound DEF Init
  <2> QED BY <2>1 DEF DatabaseInv, DraftOfStore, Extends
<1>4. ThreadsInv
  <2>1. job \in [Threads -> Jobs] /\ writer = None
    BY IdleClaimsNothing DEF Init
  <2>2. WriterWrites
    BY <1>1, <2>1, IdleClaimsNothing, NobodyOnNone DEF WriterWrites
  <2>3. \A t \in Threads : JobSound(job[t])
    BY <1>1, IdleClaimsNothing
  <2> QED BY <2>1, <2>2, <2>3 DEF ThreadsInv
<1>5. ClaimsInv
  BY <1>2 DEF ClaimsInv, ClaimsExclusive, ClaimsStored, UnaskedNotAsked
<1>6. AskedInv
  <2>1. asked \in [Headers -> Nat] /\ \A h \in Headers : asked[h] = 0
    BY DEF Init
  <2> QED BY <2>1 DEF AskedInv, AskedIsStored, HeaderAskedOnce
<1> QED BY <1>3, <1>4, <1>5, <1>6 DEF IInv

LEMMA StutterStep ==
    ASSUME IInv, UNCHANGED vars
    PROVE  IInv'
<1>1. UNCHANGED << store, draft, writer, job, asked >>
  BY DEF vars
<1>2. DatabaseInv' /\ AskedInv'
  BY <1>1, DatabaseUntouched, AskedUntouched DEF IInv
<1>3. ThreadsInv'
  <2>1. \A t \in Threads : JobSound(job[t])
    BY DEF IInv, ThreadsInv
  <2>2. (\A t \in Threads : JobSound(job[t]))'
    BY <1>1, <2>1
  <2> QED BY <1>1, <2>2 DEF IInv, ThreadsInv, WriterWrites
<1>4. ClaimsInv'
  <2>1. ClaimsExclusive'
    BY <1>1 DEF IInv, ClaimsInv, ClaimsExclusive, Claims, Wants
  <2>2. ClaimsStored'
    BY <1>1 DEF IInv, ClaimsInv, ClaimsStored, Runs, Claims, Wants, Has, NewArticle
  <2>3. UnaskedNotAsked'
    BY <1>1 DEF IInv, ClaimsInv, UnaskedNotAsked, Unasked
  <2> QED BY <2>1, <2>2, <2>3 DEF ClaimsInv
<1> QED BY <1>2, <1>3, <1>4 DEF IInv

LEMMA InvariantStep == IInv /\ [Next]_vars => IInv'
<1> SUFFICES ASSUME IInv, [Next]_vars PROVE IInv'
  OBVIOUS
<1>1. ASSUME NEW t \in Threads, UpdateGroups(t) PROVE IInv'
  BY <1>1, UpdateGroupsStep
<1>2. ASSUME NEW t \in Threads, NEW g \in Groups, OnRefresh(t, g) PROVE IInv'
  BY <1>2, OnRefreshStep
<1>3. ASSUME NEW t \in Threads, ReceiveList(t) PROVE IInv'
  BY <1>3, ReceiveListStep
<1>4. ASSUME NEW t \in Threads, WriteGroup(t) PROVE IInv'
  BY <1>4, WriteGroupStep
<1>5. ASSUME NEW t \in Threads, WriteArticle(t) PROVE IInv'
  BY <1>5, FoundArticleStep, NewArticleStep
<1>6. ASSUME NEW t \in Threads, CommitList(t) PROVE IInv'
  BY <1>6, CommitListStep
<1>7. ASSUME NEW t \in Threads, PostGroups(t) PROVE IInv'
  BY <1>7, PostGroupsStep
<1>8. ASSUME NEW t \in Threads, PostArticles(t) PROVE IInv'
  BY <1>8, PostArticlesStep
<1>9. ASSUME NEW t \in Threads, AskHeader(t) PROVE IInv'
  BY <1>9, AskHeaderStep
<1>10. ASSUME NEW t \in Threads, ReceiveHeader(t) PROVE IInv'
  BY <1>10, ReceiveHeaderStep
<1>11. ASSUME NEW t \in Threads, WriteHeader(t) PROVE IInv'
  BY <1>11, WriteHeaderStep
<1>12. ASSUME NEW t \in Threads, CommitHeader(t) PROVE IInv'
  BY <1>12, CommitHeaderStep
<1>13. ASSUME NEW t \in Threads, Stall(t) PROVE IInv'
  BY <1>13, StallStep
<1>14. CASE Crash
  BY <1>14, CrashStep
<1>15. CASE UNCHANGED vars
  BY <1>15, StutterStep
<1>16. CASE SteadyNext
  BY <1>1, <1>2, <1>3, <1>4, <1>5, <1>6, <1>7, <1>8, <1>9, <1>10, <1>11, <1>12, <1>16
     DEF SteadyNext, User, Run
<1> QED BY <1>13, <1>14, <1>15, <1>16 DEF Next

LEMMA Invariance == Spec => []IInv
<1> QED BY InitInvariant, InvariantStep, PTL DEF Spec
-------------------------------------------------------------------------------
(***************************************************************************)
(* Whatever the commands, crashes and restarts: the objects, lists and      *)
(* commands keep the shape of their declarations, and no group's list       *)
(* refers to an article that is not stored.                                 *)
(***************************************************************************)
THEOREM TypeCorrect == Spec => []TypeOK
<1>1. IInv => TypeOK
  BY DEF IInv, DatabaseInv, Sound, ThreadsInv, AskedInv, TypeOK
<1> QED BY <1>1, Invariance, PTL

(***************************************************************************)
(* findOrCreateGroupArticle never creates a number that is stored, so it    *)
(* never finds more than one: each is stored once, by one group.  Nor do    *)
(* concurrent updates of the list of groups store a group twice.            *)
(***************************************************************************)
THEOREM NothingTwice == Spec => []StoredOnce
<1>1. IInv => UniqueArticles /\ UniqueGroups
  BY DEF IInv, DatabaseInv, Sound, StoreSound, UniqueArticles, UniqueGroups
<1>2. IInv => StoredOnce
  BY <1>1 DEF StoredOnce
<1> QED BY <1>2, Invariance, PTL

(***************************************************************************)
(* NewsGroup.articles holds exactly the group's articles, and is twice as   *)
(* long: ReaderBox and the command list each of them once.                  *)
(***************************************************************************)
THEOREM LoadedIsTwice == Spec => []LoadedTwice
<1>1. IInv => LoadedTwice
  BY DEF IInv, DatabaseInv, Sound, StoreSound, LoadedTwice
<1> QED BY <1>1, Invariance, PTL

(***************************************************************************)
(* No article gets a header that another group gave, although headers are   *)
(* written to whatever article has the number.                              *)
(***************************************************************************)
THEOREM NoForeignHeader == Spec => []HeaderFromOwnGroup
<1>1. IInv => HeaderFromOwnGroup
  BY DEF IInv, DatabaseInv, Sound, StoreSound, HeaderFromOwnGroup
<1> QED BY <1>1, Invariance, PTL

(***************************************************************************)
(* What the header command is still to ask for or to write is stored, by    *)
(* its own group, without a header: it creates nothing and replaces nothing.*)
(***************************************************************************)
THEOREM HeadersOfStored == Spec => []HeadersAreOfStored
<1>1. ASSUME IInv PROVE HeadersAreOfStored
  <2>1. ASSUME NEW t \in Threads, NEW n \in Wants(job[t])
        PROVE  NewArticle(job[t].group, n) \in ToSet(store.articles)
    <3>1. n \in Claims(job[t]) /\ job[t].kind = "heads"
      BY <2>1 DEF Claims, Wants
    <3>2. Has(store, NewArticle(job[t].group, n))
      BY <1>1, <3>1 DEF IInv, ClaimsInv, ClaimsStored, Runs
    <3> QED BY <3>2 DEF Has, ToSet
  <2> QED BY <2>1 DEF HeadersAreOfStored
<1> QED BY <1>1, Invariance, PTL

(***************************************************************************)
(* Over all refreshes, connections, crashes and restarts no header is asked *)
(* for twice.                                                               *)
(***************************************************************************)
THEOREM AskedAtMostOnce == Spec => []HeaderAskedOnce
<1>1. IInv => HeaderAskedOnce
  BY DEF IInv, AskedInv
<1> QED BY <1>1, Invariance, PTL
-------------------------------------------------------------------------------
(***************************************************************************)
(* Lost headers.  A header is awaited when a command claims its number, for *)
(* its group, and has not asked for it.                                     *)
(***************************************************************************)
AwaitedBy(t, h) == job[t].group = h[1] /\ h[2] \in Unasked(job[t])

LEMMA AwaitedBySomeone ==
    ASSUME NEW h
    PROVE  /\ Awaited(h) <=> \E t \in Threads : AwaitedBy(t, h)
           /\ Awaited(h)' <=> \E t \in Threads : job'[t].group = h[1] /\ h[2] \in Unasked(job'[t])
BY DEF Awaited, AwaitedBy, Unasked

(* A command that takes nothing on leaves what is lost lost. *)
LEMMA LostOnMove ==
    ASSUME IInv, NEW h, ~Awaited(h), NEW t \in Threads, NEW v \in Jobs,
           job' = [job EXCEPT ![t] = v],
           ~(v.group = h[1] /\ h[2] \in Unasked(v))
    PROVE  ~Awaited(h)'
<1>1. OnlyMoves(t) /\ job'[t] = v
  BY OfThread, Move
<1>2. \A u \in Threads : ~(job[u].group = h[1] /\ h[2] \in Unasked(job[u]))
  BY AwaitedBySomeone DEF AwaitedBy
<1>3. \A u \in Threads : ~(job'[u].group = h[1] /\ h[2] \in Unasked(job'[u]))
  BY <1>1, <1>2 DEF OnlyMoves
<1> QED BY <1>3, AwaitedBySomeone

LEMMA LostOnSameClaims ==
    ASSUME IInv, NEW h, ~Awaited(h), NEW t \in Threads, NEW v \in Jobs,
           job' = [job EXCEPT ![t] = v],
           v.group = job[t].group, Unasked(v) \subseteq Unasked(job[t])
    PROVE  ~Awaited(h)'
<1>1. ~(job[t].group = h[1] /\ h[2] \in Unasked(job[t]))
  BY AwaitedBySomeone DEF AwaitedBy
<1> QED BY <1>1, LostOnMove

LEMMA LostOnNothing ==
    ASSUME IInv, NEW h, ~Awaited(h), NEW t \in Threads, NEW v \in Jobs,
           job' = [job EXCEPT ![t] = v], Unasked(v) = {}
    PROVE  ~Awaited(h)'
BY LostOnMove

LEMMA LostOnList ==
    ASSUME IInv, NEW h \in Headers, IsKnown(h), ~Awaited(h), NEW t \in Threads,
           \/ ReceiveList(t) \/ WriteGroup(t) \/ WriteArticle(t)
           \/ CommitList(t) \/ CommitHeader(t) \/ ReceiveHeader(t) \/ WriteHeader(t)
    PROVE  ~Awaited(h)'
<1> DEFINE j == job[t]
<1>1. j \in Jobs /\ job \in [Threads -> Jobs]
  BY OfThread
<1>2. CASE ReceiveList(t)
  <2>1. PICK n \in 0 .. Len(j.todo), more \in BOOLEAN :
          job' = [job EXCEPT
                    ![t].stage = "writing",
                    ![t].more = more,
                    ![t].chunk = SubSeq(j.todo, 1, n),
                    ![t].todo = SubSeq(@, n + 1, Len(@))]
    BY <1>2 DEF ReceiveList
  <2> DEFINE v == WithPortion(j, more, SubSeq(j.todo, 1, n), SubSeq(j.todo, n + 1, Len(j.todo)))
  <2>2. job' = [job EXCEPT ![t] = v]
    BY <1>1, <2>1 DEF WithPortion
  <2>3. j.kind \in {"groups", "list"}
    BY <1>2 DEF ReceiveList, Runs
  <2>4. /\ v \in Jobs /\ v.kind = j.kind /\ v.group = j.group
        /\ v.newArticles = j.newArticles
    BY <1>1, <2>3, PortionOfJob
  <2> HIDE DEF v, j
  <2>5. Unasked(v) = Unasked(j)
    BY <2>3, <2>4 DEF Unasked
  <2> QED BY <2>2, <2>4, <2>5, LostOnSameClaims DEF j
<1>3. CASE WriteGroup(t) \/ WriteHeader(t)
  <2> DEFINE v == WithChunk(j, Tail(j.chunk))
  <2>1. job' = [job EXCEPT ![t] = v] /\ j.chunk # << >>
    BY <1>1, <1>3 DEF WriteGroup, WriteHeader, WithChunk
  <2>2. /\ v \in Jobs /\ v.kind = j.kind /\ v.group = j.group
        /\ v.todo = j.todo /\ v.newArticles = j.newArticles
    BY <1>1, <2>1, TailOfJob
  <2> HIDE DEF v, j
  <2>3. Unasked(v) = Unasked(j)
    BY <2>2 DEF Unasked
  <2> QED BY <2>1, <2>2, <2>3, LostOnSameClaims DEF j
<1>4. CASE WriteArticle(t) /\ IsStored(draft, j.group, Head(j.chunk))
  <2> DEFINE v == WithChunk(j, Tail(j.chunk))
  <2>1. job' = [job EXCEPT ![t] = v] /\ j.chunk # << >>
    BY <1>1, <1>4 DEF WriteArticle, WithChunk
  <2>2. /\ v \in Jobs /\ v.kind = j.kind /\ v.group = j.group
        /\ v.todo = j.todo /\ v.newArticles = j.newArticles
    BY <1>1, <2>1, TailOfJob
  <2> HIDE DEF v, j
  <2>3. Unasked(v) = Unasked(j)
    BY <2>2 DEF Unasked
  <2> QED BY <2>1, <2>2, <2>3, LostOnSameClaims DEF j
<1>5. CASE WriteArticle(t) /\ ~IsStored(draft, j.group, Head(j.chunk))
  <2> DEFINE n == Head(j.chunk)
             v == WithNew(j, Tail(j.chunk), Append(j.newArticles, n))
  <2>1. /\ job' = [job EXCEPT ![t] = v]
        /\ j.chunk # << >> /\ j.kind = "list" /\ j.stage = "writing"
    BY <1>1, <1>5 DEF WriteArticle, Runs, WithNew
  <2>2. /\ n \in Numbers /\ j.newArticles \in Seq(Numbers)
        /\ v \in Jobs /\ v.kind = "list" /\ v.group = j.group
        /\ v.newArticles = Append(j.newArticles, n)
    BY <1>1, <2>1, NewArticleOfJob
  <2>3. draft \in Stores /\ NoDuplicates(draft) /\ Extends(draft, store)
    BY DEF IInv, DatabaseInv, Sound, StoreSound, DraftOfStore
  <2>4. ~IsStored(draft, j.group, n)
    BY <1>5
  <2> HIDE DEF n, v, j
  <2>5. n # h[2]
    <3>1. \E k \in DOMAIN store.articles : store.articles[k].id = h[2]
      BY DEF IsKnown, PlacesOf
    <3>2. \E k \in DOMAIN draft.articles : draft.articles[k].id = h[2]
      BY <2>3, <3>1 DEF Extends
    <3> QED BY <2>3, <2>4, <3>2, FindsWhatIsThere
  <2>6. Unasked(v) = Unasked(j) \union {n}
    <3>1. ToSet(v.newArticles) = ToSet(j.newArticles) \union {n}
      BY <2>2, SetOfAppend
    <3> QED BY <2>1, <2>2, <3>1 DEF Unasked
  <2>7. ~(j.group = h[1] /\ h[2] \in Unasked(j))
    BY AwaitedBySomeone DEF AwaitedBy, j
  <2> QED BY <2>1, <2>2, <2>5, <2>6, <2>7, LostOnMove
<1>6. CASE CommitList(t) \/ CommitHeader(t) \/ ReceiveHeader(t)
  <2>1. PICK st \in {"posting", "reading", "writing"} :
          job' = [job EXCEPT ![t] = WithStage(j, st)]
    BY <1>1, <1>6 DEF CommitList, CommitHeader, ReceiveHeader, WithStage
  <2> DEFINE v == WithStage(j, st)
  <2>2. /\ v \in Jobs /\ v.kind = j.kind /\ v.group = j.group
        /\ v.todo = j.todo /\ v.newArticles = j.newArticles
    BY <1>1, StageOfJob
  <2>3. job' = [job EXCEPT ![t] = v]
    BY <2>1
  <2> HIDE DEF v, j
  <2>4. Unasked(v) = Unasked(j)
    BY <2>2 DEF Unasked
  <2> QED BY <2>2, <2>3, <2>4, LostOnSameClaims DEF j
<1> HIDE DEF j
<1> QED BY <1>2, <1>3, <1>4, <1>5, <1>6

LEMMA LostOnPost ==
    ASSUME IInv, NEW h, ~Awaited(h), NEW t \in Threads, PostArticles(t)
    PROVE  ~Awaited(h)'
<1> DEFINE v == Resumed(job[t])
           w == NewJob("heads", job[t].group, job[t].newArticles)
<1>1. PICK u \in IdleThreads : job' = [job EXCEPT ![t] = v, ![u] = w]
  BY DEF PostArticles
<1>2. job[t].kind = "list" /\ job[t] \in Jobs /\ u \in Threads /\ u # t
  BY <1>1, OfThread, IdleTyped DEF PostArticles, Runs, IdleThreads
<1>3. Unasked(v) = {}
  BY <1>2, ResumedClaimsNothing
<1>4. w.group = job[t].group /\ Unasked(w) = Unasked(job[t])
  BY <1>2, EmptyIsDistinct DEF NewJob, Unasked
<1> HIDE DEF v, w
<1>5. /\ job'[t] = v /\ job'[u] = w
      /\ \A x \in Threads : x # t /\ x # u => job'[x] = job[x]
  BY <1>1, <1>2, OfThread
<1>6. \A x \in Threads : ~(job[x].group = h[1] /\ h[2] \in Unasked(job[x]))
  BY AwaitedBySomeone DEF AwaitedBy
<1>7. \A x \in Threads : ~(job'[x].group = h[1] /\ h[2] \in Unasked(job'[x]))
  BY <1>3, <1>4, <1>5, <1>6
<1> QED BY <1>7, AwaitedBySomeone

LEMMA LostOnAsk ==
    ASSUME IInv, NEW h \in Headers, ~Awaited(h), NEW t \in Threads, AskHeader(t)
    PROVE  ~Awaited(h)' /\ asked'[h] = asked[h]
<1> DEFINE j == job[t]
<1>1. j \in Jobs /\ j.kind = "heads"
  BY OfThread DEF AskHeader, Runs
<1>2. CASE j.todo = << >>
  BY <1>2, IdleClaimsNothing, LostOnNothing DEF AskHeader
<1>3. CASE j.todo # << >>
  <2> DEFINE n == Head(j.todo)
             v == WithAsked(j, << n >>, Tail(j.todo))
  <2>1. /\ job' = [job EXCEPT ![t] = v]
        /\ asked' = [asked EXCEPT ![<< j.group, n >>] = @ + 1]
    BY <1>3, OfThread DEF AskHeader, WithAsked
  <2>2. /\ v \in Jobs /\ v.kind = "heads" /\ v.group = j.group
        /\ v.todo = Tail(j.todo) /\ v.newArticles = j.newArticles
    BY <1>1, <1>3, AskedOfJob
  <2>3. n \in ToSet(j.todo) /\ ToSet(Tail(j.todo)) \subseteq ToSet(j.todo)
    <3>1. j.todo \in Seq(Numbers)
      BY <1>1, JobOfKind, JobFields
    <3> QED BY <1>3, <3>1, SetOfTail
  <2> HIDE DEF n, v, j
  <2>4. Unasked(v) \subseteq Unasked(j) /\ n \in Unasked(j)
    BY <1>1, <2>2, <2>3 DEF Unasked
  <2>5. ~Awaited(h)'
    BY <2>1, <2>2, <2>4, LostOnSameClaims DEF j
  <2>6. h # << j.group, n >>
    <3>1. ~(j.group = h[1] /\ h[2] \in Unasked(j))
      BY AwaitedBySomeone DEF AwaitedBy, j
    <3> QED BY <2>4, <3>1
  <2>7. asked'[h] = asked[h]
    BY <2>1, <2>6 DEF IInv, AskedInv
  <2> QED BY <2>5, <2>7
<1> QED BY <1>2, <1>3

(***************************************************************************)
(* A header that was lost, with its connection or with the application, is  *)
(* not asked for by any later refresh: no command takes on a stored article *)
(* that no command has as its own.                                          *)
(***************************************************************************)
THEOREM LostIsLost == Spec => LostHeaderStaysLost
<1>1. ASSUME IInv, [Next]_vars
      PROVE  [\A h \in Headers :
                IsKnown(h) /\ ~Awaited(h) => ~Awaited(h)' /\ asked'[h] = asked[h]]_vars
  <2>1. ASSUME NEW h \in Headers, IsKnown(h), ~Awaited(h), Next
        PROVE  ~Awaited(h)' /\ asked'[h] = asked[h]
    <3>1. ASSUME NEW t \in Threads, UpdateGroups(t) PROVE ~Awaited(h)' /\ asked'[h] = asked[h]
      <4> DEFINE v == NewJob("groups", None, GroupList)
      <4>1. v \in Jobs /\ Unasked(v) = {}
        BY LibraryAssumption, NewListClaimsNothing DEF LibraryAssumption
      <4>2. job' = [job EXCEPT ![t] = v] /\ asked' = asked
        BY <3>1 DEF UpdateGroups
      <4> HIDE DEF v
      <4> QED BY <1>1, <2>1, <4>1, <4>2, LostOnNothing
    <3>2. ASSUME NEW t \in Threads, NEW g \in Groups, OnRefresh(t, g)
          PROVE  ~Awaited(h)' /\ asked'[h] = asked[h]
      <4> DEFINE v == NewJob("list", g, Listing[g])
      <4>1. v \in Jobs /\ Unasked(v) = {}
        BY LibraryAssumption, NewListClaimsNothing DEF LibraryAssumption
      <4>2. job' = [job EXCEPT ![t] = v] /\ asked' = asked
        BY <3>2 DEF OnRefresh
      <4> HIDE DEF v
      <4> QED BY <1>1, <2>1, <4>1, <4>2, LostOnNothing
    <3>3. ASSUME NEW t \in Threads, PostGroups(t) PROVE ~Awaited(h)' /\ asked'[h] = asked[h]
      <4> DEFINE v == Resumed(job[t])
      <4>1. v \in Jobs /\ Unasked(v) = {}
        BY <1>1, <3>3, OfThread, ResumedClaimsNothing DEF PostGroups, Runs
      <4>2. job' = [job EXCEPT ![t] = v] /\ asked' = asked
        BY <3>3 DEF PostGroups
      <4> HIDE DEF v
      <4> QED BY <1>1, <2>1, <4>1, <4>2, LostOnNothing
    <3>4. ASSUME NEW t \in Threads, AskHeader(t) PROVE ~Awaited(h)' /\ asked'[h] = asked[h]
      BY <1>1, <2>1, <3>4, LostOnAsk
    <3>5. ASSUME NEW t \in Threads, PostArticles(t) PROVE ~Awaited(h)' /\ asked'[h] = asked[h]
      <4>1. asked' = asked
        BY <3>5 DEF PostArticles
      <4> QED BY <1>1, <2>1, <3>5, <4>1, LostOnPost
    <3>6. ASSUME NEW t \in Threads, Stall(t) PROVE ~Awaited(h)' /\ asked'[h] = asked[h]
      <4>1. job' = [job EXCEPT ![t] = Idle] /\ asked' = asked
        BY <3>6 DEF Stall
      <4> QED BY <1>1, <2>1, <4>1, IdleClaimsNothing, LostOnNothing
    <3>7. ASSUME Crash PROVE ~Awaited(h)' /\ asked'[h] = asked[h]
      <4>1. asked' = asked /\ \A t \in Threads : job'[t] = Idle
        BY <3>7 DEF Crash
      <4> QED BY <4>1, IdleClaimsNothing, AwaitedBySomeone
    <3>8. ASSUME NEW t \in Threads,
                 \/ ReceiveList(t) \/ WriteGroup(t) \/ WriteArticle(t)
                 \/ CommitList(t) \/ CommitHeader(t) \/ ReceiveHeader(t) \/ WriteHeader(t)
          PROVE  ~Awaited(h)' /\ asked'[h] = asked[h]
      <4>1. asked' = asked
        BY <3>8 DEF ReceiveList, WriteGroup, WriteArticle, CommitList, CommitHeader,
                    ReceiveHeader, WriteHeader
      <4> QED BY <1>1, <2>1, <3>8, <4>1, LostOnList, SMTT(60)
    <3>9. CASE SteadyNext
      BY <3>1, <3>2, <3>3, <3>4, <3>5, <3>8, <3>9 DEF SteadyNext, User, Run
    <3> QED BY <2>1, <3>6, <3>7, <3>9 DEF Next
  <2> QED BY <1>1, <2>1
<1> QED BY <1>1, Invariance, PTL DEF Spec, LostHeaderStaysLost
-------------------------------------------------------------------------------
(***************************************************************************)
(* Refinement of Catalogue.  Besides IInv it needs to know by how little    *)
(* the draft differs from the store: not at all in its articles, by         *)
(* articles without header of one group, or by one header.                  *)
(***************************************************************************)
(* The draft has more articles, all of group g and without header. *)
OnlyAdds(g) ==
    \A k \in DOMAIN draft.articles :
        IF k \in DOMAIN store.articles
        THEN draft.articles[k] = store.articles[k]
        ELSE draft.articles[k].group = g /\ draft.articles[k].subject = NoSubject

(* The draft has one more header. *)
OnlyHeads ==
    /\ DOMAIN draft.articles = DOMAIN store.articles
    /\ \E p \in DOMAIN store.articles :
         /\ store.articles[p].subject = NoSubject
         /\ draft.articles[p].subject # NoSubject
         /\ \A k \in DOMAIN store.articles : k # p => draft.articles[k] = store.articles[k]

DraftBy(j) ==
    /\ j.kind = "groups" => draft.articles = store.articles
    /\ j.kind = "list" => OnlyAdds(j.group)
    /\ j.kind = "heads" =>
         draft.articles = store.articles \/ (j.chunk = << >> /\ OnlyHeads)

DraftInv == \A t \in Threads : writer = t => DraftBy(job[t])

(* The writer, if there is one, does nothing. *)
LEMMA SameDraft ==
    ASSUME DraftInv, UNCHANGED << store, draft, writer >>,
           \A t \in Threads : writer = t => job'[t] = job[t]
    PROVE  DraftInv'
BY DEF DraftInv, DraftBy, OnlyAdds, OnlyHeads

(* Nobody writes yet, or any more. *)
LEMMA FirstDraft ==
    ASSUME NEW t \in Threads, draft' = store', writer' \in {t, None}
    PROVE  DraftInv'
<1>1. ASSUME NEW j PROVE DraftBy(j)'
  BY DEF DraftBy, OnlyAdds
<1> QED BY <1>1 DEF DraftInv

LEMMA DraftOfWriter ==
    ASSUME IInv, DraftInv, NEW t \in Threads, job[t].stage = "writing"
    PROVE  writer = t /\ DraftBy(job[t])
BY OfThread DEF DraftInv

LEMMA MoveOther ==
    ASSUME IInv, DraftInv, NEW t \in Threads, job[t].stage # "writing", NEW v,
           job' = [job EXCEPT ![t] = v], UNCHANGED << store, draft, writer >>
    PROVE  DraftInv'
<1>1. writer # t
  BY OfThread
<1>2. \A u \in Threads : writer = u => job'[u] = job[u]
  BY <1>1, OfThread
<1> QED BY <1>2, SameDraft

LEMMA DraftOfGroups ==
    ASSUME IInv, DraftInv, NEW t \in Threads, WriteGroup(t)
    PROVE  DraftInv'
<1> DEFINE v == WithChunk(job[t], Tail(job[t].chunk))
<1>1. /\ job[t].kind = "groups" /\ job[t].stage = "writing" /\ job[t].chunk # << >>
      /\ draft' = FindOrCreateGroup(draft, Head(job[t].chunk))
      /\ store' = store /\ writer' = writer
  BY DEF WriteGroup, Runs
<1>2. job' = [job EXCEPT ![t] = v]
  BY OfThread DEF WriteGroup, WithChunk
<1>3. v.kind = "groups"
  BY <1>1, OfThread, TailOfJob
<1> HIDE DEF v
<1>4. job'[t].kind = "groups"
  BY <1>2, <1>3, OfThread
<1>5. writer = t /\ draft.articles = store.articles
  BY <1>1, DraftOfWriter DEF DraftBy
<1>6. Head(job[t].chunk) \in Groups
  <2>1. job[t].chunk \in Seq(Groups)
    BY <1>1, OfThread, JobOfKind, JobFields
  <2> QED BY <1>1, <2>1
<1>7. draft'.articles = draft.articles
  BY <1>1, <1>6, GroupKeepsSound DEF IInv, DatabaseInv
<1>8. DraftBy(job[t])'
  BY <1>1, <1>4, <1>5, <1>7 DEF DraftBy
<1> QED BY <1>1, <1>5, <1>8 DEF DraftInv

LEMMA DraftOfFound ==
    ASSUME IInv, DraftInv, NEW t \in Threads, WriteArticle(t),
           IsStored(draft, job[t].group, Head(job[t].chunk))
    PROVE  DraftInv'
<1> DEFINE v == WithChunk(job[t], Tail(job[t].chunk))
<1>1. /\ job[t].kind = "list" /\ job[t].stage = "writing" /\ job[t].chunk # << >>
      /\ store' = store /\ draft' = draft /\ writer' = writer
  BY DEF WriteArticle, Runs
<1>2. job' = [job EXCEPT ![t] = v]
  BY OfThread DEF WriteArticle, WithChunk
<1>3. v.kind = "list" /\ v.group = job[t].group
  BY <1>1, OfThread, TailOfJob
<1> HIDE DEF v
<1>4. job'[t].kind = "list" /\ job'[t].group = job[t].group
  BY <1>2, <1>3, OfThread
<1>5. writer = t /\ OnlyAdds(job[t].group)
  BY <1>1, DraftOfWriter DEF DraftBy
<1>6. OnlyAdds(job[t].group)'
  BY <1>1, <1>4, <1>5 DEF OnlyAdds
<1>7. DraftBy(job[t])'
  BY <1>4, <1>6 DEF DraftBy
<1> QED BY <1>1, <1>5, <1>7 DEF DraftInv

LEMMA DraftOfNew ==
    ASSUME IInv, DraftInv, NEW t \in Threads, WriteArticle(t),
           ~IsStored(draft, job[t].group, Head(job[t].chunk))
    PROVE  DraftInv'
<1> DEFINE g == job[t].group
           n == Head(job[t].chunk)
           v == WithNew(job[t], Tail(job[t].chunk), Append(job[t].newArticles, n))
           p == Len(draft.articles) + 1
<1>1. /\ job[t].kind = "list" /\ job[t].stage = "writing" /\ job[t].chunk # << >>
      /\ store' = store /\ writer' = writer /\ draft' = Added(draft, g, n)
  BY DEF WriteArticle, Runs, Added
<1>2. job' = [job EXCEPT ![t] = v]
  BY OfThread DEF WriteArticle, WithNew
<1>3. g \in Groups /\ n \in Numbers /\ v.kind = "list" /\ v.group = g
  BY <1>1, OfThread, NewArticleOfJob
<1> HIDE DEF v
<1>4. job'[t].kind = "list" /\ job'[t].group = g
  BY <1>2, <1>3, OfThread
<1>5. writer = t /\ OnlyAdds(g)
  BY <1>1, DraftOfWriter DEF DraftBy
<1> HIDE DEF g, n
<1>6. draft \in Stores /\ draft.articles \in Seq(Articles) /\ Extends(draft, store)
  BY DEF IInv, DatabaseInv, DraftOfStore, Sound, Stores
<1> DEFINE a == NewArticle(g, n)
<1>7. draft'.articles = Append(draft.articles, a)
  BY <1>1, <1>3, <1>6, AddedFields
<1>8. a.group = g /\ a.subject = NoSubject
  BY DEF NewArticle
<1> HIDE DEF a
<1>9. /\ DOMAIN draft'.articles = DOMAIN draft.articles \union {p}
      /\ p \notin DOMAIN draft.articles
      /\ \A k \in DOMAIN draft.articles : draft'.articles[k] = draft.articles[k]
      /\ draft'.articles[p] = a
  <2>1. /\ Len(draft.articles) \in Nat
        /\ DOMAIN draft.articles = 1 .. Len(draft.articles)
        /\ DOMAIN Append(draft.articles, a) = 1 .. p
        /\ \A k \in 1 .. Len(draft.articles) : Append(draft.articles, a)[k] = draft.articles[k]
        /\ Append(draft.articles, a)[p] = a
    BY <1>6
  <2> QED BY <1>7, <2>1
<1>10. p \notin DOMAIN store.articles
  BY <1>6, <1>9 DEF Extends
<1>11. \A k \in DOMAIN draft'.articles :
         IF k \in DOMAIN store.articles
         THEN draft'.articles[k] = store.articles[k]
         ELSE draft'.articles[k].group = g /\ draft'.articles[k].subject = NoSubject
  <2> SUFFICES ASSUME NEW k \in DOMAIN draft'.articles
               PROVE  IF k \in DOMAIN store.articles
                      THEN draft'.articles[k] = store.articles[k]
                      ELSE draft'.articles[k].group = g /\ draft'.articles[k].subject = NoSubject
    OBVIOUS
  <2>1. CASE k = p
    BY <1>8, <1>9, <1>10, <2>1
  <2>2. CASE k \in DOMAIN draft.articles
    BY <1>5, <1>9, <2>2 DEF OnlyAdds
  <2> QED BY <1>9, <2>1, <2>2
<1>12. OnlyAdds(job[t].group)'
  BY <1>1, <1>4, <1>11 DEF OnlyAdds
<1>13. DraftBy(job[t])'
  BY <1>4, <1>12 DEF DraftBy
<1> QED BY <1>1, <1>5, <1>13 DEF DraftInv

(* A header that is written to its own article changes nothing else. *)
LEMMA HeaderChanges ==
    ASSUME NEW s, Sound(s), NEW g \in Groups, NEW n \in Numbers, Has(s, NewArticle(g, n))
    PROVE  LET u == WithHeader(s, g, n)
           IN  /\ DOMAIN u.articles = DOMAIN s.articles
               /\ \E p \in DOMAIN s.articles :
                    /\ s.articles[p].subject = NoSubject
                    /\ u.articles[p].subject # NoSubject
                    /\ \A k \in DOMAIN s.articles : k # p => u.articles[k] = s.articles[k]
<1>1. s \in Stores /\ NoDuplicates(s)
  BY DEF Sound, StoreSound
<1>2. PICK p \in DOMAIN s.articles : s.articles[p] = NewArticle(g, n)
  BY DEF Has
<1>3. s.articles[p].id = n /\ s.articles[p].subject = NoSubject
  BY <1>2 DEF NewArticle
<1>4. IsStored(s, g, n) /\ Places(s, n) = {p}
  BY <1>1, <1>3, FindsWhatIsThere
<1> DEFINE a == [s.articles[p] EXCEPT !.subject = << g, n >>]
           as == [s.articles EXCEPT ![p] = a]
           u == [s EXCEPT !.articles = as]
<1>5. u = WithHeader(s, g, n)
  <2>1. (CHOOSE k \in Places(s, n) : TRUE) = p
    BY <1>4
  <2>2. FindOrCreateGroupArticle(s, g, n) = s
    BY <1>4 DEF FindOrCreateGroupArticle
  <2> QED BY <1>4, <2>1, <2>2 DEF WithHeader
<1>6. s.articles \in Seq(Articles) /\ s.articles[p] \in Articles
  BY <1>1 DEF Stores
<1>7. a.subject # NoSubject
  <2>1. a.subject = << g, n >>
    BY <1>6 DEF Articles
  <2>2. << g, n >> # << >>
    OBVIOUS
  <2> QED BY <2>1, <2>2 DEF NoSubject
<1>8. a \in Articles
  BY <1>6 DEF Articles, Headers
<1> HIDE DEF a
<1>9. /\ as \in Seq(Articles) /\ DOMAIN as = DOMAIN s.articles /\ as[p] = a
      /\ \A k \in DOMAIN s.articles : k # p => as[k] = s.articles[k]
  BY <1>6, <1>8
<1> HIDE DEF as
<1>10. u.articles = as
  BY <1>1, <1>9, ArticlesUpdate DEF Stores
<1> HIDE DEF u
<1>11. /\ DOMAIN u.articles = DOMAIN s.articles
       /\ u.articles[p].subject # NoSubject
       /\ \A k \in DOMAIN s.articles : k # p => u.articles[k] = s.articles[k]
  BY <1>7, <1>9, <1>10
<1> QED BY <1>3, <1>5, <1>11

LEMMA DraftOfHeader ==
    ASSUME IInv, DraftInv, NEW t \in Threads, WriteHeader(t)
    PROVE  DraftInv'
<1> DEFINE g == job[t].group
           n == Head(job[t].chunk)
           v == WithChunk(job[t], Tail(job[t].chunk))
<1>1. /\ job[t].kind = "heads" /\ job[t].stage = "writing" /\ job[t].chunk # << >>
      /\ store' = store /\ writer' = writer /\ draft' = WithHeader(draft, g, n)
  BY DEF WriteHeader, Runs
<1>2. job' = [job EXCEPT ![t] = v]
  BY OfThread DEF WriteHeader, WithChunk
<1>3. v.kind = "heads" /\ v.chunk = Tail(job[t].chunk)
  BY <1>1, OfThread, TailOfJob
<1> HIDE DEF v
<1>4. g \in Groups /\ job[t].chunk \in Seq(Numbers) /\ Len(job[t].chunk) = 1
  BY <1>1, OfThread, JobOfKind, JobFields DEF JobSound
<1>5. n \in Numbers /\ n \in ToSet(job[t].chunk) /\ v.chunk = << >>
  <2>1. n \in Numbers /\ n \in ToSet(job[t].chunk)
    BY <1>1, <1>4, SetOfTail
  <2> QED BY <1>3, <1>4, <2>1, TailOfOne
<1> HIDE DEF n
<1>6. job'[t].kind = "heads" /\ job'[t].chunk = << >>
  BY <1>2, <1>3, <1>5, OfThread
<1>7. writer = t /\ draft.articles = store.articles
  BY <1>1, DraftOfWriter DEF DraftBy
<1>8. n \in Claims(job[t])
  BY <1>1, <1>5 DEF Claims, Wants
<1>9. Has(draft, NewArticle(g, n))
  BY <1>8 DEF IInv, ClaimsInv, ClaimsStored
<1>10. /\ DOMAIN draft'.articles = DOMAIN draft.articles
       /\ \E p \in DOMAIN draft.articles :
            /\ draft.articles[p].subject = NoSubject
            /\ draft'.articles[p].subject # NoSubject
            /\ \A k \in DOMAIN draft.articles : k # p => draft'.articles[k] = draft.articles[k]
  BY <1>1, <1>4, <1>5, <1>9, HeaderChanges DEF IInv, DatabaseInv
<1>11. OnlyHeads'
  BY <1>1, <1>7, <1>10 DEF OnlyHeads
<1>12. DraftBy(job[t])'
  BY <1>6, <1>11 DEF DraftBy
<1> QED BY <1>1, <1>7, <1>12 DEF DraftInv

LEMMA DraftStep == IInv /\ DraftInv /\ [Next]_vars => DraftInv'
<1> SUFFICES ASSUME IInv, DraftInv, [Next]_vars PROVE DraftInv'
  OBVIOUS
<1> USE DEF Runs
<1>1. ASSUME NEW t \in Threads, UpdateGroups(t) PROVE DraftInv'
  <2>1. job[t].stage # "writing"
    BY <1>1, IdleTyped DEF UpdateGroups
  <2> QED BY <1>1, <2>1, MoveOther DEF UpdateGroups
<1>2. ASSUME NEW t \in Threads, NEW g \in Groups, OnRefresh(t, g) PROVE DraftInv'
  <2>1. job[t].stage # "writing"
    BY <1>2, IdleTyped DEF OnRefresh
  <2> QED BY <1>2, <2>1, MoveOther DEF OnRefresh
<1>3. ASSUME NEW t \in Threads, ReceiveList(t) \/ ReceiveHeader(t) PROVE DraftInv'
  <2>1. draft' = store' /\ writer' = t
    BY <1>3 DEF ReceiveList, ReceiveHeader, BeginWrite
  <2> QED BY <2>1, FirstDraft, SMTT(60)
<1>4. ASSUME NEW t \in Threads, CommitList(t) \/ CommitHeader(t) PROVE DraftInv'
  <2>1. draft' = store' /\ writer' = None
    BY <1>4 DEF CommitList, CommitHeader, CommitWrite
  <2> QED BY <2>1, FirstDraft
<1>5. ASSUME NEW t \in Threads, PostGroups(t) PROVE DraftInv'
  <2>1. job' = [job EXCEPT ![t] = Resumed(job[t])]
    BY <1>5 DEF PostGroups
  <2> QED BY <1>5, <2>1, MoveOther DEF PostGroups
<1>6. ASSUME NEW t \in Threads, PostArticles(t) PROVE DraftInv'
  <2>1. PICK u \in IdleThreads :
          job' = [job EXCEPT ![t] = Resumed(@),
                             ![u] = NewJob("heads", job[t].group, job[t].newArticles)]
    BY <1>6 DEF PostArticles
  <2>2. /\ u \in Threads /\ job[u].stage # "writing" /\ job[t].stage # "writing"
        /\ UNCHANGED << store, draft, writer >>
    BY <1>6, <2>1, IdleTyped DEF PostArticles, IdleThreads
  <2>3. writer # t /\ writer # u
    BY <2>2, OfThread
  <2>4. \A w \in Threads : w # t /\ w # u => job'[w] = job[w]
    BY <2>1, <2>2, OfThread
  <2> QED BY <2>2, <2>3, <2>4, SameDraft
<1>7. ASSUME NEW t \in Threads, AskHeader(t) PROVE DraftInv'
  <2>1. job[t].stage # "writing" /\ UNCHANGED << store, draft, writer >>
    BY <1>7 DEF AskHeader
  <2>2. writer # t /\ \A w \in Threads : w # t => job'[w] = job[w]
    BY <1>7, <2>1, OfThread DEF AskHeader
  <2> QED BY <2>1, <2>2, SameDraft
<1>8. ASSUME NEW t \in Threads, WriteGroup(t) \/ WriteArticle(t) \/ WriteHeader(t) PROVE DraftInv'
  BY <1>8, DraftOfGroups, DraftOfFound, DraftOfNew, DraftOfHeader
<1>9. ASSUME NEW t \in Threads, Stall(t) PROVE DraftInv'
  BY <1>9, MoveOther DEF Stall
<1>10. CASE Crash
  BY <1>10, NobodyOnNone DEF Crash, DraftInv
<1>11. CASE UNCHANGED vars
  BY <1>11, SameDraft DEF vars
<1>12. CASE SteadyNext
  BY <1>1, <1>2, <1>3, <1>4, <1>5, <1>6, <1>7, <1>8, <1>12 DEF SteadyNext, User, Run
<1> QED BY <1>9, <1>10, <1>11, <1>12 DEF Next

-------------------------------------------------------------------------------
(* What a Catalogue sees of a database. *)
KnownIn(s) ==
    [n \in {a.id : a \in ToSet(s.articles)} |->
        LET a == CHOOSE a \in ToSet(s.articles) : a.id = n
        IN  [group |-> a.group, headed |-> a.subject # NoSubject]]

Seen(a) == [group |-> a.group, headed |-> a.subject # NoSubject]

LEMMA KnownIs ==
    ASSUME NEW s, Sound(s)
    PROVE  /\ KnownIn(s) = [n \in DOMAIN KnownIn(s) |-> KnownIn(s)[n]]
           /\ \A n : n \in DOMAIN KnownIn(s) <=> \E k \in DOMAIN s.articles : s.articles[k].id = n
           /\ \A k \in DOMAIN s.articles :
                /\ s.articles[k].id \in DOMAIN KnownIn(s) /\ s.articles[k].id \in Numbers
                /\ KnownIn(s)[s.articles[k].id] = Seen(s.articles[k])
<1>1. s.articles \in Seq(Articles) /\ NoDuplicates(s)
  BY DEF Sound, StoreSound, Stores
<1>2. ToSet(s.articles) = {s.articles[k] : k \in DOMAIN s.articles}
  BY DEF ToSet
<1>3. KnownIn(s) = [n \in DOMAIN KnownIn(s) |-> KnownIn(s)[n]]
  BY DEF KnownIn
<1>4. \A n : n \in DOMAIN KnownIn(s) <=> \E k \in DOMAIN s.articles : s.articles[k].id = n
  BY <1>2 DEF KnownIn
<1>5. ASSUME NEW k \in DOMAIN s.articles
      PROVE  /\ s.articles[k].id \in DOMAIN KnownIn(s) /\ s.articles[k].id \in Numbers
             /\ KnownIn(s)[s.articles[k].id] = Seen(s.articles[k])
  <2> DEFINE n == s.articles[k].id
             c == CHOOSE a \in ToSet(s.articles) : a.id = n
  <2>1. n \in DOMAIN KnownIn(s) /\ s.articles[k] \in ToSet(s.articles)
    BY <1>2, <1>4
  <2>2. c \in ToSet(s.articles) /\ c.id = n
    BY <2>1
  <2>3. c = s.articles[k]
    <3>1. PICK i \in DOMAIN s.articles : c = s.articles[i]
      BY <1>2, <2>2
    <3> QED BY <1>1, <2>2, <3>1 DEF NoDuplicates
  <2>4. KnownIn(s)[n] = [group |-> c.group, headed |-> c.subject # NoSubject]
    BY <2>1 DEF KnownIn
  <2>5. s.articles[k] \in Articles
    BY <1>1
  <2> QED BY <2>1, <2>3, <2>4, <2>5 DEF Seen, Articles
<1> QED BY <1>3, <1>4, <1>5

LEMMA KnownOfStore == Known = KnownIn(store) /\ Known' = KnownIn(store')
BY DEF Known, KnownIn

(* A portion of a list is committed. *)
LEMMA CommitAdds ==
    ASSUME IInv, NEW g \in Groups, OnlyAdds(g), store' = draft
    PROVE  AsCatalogue!Add
<1> DEFINE old == KnownIn(store)
           late == {k \in DOMAIN draft.articles : k \notin DOMAIN store.articles}
           ids == {draft.articles[k].id : k \in late}
<1>1. Sound(store) /\ Sound(draft) /\ NoDuplicates(draft) /\ Extends(draft, store)
  BY DEF IInv, DatabaseInv, DraftOfStore, Sound, StoreSound
<1>2. Known = old /\ Known' = KnownIn(draft)
  BY KnownOfStore
<1>3. \A k \in DOMAIN store.articles : k \in DOMAIN draft.articles /\ draft.articles[k] = store.articles[k]
  BY <1>1 DEF Extends, OnlyAdds
<1>4. \A k \in late : draft.articles[k].group = g /\ draft.articles[k].subject = NoSubject
  BY DEF OnlyAdds
<1>5. ids \subseteq Numbers \ DOMAIN old
  <2> SUFFICES ASSUME NEW k \in late
               PROVE  draft.articles[k].id \in Numbers /\ draft.articles[k].id \notin DOMAIN old
    OBVIOUS
  <2>1. draft.articles[k].id \in Numbers
    BY <1>1, KnownIs
  <2>2. ASSUME NEW i \in DOMAIN store.articles PROVE store.articles[i].id # draft.articles[k].id
    BY <1>1, <1>3 DEF NoDuplicates
  <2> QED BY <1>1, <2>1, <2>2, KnownIs
<1>6. DOMAIN KnownIn(draft) = DOMAIN old \union ids
  <2>1. \A n : n \in DOMAIN KnownIn(draft) <=> n \in DOMAIN old \/ n \in ids
    BY <1>1, <1>3, KnownIs
  <2> QED BY <2>1
<1>7. \A n \in DOMAIN old : KnownIn(draft)[n] = old[n]
  <2> SUFFICES ASSUME NEW n \in DOMAIN old PROVE KnownIn(draft)[n] = old[n]
    OBVIOUS
  <2>1. PICK k \in DOMAIN store.articles : store.articles[k].id = n
    BY <1>1, KnownIs
  <2> QED BY <1>1, <1>3, <2>1, KnownIs
<1>8. \A n \in ids : KnownIn(draft)[n] = [group |-> g, headed |-> FALSE]
  <2> SUFFICES ASSUME NEW k \in late
               PROVE  KnownIn(draft)[draft.articles[k].id] = [group |-> g, headed |-> FALSE]
    OBVIOUS
  <2>1. KnownIn(draft)[draft.articles[k].id] = Seen(draft.articles[k])
    BY <1>1, KnownIs
  <2>2. (draft.articles[k].subject # NoSubject) = FALSE
    BY <1>4
  <2> QED BY <1>4, <2>1, <2>2 DEF Seen
<1>9. KnownIn(draft) = [n \in DOMAIN KnownIn(draft) |-> KnownIn(draft)[n]]
  BY <1>1, KnownIs
<1> HIDE DEF old, ids
<1>10. KnownIn(draft) = [n \in DOMAIN old \union ids |->
                           IF n \in ids THEN [group |-> g, headed |-> FALSE] ELSE old[n]]
  BY <1>5, <1>6, <1>7, <1>8, <1>9
<1>11. ids \in SUBSET (Numbers \ DOMAIN Known)
  BY <1>2, <1>5
<1>12. Known' = [n \in DOMAIN Known \union ids |->
                    IF n \in ids THEN [group |-> g, headed |-> FALSE] ELSE Known[n]]
  BY <1>2, <1>10
<1>13. \E group \in Groups : \E new \in SUBSET (Numbers \ DOMAIN Known) :
         Known' = [n \in DOMAIN Known \union new |->
                      IF n \in new THEN [group |-> group, headed |-> FALSE] ELSE Known[n]]
  BY <1>11, <1>12
<1> QED BY <1>13 DEF AsCatalogue!Add

(* One field of what is known of an article. *)
LEMMA HeadedUpdate ==
    ASSUME NEW G, NEW B, NEW a \in [group : G, headed : B], NEW e \in B
    PROVE  [a EXCEPT !.headed = e] = [group |-> a.group, headed |-> e]
OBVIOUS

LEMMA HeadedTrue ==
    ASSUME NEW G, NEW a \in [group : G, headed : BOOLEAN]
    PROVE  [a EXCEPT !.headed = TRUE] = [group |-> a.group, headed |-> TRUE]
<1> DEFINE B == BOOLEAN
           e == TRUE
<1>1. a \in [group : G, headed : B] /\ e \in B
  OBVIOUS
<1> HIDE DEF B, e
<1>2. [a EXCEPT !.headed = e] = [group |-> a.group, headed |-> e]
  BY <1>1, HeadedUpdate
<1> QED BY <1>2 DEF e

(* A header is committed. *)
LEMMA CommitHeads ==
    ASSUME IInv, OnlyHeads, store' = draft
    PROVE  AsCatalogue!AddHeader
<1> DEFINE old == KnownIn(store)
           s == store.articles
           d == draft.articles
<1>1. Sound(store) /\ Sound(draft) /\ Extends(draft, store) /\ NoDuplicates(store)
  BY DEF IInv, DatabaseInv, DraftOfStore, Sound, StoreSound
<1>2. Known = old /\ Known' = KnownIn(draft)
  BY KnownOfStore
<1>3. PICK p \in DOMAIN s :
        /\ s[p].subject = NoSubject /\ d[p].subject # NoSubject
        /\ \A k \in DOMAIN s : k # p => d[k] = s[k]
  BY DEF OnlyHeads
<1>4. DOMAIN d = DOMAIN s /\ \A k \in DOMAIN s : d[k].id = s[k].id /\ d[k].group = s[k].group
  BY <1>1 DEF OnlyHeads, Extends
<1> DEFINE n == s[p].id
<1>5. n \in DOMAIN old /\ old[n] = Seen(s[p]) /\ KnownIn(draft)[n] = Seen(d[p])
  <2>1. n \in DOMAIN old /\ old[n] = Seen(s[p])
    BY <1>1, KnownIs
  <2>2. KnownIn(draft)[d[p].id] = Seen(d[p])
    <3>1. p \in DOMAIN draft.articles
      BY <1>4
    <3> QED BY <1>1, <3>1, KnownIs
  <2>3. d[p].id = n
    BY <1>4
  <2> QED BY <2>1, <2>2, <2>3
<1>6. DOMAIN KnownIn(draft) = DOMAIN old
  <2>1. \A m : m \in DOMAIN KnownIn(draft) <=> \E k \in DOMAIN d : d[k].id = m
    BY <1>1, KnownIs
  <2>2. \A m : m \in DOMAIN old <=> \E k \in DOMAIN s : s[k].id = m
    BY <1>1, KnownIs
  <2> HIDE DEF old, d, s
  <2>3. \A m : m \in DOMAIN KnownIn(draft) <=> m \in DOMAIN old
    BY <1>4, <2>1, <2>2
  <2> QED BY <2>3
<1>7. \A m \in DOMAIN old : m # n => KnownIn(draft)[m] = old[m]
  <2> SUFFICES ASSUME NEW m \in DOMAIN old, m # n PROVE KnownIn(draft)[m] = old[m]
    OBVIOUS
  <2>1. PICK k \in DOMAIN s : s[k].id = m
    BY <1>1, KnownIs
  <2>2. d[k] = s[k]
    BY <1>3, <2>1
  <2>3. old[m] = Seen(s[k])
    BY <1>1, <2>1, KnownIs
  <2>4. k \in DOMAIN d /\ d[k].id = m
    BY <1>4, <2>1
  <2>5. KnownIn(draft)[m] = Seen(d[k])
    BY <1>1, <2>4, KnownIs
  <2> QED BY <2>2, <2>3, <2>5
<1>8. /\ old = [m \in DOMAIN old |-> old[m]]
      /\ KnownIn(draft) = [m \in DOMAIN KnownIn(draft) |-> KnownIn(draft)[m]]
  BY <1>1, KnownIs, SMTT(60)
<1>9. /\ ~old[n].headed
      /\ KnownIn(draft)[n] = [old[n] EXCEPT !.headed = TRUE]
  <2>1. (s[p].subject # NoSubject) = FALSE /\ (d[p].subject # NoSubject) = TRUE
    BY <1>3
  <2>2. old[n] = [group |-> s[p].group, headed |-> FALSE]
    BY <1>5, <2>1 DEF Seen
  <2>3. KnownIn(draft)[n] = [group |-> s[p].group, headed |-> TRUE]
    BY <1>3, <1>4, <1>5, <2>1 DEF Seen
  <2>4. s[p].group \in Groups
    <3>1. s \in Seq(Articles)
      BY <1>1 DEF Sound, Stores
    <3>2. s[p] \in Articles
      BY <1>3, <3>1
    <3> QED BY <3>2 DEF Articles
  <2>5. [old[n] EXCEPT !.headed = TRUE] = [group |-> s[p].group, headed |-> TRUE]
    <3>1. old[n] \in [group : Groups, headed : BOOLEAN] /\ old[n].group = s[p].group
      BY <2>2, <2>4
    <3> HIDE DEF old, n, s
    <3> QED BY <3>1, HeadedTrue
  <2>6. ~old[n].headed
    BY <2>2
  <2> QED BY <2>3, <2>5, <2>6
<1> HIDE DEF old, n
<1>10. KnownIn(draft) = [old EXCEPT ![n].headed = TRUE]
  BY <1>5, <1>6, <1>7, <1>8, <1>9
<1> QED BY <1>2, <1>5, <1>9, <1>10 DEF AsCatalogue!AddHeader

(***************************************************************************)
(* The committed articles are a Catalogue, whoever writes them and whenever *)
(* the application crashes: once known they stay, in their group; a portion *)
(* of a list adds articles of one group without headers, all at once; a     *)
(* header is added once (ReaderBox, the commands' write transactions).      *)
(***************************************************************************)
THEOREM IsACatalogue == Spec => KeepsCatalogue
<1>1. Init => DraftInv /\ AsCatalogue!Init
  <2> SUFFICES ASSUME Init PROVE DraftInv /\ AsCatalogue!Init
    OBVIOUS
  <2>1. DraftInv
    BY NobodyOnNone DEF Init, DraftInv
  <2>2. ToSet(store.articles) = {}
    BY DEF Init, EmptyStore, ToSet
  <2>3. Known = << >>
    BY <2>2 DEF Known
  <2> QED BY <2>1, <2>3 DEF AsCatalogue!Init
<1>2. IInv /\ DraftInv /\ [Next]_vars => [AsCatalogue!Next]_Known
  <2> SUFFICES ASSUME IInv, DraftInv, [Next]_vars
               PROVE  AsCatalogue!Next \/ Known' = Known
    OBVIOUS
  <2>1. CASE store' = store
    BY <2>1, KnownOfStore
  <2>2. ASSUME NEW t \in Threads, CommitList(t) \/ CommitHeader(t)
        PROVE  AsCatalogue!Next \/ Known' = Known
    <3>1. job[t].stage = "writing" /\ store' = draft /\ job[t].kind \in {"groups", "list", "heads"}
      BY <2>2 DEF CommitList, CommitHeader, CommitWrite, Runs
    <3>2. DraftBy(job[t])
      BY <3>1, DraftOfWriter
    <3>3. CASE draft.articles = store.articles
      BY <3>1, <3>3, KnownOfStore DEF KnownIn
    <3>4. CASE job[t].kind = "list"
      <4>1. OnlyAdds(job[t].group) /\ job[t].group \in Groups
        BY <3>2, <3>4, OfThread, JobOfKind, JobFields DEF DraftBy
      <4> QED BY <3>1, <4>1, CommitAdds DEF AsCatalogue!Next
    <3>5. CASE OnlyHeads
      BY <3>1, <3>5, CommitHeads, SMTT(60) DEF AsCatalogue!Next
    <3> QED BY <3>1, <3>2, <3>3, <3>4, <3>5 DEF DraftBy
  <2>3. store' = store \/ \E t \in Threads : CommitList(t) \/ CommitHeader(t)
    BY DEF Next, SteadyNext, User, Run, UpdateGroups, OnRefresh, ReceiveList, WriteGroup,
           WriteArticle, PostGroups, PostArticles, AskHeader, ReceiveHeader, WriteHeader,
           Stall, Crash, vars
  <2> QED BY <2>1, <2>2, <2>3
<1> QED
  BY <1>1, <1>2, DraftStep, Invariance, PTL DEF Spec, KeepsCatalogue, AsCatalogue!Spec
===============================================================================
