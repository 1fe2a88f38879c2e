-------------------------------- MODULE Library --------------------------------
(***************************************************************************)
(* The local library: the Realm database behind ReaderBox, and the commands *)
(* that fill it, each on the thread of its own connection.  "Refresh        *)
(* groups" starts a ListGroupsCommand, "Refresh" on a group's tab a         *)
(* ListGroupGetArticleIdsCommand; that one, through the notification its    *)
(* tab observes, starts one ArticleGetMultipleHeadersCommand for every      *)
(* portion of the list it receives.  Any number of them run at once.        *)
(*                                                                          *)
(* A connection is abstracted to what NewsReader.tla shows of one whose     *)
(* reads end where the reader assumes: a list arrives whole and in order in *)
(* portions cut anywhere, the last of them with the terminator; the k-th    *)
(* header is the one of the k-th id; and a connection may stall for good.   *)
(*                                                                          *)
(* Realm is external: a write transaction starts from the latest version,   *)
(* excludes all others, and is durable as a whole when it is committed.     *)
(***************************************************************************)
EXTENDS Integers, Sequences, FiniteSets, SequencesExt

CONSTANTS
    Groups,         \* the names of the groups the server has
    Numbers,        \* article numbers; every group counts its own articles
    GroupList,      \* the reply to LIST: the groups, in some order
    Listing,        \* group -> the reply to LISTGROUP: its article numbers
    Threads,        \* bound: as many connections at once
    None            \* no thread, or no group

NoSubject == << >>

ASSUME LibraryAssumption ==
    /\ GroupList \in Seq(Groups)
    /\ Listing \in [Groups -> Seq(Numbers)]
    /\ None \notin Threads

VARIABLES
    store,      \* the committed version: groups, articles, and for each group
                \* the list NewsGroup.articles, by the articles' places
    draft,      \* the version the open write transaction is making
    writer,     \* the thread that has it open
    job,        \* the command each thread runs
    asked       \* history: <<group, number>> -> how often its header was asked for

vars == << store, draft, writer, job, asked >>

Headers == Groups \X Numbers

EmptyStore == [groups |-> << >>, articles |-> << >>, lists |-> [g \in Groups |-> << >>]]

(***************************************************************************)
(* A command: the lines its list is still to bring, and whether its         *)
(* terminator is (or the numbers it is still to ask for); the portion being *)
(* written; and the numbers of the articles that this portion has created.  *)
(***************************************************************************)
NewJob(kind, group, todo) ==
    [kind |-> kind, group |-> group, todo |-> todo, more |-> TRUE,
     stage |-> "reading", chunk |-> << >>, newArticles |-> << >>]

Idle == NewJob("idle", None, << >>)

Init ==
    /\ store = EmptyStore
    /\ draft = EmptyStore
    /\ writer = None
    /\ job = [t \in Threads |-> Idle]
    /\ asked = [h \in Headers |-> 0]
-------------------------------------------------------------------------------
(***************************************************************************)
(* ReaderBox.                                                               *)
(***************************************************************************)
(* Variant: the group is created without looking for it. *)
HasGroupNever(s, name) == FALSE

HasGroup(s, name) == name \in ToSet(s.groups)

FindOrCreateGroup(s, name) ==
    IF HasGroup(s, name) THEN s ELSE [s EXCEPT !.groups = Append(@, name)]

Places(s, number) == {k \in DOMAIN s.articles : s.articles[k].id = number}

(* Variant: the article is looked for among those of its own group. *)
IsStoredInGroup(s, group, number) ==
    \E k \in Places(s, number) : s.articles[k].group = group

(* The number alone decides, not the group it is a number of. *)
IsStored(s, group, number) == Cardinality(Places(s, number)) = 1

NewArticle(group, number) ==
    [id |-> number, group |-> group, subject |-> NoSubject]

(* group.articles.append for the article created last. *)
ListLast(s, group) == [s EXCEPT !.lists[group] = Append(@, Len(s.articles))]

Create(s, group, number) ==
    ListLast([s EXCEPT !.articles = Append(@, NewArticle(group, number))], group)

FindOrCreateGroupArticle(s, group, number) ==
    IF IsStored(s, group, number) THEN s ELSE Create(s, group, number)
-------------------------------------------------------------------------------
(***************************************************************************)
(* Write transactions.                                                      *)
(***************************************************************************)
BeginWrite(t) ==
    /\ writer = None
    /\ writer' = t
    /\ draft' = store

CommitWrite(t) ==
    /\ writer = t
    /\ writer' = None
    /\ store' = draft
    /\ UNCHANGED draft

Runs(t, kind, stage) == job[t].kind = kind /\ job[t].stage = stage
-------------------------------------------------------------------------------
(***************************************************************************)
(* The two lists.                                                           *)
(***************************************************************************)
IdleThreads == {t \in Threads : job[t] = Idle}

(* Bound: a list is only asked for if a thread stays free for its headers. *)
Room == Cardinality(IdleThreads) > 1

UpdateGroups(t) ==
    /\ Room
    /\ job[t] = Idle
    /\ job' = [job EXCEPT ![t] = NewJob("groups", None, GroupList)]
    /\ UNCHANGED << store, draft, writer, asked >>

(* A tab is opened from the table of groups, so its group is stored. *)
OnRefresh(t, group) ==
    /\ Room
    /\ job[t] = Idle
    /\ HasGroup(store, group)
    /\ job' = [job EXCEPT ![t] = NewJob("list", group, Listing[group])]
    /\ UNCHANGED << store, draft, writer, asked >>

(* A read brings the next lines, perhaps only the terminator. *)
ReceiveList(t) ==
    /\ Runs(t, "groups", "reading") \/ Runs(t, "list", "reading")
    /\ BeginWrite(t)
    /\ \E n \in 0 .. Len(job[t].todo), more \in BOOLEAN :
         /\ IF more THEN n > 0 ELSE n = Len(job[t].todo)
         /\ job' = [job EXCEPT
                      ![t].stage = "writing",
                      ![t].more = more,
                      ![t].chunk = SubSeq(job[t].todo, 1, n),
                      ![t].todo = SubSeq(@, n + 1, Len(@))]
    /\ UNCHANGED << store, asked >>

WriteGroup(t) ==
    /\ Runs(t, "groups", "writing")
    /\ job[t].chunk # << >>
    /\ draft' = FindOrCreateGroup(draft, Head(job[t].chunk))
    /\ job' = [job EXCEPT ![t].chunk = Tail(@)]
    /\ UNCHANGED << store, writer, asked >>

(* Variants: every listed article counts as new; every one is listed again; *)
(* the subject of one that is stored already is emptied.                     *)
WriteArticleAllNew(t) ==
    /\ Runs(t, "list", "writing")
    /\ job[t].chunk # << >>
    /\ LET number == Head(job[t].chunk)
           group == job[t].group
       IN  /\ draft' = IF IsStored(draft, group, number) THEN draft
                       ELSE ListLast(Create(draft, group, number), group)
           /\ job' = [job EXCEPT ![t].chunk = Tail(@),
                                 ![t].newArticles = Append(@, number)]
    /\ UNCHANGED << store, writer, asked >>

WriteArticleListsAll(t) ==
    /\ Runs(t, "list", "writing")
    /\ job[t].chunk # << >>
    /\ LET number == Head(job[t].chunk)
           group == job[t].group
           found == IsStored(draft, group, number)
       IN  /\ draft' = ListLast(FindOrCreateGroupArticle(draft, group, number), group)
           /\ job' = [job EXCEPT ![t].chunk = Tail(@),
                                 ![t].newArticles = IF found THEN @ ELSE Append(@, number)]
    /\ UNCHANGED << store, writer, asked >>

WriteArticleForgets(t) ==
    /\ Runs(t, "list", "writing")
    /\ job[t].chunk # << >>
    /\ LET number == Head(job[t].chunk)
           group == job[t].group
       IN  IF IsStored(draft, group, number)
           THEN /\ job' = [job EXCEPT ![t].chunk = Tail(@)]
                /\ draft' = [draft EXCEPT !.articles =
                                [k \in DOMAIN @ |-> IF k \in Places(draft, number)
                                                    THEN [@[k] EXCEPT !.subject = NoSubject]
                                                    ELSE @[k]]]
           ELSE /\ draft' = ListLast(Create(draft, group, number), group)
                /\ job' = [job EXCEPT ![t].chunk = Tail(@),
                                      ![t].newArticles = Append(@, number)]
    /\ UNCHANGED << store, writer, asked >>

(* What findOrCreateGroupArticle has listed, the command lists once more. *)
WriteArticle(t) ==
    /\ Runs(t, "list", "writing")
    /\ job[t].chunk # << >>
    /\ LET number == Head(job[t].chunk)
           group == job[t].group
       IN  IF IsStored(draft, group, number)
           THEN /\ job' = [job EXCEPT ![t].chunk = Tail(@)]
                /\ UNCHANGED draft
           ELSE /\ draft' = ListLast(Create(draft, group, number), group)
                /\ job' = [job EXCEPT ![t].chunk = Tail(@),
                                      ![t].newArticles = Append(@, number)]
    /\ UNCHANGED << store, writer, asked >>

(* Variant: the commit may fail, which is swallowed, and the rest is done. *)
CommitListMayFail(t) ==
    /\ Runs(t, "groups", "writing") \/ Runs(t, "list", "writing")
    /\ job[t].chunk = << >>
    /\ \/ CommitWrite(t)
       \/ writer' = None /\ UNCHANGED << store, draft >>
    /\ job' = [job EXCEPT ![t].stage = "posting"]
    /\ UNCHANGED asked

CommitList(t) ==
    /\ Runs(t, "groups", "writing") \/ Runs(t, "list", "writing")
    /\ job[t].chunk = << >>
    /\ CommitWrite(t)
    /\ job' = [job EXCEPT ![t].stage = "posting"]
    /\ UNCHANGED asked

(* The command goes on with the next portion; after the last it is done. *)
Resumed(j) ==
    IF j.more THEN NewJob(j.kind, j.group, j.todo) ELSE Idle

(* The observer of "groups added" only updates a label. *)
PostGroups(t) ==
    /\ Runs(t, "groups", "posting")
    /\ job' = [job EXCEPT ![t] = Resumed(@)]
    /\ UNCHANGED << store, draft, writer, asked >>

(* Variant: no headers are asked for if the portion has one new article. *)
PostArticlesFew(t) ==
    /\ Runs(t, "list", "posting")
    /\ \E u \in IdleThreads :
         job' = [job EXCEPT
                   ![t] = Resumed(@),
                   ![u] = IF Len(job[t].newArticles) > 1
                          THEN NewJob("heads", job[t].group, job[t].newArticles) ELSE @]
    /\ UNCHANGED << store, draft, writer, asked >>

(* Variant: the new articles of earlier portions are not forgotten. *)
PostArticlesKeepsNew(t) ==
    /\ Runs(t, "list", "posting")
    /\ \E u \in IdleThreads :
         job' = [job EXCEPT
                   ![t] = IF @.more THEN [@ EXCEPT !.stage = "reading"] ELSE Idle,
                   ![u] = NewJob("heads", job[t].group, job[t].newArticles)]
    /\ UNCHANGED << store, draft, writer, asked >>

(* The group's tab opens a connection for the headers, even if for none. *)
PostArticles(t) ==
    /\ Runs(t, "list", "posting")
    /\ \E u \in IdleThreads :
         job' = [job EXCEPT ![t] = Resumed(@),
                            ![u] = NewJob("heads", job[t].group, job[t].newArticles)]
    /\ UNCHANGED << store, draft, writer, asked >>
-------------------------------------------------------------------------------
(***************************************************************************)
(* The headers.                                                             *)
(***************************************************************************)
AskHeader(t) ==
    /\ Runs(t, "heads", "reading")
    /\ IF job[t].todo = << >>
       THEN job' = [job EXCEPT ![t] = Idle] /\ UNCHANGED asked
       ELSE /\ job' = [job EXCEPT ![t].stage = "asked",
                                  ![t].chunk = << Head(job[t].todo) >>,
                                  ![t].todo = Tail(@)]
            /\ asked' = [asked EXCEPT ![<< job[t].group, Head(job[t].todo) >>] = @ + 1]
    /\ UNCHANGED << store, draft, writer >>

ReceiveHeader(t) ==
    /\ Runs(t, "heads", "asked")
    /\ BeginWrite(t)
    /\ job' = [job EXCEPT ![t].stage = "writing"]
    /\ UNCHANGED << store, asked >>

WithHeader(s, group, number) ==
    LET found == FindOrCreateGroupArticle(s, group, number)
        place == IF IsStored(s, group, number)
                 THEN CHOOSE k \in Places(s, number) : TRUE ELSE Len(found.articles)
    IN  [found EXCEPT !.articles[place].subject = << group, number >>]

WriteHeader(t) ==
    /\ Runs(t, "heads", "writing")
    /\ job[t].chunk # << >>
    /\ draft' = WithHeader(draft, job[t].group, Head(job[t].chunk))
    /\ job' = [job EXCEPT ![t].chunk = Tail(@)]
    /\ UNCHANGED << store, writer, asked >>

(* The observer of "header added" only changes the view. *)
CommitHeader(t) ==
    /\ Runs(t, "heads", "writing")
    /\ job[t].chunk = << >>
    /\ CommitWrite(t)
    /\ job' = [job EXCEPT ![t].stage = "reading"]
    /\ UNCHANGED asked
-------------------------------------------------------------------------------
(* A connection that waits for the server may wait for ever. *)
Stall(t) ==
    /\ job[t] # Idle
    /\ job[t].stage \in {"reading", "asked"}
    /\ job' = [job EXCEPT ![t] = Idle]
    /\ UNCHANGED << store, draft, writer, asked >>

(* The application ends or is killed: only what is committed remains. *)
Crash ==
    /\ job' = [t \in Threads |-> Idle]
    /\ writer' = None
    /\ draft' = store
    /\ UNCHANGED << store, asked >>

User(t) == UpdateGroups(t) \/ \E g \in Groups : OnRefresh(t, g)

Run(t) ==
    \/ ReceiveList(t) \/ WriteGroup(t) \/ WriteArticle(t) \/ CommitList(t)
    \/ PostGroups(t) \/ PostArticles(t)
    \/ AskHeader(t) \/ ReceiveHeader(t) \/ WriteHeader(t) \/ CommitHeader(t)

SteadyNext == \E t \in Threads : User(t) \/ Run(t)

Next == SteadyNext \/ (\E t \in Threads : Stall(t)) \/ Crash

Spec == Init /\ [][Next]_vars
-------------------------------------------------------------------------------
(***************************************************************************)
(* Properties.                                                              *)
(***************************************************************************)
Articles == [id : Numbers, group : Groups, subject : Headers \union {NoSubject}]

Stores ==
    [groups : Seq(Groups), articles : Seq(Articles), lists : [Groups -> Seq(Nat)]]

JobsOf(kinds, groups, lines) ==
    [kind : kinds, group : groups, todo : Seq(lines), more : BOOLEAN,
     stage : {"reading", "asked", "writing", "posting"},
     chunk : Seq(lines), newArticles : Seq(Numbers)]

Jobs ==
    JobsOf({"idle"}, {None}, {})
    \union JobsOf({"groups"}, {None}, Groups)
    \union JobsOf({"list", "heads"}, Groups, Numbers)

ListsOnlyStored(s) ==
    \A g \in Groups : \A i \in DOMAIN s.lists[g] : s.lists[g][i] \in DOMAIN s.articles

(* Objects, lists and commands keep the shape of their Swift declarations;  *)
(* no list refers to an article that is not stored.                         *)
TypeOK ==
    /\ store \in Stores /\ ListsOnlyStored(store)
    /\ draft \in Stores /\ ListsOnlyStored(draft)
    /\ writer \in Threads \union {None}
    /\ job \in [Threads -> Jobs]
    /\ asked \in [Headers -> Nat]

(***************************************************************************)
(* However many refreshes of however many groups run at once, no number is  *)
(* stored twice, in the open transaction no more than in the database:      *)
(* findOrCreateGroupArticle, which creates another article when it finds    *)
(* more than one, never does.  So a number belongs to the first group that  *)
(* listed it, and the article of that number in another group is never      *)
(* stored.                                                                  *)
(***************************************************************************)
NoDuplicates(s) ==
    \A j, k \in DOMAIN s.articles : s.articles[j].id = s.articles[k].id => j = k

UniqueArticles == NoDuplicates(store) /\ NoDuplicates(draft)

(* Nor is a group: the same for findOrCreateGroup and concurrent updates. *)
NoTwins(s) == \A j, k \in DOMAIN s.groups : s.groups[j] = s.groups[k] => j = k

UniqueGroups == NoTwins(store)

(* Both: nothing is ever stored twice (ReaderBox.findOrCreate...). *)
StoredOnce == UniqueArticles /\ UniqueGroups

(***************************************************************************)
(* NewsGroup.articles, whose length the table of groups shows as "loaded",  *)
(* has every article of the group twice: created by whichever refresh, it   *)
(* is listed by ReaderBox and once more by the command, and never again.    *)
(***************************************************************************)
PlacesOf(s, group) == {k \in DOMAIN s.articles : s.articles[k].group = group}

ListsAllTwice(s) ==
    \A g \in Groups :
        /\ ToSet(s.lists[g]) = PlacesOf(s, g)
        /\ Len(s.lists[g]) = 2 * Cardinality(PlacesOf(s, g))

LoadedTwice == ListsAllTwice(store)

(***************************************************************************)
(* Although a number is looked up without its group, no article ever gets   *)
(* the header of another group's article: headers are only asked for by the *)
(* command that created the article, and on behalf of its group.            *)
(***************************************************************************)
OwnHeaders(s) ==
    \A k \in DOMAIN s.articles :
        s.articles[k].subject \in {NoSubject, << s.articles[k].group, s.articles[k].id >>}

HeaderFromOwnGroup == OwnHeaders(store)

(***************************************************************************)
(* The header command never creates an article and never writes a header    *)
(* over another: what it is still to ask for, or to write, is stored, by    *)
(* its own group, and without a header.                                     *)
(***************************************************************************)
Wants(j) == IF j.kind = "heads" THEN ToSet(j.todo) \union ToSet(j.chunk) ELSE {}

HeadersAreOfStored ==
    \A t \in Threads : \A number \in Wants(job[t]) :
        NewArticle(job[t].group, number) \in ToSet(store.articles)

(***************************************************************************)
(* Across refreshes, connections, crashes and restarts, a header is asked   *)
(* for at most once.                                                        *)
(***************************************************************************)
HeaderAskedOnce == \A h \in Headers : asked[h] <= 1

(***************************************************************************)
(* And therefore a header that has been lost, with its connection or with   *)
(* the application, is lost for good: an article that is stored and that no *)
(* running command has as its own is not asked for by any later refresh.    *)
(***************************************************************************)
IsKnown(h) == \E k \in PlacesOf(store, h[1]) : store.articles[k].id = h[2]

Awaited(h) ==
    \E t \in Threads :
        /\ job[t].group = h[1]
        /\ \/ h[2] \in ToSet(job[t].newArticles)
           \/ job[t].kind = "heads" /\ h[2] \in ToSet(job[t].todo)

LostHeaderStaysLost ==
    [][\A h \in Headers :
         IsKnown(h) /\ ~Awaited(h) => ~Awaited(h)' /\ asked'[h] = asked[h]]_vars

(***************************************************************************)
(* Liveness.  Without stalls and crashes every thread goes on: its server   *)
(* answers and its run loop calls it.  Nothing makes Realm's write lock     *)
(* fair, so commands started for ever could keep one waiting for ever.      *)
(***************************************************************************)
SteadySpec ==
    /\ Init /\ [][SteadyNext]_vars
    /\ \A t \in Threads : WF_vars(Run(t))

(***************************************************************************)
(* Once the user stops refreshing, every stored article gets its header.    *)
(***************************************************************************)
HasHeader(h) ==
    \E k \in PlacesOf(store, h[1]) : store.articles[k].id = h[2] /\ store.articles[k].subject # NoSubject

HeadersArrive ==
    <>[][\A t \in Threads : ~User(t)]_vars =>
        \A h \in Headers : IsKnown(h) ~> HasHeader(h)

(***************************************************************************)
(* Refinement: the committed articles are a Catalogue, whoever writes them  *)
(* and whenever the application crashes.                                    *)
(***************************************************************************)
Known ==
    [n \in {a.id : a \in ToSet(store.articles)} |->
        LET a == CHOOSE a \in ToSet(store.articles) : a.id = n
        IN  [group |-> a.group, headed |-> a.subject # NoSubject]]

AsCatalogue == INSTANCE Catalogue WITH known <- Known

KeepsCatalogue == AsCatalogue!Spec
=============================================================================
