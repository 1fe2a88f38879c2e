----------------------------- MODULE ArticlesView ------------------------------
(***************************************************************************)
(* The posts of a group's tab: every header that arrives is added, on the   *)
(* thread of the connection it came by, to the outlines of ArticlesTableVM. *)
(* Articles whose subjects differ only in a "(n/m)" are parts of one post   *)
(* and share an outline; articleCache finds it under what is left of the    *)
(* subject, and finds outlines under article numbers as well.  Behind every *)
(* addition the main thread puts the number of outlines into the label.     *)
(*                                                                          *)
(* Nothing keeps two threads out of addArticle: what one writes while       *)
(* another is in there may be lost, or the program may end.  An outline is  *)
(* named by the article it was made for.                                    *)
(***************************************************************************)
EXTENDS Naturals, Sequences, SequencesExt

CONSTANTS
    Articles,   \* the articles, each with a number of its own
    Key,        \* article -> its subject without the one "(n/m)", None if not one
    FileNumber, \* article -> fileNumber() of its subject
    Bare,       \* the articles without a subject
    Threads,    \* the connections' threads
    None

ASSUME ArticlesViewAssumption ==
    /\ Bare \subseteq Articles
    /\ DOMAIN Key = Articles
    /\ FileNumber \in [Articles -> Nat]
    /\ None \notin Articles
    /\ \A a \in Bare : Key[a] = None

VARIABLES
    articleCache,   \* key or article number -> outline, or None
    displayedCache, \* the articles displayed
    articles,       \* the outlines, as they came
    children,       \* outline -> its articles
    subject,        \* article -> the article whose subject it bears
    count,          \* the label
    doing,          \* thread -> where it is, and with which article
    received,       \* the articles that have arrived
    overlapped,     \* history: two threads were in addArticle at once
    running         \* FALSE when the program has ended

vars == << articleCache, displayedCache, articles, children, subject, count,
           doing, received, overlapped, running >>

Keys == { Key[a] : a \in Articles } \ {None}

Idle == [at |-> "idle", with |-> None]

Init ==
    /\ articleCache = [k \in Articles \union Keys |-> None]
    /\ displayedCache = {}
    /\ articles = << >>
    /\ children = [o \in Articles |-> << >>]
    /\ subject = [a \in Articles |-> a]
    /\ count = 0
    /\ doing = [t \in Threads |-> Idle]
    /\ received = {}
    /\ overlapped = FALSE
    /\ running = TRUE

At(t, place) == running /\ doing[t].at = place

Article(t) == doing[t].with

InAddArticle(t) == doing[t].at \in {"shown", "matched", "part", "post"}

\* Another thread is in addArticle as well.
Contested(t) == \E u \in Threads \ {t} : InAddArticle(u)

Go(t, place) == doing' = [doing EXCEPT ![t].at = place]
-------------------------------------------------------------------------------
\* Variant: looked up under the key.
LookUpKey(a) == IF Key[a] = None THEN a ELSE Key[a]

LookUp(a) == a

\* The start of addArticle: an outline under the article's number gets its subject.
Receive(t, a) ==
    LET cArticle == articleCache[LookUp(a)] IN
    /\ At(t, "idle")
    /\ a \notin received
    /\ received' = received \union {a}
    /\ subject' = IF cArticle = None THEN subject ELSE [subject EXCEPT ![cArticle] = subject[a]]
    /\ doing' = [doing EXCEPT ![t] =
                    [at |-> IF cArticle # None /\ a \in displayedCache THEN "added" ELSE "shown",
                     with |-> a]]
    /\ overlapped' = (overlapped \/ Contested(t))
    /\ UNCHANGED << articleCache, displayedCache, articles, children, count, running >>

\* articleCache, with vm under the keys of ks, or without some of them.
CacheWrites(t, ks, vm) ==
    { [k \in DOMAIN articleCache |-> IF k \in written THEN vm ELSE articleCache[k]] :
        written \in IF Contested(t) THEN SUBSET ks ELSE {ks} }

\* An article without a subject: an outline that articles does not hold.
CacheBare(t) ==
    LET a == Article(t) IN
    /\ At(t, "shown") /\ a \in Bare
    /\ articleCache' \in CacheWrites(t, {a}, a)
    /\ children' = [children EXCEPT ![a] = << a >>]
    /\ Go(t, "added")
    /\ UNCHANGED << displayedCache, articles, subject, count, received, overlapped, running >>

\* displayedCache, and the search for "(n/m)".
Display(t) ==
    LET a == Article(t) IN
    /\ At(t, "shown") /\ a \notin Bare
    /\ \/ displayedCache' = displayedCache \union {a}
       \/ Contested(t) /\ UNCHANGED displayedCache
    /\ Go(t, IF Key[a] = None THEN "post" ELSE "matched")
    /\ UNCHANGED << articleCache, articles, children, subject, count, received, overlapped,
                    running >>

\* articleCache.keys.contains.
FindPost(t) ==
    /\ At(t, "matched")
    /\ Go(t, IF articleCache[Key[Article(t)]] # None THEN "part" ELSE "post")
    /\ UNCHANGED << articleCache, displayedCache, articles, children, subject, count, received,
                    overlapped, running >>

\* children.append and children.sort, which leaves the order of equals open.
Sorted(s, a) ==
    LET all == Append(s, a) IN
    { u \in { [i \in DOMAIN all |-> all[p[i]]] : p \in Bijection(DOMAIN all, DOMAIN all) } :
        \A i, j \in DOMAIN u : i < j => FileNumber[subject[u[i]]] <= FileNumber[subject[u[j]]] }

AddPart(t) ==
    LET a == Article(t)
        multiArticle == articleCache[Key[a]]
    IN /\ At(t, "part")
       /\ \/ \E parts \in Sorted(children[multiArticle], a) :
                 children' = [children EXCEPT ![multiArticle] = parts]
          \/ Contested(t) /\ UNCHANGED children
       /\ Go(t, "added")
       /\ UNCHANGED << articleCache, displayedCache, articles, subject, count, received,
                       overlapped, running >>

\* Variant: under its number only.
CacheKeysOwn(a) == {a}

\* What a new outline in articles is cached under.
CacheKeys(a) == {a} \union ({Key[a]} \ {None})

AddPost(t) ==
    LET a == Article(t) IN
    /\ At(t, "post")
    /\ children' = [children EXCEPT ![a] = << a >>]
    /\ articleCache' \in CacheWrites(t, CacheKeys(a), a)
    /\ \/ articles' = Append(articles, a)
       \/ Contested(t) /\ UNCHANGED articles
    /\ Go(t, "added")
    /\ UNCHANGED << displayedCache, subject, count, received, overlapped, running >>

\* Variant: every arrival counts.
CountArrivals(t) ==
    /\ At(t, "added")
    /\ count' = count + 1
    /\ doing' = [doing EXCEPT ![t] = Idle]
    /\ UNCHANGED << articleCache, displayedCache, articles, children, subject, received,
                    overlapped, running >>

\* onArticleAdd: DispatchQueue.main.sync behind addArticle.
Reload(t) ==
    /\ At(t, "added")
    /\ count' = Len(articles)
    /\ doing' = [doing EXCEPT ![t] = Idle]
    /\ UNCHANGED << articleCache, displayedCache, articles, children, subject, received,
                    overlapped, running >>

\* An array or a dictionary changes under a thread.
Trap(t) ==
    /\ running /\ InAddArticle(t) /\ Contested(t)
    /\ running' = FALSE
    /\ doing' = [u \in Threads |-> Idle]
    /\ UNCHANGED << articleCache, displayedCache, articles, children, subject, count,
                    received, overlapped >>

Step(t) == CacheBare(t) \/ Display(t) \/ FindPost(t) \/ AddPart(t) \/ AddPost(t) \/ Reload(t)

Next ==
    \E t \in Threads : (\E a \in Articles : Receive(t, a)) \/ Step(t) \/ Trap(t)

Spec == Init /\ [][Next]_vars
-------------------------------------------------------------------------------
\* The parts of the post that a belongs to.
Fellows(a) == IF Key[a] = None THEN {a} ELSE { b \in Articles : Key[b] = Key[a] }

\* No part of the post has a number that a key looks like, nor has it such a key.
Apart(a) == Key[a] \notin Articles /\ Fellows(a) \intersect Keys = {}

Ordered(s) ==
    \A i, j \in DOMAIN s : i < j => FileNumber[s[i]] <= FileNumber[s[j]]

\* As long as one thread at a time has been in addArticle, whatever the order
\* the headers arrive in, each post has one outline with all of its parts that
\* have been added, in the order of their numbers, and with no part of another
\* post (ArticlesTableVM.addArticle; the posts that a subject which looks like
\* an article number gets into contact with are excepted).
PostsWhole ==
    ~overlapped /\ (\A t \in Threads : ~InAddArticle(t)) =>
        \A a \in Articles \ Bare : a \in received /\ Apart(a) =>
            \E o \in Articles :
                /\ \E i \in DOMAIN articles :
                       articles[i] = o /\ \A j \in DOMAIN articles : articles[j] = o => j = i
                /\ ToSet(children[o]) = Fellows(a) \intersect received
                /\ Len(children[o]) = Cardinality(ToSet(children[o]))
                /\ Ordered(children[o])

\* The threads that have added their article and not yet been through the reload.
Unreloaded == { t \in Threads : doing[t].at = "added" }

\* The label is never ahead of the outlines, and behind by no more than the threads
\* that still wait for their reload, however the additions of several threads
\* overlap and get lost: each reload makes up for all of them
\* (GroupTabView.onArticleAdd).
CountInStep ==
    running => /\ count <= Len(articles)
               /\ Len(articles) <= count + Cardinality(Unreloaded)

\* An article loses its subject to another only where what its subject leaves
\* without "(n/m)" is that one's number: the two uses of articleCache meet in
\* nothing else (ArticlesTableVM.addArticle).
SubjectsKept ==
    \A a \in Articles : subject[a] # a => subject[a] = Key[a] /\ subject[a] \in received
================================================================================
