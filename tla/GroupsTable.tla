------------------------------ MODULE GroupsTable -------------------------------
(***************************************************************************)
(* The main window: the table of groups with its search field, its label,   *)
(* and the tabs that are opened from it, all on the main thread.  The table *)
(* is backed by live Results: they grow when the main thread's Realm        *)
(* advances, which is not when the table is reloaded.  The threads that     *)
(* commit groups post a notification behind each commit, for which blocks   *)
(* are put on the main queue.                                               *)
(*                                                                          *)
(* External: Realm lists groups in the order they were created in, and      *)
(* advances the main thread's Realm some time behind a commit; a table that *)
(* is reloaded keeps the selected row if there is still one.                *)
(***************************************************************************)
EXTENDS Sifting, SequencesExt

CONSTANTS
    GroupList,   \* the groups, in the order they are created in
    Texts,       \* what is typed into the search field, NoText among them
    NoText,
    Matching,    \* text -> the groups whose names contain it
    Unparsed,    \* the texts with a quote in them
    MaxSearches, \* bound: searches
    MaxUpdates,  \* bound: groups updated while all is still
    None

ASSUME GroupsTableAssumption ==
    /\ GroupList \in Seq(ToSet(GroupList))
    /\ \A i, j \in DOMAIN GroupList : GroupList[i] = GroupList[j] => i = j
    /\ NoText \in Texts /\ Unparsed \subseteq Texts \ {NoText}
    /\ Matching \in [Texts -> SUBSET ToSet(GroupList)]
    /\ Matching[NoText] = ToSet(GroupList)
    /\ MaxSearches \in Nat /\ MaxUpdates \in Nat
    /\ None \notin ToSet(GroupList)

VARIABLES
    stored,     \* how many groups are stored
    version,    \* ... in the version the main thread's Realm reads
    filter,     \* the text that groups is filtered by
    rows,       \* the groups the table shows
    selected,   \* the selected row, 0 if there is none
    typed,      \* the texts entered, in order
    searches,   \* those whose delay is not over
    unposted,   \* commits whose notification is still to be posted
    queue,      \* the main queue
    tabs,       \* the tabs' groups
    front,      \* the group of the tab in front
    label,      \* the number in the label
    updates,    \* notifications of updated groups so far
    early,      \* history: the last reload came before the Realm had advanced
    running     \* FALSE when the program has ended

vars == << stored, version, filter, rows, selected, typed, searches, unposted, queue,
           tabs, front, label, updates, early, running >>

search == << filter, typed, searches >>
table == << rows, selected, early >>
tabView == << tabs, front >>

GroupNames == ToSet(GroupList)

\* Variant: the newest first.
FilteredNewest(text, n) ==
    Reverse(WithinFirst(GroupList, Matching[text], n))

\* The Results of the first n groups.
Filtered(text, n) == WithinFirst(GroupList, Matching[text], n)

Groups == Filtered(filter, version)

Init ==
    /\ stored \in 0 .. Len(GroupList) /\ version = stored
    /\ filter = NoText
    /\ rows = Filtered(NoText, version)
    /\ selected = 0
    /\ typed = << >> /\ searches = << >>
    /\ unposted = 0
    /\ queue = << >>
    /\ tabs = << >> /\ front = None
    /\ label = 0
    /\ updates = 0
    /\ early = FALSE
    /\ running = TRUE
-------------------------------------------------------------------------------
(***************************************************************************)
(* The threads that store groups, and Realm.                                *)
(***************************************************************************)
\* NewsReader_groups of ListGroupsCommand, up to the commit.
CommitGroups ==
    /\ running /\ stored < Len(GroupList)
    /\ \E n \in stored + 1 .. Len(GroupList) : stored' = n
    /\ unposted' = unposted + 1
    /\ UNCHANGED << version, search, table, queue, tabView, label, updates, running >>

\* Variant: only the label is told.
BlocksCount == << "count" >>

\* What the observers of GroupsAdded do.
Blocks == << "reload", "count" >>

PostGroupsAdded ==
    /\ running /\ unposted > 0
    /\ unposted' = unposted - 1
    /\ queue' = queue \o Blocks
    /\ UNCHANGED << stored, version, search, table, tabView, label, updates, running >>

\* ListGroupGetArticleIdsCommand, for a group with a tab.
PostGroupUpdated ==
    /\ running /\ tabs # << >>
    /\ updates < MaxUpdates
    /\ updates' = updates + 1
    /\ queue' = Append(queue, "reload")
    /\ UNCHANGED << stored, version, search, table, unposted, tabView, label, running >>

\* The main thread's Realm advances.
Autorefresh ==
    /\ running /\ version < stored
    /\ version' = stored
    /\ UNCHANGED << stored, search, table, unposted, queue, tabView, label, updates, running >>
-------------------------------------------------------------------------------
(***************************************************************************)
(* The main thread.                                                         *)
(***************************************************************************)
\* reloadData, with the groups as they are then.
ReloadData(groups) ==
    /\ rows' = groups
    /\ selected' = IF selected \in DOMAIN groups THEN selected ELSE 0
    /\ early' = (version < stored)

RunReload ==
    /\ running /\ queue # << >> /\ Head(queue) = "reload"
    /\ queue' = Tail(queue)
    /\ ReloadData(Groups)
    /\ UNCHANGED << stored, version, search, unposted, tabView, label, updates, running >>

\* MainVC.GroupAdded.
RunCount ==
    /\ running /\ queue # << >> /\ Head(queue) = "count"
    /\ queue' = Tail(queue)
    /\ label' = Len(Groups)
    /\ UNCHANGED << stored, version, search, table, unposted, tabView, updates, running >>

\* Variant: the search that was entered last is run first.
OnSearchFirst(text) ==
    /\ running
    /\ Len(typed) < MaxSearches
    /\ typed' = Append(typed, text)
    /\ searches' = << text >> \o searches
    /\ UNCHANGED << stored, version, filter, table, unposted, queue, tabView, label, updates,
                    running >>

\* onSearch: the search comes after a delay.
OnSearch(text) ==
    /\ running
    /\ Len(typed) < MaxSearches
    /\ typed' = Append(typed, text)
    /\ searches' = Append(searches, text)
    /\ UNCHANGED << stored, version, filter, table, unposted, queue, tabView, label, updates,
                    running >>

\* The delays are all the same.
NextSearch == Head(searches)

\* searchForText; setSearch raises an exception on a text with a quote.
SearchForText ==
    /\ running /\ searches # << >>
    /\ searches' = Tail(searches)
    /\ \/ /\ NextSearch \notin Unparsed
          /\ filter' = NextSearch
          /\ ReloadData(Filtered(NextSearch, version))
          /\ UNCHANGED running
       \/ /\ NextSearch \in Unparsed
          /\ running' = FALSE
          /\ UNCHANGED << filter, table >>
    /\ UNCHANGED << stored, version, typed, unposted, queue, tabView, label, updates >>

\* Variant: a tab is only looked for in front.
HasTabInFront(g) == front = g

\* tabCache.
HasTab(g) == g \in ToSet(tabs)

\* groupSelected.
GroupSelected(g) ==
    /\ tabs' = IF HasTab(g) THEN tabs ELSE Append(tabs, g)
    /\ front' = g

\* The user selects another row: tableViewSelectionDidChange.
Select(r) ==
    /\ running
    /\ r \in DOMAIN rows \ {selected}
    /\ selected' = r
    /\ GroupSelected(Groups[r])
    /\ UNCHANGED << stored, version, search, rows, early, unposted, queue, label, updates,
                    running >>

\* The user clears the selection: there is no row -1.
Deselect ==
    /\ running /\ selected # 0
    /\ selected' = 0
    /\ running' = FALSE
    /\ UNCHANGED << stored, version, search, rows, early, unposted, queue, tabView, label,
                    updates >>

\* The user clicks on a tab.
SelectTab(g) ==
    /\ running
    /\ HasTab(g) /\ g # front
    /\ front' = g
    /\ UNCHANGED << stored, version, search, table, unposted, queue, tabs, label, updates,
                    running >>

Next ==
    \/ CommitGroups \/ PostGroupsAdded \/ PostGroupUpdated \/ Autorefresh
    \/ RunReload \/ RunCount \/ SearchForText \/ Deselect
    \/ \E text \in Texts : OnSearch(text)
    \/ \E r \in DOMAIN GroupList : Select(r)
    \/ \E g \in GroupNames : SelectTab(g)

Spec == Init /\ [][Next]_vars
-------------------------------------------------------------------------------
\* The tab that comes to the front is the one of the group shown in the row,
\* although the row is looked up in Results that the table need not have been
\* reloaded for, and the only tab of that group, however the group comes to be
\* selected again (tableViewSelectionDidChange, groupSelected).
OpensTheShown ==
    [][selected' # selected /\ front' # front =>
          /\ front' = rows[selected']
          /\ \E i \in DOMAIN tabs' : {j \in DOMAIN tabs' : tabs'[j] = front'} = {i}]_vars

\* Once all delays are over the table is filtered by the text entered last
\* (onSearch, searchForText).
LastSearchWins ==
    running /\ searches = << >> /\ typed # << >> => filter = Last(typed)

\* When nothing is under way any more the table shows all the groups that are
\* stored and pass the filter, unless its last reload ran before the Realm had
\* advanced: for that it is not reloaded again (GroupsTableView.GroupsAdded).
CompleteUnlessEarly ==
    queue = << >> /\ unposted = 0 /\ version = stored /\ ~early => rows = Groups
================================================================================
