--------------------------- MODULE GroupsTable_proofs ---------------------------
(***************************************************************************)
(* When the table of groups can be trusted, proved for any list of groups,  *)
(* any texts and any number of searches.                                    *)
(***************************************************************************)
EXTENDS GroupsTable, SiftingTheorems

Typed ==
    /\ stored \in Nat /\ version \in 0 .. stored
    /\ unposted \in Nat
    /\ queue \in Seq({"reload", "count"})
    /\ typed \in Seq(Texts) /\ searches \in Seq(Texts)

(* A table that is behind has a reload to come, or had its last too early. *)
ReloadComes == \E i \in DOMAIN queue : queue[i] = "reload"

Fresh == ReloadComes \/ unposted > 0 \/ early \/ rows = Filtered(filter, stored)

(* Of the searches whose delay is not over the last is the one entered last. *)
InOrder ==
    /\ typed = << >> => searches = << >>
    /\ searches # << >> => Last(searches) = Last(typed)
    /\ running /\ searches = << >> /\ typed # << >> => filter = Last(typed)

IInv == Typed /\ Fresh /\ InOrder

LEMMA InitIInv == Init => IInv
<1> SUFFICES ASSUME Init PROVE IInv
  OBVIOUS
<1>1. stored \in Nat
  BY DEF Init
<1> QED
  BY <1>1 DEF Init, IInv, Typed, Fresh, InOrder

(* Facts about the queue. *)
LEMMA Queued ==
    ASSUME NEW q \in Seq({"reload", "count"}), NEW r \in Seq({"reload", "count"})
    PROVE  /\ q \o r \in Seq({"reload", "count"})
           /\ \A i \in DOMAIN q : i \in DOMAIN (q \o r) /\ (q \o r)[i] = q[i]
           /\ r # << >> /\ r[1] = "reload" => \E i \in DOMAIN (q \o r) : (q \o r)[i] = "reload"
<1>1. r # << >> /\ r[1] = "reload" => (q \o r)[Len(q) + 1] = "reload" /\ Len(q) + 1 \in DOMAIN (q \o r)
  OBVIOUS
<1> QED
  BY <1>1, SMTT(60)

LEMMA Dequeued ==
    ASSUME NEW S, NEW q \in Seq(S), q # << >>
    PROVE  /\ Tail(q) \in Seq(S)
           /\ \A i \in DOMAIN q : i # 1 => i - 1 \in DOMAIN Tail(q) /\ Tail(q)[i - 1] = q[i]
           /\ Head(q) = q[1] /\ 1 \in DOMAIN q
OBVIOUS

LEMMA NoElement ==
    ASSUME NEW S, NEW q \in Seq(S)
    PROVE  q = << >> <=> Len(q) = 0
BY EmptySeq

LEMMA LastOfTail ==
    ASSUME NEW S, NEW q \in Seq(S), q # << >>
    PROVE  IF Tail(q) = << >> THEN Last(q) = Head(q) ELSE Last(q) = Last(Tail(q))
<1>1. Len(q) \in Nat /\ Len(q) > 0 /\ Len(Tail(q)) = Len(q) - 1 /\ Tail(q) \in Seq(S)
  OBVIOUS
<1>2. CASE Len(q) = 1
  <2>1. Tail(q) = << >>
    <3>1. Len(Tail(q)) = 0
      BY <1>1, <1>2
    <3> QED
      BY <1>1, <3>1, NoElement, Zenon
  <2> QED
    BY <1>2, <2>1 DEF Last
<1>3. CASE Len(q) > 1
  <2>1. Tail(q) # << >>
    <3>1. Len(Tail(q)) # 0
      BY <1>1, <1>3
    <3> QED
      BY <1>1, <3>1, NoElement, Zenon
  <2>2. Tail(q)[Len(q) - 1] = q[Len(q)]
    BY <1>1, <1>3
  <2> QED
    BY <1>1, <2>1, <2>2 DEF Last
<1> QED
  BY <1>1, <1>2, <1>3

(* What leaves the searches and the filter alone keeps them in order. *)
LEMMA OrderKept ==
    ASSUME IInv, UNCHANGED << typed, searches, filter >>, running' => running
    PROVE  InOrder'
BY DEF IInv, InOrder

LEMMA CommitGroupsStep ==
    ASSUME IInv, CommitGroups
    PROVE  IInv'
<1>1. PICK n \in stored + 1 .. Len(GroupList) : stored' = n
  BY DEF CommitGroups
<1>2. unposted' = unposted + 1 /\ UNCHANGED << version, typed, searches, filter, queue, running >>
  BY DEF CommitGroups, search
<1>3. Typed' /\ Fresh'
  BY <1>1, <1>2 DEF IInv, Typed, Fresh
<1> QED
  BY <1>2, <1>3, OrderKept DEF IInv

LEMMA PostGroupsAddedStep ==
    ASSUME IInv, PostGroupsAdded
    PROVE  IInv'
<1>1. /\ unposted > 0 /\ unposted' = unposted - 1
      /\ queue' = queue \o << "reload", "count" >>
      /\ UNCHANGED << stored, version, typed, searches, filter, running >>
  BY DEF PostGroupsAdded, Blocks, search
<1>2. << "reload", "count" >> \in Seq({"reload", "count"}) /\ queue \in Seq({"reload", "count"})
  BY DEF IInv, Typed
<1>3. ReloadComes'
  <2>1. \E i \in DOMAIN queue' : queue'[i] = "reload"
    BY <1>1, <1>2, Queued
  <2> QED
    BY <2>1 DEF ReloadComes
<1>4. Typed' /\ Fresh'
  <2>1. queue' \in Seq({"reload", "count"})
    BY <1>1, <1>2, Queued
  <2> QED
    BY <1>1, <1>3, <2>1 DEF IInv, Typed, Fresh
<1> QED
  BY <1>1, <1>4, OrderKept DEF IInv

LEMMA PostGroupUpdatedStep ==
    ASSUME IInv, PostGroupUpdated
    PROVE  IInv'
<1>1. /\ queue' = Append(queue, "reload")
      /\ UNCHANGED << stored, version, unposted, typed, searches, filter, running >>
  BY DEF PostGroupUpdated, search
<1>2. queue \in Seq({"reload", "count"})
  BY DEF IInv, Typed
<1>3. ReloadComes'
  <2>1. Len(queue) + 1 \in DOMAIN queue' /\ queue'[Len(queue) + 1] = "reload"
    BY <1>1, <1>2
  <2> QED
    BY <2>1 DEF ReloadComes
<1>4. Typed' /\ Fresh'
  BY <1>1, <1>2, <1>3 DEF IInv, Typed, Fresh
<1> QED
  BY <1>1, <1>4, OrderKept DEF IInv

LEMMA AutorefreshStep ==
    ASSUME IInv, Autorefresh
    PROVE  IInv'
<1>1. /\ version' = stored
      /\ UNCHANGED << stored, unposted, queue, rows, early, typed, searches, filter, running >>
  BY DEF Autorefresh, search, table
<1>2. Typed' /\ Fresh'
  BY <1>1 DEF IInv, Typed, Fresh, ReloadComes
<1> QED
  BY <1>1, <1>2, OrderKept DEF IInv

(* A reload leaves the table as it should be, or is known to be early. *)
LEMMA Reloaded ==
    ASSUME IInv, NEW text, filter' = text, ReloadData(Filtered(text, version)), stored' = stored
    PROVE  Fresh'
<1>1. rows' = Filtered(text, version) /\ early' = (version < stored)
  BY DEF ReloadData
<1>2. CASE version < stored
  BY <1>1, <1>2 DEF Fresh
<1>3. CASE version = stored
  BY <1>1, <1>3 DEF Fresh
<1> QED
  BY <1>2, <1>3 DEF IInv, Typed

LEMMA RunReloadStep ==
    ASSUME IInv, RunReload
    PROVE  IInv'
<1>1. /\ queue # << >> /\ queue' = Tail(queue)
      /\ ReloadData(Filtered(filter, version))
      /\ UNCHANGED << stored, version, unposted, typed, searches, filter, running >>
  BY DEF RunReload, Groups, search
<1>2. Typed'
  BY <1>1, Dequeued DEF IInv, Typed
<1>3. Fresh'
  BY <1>1, Reloaded
<1> QED
  BY <1>1, <1>2, <1>3, OrderKept DEF IInv

LEMMA RunCountStep ==
    ASSUME IInv, RunCount
    PROVE  IInv'
<1>1. /\ queue # << >> /\ Head(queue) = "count" /\ queue' = Tail(queue)
      /\ UNCHANGED << stored, version, unposted, rows, early, typed, searches, filter, running >>
  BY DEF RunCount, search, table
<1>2. queue \in Seq({"reload", "count"})
  BY DEF IInv, Typed
<1>3. Typed'
  BY <1>1, Dequeued DEF IInv, Typed
<1>4. ReloadComes => ReloadComes'
  <2> SUFFICES ASSUME NEW i \in DOMAIN queue, queue[i] = "reload" PROVE ReloadComes'
    BY DEF ReloadComes
  <2>1. i # 1
    BY <1>1, <1>2, Dequeued
  <2>2. i - 1 \in DOMAIN queue' /\ queue'[i - 1] = "reload"
    BY <1>1, <1>2, <2>1, Dequeued
  <2> QED
    BY <2>2 DEF ReloadComes
<1>5. Fresh'
  BY <1>1, <1>4 DEF IInv, Fresh
<1> QED
  BY <1>1, <1>3, <1>5, OrderKept DEF IInv

LEMMA OnSearchStep ==
    ASSUME IInv, NEW text \in Texts, OnSearch(text)
    PROVE  IInv'
<1>1. /\ typed' = Append(typed, text) /\ searches' = Append(searches, text)
      /\ UNCHANGED << stored, version, unposted, queue, rows, early, filter, running >>
  BY DEF OnSearch, table
<1>2. typed \in Seq(Texts) /\ searches \in Seq(Texts)
  BY DEF IInv, Typed
<1>3. Typed'
  BY <1>1, <1>2 DEF IInv, Typed
<1>5. Fresh'
  BY <1>1 DEF IInv, Fresh, ReloadComes
<1>4. Last(typed') = text /\ Last(searches') = text /\ typed' # << >> /\ searches' # << >>
  BY <1>1, <1>2, SMTT(60) DEF Last
<1> QED
  BY <1>3, <1>4, <1>5 DEF IInv, InOrder

LEMMA SearchForTextStep ==
    ASSUME IInv, SearchForText
    PROVE  IInv'
<1>1. /\ searches # << >> /\ searches' = Tail(searches)
      /\ UNCHANGED << stored, version, typed, unposted, queue >>
  BY DEF SearchForText
<1>2. \/ filter' = Head(searches) /\ ReloadData(Filtered(Head(searches), version)) /\ running' = running
      \/ running' = FALSE /\ UNCHANGED << filter, rows, early >>
  BY DEF SearchForText, NextSearch, table
<1>3. searches \in Seq(Texts) /\ typed \in Seq(Texts)
  BY DEF IInv, Typed
<1>4. Typed'
  BY <1>1, <1>3 DEF IInv, Typed
<1>5. Fresh'
  <2>1. CASE running' = FALSE /\ UNCHANGED << filter, rows, early >>
    BY <1>1, <2>1 DEF IInv, Fresh, ReloadComes
  <2>2. CASE filter' = Head(searches) /\ ReloadData(Filtered(Head(searches), version))
    BY <1>1, <2>2, Reloaded
  <2> QED
    BY <1>2, <2>1, <2>2
<1>6. InOrder'
  <2>1. typed # << >> /\ Last(searches) = Last(typed)
    BY <1>1 DEF IInv, InOrder
  <2>2. CASE Tail(searches) = << >>
    <3>2. Head(searches) = Last(searches)
      BY <1>1, <1>3, <2>2, LastOfTail
    <3>3. searches' = << >> /\ Last(typed') = Last(typed)
      BY <1>1, <2>2
    <3>4. running' => filter' = Last(typed')
      BY <1>2, <2>1, <3>2, <3>3
    <3> QED
      BY <3>3, <3>4 DEF InOrder
  <2>3. CASE Tail(searches) # << >>
    <3>1. Last(Tail(searches)) = Last(searches)
      BY <1>1, <1>3, <2>3, LastOfTail
    <3> QED
      BY <1>1, <2>1, <2>3, <3>1 DEF InOrder
  <2> QED
    BY <2>2, <2>3
<1> QED
  BY <1>4, <1>5, <1>6 DEF IInv

(* Selections and tabs. *)
LEMMA SelectionStep ==
    ASSUME IInv, \/ \E r \in DOMAIN GroupList : Select(r)
                 \/ Deselect
                 \/ \E g \in GroupNames : SelectTab(g)
    PROVE  IInv'
<1>1. /\ UNCHANGED << stored, version, unposted, queue, rows, early, typed, searches, filter >>
      /\ running' => running
  BY DEF Select, Deselect, SelectTab, search, table
<1>2. Typed'
  BY <1>1 DEF IInv, Typed
<1>3. Fresh'
  BY <1>1 DEF IInv, Fresh, ReloadComes
<1> QED
  BY <1>1, <1>2, <1>3, OrderKept DEF IInv

LEMMA Invariance == Spec => []IInv
<1>1. IInv /\ [Next]_vars => IInv'
  <2> SUFFICES ASSUME IInv, [Next]_vars PROVE IInv'
    OBVIOUS
  <2>1. ASSUME NEW text \in Texts, OnSearch(text) PROVE IInv'
    BY <2>1, OnSearchStep
  <2>2. CASE UNCHANGED vars
    <3>1. UNCHANGED << stored, version, unposted, queue, rows, early, typed, searches, filter,
                       running >>
      BY <2>2 DEF vars, search, table
    <3>2. Typed'
      BY <3>1 DEF IInv, Typed
    <3>3. Fresh'
      BY <3>1 DEF IInv, Fresh, ReloadComes
    <3> QED
      BY <3>1, <3>2, <3>3, OrderKept DEF IInv
  <2> QED
    BY <2>1, <2>2, CommitGroupsStep, PostGroupsAddedStep, PostGroupUpdatedStep, AutorefreshStep,
       RunReloadStep, RunCountStep, SearchForTextStep, SelectionStep DEF Next
<1> QED
  BY InitIInv, <1>1, PTL DEF Spec
-------------------------------------------------------------------------------
(***************************************************************************)
(* What a row stands for.  The table shows what passes the filter in some   *)
(* version the Realm has read; the Results may have grown since, but only   *)
(* at their end, so a row of the table is the same row of the Results.      *)
(***************************************************************************)
Bounded == stored <= Len(GroupList)

ShowsAVersion == \E v \in 0 .. version : rows = Filtered(filter, v)

TabsTyped == tabs \in Seq(GroupNames)

OneTabEach == \A i, j \in DOMAIN tabs : tabs[i] = tabs[j] => i = j

RowsInv == Bounded /\ ShowsAVersion /\ TabsTyped /\ OneTabEach

Inv == IInv /\ RowsInv

LEMMA RowsOfVersions ==
    ASSUME NEW text, NEW m \in 0 .. Len(GroupList), NEW n \in 0 .. m
    PROVE  /\ Filtered(text, n) \in Seq(GroupNames) /\ Filtered(text, m) \in Seq(GroupNames)
           /\ \A r \in DOMAIN Filtered(text, n) :
                 r \in DOMAIN Filtered(text, m) /\ Filtered(text, m)[r] = Filtered(text, n)[r]
<1> DEFINE s == WithinFirst(GroupList, Matching[text], n)
           t == WithinFirst(GroupList, Matching[text], m)
<1>1. GroupList \in Seq(GroupNames)
  BY GroupsTableAssumption DEF GroupNames
<1>2. n \in 0 .. Len(GroupList)
  BY <1>1
<1>3. s \in Seq(GroupNames) /\ t \in Seq(GroupNames)
  <2>1. s \in Seq(GroupNames)
    BY <1>1, <1>2, WithinFirstType
  <2>2. t \in Seq(GroupNames)
    BY <1>1, WithinFirstType
  <2> QED
    BY <2>1, <2>2
<1>4. Len(s) <= Len(t) /\ \A i \in 1 .. Len(s) : t[i] = s[i]
  <2>1. Continues(t, s)
    BY <1>1, WithinMore
  <2> QED
    BY <2>1 DEF Continues
<1> HIDE DEF s, t
<1>5. \A r \in DOMAIN s : r \in DOMAIN t /\ t[r] = s[r]
  BY <1>3, <1>4
<1> QED
  BY <1>3, <1>5 DEF s, t, Filtered

LEMMA InitRows == Init => RowsInv
<1> SUFFICES ASSUME Init PROVE RowsInv
  OBVIOUS
<1>1. Len(GroupList) \in Nat
  BY GroupsTableAssumption
<1>2. stored <= Len(GroupList) /\ version = stored /\ stored \in Nat
  BY <1>1 DEF Init
<1> QED
  BY <1>2 DEF Init, RowsInv, Bounded, ShowsAVersion, TabsTyped, OneTabEach

(* A group is given a tab only if it has none. *)
LEMMA Selected ==
    ASSUME RowsInv, NEW g \in GroupNames, GroupSelected(g)
    PROVE  /\ TabsTyped' /\ OneTabEach'
           /\ \E i \in DOMAIN tabs' : tabs'[i] = g
<1>1. tabs \in Seq(GroupNames) /\ \A i, j \in DOMAIN tabs : tabs[i] = tabs[j] => i = j
  BY DEF RowsInv, TabsTyped, OneTabEach
<1>2. CASE HasTab(g)
  <2>1. tabs' = tabs
    BY <1>2 DEF GroupSelected
  <2>2. \E i \in DOMAIN tabs : tabs[i] = g
    BY <1>2 DEF HasTab, ToSet
  <2> QED
    BY <1>1, <2>1, <2>2 DEF TabsTyped, OneTabEach
<1>3. CASE ~HasTab(g)
  <2>1. tabs' = Append(tabs, g)
    BY <1>3 DEF GroupSelected
  <2>2. \A i \in DOMAIN tabs : tabs[i] # g
    BY <1>3 DEF HasTab, ToSet
  <2>3. tabs' \in Seq(GroupNames) /\ Len(tabs) + 1 \in DOMAIN tabs' /\ tabs'[Len(tabs) + 1] = g
    BY <1>1, <2>1
  <2>4. ASSUME NEW i \in DOMAIN tabs', NEW j \in DOMAIN tabs', tabs'[i] = tabs'[j] PROVE i = j
    <3>1. \A k \in DOMAIN tabs' : (k \in DOMAIN tabs /\ tabs'[k] = tabs[k])
                                \/ (k = Len(tabs) + 1 /\ tabs'[k] = g)
      BY <1>1, <2>1
    <3> QED
      BY <1>1, <2>2, <2>4, <3>1
  <2> QED
    BY <2>3, <2>4 DEF TabsTyped, OneTabEach
<1> QED
  BY <1>2, <1>3

(* The row of the table is the row of the Results. *)
LEMMA RowIsShown ==
    ASSUME IInv, RowsInv, NEW r \in DOMAIN rows
    PROVE  Groups[r] = rows[r] /\ Groups[r] \in GroupNames
<1>1. PICK v \in 0 .. version : rows = Filtered(filter, v)
  BY DEF RowsInv, ShowsAVersion
<1>2. version \in 0 .. Len(GroupList)
  BY GroupsTableAssumption DEF IInv, Typed, RowsInv, Bounded
<1>3. /\ r \in DOMAIN Filtered(filter, version)
      /\ Filtered(filter, version)[r] = Filtered(filter, v)[r]
      /\ Filtered(filter, v) \in Seq(GroupNames)
  BY <1>1, <1>2, RowsOfVersions
<1> QED
  BY <1>1, <1>3 DEF Groups

(* What leaves the tabs alone and shows at most what the Realm reads. *)
LEMMA RowsKept ==
    ASSUME RowsInv, stored' <= Len(GroupList), version \in Nat, version' \in Nat,
           version <= version', UNCHANGED << rows, filter, tabs >>
    PROVE  RowsInv'
<1>1. PICK v \in 0 .. version : rows = Filtered(filter, v)
  BY DEF RowsInv, ShowsAVersion
<1>2. v \in 0 .. version' /\ rows' = Filtered(filter', v)
  BY <1>1
<1> QED
  BY <1>2 DEF RowsInv, Bounded, ShowsAVersion, TabsTyped, OneTabEach

LEMMA ReloadRows ==
    ASSUME RowsInv, version \in Nat, ReloadData(Filtered(filter', version)),
           UNCHANGED << stored, version, tabs >>
    PROVE  RowsInv'
<1>1. version' \in 0 .. version' /\ rows' = Filtered(filter', version')
  BY DEF ReloadData
<1> QED
  BY <1>1 DEF RowsInv, Bounded, ShowsAVersion, TabsTyped, OneTabEach

LEMMA RowsStep ==
    ASSUME IInv, RowsInv, [Next]_vars
    PROVE  RowsInv'
<1>0. /\ stored \in Nat /\ version \in Nat /\ version <= stored /\ stored <= Len(GroupList)
      /\ Len(GroupList) \in Nat
  BY GroupsTableAssumption DEF IInv, Typed, RowsInv, Bounded
<1>1. CASE CommitGroups
  <2>1. stored' <= Len(GroupList) /\ UNCHANGED << version, rows, filter, tabs >>
    BY <1>0, <1>1 DEF CommitGroups, search, table, tabView
  <2> QED
    BY <1>0, <2>1, RowsKept
<1>2. CASE Autorefresh
  <2>1. version' = stored /\ UNCHANGED << stored, rows, filter, tabs >>
    BY <1>2 DEF Autorefresh, search, table, tabView
  <2> QED
    BY <1>0, <2>1, RowsKept
<1>3. CASE \/ PostGroupsAdded \/ PostGroupUpdated \/ RunCount \/ Deselect \/ UNCHANGED vars
           \/ \E text \in Texts : OnSearch(text)
           \/ \E g \in GroupNames : SelectTab(g)
  <2>1. UNCHANGED << stored, version, rows, filter, tabs >>
    BY <1>3 DEF PostGroupsAdded, PostGroupUpdated, RunCount, Deselect, OnSearch, SelectTab,
                vars, search, table, tabView
  <2> QED
    BY <1>0, <2>1, RowsKept
<1>4. CASE RunReload
  <2>1. ReloadData(Filtered(filter', version)) /\ UNCHANGED << stored, version, tabs >>
    BY <1>4 DEF RunReload, Groups, search, tabView
  <2> QED
    BY <1>0, <2>1, ReloadRows
<1>5. CASE SearchForText
  <2>1. UNCHANGED << stored, version, tabs >>
    BY <1>5 DEF SearchForText, tabView
  <2>2. \/ ReloadData(Filtered(filter', version))
        \/ UNCHANGED << rows, filter >>
    BY <1>5 DEF SearchForText, table
  <2> QED
    BY <1>0, <2>1, <2>2, ReloadRows, RowsKept
<1>6. ASSUME NEW r \in DOMAIN GroupList, Select(r) PROVE RowsInv'
  <2>1. r \in DOMAIN rows /\ GroupSelected(Groups[r]) /\ UNCHANGED << stored, version, rows, filter >>
    BY <1>6 DEF Select, search
  <2>2. TabsTyped' /\ OneTabEach'
    BY <2>1, RowIsShown, Selected
  <2> QED
    BY <2>1, <2>2 DEF RowsInv, Bounded, ShowsAVersion
<1> QED
  BY <1>1, <1>2, <1>3, <1>4, <1>5, <1>6 DEF Next

LEMMA RowsInvariance == Spec => []Inv
<1>1. RowsInv /\ IInv /\ [Next]_vars => RowsInv'
  BY RowsStep
<1> QED
  BY InitRows, Invariance, <1>1, PTL DEF Spec, Inv
-------------------------------------------------------------------------------
(* The search that was entered last is the one that stays (onSearch). *)
THEOREM LastSearchStays == Spec => []LastSearchWins
<1>1. IInv => LastSearchWins
  BY DEF IInv, InOrder, LastSearchWins
<1> QED
  BY <1>1, Invariance, PTL

(* With nothing under way, only a reload ahead of the Realm can have left the *)
(* table without a group that is stored (GroupsTableView.GroupsAdded).        *)
THEOREM CompleteTable == Spec => []CompleteUnlessEarly
<1>1. ASSUME IInv, queue = << >>, unposted = 0, version = stored, ~early
      PROVE  rows = Groups
  <2>1. ~ReloadComes
    BY <1>1 DEF ReloadComes
  <2>2. rows = Filtered(filter, stored)
    BY <1>1, <2>1 DEF IInv, Fresh, Typed
  <2> QED
    BY <1>1, <2>2 DEF Groups
<1>2. IInv => CompleteUnlessEarly
  BY <1>1 DEF CompleteUnlessEarly
<1> QED
  BY <1>2, Invariance, PTL

(***************************************************************************)
(* Whatever has been committed, read and not yet reloaded, a click on a row *)
(* brings the only tab of the group to the front that the row shows         *)
(* (tableViewSelectionDidChange, groupSelected).                            *)
(***************************************************************************)
THEOREM TabOfTheShown == Spec => OpensTheShown
<1>1. ASSUME Inv, [Next]_vars, selected' # selected, front' # front
      PROVE  /\ front' = rows[selected']
             /\ \E i \in DOMAIN tabs' : {j \in DOMAIN tabs' : tabs'[j] = front'} = {i}
  <2>1. PICK r \in DOMAIN GroupList : Select(r)
    BY <1>1 DEF Next, CommitGroups, PostGroupsAdded, PostGroupUpdated, Autorefresh, RunReload,
                RunCount, SearchForText, Deselect, OnSearch, SelectTab, vars, search, table, tabView
  <2>2. r \in DOMAIN rows /\ selected' = r /\ GroupSelected(Groups[r]) /\ front' = Groups[r]
    BY <2>1 DEF Select, GroupSelected
  <2>3. Groups[r] = rows[r] /\ Groups[r] \in GroupNames
    BY <1>1, <2>2, RowIsShown DEF Inv
  <2>4. OneTabEach' /\ \E i \in DOMAIN tabs' : tabs'[i] = front'
    BY <1>1, <2>2, <2>3, Selected DEF Inv
  <2> QED
    BY <2>2, <2>3, <2>4 DEF OneTabEach
<1>2. Inv /\ [Next]_vars =>
         [selected' # selected /\ front' # front =>
              /\ front' = rows[selected']
              /\ \E i \in DOMAIN tabs' : {j \in DOMAIN tabs' : tabs'[j] = front'} = {i}]_vars
  BY <1>1
<1> QED
  BY <1>2, RowsInvariance, PTL DEF Spec, OpensTheShown
================================================================================
