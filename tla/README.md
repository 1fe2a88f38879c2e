# EasyNews: models, checks and proofs

EasyNews is a macOS reader for Usenet: it talks NNTP to one server, keeps the
groups and article headers it has seen in a local Realm database, and shows and
decodes articles.  This directory holds TLA+ models of its own core logic, the
configurations that check them with TLC, and theorems about them that TLAPS
checks.

In what follows `E/` is `src/MacOS/Storyboard/EasyNews/`, and `R/` is
`src/MacOS/Storyboard/Pods/Realm/Realm/`.

## 1. Inventory

| part | code | state | operations | works with |
|---|---|---|---|---|
| News reader | `src/NNTP/NewsReader.swift` | two streams, `_connected`, `resultsComing`, `currentOperation`, `currentGroupCommand`, `articleId`, `article`, `response` | open, close, send, four requests, the stream handler | the server (TCP), its delegate (callbacks) |
| Commands | `E/Views/Reader Commands/*.swift` | the group, the ids, `idx` | react to "Connected", "NextArticle", "Done" and to data | reader, library, notifications |
| Library | `src/NNTP/ReaderBox.swift`, `E/NNTP/NewsModels.swift` | the database; one Realm instance per thread | find, find-or-create, write transactions | all commands, all views |
| Group tab | `E/Views/Articles Tab/GroupTabView.swift` | its group, its view model | refresh; starts a header command per notification; adds headers to the view | commands (start, notifications) |
| Articles view | `E/Views/Articles Tab/ArticlesTableVM.swift`, `E/Views/String+Extension.swift` | list of threads, two caches | addArticle | group tab |
| Article display | `E/Views/Articles Tab/MeganTableView.swift` | the result set, the text shown | selection, download, uudecode | article command, child processes |
| Groups table, tabs | `E/Views/Groups/*.swift`, `E/Main/MainVC.swift` | live result set, search text, tab cache | search, select, refresh groups | library, group tab |
| Thread play | `E/Views/Windows/ThreadPlayVC.swift` | references to test groups | producer, consumer | library |
| Realm's ObjectStore | `R/ObjectStore/src/` (`impl/realm_coordinator.cpp`, `impl/collection_notifier.cpp`, `impl/results_notifier.cpp`, `shared_realm.cpp`, `results.cpp`), `R/RLMRealmUtil.mm` | per Realm its version; per file the notifiers, the worker, the skip version, the notification pipe | transactions, refresh, autorefresh, notifications of live Results | library (transactions), groups table (live Results), every thread (its Realm) |
| Helpers, shell | `E/Views/*+Extension.swift`, `E/App/` | none | formatting, names of notifications | |

Of the vendored code the part of Realm's ObjectStore that the application's
correctness rests on is treated like its own; the rest (Realm Core, of which only
the headers are there, the sync client, the language layers, the yEnc gem under
`src/tools/`) and `ListGroupArticlesCommand.swift`, which nothing starts, are left
aside.

How the parts interact.  Every command has a reader of its own, and every reader
a thread of its own with a run loop; the stream handler, the command's callbacks,
the database transactions and the observers of the notifications a command posts
all run on that thread, one inside the other.  Commands meet only in the database
(Realm serialises write transactions) and in the view models (which nothing
serialises).

What is hard here:

* A read returns whatever has arrived.  The reader interprets every read at
  once, before the results come as a whole status line, afterwards as a number of
  whole lines, and for headers as one whole header.  Most of what can go wrong in
  `NewsReader.swift` depends on where the network cuts.
* Two objects advance together: the command's `idx` and the reader's `articleId`.
* Nothing closes a connection after a refusal.
* Several commands find or create the same groups and articles at once; a crash
  or a stalled connection can come between an article and its header.
* Articles are looked up by number alone, although every group has its own
  numbers.
* View models are changed from reader threads; one of them then waits for the
  main thread, which itself waits for child processes.
* The table of groups is live: what it shows, what the label counts and what a
  selected row means change at different moments.
* Threads come and go, and with them the keys under which their Realms are found.
* Realm's worker runs queries at versions of its own, under a lock that it lets
  go between the steps, while Realms move on, notifiers come and go and a writer
  waits for it.

`PROJECT.json` lists each of these, with its line, under `hazards`.

What makes each part correct:

* Reader: log in before anything else; hand over what was asked for, once, in
  order, under the right id; close when, and only when, that is done.
* Library: no group and no article twice; an article stays in its group; each
  header is fetched once, from the right group.
* Articles view: every displayed article once, parts of one post together.
* Article display: the text shown belongs to the article selected; who waits for
  the main thread is served.
* Groups table: a selected row is the group shown there; one tab per group; the
  last search counts; no group is missing.
* Realm: versions only move forward, one Realm per thread, each change of a live
  result is told once and at the version that the thread reads, and no thread
  waits for ever.

## 2. Modules

| module | what it is |
|---|---|
| `Sifting` | filters of sequences, as recursive functions |
| `SiftingTheorems` | induction over numbers and sequences; what filters and flattening do |
| `Text` | texts as sequences of tokens; `splitter`, `split`, `starts(with:)` |
| `NewsReader` | one connection: server, network, reader and command |
| `Retrieval` | abstract: what a connection promises |
| `NewsReader_proofs` | inductive invariant and theorems |
| `MCNewsReader` | its small instances |
| `Library` | the database and all running commands |
| `Catalogue` | abstract: what the database promises |
| `MCLibrary` | its small instances |
| `Library_proofs` | inductive invariant and theorems |
| `Coordinator` | the Realms of one file, live Results, and the worker |
| `Transactions` | abstract: what the ObjectStore promises its threads |
| `ThreadRealms` | which Realm each thread works on |
| `ArticlesView` | the posts of a group's tab, and the threads that add to them |
| `Display` | selections, the main queue, uudecode |
| `GroupsTable` | the table of groups, its search, label and tabs |
| `Decoding` | the bytes of the reads and the text made of them (theorems in `Display_proofs`) |
| `MC...`, `..._proofs` | the small instances of each, and the theorems about them |

The modules share nothing by `EXTENDS` but `Text` and `Sifting`; where one part
meets another, each says what it takes from it: `Library` what `NewsReader` shows
of an orderly connection, `GroupsTable` that commits come from other threads in
any number, that the main thread's Realm follows (which is `ReachesEveryCommit` of
`Coordinator`) and that live Results show what their query finds at the Realm's
version (which `Coordinator` shows for Results that are used between two
deliveries only, see section 5), `Coordinator` that every Realm has a thread of
its own (which is `ConfinedToThread` of `ThreadRealms`), `Display` and
`ArticlesView` that headers come on several threads at once.  The three
refinements (`Retrieval`, `Catalogue`, `Transactions`) are those promises written
down.

### NewsReader

One connection and the one command that is its delegate.  The variables are the
Swift fields of the same names, plus the wire (what the server has written and
nobody has read), the requests not yet answered, the program counter `pc` (in the
run loop, or inside the read loop of `readAvailableBytes`), and histories: the
delegate calls that carried data, everything the server wrote, and `orderly`.

* **Texts.**  A token is a run of characters no property looks into; `CRLF` and
  `.` are tokens.  A read takes any nonempty number of tokens, so a line that a
  read can cut in two is written as two tokens.  Reads longer than 4096 bytes and
  shorter ones are the same to this model: all cuts between two tokens are
  allowed.  A line break is one token, so a read that ends between its two
  characters is not among them (section 6).
* **One step** is one pass of the loop in `readAvailableBytes` with everything it
  calls: the split, the delegate's callback and the request or close the callback
  makes (`ReadStatus`, `ReadArticle`, `ReadHeader`, `ReadArticleIds`,
  `ReadGroups`).  The loop ends when no bytes have arrived yet, which may be at
  any point; the rest of the last line then goes to `processResponse`
  (`LoopExit`).
* **The server** is external: it greets, answers each request with one reply, in
  order, and in each instance may refuse the login, the group or an article, or
  hang up with 205.
* **The credentials** are not part of the model; a login is accepted or refused.
* **orderly** is true while every read has ended where the reader assumes.  What
  it assumes was found by weakening the condition until TLC objected: a status
  line in one read and nothing behind it (`CleanStatus`); a list cut anywhere,
  but a read without a line break must end just before one, and what a read leaves
  of the next line must not look like a status line (`CleanList`; this second
  condition came out of the proof of `Lockstep`, since a list of article numbers
  is free to have a line that begins with "211 "); an article cut anywhere, but
  each read brings a line break, and what it leaves of the next line is no reply
  (`CleanBody`); a header in one read, alone (`CleanHeader`).

`Retrieval` says what a command may expect: the items it asked for, in order, each
once, in any number of portions, then the end.  The server may refuse the command,
and then nothing more comes and the connection is left open until the server hangs
up; after that it may end with less.  `NewsReader` implements it on orderly reads:
its steps are steps of `Retrieval` (`KeepsPromise`, which is proved), and it comes
to an end (`GetsAnswer`, which is left to TLC).

### Library

The database in its committed and its uncommitted version (`store`, `draft`), the
thread whose write transaction is open (`writer`), and for each thread the
command it runs (`job`).  Each callback is cut where other threads can come in:
begin of the transaction, each entry of the portion, commit, post.  `asked` is a
history.

* The connection is what `NewsReader` shows of an orderly one: a list arrives in
  order, in portions cut anywhere, the last with the terminator; the k-th header
  is that of the k-th id.  It may stall at any point where it waits (`Stall`),
  which also stands for refusals, hang-ups and connections cut badly.
* `Crash` loses the open transaction and all commands.
* Realm is external: a transaction begins from the latest version, excludes all
  others and is durable as a whole.
* A subject is abstracted to where it came from: `<<group, number>>` of the HEAD
  that brought it; the other fields of an article follow it.
* Tabs are never closed, so the observer that starts the header command is always
  there, once per group.

`Catalogue` says what the database promises of its articles: once known, always
known and always in the same group, added a portion at a time without headers,
each header added once.

### Coordinator

The Realms of one file and what they share in Realm's `RealmCoordinator`.  A
version is its number; of the data there is one table, which all live Results
query, as the set of versions that changed it (`touched`).  The result of a query
is the last such version it saw, and a change set is the set of versions between
two results.  `lapsed` is a history: a result has been delivered while the one
before had not been used, which is when the code stops running the query of
Results without a block (`DeliverTo`).

* **Cuts.**  What runs under `m_notifier_mutex` is one action; so is what a
  Realm's thread does between two uses of it.  The worker (`run_async_notifiers`)
  is cut wherever it lets the mutex go: it takes the notifiers over
  (`SelectNotifiers`), runs the old ones up to the skip version (`RunToSkip`),
  hands their results over (`HandOverSkipped`), brings in the new ones and runs
  all (`RunNotifiers`, `HandOverNew`), hands over again (`HandOver`), and signals
  the Realms (`SignalRealms`).  Packaging and delivery are cut from each other,
  as in `process_available_async`.
* **Threads.**  A Realm's thread begins a transaction (and waits for the worker's
  results with the write lock in its hands, `Promoted`), commits or cancels,
  refreshes, is signalled, registers Results, evaluates or drops them.
* **The worker's two transactions** are `advancer` (for new notifiers) and
  `helper` (for the others); 0 says that they do not read.
* Realm Core (versions, read locks, the write lock) is external.

`Transactions` is what the threads may rely on: versions are committed one after
the other, each Realm reads one and is only moved forward, and never while it
writes.

### ThreadRealms

Which Realm `ReaderBox.realm` gives to each connection's thread: by its own
dictionary, keyed by the description of the thread and shared without a lock, and
behind that by Realm's cache, keyed by `pthread_t` and with weak values.  A Realm
is called by the thread that made it; its run-loop source stays with that thread
(`home`).  A write to the dictionary beside another may be lost.  A thread handles
a notification (`Handle`, `StoreRealm`, `FindGroup` or `MissGroup`), writes
(`BeginWrite`, `CommitWrite`, each of which looks the Realm up anew and stores what
it has found) or returns,
and ends when its connection is closed; a later one may be given its `pthread_t`.

### ArticlesView

`ArticlesTableVM.addArticle`, cut where it reads and writes its array and its
two caches, on any number of threads.  Of a subject two things count: what it
leaves without its `(n/m)` (`Key`) and n (`FileNumber`).  While a second thread is
in there a write may be lost or the program may end (`Trap`).  A key may be the
number of another article, since one cache is keyed by both.

### Display

The tab's article view: each selection opens a connection; what arrives is put on
the main queue, scanned for an encoded picture there, decoded by uudecode and
opened while the main thread waits, and shown.  Header threads put reloads on the
same queue and wait for them.  `rivals` is a history: of each selection, which
earlier ones were still under way when it was made.  An article is what the scan
tells apart: a `begin` line, one that names a picture, a third word in it, an
`end` line, and whether uudecode finds a complete encoding between them.
uudecode's input is never closed, so on anything else it never ends.

### GroupsTable

The main window on the main thread: rows as of the last reload, live Results as of
the Realm's version, the delayed searches, the label, the tabs.  That the Results
keep up with the Realm is taken for granted; section 5 says when they do not.
Other threads commit groups and post a notification behind each commit; the Realm
advances some time after, before or behind the block of that notification.  A
cleared selection and a search text with a quote end the program, as they do in
the code.

### Decoding

What `NewsReader` takes for granted: the text of a read.  Every read fills the
front of one buffer and is decoded alone, as UTF-8 or else as ASCII.  A byte is
its character and its place in that; characters of one and of two bytes and bytes
that are no UTF-8 stand for all.

## 3. Runs

| run | instance | question |
|---|---|---|
| `reader_any` | each command; a list of three lines, two ids; all refusals; every cut | what holds however the network cuts, and on orderly reads |
| `reader_promise` | each command, a line that looks like a status line, all refusals, orderly reads | refinement of `Retrieval`; that it comes to an end |
| `library_safety` | two groups with two articles each, one number in common; three connections; stalls and crashes | invariants, refinement of `Catalogue` |
| `library_steady` | the same, without stalls and crashes | every header arrives |
| `realm_blocks` | the main thread's Realm and a reader's; live Results with a block; both write; three versions | what blocks are told, at which version; refinement of `Transactions` |
| `realm_results` | the main thread's live Results without a block; the reader's writes; five versions | expected to fail: section 5 |
| `realm_live` | live Results in each of the two Realms, the writer's with a block and the main thread's without; the reader's writes; two versions; fairness | the worker's order; what is delivered is fresh; every commit arrives, every wait ends |
| `threads_safety` | two threads, two `pthread_t`, four versions | which Realm a thread works on, and what it sees |
| `threads_reflected` | the same | expected to fail: section 5 |
| `display_all` | a text, a picture, a part of one, a line with a picture but no name; two header threads; three selections. And all texts of up to four characters of four kinds, a buffer of three bytes | who is served, what is shown; text and bytes |
| `articles_all` | two parts of a post, one article by itself, one without subject, one whose key is another's number; two threads | posts, label, subjects |
| `groups_all` | three groups; three texts, one with a quote; two searches | selection, search, completeness |

What they show.

* However the replies are cut, nothing but the login is sent before access is
  granted (`LoginFirst`), the k-th header carries the k-th id
  (`KthHeaderHasKthId`), no word of a list of articles or of an article is lost or
  moved once the results come, unless it could announce a status line
  (`NothingLostAfterStatus`), and a closed connection is quiet (`QuietOnceClosed`).
* What depends on the cuts: that request and reply alternate (`Lockstep`), and
  that lists, headers and articles arrive whole and nothing is closed before
  (`KeepsPromise`).  Every command finishes or is refused (`GetsAnswer`).  A
  refused login, an unknown group and a missing article leave the connection open
  until the server hangs up; a missing article among several headers does not.
* No interleaving of refreshes stores an article or group twice (`StoredOnce`).
  The price: a number belongs to the first group that listed it; the article of
  that number in another group is never stored or shown.  But no header ends up at
  another group's article (`HeaderFromOwnGroup`), because headers are asked for
  only by the command that created the article (`HeadersAreOfStored`).
* `NewsGroup.articles` has every article twice, so the "loaded" column shows twice
  the number of articles (`LoadedTwice`).
* A header is asked for at most once, ever (`HeaderAskedOnce`): one that is lost,
  with its connection or in a crash, is lost for good (`LostHeaderStaysLost`).
  Without such losses all of them arrive (`HeadersArrive`).  The committed
  articles only ever change as a `Catalogue` does (`KeepsCatalogue`).
* The worker never goes back, nor runs without a version held for it, and all it
  has handed over is of one version (`WorkerInOrder`).  So a Realm that packages
  results, and is moved on by a refresh before they are delivered, either fits
  them or throws them away (`HandedOverAtItsVersion`).  From its first call on a
  block is told every change once (`EachChangeOnce`; the first call says only that
  there is a result), up to the version its Realm reads (`ToldWhereItIs`), and
  finds a result of that version (`FreshIfKeptUp`).  A comment at
  `realm_coordinator.cpp:893-894` expects results to be thrown away only when the
  version was changed outside of its control.  It also happens when the Realm's own
  commits are ahead of the worker; nothing is lost by it, since the changes have
  been told by then or precede the first call.
* Results without a block are held to less.  Once one of their results has been
  delivered and the one before had not been used, the worker runs their query no
  more (`need_to_run`).  A result that was handed over by then and not packaged is
  given the version of every later run, which did not look at it, and is delivered
  as one of the Realm's version; nothing runs the query again until the table
  changes once more.  So they are fresh as long as each result is used before the
  next is delivered (`FreshIfKeptUp`, in `realm_live`), and not always
  (`AlwaysReflect`, in `realm_results`, section 5).
* Every commit reaches every thread with a run loop (`ReachesEveryCommit`), and a
  writer that waits for the worker with the write lock in its hands is let go
  (`WaitsEnd`): the worker needs no lock of Core's that a writer has.
* Although the dictionary of Realms loses writes, no two live threads work on one
  Realm (`ConfinedToThread`), and a transaction is committed on the Realm it was
  begun on (`CommitsWhatItBegan`), because Realm's own cache finds it again.  A
  thread that is given an ended thread's `pthread_t` is given its Realm too, at an
  old version: it may not find a group that has been stored since
  (`MissedOnInherited`; its connection then waits for ever), and it sees no later
  commit (`threads_reflected`), while a Realm of the thread's own does
  (`ReflectedInOwn`).
* Parts of a post share one outline, each once and in order, as long as only one
  thread adds (`PostsWhole`); two at once may lose one.  Whatever happens, the
  label is never ahead of the outlines and behind by no more than the threads that
  have yet to reload, hence agrees with them once all is quiet (`CountInStep`).  An
  article loses its place under its subject only when what that subject leaves
  without its `(n/m)` is the number of another article that has arrived
  (`SubjectsKept`).
* An article that is shown gives way to one of an earlier selection only if that
  one was still under way when it was selected (`GivesWayToRivals`): a user in a
  hurry sees what arrives last, one who waits for each article the last one
  selected.  Header threads get their reload and articles are shown
  (`ReadersReturn`, `ArrivedIsShown`) until the main thread is caught by uudecode on
  an incomplete encoding (the first part of a picture of several, for instance), or
  a `begin` line without a name ends the program; from then on nobody is.
* The table opens the group it shows in the row, in that group's only tab
  (`OpensTheShown`): rows and live Results agree as far as the row goes, because
  groups are never removed and come in the order they were created in.  The last
  search counts (`LastSearchWins`).  A table that is quiet misses a group
  only if its last reload ran before the Realm had advanced
  (`CompleteUnlessEarly`), and then until something else reloads it.
* Reads that end between characters lose nothing (`ExactUnlessDamaged`); others
  lose or mark what they cut, and invent nothing (`NothingInvented`).

Bounds.

* `MaxServed`: the server falls silent after so many tokens.  The instances stay
  far below it on orderly reads (a whole dialogue has fewer than 40 tokens); it
  only cuts off the dialogues in which a misunderstood header or a look-alike
  line makes the reader send requests without end.
* Lists of three lines and two ids: enough for a cut in the first, a middle and
  the last line, for a second id to be confused with the first, and for a
  portion before, around and after each line.  Each kind of line that is treated
  differently occurs once (cut so that the second half still parses, not
  parsable, dot-stuffed, look-alike).
* `Library`, `Threads`: three connections at once.  Two lists of different groups
  and the headers of one, or one list and the headers of two portions, can
  overlap.  A list is started only if a thread stays free for its headers
  (`Room`): without that the bound itself could block all threads.  The code has
  no such limit.  Nothing bounds refreshes, stalls or crashes: the state spaces
  are finite without.
* `Coordinator`, `MaxVersion`: a commit by the other thread and one by the Realm's
  own, in either order and at any point of the worker's run, make three versions,
  which is what a skip version between two results needs; with two, some of the
  mutants survive.  `realm_live` has a second notifier, in the writer's own Realm,
  so that a notifier is new while another runs and a writer waits while there is a
  version to skip to; it keeps two versions to stay within minutes.  A stale
  result without a block takes four commits behind the first version (two results
  of which none is used, one that is handed over and not packaged, and one more
  run), hence the five versions of `realm_results`, which leaves out the refreshes
  and the second writer to make up for it.  In `realm_live` no result can be stale
  in this way yet; that none is, in however many versions, as long as each is used
  in time, is left to the theorem (`ViewsAreFresh`).
* `ThreadRealms`: the second thread is given a `pthread_t` of its own, or the
  first's; four versions let both write and the main thread commit before.  The
  theorems cover any numbers.
* `Display`, `MaxSelections`: three selections, so that one can arrive before,
  between and after two others; each kind of article is there once.
* `ArticlesView`: each kind of subject once, two parts of one post; two threads
  interleave at every cut.  Each article arrives once, as `HeaderAskedOnce` says.
* `GroupsTable`, `MaxSearches`, `MaxUpdates`: two searches pending at once, one
  reload that no commit has caused, three groups of which a search hides one.
* `Decoding` shares no state with `Display`: a text is decoded on the thread of its
  connection before it is shown.  `display_all` takes one or the other; together
  they would only multiply.
* `Decoding`, `maxReadLength`, `MaxText`: the buffer holds one character and a
  half, so that a read leaves bytes of an older one behind it; four characters
  give a damaged one something in front and behind.

Deadlock is checked for `Library`.  The others do stop: a connection that is
closed, an idle database whose version bound is reached, a program that has ended,
a text that is read.

Fairness.

* `OrderlySpec`: the reader's thread and the server are weakly fair, that is, the
  run loop calls the handler while there are bytes, and the server answers; only
  orderly steps are taken or promised.  Without the second assumption no client
  could finish; without orderly reads this one may wait for ever for a status line
  it has thrown away.
* `SteadySpec`: each thread is weakly fair.  Realm's write lock is not assumed to
  be fair, so `HeadersArrive` is claimed once the user stops refreshing, when only
  finitely many transactions are left.
* `Coordinator`: the listener's thread is weakly fair, as are the run loops
  (`Notify`), a thread that is let go on (`Proceed`), and a writer with what it
  has begun (`EndTransaction`: every `beginWrite` of the application is followed
  by a commit on the same thread, with nothing to wait for between).  Nobody need
  begin anything.
* `ThreadRealms`: the run loop serves its source, and a handler goes on to its
  end.  No thread need write, or end.
* `Display`: the main thread takes its blocks, child processes that can end do, and
  a connection answers or fails.  The user need do nothing.

Every property has a mutant in `PROJECT.json`: a variant of one definition, named
in the module before it, that a plausible slip in the code would produce and that
violates the property.

## 4. Proofs

TLAPS checks, for all values of the constants that satisfy the assumptions:

| theorem | statement |
|---|---|
| `NewsReader_proofs!SplitterTyped`, `SplitterKeepsText` | `splitter` returns texts; it loses nothing but the break it cuts at |
| `NewsReader_proofs!TypeCorrect` | `Spec => []TypeOK` |
| `NewsReader_proofs!LoginIsFirst` | `Spec => []LoginFirst` |
| `NewsReader_proofs!HeadersInStep` | `Spec => []KthHeaderHasKthId` |
| `NewsReader_proofs!ClosedIsQuiet` | `Spec => QuietOnceClosed` |
| `NewsReader_proofs!RequestAndReply` | `Spec => []Lockstep` |
| `NewsReader_proofs!NothingIsLost` | `Spec => []NothingLostAfterStatus` |
| `NewsReader_proofs!PromiseKept` | `ProperPayload` implies `OrderlySpec => KeepsPromise` (refinement) |
| `Library_proofs!TypeCorrect` | `Spec => []TypeOK` |
| `Library_proofs!NothingTwice` | `Spec => []StoredOnce` |
| `Library_proofs!LoadedIsTwice` | `Spec => []LoadedTwice` |
| `Library_proofs!NoForeignHeader` | `Spec => []HeaderFromOwnGroup` |
| `Library_proofs!HeadersOfStored` | `Spec => []HeadersAreOfStored` |
| `Library_proofs!AskedAtMostOnce` | `Spec => []HeaderAskedOnce` |
| `Library_proofs!LostIsLost` | `Spec => LostHeaderStaysLost` |
| `Library_proofs!IsACatalogue` | `Spec => KeepsCatalogue` (refinement) |
| `Coordinator_proofs!WorkerKeepsOrder` | `Spec => []WorkerInOrder` |
| `Coordinator_proofs!HandoversFit` | `Spec => []HandedOverAtItsVersion` |
| `Coordinator_proofs!TransactionsKept` | `Spec => KeepsTransactions` (refinement) |
| `Coordinator_proofs!EachToldOnce` | `Spec => []EachChangeOnce` |
| `Coordinator_proofs!ToldInStep` | `Spec => ToldWhereItIs` |
| `Coordinator_proofs!ViewsAreFresh` | `Spec => []FreshIfKeptUp` |
| `ThreadRealms_proofs!TypeCorrect` | `Spec => []TypeOK` |
| `ThreadRealms_proofs!Confined` | `Spec => []ConfinedToThread` |
| `ThreadRealms_proofs!CommitsItsOwn` | `Spec => []CommitsWhatItBegan` |
| `ThreadRealms_proofs!MissesOnInherited` | `Spec => []MissedOnInherited` |
| `ArticlesView_proofs!LabelInStep` | `Spec => []CountInStep` |
| `ArticlesView_proofs!SubjectsMeetInKeys` | `Spec => []SubjectsKept` |
| `ArticlesView_proofs!WholePostsAlone` | `Spec => []PostsWhole` |
| `GroupsTable_proofs!LastSearchStays` | `Spec => []LastSearchWins` |
| `GroupsTable_proofs!CompleteTable` | `Spec => []CompleteUnlessEarly` |
| `GroupsTable_proofs!TabOfTheShown` | `Spec => OpensTheShown` |
| `Display_proofs!OvertakenByRivals` | `Spec => []GivesWayToRivals` |
| `Display_proofs!DecodedExactly` | `DecodingSpec => []ExactUnlessDamaged` |
| `Display_proofs!DecodedInPlace` | `DecodingSpec => []NothingInvented` |

Assumptions: the shape of the constants (one named `...Assumption` in each
module), and that no list, header or article contains the token that
grants access (`PayloadAssumption`): a line of payload is otherwise free.

`PromiseKept` alone needs more of the payload (`ProperPayload`): lists, headers and
articles are whole lines; no line of a list begins with a dot, and no line of a
header or an article is just a dot, which is what NNTP's dot-stuffing gives and the
only end that the reader looks for; no line of a header begins with "221 ", which
`parseHeader` drops; and no payload has the words of the refusal of a group, nor an
article those of its own, by which the model knows that the server has refused.
Lines that look like other status lines are allowed in it.  `MCNewsReader` has TLC
evaluate that its instances satisfy this.

Why the invariant of the reader has the parts it has.  `LoginFirst` speaks of the
server's session, but the reader decides by the text it has read, in any portions.
The link is what is *pending*, the unread wire behind the kept response: a read
moves text from one to the other or drops a part, so what is pending is always
the end of what was pending before, with new replies behind it.  The server
writes the granting line once, when the session becomes authorised
(`GrantedOnce`).  Hence while the reader is not connected only login requests are
out and no line that starts results is pending (`UnconnectedIsIdle`), and once it
is connected no second grant is pending, so the command starts once.
`HeaderInStep` then counts: while a header command is connected and open,
the calls made are one fewer than the ids asked for, and `articleId` is the last
of them.  `QuietOnceClosed` needs that a closed reader still in its read loop has
`resultsComing`, hence is connected, so what is left over cannot start the
command.

`Lockstep` needs a second invariant (`InTurn`), which says when a reply may be on
the wire.  Before the results come only the login, a list or the group are
requested (`OpeningsFirst`), the replies to these are known (`WholeReplies`), and
what is on the wire of an orderly connection is one of them, whole: a status line
read alone leaves nothing, and one with a list behind it starts the results.
After that nothing that is kept looks like a status line, so the end of the read
loop requests nothing; and the next header is requested by a read that took all
there was.

`NothingLostAfterStatus` holds on every cut, orderly or not, and has an invariant of
its own (`KeepsWords`), for a payload without the words that announce a
status line.  Then these words can be counted: either one request is out and none
of them is pending, or no request is out and at most one is (`OneAnswer`).  So a
status line that is read is the last, and what the reader throws away with it lies
before the results.  The text of an article is requested only when the results
come already, and its own status line is none that the reader knows
(`ResultsAlone`).  From then on what the delegate was told, put before what is
pending, has the words that were served last (`WordsKept`): a read moves words from
one to the other.  That takes what the operators on texts do to words, for texts of
any length: `splitter` keeps them, cutting into lines and putting lines together
keep them, and leaving out the terminators does (`LinesKeepWords`,
`EntriesKeepWords`).

`PromiseKept` has the third invariant (`Stage`), which says on what page the two
sides of an orderly conversation are until it is closed.  While the login lasts
(`LoginStage`), either one of its requests is out and nothing is pending, or its
reply is on the wire as a whole.  Then the same of what opens the results
(`OpeningStage`), where the refusal of a group, which the reader knows no prefix
of, stays in `response` for good.  Once the results come (`ResultStage`) it says
of each command what has been handed over and what is still to come:

* a list: what has been delivered, followed by the entries among the pending
  lines, is what is wanted, and the pending lines end with the only one that
  begins with a dot (`ListStage`);
* an article: the lines gathered, followed by the pending ones, are the whole
  article or its refusal (`ArticleStage`);
* headers: each call so far has what is wanted in its place, and the next one is
  asked for or its reply is pending as a whole (`HeaderStage`).

After a hang-up nothing but the good-bye is left to read (`LeftStage`).  A read
takes the first lines of what is pending and gives the delegate those; so
what the lemmas need is when a cut of a text is a cut of its lines, which is what
`CleanList` and `CleanBody` ask for, and that a dot ends what is gathered only
when it is the last line.  Each action then is a step of `Retrieval`
(`Promised`): reads that hand something over map to `Deliver`, refusals to
`Refuse`, the hang-up to `HangUp`, and the rest stutters.

Inductions over sequences are done without a principle that takes a predicate: the
sequences for which a fact holds are a set, a set of numbers that has 0 and with
every number the next has all (`Induction` of `SiftingTheorems`, from the least
counterexample), and `SequenceInduction` says the same of sequences.  For this the
models have filters as recursive functions (`Sifting`), which are shown to be what
they are defined to be by building them up (`BuiltUpTo`).

The invariant of the library follows an article from its creation to its header.
What `ReaderBox` does depends on the draft alone, so the invariant says of the
draft what the properties say of the store (`Sound`), that it is the store when
nobody writes, and that it has all of the store's articles when somebody does
(`DraftOfStore`).  With unique numbers, find-or-create creates exactly what is
absent, and that keeps numbers unique.  A number is *claimed* by the command
that created its article until the header is written: first by the list (in
`newArticles`), then by the command for the headers.  A claim is exclusive
(`ClaimsExclusive`), and its article is stored, in the claimant's group, without
header (`ClaimsStored`); a list that is still writing has it in the draft only.
So the header command finds its article and writes it once.  A number that
is absent from the draft was never asked for and nobody claims it
(`AskedIsStored`), hence the new claim is the only one, and what is asked for
has never been asked for before (`UnaskedNotAsked`).

The refinement of `Catalogue` looks at commits only, and so needs to know by how
little the open draft differs from the store (`DraftInv`): the writer of groups
changes no article, the writer of a list adds articles of its group without
header, and the writer of a header changes the subject of one article that had
none.  The last holds because of the claims: what is asked for is stored, by its
own group, without header, so `findOrCreateGroupArticle` finds it.

What the worker of `Coordinator` may rely on is spread over three locks and two
lists, so the invariant says who may be where.  No version is ahead of the latest,
and a result that waits to be handed over is of its notifier's version
(`Versions`).  While the worker is between two of its steps, its copy is all of
the main list, old and new notifiers apart, and every commit that has come since
is ahead of the version it runs to (`Working`); so the skip version it finds next
is ahead of it, and after each hand-over all notifiers that have run are of the
version it has come to.  A thread's packages are of its own notifiers and of the
version it is about to go to, which is not behind the one it reads (`Threads`).  A
registered notifier's Realm reads (`Reading`), so there is a version to pin.
`WorkerInOrder` itself is part of the induction: each of its three parts is what
keeps the others.  That a delivery fits, and that a Realm never moves back, then
follows for every action, and with it the refinement of `Transactions`: beginning
to write, committing and cancelling map to their namesakes, a refresh and a
delivery to `Forward` or a stutter, everything else to a stutter.

What the blocks are told needs a second invariant on top of that one (`JInv`).
What a query has found is of the version that it was run at last, which is the
worker's while the notifier is not handed over, and the notifier's own after
(`ResultOf`).  That is so of the notifiers that the worker never passes over
(`Served`): those with a block, which it always runs, and those that are kept up,
which want to be run for as long as none of their results has gone unused.  A
block has been told the changes up to some version `q`; those from there to the
version its Realm is about to go to are on their way, and those from there to the
notifier's are accumulated (`ToldTo`, with the three intervals in the place of
three sets).  `q` is a witness, no variable of the code: the steps that run, hand
over, package, discard and deliver each move one end of an interval.  That the
intervals meet and are disjoint is `EachChangeOnce`.  A block whose Results are
dropped between packaging and the call is still called; `ToldInv` keeps what it is
about to be told for that case.

`ThreadRealms`: the two maps are only as good as what they point to.  Whatever the
dictionary has for a running thread, and whatever the cache has for a `pthread_t`
that is in use, was made on that `pthread_t` (`FoundAtHome`), and running threads
differ in theirs; what a handler holds is what either map would find again
(`InHand`).  A write lost to the dictionary thus changes nothing, the cache has
it.

`Display`: every article that arrived is in one place, in the queue once or with
the main thread (`InOnePlace`); whatever is under way is a rival of all that were
selected after it, and what is shown came last or was a rival of what it took the
place of (`Rivalry`).  `GroupsTable`: the table is right for what is stored, or a
reload is still to come, or the last one came early (`Fresh`); pending searches
end with the last one typed, and with none pending that is the filter
(`InOrder`).  The rows are those of some version of the Realm up to the present
(`ShowsAVersion`), and what passes a filter at one version is the beginning of
what passes it at a later one, so a row is the same group in both; with one tab
per group so far (`OneTabEach`) there is one after the selection.  `ArticlesView`:
the label misses no more additions than there are threads that have added and are
still to reload, of which there are finitely many (`Counts`); an outline in the
cache is found under its number or its key and nothing else (`CachedAsItself`).
For `PostsWhole` the invariant says, as long as no two threads were in there at
once, of every post that has parts which are settled, not just being added, where
its outline is found (`Home`), that it has these parts, each once and in order
(`HoldsAll`), and of a post that has none that nothing is found for it
(`NoneYet`); while the one thread is on its way, what it has seen in the caches is
still so (`FoundPost`, `FoundNone`).

`Decoding` has its theorems beside those of `Display`, which shows the text it
makes; hence its own names for `DecodingInit` and `DecodingSpec`. Its invariant
compares what was decoded with what whole reads would have given. Decoding
undoes encoding (`DecodedEncoding`), and what two reads bring is decoded to the
two texts one after the other (`DecodedConcat`); what is decoded as ASCII
differs by marks and by what is left out (`AsciiThinned`), and leaving something
out of two texts is leaving it out of both together (`ThinnedConcat`). Hence
without the marks the response is what has been sent so far, thinned
(`InPlace`). While nothing is damaged it is the beginning of the text, and the
bytes of that beginning are those that were read (`SoFar`): a read that ends
where no second byte follows ends behind a character (`CutBetween`), what it
brings are the bytes of whole characters, and these are UTF-8 (`Utf8Encoding`).

Left to TLC: all liveness properties and fairness, which are beyond this prover; of
the refinement of `Retrieval` that is its end (`GetsAnswer`).  The theorems say
nothing of how reads that do not end where the reader assumes are parsed:
`NothingLostAfterStatus` leaves out lists of groups (lines that do not parse are
dropped) and headers (a cut one is handed over in two).

## 5. Findings

`R/../include/RLMRealm.h:400-402` says of autorefresh that "changes made on other
threads will be reflected in this Realm on the next cycle of the run loop after
the changes are committed".  The cache of `RLMRealmUtil.mm:59` is keyed by
`pthread_self()`, which is used again for a later thread, and `ReaderBox.realms`
(`ReaderBox.swift:60`) never lets go of the Realm of an ended one.  The later
thread gets that Realm; its run-loop source is on a run loop that is gone, so
the thread sees no commit but its own (`threads_reflected` violates `Reflected`).
In the application it is met by a header command on a new connection, whose group
may be younger than that Realm.

`R/../include/RLMResults.h:32` says that Results "always reflect the current state
of the Realm on the current thread".  When a result is delivered and the one before
has not been used, `results.cpp:770-772` clears `m_wants_background_updates`, and
`results_notifier.cpp:104` no longer runs the query of Results without a block.
What has been handed over by then and not packaged stays (`m_tv_handover`), and
`results_notifier.cpp:186-189` gives it the version of every later run.  It is
delivered with that version, and the Results take it for in sync, so that they do
not run the query themselves (`realm_results` violates `AlwaysReflect`), until the
table changes again.  It takes four commits between the steps of the worker and a
thread that uses none of the results meanwhile.  In the application the groups
that a search has filtered (`GroupsTableVM.swift:22`) are such Results: a group
that was stored then may be missing from them until the next is.

## 6. Not modelled

* In the reader: `quit()` (nobody calls it), stream errors and the end of the
  stream (the handler ignores them; the connection stays as it is, which is a
  `Stall` for the library), a group that has vanished from the database (groups
  are never deleted), and a read that ends between `\r` and `\n`.  The part of it
  that is kept joins the rest in Swift's `String`, so it mostly acts like a cut in
  front of the line break; where it does not (the `\n` alone behind a status line
  that was taken whole, say) no property speaks of it.
* In the library: failing commits, the migration, the fields size, date and
  contentType, which follow the subject.  The code swallows the error of a commit
  that fails, and the transaction stays open.  If the list had new articles,
  `ThreadSafeReference(to:)` (`ListGroupGetArticleIdsCommand.swift:90`) refuses to
  work in a transaction and ends the program, which is the model's `Crash`.  If
  not, and in the other commands, the thread keeps the write lock, and its next
  `beginWrite` throws.
* In the ObjectStore: errors of the worker; callbacks that are removed or that
  call back into the Realm; key-value observers; thread-safe references; lists and
  single objects as sources of notifications; row-level change sets; schema
  changes; sync; Results that are dropped by another thread than the one that
  waits for them (`results_notifier.cpp:213` provides for it; the application lets
  go of Results on their own thread only, and `WaitsEnd` rests on that); a second
  table, whose commits would be versions that do not touch the first.  Read locks
  that Core cleans up are left to Core.
* In the views: drawing, sorting of columns, nib loading; uudecode failing to
  start.
* The thread play window, a debugging aid that nothing depends on; the helpers and
  the shell, which keep no state.
* The rest of the vendored code.  Most of the repository's lines are three copies
  of the headers of Realm Core, for three applications of which two are empty
  shells.  Their bodies are in a binary that is not part of the repository, and
  what is inline in them (arrays, queries, the network and sync interfaces) is not
  used by this program except through the ObjectStore; a model of it would be one
  of another program.

## 7. Plan

Done: `Sifting`, `Text`, `NewsReader`, `Retrieval`, `Decoding`; `Library`,
`Catalogue`; `Coordinator`, `Transactions`, `ThreadRealms`; `ArticlesView`,
`Display`, `GroupsTable`; their theorems.

Worth doing next:

1. `HeaderFetch`: `NewsReader`'s header command composed with the library on
   arbitrary cuts: which article gets which part of a header.  Property: even
   then no article of another group, and none that was not listed, is changed.
2. Row-level changes: `IndexSet` and the change builder, against a reference
   definition.
