------------------------------ MODULE NewsReader ------------------------------
(***************************************************************************)
(* One connection to the news server: the NewsReader object, the thread     *)
(* whose run loop calls its stream handler, and the one command object that *)
(* is its delegate (ListGroupsCommand, ListGroupGetArticleIdsCommand,       *)
(* ArticleGetMultipleHeadersCommand or ArticleCommand).                     *)
(*                                                                          *)
(* The server answers each request with one reply, in order.  TCP delivers  *)
(* the replies in order but cuts them anywhere: a read takes any nonempty   *)
(* prefix of the bytes that have arrived.  That choice is the heart of the  *)
(* model, since the reader interprets every read as it comes.               *)
(*                                                                          *)
(* The server and the network are external to the repository: they are      *)
(* modelled from the replies processResponse and readAvailableBytes expect. *)
(***************************************************************************)
EXTENDS Text

CONSTANTS
    Payload,        \* the tokens that lists, headers and articles are made of
    Commands,       \* the kinds of command an instance explores
    Listing,        \* the text of the reply to LIST or LISTGROUP
    Ids,            \* the article ids a header or article command is given
    HeadOf,         \* id -> the text of the reply to HEAD
    BodyOf,         \* id -> the text of the reply to ARTICLE
    GroupLines,     \* the texts that parse as "name last first y|n"
    Refusals,       \* the refusals and the hang-up the server may choose
    MaxServed       \* bound: the server falls silent after this many tokens

CommandKinds == {"ListGroups", "ListGroupArticles", "ArticleHeader", "Article"}

NoOperation == "none"
NoRequest == << >>

(* Requests, as the reader writes them. *)
User == << "AUTHINFO user" >>
Pass == << "AUTHINFO pass" >>
List == << "LIST" >>
ListGroup == << "LISTGROUP" >>
Group == << "GROUP" >>
HeadReq(id) == << "HEAD", id >>
ArticleReq(id) == << "ARTICLE", id >>

IdSet == {Ids[i] : i \in DOMAIN Ids}
LoginRequests == {User, Pass}
Requests ==
    LoginRequests \union {List, ListGroup, Group}
    \union {HeadReq(id) : id \in IdSet} \union {ArticleReq(id) : id \in IdSet}

(* The beginnings of the status lines that processResponse tests for. *)
Welcome == << "200 Welcome" >>
PassRequired == << "381 PASS required" >>
Granted == << "281 Welcome" >>
Failed == << "502 Authentication Failed" >>
Goodbye == << "205 Goodbye" >>
GroupsFollow == << "215 NewsGroups Follow" >>
GroupSelected == << "211 " >>
NumbersFollow == << "211 ", "Article Numbers Follow" >>
NoSuchGroup == << "411 No such group" >>
NoSuchArticle == << "430 No such article" >>
HeadFollows == << "221 ", "head" >>
ArticleFollows == << "220 ", "article" >>
GroupRange == << "211 ", "range" >>

Tokens ==
    {CRLF, Dot} \union Payload
    \union {"200 Welcome", "381 PASS required", "281 Welcome",
            "502 Authentication Failed", "205 Goodbye", "215 NewsGroups Follow",
            "211 ", "Article Numbers Follow", "411 No such group",
            "430 No such article", "221 ", "head", "220 ", "article", "range"}

Texts == Seq(Tokens)

RefusalKinds == {Failed, NoSuchGroup, NoSuchArticle, Goodbye}

ASSUME NewsReaderAssumption ==
    /\ Commands \subseteq CommandKinds
    /\ Listing \in Texts
    /\ Ids \in Seq(STRING)
    /\ "Article" \in Commands => Ids # << >>
    /\ \A id \in IdSet : HeadOf[id] \in Texts /\ BodyOf[id] \in Texts
    /\ GroupLines \subseteq Texts
    /\ Refusals \subseteq RefusalKinds
    /\ MaxServed \in Nat

(* No list, header or article has a line that reads like the login's answer. *)
ASSUME PayloadAssumption ==
    /\ \A i \in DOMAIN Listing : Listing[i] # Granted[1]
    /\ \A id \in IdSet :
          /\ \A i \in DOMAIN HeadOf[id] : HeadOf[id][i] # Granted[1]
          /\ \A i \in DOMAIN BodyOf[id] : BodyOf[id][i] # Granted[1]

VARIABLES
    \* the connection
    streams,              \* input and output stream: "none", "open" or "closed"
    wire,                 \* what the server has written and nobody has read
    requests,             \* what the reader has written, not yet answered
    session,              \* how far the server has let the client in
    \* the reader
    pc,                   \* its thread: in the run loop or in the read loop
    connected, resultsComing, currentOperation, currentGroupCommand,
    articleId, article, response,
    \* the command
    command,              \* which of the four is the delegate
    idx,                  \* ids requested so far (header command)
    \* history
    calls,                \* the delegate calls that carried data, in order:
                          \* each an article id and the text it was made of
    served,               \* everything the server has written so far
    orderly               \* every read so far ended where the reader assumes

connection == << streams, wire, requests, session >>
operation == << currentOperation, currentGroupCommand, articleId >>
reader == << pc, connected, resultsComing, operation, article, response >>
history == << calls, served, orderly >>
vars == << connection, reader, command, idx, history >>

Init ==
    /\ streams = "none"
    /\ wire = << >>
    /\ requests = << >>
    /\ session = "silent"
    /\ pc = "runloop"
    /\ connected = FALSE
    /\ resultsComing = FALSE
    /\ currentOperation = NoOperation
    /\ currentGroupCommand = NoRequest
    /\ articleId = ""
    /\ article = << >>
    /\ response = << >>
    /\ command \in Commands
    /\ idx = 0
    /\ calls = << >>
    /\ served = << >>
    /\ orderly = TRUE
-------------------------------------------------------------------------------
(***************************************************************************)
(* The server.                                                              *)
(***************************************************************************)
StatusLine(status) == Append(status, CRLF)

Block(status, text) ==
    StatusLine(status) \o text \o StatusLine(<< Dot >>)

(* The replies the server may choose for a request. *)
Replies(request) ==
    LET Unless(refusal, reply) ==
          {reply} \union {StatusLine(r) : r \in Refusals \intersect {refusal}}
    IN  CASE request = User -> {StatusLine(PassRequired)}
          [] request = Pass -> Unless(Failed, StatusLine(Granted))
          [] request = List -> {Block(GroupsFollow, Listing)}
          [] request = ListGroup -> Unless(NoSuchGroup, Block(NumbersFollow, Listing))
          [] request = Group -> Unless(NoSuchGroup, StatusLine(GroupRange))
          [] request[1] = "HEAD" ->
               Unless(NoSuchArticle, Block(HeadFollows, HeadOf[request[2]]))
          [] request[1] = "ARTICLE" ->
               Unless(NoSuchArticle, Block(ArticleFollows, BodyOf[request[2]]))

Serve(text) == wire' = wire \o text /\ served' = served \o text

ServerGreet ==
    /\ streams = "open"
    /\ session = "silent"
    /\ Serve(StatusLine(Welcome))
    /\ session' = "greeted"
    /\ UNCHANGED << streams, requests, reader, command, idx, calls, orderly >>

(* How far the reply to a request lets the client in. *)
SessionAfter(request, reply) ==
    CASE request = User -> "named"
      [] request = Pass ->
           IF reply = StatusLine(Granted) THEN "authorised" ELSE "refused"
      [] OTHER -> session

(* The server takes the login in its order, and commands after the login. *)
Expected(request) ==
    CASE request = User -> session = "greeted"
      [] request = Pass -> session = "named"
      [] OTHER -> session = "authorised"

ServerAnswer ==
    /\ streams = "open"
    /\ requests # << >>
    /\ Expected(Head(requests))
    /\ Len(served) <= MaxServed
    /\ requests' = Tail(requests)
    /\ \E reply \in Replies(Head(requests)) :
         /\ Serve(reply)
         /\ session' = SessionAfter(Head(requests), reply)
    /\ UNCHANGED << streams, reader, command, idx, calls, orderly >>

(* The server ends the session on its own account. *)
ServerHangUp ==
    /\ Goodbye \in Refusals
    /\ streams = "open"
    /\ session \in {"greeted", "named", "authorised"}
    /\ Serve(StatusLine(Goodbye))
    /\ session' = "over"
    /\ orderly' = (orderly /\ ~resultsComing /\ wire = << >>)
    /\ UNCHANGED << streams, requests, reader, command, idx, calls >>
-------------------------------------------------------------------------------
(***************************************************************************)
(* The reader's calls: open, close, send and the four operations.           *)
(***************************************************************************)
Open ==
    /\ streams = "none"
    /\ streams' = "open"
    /\ UNCHANGED << wire, requests, session, reader, command, idx, history >>

Close == streams' = IF streams = "open" THEN "closed" ELSE streams

(* Variant: every request is written twice. *)
SendTwice(request) ==
    requests' = IF streams = "open" /\ request # NoRequest
                THEN requests \o << request, request >> ELSE requests

(* Writing to a closed stream, or writing no bytes, does nothing. *)
Send(request) ==
    requests' = IF streams = "open" /\ request # NoRequest
                THEN Append(requests, request) ELSE requests

ListGroupsOp ==
    IF connected'
    THEN /\ currentOperation' = "ListGroups"
         /\ Send(List)
         /\ UNCHANGED << currentGroupCommand, articleId, article >>
    ELSE UNCHANGED << operation, article, requests >>

ListArticlesOp ==
    IF connected'
    THEN /\ currentOperation' = "ListGroupArticles"
         /\ Send(ListGroup)
         /\ UNCHANGED << currentGroupCommand, articleId, article >>
    ELSE UNCHANGED << operation, article, requests >>

(* The first request selects the group; later ones go straight out. *)
Request(kind, request) ==
    IF resultsComing
    THEN Send(request) /\ UNCHANGED << currentOperation, currentGroupCommand >>
    ELSE /\ currentOperation' = kind
         /\ currentGroupCommand' = request
         /\ Send(Group)

(* Variant: articleId is assigned after the early return. *)
ArticleHeaderOpStaleId(id) ==
    IF connected'
    THEN /\ articleId' = IF resultsComing THEN articleId ELSE id
         /\ UNCHANGED article
         /\ Request("ArticleHeader", HeadReq(id))
    ELSE UNCHANGED << operation, article, requests >>

ArticleHeaderOp(id) ==
    IF connected'
    THEN /\ articleId' = id
         /\ UNCHANGED article
         /\ Request("ArticleHeader", HeadReq(id))
    ELSE UNCHANGED << operation, article, requests >>

ArticleOp(id) ==
    IF connected'
    THEN /\ articleId' = id
         /\ article' = << >>
         /\ Request("Article", ArticleReq(id))
    ELSE UNCHANGED << operation, article, requests >>

AskNext ==
    /\ idx' = idx + 1
    /\ ArticleHeaderOp(Ids[idx + 1])
    /\ UNCHANGED streams

AskNoMore == UNCHANGED << operation, article, requests >>

(* Variants: the last id is skipped; idx runs past it; nothing is closed.  *)
NextHeaderSkipsLast ==
    IF idx < Len(Ids) - 1 THEN AskNext ELSE Close /\ UNCHANGED idx /\ AskNoMore
NextHeaderOverruns ==
    IF idx < Len(Ids) THEN AskNext ELSE Close /\ idx' = idx + 1 /\ AskNoMore
NextHeaderStays ==
    IF idx < Len(Ids) THEN AskNext ELSE UNCHANGED << streams, idx >> /\ AskNoMore

(***************************************************************************)
(* ArticleGetMultipleHeadersCommand on "Connected" and on "NextArticle":    *)
(* request the next header, or close after the last.                        *)
(***************************************************************************)
NextHeader ==
    IF idx < Len(Ids) THEN AskNext ELSE Close /\ UNCHANGED idx /\ AskNoMore

(* What each command does on "Connected". *)
Start ==
    CASE command = "ListGroups" -> ListGroupsOp /\ UNCHANGED << streams, idx >>
      [] command = "ListGroupArticles" -> ListArticlesOp /\ UNCHANGED << streams, idx >>
      [] command = "ArticleHeader" -> NextHeader
      [] command = "Article" -> ArticleOp(Ids[1]) /\ UNCHANGED << streams, idx >>
-------------------------------------------------------------------------------
(***************************************************************************)
(* processResponse: one disjunct per status line it knows.                  *)
(***************************************************************************)
Forget == response' = << >>

OnWelcome(buffer) ==
    /\ StartsWith(buffer, Welcome)
    /\ Send(User)
    /\ Forget
    /\ UNCHANGED << streams, connected, resultsComing, operation, article, idx >>

(* Every command closes the connection on "Done"; response is kept. *)
OnDone(buffer) ==
    /\ buffer = << Dot >>
    /\ Close
    /\ response' = buffer
    /\ UNCHANGED << requests, connected, resultsComing, operation, article, idx >>

(* Variant: the command is started when the user name is accepted. *)
OnPassRequiredStarts(buffer) ==
    /\ StartsWith(buffer, PassRequired)
    /\ connected' = TRUE
    /\ Start
    /\ Forget
    /\ UNCHANGED resultsComing

OnPassRequired(buffer) ==
    /\ StartsWith(buffer, PassRequired)
    /\ Send(Pass)
    /\ Forget
    /\ UNCHANGED << streams, connected, resultsComing, operation, article, idx >>

OnConnected(buffer) ==
    /\ StartsWith(buffer, Granted)
    /\ connected' = TRUE
    /\ Start
    /\ Forget
    /\ UNCHANGED resultsComing

(* Variant: a refused login closes the connection. *)
OnFailedCloses(buffer) ==
    /\ StartsWith(buffer, Failed)
    /\ Close
    /\ Forget
    /\ UNCHANGED << requests, connected, resultsComing, operation, article, idx >>

(* No command reacts to "ConnectionFailed". *)
OnFailed(buffer) ==
    /\ StartsWith(buffer, Failed)
    /\ Forget
    /\ UNCHANGED << streams, requests, connected, resultsComing, operation, article, idx >>

OnGoodbye(buffer) ==
    /\ StartsWith(buffer, Goodbye)
    /\ Close
    /\ Forget
    /\ UNCHANGED << requests, connected, resultsComing, operation, article, idx >>

OnResultsFollow(buffer) ==
    /\ StartsWith(buffer, GroupsFollow) \/ StartsWith(buffer, NumbersFollow)
    /\ resultsComing' = TRUE
    /\ Forget
    /\ UNCHANGED << streams, requests, connected, operation, article, idx >>

OnGroupSelected(buffer) ==
    /\ StartsWith(buffer, GroupSelected)
    /\ ~StartsWith(buffer, NumbersFollow)
    /\ resultsComing' = TRUE
    /\ Forget
    /\ Send(currentGroupCommand)
    /\ UNCHANGED << streams, connected, operation, article, idx >>

LooksLikeStatus(text) ==
    \E status \in {Welcome, PassRequired, Granted, Failed, Goodbye,
                   GroupsFollow, GroupSelected} : StartsWith(text, status)

Recognised(buffer) == buffer = << Dot >> \/ LooksLikeStatus(buffer)

OnUnrecognised(buffer) ==
    /\ ~Recognised(buffer)
    /\ response' = buffer
    /\ UNCHANGED << streams, requests, connected, resultsComing, operation, article, idx >>

ProcessResponse(buffer) ==
    \/ OnWelcome(buffer)
    \/ OnDone(buffer)
    \/ OnPassRequired(buffer)
    \/ OnConnected(buffer)
    \/ OnFailed(buffer)
    \/ OnGoodbye(buffer)
    \/ OnResultsFollow(buffer)
    \/ OnGroupSelected(buffer)
    \/ OnUnrecognised(buffer)
-------------------------------------------------------------------------------
(***************************************************************************)
(* readAvailableBytes.  Before the results come, one read ends the handler. *)
(***************************************************************************)
Arrived(n) == response \o SubSeq(wire, 1, n)
Remaining(n) == SubSeq(wire, n + 1, Len(wire))

(* A status line is read in one piece and with nothing after it. *)
CleanStatus(n) == /\ response = << >>
                  /\ wire[n] = CRLF
                  /\ \A i \in 1 .. n - 1 : wire[i] # CRLF

ReadStatus(n) ==
    /\ streams = "open"
    /\ ~resultsComing
    /\ wire' = Remaining(n)
    /\ orderly' = (orderly /\ CleanStatus(n))
    /\ ProcessResponse(Arrived(n))
    /\ UNCHANGED << pc, session, command, calls, served >>

(***************************************************************************)
(* The reader copes with a list that is cut in the middle of a line if a    *)
(* line break came with the same read and what it leaves of the next line   *)
(* does not look like a status line, and with one cut before a break.       *)
(***************************************************************************)
HasBreak(n) == \E i \in 1 .. n : wire[i] = CRLF

CleanList(n) ==
    /\ HasBreak(n) \/ (n < Len(wire) /\ wire[n + 1] = CRLF)
    /\ ~LooksLikeStatus(SplitRest(Arrived(n)))

TakeData(n, rest) ==
    /\ resultsComing
    /\ pc' = "reading"
    /\ wire' = Remaining(n)
    /\ response' = rest
    /\ UNCHANGED << session, connected, resultsComing, command, served >>

(* Variants: the start of the next line is dropped; the stream is read after *)
(* it has been closed.                                                       *)
ReadDataDropsRest(n) == streams = "open" /\ TakeData(n, << >>)
ReadDataWhenClosed(n) == TakeData(n, SplitRest(Arrived(n)))

ReadData(n) == streams = "open" /\ TakeData(n, SplitRest(Arrived(n)))

(* Variant: a line that starts with a dot ends the article. *)
EndsInDotPrefix(text) ==
    LET lines == Lines(text) IN lines # << >> /\ Last(lines)[1] = Dot

(* The delegate receives the whole article when its last line is ".". *)
EndsInDot(text) ==
    LET lines == Lines(text) IN lines # << >> /\ Last(lines) = << Dot >>

(***************************************************************************)
(* With an article every read must bring a line break, and what it leaves   *)
(* of the next line must not look like a reply of its own.                  *)
(***************************************************************************)
CleanBody(n) == HasBreak(n) /\ ~Recognised(SplitRest(Arrived(n)))

ReadArticle(n) ==
    /\ currentOperation = "Article"
    /\ ReadData(n)
    /\ article' = article \o SplitPrefix(Arrived(n)) \o << CRLF >>
    /\ IF EndsInDot(article')
       THEN /\ calls' = Append(calls, [id |-> articleId, text |-> article'])
            /\ Close
       ELSE UNCHANGED << calls, streams >>
    /\ orderly' = (orderly /\ CleanBody(n))
    /\ UNCHANGED << requests, operation, idx >>

(* Variant: status line and terminator are taken for header lines. *)
HeaderLinesUnfiltered(text) == Lines(text)

IsHeaderLine(line) == line # << Dot >> /\ ~StartsWith(line, << "221 " >>)

HeaderLines(text) ==
    Within(Lines(text), {line \in ToSet(Lines(text)) : IsHeaderLine(line)})

(***************************************************************************)
(* parseHeader makes a header of every chunk as it comes, under the id of   *)
(* the latest request, and asks for the next one: a header must be read in  *)
(* one piece and with nothing after it.                                     *)
(***************************************************************************)
CleanHeader(n) == response = << >> /\ n = Len(wire) /\ requests = << >>

ReadHeader(n) ==
    /\ currentOperation = "ArticleHeader"
    /\ ReadData(n)
    /\ calls' = Append(calls, [id |-> articleId, text |-> SplitPrefix(Arrived(n))])
    /\ NextHeader
    /\ orderly' = (orderly /\ CleanHeader(n) /\ wire[n] = CRLF)

(* Variant: the terminator is handed over as an entry. *)
EntriesWithDot(text) == Lines(text)

(* The lines of a list, the terminator apart. *)
Entries(text) == Without(Lines(text), {<< Dot >>})
HasDot(text) == << Dot >> \in ToSet(Lines(text))

(* The delegate of the article list is called for every read. *)
ReadArticleIds(n) ==
    /\ currentOperation = "ListGroupArticles"
    /\ ReadData(n)
    /\ LET prefix == SplitPrefix(Arrived(n))
       IN  /\ calls' = Append(calls, [id |-> "", text |-> prefix])
           /\ IF HasDot(prefix) THEN Close ELSE UNCHANGED streams
    /\ orderly' = (orderly /\ CleanList(n))
    /\ UNCHANGED << requests, operation, article, idx >>

Groups(text) == Within(Entries(text), GroupLines)

(* That of the group list only if there is a line; bad lines are dropped. *)
ReadGroups(n) ==
    /\ currentOperation = "ListGroups"
    /\ ReadData(n)
    /\ LET prefix == SplitPrefix(Arrived(n))
       IN  IF Lines(prefix) # << >>
           THEN /\ calls' = Append(calls, [id |-> "", text |-> prefix])
                /\ IF HasDot(prefix) THEN Close ELSE UNCHANGED streams
           ELSE UNCHANGED << calls, streams >>
    /\ orderly' = (orderly /\ CleanList(n))
    /\ UNCHANGED << requests, operation, article, idx >>

(***************************************************************************)
(* The read loop ends when no more bytes have arrived yet, which may be at  *)
(* any point of a reply, or when the stream is closed; what is left of the  *)
(* last line then goes to processResponse as well.                          *)
(***************************************************************************)
LoopExit ==
    /\ pc = "reading"
    /\ pc' = "runloop"
    /\ ProcessResponse(response)
    /\ UNCHANGED << wire, session, command, history >>

Read ==
    \E n \in 1 .. Len(wire) :
        \/ ReadStatus(n)
        \/ ReadArticle(n)
        \/ ReadHeader(n)
        \/ ReadArticleIds(n)
        \/ ReadGroups(n)

ReaderNext == Open \/ Read \/ LoopExit
ServerNext == ServerGreet \/ ServerAnswer

Next == ReaderNext \/ ServerNext \/ ServerHangUp

Spec == Init /\ [][Next]_vars
-------------------------------------------------------------------------------
(***************************************************************************)
(* Properties.                                                              *)
(***************************************************************************)
(* Every variable keeps the shape the Swift declarations give it. *)
TypeOK ==
    /\ streams \in {"none", "open", "closed"}
    /\ wire \in Texts
    /\ requests \in Seq(Requests)
    /\ session \in {"silent", "greeted", "named", "authorised", "refused", "over"}
    /\ pc \in {"runloop", "reading"}
    /\ connected \in BOOLEAN
    /\ resultsComing \in BOOLEAN
    /\ currentOperation \in CommandKinds \union {NoOperation}
    /\ currentGroupCommand \in Requests \union {NoRequest}
    /\ articleId \in IdSet \union {""}
    /\ article \in Texts
    /\ response \in Texts
    /\ command \in Commands
    /\ idx \in 0 .. Len(Ids)
    /\ calls \in Seq([id : IdSet \union {""}, text : Texts])
    /\ served \in Texts
    /\ orderly \in BOOLEAN

(***************************************************************************)
(* However the network cuts the replies, the server sees nothing but the    *)
(* login before it has accepted it: the commands wait for "Connected".      *)
(***************************************************************************)
LoginFirst ==
    session \in {"silent", "greeted", "named", "refused"} =>
        \A i \in DOMAIN requests : requests[i] \in LoginRequests

(***************************************************************************)
(* However the network cuts the replies, the k-th header the delegate gets  *)
(* carries the k-th id it was given, and there are never more headers than  *)
(* ids: idx and articleId, advanced in different objects, stay in step.     *)
(* (What the k-th header contains is another matter: see KeepsPromise.)     *)
(***************************************************************************)
KthHeaderHasKthId ==
    command = "ArticleHeader" =>
        /\ Len(calls) <= Len(Ids)
        /\ \A k \in DOMAIN calls : calls[k].id = Ids[k]

(* The words of a text: its tokens without line breaks and terminators. *)
Words(text) == Without(text, {CRLF, Dot})

(* What the delegate makes of the text of one call. *)
Parsed(text) ==
    CASE command = "ListGroups" -> Groups(text)
      [] command = "ListGroupArticles" -> Entries(text)
      [] command = "ArticleHeader" -> HeaderLines(text)
      [] command = "Article" -> Lines(text)

Delivered == FlattenSeq([k \in DOMAIN calls |-> Parsed(calls[k].text)])

Gathered ==
    IF command = "Article" THEN Words(article) ELSE Words(Unlines(Delivered))

(***************************************************************************)
(* However the network cuts the replies, from the moment the results come   *)
(* no word of them is lost, repeated or moved: what has been handed over,   *)
(* what waits in response and what waits on the wire, one after the other,  *)
(* are the end of what the server has written.  Only a stretch at the very  *)
(* beginning, read together with the status line, can be missing.  (A line  *)
(* whose beginning looks like a status line could be lost, if the read loop *)
(* ended right there; group lines that do not parse are dropped anyway.)    *)
(***************************************************************************)
StatusWords == {status[1] : status \in {Welcome, PassRequired, Granted, Failed,
                                        Goodbye, GroupsFollow, GroupSelected}}

NoLookalikes ==
    /\ command = "Article" =>
          StatusWords \intersect ToSet(BodyOf[Ids[1]]) = {}
    /\ command = "ListGroupArticles" =>
          StatusWords \intersect ToSet(Listing) = {}

NothingLostAfterStatus ==
    resultsComing /\ command \in {"ListGroupArticles", "Article"}
    /\ session # "over" /\ NoLookalikes =>
        IsSuffix(Gathered \o Words(response) \o Words(wire), Words(served))

(***************************************************************************)
(* As long as every read ends where the reader assumes, request and reply   *)
(* alternate: nothing is left of an earlier reply when a request is out.    *)
(***************************************************************************)
Lockstep ==
    orderly /\ session # "over" =>
        /\ Len(requests) <= 1
        /\ requests # << >> => wire = << >> /\ response = << >>

(***************************************************************************)
(* Once closed, a connection is quiet: the delegate is called no more with  *)
(* data, nothing more is requested, and it is not opened again, although    *)
(* the read loop is still to end and what is left is still processed.       *)
(***************************************************************************)
QuietOnceClosed ==
    [][streams = "closed" =>
         UNCHANGED << streams, calls, requests, idx, articleId >>]_vars
-------------------------------------------------------------------------------
(***************************************************************************)
(* Liveness.  The run loop calls the handler as long as there are bytes to  *)
(* read, so the reader's thread is weakly fair; that the server answers is  *)
(* an assumption about the outside.  Both are needed only for networks that *)
(* cut the replies where the reader assumes: with any other cut the reader  *)
(* may wait for ever for a status line it has thrown away.                  *)
(***************************************************************************)
OrderlyNext == Next /\ orderly'

OrderlySpec ==
    /\ Init /\ [][OrderlyNext]_vars
    /\ WF_vars(ReaderNext /\ orderly')
    /\ WF_vars(ServerNext /\ orderly')

Refused ==
    \/ session = "refused"
    \/ Contains(served, NoSuchGroup[1])
    \/ command = "Article" /\ Contains(served, NoSuchArticle[1])

WantedEntries ==
    IF command = "ListGroups"
    THEN Groups(Listing) ELSE Lines(Listing)

WholeArticle(id) == << ArticleFollows >> \o Lines(BodyOf[id]) \o << << Dot >> >>

(***************************************************************************)
(* Refinement: with orderly reads a connection is a Retrieval of what the   *)
(* server has.                                                              *)
(***************************************************************************)
Wanted ==
    CASE command \in {"ListGroups", "ListGroupArticles"} -> WantedEntries
      [] command = "ArticleHeader" ->
           [k \in DOMAIN Ids |-> [id |-> Ids[k], lines |-> Lines(HeadOf[Ids[k]])]]
      [] command = "Article" ->
           << [id |-> Ids[1], lines |-> WholeArticle(Ids[1])] >>

Answer(k) ==
    IF command = "ArticleHeader" /\ Parsed(calls[k].text) = << NoSuchArticle >>
    THEN Wanted[k]
    ELSE [id |-> calls[k].id, lines |-> Parsed(calls[k].text)]

Result ==
    IF command \in {"ListGroups", "ListGroupArticles"} THEN Delivered
    ELSE [k \in DOMAIN calls |-> Answer(k)]

Standing ==
    IF session = "over" THEN "gone" ELSE IF Refused THEN "refuses" ELSE "serves"

Promise == INSTANCE Retrieval
    WITH wanted <- Wanted, result <- Result,
         finished <- (streams = "closed"), server <- Standing

(***************************************************************************)
(* What has been handed over is at any time the beginning of what the       *)
(* server has, each item once and in order; after a refusal nothing more    *)
(* comes; and the connection is closed only when everything has been handed *)
(* over, or when the server has hung up.  A missing article among several   *)
(* headers is no refusal, but counts as the answer.                         *)
(***************************************************************************)
KeepsPromise == Promise!Safety

(***************************************************************************)
(* Each connection is closed in the end, unless the server refuses: after a *)
(* refused login, an unknown group or a missing article nothing closes it,  *)
(* so each refusal costs a thread, a socket and the command object.         *)
(***************************************************************************)
GetsAnswer == Promise!Outcome

(***************************************************************************)
(* What an orderly server sends: texts of whole lines; no line of a list    *)
(* begins with a dot, and none of a header or an article is one; no line of *)
(* a header reads like the status line before it; and nowhere a refusal.    *)
(***************************************************************************)
Complete(text) == text = << >> \/ text[Len(text)] = CRLF

Spares(text, token) == \A i \in DOMAIN text : text[i] # token

ProperPayload ==
    /\ Complete(Listing) /\ Spares(Listing, NoSuchGroup[1])
    /\ \A i \in DOMAIN Lines(Listing) : Lines(Listing)[i][1] # Dot
    /\ \A id \in IdSet :
         /\ Complete(HeadOf[id]) /\ Spares(HeadOf[id], NoSuchGroup[1])
         /\ Complete(BodyOf[id]) /\ Spares(BodyOf[id], NoSuchGroup[1])
         /\ Spares(BodyOf[id], NoSuchArticle[1])
         /\ \A i \in DOMAIN Lines(HeadOf[id]) : IsHeaderLine(Lines(HeadOf[id])[i])
         /\ \A i \in DOMAIN Lines(BodyOf[id]) : Lines(BodyOf[id])[i] # << Dot >>
=============================================================================
