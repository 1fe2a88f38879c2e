--------------------------- MODULE NewsReader_proofs ---------------------------
(***************************************************************************)
(* Theorems about NewsReader.tla, for every list, every set of headers and  *)
(* articles, every choice of refusals, every number of ids, and every way   *)
(* the network can cut the replies into reads; and, for the reads that end  *)
(* where the reader assumes and a payload as servers send it, that it keeps *)
(* the promise of Retrieval.tla.                                            *)
(***************************************************************************)
EXTENDS NewsReader, SiftingTheorems

(***************************************************************************)
(* Facts about the operators of Text.tla: that the splitter keeps the text  *)
(* it is given, and that a set of positions has a last one.                 *)
(***************************************************************************)
(* A nonempty set of positions of a sequence has a greatest element. *)
LEMMA GreatestPosition ==
    ASSUME NEW n \in Nat, NEW T, T \subseteq 1 .. n, T # {}
    PROVE  /\ Max(T) \in T
           /\ \A y \in T : Max(T) >= y
<1> DEFINE U == {n - i : i \in T}
<1>1. \A i \in T : i \in 1 .. n
  OBVIOUS
<1>2. U \subseteq Nat
  BY <1>1
<1>3. U # {}
  OBVIOUS
<1>4. PICK u \in U : \A v \in U : u <= v
  <2> HIDE DEF U
  <2> QED BY <1>2, <1>3, LeastNatural
<1>5. PICK x \in T : u = n - x
  OBVIOUS
<1>6. \A y \in T : n - x <= n - y
  BY <1>4, <1>5
<1>7. \A y \in T : x >= y
  BY <1>1, <1>6
<1> QED BY <1>7 DEF Max

(***************************************************************************)
(* The splitter loses nothing but the line break it splits at: prefix, line *)
(* break and rest are the text, and there is no line break in the rest.     *)
(***************************************************************************)
LEMMA LastBreak ==
    ASSUME NEW S, NEW text \in Seq(S), Breaks(text) # {}
    PROVE  /\ Max(Breaks(text)) \in 1 .. Len(text)
           /\ text[Max(Breaks(text))] = CRLF
           /\ \A i \in Max(Breaks(text)) + 1 .. Len(text) : text[i] # CRLF
<1> DEFINE m == Max(Breaks(text))
<1>1. Len(text) \in Nat /\ Breaks(text) \subseteq 1 .. Len(text)
  BY DEF Breaks
<1>2. m \in Breaks(text) /\ \A i \in Breaks(text) : m >= i
  BY <1>1, GreatestPosition
<1> HIDE DEF m
<1>3. m \in 1 .. Len(text) /\ text[m] = CRLF
  BY <1>2 DEF Breaks
<1>4. ASSUME NEW i \in m + 1 .. Len(text) PROVE text[i] # CRLF
  <2>1. i \in DOMAIN text /\ ~ (m >= i)
    BY <1>3
  <2> QED BY <1>2, <2>1 DEF Breaks
<1> QED BY <1>3, <1>4 DEF m

THEOREM SplitterTyped ==
    ASSUME NEW S, NEW text \in Seq(S)
    PROVE  SplitPrefix(text) \in Seq(S) /\ SplitRest(text) \in Seq(S)
<1>1. CASE Breaks(text) = {}
  BY <1>1 DEF SplitPrefix, SplitRest
<1>2. CASE Breaks(text) # {}
  <2>1. Max(Breaks(text)) \in 1 .. Len(text)
    BY <1>2, LastBreak
  <2> QED BY <1>2, <2>1 DEF SplitPrefix, SplitRest
<1> QED BY <1>1, <1>2

THEOREM SplitterKeepsText ==
    ASSUME NEW S, NEW text \in Seq(S), Breaks(text) # {}
    PROVE  /\ text = SplitPrefix(text) \o << CRLF >> \o SplitRest(text)
           /\ Breaks(SplitRest(text)) = {}
<1> DEFINE m == Max(Breaks(text))
<1>1. /\ m \in 1 .. Len(text)
      /\ text[m] = CRLF
      /\ \A i \in m + 1 .. Len(text) : text[i] # CRLF
  BY LastBreak
<1>2. /\ SplitPrefix(text) = SubSeq(text, 1, m - 1)
      /\ SplitRest(text) = SubSeq(text, m + 1, Len(text))
  BY DEF SplitPrefix, SplitRest
<1> HIDE DEF m
<1>3. text = SplitPrefix(text) \o << CRLF >> \o SplitRest(text)
  <2>1. SubSeq(text, 1, m) = SubSeq(text, 1, m - 1) \o << CRLF >>
    BY <1>1, SubSeqRecursiveSecond
  <2>2. SubSeq(text, 1, m) \o SubSeq(text, m + 1, Len(text)) = SubSeq(text, 1, Len(text))
    BY <1>1, ConcatAdjacentSubSeq
  <2>3. SubSeq(text, 1, Len(text)) = text
    BY SubSeqFull
  <2> QED BY <1>2, <2>1, <2>2, <2>3
<1>4. Breaks(SplitRest(text)) = {}
  BY <1>1, <1>2, SMTT(60) DEF Breaks
<1> QED BY <1>3, <1>4

(* A token of the rest is a token of the text. *)
LEMMA RestTokens ==
    ASSUME NEW S, NEW text \in Seq(S), NEW i \in DOMAIN SplitRest(text)
    PROVE  \E j \in DOMAIN text : text[j] = SplitRest(text)[i]
<1>1. CASE Breaks(text) = {}
  BY <1>1 DEF SplitRest
<1>2. CASE Breaks(text) # {}
  <2> DEFINE m == Max(Breaks(text))
  <2>1. m \in 1 .. Len(text) /\ SplitRest(text) = SubSeq(text, m + 1, Len(text))
    BY <1>2, LastBreak DEF SplitRest
  <2> HIDE DEF m
  <2>2. i + m \in DOMAIN text /\ text[i + m] = SplitRest(text)[i]
    BY <2>1
  <2> QED BY <2>2, SMTT(60)
<1> QED BY <1>1, <1>2

(* A text that starts with a nonempty prefix starts with its first token. *)
LEMMA StartsWithToken ==
    ASSUME NEW S, NEW text \in Seq(S), NEW prefix \in Seq(S), prefix # << >>,
           StartsWith(text, prefix)
    PROVE  1 \in DOMAIN text /\ text[1] = prefix[1]
<1>1. /\ Len(prefix) >= 1 /\ Len(prefix) <= Len(text)
      /\ SubSeq(prefix, 1, Len(prefix)) = SubSeq(text, 1, Len(prefix))
  BY DEF StartsWith, IsPrefix
<1>2. /\ SubSeq(prefix, 1, Len(prefix))[1] = prefix[1]
      /\ SubSeq(text, 1, Len(prefix))[1] = text[1]
  BY <1>1
<1> QED BY <1>1, <1>2

(* Whether a token occurs in a text. *)
Has(text, token) == \E i \in DOMAIN text : text[i] = token

LEMMA HasConcat ==
    ASSUME NEW S, NEW s \in Seq(S), NEW t \in Seq(S), NEW token, Has(s \o t, token)
    PROVE  Has(s, token) \/ Has(t, token)
<1>1. PICK i \in 1 .. Len(s) + Len(t) : (s \o t)[i] = token
  BY DEF Has
<1>2. CASE i <= Len(s)
  BY <1>1, <1>2 DEF Has
<1>3. CASE i > Len(s)
  <2>1. i - Len(s) \in DOMAIN t /\ t[i - Len(s)] = token
    BY <1>1, <1>3
  <2> QED BY <2>1 DEF Has
<1> QED BY <1>2, <1>3

(* Whether it occurs at most once. *)
Once(text, token) ==
    \A i, j \in DOMAIN text : text[i] = token /\ text[j] = token => i = j

LEMMA OnceConcat ==
    ASSUME NEW S, NEW s \in Seq(S), NEW t \in Seq(S), NEW token,
           Once(s, token), Once(t, token), ~Has(s, token) \/ ~Has(t, token)
    PROVE  Once(s \o t, token)
<1>1. ASSUME NEW i \in DOMAIN (s \o t), (s \o t)[i] = token
      PROVE  \/ i \in DOMAIN s /\ s[i] = token
             \/ i - Len(s) \in DOMAIN t /\ t[i - Len(s)] = token
  BY <1>1
<1>2. ASSUME NEW i \in DOMAIN (s \o t), NEW j \in DOMAIN (s \o t),
             (s \o t)[i] = token, (s \o t)[j] = token
      PROVE  i = j
  <2>1. i \in Int /\ j \in Int /\ Len(s) \in Int
    OBVIOUS
  <2>2. CASE ~Has(t, token)
    <3>1. i \in DOMAIN s /\ s[i] = token /\ j \in DOMAIN s /\ s[j] = token
      BY <1>1, <1>2, <2>2 DEF Has
    <3> QED BY <3>1 DEF Once
  <2>3. CASE ~Has(s, token)
    <3>1. /\ i - Len(s) \in DOMAIN t /\ t[i - Len(s)] = token
          /\ j - Len(s) \in DOMAIN t /\ t[j - Len(s)] = token
      BY <1>1, <1>2, <2>3 DEF Has
    <3>2. i - Len(s) = j - Len(s)
      BY <3>1 DEF Once
    <3> QED BY <2>1, <3>2
  <2> QED BY <2>2, <2>3
<1> QED BY <1>2 DEF Once

(***************************************************************************)
(* One text is the end of another: all of it but the first k tokens.  What  *)
(* is still unread is always the end of what was unread before.             *)
(***************************************************************************)
EndAfter(s, t, k) ==
    /\ k \in Nat
    /\ Len(t) = Len(s) + k
    /\ \A i \in 1 .. Len(s) : s[i] = t[i + k]

EndOf(s, t) == \E k \in Nat : EndAfter(s, t, k)

LEMMA EndTokens ==
    ASSUME NEW S, NEW s \in Seq(S), NEW t \in Seq(S), EndOf(s, t), NEW token
    PROVE  /\ Has(s, token) => Has(t, token)
           /\ Once(t, token) => Once(s, token)
           /\ Len(s) < Len(t) /\ Once(t, token) /\ t[1] = token => ~Has(s, token)
<1>1. PICK k \in Nat : EndAfter(s, t, k)
  BY DEF EndOf
<1>2. ASSUME NEW i \in DOMAIN s
      PROVE  i \in 1 .. Len(s) /\ i + k \in DOMAIN t /\ t[i + k] = s[i]
  BY <1>1, SMTT(60) DEF EndAfter
<1>3. Has(s, token) => Has(t, token)
  BY <1>2 DEF Has
<1>4. ASSUME Once(t, token) PROVE Once(s, token)
  <2>1. ASSUME NEW i \in DOMAIN s, NEW j \in DOMAIN s, s[i] = token, s[j] = token
        PROVE  i = j
    <3>1. i + k = j + k
      BY <1>2, <1>4, <2>1 DEF Once
    <3> QED BY <1>2, <3>1, SMTT(60)
  <2> QED BY <2>1 DEF Once
<1>5. ASSUME Len(s) < Len(t), Once(t, token), t[1] = token, Has(s, token) PROVE FALSE
  <2>1. PICK i \in DOMAIN s : s[i] = token
    BY <1>5 DEF Has
  <2>2. k >= 1 /\ 1 \in DOMAIN t
    BY <1>1, <1>5 DEF EndAfter
  <2>3. i + k = 1
    BY <1>2, <1>5, <2>1, <2>2 DEF Once
  <2> QED BY <1>2, <2>2, <2>3
<1> QED BY <1>3, <1>4, <1>5

LEMMA EndOfConcat ==
    ASSUME NEW S, NEW s \in Seq(S), NEW t \in Seq(S), NEW u \in Seq(S), EndOf(s, t)
    PROVE  EndOf(s \o u, t \o u)
<1>1. PICK k \in Nat : EndAfter(s, t, k)
  BY DEF EndOf
<1>2. Len(t \o u) = Len(s \o u) + k
  <2>1. Len(t \o u) = Len(t) + Len(u) /\ Len(s \o u) = Len(s) + Len(u)
    OBVIOUS
  <2>2. Len(t) = Len(s) + k /\ k \in Nat
    BY <1>1 DEF EndAfter
  <2>3. Len(s) \in Nat /\ Len(u) \in Nat
    OBVIOUS
  <2> QED BY <2>1, <2>2, <2>3
<1>3. ASSUME NEW i \in 1 .. Len(s \o u) PROVE (s \o u)[i] = (t \o u)[i + k]
  <2>1. CASE i <= Len(s)
    <3>1. i \in 1 .. Len(s) /\ i + k \in 1 .. Len(t)
      BY <1>1, <2>1 DEF EndAfter
    <3> QED BY <1>1, <3>1 DEF EndAfter
  <2>2. CASE ~ (i <= Len(s))
    <3>1. i - Len(s) \in 1 .. Len(u) /\ i + k - Len(t) = i - Len(s) /\ i + k > Len(t)
      BY <1>1, <2>2 DEF EndAfter
    <3> QED BY <3>1, SMTT(60)
  <2> QED BY <2>1, <2>2
<1>4. EndAfter(s \o u, t \o u, k)
  BY <1>2, <1>3 DEF EndAfter
<1> QED BY <1>4 DEF EndOf

LEMMA EndOfSplit ==
    ASSUME NEW S, NEW text \in Seq(S)
    PROVE  EndOf(SplitRest(text), text)
<1>1. CASE Breaks(text) = {}
  <2>1. EndAfter(SplitRest(text), text, Len(text))
    BY <1>1 DEF SplitRest, EndAfter
  <2> QED BY <2>1 DEF EndOf
<1>2. CASE Breaks(text) # {}
  <2> DEFINE m == Max(Breaks(text))
  <2>1. m \in 1 .. Len(text) /\ SplitRest(text) = SubSeq(text, m + 1, Len(text))
    BY <1>2, LastBreak DEF SplitRest
  <2> HIDE DEF m
  <2>2. EndAfter(SplitRest(text), text, m)
    BY <2>1 DEF EndAfter
  <2> QED BY <2>1, <2>2 DEF EndOf
<1> QED BY <1>1, <1>2

LEMMA EndOfDrop ==
    ASSUME NEW S, NEW text \in Seq(S), NEW k \in 0 .. Len(text)
    PROVE  /\ EndOf(SubSeq(text, k + 1, Len(text)), text)
           /\ Len(SubSeq(text, k + 1, Len(text))) = Len(text) - k
<1>1. EndAfter(SubSeq(text, k + 1, Len(text)), text, k)
  BY DEF EndAfter
<1> QED BY <1>1 DEF EndOf

(* To read n tokens of t after s is to cut s \o t after Len(s) + n. *)
LEMMA CutConcat ==
    ASSUME NEW S, NEW s \in Seq(S), NEW t \in Seq(S), NEW n \in 1 .. Len(t)
    PROVE  /\ (s \o SubSeq(t, 1, n)) \o SubSeq(t, n + 1, Len(t)) = s \o t
           /\ EndOf(SubSeq(t, n + 1, Len(t)), s \o t)
           /\ Len(SubSeq(t, n + 1, Len(t))) < Len(s \o t)
<1> DEFINE front == SubSeq(t, 1, n)
<1> DEFINE back == SubSeq(t, n + 1, Len(t))
<1>1. /\ front \in Seq(S) /\ back \in Seq(S)
      /\ Len(back) = Len(t) - n /\ \A i \in 1 .. Len(back) : back[i] = t[i + n]
  OBVIOUS
<1>2. front \o back = t
  BY ConcatAdjacentSubSeq, SubSeqFull
<1> HIDE DEF front, back
<1>3. (s \o front) \o back = s \o (front \o back)
  <2>1. front \in Seq(S) /\ back \in Seq(S)
    BY <1>1
  <2>2. \A u, v \in Seq(S) : (s \o u) \o v = s \o (u \o v)
    BY SMTT(60)
  <2> QED BY <2>1, <2>2, Zenon
<1>4. EndAfter(back, s \o t, Len(s) + n)
  <2>1. Len(s) \in Nat /\ Len(t) \in Nat /\ Len(s \o t) = Len(s) + Len(t)
    OBVIOUS
  <2>2. ASSUME NEW i \in 1 .. Len(back) PROVE back[i] = (s \o t)[i + (Len(s) + n)]
    <3>1. i + n \in 1 .. Len(t)
      BY <1>1
    <3>2. (s \o t)[(i + n) + Len(s)] = t[i + n]
      BY <3>1
    <3>3. (i + n) + Len(s) = i + (Len(s) + n)
      BY <2>1, <3>1
    <3> QED BY <1>1, <3>2, <3>3
  <2> QED BY <1>1, <2>1, <2>2 DEF EndAfter
<1>5. EndOf(back, s \o t) /\ Len(back) < Len(s \o t)
  <2>1. Len(s) + n \in Nat /\ n >= 1 /\ Len(s) \in Nat /\ Len(t) \in Nat
    OBVIOUS
  <2>2. Len(back) < Len(s \o t)
    BY <1>1, <2>1
  <2> QED BY <1>4, <2>1, <2>2 DEF EndOf
<1> QED BY <1>2, <1>3, <1>5 DEF front, back

LEMMA EndOfItself ==
    ASSUME NEW S, NEW text \in Seq(S)
    PROVE  EndOf(text, text)
<1>1. EndAfter(text, text, 0)
  BY DEF EndAfter
<1> QED BY <1>1 DEF EndOf

LEMMA Appended ==
    ASSUME NEW S, NEW s \in Seq(S), NEW e \in S, NEW next, next = Append(s, e)
    PROVE  /\ next \in Seq(S)
           /\ Len(s) \in Nat /\ DOMAIN s = 1 .. Len(s)
           /\ Len(next) = Len(s) + 1 /\ DOMAIN next = 1 .. Len(s) + 1
           /\ \A k \in 1 .. Len(s) : next[k] = s[k]
           /\ next[Len(s) + 1] = e
OBVIOUS
-------------------------------------------------------------------------------
Early == {"silent", "greeted", "named", "refused"}

(* The first tokens of the status lines after which results come. *)
ResultTokens == {GroupsFollow[1], GroupSelected[1]}

(* What the reader has still to interpret: what it kept and what is unread. *)
Pending == response \o wire

(***************************************************************************)
(* The parts of the inductive invariant.                                    *)
(***************************************************************************)

(* Nobody is connected before the streams are opened. *)
UnopenedIsIdle == streams = "none" => ~connected

(* Nothing but the login has happened before the reader is connected. *)
UnconnectedIsIdle ==
    ~connected =>
        /\ \A i \in DOMAIN requests : requests[i] \in LoginRequests
        /\ \A token \in ResultTokens : ~Has(Pending, token)
        /\ ~resultsComing
        /\ idx = 0
        /\ calls = << >>

(* The server grants access once; until it is read, nobody is connected. *)
GrantedOnce ==
    /\ Once(Pending, Granted[1])
    /\ session \in Early \/ connected => ~Has(Pending, Granted[1])
    /\ session \in Early => ~connected

OperationOfCommand ==
    /\ currentOperation \in {NoOperation, command}
    /\ pc = "reading" => resultsComing

(* While the connection is open, one more id is requested than answered. *)
HeaderInStep ==
    command = "ArticleHeader" /\ connected /\ streams = "open" =>
        /\ idx \in 1 .. Len(Ids)
        /\ Len(calls) = idx - 1
        /\ articleId = Ids[idx]

IInv ==
    /\ TypeOK
    /\ UnopenedIsIdle
    /\ UnconnectedIsIdle
    /\ GrantedOnce
    /\ OperationOfCommand
    /\ HeaderInStep
    /\ KthHeaderHasKthId
--------------------------------------------------------------------------------
(***************************************************************************)
(* The server's replies: texts, of which only the answer to the password    *)
(* grants access, and none of those to the login announces results.         *)
(***************************************************************************)
LEMMA StatusTyped ==
    /\ User \in Requests /\ Pass \in Requests
    /\ List \in Requests /\ ListGroup \in Requests /\ Group \in Requests
    /\ \A id \in IdSet : HeadReq(id) \in Requests /\ ArticleReq(id) \in Requests
    /\ User \in LoginRequests /\ Pass \in LoginRequests
BY DEF Requests, LoginRequests

LEMMA TokensTyped ==
    /\ CRLF \in Tokens /\ Dot \in Tokens
    /\ \A a \in Tokens : << a >> \in Texts
    /\ \A a, b \in Tokens : << a, b >> \in Texts
    /\ \A s, t \in Texts : s \o t \in Texts
<1>1. CRLF \in Tokens /\ Dot \in Tokens
  BY DEF Tokens
<1>2. \A a \in Tokens : << a >> \in Seq(Tokens)
  OBVIOUS
<1>3. \A a, b \in Tokens : << a, b >> \in Seq(Tokens)
  OBVIOUS
<1>4. \A s, t \in Seq(Tokens) : s \o t \in Seq(Tokens)
  OBVIOUS
<1> QED BY <1>1, <1>2, <1>3, <1>4 DEF Texts

LEMMA StatusTexts ==
    /\ Welcome \in Texts /\ PassRequired \in Texts /\ Granted \in Texts
    /\ Failed \in Texts /\ Goodbye \in Texts
    /\ NoSuchGroup \in Texts /\ NoSuchArticle \in Texts /\ GroupsFollow \in Texts
    /\ NumbersFollow \in Texts /\ GroupRange \in Texts /\ GroupSelected \in Texts
    /\ HeadFollows \in Texts /\ ArticleFollows \in Texts
<1>1. /\ Welcome[1] \in Tokens /\ PassRequired[1] \in Tokens /\ Granted[1] \in Tokens
      /\ Failed[1] \in Tokens /\ Goodbye[1] \in Tokens
      /\ NoSuchGroup[1] \in Tokens /\ NoSuchArticle[1] \in Tokens
      /\ GroupsFollow[1] \in Tokens
  BY DEF Welcome, PassRequired, Granted, Failed, Goodbye, NoSuchGroup, NoSuchArticle,
         GroupsFollow, Tokens
<1>2. /\ "211 " \in Tokens /\ "221 " \in Tokens /\ "220 " \in Tokens
      /\ "Article Numbers Follow" \in Tokens /\ "range" \in Tokens
      /\ "head" \in Tokens /\ "article" \in Tokens
  BY DEF Tokens
<1>3. /\ Welcome = << Welcome[1] >> /\ PassRequired = << PassRequired[1] >>
      /\ Granted = << Granted[1] >> /\ Failed = << Failed[1] >>
      /\ Goodbye = << Goodbye[1] >> /\ NoSuchGroup = << NoSuchGroup[1] >>
      /\ NoSuchArticle = << NoSuchArticle[1] >> /\ GroupsFollow = << GroupsFollow[1] >>
  BY DEF Welcome, PassRequired, Granted, Failed, Goodbye, NoSuchGroup, NoSuchArticle,
         GroupsFollow
<1>4. /\ Welcome \in Texts /\ PassRequired \in Texts /\ Granted \in Texts
      /\ Failed \in Texts /\ Goodbye \in Texts /\ NoSuchGroup \in Texts
      /\ NoSuchArticle \in Texts /\ GroupsFollow \in Texts
  BY <1>1, <1>3, TokensTyped, ZenonT(60)
<1>5. /\ NumbersFollow \in Texts /\ GroupRange \in Texts /\ GroupSelected \in Texts
      /\ HeadFollows \in Texts /\ ArticleFollows \in Texts
  BY <1>2, TokensTyped DEF NumbersFollow, GroupRange, GroupSelected, HeadFollows,
     ArticleFollows
<1> QED BY <1>4, <1>5

(* Which tokens a status line and a reply of several lines have. *)
LEMMA StatusLineTokens ==
    ASSUME NEW status \in Texts
    PROVE  /\ StatusLine(status) \in Texts
           /\ \A token : Has(StatusLine(status), token) => Has(status, token) \/ token = CRLF
<1>1. << CRLF >> \in Texts
  BY TokensTyped
<1>2. StatusLine(status) = status \o << CRLF >>
  BY DEF StatusLine, Texts
<1>3. StatusLine(status) \in Texts
  BY <1>1, <1>2, TokensTyped
<1>4. ASSUME NEW token, Has(StatusLine(status), token)
      PROVE  Has(status, token) \/ token = CRLF
  <2>1. Has(status, token) \/ Has(<< CRLF >>, token)
    BY <1>1, <1>2, <1>4, HasConcat, ZenonT(60) DEF Texts
  <2>2. Has(<< CRLF >>, token) => token = CRLF
    BY DEF Has
  <2> QED BY <2>1, <2>2
<1> QED BY <1>3, <1>4

LEMMA BlockTokens ==
    ASSUME NEW status \in Texts, NEW text \in Texts
    PROVE  /\ Block(status, text) \in Texts
           /\ \A token : Has(Block(status, text), token) =>
                 Has(status, token) \/ Has(text, token) \/ token \in {CRLF, Dot}
<1> DEFINE front == StatusLine(status) \o text
<1> DEFINE back == StatusLine(<< Dot >>)
<1>1. << Dot >> \in Texts
  BY TokensTyped
<1>2. StatusLine(status) \in Texts /\ back \in Texts
  BY <1>1, StatusLineTokens
<1>3. front \in Texts
  BY <1>2, TokensTyped
<1>4. Block(status, text) = front \o back
  BY DEF Block
<1>5. Block(status, text) \in Texts
  BY <1>2, <1>3, <1>4, TokensTyped
<1>6. ASSUME NEW token, Has(Block(status, text), token)
      PROVE  Has(status, token) \/ Has(text, token) \/ token \in {CRLF, Dot}
  <2> HIDE DEF front, back
  <2>1. Has(front, token) \/ Has(back, token)
    BY <1>2, <1>3, <1>4, <1>6, HasConcat DEF Texts
  <2>2. Has(front, token) => Has(StatusLine(status), token) \/ Has(text, token)
    BY <1>2, HasConcat DEF front, Texts
  <2>3. Has(StatusLine(status), token) => Has(status, token) \/ token = CRLF
    BY StatusLineTokens
  <2>4. Has(back, token) => Has(<< Dot >>, token) \/ token = CRLF
    BY <1>1, StatusLineTokens DEF back
  <2>5. Has(<< Dot >>, token) => token = Dot
    BY DEF Has
  <2> QED BY <2>1, <2>2, <2>3, <2>4, <2>5
<1> QED BY <1>5, <1>6

(* The status lines of the server differ in the words that matter. *)
LEMMA StatusWordsApart ==
    /\ Granted[1] \notin {CRLF, Dot} /\ ResultTokens \intersect {CRLF, Dot} = {}
    /\ ~Has(Welcome, Granted[1])
    /\ ~Has(PassRequired, Granted[1]) /\ ~Has(Failed, Granted[1])
    /\ ~Has(Goodbye, Granted[1])
    /\ ~Has(NoSuchGroup, Granted[1]) /\ ~Has(NoSuchArticle, Granted[1])
    /\ ~Has(GroupsFollow, Granted[1]) /\ ~Has(NumbersFollow, Granted[1])
    /\ ~Has(GroupRange, Granted[1]) /\ ~Has(HeadFollows, Granted[1])
    /\ ~Has(ArticleFollows, Granted[1])
    /\ \A token \in ResultTokens :
         /\ ~Has(Welcome, token) /\ ~Has(PassRequired, token) /\ ~Has(Granted, token)
         /\ ~Has(Failed, token) /\ ~Has(Goodbye, token)
<1>1. Granted[1] \notin {CRLF, Dot} /\ ResultTokens \intersect {CRLF, Dot} = {}
  BY DEF Granted, ResultTokens, GroupsFollow, GroupSelected, CRLF, Dot
<1>2. \A a, token : Has(<< a >>, token) <=> token = a
  BY DEF Has
<1>3. \A a, b, token : Has(<< a, b >>, token) => token = a \/ token = b
  BY DEF Has
<1>4. /\ ~Has(Welcome, Granted[1])
      /\ ~Has(PassRequired, Granted[1]) /\ ~Has(Failed, Granted[1])
      /\ ~Has(Goodbye, Granted[1])
      /\ ~Has(NoSuchGroup, Granted[1]) /\ ~Has(NoSuchArticle, Granted[1])
      /\ ~Has(GroupsFollow, Granted[1])
  BY <1>2 DEF Welcome, PassRequired, Granted, Failed, Goodbye, NoSuchGroup,
     NoSuchArticle, GroupsFollow
<1>5. /\ ~Has(NumbersFollow, Granted[1]) /\ ~Has(GroupRange, Granted[1])
      /\ ~Has(HeadFollows, Granted[1]) /\ ~Has(ArticleFollows, Granted[1])
  BY <1>3 DEF NumbersFollow, GroupRange, HeadFollows, ArticleFollows, Granted
<1>6. ASSUME NEW token \in ResultTokens
      PROVE  /\ ~Has(Welcome, token) /\ ~Has(PassRequired, token)
             /\ ~Has(Granted, token) /\ ~Has(Failed, token) /\ ~Has(Goodbye, token)
  <2>1. token = "215 NewsGroups Follow" \/ token = "211 "
    BY DEF ResultTokens, GroupsFollow, GroupSelected
  <2> QED BY <1>2, <2>1 DEF Welcome, PassRequired, Granted, Failed, Goodbye
<1> QED BY <1>1, <1>4, <1>5, <1>6

LEMMA PayloadTyped ==
    /\ Listing \in Texts /\ ~Has(Listing, Granted[1])
    /\ \A id \in IdSet :
         /\ HeadOf[id] \in Texts /\ ~Has(HeadOf[id], Granted[1])
         /\ BodyOf[id] \in Texts /\ ~Has(BodyOf[id], Granted[1])
BY NewsReaderAssumption, PayloadAssumption DEF Has

(* No two requests are alike. *)
LEMMA RequestsApart ==
    /\ Pass # User
    /\ List \notin LoginRequests
    /\ ListGroup \notin LoginRequests \union {List}
    /\ Group \notin LoginRequests \union {List, ListGroup}
    /\ \A request \in LoginRequests \union {List, ListGroup, Group} :
         request[1] \notin {"HEAD", "ARTICLE"}
    /\ \A id : /\ HeadReq(id) \notin LoginRequests \union {List, ListGroup, Group}
               /\ HeadReq(id)[1] = "HEAD" /\ HeadReq(id)[2] = id
               /\ ArticleReq(id) \notin LoginRequests \union {List, ListGroup, Group}
               /\ ArticleReq(id)[1] = "ARTICLE" /\ ArticleReq(id)[2] = id
<1>1. /\ User[1] = "AUTHINFO user" /\ Pass[1] = "AUTHINFO pass" /\ List[1] = "LIST"
      /\ ListGroup[1] = "LISTGROUP" /\ Group[1] = "GROUP"
  BY DEF User, Pass, List, ListGroup, Group
<1>2. \A id : /\ HeadReq(id)[1] = "HEAD" /\ HeadReq(id)[2] = id
              /\ ArticleReq(id)[1] = "ARTICLE" /\ ArticleReq(id)[2] = id
  BY DEF HeadReq, ArticleReq
<1> QED BY <1>1, <1>2, ZenonT(60) DEF LoginRequests

LEMMA ReplyTokens ==
    ASSUME NEW request \in Requests, NEW reply \in Replies(request)
    PROVE  /\ reply \in Texts
           /\ Has(reply, Granted[1]) => request = Pass /\ reply = StatusLine(Granted)
           /\ request \in LoginRequests =>
                \A token \in ResultTokens : ~Has(reply, token)
<1>1. ASSUME NEW status \in {NoSuchGroup, NoSuchArticle, GroupRange},
             reply = StatusLine(status)
      PROVE  reply \in Texts /\ ~Has(reply, Granted[1])
  <2>1. status \in Texts /\ ~Has(status, Granted[1]) /\ Granted[1] # CRLF
    BY StatusTexts, StatusWordsApart
  <2> QED BY <1>1, <2>1, StatusLineTokens
<1>2. ASSUME NEW status \in {PassRequired, Failed, Granted}, reply = StatusLine(status)
      PROVE  /\ reply \in Texts
             /\ Has(reply, Granted[1]) => Has(status, Granted[1])
             /\ \A token \in ResultTokens : ~Has(reply, token)
  <2>1. /\ status \in Texts
        /\ Has(status, Granted[1]) => status = Granted
        /\ Granted[1] # CRLF
    BY StatusTexts, StatusWordsApart
  <2>2. \A token \in ResultTokens : ~Has(status, token) /\ token # CRLF
    BY StatusWordsApart
  <2> QED BY <1>2, <2>1, <2>2, StatusLineTokens
<1>3. ASSUME NEW status \in {GroupsFollow, NumbersFollow, HeadFollows, ArticleFollows},
             NEW text \in Texts, ~Has(text, Granted[1]), reply = Block(status, text)
      PROVE  reply \in Texts /\ ~Has(reply, Granted[1])
  <2>1. status \in Texts /\ ~Has(status, Granted[1]) /\ Granted[1] \notin {CRLF, Dot}
    BY StatusTexts, StatusWordsApart
  <2> QED BY <1>3, <2>1, BlockTokens
<1>4. CASE request = User
  <2>1. reply = StatusLine(PassRequired)
    BY <1>4, RequestsApart DEF Replies, LoginRequests
  <2> QED BY <1>2, <2>1, StatusWordsApart
<1>5. CASE request = Pass
  <2>1. reply = StatusLine(Granted) \/ reply = StatusLine(Failed)
    BY <1>5, RequestsApart DEF Replies, LoginRequests
  <2>2. reply = StatusLine(Failed) => ~Has(reply, Granted[1])
    BY <1>2, StatusWordsApart
  <2> QED BY <1>2, <1>5, <2>1, <2>2
<1>6. CASE request = List
  <2>1. reply = Block(GroupsFollow, Listing) /\ request \notin LoginRequests
    BY <1>6, RequestsApart DEF Replies, LoginRequests
  <2> QED BY <1>3, <2>1, PayloadTyped
<1>7. CASE request = ListGroup
  <2>1. /\ reply = Block(NumbersFollow, Listing) \/ reply = StatusLine(NoSuchGroup)
        /\ request \notin LoginRequests
    BY <1>7, RequestsApart DEF Replies, LoginRequests
  <2> QED BY <1>1, <1>3, <2>1, PayloadTyped
<1>8. CASE request = Group
  <2>1. /\ reply = StatusLine(GroupRange) \/ reply = StatusLine(NoSuchGroup)
        /\ request \notin LoginRequests
    BY <1>8, RequestsApart DEF Replies, LoginRequests
  <2> QED BY <1>1, <2>1
<1>9. ASSUME NEW id \in IdSet, request = HeadReq(id)
      PROVE  /\ reply \in Texts /\ ~Has(reply, Granted[1])
             /\ request \notin LoginRequests
  <2>1. /\ reply = Block(HeadFollows, HeadOf[id]) \/ reply = StatusLine(NoSuchArticle)
        /\ request \notin LoginRequests
    BY <1>9, RequestsApart DEF Replies, LoginRequests
  <2> QED BY <1>1, <1>3, <2>1, PayloadTyped
<1>10. ASSUME NEW id \in IdSet, request = ArticleReq(id)
       PROVE  /\ reply \in Texts /\ ~Has(reply, Granted[1])
              /\ request \notin LoginRequests
  <2>1. /\ reply = Block(ArticleFollows, BodyOf[id]) \/ reply = StatusLine(NoSuchArticle)
        /\ request \notin LoginRequests
    BY <1>10, RequestsApart DEF Replies, LoginRequests
  <2> QED BY <1>1, <1>3, <2>1, PayloadTyped
<1> QED BY <1>4, <1>5, <1>6, <1>7, <1>8, <1>9, <1>10 DEF Requests, LoginRequests
--------------------------------------------------------------------------------
(***************************************************************************)
(* The reader's steps.                                                      *)
(***************************************************************************)
LEMMA ReadFacts ==
    ASSUME TypeOK, NEW n \in 1 .. Len(wire)
    PROVE  /\ Arrived(n) \in Texts /\ Remaining(n) \in Texts /\ Pending \in Texts
           /\ SplitPrefix(Arrived(n)) \in Texts /\ SplitRest(Arrived(n)) \in Texts
           /\ Arrived(n) \o Remaining(n) = Pending
           /\ Len(Remaining(n)) < Len(Pending)
           /\ EndOf(Remaining(n), Pending)
           /\ EndOf(SplitRest(Arrived(n)) \o Remaining(n), Pending)
<1>1. wire \in Seq(Tokens) /\ response \in Seq(Tokens)
  BY DEF TypeOK, Texts
<1>2. SubSeq(wire, 1, n) \in Seq(Tokens) /\ SubSeq(wire, n + 1, Len(wire)) \in Seq(Tokens)
  BY <1>1
<1>3. /\ Arrived(n) \in Seq(Tokens) /\ Remaining(n) \in Seq(Tokens)
      /\ Pending \in Seq(Tokens)
  BY <1>1, <1>2 DEF Arrived, Remaining, Pending
<1>4. SplitPrefix(Arrived(n)) \in Seq(Tokens) /\ SplitRest(Arrived(n)) \in Seq(Tokens)
  BY <1>3, SplitterTyped
<1>5. /\ Arrived(n) \o Remaining(n) = Pending
      /\ EndOf(Remaining(n), Pending) /\ Len(Remaining(n)) < Len(Pending)
  BY <1>1, CutConcat DEF Arrived, Remaining, Pending
<1>6. EndOf(SplitRest(Arrived(n)), Arrived(n))
  BY <1>3, EndOfSplit
<1>7. EndOf(SplitRest(Arrived(n)) \o Remaining(n), Arrived(n) \o Remaining(n))
  BY <1>3, <1>4, <1>6, EndOfConcat
<1> QED BY <1>3, <1>4, <1>5, <1>7 DEF Texts

(* A text that starts with a status line starts with its first word. *)
LEMMA FirstWord ==
    ASSUME NEW status \in {Welcome, PassRequired, Granted, Failed, Goodbye, GroupsFollow,
                           NumbersFollow, GroupSelected},
           NEW buffer \in Texts, StartsWith(buffer, status)
    PROVE  /\ 1 \in DOMAIN buffer /\ buffer[1] = status[1]
           /\ \A text \in Texts : /\ Has(buffer \o text, status[1])
                                  /\ (buffer \o text)[1] = status[1]
<1>1. status \in Texts /\ status # << >>
  <2>1. \A a, b : << a >> # << >> /\ << a, b >> # << >>
    OBVIOUS
  <2> QED BY <2>1, StatusTexts, Zenon DEF Welcome, PassRequired, Granted, Failed, Goodbye,
      GroupsFollow, NumbersFollow, GroupSelected
<1>2. 1 \in DOMAIN buffer /\ buffer[1] = status[1]
  BY <1>1, StartsWithToken DEF Texts
<1>3. ASSUME NEW text \in Texts
      PROVE  1 \in DOMAIN (buffer \o text) /\ (buffer \o text)[1] = status[1]
  BY <1>2 DEF Texts
<1> QED BY <1>2, <1>3 DEF Has

Sends(allowed) ==
    requests' = requests \/ \E request \in allowed : requests' = Append(requests, request)

ClosesAtMost == streams' = streams \/ (streams = "open" /\ streams' = "closed")

LEMMA SendsTyped ==
    ASSUME TypeOK, NEW allowed, allowed \subseteq Requests, Sends(allowed)
    PROVE  /\ requests' \in Seq(Requests)
           /\ (\A i \in DOMAIN requests : requests[i] \in allowed) =>
                \A i \in DOMAIN requests' : requests'[i] \in allowed
<1>1. requests \in Seq(Requests)
  BY DEF TypeOK
<1>2. CASE requests' = requests
  BY <1>1, <1>2
<1>3. ASSUME NEW request \in allowed, requests' = Append(requests, request)
      PROVE  /\ requests' \in Seq(Requests)
             /\ (\A i \in DOMAIN requests : requests[i] \in allowed) =>
                  \A i \in DOMAIN requests' : requests'[i] \in allowed
  BY <1>1, <1>3
<1> QED BY <1>2, <1>3 DEF Sends

LEMMA SendEffect ==
    ASSUME NEW request \in Requests \union {NoRequest}, Send(request)
    PROVE  Sends(Requests) /\ (streams # "open" => requests' = requests)
BY DEF Send, Sends

LEMMA IdsTyped ==
    /\ Len(Ids) \in Nat
    /\ \A i \in 1 .. Len(Ids) : Ids[i] \in IdSet
    /\ command \in Commands /\ command = "Article" => Ids[1] \in IdSet
    /\ command \in Commands => command \in CommandKinds
<1>1. Ids \in Seq(STRING)
  BY NewsReaderAssumption
<1>2. /\ command \in Commands /\ command = "Article" => Ids # << >>
      /\ command \in Commands => command \in CommandKinds
  BY NewsReaderAssumption, Zenon
<1> QED BY <1>1, <1>2 DEF IdSet

(* What the delegate asks for next, in terms of what it asked for before. *)
LEMMA NextHeaderEffect ==
    ASSUME TypeOK, connected' = TRUE, NextHeader
    PROVE  /\ Sends(Requests) /\ (streams # "open" => requests' = requests)
           /\ currentOperation' \in {currentOperation, "ArticleHeader"}
           /\ currentGroupCommand' \in Requests \union {NoRequest}
           /\ articleId' \in IdSet \union {""}
           /\ article' = article
           /\ idx' \in 0 .. Len(Ids)
           /\ ClosesAtMost
           /\ streams' = "open" =>
                /\ idx' = idx + 1 /\ idx' \in 1 .. Len(Ids)
                /\ articleId' = Ids[idx']
<1>0. idx \in 0 .. Len(Ids) /\ Len(Ids) \in Nat
  BY IdsTyped DEF TypeOK
<1>1. /\ currentGroupCommand \in Requests \union {NoRequest}
      /\ articleId \in IdSet \union {""}
  BY IdsTyped DEF TypeOK
<1>2. CASE idx < Len(Ids)
  <2> DEFINE id == Ids[idx + 1]
  <2>1. id \in IdSet
    <3>1. idx + 1 \in 1 .. Len(Ids)
      BY <1>0, <1>2
    <3> QED BY <3>1, IdsTyped
  <2>2. HeadReq(id) \in Requests /\ Group \in Requests
    BY <2>1, StatusTyped
  <2>3. AskNext
    BY <1>2 DEF NextHeader
  <2>4. /\ idx' = idx + 1 /\ streams' = streams /\ articleId' = id /\ article' = article
        /\ Request("ArticleHeader", HeadReq(id))
    BY <2>3 DEF AskNext, ArticleHeaderOp
  <2>5. /\ Sends(Requests) /\ (streams # "open" => requests' = requests)
        /\ currentOperation' \in {currentOperation, "ArticleHeader"}
        /\ currentGroupCommand' \in Requests \union {NoRequest}
    BY <1>1, <2>2, <2>4, SendEffect DEF Request
  <2>6. idx' \in 1 .. Len(Ids) /\ idx' \in 0 .. Len(Ids)
    BY <1>0, <1>2, <2>4
  <2>7. articleId' = Ids[idx']
    BY <2>4
  <2> HIDE DEF id
  <2> QED BY <2>1, <2>4, <2>5, <2>6, <2>7 DEF ClosesAtMost
<1>3. CASE ~ (idx < Len(Ids))
  <2>1. Close /\ idx' = idx /\ AskNoMore
    BY <1>3 DEF NextHeader
  <2>2. /\ requests' = requests /\ currentOperation' = currentOperation
        /\ currentGroupCommand' = currentGroupCommand /\ articleId' = articleId
        /\ article' = article
    BY <2>1 DEF AskNoMore, operation
  <2>3. ClosesAtMost
    BY <2>1 DEF Close, ClosesAtMost
  <2>4. streams' # "open"
    BY <2>1 DEF Close
  <2> QED BY <1>0, <1>1, <2>1, <2>2, <2>3, <2>4 DEF Sends
<1> QED BY <1>2, <1>3

LEMMA StartEffect ==
    ASSUME TypeOK, connected' = TRUE, Start
    PROVE  /\ Sends(Requests)
           /\ currentOperation' \in {currentOperation, command}
           /\ currentGroupCommand' \in Requests \union {NoRequest}
           /\ articleId' \in IdSet \union {""}
           /\ article' \in Texts
           /\ idx' \in 0 .. Len(Ids)
           /\ ClosesAtMost
           /\ command = "ArticleHeader" => NextHeader
<1>1. /\ command \in CommandKinds /\ (command = "Article" => Ids[1] \in IdSet)
      /\ currentGroupCommand \in Requests \union {NoRequest}
      /\ articleId \in IdSet \union {""}
      /\ article \in Texts /\ idx \in 0 .. Len(Ids)
  BY IdsTyped DEF TypeOK
<1>2. CASE command = "ListGroups"
  <2>1. ListGroupsOp /\ UNCHANGED << streams, idx >>
    BY <1>2 DEF Start
  <2> QED BY <1>1, <1>2, <2>1, StatusTyped, SendEffect DEF ListGroupsOp, ClosesAtMost
<1>3. CASE command = "ListGroupArticles"
  <2>1. ListArticlesOp /\ UNCHANGED << streams, idx >>
    BY <1>3 DEF Start
  <2> QED BY <1>1, <1>3, <2>1, StatusTyped, SendEffect DEF ListArticlesOp, ClosesAtMost
<1>4. CASE command = "ArticleHeader"
  <2>1. NextHeader
    BY <1>4 DEF Start
  <2>2. article' = article
    BY <2>1, NextHeaderEffect
  <2> QED BY <1>1, <1>4, <2>1, <2>2, NextHeaderEffect
<1>5. CASE command = "Article"
  <2>1. ArticleOp(Ids[1]) /\ UNCHANGED << streams, idx >>
    BY <1>5 DEF Start
  <2>2. << >> \in Texts
    BY DEF Texts
  <2> QED BY <1>1, <1>5, <2>1, <2>2, StatusTyped, SendEffect DEF ArticleOp, Request, ClosesAtMost
<1> QED BY <1>1, <1>2, <1>3, <1>4, <1>5 DEF CommandKinds

LEMMA PendingTyped == TypeOK => Pending \in Texts
BY TokensTyped DEF TypeOK, Pending

(* Only the answer to the password starts the command. *)
LEMMA GrantedConnects ==
    ASSUME NEW buffer \in Texts, StartsWith(buffer, Granted), ProcessResponse(buffer)
    PROVE  OnConnected(buffer)
<1>1. 1 \in DOMAIN buffer /\ buffer[1] = Granted[1]
  BY FirstWord
<1>2. \A status \in {Welcome, PassRequired, Failed, Goodbye, GroupsFollow, NumbersFollow,
                     GroupSelected} : ~StartsWith(buffer, status)
  <2>1. /\ Welcome[1] # Granted[1] /\ PassRequired[1] # Granted[1]
        /\ Failed[1] # Granted[1] /\ Goodbye[1] # Granted[1]
        /\ GroupsFollow[1] # Granted[1] /\ NumbersFollow[1] # Granted[1]
        /\ GroupSelected[1] # Granted[1]
    BY DEF Welcome, PassRequired, Granted, Failed, Goodbye, GroupsFollow, NumbersFollow,
       GroupSelected
  <2> QED BY <1>1, <2>1, FirstWord
<1>3. buffer # << Dot >>
  <2>1. << Dot >>[1] = Dot
    OBVIOUS
  <2> QED BY <1>1, <2>1, StatusWordsApart
<1>4. Recognised(buffer)
  BY DEF Recognised, LooksLikeStatus
<1> QED BY <1>2, <1>3, <1>4 DEF ProcessResponse, OnWelcome, OnDone, OnPassRequired, OnFailed,
    OnGoodbye, OnResultsFollow, OnGroupSelected, OnUnrecognised

(* Everything else it may do to the connection. *)
LEMMA QuietResponse ==
    ASSUME TypeOK, NEW buffer \in Texts, ~StartsWith(buffer, Granted), ProcessResponse(buffer)
    PROVE  /\ UNCHANGED << connected, currentOperation, currentGroupCommand, articleId,
                           article, idx >>
           /\ response' \in {<< >>, buffer}
           /\ ClosesAtMost
           /\ streams # "open" => requests' = requests
           /\ \/ Sends(LoginRequests) /\ resultsComing' = resultsComing
              \/ /\ Sends(Requests) /\ resultsComing' = TRUE
                 /\ 1 \in DOMAIN buffer /\ buffer[1] \in ResultTokens
<1> USE DEF operation
<1>1. CASE OnWelcome(buffer)
  BY <1>1, StatusTyped DEF OnWelcome, Forget, Send, Sends, ClosesAtMost
<1>2. CASE OnDone(buffer)
  BY <1>2 DEF OnDone, Close, Sends, ClosesAtMost
<1>3. CASE OnPassRequired(buffer)
  BY <1>3, StatusTyped DEF OnPassRequired, Forget, Send, Sends, ClosesAtMost
<1>4. CASE OnConnected(buffer)
  BY <1>4 DEF OnConnected
<1>5. CASE OnFailed(buffer)
  BY <1>5 DEF OnFailed, Forget, Sends, ClosesAtMost
<1>6. CASE OnGoodbye(buffer)
  BY <1>6 DEF OnGoodbye, Forget, Close, Sends, ClosesAtMost
<1>7. CASE OnResultsFollow(buffer)
  <2>1. 1 \in DOMAIN buffer /\ buffer[1] \in {GroupsFollow[1], NumbersFollow[1]}
    BY <1>7, FirstWord DEF OnResultsFollow
  <2>2. buffer[1] \in ResultTokens
    BY <2>1 DEF ResultTokens, NumbersFollow, GroupSelected
  <2> QED BY <1>7, <2>1, <2>2 DEF OnResultsFollow, Forget, Sends, ClosesAtMost
<1>8. CASE OnGroupSelected(buffer)
  <2>1. 1 \in DOMAIN buffer /\ buffer[1] \in ResultTokens
    BY <1>8, FirstWord DEF OnGroupSelected, ResultTokens
  <2>2. Sends(Requests) /\ (streams # "open" => requests' = requests)
    BY <1>8, SendEffect DEF OnGroupSelected, TypeOK
  <2> QED BY <1>8, <2>1, <2>2 DEF OnGroupSelected, Forget, ClosesAtMost
<1>9. CASE OnUnrecognised(buffer)
  BY <1>9 DEF OnUnrecognised, Sends, ClosesAtMost
<1> QED BY <1>1, <1>2, <1>3, <1>4, <1>5, <1>6, <1>7, <1>8, <1>9 DEF ProcessResponse
--------------------------------------------------------------------------------
(***************************************************************************)
(* The inductive invariant, step by step.                                   *)
(***************************************************************************)
LEMMA InitInvariant == Init => IInv
<1> SUFFICES ASSUME Init PROVE IInv
  OBVIOUS
<1>1. /\ streams = "none" /\ wire = << >> /\ response = << >> /\ requests = << >>
      /\ pc = "runloop" /\ idx = 0 /\ calls = << >> /\ currentOperation = NoOperation
  BY DEF Init
<1>2. ~connected /\ ~resultsComing
  BY Zenon DEF Init
<1>3. Pending = << >>
  <2>1. << >> \o << >> = << >>
    OBVIOUS
  <2> QED BY <1>1, <2>1, Zenon DEF Pending
<1>4. \A token : ~Has(Pending, token) /\ Once(Pending, token)
  BY <1>3 DEF Has, Once
<1>5. TypeOK
  <2>1. << >> \in Texts /\ << >> \in Seq(Requests)
        /\ << >> \in Seq([id : IdSet \union {""}, text : Texts])
    BY DEF Texts
  <2>2. 0 \in 0 .. Len(Ids)
    BY IdsTyped
  <2> QED BY <2>1, <2>2 DEF Init, TypeOK, NoOperation, NoRequest
<1>6. UnopenedIsIdle
  BY <1>2, Zenon DEF UnopenedIsIdle
<1>7. UnconnectedIsIdle
  <2>1. \A i \in DOMAIN requests : requests[i] \in LoginRequests
    BY <1>1
  <2> QED BY <1>1, <1>2, <1>4, <2>1, Zenon DEF UnconnectedIsIdle
<1>8. GrantedOnce
  BY <1>2, <1>4, Zenon DEF GrantedOnce
<1>9. OperationOfCommand
  BY <1>1 DEF OperationOfCommand
<1>10. HeaderInStep
  BY <1>1 DEF HeaderInStep
<1>11. KthHeaderHasKthId
  BY <1>1, IdsTyped DEF KthHeaderHasKthId
<1> QED BY <1>5, <1>6, <1>7, <1>8, <1>9, <1>10, <1>11 DEF IInv

LEMMA OpenStep == ASSUME IInv, Open PROVE IInv'
<1>1. /\ streams = "none" /\ streams' = "open" /\ ~connected
      /\ wire' = wire /\ requests' = requests /\ session' = session /\ pc' = pc
      /\ connected' = connected /\ resultsComing' = resultsComing
      /\ currentOperation' = currentOperation /\ currentGroupCommand' = currentGroupCommand
      /\ articleId' = articleId /\ article' = article /\ response' = response
      /\ command' = command /\ idx' = idx /\ calls' = calls /\ served' = served
      /\ orderly' = orderly
  BY DEF Open, reader, operation, history, IInv, UnopenedIsIdle
<1>2. Pending' = Pending
  BY <1>1 DEF Pending
<1>3. TypeOK'
  BY <1>1, ZenonT(60) DEF IInv, TypeOK
<1>4. UnopenedIsIdle' /\ UnconnectedIsIdle' /\ GrantedOnce'
  BY <1>1, <1>2 DEF IInv, UnopenedIsIdle, UnconnectedIsIdle, GrantedOnce
<1>5. OperationOfCommand' /\ HeaderInStep' /\ KthHeaderHasKthId'
  BY <1>1 DEF IInv, OperationOfCommand, HeaderInStep, KthHeaderHasKthId
<1> QED BY <1>3, <1>4, <1>5 DEF IInv

LEMMA StutterStep == ASSUME IInv, UNCHANGED vars PROVE IInv'
<1>1. /\ streams' = streams
      /\ wire' = wire /\ requests' = requests /\ session' = session /\ pc' = pc
      /\ connected' = connected /\ resultsComing' = resultsComing
      /\ currentOperation' = currentOperation /\ currentGroupCommand' = currentGroupCommand
      /\ articleId' = articleId /\ article' = article /\ response' = response
      /\ command' = command /\ idx' = idx /\ calls' = calls /\ served' = served
      /\ orderly' = orderly
  BY DEF vars, connection, reader, operation, history
<1>2. Pending' = Pending
  BY <1>1 DEF Pending
<1>3. TypeOK'
  BY <1>1, ZenonT(60) DEF IInv, TypeOK
<1>4. UnopenedIsIdle' /\ UnconnectedIsIdle' /\ GrantedOnce'
  BY <1>1, <1>2 DEF IInv, UnopenedIsIdle, UnconnectedIsIdle, GrantedOnce
<1>5. OperationOfCommand' /\ HeaderInStep' /\ KthHeaderHasKthId'
  BY <1>1 DEF IInv, OperationOfCommand, HeaderInStep, KthHeaderHasKthId
<1> QED BY <1>3, <1>4, <1>5 DEF IInv

(***************************************************************************)
(* What the server writes goes to the end of what is pending.  It grants    *)
(* access at most once because it takes one password, after the user name.  *)
(***************************************************************************)
LEMMA ServerStep ==
    ASSUME IInv, NEW text \in Texts, Serve(text),
           UNCHANGED << streams, reader, command, idx, calls >>,
           requests' \in Seq(Requests),
           \A i \in DOMAIN requests' : \E j \in DOMAIN requests : requests'[i] = requests[j],
           session' \in {"silent", "greeted", "named", "authorised", "refused", "over"},
           session' \in Early => session \in Early /\ ~Has(text, Granted[1]),
           Has(text, Granted[1]) => session \in Early,
           Once(text, Granted[1]),
           ~connected => \A token \in ResultTokens : ~Has(text, token),
           orderly' \in BOOLEAN
    PROVE  IInv'
<1>1. /\ streams' = streams /\ pc' = pc
      /\ connected' = connected /\ resultsComing' = resultsComing
      /\ currentOperation' = currentOperation /\ currentGroupCommand' = currentGroupCommand
      /\ articleId' = articleId /\ article' = article /\ response' = response
      /\ command' = command /\ idx' = idx /\ calls' = calls
  BY DEF reader, operation
<1>2. /\ wire \in Seq(Tokens) /\ response \in Seq(Tokens) /\ text \in Seq(Tokens)
      /\ Pending \in Seq(Tokens)
  <2>1. wire \in Seq(Tokens) /\ response \in Seq(Tokens) /\ text \in Seq(Tokens)
    BY DEF IInv, TypeOK, Texts
  <2> QED BY <2>1 DEF Pending
<1>3. Pending' = Pending \o text
  <2>1. response \o (wire \o text) = (response \o wire) \o text
    BY <1>2, SMTT(60)
  <2> QED BY <1>1, <2>1 DEF Serve, Pending
<1>4. \A token : Has(Pending', token) => Has(Pending, token) \/ Has(text, token)
  BY <1>2, <1>3, HasConcat
<1>5. Once(Pending', Granted[1])
  <2>1. Once(Pending, Granted[1]) /\ (Has(text, Granted[1]) => ~Has(Pending, Granted[1]))
    BY DEF IInv, GrantedOnce
  <2> QED BY <1>2, <1>3, <2>1, OnceConcat
<1>6. TypeOK'
  <2>1. wire' \in Texts /\ served' \in Texts
    BY TokensTyped DEF Serve, IInv, TypeOK
  <2> QED BY <1>1, <2>1, ZenonT(60) DEF IInv, TypeOK
<1>7. UnopenedIsIdle' /\ UnconnectedIsIdle'
  <2>1. UnopenedIsIdle /\ UnconnectedIsIdle
    BY DEF IInv
  <2> QED BY <1>1, <1>4, <2>1 DEF UnopenedIsIdle, UnconnectedIsIdle
<1>8. GrantedOnce'
  <2>1. GrantedOnce
    BY DEF IInv
  <2> QED BY <1>1, <1>4, <1>5, <2>1 DEF GrantedOnce
<1>9. OperationOfCommand' /\ HeaderInStep' /\ KthHeaderHasKthId'
  BY <1>1 DEF IInv, OperationOfCommand, HeaderInStep, KthHeaderHasKthId
<1> QED BY <1>6, <1>7, <1>8, <1>9 DEF IInv

LEMMA GrantedLine == Once(StatusLine(Granted), Granted[1])
<1>1. Granted \in Seq(Tokens) /\ << CRLF >> \in Seq(Tokens)
  BY StatusTexts, TokensTyped DEF Texts
<1>2. StatusLine(Granted) = Granted \o << CRLF >>
  BY <1>1 DEF StatusLine
<1>3. \A a, token : Once(<< a >>, token)
  BY DEF Once
<1>4. Once(Granted, Granted[1]) /\ Once(<< CRLF >>, Granted[1])
  BY <1>3 DEF Granted
<1>5. ~Has(<< CRLF >>, Granted[1])
  <2>1. Granted[1] # CRLF
    BY StatusWordsApart
  <2> QED BY <2>1 DEF Has
<1> QED BY <1>1, <1>2, <1>4, <1>5, OnceConcat

LEMMA GreetStep == ASSUME IInv, ServerGreet PROVE IInv'
<1>1. /\ session = "silent" /\ session' = "greeted" /\ Serve(StatusLine(Welcome))
      /\ UNCHANGED << streams, reader, command, idx, calls >>
      /\ requests' = requests /\ orderly' = orderly
  BY DEF ServerGreet
<1>2. /\ StatusLine(Welcome) \in Texts /\ ~Has(StatusLine(Welcome), Granted[1])
      /\ \A token \in ResultTokens : ~Has(StatusLine(Welcome), token)
  BY StatusTexts, StatusWordsApart, StatusLineTokens
<1>3. Once(StatusLine(Welcome), Granted[1])
  BY <1>2 DEF Has, Once
<1>4. requests \in Seq(Requests) /\ orderly \in BOOLEAN
  BY DEF IInv, TypeOK
<1>5. "silent" \in Early
  BY DEF Early
<1> QED BY <1>1, <1>2, <1>3, <1>4, <1>5, ServerStep

LEMMA HangUpStep == ASSUME IInv, ServerHangUp PROVE IInv'
<1>1. /\ session' = "over" /\ Serve(StatusLine(Goodbye))
      /\ UNCHANGED << streams, reader, command, idx, calls >>
      /\ requests' = requests
  BY DEF ServerHangUp
<1>2. /\ StatusLine(Goodbye) \in Texts /\ ~Has(StatusLine(Goodbye), Granted[1])
      /\ \A token \in ResultTokens : ~Has(StatusLine(Goodbye), token)
  BY StatusTexts, StatusWordsApart, StatusLineTokens
<1>3. Once(StatusLine(Goodbye), Granted[1])
  BY <1>2 DEF Has, Once
<1>4. requests \in Seq(Requests)
  BY DEF IInv, TypeOK
<1>5. "over" \notin Early
  BY DEF Early
<1>6. orderly' \in BOOLEAN
  <2>1. orderly' = (orderly /\ ~resultsComing /\ wire = << >>)
    BY DEF ServerHangUp
  <2> QED BY <2>1, Zenon
<1> QED BY <1>1, <1>2, <1>3, <1>4, <1>5, <1>6, ServerStep

LEMMA AnswerStep == ASSUME IInv, ServerAnswer PROVE IInv'
<1> DEFINE request == Head(requests)
<1>1. PICK reply \in Replies(request) :
        Serve(reply) /\ session' = SessionAfter(request, reply)
  BY DEF ServerAnswer
<1>2. /\ requests # << >> /\ Expected(request) /\ requests' = Tail(requests)
      /\ UNCHANGED << streams, reader, command, idx, calls >> /\ orderly' = orderly
  BY DEF ServerAnswer, reader
<1>3. /\ requests \in Seq(Requests) /\ orderly \in BOOLEAN
      /\ session \in {"silent", "greeted", "named", "authorised", "refused", "over"}
  BY DEF IInv, TypeOK
<1>4. /\ request \in Requests /\ 1 \in DOMAIN requests /\ request = requests[1]
      /\ requests' \in Seq(Requests)
      /\ \A i \in DOMAIN requests' : \E j \in DOMAIN requests : requests'[i] = requests[j]
  <2>1. /\ request \in Requests /\ 1 \in DOMAIN requests /\ request = requests[1]
        /\ requests' \in Seq(Requests)
    BY <1>2, <1>3
  <2>2. ASSUME NEW i \in DOMAIN requests'
        PROVE  i + 1 \in DOMAIN requests /\ requests'[i] = requests[i + 1]
    BY <1>2, <1>3
  <2> QED BY <2>1, <2>2
<1> HIDE DEF request
<1>5. /\ reply \in Texts
      /\ Has(reply, Granted[1]) => request = Pass /\ reply = StatusLine(Granted)
      /\ request \in LoginRequests => \A token \in ResultTokens : ~Has(reply, token)
  BY <1>1, <1>4, ReplyTokens
<1>6. Once(reply, Granted[1])
  <2>1. CASE Has(reply, Granted[1])
    BY <1>5, <2>1, GrantedLine
  <2>2. CASE ~Has(reply, Granted[1])
    BY <2>2 DEF Has, Once
  <2> QED BY <2>1, <2>2
<1>7. Has(reply, Granted[1]) => session \in Early
  BY <1>2, <1>5, RequestsApart DEF Expected, Early
<1>8. ~connected => \A token \in ResultTokens : ~Has(reply, token)
  BY <1>4, <1>5 DEF IInv, UnconnectedIsIdle
<1>9. /\ session' \in {"silent", "greeted", "named", "authorised", "refused", "over"}
      /\ session' \in Early => session \in Early /\ ~Has(reply, Granted[1])
  <2>1. CASE request = User
    BY <1>1, <1>2, <1>5, <2>1, RequestsApart DEF SessionAfter, Expected, Early
  <2>2. CASE request = Pass
    BY <1>1, <1>2, <1>5, <2>2, RequestsApart DEF SessionAfter, Expected, Early
  <2>3. CASE request # User /\ request # Pass
    BY <1>1, <1>2, <1>3, <1>5, <2>3 DEF SessionAfter, Expected, Early
  <2> QED BY <2>1, <2>2, <2>3
<1> QED BY <1>1, <1>2, <1>3, <1>4, <1>5, <1>6, <1>7, <1>8, <1>9, ServerStep
--------------------------------------------------------------------------------
(* What is pending after a step of the reader is the end of what was before. *)
LEMMA PendingShrinks ==
    ASSUME IInv, wire' \in Texts, response' \in Texts, EndOf(Pending', Pending)
    PROVE  /\ \A token : Has(Pending', token) => Has(Pending, token)
           /\ Once(Pending', Granted[1])
           /\ Len(Pending') < Len(Pending) /\ Pending[1] = Granted[1] =>
                ~Has(Pending', Granted[1])
<1>1. response \in Seq(Tokens) /\ wire \in Seq(Tokens)
  BY DEF IInv, TypeOK, Texts
<1>2. response' \in Seq(Tokens) /\ wire' \in Seq(Tokens)
  BY DEF Texts
<1>3. Pending \in Seq(Tokens) /\ Pending' \in Seq(Tokens)
  BY <1>1, <1>2 DEF Pending
<1>4. Once(Pending, Granted[1])
  BY DEF IInv, GrantedOnce
<1> QED BY <1>3, <1>4, EndTokens

(***************************************************************************)
(* processResponse, from the run loop with what has been read, or when the  *)
(* read loop ends with what is left.                                        *)
(***************************************************************************)
LEMMA ProcessStep ==
    ASSUME IInv, NEW buffer \in Texts, ProcessResponse(buffer),
           wire' \in Texts, buffer \o wire' = Pending, EndOf(wire', Pending),
           ~connected => streams = "open" /\ Len(wire') < Len(Pending),
           session' = session, command' = command, calls' = calls, served' = served,
           pc' \in {pc, "runloop"}, orderly' \in BOOLEAN
    PROVE  IInv'
<1>0. /\ TypeOK /\ UnopenedIsIdle /\ UnconnectedIsIdle /\ GrantedOnce
      /\ OperationOfCommand /\ HeaderInStep /\ KthHeaderHasKthId
      /\ << >> \in Texts
  BY DEF IInv, Texts
<1>1. ASSUME NEW status \in {Granted, GroupsFollow, GroupSelected},
             StartsWith(buffer, status)
      PROVE  Has(Pending, status[1]) /\ Pending[1] = status[1]
  <2>1. \A text \in Texts : Has(buffer \o text, status[1]) /\ (buffer \o text)[1] = status[1]
    BY <1>1, FirstWord
  <2>2. Has(buffer \o wire', status[1]) /\ (buffer \o wire')[1] = status[1]
    BY <2>1
  <2> QED BY <2>2
<1>2. CASE ~StartsWith(buffer, Granted)
  <2>1. /\ connected' = connected /\ idx' = idx
        /\ currentOperation' = currentOperation
        /\ currentGroupCommand' = currentGroupCommand
        /\ articleId' = articleId /\ article' = article
        /\ response' \in {<< >>, buffer}
        /\ ClosesAtMost
    BY <1>0, <1>2, QuietResponse
  <2>2. response' \in Texts
    BY <1>0, <2>1
  <2>3. requests' \in Seq(Requests)
    <3>1. Sends(LoginRequests) \/ Sends(Requests)
      BY <1>0, <1>2, QuietResponse
    <3>2. LoginRequests \subseteq Requests
      BY DEF Requests
    <3> QED BY <1>0, <3>1, <3>2, SendsTyped
  <2>4. resultsComing' = resultsComing \/ resultsComing' = TRUE
    BY <1>0, <1>2, QuietResponse
  <2>5. EndOf(Pending', Pending)
    <3>1. CASE response' = << >>
      <4>1. Pending' = wire'
        BY <3>1 DEF Pending, Texts
      <4> QED BY <4>1
    <3>2. CASE response' = buffer
      <4>1. Pending' = Pending
        BY <3>2 DEF Pending
      <4>2. EndOf(Pending, Pending)
        <5>1. Pending \in Seq(Tokens)
          BY <1>0, PendingTyped DEF Texts
        <5> QED BY <5>1, EndOfItself
      <4> QED BY <4>1, <4>2
    <3> QED BY <2>1, <3>1, <3>2
  <2>6. /\ \A token : Has(Pending', token) => Has(Pending, token)
        /\ Once(Pending', Granted[1])
    BY <2>2, <2>5, PendingShrinks
  <2>7. TypeOK'
    <3>1. resultsComing' \in BOOLEAN
      BY <1>0, <2>4 DEF TypeOK
    <3>2. streams' \in {"none", "open", "closed"}
      BY <1>0, <2>1 DEF TypeOK, ClosesAtMost
    <3>3. pc' \in {"runloop", "reading"}
      BY <1>0 DEF TypeOK
    <3> QED BY <1>0, <2>1, <2>2, <2>3, <3>1, <3>2, <3>3 DEF TypeOK
  <2>8. UnopenedIsIdle'
    BY <1>0, <2>1 DEF UnopenedIsIdle, ClosesAtMost
  <2>9. UnconnectedIsIdle'
    <3> SUFFICES ASSUME ~connected
                 PROVE  /\ \A i \in DOMAIN requests' : requests'[i] \in LoginRequests
                        /\ \A token \in ResultTokens : ~Has(Pending', token)
                        /\ ~resultsComing'
                        /\ idx' = 0 /\ calls' = << >>
      BY <1>0, <2>1 DEF UnconnectedIsIdle
    <3>1. /\ \A i \in DOMAIN requests : requests[i] \in LoginRequests
          /\ \A token \in ResultTokens : ~Has(Pending, token)
          /\ ~resultsComing /\ idx = 0 /\ calls = << >>
      BY <1>0 DEF UnconnectedIsIdle
    <3>2. 1 \in DOMAIN buffer => Has(Pending, buffer[1])
      <4>1. 1 \in DOMAIN buffer => 1 \in DOMAIN (buffer \o wire') /\ (buffer \o wire')[1] = buffer[1]
        BY DEF Texts
      <4> QED BY <4>1 DEF Has
    <3>3. Sends(LoginRequests) /\ resultsComing' = resultsComing
      BY <1>0, <1>2, <3>1, <3>2, QuietResponse
    <3>4. \A i \in DOMAIN requests' : requests'[i] \in LoginRequests
      BY <1>0, <3>1, <3>3, SendsTyped DEF Requests
    <3> QED BY <2>1, <2>6, <3>1, <3>3, <3>4
  <2>10. GrantedOnce'
    BY <1>0, <2>1, <2>6 DEF GrantedOnce
  <2>11. OperationOfCommand'
    BY <1>0, <2>1, <2>4 DEF OperationOfCommand
  <2>12. HeaderInStep' /\ KthHeaderHasKthId'
    BY <1>0, <2>1 DEF HeaderInStep, KthHeaderHasKthId, ClosesAtMost
  <2> QED BY <2>7, <2>8, <2>9, <2>10, <2>11, <2>12 DEF IInv
<1>3. CASE StartsWith(buffer, Granted)
  <2>1. ~connected /\ session \notin Early /\ Pending[1] = Granted[1]
    BY <1>0, <1>1, <1>3 DEF GrantedOnce
  <2>2. /\ \A i \in DOMAIN requests : requests[i] \in LoginRequests
        /\ ~resultsComing /\ idx = 0 /\ calls = << >> /\ streams = "open"
        /\ Len(wire') < Len(Pending)
    BY <1>0, <2>1 DEF UnconnectedIsIdle
  <2>3. OnConnected(buffer)
    BY <1>3, GrantedConnects
  <2>4. /\ connected' = TRUE /\ Start /\ response' = << >>
        /\ resultsComing' = resultsComing
    BY <2>3 DEF OnConnected, Forget
  <2>5. response' \in Texts /\ Pending' = wire'
    BY <2>4 DEF Pending, Texts
  <2>6. Once(Pending', Granted[1]) /\ ~Has(Pending', Granted[1])
    BY <2>1, <2>2, <2>5, PendingShrinks
  <2>7. /\ Sends(Requests)
        /\ currentOperation' \in {currentOperation, command}
        /\ currentGroupCommand' \in Requests \union {NoRequest}
        /\ articleId' \in IdSet \union {""}
        /\ article' \in Texts
        /\ idx' \in 0 .. Len(Ids)
        /\ ClosesAtMost
        /\ command = "ArticleHeader" => NextHeader
    BY <1>0, <2>4, StartEffect
  <2>8. TypeOK'
    <3>1. requests' \in Seq(Requests)
      BY <1>0, <2>7, SendsTyped
    <3>2. streams' \in {"none", "open", "closed"} /\ pc' \in {"runloop", "reading"}
      BY <1>0, <2>7 DEF TypeOK, ClosesAtMost
    <3>3. currentOperation' \in CommandKinds \union {NoOperation}
      BY <1>0, <2>7, IdsTyped DEF TypeOK
    <3> QED BY <1>0, <2>4, <2>5, <2>7, <3>1, <3>2, <3>3 DEF TypeOK
  <2>9. UnopenedIsIdle' /\ UnconnectedIsIdle'
    BY <1>0, <2>2, <2>4, <2>7 DEF UnopenedIsIdle, UnconnectedIsIdle, ClosesAtMost
  <2>10. GrantedOnce'
    BY <1>0, <2>1, <2>6 DEF GrantedOnce
  <2>11. OperationOfCommand'
    BY <1>0, <2>2, <2>4, <2>7 DEF OperationOfCommand
  <2>12. HeaderInStep' /\ KthHeaderHasKthId'
    <3>1. Len(calls') = 0 /\ DOMAIN calls' = {} /\ Len(Ids) \in Nat
      BY <2>2, IdsTyped
    <3>2. KthHeaderHasKthId'
      BY <3>1 DEF KthHeaderHasKthId
    <3>3. HeaderInStep'
      <4>1. command = "ArticleHeader" /\ streams' = "open" =>
              /\ idx' = idx + 1 /\ idx' \in 1 .. Len(Ids) /\ articleId' = Ids[idx']
        BY <1>0, <2>4, <2>7, NextHeaderEffect
      <4> QED BY <2>2, <3>1, <4>1 DEF HeaderInStep
    <3> QED BY <3>2, <3>3
  <2> QED BY <2>8, <2>9, <2>10, <2>11, <2>12 DEF IInv
<1> QED BY <1>2, <1>3

LEMMA ReadStatusStep ==
    ASSUME IInv, NEW n \in 1 .. Len(wire), ReadStatus(n)
    PROVE  IInv'
<1>1. TypeOK /\ OperationOfCommand
  BY DEF IInv
<1>2. /\ streams = "open" /\ wire' = Remaining(n) /\ ProcessResponse(Arrived(n))
      /\ pc' = pc /\ session' = session /\ command' = command
      /\ calls' = calls /\ served' = served
  BY DEF ReadStatus
<1>3. orderly' \in BOOLEAN
  <2>1. orderly' = (orderly /\ CleanStatus(n))
    BY DEF ReadStatus
  <2> QED BY <2>1, Zenon
<1>4. /\ Arrived(n) \in Texts /\ wire' \in Texts
      /\ Arrived(n) \o wire' = Pending
      /\ Len(wire') < Len(Pending)
      /\ EndOf(wire', Pending)
  BY <1>1, <1>2, ReadFacts
<1> QED BY <1>2, <1>3, <1>4, ProcessStep

LEMMA LoopExitStep == ASSUME IInv, LoopExit PROVE IInv'
<1>1. TypeOK /\ OperationOfCommand /\ UnconnectedIsIdle
  BY DEF IInv
<1>2. /\ pc = "reading" /\ pc' = "runloop" /\ ProcessResponse(response)
      /\ wire' = wire /\ session' = session /\ command' = command
      /\ calls' = calls /\ served' = served /\ orderly' = orderly
  BY DEF LoopExit, history
<1>3. connected
  BY <1>1, <1>2 DEF OperationOfCommand, UnconnectedIsIdle
<1>4. response \in Texts /\ wire \in Texts /\ orderly \in BOOLEAN
  BY <1>1 DEF TypeOK
<1>5. response \o wire' = Pending
  BY <1>2 DEF Pending
<1>6. EndOf(wire', Pending)
  <2>1. EndAfter(wire, Pending, Len(response))
    BY <1>4 DEF EndAfter, Pending, Texts
  <2>2. Len(response) \in Nat
    BY <1>4 DEF Texts
  <2> QED BY <1>2, <2>1, <2>2 DEF EndOf
<1> QED BY <1>2, <1>3, <1>4, <1>5, <1>6, ProcessStep

(***************************************************************************)
(* A read of data: the connection is open, and the command has started.     *)
(***************************************************************************)
LEMMA DataStep ==
    ASSUME IInv, NEW n \in 1 .. Len(wire), ReadData(n),
           requests' \in Seq(Requests),
           currentOperation' \in {currentOperation, command},
           currentGroupCommand' \in Requests \union {NoRequest},
           articleId' \in IdSet \union {""}, article' \in Texts,
           calls' \in Seq([id : IdSet \union {""}, text : Texts]),
           idx' \in 0 .. Len(Ids), orderly' \in BOOLEAN, ClosesAtMost,
           HeaderInStep', KthHeaderHasKthId'
    PROVE  IInv'
<1>1. /\ TypeOK /\ UnopenedIsIdle /\ UnconnectedIsIdle /\ GrantedOnce
      /\ OperationOfCommand
  BY DEF IInv
<1>2. /\ streams = "open" /\ resultsComing /\ pc' = "reading"
      /\ wire' = Remaining(n) /\ response' = SplitRest(Arrived(n))
      /\ session' = session /\ connected' = connected
      /\ resultsComing' = resultsComing /\ command' = command /\ served' = served
  BY DEF ReadData, TakeData
<1>3. connected
  BY <1>1, <1>2 DEF UnconnectedIsIdle
<1>4. /\ wire' \in Texts /\ response' \in Texts /\ EndOf(Pending', Pending)
  BY <1>1, <1>2, ReadFacts DEF Pending
<1>5. \A token : Has(Pending', token) => Has(Pending, token)
  BY <1>4, PendingShrinks
<1>6. Once(Pending', Granted[1])
  BY <1>4, PendingShrinks
<1>7. TypeOK'
  <2>1. streams' \in {"none", "open", "closed"}
    BY <1>2 DEF ClosesAtMost
  <2>2. currentOperation' \in CommandKinds \union {NoOperation}
    BY <1>1, IdsTyped DEF TypeOK
  <2> QED BY <1>1, <1>2, <1>4, <2>1, <2>2 DEF TypeOK
<1>8. UnopenedIsIdle' /\ UnconnectedIsIdle'
  BY <1>2, <1>3 DEF UnopenedIsIdle, UnconnectedIsIdle, ClosesAtMost
<1>9. GrantedOnce'
  BY <1>1, <1>2, <1>3, <1>5, <1>6 DEF GrantedOnce
<1>10. OperationOfCommand'
  BY <1>1, <1>2 DEF OperationOfCommand
<1> QED BY <1>7, <1>8, <1>9, <1>10 DEF IInv

LEMMA ReadDataFacts ==
    ASSUME IInv, NEW n \in 1 .. Len(wire), ReadData(n)
    PROVE  /\ streams = "open" /\ resultsComing /\ connected
           /\ connected' = connected /\ command' = command
           /\ TypeOK /\ OperationOfCommand /\ HeaderInStep /\ KthHeaderHasKthId
           /\ SplitPrefix(Arrived(n)) \in Texts
           /\ requests \in Seq(Requests) /\ currentGroupCommand \in Requests \union {NoRequest}
           /\ articleId \in IdSet \union {""} /\ article \in Texts
           /\ calls \in Seq([id : IdSet \union {""}, text : Texts])
           /\ idx \in 0 .. Len(Ids)
<1>1. /\ TypeOK /\ UnconnectedIsIdle /\ OperationOfCommand
      /\ HeaderInStep /\ KthHeaderHasKthId
  BY DEF IInv
<1>2. /\ streams = "open" /\ resultsComing
      /\ connected' = connected /\ command' = command
  BY DEF ReadData, TakeData
<1>3. connected
  BY <1>1, <1>2 DEF UnconnectedIsIdle
<1>4. SplitPrefix(Arrived(n)) \in Texts
  BY <1>1, ReadFacts
<1> QED BY <1>1, <1>2, <1>3, <1>4 DEF TypeOK

(* What the delegate can be called with. *)
Call == [id : IdSet \union {""}, text : Texts]

LEMMA CallTyped ==
    ASSUME NEW id \in IdSet \union {""}, NEW text \in Texts
    PROVE  \E call \in Call : call = [id |-> id, text |-> text] /\ call.id = id
<1>1. [id |-> id, text |-> text] \in Call
  BY DEF Call
<1>2. [id |-> id, text |-> text].id = id
  OBVIOUS
<1> QED BY <1>1, <1>2, Zenon

LEMMA ReadListStep ==
    ASSUME IInv, NEW n \in 1 .. Len(wire), ReadArticleIds(n) \/ ReadGroups(n)
    PROVE  IInv'
<1>1. /\ ReadData(n) /\ requests' = requests /\ currentOperation' = currentOperation
      /\ currentGroupCommand' = currentGroupCommand /\ articleId' = articleId
      /\ article' = article /\ idx' = idx
      /\ currentOperation \in {"ListGroupArticles", "ListGroups"}
  BY DEF ReadArticleIds, ReadGroups, operation
<1>2. ClosesAtMost
  BY DEF ReadArticleIds, ReadGroups, Close, ClosesAtMost
<1>3. orderly' \in BOOLEAN
  <2>1. orderly' = (orderly /\ CleanList(n))
    BY DEF ReadArticleIds, ReadGroups
  <2> QED BY <2>1, Zenon
<1>4. calls' \in Seq([id : IdSet \union {""}, text : Texts])
  <2>1. calls' = calls \/ calls' = Append(calls, [id |-> "", text |-> SplitPrefix(Arrived(n))])
    BY DEF ReadArticleIds, ReadGroups
  <2>2. /\ SplitPrefix(Arrived(n)) \in Texts /\ TypeOK
        /\ calls \in Seq(Call)
    BY <1>1, ReadDataFacts DEF Call
  <2>3. PICK call \in Call : calls' = calls \/ calls' = Append(calls, call)
    BY <2>1, <2>2, CallTyped
  <2>4. calls' \in Seq(Call)
    <3>1. calls \in Seq(Call)
      BY <2>2
    <3> QED BY <2>3, <3>1, Appended
  <2> QED BY <2>4 DEF Call
<1>5. command # "ArticleHeader" /\ command' = command
  BY <1>1, ReadDataFacts DEF OperationOfCommand, NoOperation
<1>6. HeaderInStep' /\ KthHeaderHasKthId'
  BY <1>5 DEF HeaderInStep, KthHeaderHasKthId
<1> QED BY <1>1, <1>2, <1>3, <1>4, <1>6, ReadDataFacts, DataStep

LEMMA ReadArticleStep ==
    ASSUME IInv, NEW n \in 1 .. Len(wire), ReadArticle(n)
    PROVE  IInv'
<1>1. /\ ReadData(n) /\ requests' = requests /\ currentOperation' = currentOperation
      /\ currentGroupCommand' = currentGroupCommand /\ articleId' = articleId
      /\ idx' = idx /\ currentOperation = "Article"
      /\ article' = article \o SplitPrefix(Arrived(n)) \o << CRLF >>
  BY DEF ReadArticle, operation
<1>2. ClosesAtMost
  BY DEF ReadArticle, Close, ClosesAtMost
<1>3. orderly' \in BOOLEAN
  <2>1. orderly' = (orderly /\ CleanBody(n))
    BY DEF ReadArticle
  <2> QED BY <2>1, Zenon
<1>4. article' \in Texts
  <2>1. article \in Texts /\ SplitPrefix(Arrived(n)) \in Texts
    BY <1>1, ReadDataFacts
  <2>2. article \o SplitPrefix(Arrived(n)) \in Texts /\ << CRLF >> \in Texts
    BY <2>1, TokensTyped
  <2> QED BY <1>1, <2>2, TokensTyped
<1>5. calls' \in Seq([id : IdSet \union {""}, text : Texts])
  <2>1. calls' = calls \/ calls' = Append(calls, [id |-> articleId, text |-> article'])
    BY DEF ReadArticle
  <2>2. /\ articleId \in IdSet \union {""} /\ TypeOK
        /\ calls \in Seq(Call)
    BY <1>1, ReadDataFacts DEF Call
  <2>3. PICK call \in Call : calls' = calls \/ calls' = Append(calls, call)
    BY <1>4, <2>1, <2>2, CallTyped
  <2>4. calls' \in Seq(Call)
    <3>1. calls \in Seq(Call)
      BY <2>2
    <3> QED BY <2>3, <3>1, Appended
  <2> QED BY <2>4 DEF Call
<1>6. command # "ArticleHeader" /\ command' = command
  BY <1>1, ReadDataFacts DEF OperationOfCommand, NoOperation
<1>7. HeaderInStep' /\ KthHeaderHasKthId'
  BY <1>6 DEF HeaderInStep, KthHeaderHasKthId
<1> QED BY <1>1, <1>2, <1>3, <1>4, <1>5, <1>7, ReadDataFacts, DataStep

(* The header delivered carries the id of the request before the next one. *)
LEMMA ReadHeaderStep ==
    ASSUME IInv, NEW n \in 1 .. Len(wire), ReadHeader(n)
    PROVE  IInv'
<1>1. /\ ReadData(n) /\ NextHeader /\ currentOperation = "ArticleHeader"
      /\ calls' = Append(calls, [id |-> articleId, text |-> SplitPrefix(Arrived(n))])
  BY DEF ReadHeader
<1>2. /\ streams = "open" /\ connected /\ connected' = connected /\ command' = command
      /\ TypeOK /\ OperationOfCommand /\ HeaderInStep /\ KthHeaderHasKthId
      /\ SplitPrefix(Arrived(n)) \in Texts /\ articleId \in IdSet \union {""}
      /\ article \in Texts
  BY <1>1, ReadDataFacts
<1>3. command = "ArticleHeader"
  BY <1>1, <1>2 DEF OperationOfCommand, NoOperation
<1>4. connected' = TRUE
  BY <1>2 DEF TypeOK
<1>5. /\ Sends(Requests)
      /\ currentOperation' \in {currentOperation, "ArticleHeader"}
      /\ currentGroupCommand' \in Requests \union {NoRequest}
      /\ articleId' \in IdSet \union {""}
      /\ article' = article
      /\ idx' \in 0 .. Len(Ids)
      /\ ClosesAtMost
      /\ streams' = "open" =>
           /\ idx' = idx + 1 /\ idx' \in 1 .. Len(Ids)
           /\ articleId' = Ids[idx']
  BY <1>1, <1>2, <1>4, NextHeaderEffect
<1>6. requests' \in Seq(Requests)
  BY <1>2, <1>5, SendsTyped
<1>7. orderly' \in BOOLEAN
  <2>1. orderly' = (orderly /\ CleanHeader(n) /\ wire[n] = CRLF)
    BY DEF ReadHeader
  <2> QED BY <2>1, Zenon
<1>8. PICK call \in Call : call.id = articleId /\ calls' = Append(calls, call)
  BY <1>1, <1>2, CallTyped
<1>9. /\ calls' \in Seq(Call)
      /\ Len(calls) \in Nat /\ DOMAIN calls = 1 .. Len(calls)
      /\ Len(calls') = Len(calls) + 1 /\ DOMAIN calls' = 1 .. Len(calls) + 1
      /\ \A k \in 1 .. Len(calls) : calls'[k] = calls[k]
      /\ calls'[Len(calls) + 1].id = articleId
  <2>1. calls \in Seq(Call)
    BY <1>2 DEF TypeOK, Call
  <2> QED BY <1>8, <2>1, Appended
<1>10. idx \in 1 .. Len(Ids) /\ Len(calls) = idx - 1 /\ articleId = Ids[idx]
  BY <1>2, <1>3 DEF HeaderInStep
<1>11. /\ Len(Ids) \in Nat /\ Len(calls) + 1 = idx /\ Len(calls') = idx
       /\ Len(calls') <= Len(Ids)
  BY <1>9, <1>10, IdsTyped
<1>12. HeaderInStep'
  <2>1. streams' = "open" => idx' = idx + 1
    BY <1>5
  <2>2. idx + 1 - 1 = idx
    BY <1>10, <1>11
  <2>3. streams' = "open" => Len(calls') = idx' - 1
    BY <1>11, <2>1, <2>2
  <2> QED BY <1>5, <2>3 DEF HeaderInStep
<1>13. KthHeaderHasKthId'
  <2>1. \A k \in 1 .. Len(calls) : calls[k].id = Ids[k]
    BY <1>2, <1>3, <1>9 DEF KthHeaderHasKthId
  <2>2. \A k \in 1 .. Len(calls) : calls'[k].id = Ids[k]
    BY <1>9, <2>1
  <2>3. calls'[Len(calls) + 1].id = Ids[Len(calls) + 1]
    BY <1>9, <1>10, <1>11
  <2>4. \A k \in DOMAIN calls' : k \in 1 .. Len(calls) \/ k = Len(calls) + 1
    BY <1>9
  <2> QED BY <1>11, <2>2, <2>3, <2>4 DEF KthHeaderHasKthId
<1>14. calls' \in Seq([id : IdSet \union {""}, text : Texts])
  BY <1>9 DEF Call
<1> QED BY <1>1, <1>2, <1>3, <1>5, <1>6, <1>7, <1>12, <1>13, <1>14, DataStep
--------------------------------------------------------------------------------
(***************************************************************************)
(* The theorems.                                                            *)
(***************************************************************************)
LEMMA InvariantStep == IInv /\ [Next]_vars => IInv'
<1> SUFFICES ASSUME IInv, [Next]_vars PROVE IInv'
  OBVIOUS
<1>1. CASE Open
  BY <1>1, OpenStep
<1>2. CASE ServerGreet
  BY <1>2, GreetStep
<1>3. CASE ServerAnswer
  BY <1>3, AnswerStep
<1>4. CASE ServerHangUp
  BY <1>4, HangUpStep
<1>5. CASE LoopExit
  BY <1>5, LoopExitStep
<1>6. ASSUME NEW n \in 1 .. Len(wire), ReadStatus(n) PROVE IInv'
  BY <1>6, ReadStatusStep
<1>7. ASSUME NEW n \in 1 .. Len(wire), ReadArticle(n) PROVE IInv'
  BY <1>7, ReadArticleStep
<1>8. ASSUME NEW n \in 1 .. Len(wire), ReadHeader(n) PROVE IInv'
  BY <1>8, ReadHeaderStep
<1>9. ASSUME NEW n \in 1 .. Len(wire), ReadArticleIds(n) \/ ReadGroups(n) PROVE IInv'
  BY <1>9, ReadListStep
<1>10. CASE UNCHANGED vars
  BY <1>10, StutterStep
<1> QED BY <1>1, <1>2, <1>3, <1>4, <1>5, <1>6, <1>7, <1>8, <1>9, <1>10
    DEF Next, ReaderNext, ServerNext, Read

LEMMA Invariance == Spec => []IInv
BY InitInvariant, InvariantStep, PTL DEF Spec

(* Every variable keeps its type: no cut of the replies and no refusal can   *)
(* make idx overrun the ids, or the reader keep anything but text.           *)
THEOREM TypeCorrect == Spec => []TypeOK
<1>1. IInv => TypeOK
  BY DEF IInv
<1> QED BY <1>1, Invariance, PTL

(* Nothing but the login reaches the server before it has granted access,    *)
(* for every list, header and article, and every cut of the replies.         *)
THEOREM LoginIsFirst == Spec => []LoginFirst
<1>1. IInv => LoginFirst
  BY DEF IInv, GrantedOnce, UnconnectedIsIdle, LoginFirst, Early
<1> QED BY <1>1, Invariance, PTL

(* The k-th header is delivered under the k-th id, for any number of ids.    *)
THEOREM HeadersInStep == Spec => []KthHeaderHasKthId
<1>1. IInv => KthHeaderHasKthId
  BY DEF IInv
<1> QED BY <1>1, Invariance, PTL

(***************************************************************************)
(* After the connection is closed, the read loop still ends and its residue *)
(* is still processed; none of that delivers, requests or reopens anything. *)
(***************************************************************************)
THEOREM ClosedIsQuiet == Spec => QuietOnceClosed
<1> DEFINE Quiet == streams = "closed" => UNCHANGED << streams, calls, requests, idx, articleId >>
<1>1. IInv /\ [Next]_vars => [Quiet]_vars
  <2> SUFFICES ASSUME IInv, streams = "closed", [Next]_vars
               PROVE  UNCHANGED << streams, calls, requests, idx, articleId >>
    OBVIOUS
  <2>1. CASE LoopExit
    <3>1. TypeOK /\ OperationOfCommand /\ UnconnectedIsIdle /\ GrantedOnce
      BY DEF IInv
    <3>2. /\ pc = "reading" /\ ProcessResponse(response) /\ calls' = calls
          /\ response \in Texts /\ wire \in Texts
      BY <2>1, <3>1 DEF LoopExit, history, TypeOK
    <3>3. ~Has(Pending, Granted[1])
      BY <3>1, <3>2 DEF OperationOfCommand, UnconnectedIsIdle, GrantedOnce
    <3>4. ~StartsWith(response, Granted)
      BY <3>2, <3>3, FirstWord DEF Pending
    <3>5. ClosesAtMost /\ idx' = idx /\ articleId' = articleId /\ requests' = requests
      BY <3>1, <3>2, <3>4, QuietResponse
    <3> QED BY <3>2, <3>5 DEF ClosesAtMost
  <2>2. ~Open /\ ~ServerGreet /\ ~ServerAnswer /\ ~ServerHangUp
    BY DEF Open, ServerGreet, ServerAnswer, ServerHangUp
  <2>3. ~Read
    BY DEF Read, ReadStatus, ReadArticle, ReadHeader, ReadArticleIds, ReadGroups, ReadData
  <2>4. CASE UNCHANGED vars
    BY <2>4 DEF vars, connection, reader, operation, history
  <2> QED BY <2>1, <2>2, <2>3, <2>4 DEF Next, ReaderNext, ServerNext
<1> QED BY <1>1, Invariance, PTL DEF Spec, QuietOnceClosed
--------------------------------------------------------------------------------
(***************************************************************************)
(* Request and reply alternate, as long as every read ends where the reader *)
(* assumes.  Before the results come, what is on the wire is one whole      *)
(* reply, and only the login and the requests for a list or for the group   *)
(* are out.  When they come, what is kept of a read is no status line, or   *)
(* the end of the read loop could request something on its account.         *)
(***************************************************************************)
WholeReplies ==
    {StatusLine(status) :
        status \in {Welcome, PassRequired, Granted, Failed, NoSuchGroup, GroupRange}}
    \union {Block(GroupsFollow, Listing), Block(NumbersFollow, Listing)}

Openings == LoginRequests \union {List, ListGroup, Group}

NothingBeforeGreeting == session = "silent" => wire = << >> /\ requests = << >>

OpeningsFirst == ~resultsComing => \A i \in DOMAIN requests : requests[i] \in Openings

Alternates ==
    /\ Len(requests) <= 1
    /\ requests # << >> => wire = << >> /\ response = << >>
    /\ resultsComing => ~LooksLikeStatus(response)
    /\ ~resultsComing /\ wire # << >> => wire \in WholeReplies

InTurn ==
    /\ NothingBeforeGreeting
    /\ OpeningsFirst
    /\ orderly /\ session # "over" => Alternates

(* Where a status line ends, and what is read of it when it is read alone. *)
LEMMA StatusLineRead ==
    ASSUME NEW status \in Texts, ~Has(status, CRLF), wire = StatusLine(status),
           NEW n \in 1 .. Len(wire), CleanStatus(n)
    PROVE  Remaining(n) = << >>
<1>1. /\ status \in Seq(Tokens) /\ Len(status) \in Nat
      /\ Len(wire) = Len(status) + 1 /\ \A i \in 1 .. Len(status) : wire[i] = status[i]
  BY TokensTyped DEF StatusLine, Texts
<1>2. wire[n] = CRLF
  BY DEF CleanStatus
<1>3. n = Len(wire)
  BY <1>1, <1>2 DEF Has
<1>4. wire \in Seq(Tokens)
  BY StatusLineTokens DEF Texts
<1> QED BY <1>3, <1>4 DEF Remaining

LEMMA BlockRead ==
    ASSUME NEW status \in Texts, ~Has(status, CRLF), NEW text \in Texts,
           wire = Block(status, text), NEW n \in 1 .. Len(wire), CleanStatus(n)
    PROVE  StartsWith(Arrived(n), status)
<1> DEFINE back == StatusLine(<< Dot >>)
           rest == text \o back
           line == StatusLine(status)
<1>1. << Dot >> \in Texts
  BY TokensTyped
<1>2. back \in Seq(Tokens) /\ line \in Seq(Tokens) /\ text \in Seq(Tokens)
      /\ status \in Seq(Tokens)
  BY <1>1, StatusLineTokens DEF Texts
<1>3. /\ Len(line) = Len(status) + 1 /\ line[Len(status) + 1] = CRLF /\ Len(status) \in Nat
      /\ \A i \in 1 .. Len(status) : line[i] = status[i]
  BY <1>2 DEF StatusLine
<1> HIDE DEF back, line
<1>4. rest \in Seq(Tokens) /\ wire = line \o rest
  <2>1. wire = (line \o text) \o back
    BY DEF Block, back, line
  <2>2. (line \o text) \o back = line \o (text \o back)
    BY <1>2, SMTT(60)
  <2> QED BY <1>2, <2>1, <2>2
<1> HIDE DEF rest
<1>5. /\ wire \in Seq(Tokens) /\ Len(wire) = Len(status) + 1 + Len(rest)
      /\ wire[Len(status) + 1] = CRLF /\ \A i \in 1 .. Len(status) : wire[i] = status[i]
  <2>1. /\ wire \in Seq(Tokens) /\ Len(wire) = Len(line) + Len(rest) /\ Len(rest) \in Nat
        /\ \A i \in 1 .. Len(line) : wire[i] = line[i]
    BY <1>2, <1>4
  <2> QED BY <1>3, <2>1
<1>6. /\ response = << >> /\ wire[n] = CRLF /\ \A i \in 1 .. n - 1 : wire[i] # CRLF
  BY DEF CleanStatus
<1>7. \A i \in 1 .. Len(status) : status[i] # CRLF
  BY <1>2 DEF Has
<1>8. n = Len(status) + 1
  BY <1>3, <1>5, <1>6, <1>7
<1>9. Arrived(n) = SubSeq(wire, 1, n)
  BY <1>5, <1>6 DEF Arrived
<1>10. SubSeq(wire, 1, n) \in Seq(Tokens) /\ Len(SubSeq(wire, 1, n)) = n
       /\ \A i \in 1 .. n : SubSeq(wire, 1, n)[i] = wire[i]
  BY <1>5
<1>11. SubSeq(status, 1, Len(status)) = SubSeq(SubSeq(wire, 1, n), 1, Len(status))
  BY <1>2, <1>3, <1>5, <1>8, <1>10
<1> QED BY <1>3, <1>8, <1>9, <1>10, <1>11 DEF StartsWith, IsPrefix

(* No line of the login, and none that announces results, has a break in it. *)
LEMMA NoBreaks ==
    \A status \in {Welcome, PassRequired, Granted, Failed, NoSuchGroup, GroupRange,
                   GroupsFollow, NumbersFollow} : ~Has(status, CRLF)
<1>1. \A a, token : Has(<< a >>, token) <=> token = a
  BY DEF Has
<1>2. \A a, b, token : Has(<< a, b >>, token) => token = a \/ token = b
  BY DEF Has
<1>3. /\ ~Has(Welcome, CRLF) /\ ~Has(PassRequired, CRLF) /\ ~Has(Granted, CRLF)
      /\ ~Has(Failed, CRLF) /\ ~Has(NoSuchGroup, CRLF) /\ ~Has(GroupsFollow, CRLF)
  BY <1>1 DEF Welcome, PassRequired, Granted, Failed, NoSuchGroup, GroupsFollow, CRLF
<1>4. ~Has(GroupRange, CRLF) /\ ~Has(NumbersFollow, CRLF)
  BY <1>2 DEF GroupRange, NumbersFollow, CRLF
<1> QED BY <1>3, <1>4

(* The article numbers are announced like the group. *)
LEMMA SelectedToo ==
    ASSUME NEW buffer \in Texts, StartsWith(buffer, NumbersFollow)
    PROVE  StartsWith(buffer, GroupSelected)
<1>1. Len(NumbersFollow) <= Len(buffer) /\ Len(buffer) \in Nat
  BY DEF StartsWith, IsPrefix, Texts
<1>2. Len(NumbersFollow) = 2 /\ Len(GroupSelected) = 1 /\ buffer[1] = GroupSelected[1]
  BY FirstWord DEF NumbersFollow, GroupSelected
<1>3. ASSUME NEW s \in Seq(Tokens), NEW t \in Seq(Tokens), Len(s) >= 1, Len(t) >= 1, s[1] = t[1]
      PROVE  SubSeq(s, 1, 1) = SubSeq(t, 1, 1)
  <2>1. /\ SubSeq(s, 1, 1) \in Seq(Tokens) /\ Len(SubSeq(s, 1, 1)) = 1 /\ SubSeq(s, 1, 1)[1] = s[1]
        /\ SubSeq(t, 1, 1) \in Seq(Tokens) /\ Len(SubSeq(t, 1, 1)) = 1 /\ SubSeq(t, 1, 1)[1] = t[1]
    BY <1>3
  <2> QED BY <1>3, <2>1
<1>4. SubSeq(buffer, 1, 1) = SubSeq(GroupSelected, 1, 1)
  BY <1>1, <1>2, <1>3, StatusTexts DEF Texts
<1>5. 1 <= Len(buffer)
  BY <1>1, <1>2
<1> QED BY <1>2, <1>4, <1>5 DEF StartsWith, IsPrefix

(* The line that announces a list has no other effect. *)
LEMMA Announced ==
    ASSUME NEW buffer \in Texts, ProcessResponse(buffer),
           StartsWith(buffer, GroupsFollow) \/ StartsWith(buffer, NumbersFollow)
    PROVE  OnResultsFollow(buffer)
<1>1. 1 \in DOMAIN buffer /\ buffer[1] \in {GroupsFollow[1], NumbersFollow[1]}
  BY FirstWord
<1>2. \A status \in {Welcome, PassRequired, Granted, Failed, Goodbye} : ~StartsWith(buffer, status)
  <2>1. \A status \in {Welcome, PassRequired, Granted, Failed, Goodbye} :
           status[1] \notin {GroupsFollow[1], NumbersFollow[1]}
    <3>1. GroupsFollow[1] = "215 NewsGroups Follow" /\ NumbersFollow[1] = "211 "
      BY DEF GroupsFollow, NumbersFollow
    <3>2. /\ Welcome[1] = "200 Welcome" /\ PassRequired[1] = "381 PASS required"
          /\ Granted[1] = "281 Welcome" /\ Failed[1] = "502 Authentication Failed"
          /\ Goodbye[1] = "205 Goodbye"
      BY DEF Welcome, PassRequired, Granted, Failed, Goodbye
    <3> QED BY <3>1, <3>2
  <2> QED BY <1>1, <2>1, FirstWord
<1>3. buffer # << Dot >>
  <2>1. << Dot >>[1] = Dot /\ Dot \notin {GroupsFollow[1], NumbersFollow[1]}
    BY DEF Dot, GroupsFollow, NumbersFollow
  <2> QED BY <1>1, <2>1
<1>4. ~OnGroupSelected(buffer)
  <2>1. CASE StartsWith(buffer, NumbersFollow)
    BY <2>1 DEF OnGroupSelected
  <2>2. CASE StartsWith(buffer, GroupsFollow)
    <3>1. buffer[1] = GroupsFollow[1] /\ GroupsFollow[1] # GroupSelected[1]
      BY <2>2, FirstWord DEF GroupsFollow, GroupSelected
    <3> QED BY <3>1, FirstWord DEF OnGroupSelected
  <2> QED BY <2>1, <2>2
<1>5. ~OnUnrecognised(buffer)
  <2>1. CASE StartsWith(buffer, GroupsFollow)
    BY <2>1 DEF OnUnrecognised, Recognised, LooksLikeStatus
  <2>2. CASE StartsWith(buffer, NumbersFollow)
    BY <2>2, SelectedToo DEF OnUnrecognised, Recognised, LooksLikeStatus
  <2> QED BY <2>1, <2>2
<1> QED BY <1>2, <1>3, <1>4, <1>5 DEF ProcessResponse, OnWelcome, OnDone, OnPassRequired,
    OnConnected, OnFailed, OnGoodbye

(* What is written while nothing is out: at most one request. *)
LEMMA OneSent ==
    ASSUME requests = << >>, NEW allowed, Sends(allowed)
    PROVE  Len(requests') <= 1 /\ \A i \in DOMAIN requests' : requests'[i] \in allowed
<1>1. CASE requests' = requests
  BY <1>1
<1>2. ASSUME NEW request \in allowed, requests' = Append(requests, request)
      PROVE  Len(requests') <= 1 /\ \A i \in DOMAIN requests' : requests'[i] \in allowed
  <2>1. requests' = << request >>
    BY <1>2
  <2> QED BY <2>1
<1> QED BY <1>1, <1>2 DEF Sends

(* The command starts with a list or with the group. *)
LEMMA StartOpens ==
    ASSUME TypeOK, ~resultsComing, connected' = TRUE, Start
    PROVE  Sends(Openings)
<1>1. command \in CommandKinds
  BY IdsTyped DEF TypeOK
<1>2. ASSUME NEW request \in Openings, Send(request) PROVE Sends(Openings)
  BY <1>2 DEF Send, Sends
<1>3. List \in Openings /\ ListGroup \in Openings /\ Group \in Openings
  BY DEF Openings
<1>4. CASE command = "ListGroups"
  BY <1>2, <1>3, <1>4 DEF Start, ListGroupsOp
<1>5. CASE command = "ListGroupArticles"
  BY <1>2, <1>3, <1>5 DEF Start, ListArticlesOp
<1>6. CASE command = "ArticleHeader"
  <2>1. NextHeader
    BY <1>6 DEF Start
  <2>2. CASE idx < Len(Ids)
    <3>1. Send(Group)
      BY <2>1, <2>2 DEF NextHeader, AskNext, ArticleHeaderOp, Request
    <3> QED BY <1>2, <1>3, <3>1
  <2>3. CASE ~ (idx < Len(Ids))
    <3>1. requests' = requests
      BY <2>1, <2>3 DEF NextHeader, AskNoMore
    <3> QED BY <3>1 DEF Sends
  <2> QED BY <2>2, <2>3
<1>7. CASE command = "Article"
  <2>1. ArticleOp(Ids[1])
    BY <1>7 DEF Start
  <2>2. Send(Group)
    BY <2>1 DEF ArticleOp, Request
  <2> QED BY <1>2, <1>3, <2>2
<1> QED BY <1>1, <1>4, <1>5, <1>6, <1>7 DEF CommandKinds

(* What processResponse writes before the results come.  What makes it write *)
(* is forgotten.                                                             *)
LEMMA ResponseOpens ==
    ASSUME TypeOK, ~resultsComing, NEW buffer \in Texts, ProcessResponse(buffer)
    PROVE  /\ Sends(Requests)
           /\ ~resultsComing' => Sends(Openings)
           /\ requests' = requests \/ response' = << >>
           /\ resultsComing' => response' = << >>
<1> USE DEF operation
<1>0. User \in Openings /\ Pass \in Openings /\ Openings \subseteq Requests
  BY DEF Openings, LoginRequests, Requests
<1>1. CASE OnWelcome(buffer)
  BY <1>0, <1>1 DEF OnWelcome, Forget, Send, Sends
<1>2. CASE OnDone(buffer)
  BY <1>2 DEF OnDone, Sends
<1>3. CASE OnPassRequired(buffer)
  BY <1>0, <1>3 DEF OnPassRequired, Forget, Send, Sends
<1>4. CASE OnConnected(buffer)
  <2>1. Sends(Openings) /\ response' = << >>
    BY <1>4, StartOpens DEF OnConnected, Forget
  <2> QED BY <1>0, <2>1 DEF Sends
<1>5. CASE OnFailed(buffer)
  BY <1>5 DEF OnFailed, Sends
<1>6. CASE OnGoodbye(buffer)
  BY <1>6 DEF OnGoodbye, Sends
<1>7. CASE OnResultsFollow(buffer)
  BY <1>7 DEF OnResultsFollow, Forget, Sends
<1>8. CASE OnGroupSelected(buffer)
  <2>1. Sends(Requests)
    BY <1>8, SendEffect DEF OnGroupSelected, TypeOK
  <2>2. resultsComing' = TRUE /\ response' = << >>
    BY <1>8 DEF OnGroupSelected, Forget
  <2> QED BY <2>1, <2>2
<1>9. CASE OnUnrecognised(buffer)
  BY <1>9 DEF OnUnrecognised, Sends
<1> QED BY <1>1, <1>2, <1>3, <1>4, <1>5, <1>6, <1>7, <1>8, <1>9 DEF ProcessResponse

(***************************************************************************)
(* The steps.                                                               *)
(***************************************************************************)
LEMMA EmptyIsNoStatus == ~LooksLikeStatus(<< >>)
<1>1. << >> \in Texts /\ DOMAIN << >> = {}
  BY DEF Texts
<1>2. ASSUME NEW status \in {Welcome, PassRequired, Granted, Failed, Goodbye, GroupsFollow,
                             NumbersFollow, GroupSelected}, StartsWith(<< >>, status)
      PROVE  FALSE
  BY <1>1, <1>2, FirstWord
<1> QED BY <1>2 DEF LooksLikeStatus

LEMMA NothingBeforehand ==
    ASSUME IInv, session = "silent"
    PROVE  ~resultsComing /\ pc # "reading"
BY DEF IInv, GrantedOnce, UnconnectedIsIdle, OperationOfCommand, Early

LEMMA TurnInit == Init => InTurn
<1> SUFFICES ASSUME Init PROVE InTurn
  OBVIOUS
<1>1. wire = << >> /\ requests = << >> /\ response = << >> /\ resultsComing = FALSE
  BY DEF Init
<1>2. Len(requests) <= 1 /\ DOMAIN requests = {}
  BY <1>1
<1> QED BY <1>1, <1>2 DEF InTurn, NothingBeforeGreeting, OpeningsFirst, Alternates

LEMMA TurnUnchanged ==
    ASSUME InTurn, UNCHANGED << wire, requests, session, resultsComing, response, orderly >>
    PROVE  InTurn'
BY DEF InTurn, NothingBeforeGreeting, OpeningsFirst, Alternates

LEMMA TurnGreet == ASSUME IInv, InTurn, ServerGreet PROVE InTurn'
<1>1. /\ session = "silent" /\ session' = "greeted" /\ wire' = wire \o StatusLine(Welcome)
      /\ UNCHANGED << requests, resultsComing, response >>
  BY DEF ServerGreet, Serve, reader
<1>2. wire = << >> /\ requests = << >> /\ ~resultsComing
  BY <1>1, NothingBeforehand DEF InTurn, NothingBeforeGreeting
<1>3. StatusLine(Welcome) \in Texts
  BY StatusTexts, StatusLineTokens
<1>4. wire' = StatusLine(Welcome)
  BY <1>1, <1>2, <1>3 DEF Texts
<1>5. wire' \in WholeReplies
  BY <1>4 DEF WholeReplies
<1>6. Len(requests') <= 1
  BY <1>1, <1>2
<1> QED BY <1>1, <1>2, <1>5, <1>6 DEF InTurn, NothingBeforeGreeting, OpeningsFirst, Alternates

(* The reply to the login, or to the request for a list or for the group. *)
LEMMA OpeningReply ==
    ASSUME NEW request \in Openings, NEW reply \in Replies(request)
    PROVE  reply \in WholeReplies
<1>1. CASE request = User
  <2>1. reply = StatusLine(PassRequired)
    BY <1>1, RequestsApart DEF Replies, LoginRequests
  <2> QED BY <2>1 DEF WholeReplies
<1>2. CASE request = Pass
  <2>1. reply = StatusLine(Granted) \/ reply = StatusLine(Failed)
    BY <1>2, RequestsApart DEF Replies, LoginRequests
  <2> QED BY <2>1 DEF WholeReplies
<1>3. CASE request = List
  <2>1. reply = Block(GroupsFollow, Listing)
    BY <1>3, RequestsApart DEF Replies, LoginRequests
  <2> QED BY <2>1 DEF WholeReplies
<1>4. CASE request = ListGroup
  <2>1. reply = Block(NumbersFollow, Listing) \/ reply = StatusLine(NoSuchGroup)
    BY <1>4, RequestsApart DEF Replies, LoginRequests
  <2> QED BY <2>1 DEF WholeReplies
<1>5. CASE request = Group
  <2>1. reply = StatusLine(GroupRange) \/ reply = StatusLine(NoSuchGroup)
    BY <1>5, RequestsApart DEF Replies, LoginRequests
  <2> QED BY <2>1 DEF WholeReplies
<1> QED BY <1>1, <1>2, <1>3, <1>4, <1>5 DEF Openings, LoginRequests

LEMMA TurnAnswer == ASSUME IInv, InTurn, ServerAnswer PROVE InTurn'
<1> DEFINE request == Head(requests)
<1>1. /\ requests # << >> /\ Expected(request) /\ requests' = Tail(requests)
      /\ UNCHANGED << resultsComing, response, orderly >>
  BY DEF ServerAnswer, reader
<1>2. PICK reply \in Replies(request) :
         Serve(reply) /\ session' = SessionAfter(request, reply)
  BY DEF ServerAnswer
<1>3. /\ requests \in Seq(Requests) /\ request \in Requests /\ request = requests[1]
      /\ 1 \in DOMAIN requests /\ Len(requests) \in Nat
      /\ \A i \in DOMAIN requests' : i + 1 \in DOMAIN requests /\ requests'[i] = requests[i + 1]
  <2>1. requests \in Seq(Requests)
    BY DEF IInv, TypeOK
  <2>2. Len(requests) \in Nat /\ Len(requests) >= 1 /\ request = requests[1]
    BY <1>1, <2>1
  <2>3. \A i \in DOMAIN Tail(requests) :
           i + 1 \in DOMAIN requests /\ Tail(requests)[i] = requests[i + 1]
    BY <1>1, <2>1
  <2> QED BY <1>1, <2>1, <2>2, <2>3
<1> HIDE DEF request
<1>4. session \notin {"silent", "over"} /\ session' # "silent"
  BY <1>1, <1>2 DEF Expected, SessionAfter
<1>5. OpeningsFirst'
  BY <1>1, <1>3 DEF InTurn, OpeningsFirst
<1>6. reply \in Texts
  BY <1>3, ReplyTokens
<1>7. ASSUME orderly' PROVE Alternates'
  <2>1. Alternates
    BY <1>1, <1>4, <1>7 DEF InTurn
  <2>2. Len(requests) <= 1 /\ wire = << >> /\ response = << >>
    BY <1>1, <2>1 DEF Alternates
  <2>3. requests' = << >>
    BY <1>1, <1>3, <2>2
  <2>4. wire' = reply
    BY <1>2, <1>6, <2>2 DEF Serve, Texts
  <2>5. ~resultsComing => wire' \in WholeReplies
    BY <1>2, <1>3, <2>4, OpeningReply DEF InTurn, OpeningsFirst
  <2>6. Len(requests') <= 1
    BY <2>3
  <2> QED BY <1>1, <2>1, <2>3, <2>5, <2>6 DEF Alternates
<1> QED BY <1>4, <1>5, <1>7 DEF InTurn, NothingBeforeGreeting

LEMMA TurnHangUp == ASSUME IInv, InTurn, ServerHangUp PROVE InTurn'
<1>1. session' = "over" /\ UNCHANGED << requests, resultsComing >>
  BY DEF ServerHangUp, reader
<1> QED BY <1>1 DEF InTurn, NothingBeforeGreeting, OpeningsFirst

LEMMA TurnReadStatus ==
    ASSUME IInv, InTurn, NEW n \in 1 .. Len(wire), ReadStatus(n)
    PROVE  InTurn'
<1>1. /\ ~resultsComing /\ wire' = Remaining(n) /\ ProcessResponse(Arrived(n))
      /\ session' = session /\ orderly' = (orderly /\ CleanStatus(n))
  BY DEF ReadStatus
<1>2. /\ TypeOK /\ Arrived(n) \in Texts /\ wire' \in Texts /\ wire # << >>
      /\ requests \in Seq(Requests)
  <2>1. TypeOK /\ requests \in Seq(Requests) /\ wire \in Seq(Tokens)
    BY DEF IInv, TypeOK, Texts
  <2>2. wire # << >>
    BY <2>1
  <2> QED BY <1>1, <2>1, <2>2, ReadFacts
<1>3. session # "silent"
  BY <1>2 DEF InTurn, NothingBeforeGreeting
<1>4. /\ Sends(Requests) /\ (~resultsComing' => Sends(Openings))
      /\ requests' = requests \/ response' = << >>
      /\ resultsComing' => response' = << >>
  BY <1>1, <1>2, ResponseOpens
<1>5. OpeningsFirst'
  <2>1. Openings \subseteq Requests
    BY DEF Openings, LoginRequests, Requests
  <2>2. \A i \in DOMAIN requests : requests[i] \in Openings
    BY <1>1 DEF InTurn, OpeningsFirst
  <2> QED BY <1>2, <1>4, <2>1, <2>2, SendsTyped DEF OpeningsFirst
<1>6. ASSUME orderly', session # "over" PROVE Alternates'
  <2>1. orderly /\ CleanStatus(n)
    BY <1>1, <1>6
  <2>2. requests = << >> /\ wire \in WholeReplies
    BY <1>1, <1>2, <1>6, <2>1 DEF InTurn, Alternates
  <2>3. Len(requests') <= 1
    BY <1>4, <2>2, OneSent
  <2>4. resultsComing' => ~LooksLikeStatus(response')
    BY <1>4, EmptyIsNoStatus
  <2>5. ASSUME NEW status \in {Welcome, PassRequired, Granted, Failed, NoSuchGroup, GroupRange},
               wire = StatusLine(status)
        PROVE  Alternates'
    <3>1. status \in Texts /\ ~Has(status, CRLF)
      BY StatusTexts, NoBreaks
    <3>2. wire' = << >>
      BY <1>1, <2>1, <2>5, <3>1, StatusLineRead
    <3> QED BY <1>4, <2>2, <2>3, <2>4, <3>2 DEF Alternates
  <2>6. ASSUME NEW status \in {GroupsFollow, NumbersFollow}, wire = Block(status, Listing)
        PROVE  Alternates'
    <3>1. status \in Texts /\ ~Has(status, CRLF) /\ Listing \in Texts
      BY StatusTexts, NoBreaks, PayloadTyped
    <3>2. StartsWith(Arrived(n), status)
      BY <2>1, <2>6, <3>1, BlockRead
    <3>3. OnResultsFollow(Arrived(n))
      BY <1>1, <1>2, <3>2, Announced
    <3>4. resultsComing' = TRUE /\ requests' = requests
      BY <3>3 DEF OnResultsFollow
    <3> QED BY <2>2, <2>3, <2>4, <3>4 DEF Alternates
  <2> QED BY <2>2, <2>5, <2>6 DEF WholeReplies
<1> QED BY <1>1, <1>3, <1>5, <1>6 DEF InTurn, NothingBeforeGreeting

LEMMA TurnLoopExit == ASSUME IInv, InTurn, LoopExit PROVE InTurn'
<1>1. TypeOK /\ OperationOfCommand /\ UnconnectedIsIdle /\ GrantedOnce
  BY DEF IInv
<1>2. /\ pc = "reading" /\ ProcessResponse(response) /\ UNCHANGED << wire, session, orderly >>
      /\ response \in Texts /\ wire \in Texts
  BY <1>1 DEF LoopExit, history, TypeOK
<1>3. resultsComing /\ session # "silent"
  BY <1>1, <1>2, NothingBeforehand DEF OperationOfCommand
<1>4. ~StartsWith(response, Granted)
  <2>1. ~Has(Pending, Granted[1])
    BY <1>1, <1>3 DEF UnconnectedIsIdle, GrantedOnce
  <2> QED BY <1>2, <2>1, FirstWord DEF Pending
<1>5. resultsComing'
  BY <1>1, <1>2, <1>3, <1>4, QuietResponse
<1>6. ASSUME orderly', session # "over" PROVE Alternates'
  <2>1. Alternates
    BY <1>2, <1>6 DEF InTurn
  <2>2. ~LooksLikeStatus(response)
    BY <1>3, <2>1 DEF Alternates
  <2>3. OnDone(response) \/ OnUnrecognised(response)
    <3>1. ~StartsWith(response, NumbersFollow)
      <4>1. SUFFICES ASSUME StartsWith(response, NumbersFollow) PROVE FALSE
        OBVIOUS
      <4>2. OnResultsFollow(response)
        BY <1>2, <4>1, Announced
      <4>3. StartsWith(response, GroupSelected)
        BY <1>2, <4>1, SelectedToo
      <4> QED BY <2>2, <4>3 DEF LooksLikeStatus
    <3> QED BY <1>2, <2>2, <3>1 DEF ProcessResponse, LooksLikeStatus, OnWelcome, OnPassRequired,
            OnConnected, OnFailed, OnGoodbye, OnResultsFollow, OnGroupSelected
  <2>4. requests' = requests /\ response' = response
    BY <2>3 DEF OnDone, OnUnrecognised
  <2> QED BY <1>2, <1>3, <1>5, <2>1, <2>4 DEF Alternates
<1> QED BY <1>2, <1>3, <1>5, <1>6 DEF InTurn, NothingBeforeGreeting, OpeningsFirst

(* A read of data leaves nothing of a list or an article that the end of the *)
(* read loop could take for a status line, and nothing at all of a header.   *)
LEMMA TurnReadData ==
    ASSUME IInv, InTurn, NEW n \in 1 .. Len(wire), ReadData(n),
           orderly' => orderly,
           orderly' => \/ requests' = requests /\ ~LooksLikeStatus(SplitRest(Arrived(n)))
                       \/ CleanHeader(n) /\ wire[n] = CRLF /\ Sends(Requests)
    PROVE  InTurn'
<1>1. /\ resultsComing /\ UNCHANGED << resultsComing, session >>
      /\ wire' = Remaining(n) /\ response' = SplitRest(Arrived(n))
  BY DEF ReadData, TakeData
<1>2. wire \in Seq(Tokens) /\ response \in Seq(Tokens) /\ wire # << >>
  <2>1. wire \in Seq(Tokens) /\ response \in Seq(Tokens)
    BY DEF IInv, TypeOK, Texts
  <2> QED BY <2>1
<1>3. session # "silent"
  BY <1>2 DEF InTurn, NothingBeforeGreeting
<1>4. ASSUME orderly', session # "over" PROVE Alternates'
  <2>1. Alternates /\ requests = << >>
    BY <1>2, <1>4 DEF InTurn, Alternates
  <2>2. CASE requests' = requests /\ ~LooksLikeStatus(SplitRest(Arrived(n)))
    BY <1>1, <2>1, <2>2 DEF Alternates
  <2>3. CASE CleanHeader(n) /\ wire[n] = CRLF /\ Sends(Requests)
    <3>1. response = << >> /\ n = Len(wire)
      BY <2>3 DEF CleanHeader
    <3>2. Arrived(n) = wire /\ wire' = << >>
      BY <1>1, <1>2, <3>1 DEF Arrived, Remaining
    <3>3. response' = << >>
      <4>1. Len(wire) \in Breaks(wire) /\ Breaks(wire) # {}
        BY <1>2, <2>3, <3>1 DEF Breaks
      <4>2. Max(Breaks(wire)) = Len(wire)
        <5>1. Max(Breaks(wire)) \in 1 .. Len(wire)
              /\ \A i \in Max(Breaks(wire)) + 1 .. Len(wire) : wire[i] # CRLF
          BY <1>2, <4>1, LastBreak
        <5> QED BY <1>2, <2>3, <3>1, <5>1
      <4>3. SplitRest(wire) = SubSeq(wire, Len(wire) + 1, Len(wire))
        BY <4>1, <4>2 DEF SplitRest
      <4> QED BY <1>1, <1>2, <3>2, <4>3
    <3>4. Len(requests') <= 1
      BY <2>1, <2>3, OneSent
    <3> QED BY <1>1, <3>2, <3>3, <3>4, EmptyIsNoStatus DEF Alternates
  <2> QED BY <1>4, <2>2, <2>3
<1> QED BY <1>1, <1>3, <1>4 DEF InTurn, NothingBeforeGreeting, OpeningsFirst

LEMMA TurnReadHeader ==
    ASSUME IInv, InTurn, NEW n \in 1 .. Len(wire), ReadHeader(n)
    PROVE  InTurn'
<1>1. ReadData(n) /\ NextHeader /\ orderly' = (orderly /\ CleanHeader(n) /\ wire[n] = CRLF)
  BY DEF ReadHeader
<1>2. TypeOK /\ connected' = TRUE
  BY <1>1, ReadDataFacts DEF TypeOK
<1>3. Sends(Requests)
  BY <1>1, <1>2, NextHeaderEffect
<1> QED BY <1>1, <1>3, TurnReadData

LEMMA TurnInvariance == Spec => []InTurn
<1>1. IInv /\ InTurn /\ [Next]_vars => InTurn'
  <2> SUFFICES ASSUME IInv, InTurn, [Next]_vars PROVE InTurn'
    OBVIOUS
  <2>1. CASE Open
    BY <2>1, TurnUnchanged DEF Open, reader, history
  <2>2. CASE ServerGreet
    BY <2>2, TurnGreet
  <2>3. CASE ServerAnswer
    BY <2>3, TurnAnswer
  <2>4. CASE ServerHangUp
    BY <2>4, TurnHangUp
  <2>5. CASE LoopExit
    BY <2>5, TurnLoopExit
  <2>6. ASSUME NEW n \in 1 .. Len(wire), ReadStatus(n) PROVE InTurn'
    BY <2>6, TurnReadStatus
  <2>7. ASSUME NEW n \in 1 .. Len(wire), ReadArticle(n) PROVE InTurn'
    <3>1. ReadData(n) /\ requests' = requests /\ orderly' = (orderly /\ CleanBody(n))
      BY <2>7 DEF ReadArticle
    <3> QED BY <3>1, TurnReadData DEF CleanBody, Recognised
  <2>8. ASSUME NEW n \in 1 .. Len(wire), ReadHeader(n) PROVE InTurn'
    BY <2>8, TurnReadHeader
  <2>9. ASSUME NEW n \in 1 .. Len(wire), ReadArticleIds(n) \/ ReadGroups(n) PROVE InTurn'
    <3>1. ReadData(n) /\ requests' = requests /\ orderly' = (orderly /\ CleanList(n))
      BY <2>9 DEF ReadArticleIds, ReadGroups
    <3> QED BY <3>1, TurnReadData DEF CleanList
  <2>10. CASE UNCHANGED vars
    BY <2>10, TurnUnchanged DEF vars, connection, reader, history
  <2> QED BY <2>1, <2>2, <2>3, <2>4, <2>5, <2>6, <2>7, <2>8, <2>9, <2>10
      DEF Next, ReaderNext, ServerNext, Read
<1> QED BY TurnInit, Invariance, <1>1, PTL DEF Spec

(***************************************************************************)
(* As long as every read ends where the reader assumes, at most one request *)
(* is out, and nothing of an earlier reply is left when it is: for every    *)
(* list, header and article, and every choice of refusals.                  *)
(***************************************************************************)
THEOREM RequestAndReply == Spec => []Lockstep
<1>1. InTurn => Lockstep
  BY DEF InTurn, Alternates, Lockstep
<1> QED BY <1>1, TurnInvariance, PTL
-------------------------------------------------------------------------------
(***************************************************************************)
(* Lines and words.                                                         *)
(***************************************************************************)
LineSeq == Seq(Texts)

(* The lines of a text, token by token. *)
Cuts(f, text) ==
    /\ f \in [0 .. Len(text) -> LineSeq] /\ f[0] = << >>
    /\ \A i \in 1 .. Len(text) : f[i] = WithToken(f[i - 1], text, i)

(* A token more makes lines of lines. *)
LEMMA WithTokenType ==
    ASSUME NEW text \in Texts, NEW i \in 1 .. Len(text), NEW lines \in LineSeq
    PROVE  WithToken(lines, text, i) \in LineSeq
<1> DEFINE n == Len(lines)
<1>1. text[i] \in Tokens /\ << text[i] >> \in Texts
  <2>1. text[i] \in Tokens
    BY DEF Texts
  <2> QED BY <2>1 DEF Texts
<1>2. n \in Nat /\ \A j \in 1 .. n : lines[j] \in Texts /\ Append(lines[j], text[i]) \in Texts
  <2>1. \A t \in Texts : Append(t, text[i]) \in Texts
    BY <1>1 DEF Texts
  <2> QED BY <2>1 DEF LineSeq
<1>3. Append(lines, << text[i] >>) \in LineSeq
  BY <1>1 DEF LineSeq
<1>4. [lines EXCEPT ![n] = Append(@, text[i])] \in LineSeq
  <2>1. lines \in [1 .. n -> Texts]
    BY DEF LineSeq
  <2> HIDE DEF n
  <2>2. [lines EXCEPT ![n] = Append(@, text[i])] \in [1 .. n -> Texts]
    BY <1>2, <2>1
  <2> QED BY <1>2, <2>2 DEF LineSeq
<1> QED BY <1>3, <1>4 DEF WithToken

(* Lines is built up in this way. *)
LEMMA LinesDef ==
    ASSUME NEW text \in Texts
    PROVE  \E f : Cuts(f, text) /\ Lines(text) = f[Len(text)]
<1> DEFINE n == Len(text)
           empty == << >>
           step == [i \in Nat |-> [r \in LineSeq |->
                       IF i \in 1 .. n THEN WithToken(r, text, i) ELSE r]]
           Kept(k) == k = [i \in 0 .. n |-> IF i = 0 THEN << >> ELSE WithToken(k[i - 1], text, i)]
           kept == CHOOSE k : Kept(k)
<1>1. n \in Nat /\ empty \in LineSeq
  BY DEF Texts, LineSeq
<1>2. step \in [Nat -> [LineSeq -> LineSeq]]
  <2>1. \A i \in Nat, r \in LineSeq :
           (IF i \in 1 .. n THEN WithToken(r, text, i) ELSE r) \in LineSeq
    BY WithTokenType
  <2> HIDE DEF n
  <2> QED BY <2>1
<1>3. PICK f : Builds(f, LineSeq, empty, step, n)
  <2> HIDE DEF step, empty, n
  <2> QED BY <1>1, <1>2, BuiltUpTo
<1>4. f \in [0 .. n -> LineSeq] /\ f[0] = << >> /\ \A i \in 1 .. n : f[i] = step[i][f[i - 1]]
  BY <1>3 DEF Builds
<1>5. \A i \in 1 .. n : f[i] = WithToken(f[i - 1], text, i)
  <2> SUFFICES ASSUME NEW i \in 1 .. n PROVE f[i] = WithToken(f[i - 1], text, i)
    OBVIOUS
  <2>1. i - 1 \in 0 .. n /\ i \in Nat
    BY <1>1
  <2>2. f[i - 1] \in LineSeq
    BY <1>4, <2>1
  <2>3. step[i][f[i - 1]] = WithToken(f[i - 1], text, i)
    BY <2>1, <2>2
  <2> QED BY <1>4, <2>3
<1>6. Cuts(f, text)
  BY <1>4, <1>5 DEF Cuts
<1> HIDE DEF step
<1>7. Kept([i \in 0 .. n |-> f[i]])
  <2> DEFINE k == [i \in 0 .. n |-> f[i]]
  <2>1. ASSUME NEW i \in 0 .. n
        PROVE  k[i] = IF i = 0 THEN << >> ELSE WithToken(k[i - 1], text, i)
    <3>1. CASE i = 0
      BY <3>1, <1>4
    <3>2. CASE i # 0
      <4>1. i \in 1 .. n /\ i - 1 \in 0 .. n
        BY <1>1, <3>2
      <4>2. k[i] = f[i] /\ k[i - 1] = f[i - 1]
        BY <4>1
      <4> QED BY <1>5, <3>2, <4>1, <4>2
    <3> QED BY <3>1, <3>2
  <2>2. k = [i \in 0 .. n |-> k[i]]
    OBVIOUS
  <2> HIDE DEF k
  <2>3. k = [i \in 0 .. n |-> IF i = 0 THEN << >> ELSE WithToken(k[i - 1], text, i)]
    BY <2>1, <2>2
  <2> USE DEF k
  <2> QED BY <2>3
<1>8. Kept(kept)
  <2> HIDE DEF Kept
  <2> QED BY <1>7
<1> HIDE DEF kept
<1>9. \A i \in 0 .. n : kept[i] = IF i = 0 THEN << >> ELSE WithToken(kept[i - 1], text, i)
  BY <1>8
<1>10. Lines(text) = kept[n]
  BY DEF Lines, kept
<1> HIDE DEF Kept
<1>11. \A i \in 0 .. n : kept[i] = f[i]
  <2> DEFINE T == {i \in Nat : i <= n => kept[i] = f[i]}
  <2>1. 0 \in T
    BY <1>1, <1>4, <1>9
  <2>2. ASSUME NEW i \in Nat, i \in T PROVE i + 1 \in T
    <3> SUFFICES ASSUME i + 1 <= n PROVE kept[i + 1] = f[i + 1]
      OBVIOUS
    <3>1. i + 1 \in 1 .. n /\ i + 1 \in 0 .. n /\ i + 1 # 0 /\ (i + 1) - 1 = i
          /\ kept[i] = f[i]
      BY <1>1, <2>2
    <3>2. \A j \in 0 .. n : j # 0 => kept[j] = WithToken(kept[j - 1], text, j)
      BY <1>9, Zenon
    <3>3. kept[i + 1] = WithToken(kept[(i + 1) - 1], text, i + 1)
          /\ f[i + 1] = WithToken(f[(i + 1) - 1], text, i + 1)
      BY <1>5, <3>1, <3>2, Zenon
    <3> QED BY <3>1, <3>3
  <2>3. Nat \subseteq T
    <3> HIDE DEF T
    <3> QED BY <2>1, <2>2, Induction
  <2> QED BY <2>3
<1>12. n \in 0 .. n
  BY <1>1
<1> QED BY <1>6, <1>10, <1>11, <1>12

(* A token at the end of a text only concerns its last line. *)
LEMMA LinesAppend ==
    ASSUME NEW text \in Texts, NEW e \in Tokens
    PROVE  /\ Lines(<< >>) = << >>
           /\ Lines(text) \in LineSeq
           /\ Lines(Append(text, e)) = WithToken(Lines(text), Append(text, e), Len(text) + 1)
<1> DEFINE u == Append(text, e)
<1>1. /\ u \in Texts /\ Len(text) \in Nat /\ Len(u) = Len(text) + 1
      /\ \A i \in 1 .. Len(text) : u[i] = text[i]
  BY DEF Texts
<1> HIDE DEF u
<1>2. PICK f : Cuts(f, text) /\ Lines(text) = f[Len(text)]
  BY LinesDef
<1>3. PICK g : Cuts(g, u) /\ Lines(u) = g[Len(u)]
  BY <1>1, LinesDef
<1> DEFINE T == {n \in Nat : n <= Len(text) => g[n] = f[n]}
<1>4. 0 \in T
  BY <1>2, <1>3 DEF Cuts
<1>5. ASSUME NEW n \in Nat, n \in T PROVE n + 1 \in T
  <2> SUFFICES ASSUME n + 1 <= Len(text) PROVE g[n + 1] = f[n + 1]
    OBVIOUS
  <2>1. /\ n + 1 \in 1 .. Len(text) /\ n + 1 \in 1 .. Len(u) /\ (n + 1) - 1 = n
        /\ g[n] = f[n] /\ u[n + 1] = text[n + 1]
        /\ n + 1 # 1 => u[n] = text[n]
    BY <1>1, <1>5
  <2>2. f[n + 1] = WithToken(f[(n + 1) - 1], text, n + 1)
        /\ g[n + 1] = WithToken(g[(n + 1) - 1], u, n + 1)
    BY <1>2, <1>3, <2>1, Zenon DEF Cuts
  <2> QED BY <2>1, <2>2, ZenonT(60) DEF WithToken
<1>6. Nat \subseteq T
  <2> HIDE DEF T
  <2> QED BY <1>4, <1>5, Induction
<1>7. g[Len(text)] = f[Len(text)]
  BY <1>1, <1>6
<1>8. Len(text) + 1 \in 1 .. Len(u) /\ (Len(text) + 1) - 1 = Len(text)
  BY <1>1
<1>9. g[Len(text) + 1] = WithToken(g[(Len(text) + 1) - 1], u, Len(text) + 1)
  BY <1>3, <1>8, Zenon DEF Cuts
<1>10. Lines(u) = WithToken(Lines(text), u, Len(text) + 1)
  BY <1>1, <1>2, <1>3, <1>7, <1>8, <1>9
<1>11. Lines(text) \in LineSeq
  BY <1>1, <1>2 DEF Cuts
<1>12. Lines(<< >>) = << >>
  <2>1. << >> \in Texts /\ Len(<< >>) = 0
    BY DEF Texts
  <2> QED BY <2>1, LinesDef DEF Cuts
<1> QED BY <1>10, <1>11, <1>12 DEF u

(* The words of a text are a text. *)
LEMMA WordsType ==
    ASSUME NEW text \in Texts
    PROVE  Words(text) \in Texts
BY WithoutType DEF Words, Texts

(* The words of two texts, one after the other. *)
LEMMA WordsConcat ==
    ASSUME NEW s \in Texts, NEW t \in Texts
    PROVE  Words(s \o t) = Words(s) \o Words(t)
BY WithoutConcat DEF Words, Texts

(* Line breaks and terminators are no words. *)
LEMMA NoWords ==
    /\ Words(<< >>) = << >>
    /\ Words(<< CRLF >>) = << >> /\ Words(<< Dot >>) = << >>
<1> DEFINE B == {CRLF, Dot}
<1>1. CRLF \in Tokens /\ Dot \in Tokens /\ CRLF \in B /\ Dot \in B
  BY TokensTyped
<1> HIDE DEF B
<1>2. \A s \in Seq(Tokens), e \in Tokens :
        /\ Without(<< >>, B) = << >>
        /\ e \in B => Without(Append(s, e), B) = Without(s, B)
  BY WithoutAppend
<1>3. << >> \in Seq(Tokens)
  OBVIOUS
<1>4. /\ Without(<< >>, B) = << >>
      /\ Without(Append(<< >>, CRLF), B) = Without(<< >>, B)
      /\ Without(Append(<< >>, Dot), B) = Without(<< >>, B)
  BY <1>1, <1>2, <1>3, Zenon
<1>5. << CRLF >> = Append(<< >>, CRLF) /\ << Dot >> = Append(<< >>, Dot)
  OBVIOUS
<1> QED BY <1>4, <1>5 DEF Words, B

(* A line that is added comes at the end, with its line break. *)
LEMMA UnlinesAppend ==
    ASSUME NEW lines \in LineSeq, NEW line \in Texts
    PROVE  /\ Unlines(<< >>) = << >>
           /\ Unlines(lines) \in Texts
           /\ Unlines(Append(lines, line)) = Unlines(lines) \o Append(line, CRLF)
<1> DEFINE F == [l \in Texts |-> Append(l, CRLF)]
           Q == Seq(Tokens)
<1>1. \A l \in Texts : Append(l, CRLF) \in Q
  BY TokensTyped DEF Texts
<1>2. F \in [Texts -> Q] /\ F[line] = Append(line, CRLF) /\ F[line] \in Q
  BY <1>1
<1>3. \A ls \in LineSeq : [i \in DOMAIN ls |-> Append(ls[i], CRLF)] = Each(F, ls)
  <2>1. \A ls \in LineSeq : \A i \in DOMAIN ls : ls[i] \in Texts
    BY DEF LineSeq
  <2> QED BY <2>1 DEF Each
<1> HIDE DEF F, Q
<1>4. \A ls \in LineSeq : Unlines(ls) = FlattenSeq(Each(F, ls))
  BY <1>3 DEF Unlines
<1>5. << >> \in LineSeq /\ Append(lines, line) \in LineSeq
  BY DEF LineSeq
<1>6. /\ Each(F, << >>) = << >>
      /\ Each(F, lines) \in Seq(Q)
      /\ Each(F, Append(lines, line)) = Append(Each(F, lines), F[line])
  <2>1. lines \in Seq(Texts) /\ line \in Texts
    BY DEF LineSeq
  <2>2. /\ Each(F, << >>) = << >>
        /\ Each(F, lines) \in Seq(Q)
    BY <1>2, <2>1, EachType
  <2>3. Each(F, Append(lines, line)) = Append(Each(F, lines), F[line])
    BY <1>2, <2>1, EachAppend, ZenonT(60)
  <2> QED BY <2>2, <2>3
<1>7. /\ FlattenSeq(<< >>) = << >>
      /\ FlattenSeq(Append(Each(F, lines), F[line])) = FlattenSeq(Each(F, lines)) \o F[line]
      /\ FlattenSeq(Each(F, lines)) \in Q
  BY <1>2, <1>6, FlattenAppend, FlattenType DEF Q
<1> QED BY <1>2, <1>4, <1>5, <1>6, <1>7 DEF Texts, Q

(* The words of a sequence of lines. *)
Spoken(lines) == Words(Unlines(lines))

(* They are a text. *)
LEMMA SpokenType ==
    ASSUME NEW lines \in LineSeq
    PROVE  Spoken(lines) \in Texts
<1>1. Unlines(lines) \in Texts
  <2>1. << >> \in Texts
    BY DEF Texts
  <2> QED BY <2>1, UnlinesAppend
<1> QED BY <1>1, WordsType DEF Spoken

(* The words of a line that is added come at the end. *)
LEMMA SpokenAppend ==
    ASSUME NEW lines \in LineSeq, NEW line \in Texts
    PROVE  /\ Spoken(<< >>) = << >>
           /\ Spoken(Append(lines, line)) = Spoken(lines) \o Words(line)
<1>1. << CRLF >> \in Texts /\ line \o << CRLF >> \in Texts /\ Append(line, CRLF) = line \o << CRLF >>
  BY TokensTyped DEF Texts
<1>2. Words(line \o << CRLF >>) = Words(line) \o << >>
  BY <1>1, WordsConcat, NoWords
<1>3. Words(line) \o << >> = Words(line)
  BY WordsType DEF Texts
<1>4. Words(Unlines(lines) \o Append(line, CRLF)) = Words(Unlines(lines)) \o Words(Append(line, CRLF))
  BY <1>1, UnlinesAppend, WordsConcat
<1> QED BY <1>1, <1>2, <1>3, <1>4, UnlinesAppend, NoWords DEF Spoken

(* Texts may be put together in any grouping. *)
LEMMA Associative ==
    ASSUME NEW a \in Texts, NEW b \in Texts, NEW c \in Texts
    PROVE  Joined(Joined(a, b), c) = Joined(a, Joined(b, c))
BY Regrouped DEF Texts

(* The words of two sequences of lines, one after the other. *)
LEMMA SpokenConcat ==
    ASSUME NEW ls \in LineSeq, NEW ms \in LineSeq
    PROVE  Spoken(ls \o ms) = Spoken(ls) \o Spoken(ms)
<1> DEFINE T == {u \in LineSeq : Spoken(ls \o u) = Spoken(ls) \o Spoken(u)}
<1>1. << >> \in T
  <2>1. ls \o << >> = ls /\ << >> \in LineSeq
    BY DEF LineSeq
  <2>2. Spoken(<< >>) = << >>
    <3>1. << >> \in Texts
      BY DEF Texts
    <3> QED BY <3>1, SpokenAppend
  <2>3. Spoken(ls) \o << >> = Spoken(ls)
    BY SpokenType DEF Texts
  <2> QED BY <2>1, <2>2, <2>3
<1>2. ASSUME NEW u \in LineSeq, NEW l \in Texts, u \in T PROVE Append(u, l) \in T
  <2>1. ls \o u \in LineSeq /\ ls \o Append(u, l) = Append(ls \o u, l) /\ Append(u, l) \in LineSeq
    BY DEF LineSeq
  <2>2. /\ Spoken(Append(ls \o u, l)) = Spoken(ls \o u) \o Words(l)
        /\ Spoken(Append(u, l)) = Spoken(u) \o Words(l)
    BY <2>1, SpokenAppend
  <2>3. Spoken(ls \o u) = Spoken(ls) \o Spoken(u)
    BY <1>2
  <2>4. (Spoken(ls) \o Spoken(u)) \o Words(l) = Spoken(ls) \o (Spoken(u) \o Words(l))
    <3>1. Spoken(ls) \in Texts /\ Spoken(u) \in Texts /\ Words(l) \in Texts
      BY SpokenType, WordsType
    <3>2. Joined(Joined(Spoken(ls), Spoken(u)), Words(l)) = Joined(Spoken(ls), Joined(Spoken(u), Words(l)))
      BY <3>1, Associative
    <3> QED BY <3>2 DEF Joined
  <2>5. Spoken(ls \o Append(u, l)) = Spoken(ls) \o Spoken(Append(u, l))
    BY <2>1, <2>2, <2>3, <2>4, Zenon
  <2> QED BY <2>1, <2>5
<1>3. LineSeq \subseteq T
  <2>1. \A u \in LineSeq, l \in Texts : u \in T => Append(u, l) \in T
    BY <1>2
  <2> HIDE DEF T
  <2> QED BY <1>1, <2>1, SequenceInduction DEF LineSeq
<1> QED BY <1>3

(* A token more at the end of the last line. *)
LEMMA SpokenLonger ==
    ASSUME NEW lines \in LineSeq, lines # << >>, NEW e \in Tokens
    PROVE  Spoken([lines EXCEPT ![Len(lines)] = Append(@, e)]) = Spoken(lines) \o Words(<< e >>)
<1> DEFINE last == lines[Len(lines)]
<1>1. last \in Texts
  BY DEF LineSeq
<1> HIDE DEF last
<1>2. << e >> \in Texts /\ Append(last, e) = last \o << e >> /\ Append(last, e) \in Texts
  BY <1>1 DEF Texts
<1>3. PICK front \in LineSeq : lines = Append(front, last)
  <2>1. PICK front \in Seq(Texts), line \in Texts : lines = Append(front, line)
    BY SequenceEmptyOrAppend DEF LineSeq
  <2>2. Append(front, line)[Len(front) + 1] = line /\ Len(Append(front, line)) = Len(front) + 1
    BY AppendProperties
  <2>3. line = last
    BY <2>1, <2>2 DEF last
  <2> QED BY <2>1, <2>3 DEF LineSeq
<1>7. WithLast(Append(front, last), Append(last, e)) = Append(front, Append(last, e))
  BY <1>1, <1>2, LastReplaced, Zenon DEF LineSeq
<1>4. /\ Spoken(Append(front, Append(last, e))) = Spoken(front) \o Words(Append(last, e))
      /\ Spoken(lines) = Spoken(front) \o Words(last)
  BY <1>1, <1>2, <1>3, SpokenAppend
<1>5. Words(Append(last, e)) = Words(last) \o Words(<< e >>)
  BY <1>1, <1>2, WordsConcat
<1>6. Spoken(front) \o (Words(last) \o Words(<< e >>)) = (Spoken(front) \o Words(last)) \o Words(<< e >>)
  <2>1. Spoken(front) \in Texts /\ Words(last) \in Texts /\ Words(<< e >>) \in Texts
    BY <1>1, <1>2, SpokenType, WordsType
  <2>2. Joined(Joined(Spoken(front), Words(last)), Words(<< e >>))
          = Joined(Spoken(front), Joined(Words(last), Words(<< e >>)))
    BY <2>1, Associative
  <2> QED BY <2>2 DEF Joined
<1>8. [lines EXCEPT ![Len(lines)] = Append(@, e)] = WithLast(lines, Append(last, e))
  BY DEF WithLast, last
<1> QED BY <1>3, <1>4, <1>5, <1>6, <1>7, <1>8

(* Cutting a text into lines keeps its words. *)
LEMMA LinesKeepWords ==
    ASSUME NEW text \in Texts
    PROVE  Lines(text) \in LineSeq /\ Spoken(Lines(text)) = Words(text)
<1> DEFINE Good(t) == /\ Lines(t) \in LineSeq /\ Spoken(Lines(t)) = Words(t)
                      /\ t # << >> /\ t[Len(t)] # CRLF => Lines(t) # << >>
           T == {t \in Texts : Good(t)}
<1>1. << >> \in T
  <2>1. << >> \in Texts /\ CRLF \in Tokens
    BY TokensTyped DEF Texts
  <2>2. << >> \in LineSeq
    BY DEF LineSeq
  <2>3. Lines(<< >>) = << >>
    BY <2>1, LinesAppend
  <2>4. Spoken(<< >>) = << >> /\ Words(<< >>) = << >>
    BY <2>1, <2>2, SpokenAppend, NoWords
  <2> QED BY <2>1, <2>2, <2>3, <2>4
<1>2. ASSUME NEW t \in Texts, NEW e \in Tokens, t \in T PROVE Append(t, e) \in T
  <2> DEFINE u == Append(t, e)
  <2>1. Good(t)
    BY <1>2
  <2>2. /\ u \in Texts /\ Len(t) \in Nat /\ Len(u) = Len(t) + 1 /\ u[Len(t) + 1] = e
        /\ u = t \o << e >> /\ << e >> \in Texts
        /\ \A i \in 1 .. Len(t) : u[i] = t[i]
    <3>1. << e >> \in Seq(Tokens) /\ t \in Seq(Tokens)
      BY DEF Texts
    <3> QED BY <3>1 DEF Texts
  <2>3. Lines(u) = WithToken(Lines(t), u, Len(t) + 1)
    BY LinesAppend
  <2> HIDE DEF u
  <2>4. Words(u) = Words(t) \o Words(<< e >>)
    BY <2>2, WordsConcat
  <2>5. Lines(u) \in LineSeq
    <3>1. CRLF \in Tokens
      BY TokensTyped
    <3> QED BY <2>2, <3>1, LinesAppend
  <2>6. CASE e = CRLF
    <3>1. Lines(u) = Lines(t)
      BY <2>2, <2>3, <2>6 DEF WithToken
    <3>2. Words(u) = Words(t)
      BY <2>4, <2>6, NoWords, WordsType, SMTT(60) DEF Texts
    <3>3. u[Len(u)] = CRLF
      BY <2>2, <2>6
    <3> QED BY <2>1, <2>2, <3>1, <3>2, <3>3 DEF u
  <2>7. CASE e # CRLF /\ (t = << >> \/ t[Len(t)] = CRLF)
    <3>1. Len(t) + 1 = 1 \/ u[Len(t) + 1 - 1] = CRLF
      <4>1. CASE t = << >>
        BY <2>2, <4>1
      <4>2. CASE t # << >> /\ t[Len(t)] = CRLF
        <5>1. Len(t) \in 1 .. Len(t) /\ Len(t) + 1 - 1 = Len(t)
          BY <2>2, <4>2 DEF Texts
        <5> QED BY <2>2, <4>2, <5>1
      <4> QED BY <2>7, <4>1, <4>2
    <3>2. Lines(u) = Append(Lines(t), << e >>)
      BY <2>2, <2>3, <2>7, <3>1, SMTT(60) DEF WithToken
    <3>3. Lines(u) # << >>
      BY <2>1, <3>2 DEF LineSeq
    <3>4. Spoken(Lines(u)) = Spoken(Lines(t)) \o Words(<< e >>)
      BY <2>1, <2>2, <3>2, SpokenAppend
    <3> QED BY <2>1, <2>2, <2>4, <2>5, <3>3, <3>4 DEF u
  <2>8. CASE e # CRLF /\ t # << >> /\ t[Len(t)] # CRLF
    <3>1. Len(t) \in 1 .. Len(t) /\ Len(t) + 1 - 1 = Len(t) /\ Len(t) + 1 # 1
      BY <2>2, <2>8 DEF Texts
    <3>2. Lines(t) # << >>
      BY <2>1, <2>8
    <3>3. Lines(u) = [Lines(t) EXCEPT ![Len(Lines(t))] = Append(@, e)]
      BY <2>2, <2>3, <2>8, <3>1 DEF WithToken
    <3>4. Spoken(Lines(u)) = Spoken(Lines(t)) \o Words(<< e >>)
      BY <2>1, <3>2, <3>3, SpokenLonger
    <3>5. Lines(u) # << >>
      <4>1. DOMAIN Lines(u) = DOMAIN Lines(t)
        BY <3>3
      <4>2. Lines(t) \in LineSeq
        BY <2>1
      <4> QED BY <2>5, <3>2, <4>1, <4>2 DEF LineSeq
    <3> QED BY <2>1, <2>2, <2>4, <2>5, <3>4, <3>5 DEF u
  <2> QED BY <2>6, <2>7, <2>8
<1>3. Texts \subseteq T
  <2>1. \A t \in Texts, e \in Tokens : t \in T => Append(t, e) \in T
    BY <1>2
  <2> HIDE DEF T
  <2> QED BY <1>1, <2>1, SequenceInduction DEF Texts
<1> QED BY <1>3

(* Leaving out the terminators keeps the words. *)
LEMMA EntriesKeepWords ==
    ASSUME NEW text \in Texts
    PROVE  Entries(text) \in LineSeq /\ Spoken(Entries(text)) = Words(text)
<1> DEFINE D == {<< Dot >>}
           T == {ls \in LineSeq : Spoken(Without(ls, D)) = Spoken(ls)}
<1>0. << Dot >> \in Texts /\ << >> \in LineSeq
  BY TokensTyped DEF LineSeq
<1>1. << >> \in T
  <2>1. Without(<< >>, D) = << >>
    BY <1>0, WithoutAppend DEF LineSeq
  <2> QED BY <1>0, <2>1
<1>2. ASSUME NEW ls \in LineSeq, NEW l \in Texts, ls \in T PROVE Append(ls, l) \in T
  <2> HIDE DEF D
  <2>1. /\ l \notin D => Without(Append(ls, l), D) = Append(Without(ls, D), l)
        /\ l \in D => Without(Append(ls, l), D) = Without(ls, D)
        /\ Without(ls, D) \in LineSeq
    <3>1. \A s \in Seq(Texts), e \in Texts :
            /\ e \notin D => Without(Append(s, e), D) = Append(Without(s, D), e)
            /\ e \in D => Without(Append(s, e), D) = Without(s, D)
      BY WithoutAppend
    <3> QED BY <3>1, WithoutType DEF LineSeq
  <2>2. Append(ls, l) \in LineSeq
    BY DEF LineSeq
  <2>3. Spoken(Without(ls, D)) = Spoken(ls)
    BY <1>2
  <2>4. Spoken(Append(ls, l)) = Spoken(ls) \o Words(l)
    BY SpokenAppend
  <2>5. CASE l \notin D
    BY <2>1, <2>2, <2>3, <2>4, <2>5, SpokenAppend
  <2>6. CASE l \in D
    <3>1. Words(l) = << >>
      BY <2>6, NoWords DEF D
    <3>2. Spoken(ls) \o << >> = Spoken(ls)
      BY SpokenType DEF Texts
    <3> QED BY <2>1, <2>2, <2>3, <2>4, <2>6, <3>1, <3>2
  <2> QED BY <2>5, <2>6
<1>3. LineSeq \subseteq T
  <2>1. \A ls \in LineSeq, l \in Texts : ls \in T => Append(ls, l) \in T
    BY <1>2
  <2> HIDE DEF T
  <2> QED BY <1>1, <2>1, SequenceInduction DEF LineSeq
<1>4. Lines(text) \in LineSeq /\ Spoken(Lines(text)) = Words(text)
  BY LinesKeepWords
<1>5. Entries(text) \in LineSeq
  BY <1>4, WithoutType DEF Entries, LineSeq
<1> QED BY <1>3, <1>4, <1>5 DEF Entries

(* The entries of the calls, and the words of all entries. *)
EntriesOf == [call \in Call |-> Entries(call.text)]

(* The words of all entries that some calls carry. *)
Heard(cs) == Spoken(FlattenSeq(Each(EntriesOf, cs)))

(* A call more adds the words of its text. *)
LEMMA HeardAppend ==
    ASSUME NEW cs \in Seq(Call), NEW call \in Call
    PROVE  /\ Heard(<< >>) = << >>
           /\ Heard(cs) \in Texts
           /\ Heard(Append(cs, call)) = Heard(cs) \o Words(call.text)
<1> DEFINE Q == Seq(Texts)
<1>1. call.text \in Texts /\ \A c \in Call : c.text \in Texts
  BY DEF Call
<1>2. EntriesOf \in [Call -> Q] /\ EntriesOf[call] = Entries(call.text)
  BY <1>1, EntriesKeepWords DEF EntriesOf, LineSeq
<1>3. EntriesOf[call] \in Q
  BY <1>2
<1>4. Each(EntriesOf, cs) \in Seq(Q) /\ Each(EntriesOf, << >>) = << >>
  BY <1>2, EachType
<1>5. Each(EntriesOf, Append(cs, call)) = Append(Each(EntriesOf, cs), EntriesOf[call])
  BY <1>2, EachAppend, ZenonT(60)
<1>6. /\ FlattenSeq(<< >>) = << >>
      /\ FlattenSeq(Append(Each(EntriesOf, cs), EntriesOf[call]))
           = FlattenSeq(Each(EntriesOf, cs)) \o EntriesOf[call]
      /\ FlattenSeq(Each(EntriesOf, cs)) \in LineSeq /\ EntriesOf[call] \in LineSeq
  BY <1>3, <1>4, FlattenAppend, FlattenType DEF LineSeq
<1>7. Heard(<< >>) = << >>
  <2>1. << >> \in LineSeq /\ << >> \in Texts
    BY DEF LineSeq, Texts
  <2> QED BY <1>4, <1>6, <2>1, SpokenAppend DEF Heard
<1>8. Heard(Append(cs, call)) = Heard(cs) \o Spoken(EntriesOf[call])
  BY <1>5, <1>6, SpokenConcat DEF Heard
<1>9. Spoken(EntriesOf[call]) = Words(call.text)
  BY <1>1, <1>2, EntriesKeepWords
<1> QED BY <1>6, <1>7, <1>8, <1>9, SpokenType DEF Heard

(* The splitter loses no word. *)
LEMMA SplitterKeepsWords ==
    ASSUME NEW text \in Texts
    PROVE  Words(text) = Words(SplitPrefix(text)) \o Words(SplitRest(text))
<1>1. SplitPrefix(text) \in Texts /\ SplitRest(text) \in Texts /\ << CRLF >> \in Texts
  BY SplitterTyped, TokensTyped DEF Texts
<1>2. CASE Breaks(text) = {}
  <2>1. SplitPrefix(text) = text /\ SplitRest(text) = << >>
    BY <1>2 DEF SplitPrefix, SplitRest
  <2>2. Words(text) \o << >> = Words(text)
    BY WordsType DEF Texts
  <2> QED BY <2>1, <2>2, NoWords
<1>3. CASE Breaks(text) # {}
  <2>1. text = SplitPrefix(text) \o << CRLF >> \o SplitRest(text)
    BY <1>3, SplitterKeepsText DEF Texts
  <2>2. SplitPrefix(text) \o << CRLF >> \in Texts
    BY <1>1, TokensTyped
  <2>3. Words(text) = Words(SplitPrefix(text) \o << CRLF >>) \o Words(SplitRest(text))
    BY <1>1, <2>1, <2>2, WordsConcat
  <2>4. Words(SplitPrefix(text) \o << CRLF >>) = Words(SplitPrefix(text)) \o << >>
    BY <1>1, WordsConcat, NoWords, ZenonT(60)
  <2>5. Words(SplitPrefix(text)) \o << >> = Words(SplitPrefix(text))
    BY <1>1, WordsType DEF Texts
  <2> QED BY <2>3, <2>4, <2>5
<1> QED BY <1>2, <1>3

(* The words of the end of a text are the end of its words. *)
LEMMA EndOfWords ==
    ASSUME NEW s \in Texts, NEW t \in Texts, EndOf(s, t)
    PROVE  EndOf(Words(s), Words(t))
<1>1. PICK k \in Nat : EndAfter(s, t, k)
  BY DEF EndOf
<1> DEFINE front == SubSeq(t, 1, k)
<1>2. /\ s \in Seq(Tokens) /\ t \in Seq(Tokens) /\ Len(s) \in Nat
      /\ Len(t) = Len(s) + k /\ \A i \in 1 .. Len(s) : s[i] = t[i + k]
  BY <1>1 DEF EndAfter, Texts
<1>3. front \in Seq(Tokens) /\ t = front \o s
  <2>1. front \in Seq(Tokens) /\ Len(front) = k /\ \A i \in 1 .. k : front[i] = t[i]
    BY <1>2
  <2> HIDE DEF front
  <2> DEFINE u == front \o s
  <2>2. /\ u \in Seq(Tokens) /\ Len(u) = Len(front) + Len(s)
        /\ \A i \in 1 .. Len(front) + Len(s) :
             /\ i <= Len(front) => u[i] = front[i]
             /\ ~ (i <= Len(front)) => u[i] = s[i - Len(front)]
    <3>1. front \in Seq(Tokens) /\ s \in Seq(Tokens)
      BY <1>2, <2>1
    <3> QED BY <3>1
  <2> HIDE DEF u
  <2>3. ASSUME NEW i \in 1 .. Len(t) PROVE t[i] = u[i]
    <3>1. CASE i <= k
      <4>1. i \in 1 .. k /\ i \in 1 .. Len(front) + Len(s) /\ i <= Len(front)
        BY <1>2, <2>1, <3>1
      <4> QED BY <2>1, <2>2, <4>1
    <3>2. CASE ~ (i <= k)
      <4>1. /\ i - k \in 1 .. Len(s) /\ (i - k) + k = i /\ i - Len(front) = i - k
            /\ i \in 1 .. Len(front) + Len(s) /\ ~ (i <= Len(front))
        BY <1>2, <2>1, <3>2
      <4> QED BY <1>2, <2>2, <4>1
    <3> QED BY <3>1, <3>2
  <2>4. Len(t) = Len(u)
    BY <1>2, <2>1, <2>2
  <2>5. t = u
    BY <1>2, <2>2, <2>3, <2>4, SeqEqual
  <2> QED BY <2>1, <2>5 DEF u
<1> HIDE DEF front
<1>4. /\ Words(t) = Words(front) \o Words(s)
      /\ Words(front) \in Seq(Tokens) /\ Words(s) \in Seq(Tokens)
  BY <1>3, WordsConcat, WordsType DEF Texts
<1>5. EndAfter(Words(s), Words(t), Len(Words(front)))
  BY <1>4 DEF EndAfter
<1>6. Len(Words(front)) \in Nat
  BY <1>4
<1> QED BY <1>5, <1>6 DEF EndOf

(***************************************************************************)
(* A status line is announced by its first word.                            *)
(***************************************************************************)
StatusFree(text) == \A i \in DOMAIN text : text[i] \notin StatusWords

(* One status word at most. *)
OneStatus(text) ==
    \A i, j \in DOMAIN text : text[i] \in StatusWords /\ text[j] \in StatusWords => i = j

(* Status words at the beginning only. *)
StatusFirst(text) == \A i \in DOMAIN text : text[i] \in StatusWords => i = 1

(* Where a position of two texts put together comes from. *)
LEMMA ConcatPositions ==
    ASSUME NEW s \in Texts, NEW t \in Texts, NEW i \in DOMAIN (s \o t)
    PROVE  /\ Len(s) \in Nat /\ i \in Nat
           /\ \/ i \in DOMAIN s /\ (s \o t)[i] = s[i]
              \/ i - Len(s) \in DOMAIN t /\ (s \o t)[i] = t[i - Len(s)]
BY DEF Texts

(* The status words of two texts put together. *)
LEMMA StatusConcat ==
    ASSUME NEW s \in Texts, NEW t \in Texts
    PROVE  /\ StatusFree(s) /\ StatusFree(t) => StatusFree(s \o t)
           /\ StatusFirst(s) /\ s # << >> /\ StatusFree(t) => StatusFirst(s \o t)
           /\ OneStatus(s) /\ StatusFree(t) => OneStatus(s \o t)
           /\ StatusFree(s) /\ OneStatus(t) => OneStatus(s \o t)
<1>1. /\ \A i \in DOMAIN (s \o t) : /\ Len(s) \in Nat /\ i \in Nat
           /\ \/ i \in DOMAIN s /\ (s \o t)[i] = s[i]
              \/ i - Len(s) \in DOMAIN t /\ (s \o t)[i] = t[i - Len(s)]
  BY ConcatPositions
<1> DEFINE u == s \o t
<1> HIDE DEF u
<1>2. \A i \in DOMAIN u : /\ Len(s) \in Nat /\ i \in Nat
           /\ \/ i \in DOMAIN s /\ u[i] = s[i]
              \/ i - Len(s) \in DOMAIN t /\ u[i] = t[i - Len(s)]
  BY <1>1 DEF u
<1>3. StatusFree(s) /\ StatusFree(t) => StatusFree(u)
  BY <1>2 DEF StatusFree
<1>4. StatusFirst(s) /\ StatusFree(t) => StatusFirst(u)
  BY <1>2 DEF StatusFree, StatusFirst
<1>5. OneStatus(s) /\ StatusFree(t) => OneStatus(u)
  BY <1>2 DEF StatusFree, OneStatus
<1>6. ASSUME StatusFree(s), OneStatus(t) PROVE OneStatus(u)
  <2>1. \A i \in DOMAIN u : u[i] \in StatusWords =>
           i - Len(s) \in DOMAIN t /\ t[i - Len(s)] \in StatusWords
    BY <1>2, <1>6 DEF StatusFree
  <2>2. \A i, j \in DOMAIN u : i - Len(s) = j - Len(s) => i = j
    BY <1>2
  <2> QED BY <1>6, <2>1, <2>2 DEF OneStatus
<1> QED BY <1>3, <1>4, <1>5, <1>6 DEF u

(* Once the one status word is past, none is left. *)
LEMMA StatusParts ==
    ASSUME NEW s \in Texts, NEW t \in Texts
    PROVE  /\ StatusFree(s) => OneStatus(s)
           /\ StatusFirst(s) => OneStatus(s)
           /\ StatusFree(s \o t) => StatusFree(s) /\ StatusFree(t)
           /\ OneStatus(s \o t) /\ 1 \in DOMAIN s /\ s[1] \in StatusWords => StatusFree(t)
<1>1. /\ \A i \in DOMAIN s : i \in DOMAIN (s \o t) /\ (s \o t)[i] = s[i] /\ i <= Len(s) /\ i \in Nat
      /\ \A i \in DOMAIN t : /\ i + Len(s) \in DOMAIN (s \o t) /\ (s \o t)[i + Len(s)] = t[i]
                             /\ i >= 1 /\ i \in Nat
      /\ Len(s) \in Nat
  <2>1. s \in Seq(Tokens) /\ t \in Seq(Tokens)
    BY DEF Texts
  <2> QED BY <2>1
<1> DEFINE u == s \o t
<1>2. /\ \A i \in DOMAIN s : i \in DOMAIN u /\ u[i] = s[i] /\ i <= Len(s) /\ i \in Nat
      /\ \A i \in DOMAIN t : /\ i + Len(s) \in DOMAIN u /\ u[i + Len(s)] = t[i]
                             /\ i >= 1 /\ i \in Nat
      /\ Len(s) \in Nat
  BY <1>1
<1> HIDE DEF u
<1>3. StatusFree(u) => StatusFree(s) /\ StatusFree(t)
  BY <1>2 DEF StatusFree
<1>4. ASSUME OneStatus(u), 1 \in DOMAIN s, s[1] \in StatusWords,
             NEW i \in DOMAIN t, t[i] \in StatusWords
      PROVE  FALSE
  <2>1. 1 \in DOMAIN u /\ u[1] \in StatusWords /\ Len(s) >= 1
    BY <1>2, <1>4
  <2>2. i + Len(s) \in DOMAIN u /\ u[i + Len(s)] \in StatusWords
    BY <1>2, <1>4
  <2>3. i + Len(s) = 1
    BY <1>4, <2>1, <2>2 DEF OneStatus
  <2> QED BY <1>2, <2>1, <2>3
<1>5. (StatusFree(s) => OneStatus(s)) /\ (StatusFirst(s) => OneStatus(s))
  BY DEF StatusFree, StatusFirst, OneStatus
<1> QED BY <1>3, <1>4, <1>5 DEF u, StatusFree

(* The end of a text without status words has none. *)
LEMMA EndStatusFree ==
    ASSUME NEW s \in Texts, NEW t \in Texts, EndOf(s, t), StatusFree(t)
    PROVE  StatusFree(s)
<1>1. PICK k \in Nat : EndAfter(s, t, k)
  BY DEF EndOf
<1>2. ASSUME NEW i \in DOMAIN s PROVE s[i] \notin StatusWords
  <2>1. DOMAIN s = 1 .. Len(s) /\ DOMAIN t = 1 .. Len(t) /\ Len(s) \in Nat
    BY DEF Texts
  <2>2. k \in Nat /\ Len(t) = Len(s) + k /\ \A j \in 1 .. Len(s) : s[j] = t[j + k]
    BY <1>1 DEF EndAfter
  <2>3. i + k \in DOMAIN t /\ t[i + k] = s[i]
    BY <2>1, <2>2
  <2> QED BY <2>3 DEF StatusFree
<1> QED BY <1>2 DEF StatusFree

(* The words that announce a status line, and some that do not. *)
LEMMA StatusWordsAre ==
    ASSUME NEW word \in StatusWords
    PROVE  word \in {"200 Welcome", "381 PASS required", "281 Welcome",
                     "502 Authentication Failed", "205 Goodbye", "215 NewsGroups Follow", "211 "}
<1>1. /\ Welcome[1] = "200 Welcome" /\ PassRequired[1] = "381 PASS required"
      /\ Granted[1] = "281 Welcome" /\ Failed[1] = "502 Authentication Failed"
      /\ Goodbye[1] = "205 Goodbye" /\ GroupsFollow[1] = "215 NewsGroups Follow"
      /\ GroupSelected[1] = "211 "
  BY DEF Welcome, PassRequired, Granted, Failed, Goodbye, GroupsFollow, GroupSelected
<1>2. \/ word = Welcome[1] \/ word = PassRequired[1] \/ word = Granted[1] \/ word = Failed[1]
      \/ word = Goodbye[1] \/ word = GroupsFollow[1] \/ word = GroupSelected[1]
  BY DEF StatusWords
<1> QED BY <1>1, <1>2

(* Words that announce nothing. *)
LEMMA OtherWords ==
    /\ CRLF \notin StatusWords /\ Dot \notin StatusWords
    /\ "range" \notin StatusWords /\ "Article Numbers Follow" \notin StatusWords
    /\ "article" \notin StatusWords /\ "220 " \notin StatusWords
    /\ "430 No such article" \notin StatusWords
BY StatusWordsAre DEF CRLF, Dot

(* A status line has one status word at most, and so has a reply, if there is *)
(* none in its text.                                                         *)
LEMMA StatusLineFirst ==
    ASSUME NEW status \in {Welcome, PassRequired, Granted, Failed, NoSuchGroup, NoSuchArticle,
                           GroupRange, NumbersFollow, ArticleFollows}
    PROVE  /\ StatusLine(status) \in Texts /\ StatusLine(status) # << >>
           /\ StatusFirst(StatusLine(status))
           /\ status \in {NoSuchArticle, ArticleFollows} => StatusFree(StatusLine(status))
<1>1. status \in Texts
  BY StatusTexts
<1>2. /\ status # << >> /\ StatusFirst(status)
      /\ status \in {NoSuchArticle, ArticleFollows} => StatusFree(status)
  <2>1. \A a : << a >> # << >> /\ StatusFirst(<< a >>) /\ (a \notin StatusWords => StatusFree(<< a >>))
    BY DEF StatusFirst, StatusFree
  <2>2. \A a, b : b \notin StatusWords =>
           /\ << a, b >> # << >> /\ StatusFirst(<< a, b >>)
           /\ a \notin StatusWords => StatusFree(<< a, b >>)
    BY DEF StatusFirst, StatusFree
  <2>3. /\ "range" \notin StatusWords /\ "Article Numbers Follow" \notin StatusWords
        /\ "article" \notin StatusWords /\ "220 " \notin StatusWords
        /\ "430 No such article" \notin StatusWords
    BY OtherWords
  <2>4. CASE status \in {Welcome, PassRequired, Granted, Failed, NoSuchGroup}
    <3>1. /\ Welcome # NoSuchArticle /\ PassRequired # NoSuchArticle /\ Granted # NoSuchArticle
          /\ Failed # NoSuchArticle /\ NoSuchGroup # NoSuchArticle
          /\ Welcome # ArticleFollows /\ PassRequired # ArticleFollows /\ Granted # ArticleFollows
          /\ Failed # ArticleFollows /\ NoSuchGroup # ArticleFollows
      <4>1. /\ Welcome[1] = "200 Welcome" /\ PassRequired[1] = "381 PASS required"
            /\ Granted[1] = "281 Welcome" /\ Failed[1] = "502 Authentication Failed"
            /\ NoSuchGroup[1] = "411 No such group" /\ NoSuchArticle[1] = "430 No such article"
            /\ ArticleFollows[1] = "220 "
        BY DEF Welcome, PassRequired, Granted, Failed, NoSuchGroup, NoSuchArticle, ArticleFollows
      <4> QED BY <4>1
    <3> QED BY <2>1, <2>4, <3>1 DEF Welcome, PassRequired, Granted, Failed, NoSuchGroup
  <2>5. CASE status = NoSuchArticle
    BY <2>1, <2>3, <2>5 DEF NoSuchArticle
  <2>6. CASE status = ArticleFollows
    BY <2>2, <2>3, <2>6 DEF ArticleFollows
  <2>7. CASE status \in {GroupRange, NumbersFollow}
    <3>1. GroupRange # NoSuchArticle /\ GroupRange # ArticleFollows
          /\ NumbersFollow # NoSuchArticle /\ NumbersFollow # ArticleFollows
      <4>1. GroupRange[1] = "211 " /\ NumbersFollow[1] = "211 "
            /\ NoSuchArticle[1] = "430 No such article" /\ ArticleFollows[1] = "220 "
        BY DEF GroupRange, NumbersFollow, NoSuchArticle, ArticleFollows
      <4> QED BY <4>1
    <3> QED BY <2>2, <2>3, <2>7, <3>1 DEF GroupRange, NumbersFollow
  <2> QED BY <2>4, <2>5, <2>6, <2>7
<1>3. << CRLF >> \in Texts /\ StatusFree(<< CRLF >>)
  <2>1. \A a : a \notin StatusWords => StatusFree(<< a >>)
    BY DEF StatusFree
  <2> QED BY <2>1, TokensTyped, OtherWords
<1>4. StatusLine(status) = status \o << CRLF >>
  BY <1>1 DEF StatusLine, Texts
<1>5. StatusLine(status) # << >>
  <2>1. status \in Seq(Tokens) /\ CRLF \in Tokens
    BY <1>1, TokensTyped DEF Texts
  <2> QED BY <2>1, AppendProperties DEF StatusLine
<1>6. StatusFirst(status \o << CRLF >>)
  BY <1>1, <1>2, <1>3, StatusConcat
<1>7. StatusFree(status) => StatusFree(status \o << CRLF >>)
  BY <1>1, <1>3, StatusConcat
<1>8. status \o << CRLF >> \in Texts
  BY <1>1, <1>3, TokensTyped
<1> QED BY <1>2, <1>4, <1>5, <1>6, <1>7, <1>8

(* The same for a reply of several lines, if there is none in its text. *)
LEMMA BlockFirst ==
    ASSUME NEW status \in {NumbersFollow, ArticleFollows}, NEW text \in Texts, StatusFree(text)
    PROVE  /\ Block(status, text) \in Texts
           /\ StatusFirst(Block(status, text))
           /\ status = ArticleFollows => StatusFree(Block(status, text))
<1> DEFINE front == StatusLine(status) \o text
           back == StatusLine(<< Dot >>)
<1>1. << Dot >> \in Texts /\ << CRLF >> \in Texts
  BY TokensTyped
<1>2. back \in Texts /\ StatusFree(back)
  <2>1. back = << Dot >> \o << CRLF >>
    <3>1. << Dot >> \in Seq(Tokens) /\ CRLF \in Tokens
      BY <1>1, TokensTyped DEF Texts
    <3> QED BY <3>1, AppendIsConcat DEF StatusLine
  <2>2. StatusFree(<< Dot >>) /\ StatusFree(<< CRLF >>)
    <3>1. \A a : a \notin StatusWords => StatusFree(<< a >>)
      BY DEF StatusFree
    <3> QED BY <3>1, OtherWords
  <2> QED BY <1>1, <2>1, <2>2, StatusConcat, TokensTyped
<1>3. /\ StatusLine(status) \in Texts /\ StatusLine(status) # << >>
      /\ StatusFirst(StatusLine(status))
      /\ status = ArticleFollows => StatusFree(StatusLine(status))
  BY StatusLineFirst
<1>4. /\ front \in Texts /\ front # << >> /\ StatusFirst(front)
      /\ status = ArticleFollows => StatusFree(front)
  <2>1. front # << >>
    BY <1>3 DEF Texts
  <2> QED BY <1>3, <2>1, StatusConcat, TokensTyped
<1>5. Block(status, text) = front \o back
  BY DEF Block
<1> HIDE DEF front, back
<1> QED BY <1>2, <1>4, <1>5, StatusConcat, TokensTyped

(* The commands whose results are handed over read by read, and payload    *)
(* without words that could announce a status line.                        *)
Plain ==
    /\ command \in {"ListGroupArticles", "Article"}
    /\ session # "over"
    /\ NoLookalikes

(* What is requested behind the group, and what may be requested at all. *)
Asked == IF command = "Article" THEN {ArticleReq(Ids[1])} ELSE {}

(* What may be requested at all. *)
Permitted ==
    LoginRequests \union Asked
    \union (IF command = "Article" THEN {Group} ELSE {ListGroup})

(* The words that the delegate has been told. *)
Told == IF command = "Article" THEN Words(article) ELSE Heard(calls)

(* A status word is still to come only when no request is out, and then one. *)
OneAnswer ==
    \/ requests = << >> /\ OneStatus(Pending)
    \/ Len(requests) = 1 /\ StatusFree(Pending)

(* Only that is requested, and nothing else waits for the group. *)
OnlyAsked ==
    /\ \A i \in DOMAIN requests : requests[i] \in Permitted
    /\ currentGroupCommand \in Asked \union {NoRequest}

(* Once the results come, no status line does any more. *)
ResultsAlone ==
    resultsComing =>
        /\ StatusFree(Pending)
        /\ \A i \in DOMAIN requests : requests[i] \in Asked

(* Before, the delegate has been told nothing. *)
NothingToldBefore == ~resultsComing => calls = << >> /\ article = << >>

(* What was told and what is to come is the end of what was served. *)
WordsKept == resultsComing => EndOf(Told \o Words(Pending), Words(served))

(* The invariant behind NothingLostAfterStatus. *)
KeepsWords ==
    /\ EndOf(wire, served)
    /\ session = "silent" => response = << >>
    /\ Plain => /\ OnlyAsked
                /\ OneAnswer
                /\ ResultsAlone
                /\ NothingToldBefore
                /\ WordsKept

(* The text of such a reply is made of the tokens, without status words. *)
LEMMA PlainPayload ==
    ASSUME TypeOK, Plain
    PROVE  /\ command = "Article" => /\ Ids[1] \in IdSet /\ BodyOf[Ids[1]] \in Texts
                                     /\ StatusFree(BodyOf[Ids[1]])
           /\ command = "ListGroupArticles" => Listing \in Texts /\ StatusFree(Listing)
<1>1. command \in Commands
  BY DEF TypeOK
<1>2. command = "Article" => Ids[1] \in IdSet
  BY <1>1, IdsTyped
<1>3. \A text : StatusWords \intersect ToSet(text) = {} => StatusFree(text)
  BY DEF ToSet, StatusFree
<1> QED BY <1>2, <1>3, PayloadTyped DEF Plain, NoLookalikes

(* A reply has one status word at most, the article itself none. *)
LEMMA PlainReply ==
    ASSUME TypeOK, Plain, NEW request \in Permitted, NEW reply \in Replies(request)
    PROVE  /\ reply \in Texts /\ OneStatus(reply)
           /\ request \in Asked => StatusFree(reply)
<1>1. ASSUME NEW status \in {PassRequired, Granted, Failed, NoSuchGroup, GroupRange},
             reply = StatusLine(status)
      PROVE  reply \in Texts /\ OneStatus(reply)
  BY <1>1, StatusLineFirst, StatusParts
<1>2. request \notin Asked => request \in LoginRequests \union {Group, ListGroup}
  BY DEF Permitted
<1>3. CASE request = User
  <2>1. reply = StatusLine(PassRequired)
    BY <1>3, RequestsApart DEF Replies, LoginRequests
  <2> QED BY <1>1, <1>3, <2>1, RequestsApart DEF Asked, LoginRequests
<1>4. CASE request = Pass
  <2>1. reply = StatusLine(Granted) \/ reply = StatusLine(Failed)
    BY <1>4, RequestsApart DEF Replies, LoginRequests
  <2> QED BY <1>1, <1>4, <2>1, RequestsApart DEF Asked, LoginRequests
<1>5. CASE request = Group
  <2>1. reply = StatusLine(GroupRange) \/ reply = StatusLine(NoSuchGroup)
    BY <1>5, RequestsApart DEF Replies, LoginRequests
  <2> QED BY <1>1, <1>5, <2>1, RequestsApart DEF Asked, LoginRequests
<1>6. CASE request = ListGroup
  <2>1. reply = Block(NumbersFollow, Listing) \/ reply = StatusLine(NoSuchGroup)
    BY <1>6, RequestsApart DEF Replies, LoginRequests
  <2>2. command = "ListGroupArticles"
    <3>1. request \notin LoginRequests /\ request # Group
      BY <1>6, RequestsApart
    <3>2. request \notin Asked
      BY <1>6, RequestsApart DEF Asked
    <3> QED BY <3>1, <3>2 DEF Permitted, Plain
  <2>3. Listing \in Texts /\ StatusFree(Listing)
    BY <2>2, PlainPayload
  <2>4. reply = Block(NumbersFollow, Listing) => reply \in Texts /\ OneStatus(reply)
    BY <2>3, BlockFirst, StatusParts
  <2>5. request \notin Asked
    BY <2>2 DEF Asked
  <2> QED BY <1>1, <2>1, <2>4, <2>5
<1>7. CASE request \in Asked
  <2>1. command = "Article" /\ request = ArticleReq(Ids[1])
    BY <1>7 DEF Asked
  <2>2. reply = Block(ArticleFollows, BodyOf[Ids[1]]) \/ reply = StatusLine(NoSuchArticle)
    BY <2>1, RequestsApart DEF Replies, LoginRequests
  <2>3. BodyOf[Ids[1]] \in Texts /\ StatusFree(BodyOf[Ids[1]])
    BY <2>1, PlainPayload
  <2>4. reply \in Texts /\ StatusFree(reply)
    <3>1. CASE reply = Block(ArticleFollows, BodyOf[Ids[1]])
      BY <2>3, <3>1, BlockFirst
    <3>2. CASE reply = StatusLine(NoSuchArticle)
      BY <3>2, StatusLineFirst
    <3> QED BY <2>2, <3>1, <3>2
  <2> QED BY <2>4, StatusParts
<1> QED BY <1>2, <1>3, <1>4, <1>5, <1>6, <1>7 DEF LoginRequests

(* What is taken for more than a line starts with a status word. *)
LEMMA StatusRead ==
    ASSUME NEW buffer \in Texts, ProcessResponse(buffer),
           ~OnDone(buffer), ~OnUnrecognised(buffer)
    PROVE  1 \in DOMAIN buffer /\ buffer[1] \in StatusWords
<1>1. \E status \in {Welcome, PassRequired, Granted, Failed, Goodbye, GroupsFollow,
                     NumbersFollow, GroupSelected} : StartsWith(buffer, status)
  BY DEF ProcessResponse, OnWelcome, OnPassRequired, OnConnected, OnFailed, OnGoodbye,
     OnResultsFollow, OnGroupSelected
<1>2. \A status \in {Welcome, PassRequired, Granted, Failed, Goodbye, GroupsFollow,
                     GroupSelected} : status[1] \in StatusWords
  BY DEF StatusWords
<1>3. NumbersFollow[1] = GroupSelected[1]
  BY DEF NumbersFollow, GroupSelected
<1> QED BY <1>1, <1>2, <1>3, FirstWord

(* Before the results come, a status line that is read leaves nothing. *)
LEMMA StatusResponse ==
    ASSUME TypeOK, Plain, ~resultsComing, OnlyAsked, article = << >>,
           NEW buffer \in Texts, ProcessResponse(buffer),
           ~OnDone(buffer), ~OnUnrecognised(buffer)
    PROVE  /\ response' = << >> /\ article' = << >>
           /\ currentGroupCommand' \in Asked \union {NoRequest}
           /\ Sends(Permitted)
           /\ resultsComing' => Sends(Asked)
<1> USE DEF operation
<1>0. /\ User \in Permitted /\ Pass \in Permitted /\ Asked \subseteq Permitted
      /\ currentGroupCommand \in Asked \union {NoRequest}
      /\ command = "Article" => Group \in Permitted /\ ArticleReq(Ids[1]) \in Asked
      /\ command = "ListGroupArticles" => ListGroup \in Permitted
  BY DEF Permitted, Asked, LoginRequests, OnlyAsked
<1>1. CASE OnWelcome(buffer)
  BY <1>0, <1>1 DEF OnWelcome, Forget, Send, Sends
<1>2. CASE OnPassRequired(buffer)
  BY <1>0, <1>2 DEF OnPassRequired, Forget, Send, Sends
<1>3. CASE OnConnected(buffer)
  <2>1. Start /\ response' = << >> /\ ~resultsComing' /\ connected'
    BY <1>3 DEF OnConnected, Forget
  <2>2. CASE command = "ListGroupArticles"
    <3>1. ListArticlesOp
      BY <2>1, <2>2 DEF Start
    <3>2. Send(ListGroup) /\ currentGroupCommand' = currentGroupCommand /\ article' = article
      BY <2>1, <3>1 DEF ListArticlesOp
    <3> QED BY <1>0, <2>1, <2>2, <3>2 DEF Send, Sends
  <2>3. CASE command = "Article"
    <3>1. ArticleOp(Ids[1])
      BY <2>1, <2>3 DEF Start
    <3>2. Send(Group) /\ currentGroupCommand' = ArticleReq(Ids[1]) /\ article' = << >>
      BY <2>1, <3>1 DEF ArticleOp, Request
    <3> QED BY <1>0, <2>1, <2>3, <3>2 DEF Send, Sends
  <2> QED BY <2>2, <2>3 DEF Plain
<1>4. CASE OnFailed(buffer)
  BY <1>0, <1>4 DEF OnFailed, Forget, Sends
<1>5. CASE OnGoodbye(buffer)
  BY <1>0, <1>5 DEF OnGoodbye, Forget, Sends
<1>6. CASE OnResultsFollow(buffer)
  BY <1>0, <1>6 DEF OnResultsFollow, Forget, Sends
<1>7. CASE OnGroupSelected(buffer)
  <2>1. /\ response' = << >> /\ article' = article
        /\ currentGroupCommand' = currentGroupCommand /\ Send(currentGroupCommand)
    BY <1>7 DEF OnGroupSelected, Forget
  <2>2. Sends(Asked)
    BY <1>0, <2>1 DEF Send, Sends
  <2> QED BY <1>0, <2>1, <2>2 DEF Sends
<1> QED BY <1>1, <1>2, <1>3, <1>4, <1>5, <1>6, <1>7 DEF ProcessResponse

(* What has been told is a text. *)
LEMMA ToldTyped == TypeOK => Told \in Texts
<1>1. TypeOK => article \in Texts /\ calls \in Seq(Call)
  BY DEF TypeOK, Call
<1>2. \A cs \in Seq(Call) : Heard(cs) \in Texts
  <2>1. \A text : [id |-> "", text |-> text].text = text
    OBVIOUS
  <2>2. [id |-> "", text |-> << >>] \in Call
    BY DEF Call, Texts
  <2> QED BY <2>2, HeardAppend
<1> QED BY <1>1, <1>2, WordsType DEF Told

(* Without calls and article nothing has been told. *)
LEMMA NothingTold == calls = << >> /\ article = << >> => Told = << >>
<1>1. [id |-> "", text |-> << >>] \in Call /\ << >> \in Seq(Call)
  BY DEF Call, Texts
<1>2. Heard(<< >>) = << >>
  BY <1>1, HeardAppend
<1> QED BY <1>2, NoWords DEF Told

(* Putting nothing before or after a text. *)
LEMMA EmptyPending ==
    ASSUME NEW text \in Texts
    PROVE  << >> \o text = text /\ text \o << >> = text
BY DEF Texts

(* What processResponse does to the words that are still to come. *)
LEMMA ProcessKeeps ==
    ASSUME TypeOK, KeepsWords, Plain,
           NEW buffer \in Texts, ProcessResponse(buffer),
           wire' \in Texts, buffer \o wire' = Pending, EndOf(wire', served'),
           UNCHANGED << command, session, calls, served >>
    PROVE  (OnlyAsked /\ OneAnswer /\ ResultsAlone /\ NothingToldBefore /\ WordsKept)'
<1>1. /\ OnlyAsked /\ OneAnswer /\ ResultsAlone /\ NothingToldBefore /\ WordsKept
      /\ Asked' = Asked /\ Permitted' = Permitted
  BY DEF KeepsWords, Asked, Permitted
<1>2. CASE OnDone(buffer) \/ OnUnrecognised(buffer)
  <2>1. /\ response' = buffer /\ requests' = requests /\ resultsComing' = resultsComing
        /\ currentGroupCommand' = currentGroupCommand /\ article' = article
    BY <1>2 DEF OnDone, OnUnrecognised, operation
  <2>2. Pending' = Pending
    BY <2>1 DEF Pending
  <2>3. Told' = Told
    BY <2>1 DEF Told
  <2> QED BY <1>1, <2>1, <2>2, <2>3
      DEF OnlyAsked, OneAnswer, ResultsAlone, NothingToldBefore, WordsKept
<1>3. CASE ~ (OnDone(buffer) \/ OnUnrecognised(buffer))
  <2>1. 1 \in DOMAIN buffer /\ buffer[1] \in StatusWords
    BY <1>3, StatusRead
  <2>2. ~StatusFree(Pending)
    <3>1. ~StatusFree(buffer)
      BY <2>1 DEF StatusFree
    <3> QED BY <3>1, StatusParts
  <2>3. requests = << >> /\ OneStatus(Pending) /\ ~resultsComing
    BY <1>1, <2>2 DEF OneAnswer, ResultsAlone
  <2>4. StatusFree(wire')
    BY <2>1, <2>3, StatusParts
  <2>5. calls = << >> /\ article = << >>
    BY <1>1, <2>3 DEF NothingToldBefore
  <2>6. /\ response' = << >> /\ article' = << >>
        /\ currentGroupCommand' \in Asked \union {NoRequest}
        /\ Sends(Permitted)
        /\ resultsComing' => Sends(Asked)
    BY <1>1, <1>3, <2>3, <2>5, StatusResponse
  <2>7. Pending' = wire'
    BY <2>6, EmptyPending DEF Pending
  <2>8. /\ Len(requests') <= 1 /\ \A i \in DOMAIN requests' : requests'[i] \in Permitted
        /\ resultsComing' => \A i \in DOMAIN requests' : requests'[i] \in Asked
    BY <2>3, <2>6, OneSent
  <2>9. requests' = << >> \/ Len(requests') = 1
    BY <2>3, <2>6 DEF Sends
  <2>10. (OnlyAsked /\ ResultsAlone /\ NothingToldBefore)'
    BY <1>1, <2>4, <2>5, <2>6, <2>7, <2>8 DEF OnlyAsked, ResultsAlone, NothingToldBefore
  <2>11. OneAnswer'
    <3>1. OneStatus(wire')
      BY <2>4, StatusParts
    <3> QED BY <2>4, <2>7, <2>9, <3>1 DEF OneAnswer
  <2>12. WordsKept'
    <3>1. Heard(<< >>) = << >> /\ Words(<< >>) = << >>
      <4>1. [id |-> "", text |-> << >>] \in Call /\ << >> \in Seq(Call)
        BY DEF Call, Texts
      <4> QED BY <4>1, HeardAppend, NoWords
    <3>2. Told' = << >>
      BY <2>5, <2>6, <3>1 DEF Told
    <3>3. Words(wire') \in Texts
      BY WordsType
    <3>4. Told' \o Words(Pending') = Words(wire')
      BY <2>7, <3>2, <3>3, EmptyPending
    <3>5. EndOf(Words(wire'), Words(served'))
      BY EndOfWords DEF TypeOK
    <3> QED BY <3>4, <3>5 DEF WordsKept
  <2> QED BY <2>10, <2>11, <2>12
<1> QED BY <1>2, <1>3

(* Something is added to the wire and to what has been served. *)
LEMMA ServedMore ==
    ASSUME TypeOK, NEW text \in Texts, wire' = wire \o text, served' = served \o text,
           UNCHANGED << response, article, calls, command >>
    PROVE  /\ EndOf(wire, served) => EndOf(wire', served')
           /\ Pending' = Pending \o text
           /\ EndOf(Told \o Words(Pending), Words(served)) =>
                EndOf(Told' \o Words(Pending'), Words(served'))
<1>1. wire \in Texts /\ served \in Texts /\ response \in Texts /\ Told \in Texts /\ Pending \in Texts
  BY ToldTyped, PendingTyped DEF TypeOK
<1>2. EndOf(wire, served) => EndOf(wire', served')
  BY <1>1, EndOfConcat DEF Texts
<1>3. Pending' = Pending \o text
  <2>1. Joined(Joined(response, wire), text) = Joined(response, Joined(wire, text))
    BY <1>1, Associative
  <2> QED BY <2>1 DEF Pending, Joined
<1>4. Told' = Told
  BY DEF Told
<1>5. Words(Pending') = Words(Pending) \o Words(text) /\ Words(served') = Words(served) \o Words(text)
  BY <1>1, <1>3, WordsConcat
<1>6. Words(Pending) \in Texts /\ Words(text) \in Texts /\ Words(served) \in Texts
  BY <1>1, WordsType
<1>7. Told \o (Words(Pending) \o Words(text)) = (Told \o Words(Pending)) \o Words(text)
  <2>1. PICK told, pending, more : told = Told /\ pending = Words(Pending) /\ more = Words(text)
    OBVIOUS
  <2>2. told \in Texts /\ pending \in Texts /\ more \in Texts
    BY <1>1, <1>6, <2>1
  <2>3. Joined(Joined(told, pending), more) = Joined(told, Joined(pending, more))
    BY <2>2, Associative
  <2>4. (told \o pending) \o more = told \o (pending \o more)
    BY <2>3 DEF Joined
  <2> QED BY <2>1, <2>4
<1>8. Told \o Words(Pending) \in Texts
  BY <1>1, <1>6, TokensTyped
<1>9. EndOf(Told \o Words(Pending), Words(served)) =>
        EndOf((Told \o Words(Pending)) \o Words(text), Words(served) \o Words(text))
  BY <1>6, <1>8, EndOfConcat DEF Texts
<1> QED BY <1>2, <1>3, <1>4, <1>5, <1>7, <1>9

(* What a read leaves on the wire is an end of what was there. *)
LEMMA EndOfEnd ==
    ASSUME NEW s \in Texts, NEW t \in Texts, NEW k \in 0 .. Len(s), EndOf(s, t)
    PROVE  EndOf(SubSeq(s, k + 1, Len(s)), t)
<1> DEFINE u == SubSeq(s, k + 1, Len(s))
<1>1. PICK l \in Nat : EndAfter(s, t, l)
  BY DEF EndOf
<1>2. l \in Nat /\ Len(t) = Len(s) + l /\ \A i \in 1 .. Len(s) : s[i] = t[i + l]
  BY <1>1 DEF EndAfter
<1>3. s \in Seq(Tokens) /\ Len(s) \in Nat
  BY DEF Texts
<1>4. Len(u) = Len(s) - k /\ \A i \in 1 .. Len(u) : u[i] = s[i + k]
  BY <1>3
<1> HIDE DEF u
<1>5. ASSUME NEW i \in 1 .. Len(u) PROVE u[i] = t[i + (k + l)]
  <2>1. i + k \in 1 .. Len(s) /\ (i + k) + l = i + (k + l)
    BY <1>2, <1>3, <1>4
  <2> QED BY <1>2, <1>4, <2>1
<1>6. k + l \in Nat /\ Len(t) = Len(u) + (k + l)
  BY <1>2, <1>3, <1>4
<1>7. EndAfter(u, t, k + l)
  BY <1>5, <1>6 DEF EndAfter
<1> QED BY <1>6, <1>7 DEF EndOf, u

(* So what remains on the wire is still the end of what was served. *)
LEMMA EndOfRemaining ==
    ASSUME TypeOK, EndOf(wire, served), NEW n \in 1 .. Len(wire),
           wire' = Remaining(n), served' = served
    PROVE  EndOf(wire', served')
<1>1. wire \in Texts /\ served \in Texts /\ wire \in Seq(Tokens)
  BY DEF TypeOK, Texts
<1>2. n \in 0 .. Len(wire)
  BY <1>1
<1>3. EndOf(SubSeq(wire, n + 1, Len(wire)), served)
  BY <1>1, <1>2, EndOfEnd
<1> QED BY <1>3 DEF Remaining

(* At first nothing is to come and nothing has been told. *)
LEMMA WordsInit == Init => KeepsWords
<1> SUFFICES ASSUME Init PROVE KeepsWords
  OBVIOUS
<1>1. /\ wire = << >> /\ response = << >> /\ requests = << >> /\ served = << >>
      /\ resultsComing = FALSE /\ calls = << >> /\ article = << >>
      /\ currentGroupCommand = NoRequest
  BY DEF Init
<1>2. << >> \in Texts /\ << >> \in Seq(Tokens)
  BY DEF Texts
<1>3. EndOf(wire, served)
  BY <1>1, <1>2, EndOfItself
<1>4. Pending = << >> /\ OneStatus(<< >>)
  BY <1>1 DEF Pending, OneStatus
<1>5. DOMAIN requests = {}
  BY <1>1
<1> QED BY <1>1, <1>3, <1>4, <1>5
    DEF KeepsWords, OnlyAsked, OneAnswer, ResultsAlone, NothingToldBefore, WordsKept

(* Steps that leave the words alone. *)
LEMMA WordsUnchanged ==
    ASSUME KeepsWords,
           UNCHANGED << wire, served, session, response, command, requests, currentGroupCommand,
                        resultsComing, calls, article >>
    PROVE  KeepsWords'
<1>1. /\ Pending' = Pending /\ Told' = Told /\ Asked' = Asked /\ Permitted' = Permitted
      /\ Plain' = Plain
  BY DEF Pending, Told, Asked, Permitted, Plain, NoLookalikes
<1> QED BY <1>1
    DEF KeepsWords, OnlyAsked, OneAnswer, ResultsAlone, NothingToldBefore, WordsKept

(* The greeting is the one status word on its way. *)
LEMMA WordsGreet == ASSUME IInv, InTurn, KeepsWords, ServerGreet PROVE KeepsWords'
<1>1. /\ session = "silent" /\ session' = "greeted" /\ wire' = wire \o StatusLine(Welcome)
      /\ served' = served \o StatusLine(Welcome)
      /\ UNCHANGED << requests, resultsComing, response, article, calls, command,
                      currentGroupCommand >>
  BY DEF ServerGreet, Serve, reader, operation
<1>2. /\ wire = << >> /\ requests = << >> /\ ~resultsComing /\ response = << >>
      /\ EndOf(wire, served)
  BY <1>1, NothingBeforehand DEF InTurn, NothingBeforeGreeting, KeepsWords
<1>3. StatusLine(Welcome) \in Texts /\ OneStatus(StatusLine(Welcome))
  BY StatusLineFirst, StatusParts
<1>4. TypeOK
  BY DEF IInv
<1>5. EndOf(wire', served')
  BY <1>1, <1>2, <1>3, <1>4, ServedMore
<1>6. Pending' = StatusLine(Welcome)
  BY <1>1, <1>2, <1>3, EmptyPending DEF Pending
<1>7. Asked' = Asked /\ Permitted' = Permitted /\ (Plain' => Plain)
  BY <1>1 DEF Asked, Permitted, Plain, NoLookalikes
<1>8. Plain' => (OnlyAsked /\ OneAnswer /\ ResultsAlone /\ NothingToldBefore /\ WordsKept)'
  BY <1>1, <1>2, <1>3, <1>6, <1>7
     DEF KeepsWords, OnlyAsked, OneAnswer, ResultsAlone, NothingToldBefore, WordsKept
<1> QED BY <1>1, <1>5, <1>8 DEF KeepsWords

(* Once the server hangs up nothing is promised. *)
LEMMA WordsHangUp == ASSUME IInv, KeepsWords, ServerHangUp PROVE KeepsWords'
<1>1. /\ session' = "over" /\ wire' = wire \o StatusLine(Goodbye)
      /\ served' = served \o StatusLine(Goodbye)
      /\ UNCHANGED << response, article, calls, command >>
  BY DEF ServerHangUp, Serve, reader
<1>2. StatusLine(Goodbye) \in Texts
  BY StatusTexts, StatusLineTokens
<1>3. TypeOK
  BY DEF IInv
<1>4. EndOf(wire', served')
  BY <1>1, <1>2, <1>3, ServedMore DEF KeepsWords
<1>5. ~Plain'
  BY <1>1 DEF Plain
<1> QED BY <1>1, <1>4, <1>5 DEF KeepsWords

(* The answer takes the place of the request. *)
LEMMA WordsAnswer == ASSUME IInv, KeepsWords, ServerAnswer PROVE KeepsWords'
<1> DEFINE request == Head(requests)
<1>1. /\ requests # << >> /\ Expected(request) /\ requests' = Tail(requests)
      /\ UNCHANGED << resultsComing, response, article, calls, command, currentGroupCommand >>
  BY DEF ServerAnswer, reader, operation
<1>2. PICK reply \in Replies(request) : Serve(reply) /\ session' = SessionAfter(request, reply)
  BY DEF ServerAnswer
<1>3. TypeOK /\ requests \in Seq(Requests) /\ Len(requests) \in Nat
      /\ request \in Requests /\ request = requests[1] /\ 1 \in DOMAIN requests
  <2>1. TypeOK /\ requests \in Seq(Requests)
    BY DEF IInv, TypeOK
  <2> QED BY <1>1, <2>1
<1> HIDE DEF request
<1>4. session \notin {"silent", "over"} /\ session' # "silent"
  BY <1>1, <1>2 DEF Expected, SessionAfter
<1>5. reply \in Texts
  BY <1>3, ReplyTokens
<1>6. wire' = wire \o reply /\ served' = served \o reply
  BY <1>2 DEF Serve
<1>7. /\ EndOf(wire', served') /\ Pending' = Pending \o reply
      /\ EndOf(Told \o Words(Pending), Words(served)) =>
           EndOf(Told' \o Words(Pending'), Words(served'))
  <2>1. EndOf(wire, served)
    BY DEF KeepsWords
  <2> QED BY <1>1, <1>3, <1>5, <1>6, <2>1, ServedMore
<1>8. ASSUME Plain' PROVE (OnlyAsked /\ OneAnswer /\ ResultsAlone /\ NothingToldBefore /\ WordsKept)'
  <2>1. Plain /\ Asked' = Asked /\ Permitted' = Permitted
    BY <1>1, <1>4, <1>8 DEF Plain, Asked, Permitted, NoLookalikes
  <2>2. OnlyAsked /\ OneAnswer /\ ResultsAlone /\ NothingToldBefore /\ WordsKept
    BY <2>1 DEF KeepsWords
  <2>3. Len(requests) = 1 /\ StatusFree(Pending) /\ request \in Permitted
    BY <1>1, <1>3, <2>2 DEF OneAnswer, OnlyAsked
  <2>4. requests' = << >> /\ DOMAIN requests' = {}
    BY <1>1, <1>3, <2>3
  <2>5. OneStatus(reply) /\ (request \in Asked => StatusFree(reply))
    BY <1>3, <2>1, <2>3, PlainReply
  <2>6. Pending \in Texts
    BY <1>3, PendingTyped
  <2>7. OneAnswer'
    BY <1>5, <1>7, <2>3, <2>4, <2>5, <2>6, StatusConcat DEF OneAnswer
  <2>8. resultsComing => StatusFree(Pending')
    BY <1>3, <1>5, <1>7, <2>2, <2>3, <2>5, <2>6, StatusConcat DEF ResultsAlone
  <2> QED BY <1>1, <1>7, <2>1, <2>2, <2>4, <2>7, <2>8
          DEF OnlyAsked, ResultsAlone, NothingToldBefore, WordsKept
<1> QED BY <1>4, <1>7, <1>8 DEF KeepsWords

(* Reading before the results come. *)
LEMMA WordsReadStatus ==
    ASSUME IInv, InTurn, KeepsWords, NEW n \in 1 .. Len(wire), ReadStatus(n)
    PROVE  KeepsWords'
<1>1. /\ wire' = Remaining(n) /\ ProcessResponse(Arrived(n))
      /\ UNCHANGED << command, session, calls, served >>
  BY DEF ReadStatus
<1>2. TypeOK /\ wire \in Seq(Tokens) /\ wire # << >>
  <2>1. TypeOK /\ wire \in Seq(Tokens)
    BY DEF IInv, TypeOK, Texts
  <2> QED BY <2>1
<1>3. session # "silent"
  BY <1>2 DEF InTurn, NothingBeforeGreeting
<1>4. Arrived(n) \in Texts /\ wire' \in Texts /\ Arrived(n) \o wire' = Pending
  BY <1>1, <1>2, ReadFacts
<1>5. EndOf(wire', served')
  BY <1>1, <1>2, EndOfRemaining DEF KeepsWords
<1>6. Plain' => Plain
  BY <1>1 DEF Plain, NoLookalikes
<1>7. Plain' => (OnlyAsked /\ OneAnswer /\ ResultsAlone /\ NothingToldBefore /\ WordsKept)'
  BY <1>1, <1>2, <1>4, <1>5, <1>6, ProcessKeeps
<1> QED BY <1>1, <1>3, <1>5, <1>7 DEF KeepsWords

(* What is left at the end of the read loop has no status word. *)
LEMMA WordsLoopExit == ASSUME IInv, KeepsWords, LoopExit PROVE KeepsWords'
<1>1. /\ pc = "reading" /\ ProcessResponse(response)
      /\ UNCHANGED << wire, command, session, calls, served >>
  BY DEF LoopExit, history
<1>2. TypeOK /\ response \in Texts /\ wire \in Texts
  BY DEF IInv, TypeOK
<1>3. session # "silent"
  BY <1>1, NothingBeforehand
<1>4. wire' \in Texts /\ response \o wire' = Pending
  BY <1>1, <1>2 DEF Pending
<1>5. EndOf(wire', served')
  BY <1>1 DEF KeepsWords
<1>6. Plain' => Plain
  BY <1>1 DEF Plain, NoLookalikes
<1>7. Plain' => (OnlyAsked /\ OneAnswer /\ ResultsAlone /\ NothingToldBefore /\ WordsKept)'
  BY <1>1, <1>2, <1>4, <1>5, <1>6, ProcessKeeps
<1> QED BY <1>1, <1>3, <1>5, <1>7 DEF KeepsWords

(* A read of data hands over the words up to its last line break. *)
LEMMA WordsReadData ==
    ASSUME IInv, InTurn, KeepsWords, NEW n \in 1 .. Len(wire), ReadData(n),
           Plain => /\ UNCHANGED << requests, currentGroupCommand >>
                    /\ Told' = Told \o Words(SplitPrefix(Arrived(n)))
    PROVE  KeepsWords'
<1>1. /\ resultsComing /\ resultsComing' = resultsComing
      /\ wire' = Remaining(n) /\ response' = SplitRest(Arrived(n))
      /\ UNCHANGED << session, command, served >>
  BY DEF ReadData, TakeData
<1>2. TypeOK /\ wire \in Seq(Tokens) /\ wire # << >>
  <2>1. TypeOK /\ wire \in Seq(Tokens)
    BY DEF IInv, TypeOK, Texts
  <2> QED BY <2>1
<1>3. session # "silent"
  BY <1>2 DEF InTurn, NothingBeforeGreeting
<1>4. EndOf(wire', served')
  BY <1>1, <1>2, EndOfRemaining DEF KeepsWords
<1>5. ASSUME Plain'
      PROVE  (OnlyAsked /\ OneAnswer /\ ResultsAlone /\ NothingToldBefore /\ WordsKept)'
  <2>1. Plain /\ Asked' = Asked /\ Permitted' = Permitted
    BY <1>1, <1>5 DEF Plain, Asked, Permitted, NoLookalikes
  <2>2. OnlyAsked /\ OneAnswer /\ ResultsAlone /\ NothingToldBefore /\ WordsKept
    BY <2>1 DEF KeepsWords
  <2>3. /\ requests' = requests /\ currentGroupCommand' = currentGroupCommand
        /\ Told' = Told \o Words(SplitPrefix(Arrived(n)))
    BY <2>1
  <2>4. Pending' = SplitRest(Arrived(n)) \o Remaining(n)
    BY <1>1 DEF Pending
  <2>5. StatusFree(Pending) /\ StatusFree(Pending')
    <3>1. StatusFree(Pending)
      BY <1>1, <2>2 DEF ResultsAlone
    <3>2. /\ Pending \in Texts /\ EndOf(Pending', Pending)
          /\ SplitRest(Arrived(n)) \in Texts /\ Remaining(n) \in Texts
      BY <1>2, <2>4, ReadFacts
    <3>3. Pending' \in Texts
      BY <2>4, <3>2, TokensTyped
    <3> QED BY <3>1, <3>2, <3>3, EndStatusFree
  <2>6. OneStatus(Pending')
    <3>1. Pending' \in Texts /\ << >> \in Texts
      <4>1. SplitRest(Arrived(n)) \in Texts /\ Remaining(n) \in Texts
        BY <1>2, ReadFacts
      <4> QED BY <2>4, <4>1, TokensTyped DEF Texts
    <3> QED BY <2>5, <3>1, StatusParts
  <2>7. OneAnswer'
    BY <2>2, <2>3, <2>5, <2>6 DEF OneAnswer
  <2>8. Told' \o Words(Pending') = Told \o Words(Pending)
    <3>1. PICK told, front, rest, back, arrived :
            /\ told = Told /\ front = Words(SplitPrefix(Arrived(n)))
            /\ rest = Words(SplitRest(Arrived(n))) /\ back = Words(Remaining(n))
            /\ arrived = Words(Arrived(n))
      OBVIOUS
    <3>2. /\ Arrived(n) \in Texts /\ Remaining(n) \in Texts
          /\ SplitPrefix(Arrived(n)) \in Texts /\ SplitRest(Arrived(n)) \in Texts
          /\ Arrived(n) \o Remaining(n) = Pending
      BY <1>2, ReadFacts
    <3>3. /\ told \in Texts /\ front \in Texts /\ rest \in Texts /\ back \in Texts
          /\ front \o rest \in Texts /\ rest \o back \in Texts
      BY <1>2, <3>1, <3>2, ToldTyped, WordsType, TokensTyped
    <3>4. arrived = front \o rest
      BY <3>1, <3>2, SplitterKeepsWords
    <3>5. Words(Pending) = arrived \o back
      BY <3>1, <3>2, WordsConcat
    <3>6. Words(Pending') = rest \o back
      BY <2>4, <3>1, <3>2, WordsConcat
    <3>7. Told' = told \o front
      BY <2>3, <3>1
    <3>8. (told \o front) \o (rest \o back) = told \o (front \o (rest \o back))
      <4>1. Joined(Joined(told, front), rest \o back) = Joined(told, Joined(front, rest \o back))
        BY <3>3, Associative
      <4> QED BY <4>1 DEF Joined
    <3>9. (front \o rest) \o back = front \o (rest \o back)
      <4>1. Joined(Joined(front, rest), back) = Joined(front, Joined(rest, back))
        BY <3>3, Associative
      <4> QED BY <4>1 DEF Joined
    <3> QED BY <3>1, <3>4, <3>5, <3>6, <3>7, <3>8, <3>9
  <2>9. WordsKept'
    BY <1>1, <2>2, <2>8 DEF WordsKept
  <2>10. (OnlyAsked /\ ResultsAlone /\ NothingToldBefore)'
    BY <1>1, <2>1, <2>2, <2>3, <2>5 DEF OnlyAsked, ResultsAlone, NothingToldBefore
  <2> QED BY <2>7, <2>9, <2>10
<1> QED BY <1>3, <1>4, <1>1, <1>5 DEF KeepsWords

(* The article grows by the lines of the read. *)
LEMMA WordsReadArticle ==
    ASSUME IInv, InTurn, KeepsWords, NEW n \in 1 .. Len(wire), ReadArticle(n)
    PROVE  KeepsWords'
<1>1. /\ currentOperation = "Article" /\ ReadData(n)
      /\ article' = article \o SplitPrefix(Arrived(n)) \o << CRLF >>
      /\ requests' = requests /\ currentGroupCommand' = currentGroupCommand
      /\ command' = command
  BY DEF ReadArticle, operation, ReadData, TakeData
<1>2. TypeOK /\ command = "Article" /\ article \in Texts
  BY <1>1 DEF IInv, TypeOK, OperationOfCommand, NoOperation
<1>3. SplitPrefix(Arrived(n)) \in Texts /\ << CRLF >> \in Texts
  BY <1>2, ReadFacts, TokensTyped DEF Texts
<1>4. article \o SplitPrefix(Arrived(n)) \in Texts
  BY <1>2, <1>3, TokensTyped
<1>5. Words(article') = Words(article \o SplitPrefix(Arrived(n))) \o << >>
  BY <1>1, <1>3, <1>4, WordsConcat, NoWords
<1>6. Words(article \o SplitPrefix(Arrived(n))) = Words(article) \o Words(SplitPrefix(Arrived(n)))
  BY <1>2, <1>3, WordsConcat
<1>7. Words(article \o SplitPrefix(Arrived(n))) \in Texts
  BY <1>4, WordsType
<1>8. Words(article') = Words(article) \o Words(SplitPrefix(Arrived(n)))
  BY <1>5, <1>6, <1>7, EmptyPending
<1>9. Told = Words(article) /\ Told' = Words(article')
  BY <1>1, <1>2 DEF Told
<1> QED BY <1>1, <1>8, <1>9, WordsReadData

(* The delegate of the list is called with the lines of the read. *)
LEMMA WordsReadArticleIds ==
    ASSUME IInv, InTurn, KeepsWords, NEW n \in 1 .. Len(wire), ReadArticleIds(n)
    PROVE  KeepsWords'
<1> DEFINE prefix == SplitPrefix(Arrived(n))
<1> DEFINE call == [id |-> "", text |-> prefix]
<1>1. /\ currentOperation = "ListGroupArticles" /\ ReadData(n)
      /\ calls' = Append(calls, call)
      /\ requests' = requests /\ currentGroupCommand' = currentGroupCommand
      /\ command' = command
  BY DEF ReadArticleIds, operation, ReadData, TakeData
<1>2. TypeOK /\ command = "ListGroupArticles" /\ calls \in Seq(Call)
  BY <1>1 DEF IInv, TypeOK, OperationOfCommand, NoOperation, Call
<1>3. prefix \in Texts
  BY <1>2, ReadFacts
<1>4. call \in Call /\ call.text = prefix
  BY <1>3 DEF Call
<1> HIDE DEF call, prefix
<1>5. Heard(calls') = Heard(calls) \o Words(prefix)
  <2>1. Heard(Append(calls, call)) = Heard(calls) \o Words(call.text)
    BY <1>2, <1>4, HeardAppend
  <2> QED BY <1>1, <1>4, <2>1, Zenon
<1>6. Told = Heard(calls) /\ Told' = Heard(calls')
  BY <1>1, <1>2 DEF Told
<1>7. Told' = Told \o Words(SplitPrefix(Arrived(n)))
  BY <1>5, <1>6 DEF prefix
<1> QED BY <1>1, <1>7, WordsReadData

(* The other two commands are not concerned. *)
LEMMA WordsReadOther ==
    ASSUME IInv, InTurn, KeepsWords, NEW n \in 1 .. Len(wire), ReadHeader(n) \/ ReadGroups(n)
    PROVE  KeepsWords'
<1>1. ReadData(n) /\ currentOperation \in {"ArticleHeader", "ListGroups"}
  BY DEF ReadHeader, ReadGroups
<1>2. ~Plain
  BY <1>1 DEF IInv, OperationOfCommand, NoOperation, Plain
<1> QED BY <1>1, <1>2, WordsReadData

(* No step loses a word. *)
LEMMA WordsInvariance == Spec => []KeepsWords
<1>1. IInv /\ InTurn /\ KeepsWords /\ [Next]_vars => KeepsWords'
  <2> SUFFICES ASSUME IInv, InTurn, KeepsWords, [Next]_vars PROVE KeepsWords'
    OBVIOUS
  <2>1. CASE Open
    BY <2>1, WordsUnchanged DEF Open, reader, operation, history
  <2>2. CASE ServerGreet
    BY <2>2, WordsGreet
  <2>3. CASE ServerAnswer
    BY <2>3, WordsAnswer
  <2>4. CASE ServerHangUp
    BY <2>4, WordsHangUp
  <2>5. CASE LoopExit
    BY <2>5, WordsLoopExit
  <2>6. ASSUME NEW n \in 1 .. Len(wire), ReadStatus(n) PROVE KeepsWords'
    BY <2>6, WordsReadStatus
  <2>7. ASSUME NEW n \in 1 .. Len(wire), ReadArticle(n) PROVE KeepsWords'
    BY <2>7, WordsReadArticle
  <2>8. ASSUME NEW n \in 1 .. Len(wire), ReadArticleIds(n) PROVE KeepsWords'
    BY <2>8, WordsReadArticleIds
  <2>9. ASSUME NEW n \in 1 .. Len(wire), ReadHeader(n) \/ ReadGroups(n) PROVE KeepsWords'
    BY <2>9, WordsReadOther
  <2>10. CASE UNCHANGED vars
    BY <2>10, WordsUnchanged DEF vars, connection, reader, operation, history
  <2> QED BY <2>1, <2>2, <2>3, <2>4, <2>5, <2>6, <2>7, <2>8, <2>9, <2>10
      DEF Next, ReaderNext, ServerNext, Read
<1> QED BY WordsInit, Invariance, TurnInvariance, <1>1, PTL DEF Spec

(* An end of a text is a suffix of it, read backwards a prefix. *)
LEMMA EndIsSuffix ==
    ASSUME NEW s \in Texts, NEW t \in Texts, EndOf(s, t)
    PROVE  IsSuffix(s, t)
<1>1. PICK k \in Nat : EndAfter(s, t, k)
  BY DEF EndOf
<1>2. /\ s \in Seq(Tokens) /\ t \in Seq(Tokens) /\ Len(s) \in Nat /\ Len(t) \in Nat
      /\ Len(t) = Len(s) + k /\ \A i \in 1 .. Len(s) : s[i] = t[i + k]
  BY <1>1 DEF EndAfter, Texts
<1> DEFINE r == Reverse(s)
           q == Reverse(t)
<1>3. /\ r \in Seq(Tokens) /\ Len(r) = Len(s)
      /\ \A i \in 1 .. Len(s) : r[i] = s[(Len(s) - i) + 1]
  BY <1>2 DEF Reverse
<1>4. /\ q \in Seq(Tokens) /\ Len(q) = Len(t)
      /\ \A i \in 1 .. Len(t) : q[i] = t[(Len(t) - i) + 1]
  BY <1>2 DEF Reverse
<1> HIDE DEF r, q
<1>5. ASSUME NEW i \in 1 .. Len(s) PROVE r[i] = q[i]
  <2>1. /\ (Len(s) - i) + 1 \in 1 .. Len(s) /\ i \in 1 .. Len(t)
        /\ ((Len(s) - i) + 1) + k = (Len(t) - i) + 1
    BY <1>2
  <2> QED BY <1>2, <1>3, <1>4, <2>1
<1>6. Len(r) <= Len(q)
  BY <1>2, <1>3, <1>4
<1>7. SubSeq(r, 1, Len(r)) = SubSeq(q, 1, Len(r))
  <2>1. /\ SubSeq(r, 1, Len(r)) \in Seq(Tokens) /\ SubSeq(q, 1, Len(r)) \in Seq(Tokens)
        /\ Len(SubSeq(r, 1, Len(r))) = Len(r) /\ Len(SubSeq(q, 1, Len(r))) = Len(r)
        /\ \A i \in 1 .. Len(r) : SubSeq(r, 1, Len(r))[i] = r[i] /\ SubSeq(q, 1, Len(r))[i] = q[i]
    BY <1>2, <1>3, <1>4, <1>6, SMTT(60)
  <2> QED BY <1>3, <1>5, <2>1, SeqEqual
<1> QED BY <1>6, <1>7 DEF IsSuffix, IsPrefix, r, q

(* What the property gathers is what the delegate has been told. *)
LEMMA GatheredIsTold ==
    ASSUME TypeOK, command \in {"ListGroupArticles", "Article"}
    PROVE  Gathered = Told
<1>1. CASE command = "Article"
  BY <1>1 DEF Gathered, Told
<1>2. CASE command = "ListGroupArticles"
  <2>1. calls \in Seq(Call)
    BY DEF TypeOK, Call
  <2>2. \A k \in DOMAIN calls : calls[k] \in Call
    BY <2>1
  <2>3. \A k \in DOMAIN calls : Parsed(calls[k].text) = EntriesOf[calls[k]]
    BY <1>2, <2>2 DEF Parsed, EntriesOf
  <2>4. [k \in DOMAIN calls |-> Parsed(calls[k].text)] = Each(EntriesOf, calls)
    BY <2>3 DEF Each
  <2>5. Gathered = Spoken(FlattenSeq(Each(EntriesOf, calls)))
    BY <1>2, <2>4 DEF Gathered, Delivered, Spoken
  <2> QED BY <1>2, <2>5 DEF Told, Heard
<1> QED BY <1>1, <1>2

(***************************************************************************)
(* From the moment the results of a list of articles or of an article come, *)
(* no word of them is lost, repeated or moved, however the reads cut them:  *)
(* for every list and article without a word that announces a status line.  *)
(***************************************************************************)
THEOREM NothingIsLost == Spec => []NothingLostAfterStatus
<1>1. IInv /\ KeepsWords => NothingLostAfterStatus
  <2> SUFFICES ASSUME IInv, KeepsWords, resultsComing,
                      command \in {"ListGroupArticles", "Article"},
                      session # "over", NoLookalikes
               PROVE  IsSuffix(Gathered \o Words(response) \o Words(wire), Words(served))
    BY DEF NothingLostAfterStatus
  <2>1. TypeOK /\ response \in Texts /\ wire \in Texts /\ served \in Texts
    BY DEF IInv, TypeOK
  <2>2. EndOf(Told \o Words(Pending), Words(served))
    BY DEF KeepsWords, Plain, WordsKept
  <2>3. PICK told, left, coming, all :
          /\ told = Told /\ left = Words(response) /\ coming = Words(wire) /\ all = Words(served)
    OBVIOUS
  <2>4. /\ told \in Texts /\ left \in Texts /\ coming \in Texts /\ all \in Texts
        /\ left \o coming \in Texts /\ told \o (left \o coming) \in Texts
    <3>1. told \in Texts /\ left \in Texts /\ coming \in Texts /\ all \in Texts
      BY <2>1, <2>3, ToldTyped, WordsType
    <3> QED BY <3>1, TokensTyped
  <2>5. Words(Pending) = left \o coming
    BY <2>1, <2>3, WordsConcat DEF Pending
  <2>6. EndOf(told \o (left \o coming), all)
    BY <2>2, <2>3, <2>5
  <2>7. IsSuffix(told \o (left \o coming), all)
    BY <2>4, <2>6, EndIsSuffix
  <2>8. (told \o left) \o coming = told \o (left \o coming)
    <3>1. Joined(Joined(told, left), coming) = Joined(told, Joined(left, coming))
      BY <2>4, Associative
    <3> QED BY <3>1 DEF Joined
  <2>9. Gathered = told
    BY <2>1, <2>3, GatheredIsTold
  <2> QED BY <2>3, <2>7, <2>8, <2>9, Zenon
<1> QED BY <1>1, Invariance, WordsInvariance, PTL
-------------------------------------------------------------------------------
(***************************************************************************)
(* Lines and replies.                                                       *)
(***************************************************************************)
(* A line break ends a line and adds none; any other token starts a line     *)
(* behind a break, and belongs to the last line otherwise.                   *)
LEMMA LinesNext ==
    ASSUME NEW t \in Texts, NEW e \in Tokens
    PROVE  /\ Append(t, e) \in Texts
           /\ e = CRLF => Lines(Append(t, e)) = Lines(t)
           /\ e # CRLF /\ Complete(t) => Lines(Append(t, e)) = Append(Lines(t), << e >>)
           /\ e # CRLF /\ ~Complete(t) =>
                Lines(Append(t, e)) = [Lines(t) EXCEPT ![Len(Lines(t))] = Append(@, e)]
<1> DEFINE u == Append(t, e)
<1>1. /\ u \in Texts /\ Len(t) \in Nat /\ Len(u) = Len(t) + 1 /\ u[Len(t) + 1] = e
      /\ \A i \in 1 .. Len(t) : u[i] = t[i]
  BY DEF Texts
<1>2. Lines(u) = WithToken(Lines(t), u, Len(t) + 1)
  BY LinesAppend
<1> HIDE DEF u
<1>3. CASE e = CRLF
  BY <1>1, <1>2, <1>3 DEF WithToken, u
<1>4. CASE e # CRLF /\ Complete(t)
  <2>1. Len(t) + 1 = 1 \/ u[Len(t) + 1 - 1] = CRLF
    <3>1. CASE t = << >>
      BY <1>1, <3>1
    <3>2. CASE t # << >> /\ t[Len(t)] = CRLF
      <4>1. Len(t) \in 1 .. Len(t) /\ Len(t) + 1 - 1 = Len(t)
        BY <1>1, <3>2 DEF Texts
      <4> QED BY <1>1, <3>2, <4>1
    <3> QED BY <1>4, <3>1, <3>2 DEF Complete
  <2> QED BY <1>1, <1>2, <1>4, <2>1 DEF WithToken, u
<1>5. CASE e # CRLF /\ ~Complete(t)
  <2>1. t # << >> /\ t[Len(t)] # CRLF
    BY <1>5 DEF Complete
  <2>2. Len(t) \in 1 .. Len(t) /\ Len(t) + 1 - 1 = Len(t) /\ Len(t) + 1 # 1
    BY <1>1, <2>1 DEF Texts
  <2>3. Lines(u) = [Lines(t) EXCEPT ![Len(Lines(t))] = Append(@, e)]
    BY <1>1, <1>2, <1>5, <2>1, <2>2 DEF WithToken
  <2> QED BY <1>1, <1>5, <2>3 DEF u
<1> QED BY <1>3, <1>4, <1>5

(* A text that does not end with a break has a last line; what is added to   *)
(* it is added to this line.                                                 *)
LEMMA LinesOpen ==
    ASSUME NEW t \in Texts, ~Complete(t)
    PROVE  Lines(t) # << >>
<1> DEFINE T == {x \in Texts : ~Complete(x) => Lines(x) # << >>}
<1>1. << >> \in T
  BY DEF Complete, Texts
<1>2. ASSUME NEW x \in Texts, NEW e \in Tokens, x \in T PROVE Append(x, e) \in T
  <2>1. Append(x, e) \in Texts /\ Lines(x) \in LineSeq /\ << e >> \in Texts
    BY LinesNext, LinesAppend, TokensTyped
  <2>2. CASE e = CRLF
    <3>1. Append(x, e)[Len(Append(x, e))] = CRLF
      BY <2>2 DEF Texts
    <3> QED BY <2>1, <3>1 DEF Complete
  <2>3. CASE e # CRLF /\ Complete(x)
    <3>1. Lines(Append(x, e)) = Append(Lines(x), << e >>)
      BY <2>3, LinesNext
    <3>2. Lines(Append(x, e)) # << >>
      BY <2>1, <3>1 DEF LineSeq
    <3> QED BY <2>1, <3>2
  <2>4. CASE e # CRLF /\ ~Complete(x)
    <3>1. Lines(x) # << >> /\ Lines(Append(x, e)) = [Lines(x) EXCEPT ![Len(Lines(x))] = Append(@, e)]
      BY <1>2, <2>4, LinesNext
    <3>2. DOMAIN Lines(Append(x, e)) = DOMAIN Lines(x)
      BY <3>1
    <3>3. Lines(Append(x, e)) \in LineSeq
      BY <2>1, LinesAppend
    <3>4. Lines(Append(x, e)) # << >>
      BY <2>1, <3>1, <3>2, <3>3 DEF LineSeq
    <3> QED BY <2>1, <3>4
  <2> QED BY <2>2, <2>3, <2>4
<1>3. Texts \subseteq T
  <2>1. \A x \in Texts, e \in Tokens : x \in T => Append(x, e) \in T
    BY <1>2
  <2> HIDE DEF T
  <2> QED BY <1>1, <2>1, SequenceInduction DEF Texts
<1> QED BY <1>3

(* Behind other lines, the last line grows like on its own. *)
LEMMA LastGrows ==
    ASSUME NEW S, NEW a \in Seq(S), NEW b \in Seq(S), b # << >>, NEW x \in S
    PROVE  WithLast(Joined(a, b), x) = Joined(a, WithLast(b, x))
<1> DEFINE n == Len(b) - 1
           front == SubSeq(b, 1, n)
<1>1. n \in Nat /\ Len(b) = n + 1 /\ front \in Seq(S) /\ b[n + 1] \in S /\ b = Append(front, b[n + 1])
  BY SMTT(60)
<1> HIDE DEF n, front
<1>2. PICK y \in S : b = Append(front, y)
  BY <1>1
<1>3. WithLast(b, x) = Append(front, x)
  BY <1>1, <1>2, LastReplaced
<1>4. Longer(Joined(a, front), y) = Joined(a, Longer(front, y))
  BY <1>1, LongerBehind
<1>5. Longer(Joined(a, front), x) = Joined(a, Longer(front, x))
  BY <1>1, LongerBehind
<1>6. Joined(a, front) \in Seq(S)
  BY <1>1, ConcatProperties DEF Joined
<1>7. WithLast(Append(Joined(a, front), y), x) = Append(Joined(a, front), x)
  BY <1>6, LastReplaced
<1> QED BY <1>2, <1>3, <1>4, <1>5, <1>7 DEF Longer

(* What comes behind whole lines starts a line. *)
LEMMA LinesComplete ==
    ASSUME NEW a \in Texts, Complete(a), NEW b \in Texts
    PROVE  Lines(a \o b) = Lines(a) \o Lines(b)
<1> DEFINE Good(x) == /\ Lines(Joined(a, x)) = Joined(Lines(a), Lines(x))
                      /\ Complete(Joined(a, x)) <=> Complete(x)
           T == {x \in Texts : Good(x)}
<1>0. Lines(a) \in LineSeq /\ \A x \in Texts : Lines(x) \in LineSeq /\ Joined(a, x) \in Texts
  <2>1. \A x \in Texts : Lines(x) \in LineSeq
    BY LinesKeepWords
  <2> QED BY <2>1, TokensTyped DEF Joined
<1>1. << >> \in T
  <2>1. << >> \in Texts /\ Joined(a, << >>) = a
    BY DEF Texts, Joined
  <2>2. Lines(<< >>) = << >>
    BY <2>1, TokensTyped, LinesAppend
  <2>3. Joined(Lines(a), << >>) = Lines(a)
    BY <1>0 DEF LineSeq, Joined
  <2> QED BY <2>1, <2>2, <2>3 DEF Complete
<1>2. ASSUME NEW x \in Texts, NEW e \in Tokens, x \in T PROVE Append(x, e) \in T
  <2>1. /\ Lines(Joined(a, x)) = Joined(Lines(a), Lines(x)) /\ (Complete(Joined(a, x)) <=> Complete(x))
        /\ Joined(a, x) \in Texts /\ Lines(x) \in LineSeq /\ Append(x, e) \in Texts
    BY <1>0, <1>2, LinesNext
  <2>2. Append(Joined(a, x), e) = Joined(a, Append(x, e))
    <3>1. Longer(Joined(a, x), e) = Joined(a, Longer(x, e))
      BY LongerBehind DEF Texts
    <3> QED BY <3>1 DEF Longer
  <2>3. \A y \in Texts : Complete(Append(y, e)) <=> e = CRLF
    <3>1. \A y \in Seq(Tokens) : Append(y, e) # << >> /\ Append(y, e)[Len(Append(y, e))] = e
      BY AppendProperties
    <3> QED BY <3>1 DEF Complete, Texts
  <2>4. Complete(Joined(a, Append(x, e))) <=> Complete(Append(x, e))
    BY <2>1, <2>2, <2>3
  <2>5. << e >> \in Texts
    BY TokensTyped
  <2>6. CASE e = CRLF
    <3>1. Lines(Append(Joined(a, x), e)) = Lines(Joined(a, x)) /\ Lines(Append(x, e)) = Lines(x)
      BY <2>1, <2>6, LinesNext
    <3> QED BY <2>1, <2>2, <2>4, <3>1
  <2>7. CASE e # CRLF /\ Complete(x)
    <3>1. PICK line \in Texts : line = << e >>
      BY <2>5
    <3>2. /\ Lines(Append(Joined(a, x), e)) = Append(Lines(Joined(a, x)), line)
          /\ Lines(Append(x, e)) = Append(Lines(x), line)
      BY <2>1, <2>7, <3>1, LinesNext
    <3>3. Longer(Joined(Lines(a), Lines(x)), line) = Joined(Lines(a), Longer(Lines(x), line))
      BY <1>0, <2>1, LongerBehind DEF LineSeq
    <3> QED BY <2>1, <2>2, <2>4, <3>2, <3>3 DEF Longer
  <2>8. CASE e # CRLF /\ ~Complete(x)
    <3>1. Lines(x) # << >>
      BY <2>8, LinesOpen
    <3>2. PICK p, q : p = Lines(a) /\ q = Lines(x)
      OBVIOUS
    <3>3. p \in Seq(Texts) /\ q \in Seq(Texts) /\ q # << >>
      BY <1>0, <2>1, <3>1, <3>2 DEF LineSeq
    <3>4. q[Len(q)] \in Texts /\ Append(q[Len(q)], e) \in Texts
      <4>1. q[Len(q)] \in Texts
        BY <3>3
      <4> QED BY <4>1, LinesNext
    <3>5. /\ Joined(p, q) \in Seq(Texts) /\ Joined(p, q)[Len(Joined(p, q))] = q[Len(q)]
      BY <3>3, SMTT(60) DEF Joined
    <3>6. PICK more \in Texts : more = Append(q[Len(q)], e)
      BY <3>4
    <3>7. Lines(Append(Joined(a, x), e)) = WithLast(Joined(p, q), more)
      <4>1. Lines(Append(Joined(a, x), e))
               = [Joined(p, q) EXCEPT ![Len(Joined(p, q))] = Append(@, e)]
        BY <2>1, <2>8, <3>2, LinesNext
      <4> QED BY <3>5, <3>6, <4>1 DEF WithLast
    <3>8. Lines(Append(x, e)) = WithLast(q, more)
      <4>1. Lines(Append(x, e)) = [q EXCEPT ![Len(q)] = Append(@, e)]
        BY <2>8, <3>2, LinesNext
      <4> QED BY <3>6, <4>1 DEF WithLast
    <3>9. WithLast(Joined(p, q), more) = Joined(p, WithLast(q, more))
      BY <3>3, LastGrows
    <3> QED BY <2>1, <2>2, <2>4, <3>2, <3>7, <3>8, <3>9
  <2> QED BY <2>6, <2>7, <2>8
<1>3. Texts \subseteq T
  <2>1. \A x \in Texts, e \in Tokens : x \in T => Append(x, e) \in T
    BY <1>2
  <2> HIDE DEF T
  <2> QED BY <1>1, <2>1, SequenceInduction DEF Texts
<1>4. Lines(Joined(a, b)) = Joined(Lines(a), Lines(b))
  BY <1>3
<1> QED BY <1>4 DEF Joined

(* The lines of a text are as many with a break more at the end. *)
LEMMA LinesOfLine ==
    /\ \A t \in Texts : StatusLine(t) \in Texts /\ Lines(StatusLine(t)) = Lines(t)
                        /\ Complete(StatusLine(t))
    /\ \A a \in Tokens : a # CRLF => Lines(<< a >>) = << << a >> >>
    /\ \A a, b \in Tokens : a # CRLF /\ b # CRLF => Lines(<< a, b >>) = << << a, b >> >>
<1>0. CRLF \in Tokens /\ << >> \in Texts
  BY TokensTyped DEF Texts
<1>1. \A t \in Texts : StatusLine(t) \in Texts /\ Lines(StatusLine(t)) = Lines(t)
  BY <1>0, LinesNext DEF StatusLine
<1>2. \A t \in Texts : Complete(StatusLine(t))
  <2>1. \A t \in Seq(Tokens) : Append(t, CRLF)[Len(Append(t, CRLF))] = CRLF
    BY <1>0, AppendProperties
  <2> QED BY <2>1 DEF StatusLine, Complete, Texts
<1>3. ASSUME NEW a \in Tokens, a # CRLF PROVE Lines(<< a >>) = << << a >> >>
  <2>1. Complete(<< >>) /\ Lines(<< >>) = << >> /\ Append(<< >>, a) = << a >>
    BY <1>0, LinesAppend DEF Complete
  <2>2. Lines(Append(<< >>, a)) = Append(Lines(<< >>), << a >>)
    BY <1>0, <1>3, <2>1, LinesNext
  <2> QED BY <2>1, <2>2
<1>4. ASSUME NEW a \in Tokens, NEW b \in Tokens, a # CRLF, b # CRLF
      PROVE  Lines(<< a, b >>) = << << a, b >> >>
  <2>1. << a >> \in Texts /\ Lines(<< a >>) = << << a >> >>
    BY <1>3, <1>4, TokensTyped
  <2>2. Append(<< a >>, b) = << a, b >>
    <3>1. /\ << a >> \in Seq(Tokens) /\ Len(<< a >>) = 1 /\ << a >>[1] = a
          /\ << a, b >> \in Seq(Tokens) /\ Len(<< a, b >>) = 2
          /\ << a, b >>[1] = a /\ << a, b >>[2] = b
      OBVIOUS
    <3>2. PICK s, t : s = << a >> /\ t = << a, b >>
      OBVIOUS
    <3>3. /\ Append(s, b) \in Seq(Tokens) /\ Len(Append(s, b)) = 2
          /\ Append(s, b)[1] = a /\ Append(s, b)[2] = b
      BY <3>1, <3>2, AppendProperties
    <3>4. \A i \in 1 .. 2 : Append(s, b)[i] = t[i]
      BY <3>1, <3>2, <3>3
    <3> QED BY <3>1, <3>2, <3>3, <3>4, SeqEqual
  <2>3. ~Complete(<< a >>)
    <3>1. << a >> # << >> /\ << a >>[Len(<< a >>)] = a
      OBVIOUS
    <3> QED BY <1>4, <3>1 DEF Complete
  <2>4. Lines(Append(<< a >>, b))
           = [Lines(<< a >>) EXCEPT ![Len(Lines(<< a >>))] = Append(@, b)]
    BY <1>4, <2>1, <2>3, LinesNext
  <2>5. \A l, m : [<< l >> EXCEPT ![Len(<< l >>)] = m] = << m >>
    OBVIOUS
  <2>6. << << a >> >>[Len(<< << a >> >>)] = << a >>
    OBVIOUS
  <2>7. [Lines(<< a >>) EXCEPT ![Len(Lines(<< a >>))] = Append(@, b)]
           = [<< << a >> >> EXCEPT ![Len(<< << a >> >>)] = << a, b >>]
    BY <2>1, <2>2, <2>6
  <2> QED BY <2>2, <2>4, <2>5, <2>7
<1> QED BY <1>1, <1>2, <1>3, <1>4

(* The lines of the status lines, and of the terminator. *)
LEMMA StatusLines ==
    /\ Lines(ArticleFollows) = << ArticleFollows >> /\ Lines(HeadFollows) = << HeadFollows >>
    /\ Lines(NoSuchArticle) = << NoSuchArticle >> /\ Lines(<< Dot >>) = << << Dot >> >>
<1>1. /\ "220 " \in Tokens /\ "221 " \in Tokens /\ "article" \in Tokens /\ "head" \in Tokens
      /\ "430 No such article" \in Tokens /\ Dot \in Tokens
  BY DEF Tokens
<1>2. /\ "220 " # CRLF /\ "221 " # CRLF /\ "article" # CRLF /\ "head" # CRLF
      /\ "430 No such article" # CRLF /\ Dot # CRLF
  BY DEF CRLF, Dot
<1> QED BY <1>1, <1>2, LinesOfLine, Zenon DEF ArticleFollows, HeadFollows, NoSuchArticle

(* The lines of a reply of several lines. *)
LEMMA LinesOfBlock ==
    ASSUME NEW status \in Texts, NEW text \in Texts, Complete(text)
    PROVE  /\ Block(status, text) = StatusLine(status) \o (text \o StatusLine(<< Dot >>))
           /\ text \o StatusLine(<< Dot >>) \in Texts
           /\ Lines(text \o StatusLine(<< Dot >>)) = Append(Lines(text), << Dot >>)
           /\ Lines(Block(status, text)) = (Lines(status) \o Lines(text)) \o << << Dot >> >>
<1> DEFINE back == StatusLine(<< Dot >>)
           front == StatusLine(status)
<1>1. << Dot >> \in Texts
  BY TokensTyped
<1>2. back \in Texts /\ front \in Texts /\ Complete(front) /\ Lines(front) = Lines(status)
  BY <1>1, LinesOfLine
<1>3. Lines(back) = << << Dot >> >>
  BY <1>1, LinesOfLine, StatusLines
<1>4. Block(status, text) = Joined(Joined(front, text), back)
  BY DEF Block, Joined
<1> HIDE DEF back, front
<1>5. Joined(Joined(front, text), back) = Joined(front, Joined(text, back))
  BY <1>2, Associative
<1>6. Joined(text, back) \in Texts /\ Joined(front, Joined(text, back)) \in Texts
  BY <1>2, TokensTyped DEF Joined
<1>7. Lines(Joined(text, back)) = Joined(Lines(text), Lines(back))
  BY <1>2, LinesComplete DEF Joined
<1>8. Lines(Joined(front, Joined(text, back))) = Joined(Lines(front), Lines(Joined(text, back)))
  BY <1>2, <1>6, LinesComplete DEF Joined
<1>9. PICK end : end = << << Dot >> >>
  OBVIOUS
<1>10. Lines(status) \in LineSeq /\ Lines(text) \in LineSeq /\ end \in LineSeq
  BY <1>1, <1>9, LinesKeepWords DEF LineSeq
<1>11. Joined(Joined(Lines(status), Lines(text)), end) = Joined(Lines(status), Joined(Lines(text), end))
  BY <1>10, Regrouped DEF LineSeq
<1>12. Joined(Lines(text), end) = Append(Lines(text), << Dot >>)
  BY <1>1, <1>9, <1>10, AppendIsConcat DEF Joined, LineSeq
<1> QED BY <1>2, <1>3, <1>4, <1>5, <1>6, <1>7, <1>8, <1>9, <1>11, <1>12 DEF Joined, back, front

(* A text that does not start with a break starts its first line. *)
LEMMA FirstToken ==
    ASSUME NEW t \in Texts, t # << >>, t[1] # CRLF
    PROVE  Lines(t) # << >> /\ Lines(t)[1] \in Texts /\ Lines(t)[1][1] = t[1]
<1> DEFINE Good(x) == Lines(x) # << >> /\ Lines(x)[1] # << >> /\ Lines(x)[1][1] = x[1]
           T == {x \in Texts : x # << >> /\ x[1] # CRLF => Good(x)}
<1>1. << >> \in T
  BY DEF Texts
<1>2. ASSUME NEW x \in Texts, NEW e \in Tokens, x \in T PROVE Append(x, e) \in T
  <2> SUFFICES ASSUME Append(x, e)[1] # CRLF PROVE Good(Append(x, e))
    BY LinesNext
  <2>1. Lines(x) \in Seq(Texts) /\ << e >> \in Texts
    BY LinesKeepWords, TokensTyped DEF LineSeq
  <2>2. CASE x = << >>
    <3>1. Append(x, e) = << e >> /\ e # CRLF
      BY <2>2
    <3>2. Lines(Append(x, e)) = << << e >> >>
      BY <3>1, LinesOfLine
    <3> QED BY <3>1, <3>2
  <2>3. CASE x # << >>
    <3>1. x[1] = Append(x, e)[1] /\ x[1] # CRLF
      BY <2>3 DEF Texts
    <3>2. Lines(x) # << >> /\ Lines(x)[1] # << >> /\ Lines(x)[1][1] = x[1]
      BY <1>2, <2>3, <3>1
    <3>3. PICK ls \in Seq(Texts) : ls = Lines(x)
      BY <2>1
    <3>4. Len(ls) \in 1 .. Len(ls) /\ 1 \in 1 .. Len(ls) /\ ls[1] \in Texts /\ ls[Len(ls)] \in Texts
      BY <3>2, <3>3
    <3>5. CASE e = CRLF
      BY <3>1, <3>2, <3>5, LinesNext
    <3>6. CASE e # CRLF /\ Complete(x)
      <4>1. Lines(Append(x, e)) = Append(ls, << e >>)
        BY <3>3, <3>6, LinesNext
      <4>2. Append(ls, << e >>)[1] = ls[1] /\ Append(ls, << e >>) # << >>
        BY <2>1, <3>4, AppendProperties
      <4> QED BY <3>1, <3>2, <3>3, <4>1, <4>2
    <3>7. CASE e # CRLF /\ ~Complete(x)
      <4>1. Lines(Append(x, e)) = [ls EXCEPT ![Len(ls)] = Append(@, e)]
        BY <3>3, <3>7, LinesNext
      <4>2. PICK l \in Seq(Tokens) : l = ls[1]
        BY <3>4 DEF Texts
      <4>3. l # << >> /\ l[1] = x[1]
        BY <3>2, <3>3, <4>2
      <4>4. Append(l, e) # << >> /\ Append(l, e)[1] = l[1]
        BY <4>3
      <4>5. DOMAIN Lines(Append(x, e)) = 1 .. Len(ls)
        BY <4>1
      <4>6. Lines(Append(x, e))[1] = l \/ Lines(Append(x, e))[1] = Append(l, e)
        BY <3>4, <4>1, <4>2
      <4>7. Lines(Append(x, e)) # << >>
        BY <3>4, <4>5
      <4> QED BY <3>1, <4>3, <4>4, <4>6, <4>7
    <3> QED BY <3>5, <3>6, <3>7
  <2> QED BY <2>2, <2>3
<1>3. Texts \subseteq T
  <2>1. \A x \in Texts, e \in Tokens : x \in T => Append(x, e) \in T
    BY <1>2
  <2> HIDE DEF T
  <2> QED BY <1>1, <2>1, SequenceInduction DEF Texts
<1>4. Lines(t) \in Seq(Texts)
  BY LinesKeepWords DEF LineSeq
<1>5. Lines(t) # << >> /\ Lines(t)[1][1] = t[1]
  BY <1>3
<1>6. 1 \in 1 .. Len(Lines(t))
  BY <1>4, <1>5
<1> QED BY <1>4, <1>5, <1>6

--------------------------------------------------------------------------------
(***************************************************************************)
(* What is read, and what it makes processResponse do.                      *)
(***************************************************************************)
(* A status line that is read alone is read whole; the rest stays.           *)
LEMMA StatusAlone ==
    ASSUME NEW status \in Texts, ~Has(status, CRLF), NEW rest \in Texts,
           wire = StatusLine(status) \o rest, NEW n \in 1 .. Len(wire), CleanStatus(n)
    PROVE  Arrived(n) = StatusLine(status) /\ Remaining(n) = rest
<1> DEFINE line == StatusLine(status)
<1>1. /\ line \in Seq(Tokens) /\ status \in Seq(Tokens) /\ rest \in Seq(Tokens)
  BY StatusLineTokens DEF Texts
<1>2. /\ Len(line) = Len(status) + 1 /\ line[Len(status) + 1] = CRLF /\ Len(status) \in Nat
      /\ \A i \in 1 .. Len(status) : line[i] = status[i]
  BY <1>1 DEF StatusLine
<1> HIDE DEF line
<1>3. /\ wire \in Seq(Tokens) /\ Len(wire) = Len(line) + Len(rest) /\ Len(rest) \in Nat
      /\ \A i \in 1 .. Len(line) : wire[i] = line[i]
      /\ \A i \in 1 .. Len(rest) : wire[Len(line) + i] = rest[i]
  BY <1>1 DEF line
<1>4. /\ response = << >> /\ wire[n] = CRLF /\ \A i \in 1 .. n - 1 : wire[i] # CRLF
  BY DEF CleanStatus
<1>5. \A i \in 1 .. Len(status) : status[i] # CRLF
  BY <1>1 DEF Has
<1>6. n = Len(line)
  <2>1. n \in Nat /\ n >= 1 /\ Len(line) \in 1 .. Len(line)
    BY <1>2, <1>3
  <2>2. ~ (n < Len(line))
    <3> SUFFICES ASSUME n < Len(line) PROVE FALSE
      OBVIOUS
    <3>1. n \in 1 .. Len(status) /\ n \in 1 .. Len(line)
      BY <1>2, <2>1
    <3>2. wire[n] = status[n]
      BY <1>2, <1>3, <3>1
    <3> QED BY <1>4, <1>5, <3>1, <3>2
  <2>3. ~ (Len(line) < n)
    <3> SUFFICES ASSUME Len(line) < n PROVE FALSE
      OBVIOUS
    <3>1. Len(line) \in 1 .. n - 1
      BY <2>1
    <3>2. wire[Len(line)] = CRLF
      BY <1>2, <1>3, <2>1
    <3> QED BY <1>4, <3>1, <3>2
  <2> QED BY <1>2, <2>1, <2>2, <2>3
<1>7. SubSeq(wire, 1, n) = line
  <2>1. /\ SubSeq(wire, 1, n) \in Seq(Tokens) /\ Len(SubSeq(wire, 1, n)) = n
        /\ \A i \in 1 .. n : SubSeq(wire, 1, n)[i] = wire[i]
    BY <1>3, <1>6
  <2> QED BY <1>1, <1>3, <1>6, <2>1, SeqEqual
<1>8. SubSeq(wire, n + 1, Len(wire)) = rest
  <2>1. PICK s : s = SubSeq(wire, n + 1, Len(wire))
    OBVIOUS
  <2>2. /\ s \in Seq(Tokens) /\ Len(s) = Len(rest)
        /\ \A i \in 1 .. Len(rest) : s[i] = wire[n + i]
    <3>1. /\ n \in Nat /\ Len(wire) \in Nat /\ Len(rest) \in Nat /\ Len(wire) = n + Len(rest)
          /\ n + 1 \in 1 .. Len(wire) + 1
      BY <1>2, <1>3, <1>6
    <3>2. s \in Seq(Tokens) /\ Len(s) = Len(rest)
      BY <1>3, <2>1, <3>1, SMTT(60)
    <3>3. \A i \in 1 .. Len(s) : s[i] = wire[n + i]
      BY <1>3, <2>1, <3>1, <3>2, SMTT(60)
    <3> QED BY <3>2, <3>3
  <2>3. \A i \in 1 .. Len(rest) : s[i] = rest[i]
    BY <1>3, <1>6, <2>2
  <2> QED BY <1>1, <2>1, <2>2, <2>3, SeqEqual
<1>9. Arrived(n) = SubSeq(wire, 1, n)
  BY <1>1, <1>4, <1>7 DEF Arrived
<1> QED BY <1>7, <1>8, <1>9 DEF Remaining, line

(* The whole of the wire, if there is nothing but the line. *)
LEMMA StatusOnly ==
    ASSUME NEW status \in Texts, ~Has(status, CRLF),
           wire = StatusLine(status), NEW n \in 1 .. Len(wire), CleanStatus(n)
    PROVE  Arrived(n) = StatusLine(status) /\ Remaining(n) = << >>
<1>1. << >> \in Texts /\ StatusLine(status) \in Texts
  BY StatusLineTokens DEF Texts
<1>2. StatusLine(status) \o << >> = StatusLine(status)
  BY <1>1 DEF Texts
<1> QED BY <1>1, <1>2, StatusAlone

(* A read of data divides the lines that are pending, if it ends where the   *)
(* reader assumes: behind a break, or before one.                            *)
LEMMA ReadLines ==
    ASSUME TypeOK, NEW n \in 1 .. Len(wire),
           HasBreak(n) \/ (n < Len(wire) /\ wire[n + 1] = CRLF)
    PROVE  Lines(Pending) = Lines(SplitPrefix(Arrived(n)))
                              \o Lines(SplitRest(Arrived(n)) \o Remaining(n))
<1> DEFINE front == SplitPrefix(Arrived(n))
           back == SplitRest(Arrived(n))
           left == Remaining(n)
<1>1. /\ Arrived(n) \in Texts /\ left \in Texts /\ front \in Texts /\ back \in Texts
      /\ Pending = Joined(Arrived(n), left)
  BY ReadFacts DEF Joined
<1>2. Joined(back, left) \in Texts /\ CRLF \in Tokens
  BY <1>1, TokensTyped DEF Joined
<1>3. CASE Breaks(Arrived(n)) # {}
  <2>1. PICK break \in Texts : break = << CRLF >>
    BY TokensTyped
  <2>2. Arrived(n) = Joined(Joined(front, break), back)
    BY <1>1, <1>3, <2>1, SplitterKeepsText DEF Joined, Texts
  <2>3. Joined(front, break) = StatusLine(front)
    BY <1>1, <1>2, <2>1, AppendIsConcat DEF Joined, StatusLine, Texts
  <2>4. StatusLine(front) \in Texts /\ Lines(StatusLine(front)) = Lines(front) /\ Complete(StatusLine(front))
    BY <1>1, LinesOfLine
  <2> HIDE DEF front, back, left
  <2>5. Pending = Joined(StatusLine(front), Joined(back, left))
    <3>1. Joined(Joined(StatusLine(front), back), left) = Joined(StatusLine(front), Joined(back, left))
      BY <1>1, <2>4, Associative
    <3> QED BY <1>1, <2>2, <2>3, <3>1
  <2>6. Lines(Pending) = Lines(StatusLine(front)) \o Lines(Joined(back, left))
    BY <1>2, <2>4, <2>5, LinesComplete DEF Joined
  <2> QED BY <2>4, <2>6 DEF Joined, front, back, left
<1>4. CASE Breaks(Arrived(n)) = {}
  <2>1. front = Arrived(n) /\ back = << >>
    BY <1>4 DEF SplitPrefix, SplitRest
  <2>2. wire \in Seq(Tokens) /\ response \in Seq(Tokens)
    BY DEF TypeOK, Texts
  <2>3. ~HasBreak(n)
    <3> SUFFICES ASSUME NEW i \in 1 .. n, wire[i] = CRLF PROVE FALSE
      BY DEF HasBreak
    <3>1. /\ SubSeq(wire, 1, n) \in Seq(Tokens) /\ Len(SubSeq(wire, 1, n)) = n
          /\ SubSeq(wire, 1, n)[i] = wire[i]
      BY <2>2
    <3>2. PICK s : s = SubSeq(wire, 1, n)
      OBVIOUS
    <3>3. Len(response) + i \in DOMAIN (response \o s) /\ (response \o s)[Len(response) + i] = CRLF
      BY <2>2, <3>1, <3>2
    <3> QED BY <1>4, <3>2, <3>3 DEF Breaks, Arrived
  <2>4. n < Len(wire) /\ wire[n + 1] = CRLF
    BY <2>3
  <2>5. PICK break, more \in Texts : break = << CRLF >> /\ left = Joined(break, more)
    <3>1. << CRLF >> \in Texts
      BY TokensTyped
    <3>2. PICK more : more = SubSeq(wire, n + 2, Len(wire))
      OBVIOUS
    <3>3. PICK l : l = SubSeq(wire, n + 1, Len(wire))
      OBVIOUS
    <3>4. /\ more \in Seq(Tokens) /\ Len(more) = Len(wire) - n - 1
          /\ \A i \in 1 .. Len(more) : more[i] = wire[n + 1 + i]
      BY <2>2, <2>4, <3>2
    <3>5. /\ l \in Seq(Tokens) /\ Len(l) = Len(wire) - n
          /\ \A i \in 1 .. Len(l) : l[i] = wire[n + i]
      BY <2>2, <2>4, <3>3
    <3>6. PICK j : j = << CRLF >> \o more
      OBVIOUS
    <3>7. /\ j \in Seq(Tokens) /\ Len(j) = Len(more) + 1 /\ j[1] = CRLF
          /\ \A i \in 1 .. Len(more) : j[1 + i] = more[i]
      BY <1>2, <3>4, <3>6
    <3>8. \A i \in 1 .. Len(l) : l[i] = j[i]
      <4> SUFFICES ASSUME NEW i \in 1 .. Len(l) PROVE l[i] = j[i]
        OBVIOUS
      <4>1. CASE i = 1
        BY <2>4, <3>5, <3>7, <4>1
      <4>2. CASE i # 1
        <5>1. i - 1 \in 1 .. Len(more) /\ 1 + (i - 1) = i /\ n + 1 + (i - 1) = n + i
          BY <2>2, <3>4, <3>5, <4>2
        <5> QED BY <3>4, <3>5, <3>7, <5>1, ZenonT(60)
      <4> QED BY <4>1, <4>2
    <3>9. Len(l) = Len(j)
      BY <2>2, <3>4, <3>5, <3>7
    <3>10. l = j
      BY <3>5, <3>7, <3>8, <3>9, SeqEqual
    <3> QED BY <3>1, <3>3, <3>4, <3>6, <3>10 DEF Joined, Remaining, Texts
  <2> HIDE DEF front, back, left
  <2>6. /\ Complete(break) /\ Lines(break) = << >>
    <3>1. << >> \in Texts /\ break = StatusLine(<< >>)
      BY <2>5 DEF StatusLine, Texts
    <3>2. Lines(<< >>) = << >>
      BY <3>1, <1>2, LinesAppend
    <3> QED BY <3>1, <3>2, LinesOfLine
  <2>7. Lines(left) = Lines(more)
    <3>1. Lines(left) = Lines(break) \o Lines(more)
      BY <2>5, <2>6, LinesComplete DEF Joined
    <3>2. Lines(more) \in Seq(Texts)
      BY LinesKeepWords DEF LineSeq
    <3> QED BY <2>6, <3>1, <3>2
  <2>8. Joined(front, break) = StatusLine(front)
    BY <1>1, <1>2, <2>5, AppendIsConcat DEF Joined, StatusLine, Texts
  <2>9. Pending = Joined(StatusLine(front), more)
    <3>1. Joined(Joined(front, break), more) = Joined(front, Joined(break, more))
      BY <1>1, Associative
    <3> QED BY <1>1, <2>1, <2>5, <2>8, <3>1
  <2>10. Lines(Pending) = Lines(StatusLine(front)) \o Lines(more)
    <3>1. StatusLine(front) \in Texts /\ Complete(StatusLine(front))
      BY <1>1, LinesOfLine
    <3> QED BY <2>9, <3>1, LinesComplete DEF Joined
  <2>11. Lines(StatusLine(front)) = Lines(front) /\ Joined(back, left) = left
    <3>1. << >> \o left = left
      BY <1>1 DEF Texts
    <3> QED BY <1>1, <2>1, <3>1, LinesOfLine DEF Joined
  <2> QED BY <2>7, <2>10, <2>11 DEF Joined, front, back, left
<1> QED BY <1>3, <1>4

(* A status line starts with its status. *)
LEMMA StatusLineStarts ==
    ASSUME NEW status \in Texts, status # << >>
    PROVE  /\ StatusLine(status) \in Texts /\ StartsWith(StatusLine(status), status)
           /\ 1 \in DOMAIN StatusLine(status) /\ StatusLine(status)[1] = status[1]
<1>1. CRLF \in Tokens /\ status \in Seq(Tokens)
  BY TokensTyped DEF Texts
<1>2. PICK line : line = StatusLine(status)
  OBVIOUS
<1>3. /\ line \in Seq(Tokens) /\ Len(status) \in Nat /\ Len(status) >= 1
      /\ Len(line) = Len(status) + 1 /\ \A i \in 1 .. Len(status) : line[i] = status[i]
  BY <1>1, <1>2, AppendProperties DEF StatusLine
<1>4. SubSeq(status, 1, Len(status)) = SubSeq(line, 1, Len(status))
  <2>1. PICK s, t : s = SubSeq(status, 1, Len(status)) /\ t = SubSeq(line, 1, Len(status))
    OBVIOUS
  <2>2. /\ s \in Seq(Tokens) /\ Len(s) = Len(status) /\ \A i \in 1 .. Len(status) : s[i] = status[i]
    BY <1>1, <1>3, <2>1
  <2>3. /\ t \in Seq(Tokens) /\ Len(t) = Len(status) /\ \A i \in 1 .. Len(status) : t[i] = line[i]
    BY <1>1, <1>3, <2>1
  <2> QED BY <1>3, <2>1, <2>2, <2>3, SeqEqual
<1>5. Len(status) <= Len(line) /\ 1 \in DOMAIN line /\ line[1] = status[1]
  BY <1>1, <1>3
<1> QED BY <1>2, <1>3, <1>4, <1>5 DEF StartsWith, IsPrefix, Texts

(* Which status processResponse has found, and by which first word. *)
LEMMA ResponseWord ==
    ASSUME NEW buffer \in Texts, ProcessResponse(buffer)
    PROVE  \/ OnWelcome(buffer) /\ buffer[1] = "200 Welcome"
           \/ OnDone(buffer) /\ buffer[1] = Dot
           \/ OnPassRequired(buffer) /\ buffer[1] = "381 PASS required"
           \/ OnConnected(buffer) /\ buffer[1] = "281 Welcome"
           \/ OnFailed(buffer) /\ buffer[1] = "502 Authentication Failed"
           \/ OnGoodbye(buffer) /\ buffer[1] = "205 Goodbye"
           \/ OnResultsFollow(buffer) /\ buffer[1] \in {"215 NewsGroups Follow", "211 "}
           \/ OnGroupSelected(buffer) /\ buffer[1] = "211 "
           \/ OnUnrecognised(buffer)
<1>1. /\ Welcome[1] = "200 Welcome" /\ PassRequired[1] = "381 PASS required"
      /\ Granted[1] = "281 Welcome" /\ Failed[1] = "502 Authentication Failed"
      /\ Goodbye[1] = "205 Goodbye" /\ GroupsFollow[1] = "215 NewsGroups Follow"
      /\ NumbersFollow[1] = "211 " /\ GroupSelected[1] = "211 "
  BY DEF Welcome, PassRequired, Granted, Failed, Goodbye, GroupsFollow, NumbersFollow,
     GroupSelected
<1>2. \A status \in {Welcome, PassRequired, Granted, Failed, Goodbye, GroupsFollow,
                     NumbersFollow, GroupSelected} :
         StartsWith(buffer, status) => buffer[1] = status[1]
  BY FirstWord
<1>3. OnWelcome(buffer) => buffer[1] = Welcome[1]
  BY <1>2 DEF OnWelcome
<1>4. OnPassRequired(buffer) => buffer[1] = PassRequired[1]
  BY <1>2 DEF OnPassRequired
<1>5. OnConnected(buffer) => buffer[1] = Granted[1]
  BY <1>2 DEF OnConnected
<1>6. OnFailed(buffer) => buffer[1] = Failed[1]
  BY <1>2 DEF OnFailed
<1>7. OnGoodbye(buffer) => buffer[1] = Goodbye[1]
  BY <1>2 DEF OnGoodbye
<1>8. OnResultsFollow(buffer) => buffer[1] \in {GroupsFollow[1], NumbersFollow[1]}
  BY <1>2 DEF OnResultsFollow
<1>9. OnGroupSelected(buffer) => buffer[1] = GroupSelected[1]
  BY <1>2 DEF OnGroupSelected
<1>10. OnDone(buffer) => buffer[1] = Dot
  BY DEF OnDone
<1> QED BY <1>1, <1>3, <1>4, <1>5, <1>6, <1>7, <1>8, <1>9, <1>10, Zenon DEF ProcessResponse

(* What each status line makes it do. *)
LEMMA Reactions ==
    ASSUME NEW status \in Texts, ProcessResponse(StatusLine(status))
    PROVE  /\ status = Welcome => OnWelcome(StatusLine(status))
           /\ status = PassRequired => OnPassRequired(StatusLine(status))
           /\ status = Granted => OnConnected(StatusLine(status))
           /\ status = Failed => OnFailed(StatusLine(status))
           /\ status = Goodbye => OnGoodbye(StatusLine(status))
           /\ status \in {GroupsFollow, NumbersFollow} => OnResultsFollow(StatusLine(status))
           /\ status = NoSuchGroup => OnUnrecognised(StatusLine(status))
<1> DEFINE buffer == StatusLine(status)
<1>1. buffer \in Texts
  BY StatusLineTokens
<1>2. \A a, b : << a >> # << >> /\ << a, b >> # << >> /\ << a >>[1] = a /\ << a, b >>[1] = a
  OBVIOUS
<1>3. status # << >> => StartsWith(buffer, status) /\ buffer[1] = status[1]
  BY StatusLineStarts
<1> HIDE DEF buffer
<1>4. \/ OnWelcome(buffer) /\ buffer[1] = "200 Welcome"
      \/ OnDone(buffer) /\ buffer[1] = Dot
      \/ OnPassRequired(buffer) /\ buffer[1] = "381 PASS required"
      \/ OnConnected(buffer) /\ buffer[1] = "281 Welcome"
      \/ OnFailed(buffer) /\ buffer[1] = "502 Authentication Failed"
      \/ OnGoodbye(buffer) /\ buffer[1] = "205 Goodbye"
      \/ OnResultsFollow(buffer) /\ buffer[1] \in {"215 NewsGroups Follow", "211 "}
      \/ OnGroupSelected(buffer) /\ buffer[1] = "211 "
      \/ OnUnrecognised(buffer)
  BY <1>1, ResponseWord DEF buffer
<1>5. \A s \in {Welcome, PassRequired, Granted, Failed, Goodbye, GroupsFollow, GroupSelected} :
         StartsWith(buffer, s) => ~OnUnrecognised(buffer)
  BY DEF OnUnrecognised, Recognised, LooksLikeStatus
<1>6. Dot = "."
  BY DEF Dot
<1>7. CASE status = Welcome
  <2>1. buffer[1] = "200 Welcome" /\ ~OnUnrecognised(buffer)
    BY <1>2, <1>3, <1>5, <1>7 DEF Welcome
  <2>2. OnWelcome(buffer)
    BY <1>4, <1>6, <2>1
  <2> QED BY <1>7, <2>1, <2>2 DEF buffer, Welcome, PassRequired, Granted, Failed, Goodbye,
      GroupsFollow, NumbersFollow, NoSuchGroup
<1>8. CASE status = PassRequired
  <2>1. buffer[1] = "381 PASS required" /\ ~OnUnrecognised(buffer)
    BY <1>2, <1>3, <1>5, <1>8 DEF PassRequired
  <2>2. OnPassRequired(buffer)
    BY <1>4, <1>6, <2>1
  <2> QED BY <1>8, <2>1, <2>2 DEF buffer, Welcome, PassRequired, Granted, Failed, Goodbye,
      GroupsFollow, NumbersFollow, NoSuchGroup
<1>9. CASE status = Granted
  <2>1. buffer[1] = "281 Welcome" /\ ~OnUnrecognised(buffer)
    BY <1>2, <1>3, <1>5, <1>9 DEF Granted
  <2>2. OnConnected(buffer)
    BY <1>4, <1>6, <2>1
  <2> QED BY <1>9, <2>1, <2>2 DEF buffer, Welcome, PassRequired, Granted, Failed, Goodbye,
      GroupsFollow, NumbersFollow, NoSuchGroup
<1>10. CASE status = Failed
  <2>1. buffer[1] = "502 Authentication Failed" /\ ~OnUnrecognised(buffer)
    BY <1>2, <1>3, <1>5, <1>10 DEF Failed
  <2>2. OnFailed(buffer)
    BY <1>4, <1>6, <2>1
  <2> QED BY <1>10, <2>1, <2>2 DEF buffer, Welcome, PassRequired, Granted, Failed, Goodbye,
      GroupsFollow, NumbersFollow, NoSuchGroup
<1>11. CASE status = Goodbye
  <2>1. buffer[1] = "205 Goodbye" /\ ~OnUnrecognised(buffer)
    BY <1>2, <1>3, <1>5, <1>11 DEF Goodbye
  <2>2. OnGoodbye(buffer)
    BY <1>4, <1>6, <2>1
  <2> QED BY <1>11, <2>1, <2>2 DEF buffer, Welcome, PassRequired, Granted, Failed, Goodbye,
      GroupsFollow, NumbersFollow, NoSuchGroup
<1>12. CASE status = GroupsFollow
  <2>1. status # << >>
    BY <1>2, <1>12 DEF GroupsFollow
  <2>2. OnResultsFollow(buffer)
    BY <1>1, <1>3, <1>12, <2>1, Announced DEF buffer
  <2> QED BY <1>12, <2>2 DEF buffer, Welcome, PassRequired, Granted, Failed, Goodbye,
      GroupsFollow, NumbersFollow, NoSuchGroup
<1>13. CASE status = NumbersFollow
  <2>1. status # << >> /\ status[1] = "211 " /\ status[2] = "Article Numbers Follow"
    BY <1>2, <1>13 DEF NumbersFollow
  <2>2. OnResultsFollow(buffer)
    BY <1>1, <1>3, <1>13, <2>1, Announced DEF buffer
  <2>3. status[1] \notin {Welcome[1], PassRequired[1], Granted[1], Failed[1], Goodbye[1],
                         NoSuchGroup[1]}
    BY <2>1 DEF Welcome, PassRequired, Granted, Failed, Goodbye, NoSuchGroup
  <2> QED BY <1>13, <2>2, <2>3 DEF buffer
<1>14. CASE status = NoSuchGroup
  <2>1. buffer[1] = "411 No such group"
    BY <1>2, <1>3, <1>14 DEF NoSuchGroup
  <2>2. OnUnrecognised(buffer)
    BY <1>4, <1>6, <2>1
  <2> QED BY <1>14, <2>2 DEF buffer, Welcome, PassRequired, Granted, Failed, Goodbye,
      GroupsFollow, NumbersFollow, NoSuchGroup
<1> QED BY <1>7, <1>8, <1>9, <1>10, <1>11, <1>12, <1>13, <1>14 DEF buffer

(* To start with a text is to agree with it in all its positions. *)
LEMMA StartsPointwise ==
    ASSUME NEW S, NEW s \in Seq(S), NEW t \in Seq(S)
    PROVE  StartsWith(t, s) <=> Len(s) <= Len(t) /\ \A i \in 1 .. Len(s) : t[i] = s[i]
<1> DEFINE m == Len(s)
           p == SubSeq(s, 1, m)
           q == SubSeq(t, 1, m)
<1>1. ASSUME m <= Len(t) PROVE p = q <=> \A i \in 1 .. m : t[i] = s[i]
  <2>1. m \in Nat /\ p \in Seq(S) /\ Len(p) = m /\ \A i \in 1 .. m : p[i] = s[i]
    OBVIOUS
  <2>2. q \in Seq(S) /\ Len(q) = m /\ \A i \in 1 .. m : q[i] = t[i]
    BY <1>1
  <2> HIDE DEF p, q, m
  <2>3. (\A i \in 1 .. m : t[i] = s[i]) => p = q
    BY <2>1, <2>2, SeqEqual
  <2>4. p = q => \A i \in 1 .. m : t[i] = s[i]
    BY <2>1, <2>2
  <2> QED BY <2>3, <2>4
<1> QED BY <1>1 DEF StartsWith, IsPrefix

(* The group's range makes it send the request that waits for the group. *)
LEMMA RangeReaction ==
    ASSUME ProcessResponse(StatusLine(GroupRange))
    PROVE  OnGroupSelected(StatusLine(GroupRange))
<1>1. PICK buffer, range, selected, numbers :
         /\ buffer = StatusLine(GroupRange) /\ range = GroupRange
         /\ selected = GroupSelected /\ numbers = NumbersFollow
  OBVIOUS
<1>2. /\ range # << >> /\ Len(range) = 2 /\ Len(selected) = 1 /\ Len(numbers) = 2
      /\ range[1] = selected[1] /\ range[2] # numbers[2]
  BY <1>1 DEF GroupRange, GroupSelected, NumbersFollow
<1>3. /\ buffer \in Seq(Tokens) /\ range \in Seq(Tokens)
      /\ selected \in Seq(Tokens) /\ numbers \in Seq(Tokens) /\ StartsWith(buffer, range)
  BY <1>1, <1>2, StatusLineStarts, StatusTexts DEF Texts
<1>4. 2 <= Len(buffer) /\ buffer[1] = range[1] /\ buffer[2] = range[2]
  <2>1. Len(range) <= Len(buffer) /\ \A i \in 1 .. Len(range) : buffer[i] = range[i]
    BY <1>3, StartsPointwise
  <2> QED BY <1>2, <2>1
<1>5. StartsWith(buffer, selected)
  <2>1. Len(selected) <= Len(buffer) /\ \A i \in 1 .. Len(selected) : buffer[i] = selected[i]
    BY <1>2, <1>3, <1>4
  <2> QED BY <1>3, <2>1, StartsPointwise
<1>6. ~StartsWith(buffer, numbers)
  <2>1. 2 \in 1 .. Len(numbers) /\ buffer[2] # numbers[2]
    BY <1>2, <1>4
  <2> QED BY <1>3, <2>1, StartsPointwise
<1>7. ~StartsWith(buffer, GroupsFollow)
  <2>1. buffer[1] # GroupsFollow[1] /\ buffer \in Texts
    BY <1>1, <1>3, <1>4 DEF GroupsFollow, GroupRange, Texts
  <2> QED BY <2>1, FirstWord
<1>8. ~OnUnrecognised(buffer) /\ ~OnResultsFollow(buffer)
  BY <1>1, <1>5, <1>6, <1>7 DEF OnUnrecognised, Recognised, LooksLikeStatus, OnResultsFollow
<1>9. buffer[1] = "211 " /\ Dot = "."
  BY <1>1, <1>4 DEF Dot, GroupRange
<1>10. buffer \in Texts
  BY <1>3 DEF Texts
<1>11. OnGroupSelected(buffer)
  BY <1>1, <1>8, <1>9, <1>10, ResponseWord
<1> QED BY <1>1, <1>11

(* What does not look like a status line is kept, and may be the terminator. *)
LEMMA NoReaction ==
    ASSUME NEW buffer \in Texts, ~LooksLikeStatus(buffer), ProcessResponse(buffer)
    PROVE  OnDone(buffer) \/ OnUnrecognised(buffer)
<1>1. ~StartsWith(buffer, NumbersFollow)
  BY SelectedToo DEF LooksLikeStatus
<1> QED BY <1>1 DEF ProcessResponse, LooksLikeStatus, OnWelcome, OnPassRequired, OnConnected,
    OnFailed, OnGoodbye, OnResultsFollow, OnGroupSelected

--------------------------------------------------------------------------------
(***************************************************************************)
(* With orderly reads a connection is a Retrieval of what the server has.   *)
(* How far it has got: the login, the request that opens the results, the   *)
(* results of each command, and the good-bye.                               *)
(***************************************************************************)
(* What opens the results, and what the server answers unless it refuses.    *)
Opening ==
    CASE command = "ListGroups" -> List
      [] command = "ListGroupArticles" -> ListGroup
      [] OTHER -> Group

Answered ==
    CASE command = "ListGroups" -> Block(GroupsFollow, Listing)
      [] command = "ListGroupArticles" -> Block(NumbersFollow, Listing)
      [] OTHER -> StatusLine(GroupRange)

(* The request that waits for the group to be selected. *)
First == IF command = "ArticleHeader" THEN HeadReq(Ids[1]) ELSE ArticleReq(Ids[1])

Between(status, request) ==
    \/ wire = StatusLine(status) /\ requests = << >>
    \/ wire = << >> /\ requests = << request >>

(* The server speaks and the reader answers, until the server has decided. *)
LoginStage ==
    /\ ~connected /\ response = << >> /\ (Refused <=> session = "refused")
    /\ \/ session = "silent" /\ wire = << >> /\ requests = << >>
       \/ session = "greeted" /\ Between(Welcome, User)
       \/ session = "named" /\ Between(PassRequired, Pass)
       \/ session = "refused" /\ wire \in {<< >>, StatusLine(Failed)} /\ requests = << >>
       \/ session = "authorised" /\ wire = StatusLine(Granted) /\ requests = << >>

(* The refusal of a group is no status line the reader knows: it is kept.    *)
OpeningStage ==
    /\ connected /\ session = "authorised" /\ currentOperation = command
    /\ command \in {"ArticleHeader", "Article"} => currentGroupCommand = First
    /\ command = "Article" => articleId = Ids[1]
    /\ \/ requests = << Opening >> /\ wire = << >> /\ response = << >> /\ ~Refused
       \/ requests = << >> /\ wire = Answered /\ response = << >> /\ ~Refused
       \/ requests = << >> /\ wire = StatusLine(NoSuchGroup) /\ response = << >> /\ Refused
       \/ requests = << >> /\ wire = << >> /\ response = StatusLine(NoSuchGroup) /\ Refused

(* A list ends with the first line that begins with a dot. *)
EndsList(lines) ==
    /\ lines # << >> /\ lines[Len(lines)] = << Dot >>
    /\ \A i \in 1 .. Len(lines) - 1 : lines[i][1] # Dot

(* What the delegate makes of the lines of a list. *)
Sieve(lines) ==
    LET entries == Without(lines, {<< Dot >>})
    IN  IF command = "ListGroups" THEN Within(entries, GroupLines) ELSE entries

(* What has been delivered of a list and what is pending are the list. *)
ListStage ==
    /\ ~Refused /\ requests = << >>
    /\ EndsList(Lines(Pending))
    /\ Wanted = Delivered \o Sieve(Lines(Pending))

(* What has been gathered of an article and what is pending are the article, *)
(* or its refusal.                                                           *)
ArticleStage ==
    /\ calls = << >> /\ articleId = Ids[1]
    /\ Complete(article) /\ ~Recognised(response)
    /\ \/ requests = << ArticleReq(Ids[1]) >> /\ Pending = << >> /\ article = << >> /\ ~Refused
       \/ requests = << >> /\ ~Refused /\ Lines(article) \o Lines(Pending) = WholeArticle(Ids[1])
       \/ requests = << >> /\ Refused /\ Lines(article) \o Lines(Pending) = << NoSuchArticle >>

(* A header is asked for, or its reply is pending as a whole. *)
HeaderStage ==
    /\ ~Refused /\ response = << >>
    /\ \A k \in DOMAIN calls : Answer(k) = Wanted[k]
    /\ \/ requests = << HeadReq(Ids[idx]) >> /\ wire = << >>
       \/ requests = << >> /\ wire \in Replies(HeadReq(Ids[idx]))

LeftStage ==
    /\ calls = << >> /\ ~resultsComing /\ streams = "open"
    /\ wire \in {<< >>, StatusLine(Goodbye)}

OpenStage == ~resultsComing /\ calls = << >> /\ article = << >> /\ (LoginStage \/ OpeningStage)

ResultStage ==
    /\ resultsComing /\ session = "authorised" /\ currentOperation = command
    /\ command \in {"ListGroups", "ListGroupArticles"} => ListStage
    /\ command = "Article" => ArticleStage
    /\ command = "ArticleHeader" => HeaderStage

Stage ==
    streams # "closed" =>
     /\ orderly
     /\ IF session = "over" THEN LeftStage ELSE OpenStage \/ ResultStage

(***************************************************************************)
(* The steps of a Retrieval that a connection takes.                        *)
(***************************************************************************)
Promised == [Promise!Next]_(Promise!retrieval)

(* What is wanted depends on the command alone. *)
LEMMA WantedStays == ASSUME command' = command PROVE Wanted' = Wanted
BY DEF Wanted, WantedEntries

(* What has been handed over depends on the command and the calls. *)
LEMMA ResultStays ==
    ASSUME command' = command, calls' = calls
    PROVE  Result' = Result /\ Delivered' = Delivered /\ \A k : Answer(k)' = Answer(k)
<1>1. Wanted' = Wanted
  BY WantedStays
<1>2. Delivered' = Delivered
  BY DEF Delivered, Parsed
<1>3. \A k : Answer(k)' = Answer(k)
  BY <1>1 DEF Answer, Parsed
<1> QED BY <1>2, <1>3 DEF Result

(* Nothing that the command can see has changed. *)
LEMMA PromiseStutters ==
    ASSUME UNCHANGED << command, calls, session >>, Refused' = Refused,
           streams' = "closed" <=> streams = "closed"
    PROVE  Promised
<1>1. Wanted' = Wanted /\ Result' = Result
  BY WantedStays, ResultStays
<1>2. Standing' = Standing
  BY DEF Standing
<1> QED BY <1>1, <1>2 DEF Promised, Promise!retrieval

(* Whether the server's words so far refuse the command. *)
Denied ==
    Has(served, NoSuchGroup[1]) \/ (command = "Article" /\ Has(served, NoSuchArticle[1]))

(* A command is refused by the end of its session or by a refusal that the
   server has written. *)
LEMMA DeniedIsRefused ==
    ASSUME served \in Texts
    PROVE  Refused <=> session = "refused" \/ Denied
BY DEF Refused, Denied, Contains, Has, Texts

(* More words refuse it only if a refusal is among them. *)
LEMMA DeniedMore ==
    ASSUME served \in Texts, NEW text \in Texts, served' = served \o text, command' = command
    PROVE  /\ Refused' <=> session' = "refused" \/ Denied'
           /\ Denied' <=> \/ Denied
                          \/ Has(text, NoSuchGroup[1])
                          \/ command = "Article" /\ Has(text, NoSuchArticle[1])
<1>1. served' \in Texts
  BY TokensTyped
<1>2. Refused' <=> session' = "refused" \/ Denied'
  <2>1. \A t \in Texts : \A e : Contains(t, e) <=> Has(t, e)
    BY DEF Contains, Has, Texts
  <2>2. /\ Contains(served', NoSuchGroup[1]) <=> Has(served', NoSuchGroup[1])
        /\ Contains(served', NoSuchArticle[1]) <=> Has(served', NoSuchArticle[1])
    BY <1>1, <2>1
  <2> QED BY <2>2 DEF Refused, Denied
<1>3. \A token : Has(served', token) <=> Has(served, token) \/ Has(text, token)
  <2>1. \A token : Has(served', token) => Has(served, token) \/ Has(text, token)
    BY HasConcat DEF Texts
  <2>2. \A token : Has(served, token) \/ Has(text, token) => Has(served', token)
    <3> SUFFICES ASSUME NEW token PROVE Has(served, token) \/ Has(text, token) => Has(served', token)
      OBVIOUS
    <3>1. /\ DOMAIN served = 1 .. Len(served) /\ DOMAIN text = 1 .. Len(text)
          /\ DOMAIN served' = 1 .. Len(served) + Len(text) /\ Len(served) \in Nat /\ Len(text) \in Nat
          /\ \A i \in 1 .. Len(served) : served'[i] = served[i]
          /\ \A i \in 1 .. Len(text) : served'[Len(served) + i] = text[i]
      BY DEF Texts
    <3>2. ASSUME NEW i \in DOMAIN served, served[i] = token PROVE Has(served', token)
      BY <3>1, <3>2 DEF Has
    <3>3. ASSUME NEW i \in DOMAIN text, text[i] = token PROVE Has(served', token)
      <4>1. Len(served) + i \in DOMAIN served'
        BY <3>1
      <4> QED BY <3>1, <3>3, <4>1 DEF Has
    <3> QED BY <3>2, <3>3 DEF Has
  <2> QED BY <2>1, <2>2
<1>4. (Denied <=> Has(served, NoSuchGroup[1]) \/ (command = "Article" /\ Has(served, NoSuchArticle[1])))
  BY DEF Denied
<1>5. (Denied' <=> Has(served', NoSuchGroup[1]) \/ (command = "Article" /\ Has(served', NoSuchArticle[1])))
  BY DEF Denied, Has
<1> QED BY <1>2, <1>3, <1>4, <1>5, Zenon

(* More of what is wanted is handed over; perhaps that is the rest of it. *)
LEMMA PromiseDelivers ==
    ASSUME NEW S, Wanted \in Seq(S), Result = SubSeq(Wanted, 1, Len(Result)),
           NEW n \in Len(Result) .. Len(Wanted), Len(Result) \in Nat,
           Result' = SubSeq(Wanted, 1, n),
           UNCHANGED << command, session >>, Refused' = Refused,
           streams # "closed", session = "over" \/ ~Refused,
           streams' = "closed" => session = "over" \/ n = Len(Wanted)
    PROVE  Promised
<1>1. Wanted' = Wanted /\ Standing' = Standing
  BY WantedStays DEF Standing
<1>2. Standing # "refuses" /\ (Standing = "gone" <=> session = "over")
  BY DEF Standing
<1>3. (streams' = "closed") \in {FALSE, Standing = "gone" \/ n = Len(Wanted)}
  BY <1>2
<1>4. Promise!Deliver
  BY <1>1, <1>2, <1>3 DEF Promise!Deliver
<1> QED BY <1>4 DEF Promised, Promise!Next

(* The server refuses. *)
LEMMA PromiseRefused ==
    ASSUME UNCHANGED << command, calls, streams >>, streams # "closed",
           session # "over", session' # "over", ~Refused, Refused'
    PROVE  Promised
<1>1. Wanted' = Wanted /\ Result' = Result
  BY WantedStays, ResultStays
<1>2. Standing = "serves" /\ Standing' = "refuses"
  BY DEF Standing
<1> QED BY <1>1, <1>2 DEF Promised, Promise!Next, Promise!Refuse

(* The server hangs up. *)
LEMMA PromiseHungUp ==
    ASSUME UNCHANGED << command, calls, streams >>, session # "over", session' = "over"
    PROVE  Promised
<1>1. Wanted' = Wanted /\ Result' = Result
  BY WantedStays, ResultStays
<1>2. Standing # "gone" /\ Standing' = "gone"
  BY DEF Standing
<1> QED BY <1>1, <1>2 DEF Promised, Promise!Next, Promise!HangUp

(* Without calls nothing has been handed over. *)
LEMMA NothingDelivered == ASSUME calls = << >> PROVE Result = << >> /\ Delivered = << >>
<1>1. Delivered = << >>
  <2>1. [k \in DOMAIN calls |-> Parsed(calls[k].text)] = << >>
    OBVIOUS
  <2>2. << >> \in Seq(Seq({})) /\ << >> \in Seq({})
    OBVIOUS
  <2>3. FlattenSeq(<< >>) = << >>
    BY <2>2, FlattenAppend
  <2> QED BY <2>1, <2>3 DEF Delivered
<1>2. [k \in DOMAIN calls |-> Answer(k)] = << >>
  OBVIOUS
<1> QED BY <1>1, <1>2 DEF Result

(* Leaving out what does not occur leaves everything. *)
LEMMA WithoutNone ==
    ASSUME NEW S, NEW X, NEW s \in Seq(S), \A i \in DOMAIN s : s[i] \notin X
    PROVE  Without(s, X) = s
<1> DEFINE T == {x \in Seq(S) : (\A i \in DOMAIN x : x[i] \notin X) => Without(x, X) = x}
<1>1. << >> \in T
  <2>1. << >> \in Seq(S)
    OBVIOUS
  <2>2. Without(<< >>, X) = Within(<< >>, S \ X)
    BY <2>1, WithoutIsWithin
  <2>3. Within(<< >>, S \ X) = << >>
    BY WithinEmpty
  <2> QED BY <2>1, <2>2, <2>3
<1>2. ASSUME NEW x \in Seq(S), NEW e \in S, x \in T PROVE Append(x, e) \in T
  <2> SUFFICES ASSUME \A i \in DOMAIN Append(x, e) : Append(x, e)[i] \notin X
               PROVE  Without(Append(x, e), X) = Append(x, e)
    BY AppendProperties
  <2>1. e \notin X /\ \A i \in DOMAIN x : x[i] \notin X
    <3>1. /\ Len(Append(x, e)) = Len(x) + 1 /\ Append(x, e)[Len(x) + 1] = e
          /\ \A i \in 1 .. Len(x) : Append(x, e)[i] = x[i]
          /\ DOMAIN Append(x, e) = 1 .. Len(x) + 1 /\ DOMAIN x = 1 .. Len(x) /\ Len(x) \in Nat
      OBVIOUS
    <3> QED BY <3>1
  <2>2. Without(x, X) = x
    BY <1>2, <2>1
  <2>3. Without(Append(x, e), X) = Append(Without(x, X), e)
    BY <2>1, WithoutAppend
  <2> QED BY <2>2, <2>3
<1>3. Seq(S) \subseteq T
  <2> HIDE DEF T
  <2> QED BY <1>1, <1>2, SequenceInduction
<1> QED BY <1>3

(* Lines are sifted one after the other. *)
LEMMA SieveConcat ==
    ASSUME NEW a \in LineSeq, NEW b \in LineSeq
    PROVE  Sieve(a) \in LineSeq /\ Sieve(a \o b) = Sieve(a) \o Sieve(b)
<1> DEFINE Rest(lines) == Without(lines, {<< Dot >>})
<1>1. Rest(a) \in LineSeq /\ Rest(b) \in LineSeq /\ Rest(a \o b) = Rest(a) \o Rest(b)
  <2>1. \A s \in Seq(Texts) : \A X : Without(s, X) \in Seq(Texts)
    BY WithoutType
  <2>2. \A s, t \in Seq(Texts) : \A X : Without(s \o t, X) = Without(s, X) \o Without(t, X)
    BY WithoutConcat
  <2> QED BY <2>1, <2>2, ZenonT(60) DEF LineSeq
<1>2. /\ Within(Rest(a), GroupLines) \in LineSeq
      /\ Within(Rest(a) \o Rest(b), GroupLines)
           = Within(Rest(a), GroupLines) \o Within(Rest(b), GroupLines)
  <2>1. \A s \in Seq(Texts) : \A X : Within(s, X) \in Seq(Texts)
    BY WithinType
  <2>2. \A s, t \in Seq(Texts) : \A X : Within(s \o t, X) = Within(s, X) \o Within(t, X)
    BY WithinConcat
  <2> HIDE DEF Rest
  <2> QED BY <1>1, <2>1, <2>2, ZenonT(60) DEF LineSeq
<1> QED BY <1>1, <1>2, Zenon DEF Sieve

(* No lines are sifted into none, nor is the terminator. *)
LEMMA SieveNone == Sieve(<< >>) = << >> /\ Sieve(<< << Dot >> >>) = << >>
<1>1. << >> \in LineSeq /\ << Dot >> \in Texts
  BY TokensTyped DEF LineSeq
<1>2. PICK dot : dot = << Dot >>
  OBVIOUS
<1>3. Without(<< >>, {dot}) = << >> /\ Without(Append(<< >>, dot), {dot}) = Without(<< >>, {dot})
  BY <1>1, <1>2, WithoutAppend, ZenonT(60) DEF LineSeq
<1>4. Append(<< >>, dot) = << dot >>
  OBVIOUS
<1>5. Within(<< >>, GroupLines) = << >>
  BY WithinEmpty
<1> QED BY <1>2, <1>3, <1>4, <1>5 DEF Sieve

(* A list that is cut ends before or behind the cut. *)
LEMMA ListCut ==
    ASSUME NEW a \in LineSeq, NEW b \in LineSeq, EndsList(a \o b)
    PROVE  IF << Dot >> \in ToSet(a) THEN b = << >> ELSE EndsList(b)
<1>1. PICK c : c = a \o b
  OBVIOUS
<1>2. PICK dot : dot = << Dot >>
  OBVIOUS
<1>3. /\ Len(a) \in Nat /\ Len(b) \in Nat /\ Len(c) = Len(a) + Len(b)
      /\ \A i \in 1 .. Len(a) : c[i] = a[i]
      /\ \A i \in 1 .. Len(b) : c[Len(a) + i] = b[i]
  BY <1>1 DEF LineSeq
<1>4. c # << >> /\ c[Len(c)] = dot /\ \A i \in 1 .. Len(c) - 1 : c[i][1] # Dot
  BY <1>1, <1>2 DEF EndsList
<1>5. dot[1] = Dot
  BY <1>2
<1>6. ASSUME dot \in ToSet(a) PROVE b = << >>
  <2>1. PICK i \in 1 .. Len(a) : a[i] = dot
    BY <1>6 DEF ToSet, LineSeq
  <2>2. i \notin 1 .. Len(c) - 1
    BY <1>3, <1>4, <1>5, <2>1
  <2>3. Len(b) = 0
    BY <1>3, <2>2
  <2> QED BY <2>3 DEF LineSeq
<1>7. ASSUME dot \notin ToSet(a) PROVE EndsList(b)
  <2>1. b # << >>
    <3> SUFFICES ASSUME b = << >> PROVE FALSE
      OBVIOUS
    <3>1. c = a
      BY <1>1 DEF LineSeq
    <3>2. Len(a) \in 1 .. Len(a) /\ DOMAIN a = 1 .. Len(a)
      BY <1>4, <3>1 DEF LineSeq
    <3> QED BY <1>4, <1>7, <3>1, <3>2 DEF ToSet
  <2>2. Len(b) \in 1 .. Len(b)
    BY <2>1 DEF LineSeq
  <2>3. b[Len(b)] = dot
    BY <1>3, <1>4, <2>2
  <2>4. ASSUME NEW i \in 1 .. Len(b) - 1 PROVE b[i][1] # Dot
    <3>1. i \in 1 .. Len(b) /\ Len(a) + i \in 1 .. Len(c) - 1
      BY <1>3
    <3> QED BY <1>3, <1>4, <3>1
  <2> QED BY <1>2, <2>1, <2>3, <2>4 DEF EndsList
<1> QED BY <1>2, <1>6, <1>7

(* A list of entries, and then the terminator. *)
LEMMA ListEnds ==
    ASSUME NEW lines \in LineSeq, \A i \in DOMAIN lines : lines[i][1] # Dot
    PROVE  /\ EndsList(Append(lines, << Dot >>))
           /\ Without(lines, {<< Dot >>}) = lines
           /\ Sieve(Append(lines, << Dot >>)) = Sieve(lines)
<1>1. PICK dot : dot = << Dot >>
  OBVIOUS
<1>2. dot \in Texts /\ dot[1] = Dot
  BY <1>1, TokensTyped
<1>3. EndsList(Append(lines, dot))
  <2>1. PICK c : c = Append(lines, dot)
    OBVIOUS
  <2>2. /\ Len(lines) \in Nat /\ Len(c) = Len(lines) + 1 /\ c[Len(lines) + 1] = dot
        /\ DOMAIN lines = 1 .. Len(lines) /\ \A i \in 1 .. Len(lines) : c[i] = lines[i]
    BY <1>2, <2>1 DEF LineSeq
  <2>3. c # << >> /\ c[Len(c)] = dot /\ \A i \in 1 .. Len(c) - 1 : c[i][1] # Dot
    BY <2>2
  <2> QED BY <1>1, <2>1, <2>3 DEF EndsList
<1>4. \A i \in DOMAIN lines : lines[i] \notin {dot}
  BY <1>2
<1>5. Without(lines, {dot}) = lines
  BY <1>4, WithoutNone DEF LineSeq
<1>6. Without(Append(lines, dot), {dot}) = Without(lines, {dot})
  BY <1>2, WithoutAppend DEF LineSeq
<1> QED BY <1>1, <1>3, <1>5, <1>6 DEF Sieve

Lists == {"ListGroups", "ListGroupArticles"}

(* What one call more adds to what has been delivered of a list. *)
LEMMA DeliveredMore ==
    ASSUME calls \in Seq(Call), command \in Lists
    PROVE  /\ Delivered \in LineSeq
           /\ \A call \in Call :
                calls' = Append(calls, call) /\ command' = command =>
                  Delivered' = Delivered \o Sieve(Lines(call.text))
<1> DEFINE P == [call \in Call |-> Sieve(Lines(call.text))]
           Q == Seq(Texts)
           Lined(cs) == FlattenSeq(Each(P, cs))
<1>1. \A call \in Call : P[call] = Sieve(Lines(call.text)) /\ P[call] \in Q
  <2>1. \A call \in Call : call.text \in Texts
    BY DEF Call
  <2>2. \A call \in Call : Lines(call.text) \in LineSeq
    BY <2>1, LinesKeepWords
  <2>3. \A lines \in LineSeq : Sieve(lines) \in Seq(Texts)
    BY SieveConcat DEF LineSeq
  <2> QED BY <2>2, <2>3
<1>2. P \in [Call -> Q]
  BY <1>1
<1>3. \A text : Parsed(text) = Sieve(Lines(text))
  BY DEF Lists, Parsed, Sieve, Groups, Entries
<1>4. ASSUME NEW cs \in Seq(Call)
      PROVE  [k \in DOMAIN cs |-> Sieve(Lines(cs[k].text))] = Each(P, cs)
  <2>1. \A k \in DOMAIN cs : cs[k] \in Call
    BY <1>4
  <2>2. \A k \in DOMAIN cs : Sieve(Lines(cs[k].text)) = P[cs[k]]
    BY <1>1, <2>1
  <2> HIDE DEF P
  <2> QED BY <2>2 DEF Each
<1>5. Delivered = Lined(calls)
  BY <1>3, <1>4 DEF Delivered
<1>6. ASSUME NEW call \in Call, calls' = Append(calls, call), command' = command
      PROVE  Delivered' = Lined(calls')
  <2>1. calls' \in Seq(Call)
    BY <1>6
  <2>4. Delivered' = FlattenSeq([k \in DOMAIN calls' |-> Sieve(Lines(calls'[k].text))])
    <3>1. CASE command = "ListGroups"
      BY <1>6, <3>1 DEF Delivered, Parsed, Sieve, Groups, Entries
    <3>2. CASE command = "ListGroupArticles"
      BY <1>6, <3>2 DEF Delivered, Parsed, Sieve, Entries
    <3> QED BY <3>1, <3>2 DEF Lists
  <2> QED BY <1>4, <2>1, <2>4
<1>7. Lined(calls) \in LineSeq
  <2> HIDE DEF P
  <2>1. Each(P, calls) \in Seq(Q)
    BY <1>2, EachType
  <2> QED BY <2>1, FlattenType DEF LineSeq
<1>8. ASSUME NEW call \in Call PROVE Lined(Append(calls, call)) = Lined(calls) \o P[call]
  <2> HIDE DEF P
  <2>1. Each(P, calls) \in Seq(Q) /\ P[call] \in Seq(Texts)
    BY <1>1, <1>2, EachType
  <2>2. Each(P, Append(calls, call)) = Append(Each(P, calls), P[call])
    BY <1>2, EachAppend, ZenonT(60)
  <2>3. FlattenSeq(Append(Each(P, calls), P[call])) = FlattenSeq(Each(P, calls)) \o P[call]
    BY <2>1, FlattenAppend
  <2> QED BY <2>2, <2>3
<1> QED BY <1>1, <1>5, <1>6, <1>7, <1>8

(* Where two sequences that are put together come apart again. *)
LEMMA FrontOfConcat ==
    ASSUME NEW S, NEW s \in Seq(S), NEW t \in Seq(S)
    PROVE  SubSeq(s \o t, 1, Len(s)) = s
<1>1. PICK r : r = s \o t
  OBVIOUS
<1>2. PICK q : q = SubSeq(r, 1, Len(s))
  OBVIOUS
<1>3. /\ r \in Seq(S) /\ Len(s) \in Nat /\ Len(t) \in Nat /\ Len(r) = Len(s) + Len(t)
      /\ \A i \in 1 .. Len(s) : r[i] = s[i]
  BY <1>1
<1>4. q \in Seq(S) /\ Len(q) = Len(s) /\ \A i \in 1 .. Len(s) : q[i] = r[i]
  BY <1>2, <1>3
<1>5. q = s
  BY <1>3, <1>4, SeqEqual
<1> QED BY <1>1, <1>2, <1>5

(* As much of a sequence as there is of it is all of it. *)
LEMMA WholePrefix ==
    ASSUME NEW S, NEW s \in Seq(S)
    PROVE  SubSeq(s, 1, Len(s)) = s
<1>1. PICK q : q = SubSeq(s, 1, Len(s))
  OBVIOUS
<1>2. q \in Seq(S) /\ Len(s) \in Nat /\ Len(q) = Len(s) /\ \A i \in 1 .. Len(s) : q[i] = s[i]
  BY <1>1
<1>3. q = s
  BY <1>2, SeqEqual
<1> QED BY <1>1, <1>3

(* The empty sequence has no elements. *)
LEMMA NoneIsShort == \A s : s = << >> => Len(s) = 0
OBVIOUS

(* Behind a portion there are at least as many items as before, and no more  *)
(* than in the end.                                                          *)
LEMMA PortionBounds ==
    \A x, y, z \in Nat : /\ x + y \in x .. (x + y) + z
                         /\ z = 0 => x + y = (x + y) + z
OBVIOUS

(* A portion of a list is handed over. *)
LEMMA ListPromise ==
    ASSUME command \in Lists, Delivered \in LineSeq,
           NEW now \in LineSeq, NEW later \in LineSeq,
           Wanted = Delivered \o (now \o later), Delivered' = Delivered \o now,
           UNCHANGED << command, session >>, Refused' = Refused, ~Refused,
           streams # "closed", streams' = "closed" => later = << >>
    PROVE  Promised /\ Wanted' = Delivered' \o later
<1>1. PICK w, d, e : w = Wanted /\ d = Delivered /\ e = Delivered'
  OBVIOUS
<1>2. Result = d /\ Result' = e
  BY <1>1 DEF Result, Lists
<1>3. now \o later \in Seq(Texts) /\ d \in Seq(Texts) /\ now \in Seq(Texts) /\ later \in Seq(Texts)
  BY <1>1 DEF LineSeq
<1>4. w = d \o (now \o later) /\ e = d \o now /\ w \in Seq(Texts) /\ e \in Seq(Texts)
  BY <1>1, <1>3
<1>5. w = e \o later
  <2>1. Joined(Joined(d, now), later) = Joined(d, Joined(now, later))
    BY <1>3, Regrouped
  <2> QED BY <1>4, <2>1 DEF Joined
<1>6. d = SubSeq(w, 1, Len(d)) /\ e = SubSeq(w, 1, Len(e))
  BY <1>3, <1>4, <1>5, FrontOfConcat
<1>7. /\ Len(d) \in Nat /\ Len(e) \in Len(d) .. Len(w)
      /\ later = << >> => Len(e) = Len(w)
  <2>1. Len(e) = Len(d) + Len(now) /\ Len(w) = Len(e) + Len(later) /\ Len(d) \in Nat
        /\ Len(now) \in Nat /\ Len(later) \in Nat
    BY <1>3, <1>4, <1>5
  <2>2. later = << >> => Len(later) = 0
    BY NoneIsShort, Zenon
  <2>3. /\ Len(d) + Len(now) \in Len(d) .. (Len(d) + Len(now)) + Len(later)
        /\ Len(later) = 0 => Len(d) + Len(now) = (Len(d) + Len(now)) + Len(later)
    BY <2>1, PortionBounds, Zenon
  <2> QED BY <2>1, <2>2, <2>3, Zenon
<1>8. Promised
  BY <1>1, <1>2, <1>4, <1>6, <1>7, PromiseDelivers
<1>9. Wanted' = w
  BY <1>1, WantedStays
<1> QED BY <1>1, <1>5, <1>8, <1>9

(* What a refusal is known by. *)
Denials == {NoSuchGroup[1], NoSuchArticle[1]}

(* Only the refusals contain a refusal. *)
LEMMA DenialsApart ==
    /\ Denials \intersect {CRLF, Dot} = {}
    /\ \A status \in {Welcome, PassRequired, Granted, Failed, GroupsFollow, NumbersFollow,
                      GroupRange, HeadFollows, ArticleFollows} :
         \A denial \in Denials : ~Has(status, denial)
    /\ ~Has(NoSuchGroup, NoSuchArticle[1]) /\ ~Has(NoSuchArticle, NoSuchGroup[1])
    /\ Has(StatusLine(NoSuchGroup), NoSuchGroup[1])
    /\ Has(StatusLine(NoSuchArticle), NoSuchArticle[1])
<1>0. NoSuchGroup[1] = "411 No such group" /\ NoSuchArticle[1] = "430 No such article"
  BY DEF NoSuchGroup, NoSuchArticle
<1>1. Denials \intersect {CRLF, Dot} = {}
  BY <1>0 DEF Denials, CRLF, Dot
<1>2. \A a, token : Has(<< a >>, token) <=> token = a
  BY DEF Has
<1>3. \A a, b, token : Has(<< a, b >>, token) => token = a \/ token = b
  BY DEF Has
<1>4. ASSUME NEW denial \in Denials
      PROVE  /\ ~Has(Welcome, denial) /\ ~Has(PassRequired, denial) /\ ~Has(Granted, denial)
             /\ ~Has(Failed, denial) /\ ~Has(GroupsFollow, denial)
             /\ ~Has(NumbersFollow, denial) /\ ~Has(GroupRange, denial)
             /\ ~Has(HeadFollows, denial) /\ ~Has(ArticleFollows, denial)
  <2>1. denial = "411 No such group" \/ denial = "430 No such article"
    BY <1>0 DEF Denials
  <2>2. /\ ~Has(Welcome, denial) /\ ~Has(PassRequired, denial) /\ ~Has(Granted, denial)
        /\ ~Has(Failed, denial) /\ ~Has(GroupsFollow, denial)
    BY <1>2, <2>1 DEF Welcome, PassRequired, Granted, Failed, GroupsFollow
  <2>3. /\ ~Has(NumbersFollow, denial) /\ ~Has(GroupRange, denial)
        /\ ~Has(HeadFollows, denial) /\ ~Has(ArticleFollows, denial)
    BY <1>3, <2>1 DEF NumbersFollow, GroupRange, HeadFollows, ArticleFollows
  <2> QED BY <2>2, <2>3
<1>5. ~Has(NoSuchGroup, NoSuchArticle[1]) /\ ~Has(NoSuchArticle, NoSuchGroup[1])
  BY <1>0, <1>2 DEF NoSuchGroup, NoSuchArticle
<1>6. ASSUME NEW status \in {NoSuchGroup, NoSuchArticle} PROVE Has(StatusLine(status), status[1])
  <2>1. status \in Texts /\ NoSuchGroup # << >> /\ NoSuchArticle # << >>
    <3>1. NoSuchGroup # << >> /\ NoSuchArticle # << >>
      BY DEF NoSuchGroup, NoSuchArticle
    <3> QED BY <3>1, StatusTexts
  <2> QED BY <2>1, StatusLineStarts DEF Has
<1>7. ASSUME NEW status \in {Welcome, PassRequired, Granted, Failed, GroupsFollow, NumbersFollow,
                             GroupRange, HeadFollows, ArticleFollows},
             NEW denial \in Denials
      PROVE  ~Has(status, denial)
  BY <1>4, Zenon
<1> QED BY <1>1, <1>5, <1>6, <1>7, Zenon

(* Neither does a reply, if there is none in its text. *)
LEMMA RepliesSpare ==
    ASSUME NEW status \in {Welcome, PassRequired, Granted, Failed, GroupsFollow, NumbersFollow,
                           GroupRange, HeadFollows, ArticleFollows},
           NEW denial \in Denials
    PROVE  /\ ~Has(StatusLine(status), denial)
           /\ \A text \in Texts : Spares(text, denial) => ~Has(Block(status, text), denial)
<1>1. status \in Texts
  BY StatusTexts
<1>2. ~Has(status, denial) /\ denial \notin {CRLF, Dot}
  BY DenialsApart, Zenon
<1>3. \A text \in Texts : Spares(text, denial) => ~Has(text, denial)
  BY DEF Spares, Has
<1>4. ~Has(StatusLine(status), denial)
  BY <1>1, <1>2, StatusLineTokens
<1>5. ASSUME NEW text \in Texts, ~Has(text, denial) PROVE ~Has(Block(status, text), denial)
  BY <1>1, <1>2, <1>5, BlockTokens
<1> QED BY <1>3, <1>4, <1>5

(***************************************************************************)
(* Every step leads from stage to stage, and is a step of the Retrieval.    *)
(***************************************************************************)
progress == << wire, requests, session, connected, resultsComing, operation, article, response,
               command, idx, calls, orderly >>

(* A step that moves nothing of the conversation stays at its stage. *)
LEMMA StageUnchanged ==
    ASSUME Stage, streams # "closed", UNCHANGED progress, Refused' = Refused,
           session = "over" => streams' = "open"
    PROVE  Stage'
<1>0. /\ UNCHANGED << wire, requests, session, connected, resultsComing, currentOperation,
                      currentGroupCommand, articleId, article, response, command, idx, calls,
                      orderly >>
      /\ Pending' = Pending
  BY DEF progress, operation, Pending
<1>1. Wanted' = Wanted /\ Delivered' = Delivered /\ \A k : Answer(k)' = Answer(k)
  BY <1>0, WantedStays, ResultStays
<1>2. LoginStage' <=> LoginStage
  BY <1>0 DEF LoginStage, Between
<1>3. OpeningStage' <=> OpeningStage
  BY <1>0 DEF OpeningStage, Opening, Answered, First
<1>4. ListStage' <=> ListStage
  BY <1>0, <1>1 DEF ListStage, Sieve, EndsList
<1>5. ArticleStage' <=> ArticleStage
  BY <1>0 DEF ArticleStage, Complete, Recognised, LooksLikeStatus
<1>6. HeaderStage' <=> HeaderStage
  BY <1>0, <1>1 DEF HeaderStage
<1>7. LeftStage /\ session = "over" => LeftStage'
  BY <1>0 DEF LeftStage
<1>8. OpenStage' <=> OpenStage
  BY <1>0, <1>2, <1>3 DEF OpenStage
<1>9. ResultStage' <=> ResultStage
  BY <1>0, <1>4, <1>5, <1>6 DEF ResultStage
<1> QED BY <1>0, <1>7, <1>8, <1>9 DEF Stage

(* A conversation begins with the login before it. *)
LEMMA StageInit == Init => Stage
<1> SUFFICES ASSUME Init PROVE Stage
  OBVIOUS
<1>1. served \in Texts /\ ~Has(served, NoSuchGroup[1]) /\ ~Has(served, NoSuchArticle[1])
  <2>1. served = << >>
    BY DEF Init
  <2>2. << >> \in Texts /\ \A token : ~Has(<< >>, token)
    BY DEF Texts, Has
  <2> QED BY <2>1, <2>2, Zenon
<1>2. ~Refused
  BY <1>1, DeniedIsRefused DEF Init, Denied
<1> QED BY <1>2 DEF Init, Stage, OpenStage, LoginStage

(* At first nothing has been handed over and nothing is refused. *)
LEMMA PromiseInit == Init => Promise!Init
<1> SUFFICES ASSUME Init PROVE Promise!Init
  OBVIOUS
<1>1. served \in Texts /\ ~Has(served, NoSuchGroup[1]) /\ ~Has(served, NoSuchArticle[1])
  <2>1. served = << >>
    BY DEF Init
  <2>2. << >> \in Texts /\ \A token : ~Has(<< >>, token)
    BY DEF Texts, Has
  <2> QED BY <2>1, <2>2, Zenon
<1>2. ~Refused
  BY <1>1, DeniedIsRefused DEF Init, Denied
<1>3. Result = << >>
  BY NothingDelivered DEF Init
<1> QED BY <1>2, <1>3 DEF Init, Promise!Init, Standing

(* Opening the streams changes nothing the conversation depends on. *)
LEMMA StageOpened == ASSUME Stage, Open PROVE Stage' /\ Promised
<1>1. /\ UNCHANGED progress /\ streams = "none" /\ streams' = "open"
      /\ command' = command /\ calls' = calls /\ session' = session /\ served' = served
  BY DEF Open, progress, reader, history
<1>2. Refused' = Refused
  BY <1>1 DEF Refused
<1> QED BY <1>1, <1>2, StageUnchanged, PromiseStutters

(* The greeting is the first reply of the login. *)
LEMMA StageGreeted == ASSUME IInv, Stage, ServerGreet PROVE Stage' /\ Promised
<1>1. /\ streams = "open" /\ session = "silent" /\ session' = "greeted"
      /\ wire' = wire \o StatusLine(Welcome) /\ served' = served \o StatusLine(Welcome)
      /\ UNCHANGED << streams, requests, connected, resultsComing, article, response, command,
                      calls, orderly >>
  BY DEF ServerGreet, Serve, reader
<1>2. served \in Texts /\ StatusLine(Welcome) \in Texts
  BY StatusTexts, StatusLineTokens DEF IInv, TypeOK
<1>3. /\ orderly /\ ~resultsComing /\ calls = << >> /\ article = << >>
      /\ ~connected /\ response = << >> /\ wire = << >> /\ requests = << >> /\ ~Refused
  BY <1>1 DEF Stage, OpenStage, LoginStage, OpeningStage, ResultStage
<1>4. ~Refused'
  <2>1. ~Denied
    BY <1>2, <1>3, DeniedIsRefused
  <2>3. ~Has(StatusLine(Welcome), NoSuchGroup[1]) /\ ~Has(StatusLine(Welcome), NoSuchArticle[1])
    BY RepliesSpare DEF Denials
  <2> QED BY <1>1, <1>2, <2>1, <2>3, DeniedMore
<1>5. wire' = StatusLine(Welcome)
  BY <1>1, <1>2, <1>3 DEF Texts
<1>6. LoginStage'
  BY <1>1, <1>3, <1>4, <1>5 DEF LoginStage, Between
<1>7. Stage'
  BY <1>1, <1>3, <1>6 DEF Stage, OpenStage
<1>8. Promised
  <2>1. Wanted' = Wanted /\ Result' = Result
    BY <1>1, WantedStays, ResultStays
  <2>2. Standing' = Standing
    BY <1>1, <1>3, <1>4 DEF Standing
  <2> QED BY <1>1, <2>1, <2>2 DEF Promised, Promise!retrieval
<1> QED BY <1>7, <1>8

(* On orderly reads the server hangs up between two replies, and the command
   is refused from then on. *)
LEMMA StageHungUp == ASSUME IInv, Stage, ServerHangUp, orderly' PROVE Stage' /\ Promised
<1>1. /\ streams = "open" /\ session \in {"greeted", "named", "authorised"} /\ session' = "over"
      /\ wire' = wire \o StatusLine(Goodbye) /\ orderly' = (orderly /\ ~resultsComing /\ wire = << >>)
      /\ UNCHANGED << streams, requests, resultsComing, command, calls >>
  BY DEF ServerHangUp, Serve, reader
<1>2. ~resultsComing /\ wire = << >>
  BY <1>1
<1>3. calls = << >>
  BY <1>1, <1>2 DEF Stage, OpenStage, ResultStage
<1>4. wire' = StatusLine(Goodbye)
  BY <1>1, <1>2, StatusTexts, StatusLineTokens DEF Texts
<1>5. Stage'
  BY <1>1, <1>2, <1>3, <1>4 DEF Stage, LeftStage
<1>6. Promised
  BY <1>1, PromiseHungUp
<1> QED BY <1>5, <1>6

(* The server answers the one request that is out. *)
LEMMA AnswerFacts ==
    ASSUME IInv, NEW request, requests = << request >>, wire = << >>, ServerAnswer
    PROVE  /\ streams = "open" /\ Expected(request) /\ requests' = << >> /\ request \in Requests
           /\ served \in Texts
           /\ UNCHANGED << streams, connected, resultsComing, currentOperation,
                           currentGroupCommand, articleId, article, response, command, idx,
                           calls, orderly >>
           /\ \E reply \in Replies(request) :
                /\ reply \in Texts /\ wire' = reply /\ served' = served \o reply
                /\ session' = SessionAfter(request, reply)
<1>1. Head(requests) = request /\ Tail(requests) = << >>
  BY SMTT(60)
<1>2. requests \in Seq(Requests) /\ served \in Texts
  BY DEF IInv, TypeOK
<1>3. request \in Requests
  BY <1>2
<1>4. PICK reply \in Replies(request) : Serve(reply) /\ session' = SessionAfter(request, reply)
  BY <1>1 DEF ServerAnswer
<1>5. reply \in Texts
  BY <1>3, ReplyTokens
<1>6. wire' = reply /\ served' = served \o reply
  BY <1>4, <1>5 DEF Serve, Texts
<1>7. \E r \in Replies(request) :
         /\ r \in Texts /\ wire' = r /\ served' = served \o r
         /\ session' = SessionAfter(request, r)
  BY <1>4, <1>5, <1>6
<1> QED BY <1>1, <1>2, <1>3, <1>7 DEF ServerAnswer, reader, operation

(* The login is answered. *)
LEMMA LoginAnswered ==
    ASSUME IInv, Stage, LoginStage, OpenStage, session # "over", ServerAnswer
    PROVE  Stage' /\ Promised
<1>0. requests # << >> /\ streams = "open"
  BY DEF ServerAnswer
<1>1. PICK request \in {User, Pass} :
         /\ requests = << request >> /\ wire = << >>
         /\ \/ request = User /\ session = "greeted"
            \/ request = Pass /\ session = "named"
  BY <1>0, Zenon DEF LoginStage, Between
<1>2. /\ streams = "open" /\ requests' = << >> /\ served \in Texts
      /\ UNCHANGED << streams, connected, resultsComing, article, response, command, calls,
                      orderly >>
  BY <1>1, AnswerFacts, Zenon
<1>3. PICK reply \in Replies(request) :
         /\ reply \in Texts /\ wire' = reply /\ served' = served \o reply
         /\ session' = SessionAfter(request, reply)
  BY <1>1, AnswerFacts, Zenon
<1>4. /\ orderly /\ ~resultsComing /\ calls = << >> /\ article = << >>
      /\ ~connected /\ response = << >> /\ ~Refused
  BY <1>1, <1>2 DEF Stage, OpenStage, LoginStage
<1>5. \/ request = User /\ reply = StatusLine(PassRequired) /\ session' = "named"
      \/ request = Pass /\ reply = StatusLine(Granted) /\ session' = "authorised"
      \/ request = Pass /\ reply = StatusLine(Failed) /\ session' = "refused"
  <2>1. CASE request = User
    BY <1>3, <2>1, RequestsApart DEF Replies, LoginRequests, SessionAfter
  <2>2. CASE request = Pass
    <3>1. reply = StatusLine(Granted) \/ reply = StatusLine(Failed)
      BY <1>3, <2>2, RequestsApart DEF Replies, LoginRequests
    <3>2. StatusLine(Granted) # StatusLine(Failed)
      <4>1. Granted[1] # Failed[1] /\ Granted # << >> /\ Failed # << >>
        BY DEF Granted, Failed
      <4> QED BY <4>1, StatusTexts, StatusLineStarts
    <3>3. session' = IF reply = StatusLine(Granted) THEN "authorised" ELSE "refused"
      BY <1>3, <2>2, RequestsApart DEF SessionAfter
    <3> QED BY <2>2, <3>1, <3>2, <3>3
  <2> QED BY <2>1, <2>2
<1>6. Refused' <=> session' = "refused"
  <2>1. ~Denied
    BY <1>2, <1>4, DeniedIsRefused
  <2>2. ~Has(reply, NoSuchGroup[1]) /\ ~Has(reply, NoSuchArticle[1])
    BY <1>5, RepliesSpare DEF Denials
  <2> QED BY <1>2, <1>3, <2>1, <2>2, DeniedMore
<1>7. LoginStage'
  BY <1>2, <1>3, <1>4, <1>5, <1>6 DEF LoginStage, Between
<1>8. session' # "over"
  BY <1>5
<1>9. Stage'
  BY <1>2, <1>4, <1>7, <1>8 DEF Stage, OpenStage
<1>10. Promised
  <2>1. CASE session' = "refused"
    BY <1>2, <1>4, <1>6, <2>1, PromiseRefused
  <2>2. CASE session' # "refused"
    <3>1. Wanted' = Wanted /\ Result' = Result
      BY <1>2, WantedStays, ResultStays
    <3>2. Standing' = Standing
      BY <1>4, <1>6, <1>8, <2>2 DEF Standing
    <3> QED BY <1>2, <3>1, <3>2 DEF Promised, Promise!retrieval
  <2> QED BY <2>1, <2>2
<1> QED BY <1>9, <1>10

(* Once the results are asked for, a refusal is a refusal of the Retrieval, *)
(* and any other answer is a step towards them.                             *)
LEMMA AnswerPromised ==
    ASSUME UNCHANGED << streams, command, calls >>, session' = session, session # "over",
           streams # "closed", ~Refused
    PROVE  Promised
<1>1. CASE Refused'
  BY <1>1, PromiseRefused
<1>2. CASE ~Refused'
  <2>1. Refused' \in BOOLEAN /\ Refused \in BOOLEAN
    BY DEF Refused
  <2>2. Refused' = Refused
    BY <1>2, <2>1
  <2> QED BY <2>2, PromiseStutters
<1> QED BY <1>1, <1>2

(* The request that opens the results is answered. *)
LEMMA OpeningAnswer ==
    ASSUME ProperPayload, IInv, Stage, OpeningStage, OpenStage, ServerAnswer
    PROVE  Stage' /\ Promised
<1>0. requests # << >> /\ streams = "open" /\ command \in CommandKinds
  BY IdsTyped DEF ServerAnswer, IInv, TypeOK
<1>1. requests = << Opening >> /\ wire = << >> /\ response = << >> /\ ~Refused
  BY <1>0, Zenon DEF OpeningStage
<1>2. /\ streams = "open" /\ requests' = << >> /\ served \in Texts
      /\ UNCHANGED << streams, connected, resultsComing, currentOperation, currentGroupCommand,
                      articleId, article, response, command, calls, orderly >>
  BY <1>1, AnswerFacts, Zenon
<1>3. PICK reply \in Replies(Opening) :
         /\ reply \in Texts /\ wire' = reply /\ served' = served \o reply
         /\ session' = SessionAfter(Opening, reply)
  BY <1>1, AnswerFacts, Zenon
<1>4. /\ Opening \in {List, ListGroup, Group} /\ Opening # User /\ Opening # Pass
      /\ command = "ListGroups" => Opening = List
      /\ command = "ListGroupArticles" => Opening = ListGroup
      /\ command \notin Lists => Opening = Group
  <2>1. Opening \in {List, ListGroup, Group}
    BY <1>0 DEF Opening, CommandKinds
  <2> QED BY <1>0, <2>1, RequestsApart DEF Opening, CommandKinds, Lists, LoginRequests
<1>5. session' = session
  BY <1>3, <1>4 DEF SessionAfter
<1>6. reply = Answered \/ reply = StatusLine(NoSuchGroup)
  <2>1. CASE command = "ListGroups"
    <3>1. reply = Block(GroupsFollow, Listing)
      BY <1>3, <1>4, <2>1, RequestsApart DEF Replies, LoginRequests
    <3> QED BY <2>1, <3>1 DEF Answered
  <2>2. CASE command = "ListGroupArticles"
    <3>1. reply = Block(NumbersFollow, Listing) \/ reply = StatusLine(NoSuchGroup)
      BY <1>3, <1>4, <2>2, RequestsApart DEF Replies, LoginRequests
    <3> QED BY <2>2, <3>1 DEF Answered
  <2>3. CASE command \notin Lists
    <3>1. reply = StatusLine(GroupRange) \/ reply = StatusLine(NoSuchGroup)
      BY <1>3, <1>4, <2>3, RequestsApart DEF Replies, LoginRequests
    <3> QED BY <1>0, <2>3, <3>1 DEF Answered, Lists, CommandKinds
  <2> QED BY <2>1, <2>2, <2>3 DEF Lists
<1>7. Refused' <=> reply = StatusLine(NoSuchGroup)
  <2>1. ~Denied /\ session # "refused"
    BY <1>1, <1>2, DeniedIsRefused
  <2>2. Refused' <=> \/ Has(reply, NoSuchGroup[1])
                     \/ command = "Article" /\ Has(reply, NoSuchArticle[1])
    BY <1>2, <1>3, <1>5, <2>1, DeniedMore
  <2>3. ~Has(Answered, NoSuchGroup[1])
    <3>1. Listing \in Texts /\ Spares(Listing, NoSuchGroup[1]) /\ NoSuchGroup[1] \in Denials
      BY PayloadTyped DEF ProperPayload, Denials
    <3> QED BY <3>1, RepliesSpare DEF Answered
  <2>4. command = "Article" => ~Has(Answered, NoSuchArticle[1])
    <3>1. command = "Article" => Answered = StatusLine(GroupRange)
      BY DEF Answered
    <3> QED BY <3>1, RepliesSpare DEF Denials
  <2>5. Has(StatusLine(NoSuchGroup), NoSuchGroup[1])
    BY DenialsApart
  <2> QED BY <1>6, <2>2, <2>3, <2>4, <2>5
<1>8. OpeningStage'
  BY <1>1, <1>2, <1>3, <1>5, <1>6, <1>7 DEF OpeningStage, Opening, Answered, First
<1>9. Stage'
  BY <1>0, <1>2, <1>5, <1>8 DEF Stage, OpenStage, OpeningStage
<1>10. session # "over"
  BY DEF OpeningStage
<1> QED BY <1>1, <1>2, <1>5, <1>9, <1>10, AnswerPromised

(* What the server answers to the request for an article, and for a header. *)
LEMMA ArticleReply ==
    ASSUME ProperPayload, NEW id \in IdSet, NEW reply \in Replies(ArticleReq(id))
    PROVE  /\ \/ /\ reply = Block(ArticleFollows, BodyOf[id]) /\ reply # StatusLine(NoSuchArticle)
                 /\ Lines(reply) = WholeArticle(id)
              \/ reply = StatusLine(NoSuchArticle) /\ Lines(reply) = << NoSuchArticle >>
           /\ ~Has(reply, NoSuchGroup[1])
           /\ Has(reply, NoSuchArticle[1]) <=> reply = StatusLine(NoSuchArticle)
<1>1. /\ BodyOf[id] \in Texts /\ Complete(BodyOf[id])
      /\ \A denial \in Denials : Spares(BodyOf[id], denial)
  BY PayloadTyped DEF ProperPayload, Denials
<1>2. reply = Block(ArticleFollows, BodyOf[id]) \/ reply = StatusLine(NoSuchArticle)
  BY RequestsApart DEF Replies, LoginRequests
<1>3. Lines(Block(ArticleFollows, BodyOf[id])) = WholeArticle(id)
  <2>1. Lines(Block(ArticleFollows, BodyOf[id])) = (Lines(ArticleFollows) \o Lines(BodyOf[id])) \o << << Dot >> >>
    BY <1>1, LinesOfBlock, StatusTexts
  <2>2. Lines(ArticleFollows) = << ArticleFollows >>
    BY StatusLines
  <2> QED BY <2>1, <2>2, Zenon DEF WholeArticle
<1>4. Lines(StatusLine(NoSuchArticle)) = << NoSuchArticle >>
  BY LinesOfLine, StatusTexts, StatusLines
<1>5. \A denial \in Denials : ~Has(Block(ArticleFollows, BodyOf[id]), denial)
  BY <1>1, RepliesSpare
<1>6. ~Has(StatusLine(NoSuchArticle), NoSuchGroup[1])
  <2>1. NoSuchGroup[1] # CRLF /\ ~Has(NoSuchArticle, NoSuchGroup[1])
    BY DenialsApart DEF Denials
  <2> QED BY <2>1, StatusTexts, StatusLineTokens
<1>7. Has(StatusLine(NoSuchArticle), NoSuchArticle[1])
  BY DenialsApart
<1>8. CASE reply = Block(ArticleFollows, BodyOf[id])
  <2>1. ~Has(reply, NoSuchGroup[1]) /\ ~Has(reply, NoSuchArticle[1])
    BY <1>5, <1>8 DEF Denials
  <2>2. reply # StatusLine(NoSuchArticle)
    BY <1>7, <2>1
  <2> QED BY <1>3, <1>8, <2>1, <2>2
<1>9. CASE reply = StatusLine(NoSuchArticle)
  BY <1>4, <1>6, <1>7, <1>9
<1> QED BY <1>2, <1>8, <1>9

(* The reply to a request for a header is the whole header behind its status
   line, or the refusal of the article; neither refuses the group. *)
LEMMA HeaderReply ==
    ASSUME ProperPayload, NEW id \in IdSet, NEW reply \in Replies(HeadReq(id))
    PROVE  /\ \/ /\ reply = Block(HeadFollows, HeadOf[id])
                 /\ Lines(reply) = (<< HeadFollows >> \o Lines(HeadOf[id])) \o << << Dot >> >>
              \/ reply = StatusLine(NoSuchArticle) /\ Lines(reply) = << NoSuchArticle >>
           /\ ~Has(reply, NoSuchGroup[1])
<1>1. HeadOf[id] \in Texts /\ Complete(HeadOf[id]) /\ Spares(HeadOf[id], NoSuchGroup[1])
  BY PayloadTyped DEF ProperPayload
<1>2. reply = Block(HeadFollows, HeadOf[id]) \/ reply = StatusLine(NoSuchArticle)
  BY RequestsApart DEF Replies, LoginRequests
<1>3. Lines(Block(HeadFollows, HeadOf[id])) = (<< HeadFollows >> \o Lines(HeadOf[id])) \o << << Dot >> >>
  <2>1. Lines(Block(HeadFollows, HeadOf[id])) = (Lines(HeadFollows) \o Lines(HeadOf[id])) \o << << Dot >> >>
    BY <1>1, LinesOfBlock, StatusTexts
  <2>2. Lines(HeadFollows) = << HeadFollows >>
    BY StatusLines
  <2> QED BY <2>1, <2>2, Zenon
<1>4. Lines(StatusLine(NoSuchArticle)) = << NoSuchArticle >>
  BY LinesOfLine, StatusTexts, StatusLines
<1>5. ~Has(Block(HeadFollows, HeadOf[id]), NoSuchGroup[1])
  BY <1>1, RepliesSpare DEF Denials
<1>6. ~Has(StatusLine(NoSuchArticle), NoSuchGroup[1])
  <2>1. NoSuchGroup[1] # CRLF /\ ~Has(NoSuchArticle, NoSuchGroup[1])
    BY DenialsApart DEF Denials
  <2> QED BY <2>1, StatusTexts, StatusLineTokens
<1> QED BY <1>2, <1>3, <1>4, <1>5, <1>6

(* The article is answered. *)
LEMMA ArticleAnswer ==
    ASSUME ProperPayload, IInv, Stage, ResultStage, command = "Article", ServerAnswer
    PROVE  Stage' /\ Promised
<1>0. requests # << >> /\ streams = "open" /\ Ids[1] \in IdSet
      /\ response \in Texts /\ wire \in Texts
  BY IdsTyped DEF ServerAnswer, IInv, TypeOK
<1>1. /\ requests = << ArticleReq(Ids[1]) >> /\ Pending = << >> /\ article = << >> /\ ~Refused
      /\ calls = << >> /\ articleId = Ids[1] /\ ~Recognised(response)
  BY <1>0, Zenon DEF ResultStage, ArticleStage
<1>2. wire = << >> /\ response = << >>
  BY <1>0, <1>1 DEF Pending, Texts
<1>3. /\ streams = "open" /\ requests' = << >> /\ served \in Texts
      /\ UNCHANGED << streams, connected, resultsComing, currentOperation, currentGroupCommand,
                      articleId, article, response, command, calls, orderly >>
  BY <1>1, <1>2, AnswerFacts, Zenon
<1>4. PICK reply \in Replies(ArticleReq(Ids[1])) :
         /\ reply \in Texts /\ wire' = reply /\ served' = served \o reply
         /\ session' = SessionAfter(ArticleReq(Ids[1]), reply)
  BY <1>1, <1>2, AnswerFacts, Zenon
<1>5. session' = session
  BY <1>4, RequestsApart DEF SessionAfter, LoginRequests
<1>6. Refused' <=> reply = StatusLine(NoSuchArticle)
  <2>1. ~Denied /\ session # "refused"
    BY <1>1, <1>3, DeniedIsRefused
  <2> QED BY <1>0, <1>3, <1>4, <1>5, <2>1, DeniedMore, ArticleReply
<1>7. Lines(article') \o Lines(Pending') = Lines(reply)
  <2>1. Pending' = reply
    BY <1>2, <1>3, <1>4 DEF Pending, Texts
  <2>2. Lines(<< >>) = << >> /\ Lines(reply) \in LineSeq
    <3>1. << >> \in Texts /\ CRLF \in Tokens
      BY TokensTyped DEF Texts
    <3> QED BY <1>4, <3>1, LinesAppend, LinesKeepWords
  <2>3. << >> \o Lines(reply) = Lines(reply)
    BY <2>2 DEF LineSeq
  <2> QED BY <1>1, <1>3, <2>1, <2>2, <2>3
<1>8. ArticleStage'
  <2>1. Complete(article') /\ ~Recognised(response')
    BY <1>1, <1>3 DEF Complete, Recognised, LooksLikeStatus
  <2>2. Lines(reply) = IF reply = StatusLine(NoSuchArticle) THEN << NoSuchArticle >>
                       ELSE WholeArticle(Ids[1])
    BY <1>0, <1>4, ArticleReply
  <2> QED BY <1>1, <1>3, <1>6, <1>7, <2>1, <2>2 DEF ArticleStage, Complete, Recognised, LooksLikeStatus
<1>9. ResultStage'
  BY <1>3, <1>5, <1>8 DEF ResultStage
<1>10. session # "over"
  BY DEF ResultStage
<1>11. Stage'
  BY <1>0, <1>3, <1>5, <1>9, <1>10 DEF Stage
<1> QED BY <1>1, <1>3, <1>5, <1>10, <1>11, AnswerPromised

(* A header is answered. *)
LEMMA HeaderAnswer ==
    ASSUME ProperPayload, IInv, Stage, ResultStage, command = "ArticleHeader", ServerAnswer
    PROVE  Stage' /\ Promised
<1>0. requests # << >> /\ streams = "open" /\ HeaderInStep /\ connected
  <2>1. resultsComing
    BY DEF ResultStage
  <2> QED BY <2>1 DEF ServerAnswer, IInv, UnconnectedIsIdle
<1>1. /\ requests = << HeadReq(Ids[idx]) >> /\ wire = << >> /\ ~Refused /\ response = << >>
      /\ \A k \in DOMAIN calls : Answer(k) = Wanted[k]
  BY <1>0, Zenon DEF ResultStage, HeaderStage
<1>2. idx \in 1 .. Len(Ids) /\ Ids[idx] \in IdSet
  BY <1>0, IdsTyped DEF HeaderInStep
<1>3. /\ streams = "open" /\ requests' = << >> /\ served \in Texts
      /\ UNCHANGED << streams, connected, resultsComing, currentOperation, currentGroupCommand,
                      articleId, article, response, command, idx, calls, orderly >>
  BY <1>1, AnswerFacts, Zenon
<1>4. PICK reply \in Replies(HeadReq(Ids[idx])) :
         /\ reply \in Texts /\ wire' = reply /\ served' = served \o reply
         /\ session' = SessionAfter(HeadReq(Ids[idx]), reply)
  BY <1>1, AnswerFacts, Zenon
<1>5. session' = session
  BY <1>4, RequestsApart DEF SessionAfter, LoginRequests
<1>6. ~Refused'
  <2>1. ~Denied /\ session # "refused"
    BY <1>1, <1>3, DeniedIsRefused
  <2>2. ~Has(reply, NoSuchGroup[1])
    BY <1>2, <1>4, HeaderReply
  <2> QED BY <1>3, <1>4, <1>5, <2>1, <2>2, DeniedMore
<1>7. Wanted' = Wanted /\ \A k : Answer(k)' = Answer(k)
  BY <1>3, WantedStays, ResultStays
<1>8. HeaderStage'
  BY <1>1, <1>3, <1>4, <1>6, <1>7 DEF HeaderStage
<1>9. ResultStage'
  BY <1>3, <1>5, <1>8 DEF ResultStage
<1>10. session # "over"
  BY DEF ResultStage
<1>11. Stage'
  BY <1>0, <1>3, <1>5, <1>9, <1>10 DEF Stage
<1> QED BY <1>1, <1>3, <1>5, <1>10, <1>11, AnswerPromised

(* An answer moves the conversation from the request to its reply, and refuses
   the command if it is a refusal. *)
LEMMA StageAnswered ==
    ASSUME ProperPayload, IInv, Stage, ServerAnswer
    PROVE  Stage' /\ Promised
<1>1. streams = "open" /\ requests # << >> /\ session # "over" /\ command \in CommandKinds
  BY IdsTyped DEF ServerAnswer, Expected, IInv, TypeOK
<1>2. OpenStage \/ ResultStage
  BY <1>1 DEF Stage
<1>3. CASE OpenStage
  BY <1>1, <1>3, LoginAnswered, OpeningAnswer DEF OpenStage
<1>4. CASE ResultStage
  <2>1. command \notin Lists
    BY <1>1, <1>4 DEF ResultStage, ListStage, Lists
  <2> QED BY <1>1, <1>4, <2>1, ArticleAnswer, HeaderAnswer DEF Lists, CommandKinds
<1> QED BY <1>2, <1>3, <1>4

(* A status line that is read in one piece goes to processResponse.         *)
LEMMA OneStatusRead ==
    ASSUME IInv, NEW n \in 1 .. Len(wire), ReadStatus(n), orderly',
           NEW status \in Texts, ~Has(status, CRLF), wire = StatusLine(status)
    PROVE  ProcessResponse(StatusLine(status)) /\ wire' = << >>
<1>1. ProcessResponse(Arrived(n)) /\ wire' = Remaining(n) /\ CleanStatus(n)
  BY DEF ReadStatus
<1> QED BY <1>1, StatusOnly

(* An orderly read before the results leaves calls, session and server alone. *)
LEMMA StatusReadFacts ==
    ASSUME IInv, NEW n \in 1 .. Len(wire), ReadStatus(n), orderly'
    PROVE  /\ streams = "open" /\ ~resultsComing /\ orderly /\ response = << >> /\ wire # << >>
           /\ UNCHANGED << pc, session, command, calls, served >>
           /\ Refused' = Refused /\ Wanted' = Wanted
<1>1. /\ streams = "open" /\ ~resultsComing /\ orderly /\ CleanStatus(n)
      /\ UNCHANGED << pc, session, command, calls, served >>
  BY DEF ReadStatus
<1>2. wire # << >>
  <2>1. wire \in Seq(Tokens)
    BY DEF IInv, TypeOK, Texts
  <2> QED BY <2>1
<1>3. Refused' = Refused
  BY <1>1 DEF Refused
<1> QED BY <1>1, <1>2, <1>3, WantedStays DEF CleanStatus

(* What a request is sent for when none is out. *)
LEMMA SendAlone ==
    ASSUME streams = "open", requests = << >>, NEW request, request # NoRequest, Send(request)
    PROVE  requests' = << request >>
<1>1. requests' = Append(requests, request)
  BY DEF Send
<1>2. Append(<< >>, request) = << request >>
  OBVIOUS
<1> QED BY <1>1, <1>2

(* Every request is one. *)
LEMMA RequestsAreSome ==
    /\ User # NoRequest /\ Pass # NoRequest
    /\ List # NoRequest /\ ListGroup # NoRequest /\ Group # NoRequest
    /\ \A id : HeadReq(id) # NoRequest /\ ArticleReq(id) # NoRequest
BY DEF User, Pass, List, ListGroup, Group, HeadReq, ArticleReq, NoRequest

(* Connected, the command asks for what opens its results; one that has no  *)
(* ids to ask for closes the connection.                                    *)
LEMMA StartsOpening ==
    ASSUME IInv, streams = "open", ~connected, requests = << >>, ~resultsComing,
           connected' = TRUE, Start, command' = command
    PROVE  \/ /\ streams' = "open" /\ requests' = << Opening >> /\ currentOperation' = command
              /\ command \in {"ArticleHeader", "Article"} => currentGroupCommand' = First
              /\ command = "Article" => articleId' = Ids[1]
              /\ article' \in {article, << >>}
           \/ streams' = "closed" /\ command = "ArticleHeader" /\ Len(Ids) = 0
<1>0. /\ command \in CommandKinds /\ idx = 0 /\ Len(Ids) \in Nat
  BY IdsTyped DEF IInv, TypeOK, UnconnectedIsIdle
<1>1. CASE command = "ListGroups"
  <2>1. /\ streams' = streams /\ Send(List) /\ currentOperation' = "ListGroups"
        /\ article' = article
    BY <1>1 DEF Start, ListGroupsOp
  <2>2. requests' = << List >>
    BY <2>1, SendAlone, RequestsAreSome
  <2> QED BY <1>1, <2>1, <2>2 DEF Opening
<1>2. CASE command = "ListGroupArticles"
  <2>1. /\ streams' = streams /\ Send(ListGroup) /\ currentOperation' = "ListGroupArticles"
        /\ article' = article
    BY <1>2 DEF Start, ListArticlesOp
  <2>2. requests' = << ListGroup >>
    BY <2>1, SendAlone, RequestsAreSome
  <2> QED BY <1>2, <2>1, <2>2 DEF Opening
<1>3. CASE command = "ArticleHeader" /\ 0 < Len(Ids)
  <2>1. AskNext
    BY <1>0, <1>3 DEF Start, NextHeader
  <2>2. /\ streams' = streams /\ Send(Group) /\ currentOperation' = "ArticleHeader"
        /\ currentGroupCommand' = HeadReq(Ids[1]) /\ article' = article
    BY <1>0, <2>1 DEF AskNext, ArticleHeaderOp, Request
  <2>3. requests' = << Group >>
    BY <2>2, SendAlone, RequestsAreSome
  <2> QED BY <1>3, <2>2, <2>3 DEF Opening, First
<1>4. CASE command = "ArticleHeader" /\ Len(Ids) = 0
  <2>1. Close
    BY <1>0, <1>4 DEF Start, NextHeader
  <2> QED BY <1>4, <2>1 DEF Close
<1>5. CASE command = "Article"
  <2>1. /\ streams' = streams /\ Send(Group) /\ currentOperation' = "Article"
        /\ currentGroupCommand' = ArticleReq(Ids[1]) /\ article' = << >> /\ articleId' = Ids[1]
    BY <1>5 DEF Start, ArticleOp, Request
  <2>2. requests' = << Group >>
    BY <2>1, SendAlone, RequestsAreSome
  <2> QED BY <1>5, <2>1, <2>2 DEF Opening, First
<1> QED BY <1>0, <1>1, <1>2, <1>3, <1>4, <1>5 DEF CommandKinds

(* The answers of the login are read. *)
LEMMA LoginRead ==
    ASSUME IInv, Stage, OpenStage, LoginStage, session # "over",
           NEW n \in 1 .. Len(wire), ReadStatus(n), orderly'
    PROVE  Stage' /\ Promised
<1>1. /\ streams = "open" /\ ~resultsComing /\ orderly /\ response = << >> /\ wire # << >>
      /\ UNCHANGED << session, command, calls >> /\ Refused' = Refused
  BY StatusReadFacts
<1>2. /\ calls = << >> /\ article = << >> /\ ~connected /\ (Refused <=> session = "refused")
      /\ requests = << >>
      /\ \/ session = "greeted" /\ wire = StatusLine(Welcome)
         \/ session = "named" /\ wire = StatusLine(PassRequired)
         \/ session = "refused" /\ wire = StatusLine(Failed)
         \/ session = "authorised" /\ wire = StatusLine(Granted)
  BY <1>1, Zenon DEF OpenStage, LoginStage, Between
<1>3. \A status \in {Welcome, PassRequired, Failed, Granted} :
         wire = StatusLine(status) => ProcessResponse(StatusLine(status)) /\ wire' = << >>
  BY NoBreaks, StatusTexts, OneStatusRead
<1>4. ASSUME UNCHANGED << streams, connected, resultsComing, article >>, response' = << >>,
             LoginStage'
      PROVE  Stage' /\ Promised
  <2>1. Stage'
    BY <1>1, <1>2, <1>4 DEF Stage, OpenStage
  <2> QED BY <1>1, <1>4, <2>1, PromiseStutters
<1>5. CASE session = "greeted"
  <2>1. OnWelcome(StatusLine(Welcome)) /\ wire' = << >>
    BY <1>2, <1>3, <1>5, Reactions, StatusTexts
  <2>2. /\ Send(User) /\ response' = << >>
        /\ UNCHANGED << streams, connected, resultsComing, article >>
    BY <2>1 DEF OnWelcome, Forget
  <2>3. requests' = << User >>
    BY <1>1, <1>2, <2>2, SendAlone, RequestsAreSome
  <2>4. LoginStage'
    BY <1>1, <1>2, <1>5, <2>1, <2>2, <2>3 DEF LoginStage, Between
  <2> QED BY <1>4, <2>2, <2>4
<1>6. CASE session = "named"
  <2>1. OnPassRequired(StatusLine(PassRequired)) /\ wire' = << >>
    BY <1>2, <1>3, <1>6, Reactions, StatusTexts
  <2>2. /\ Send(Pass) /\ response' = << >>
        /\ UNCHANGED << streams, connected, resultsComing, article >>
    BY <2>1 DEF OnPassRequired, Forget
  <2>3. requests' = << Pass >>
    BY <1>1, <1>2, <2>2, SendAlone, RequestsAreSome
  <2>4. LoginStage'
    BY <1>1, <1>2, <1>6, <2>1, <2>2, <2>3 DEF LoginStage, Between
  <2> QED BY <1>4, <2>2, <2>4
<1>7. CASE session = "refused"
  <2>1. OnFailed(StatusLine(Failed)) /\ wire' = << >>
    BY <1>2, <1>3, <1>7, Reactions, StatusTexts
  <2>2. /\ response' = << >> /\ requests' = requests
        /\ UNCHANGED << streams, connected, resultsComing, article >>
    BY <2>1 DEF OnFailed, Forget
  <2>3. LoginStage'
    BY <1>1, <1>2, <1>7, <2>1, <2>2 DEF LoginStage
  <2> QED BY <1>4, <2>2, <2>3
<1>8. CASE session = "authorised"
  <2>1. OnConnected(StatusLine(Granted)) /\ wire' = << >>
    BY <1>2, <1>3, <1>8, Reactions, StatusTexts
  <2>2. /\ connected' = TRUE /\ Start /\ response' = << >> /\ resultsComing' = resultsComing
    BY <2>1 DEF OnConnected, Forget
  <2>3. ~Refused
    BY <1>2, <1>8
  <2>4. CASE /\ streams' = "open" /\ requests' = << Opening >> /\ currentOperation' = command
             /\ command \in {"ArticleHeader", "Article"} => currentGroupCommand' = First
             /\ command = "Article" => articleId' = Ids[1]
             /\ article' \in {article, << >>}
    <3>1. Opening' = Opening /\ First' = First
      BY <1>1 DEF Opening, First
    <3>2. OpeningStage'
      BY <1>1, <1>2, <1>8, <2>1, <2>2, <2>3, <2>4, <3>1 DEF OpeningStage
    <3>3. Stage'
      BY <1>1, <1>2, <2>2, <2>4, <3>2 DEF Stage, OpenStage
    <3> QED BY <1>1, <2>4, <3>3, PromiseStutters
  <2>5. CASE streams' = "closed" /\ command = "ArticleHeader" /\ Len(Ids) = 0
    <3>1. Stage'
      BY <2>5 DEF Stage
    <3>2. Result = << >> /\ Result' = << >>
      BY <1>1, <1>2, NothingDelivered, ResultStays
    <3>3. Wanted \in Seq({}) /\ Len(Wanted) = 0
      <4>1. DOMAIN Ids = {}
        <5>1. Ids \in Seq(STRING)
          BY NewsReaderAssumption
        <5> QED BY <2>5, <5>1
      <4>2. Wanted = << >>
        BY <2>5, <4>1 DEF Wanted
      <4> QED BY <4>2
    <3>4. SubSeq(Wanted, 1, 0) = << >>
      BY <3>3
    <3>5. Len(Result) = 0
      BY <3>2
    <3>6. Promised
      BY <1>1, <2>3, <3>2, <3>3, <3>4, <3>5, PromiseDelivers
    <3> QED BY <3>1, <3>6
  <2> QED BY <1>1, <1>2, <2>2, <2>4, <2>5, StartsOpening
<1> QED BY <1>2, <1>5, <1>6, <1>7, <1>8

(* The items a command may be handed under an id. *)
Items == [id : IdSet, lines : LineSeq]

(* What is wanted is a sequence, for every command. *)
LEMMA WantedTyped ==
    ASSUME TypeOK
    PROVE  /\ command \in Lists => Wanted \in LineSeq
           /\ command = "ArticleHeader" =>
                /\ Wanted \in Seq(Items) /\ Len(Wanted) = Len(Ids)
                /\ \A k \in 1 .. Len(Ids) : Wanted[k] = [id |-> Ids[k], lines |-> Lines(HeadOf[Ids[k]])]
           /\ command = "Article" => Wanted \in Seq(Items) /\ Len(Wanted) = 1
           /\ Len(Wanted) \in Nat
<1>0. /\ command \in CommandKinds /\ Len(Ids) \in Nat /\ DOMAIN Ids = 1 .. Len(Ids)
      /\ \A k \in 1 .. Len(Ids) : Ids[k] \in IdSet
      /\ command = "Article" => Ids[1] \in IdSet
  <2>1. command \in Commands
    BY DEF TypeOK
  <2>2. Ids \in Seq(STRING)
    BY NewsReaderAssumption
  <2>3. DOMAIN Ids = 1 .. Len(Ids)
    BY <2>2
  <2> QED BY <2>1, <2>3, IdsTyped
<1>1. Lines(Listing) \in LineSeq
  BY PayloadTyped, LinesKeepWords
<1>2. CASE command \in Lists
  <2>1. \A s \in Seq(Texts) : \A X : Without(s, X) \in Seq(Texts) /\ Within(s, X) \in Seq(Texts)
    BY WithoutType, WithinType
  <2>2. Groups(Listing) \in LineSeq
    BY <1>1, <2>1 DEF Groups, Entries, LineSeq
  <2>3. Wanted \in LineSeq
    BY <1>1, <1>2, <2>2 DEF Wanted, WantedEntries, Lists
  <2> QED BY <1>2, <2>3 DEF LineSeq, Lists
<1>3. CASE command = "ArticleHeader"
  <2>1. \A k \in 1 .. Len(Ids) : Lines(HeadOf[Ids[k]]) \in LineSeq
    BY <1>0, PayloadTyped, LinesKeepWords
  <2>2. Wanted = [k \in 1 .. Len(Ids) |-> [id |-> Ids[k], lines |-> Lines(HeadOf[Ids[k]])]]
    BY <1>0, <1>3 DEF Wanted
  <2>3. \A k \in 1 .. Len(Ids) : [id |-> Ids[k], lines |-> Lines(HeadOf[Ids[k]])] \in Items
    BY <1>0, <2>1 DEF Items
  <2>4. Wanted \in Seq(Items) /\ Len(Wanted) = Len(Ids)
    BY <1>0, <2>2, <2>3
  <2> QED BY <1>0, <1>3, <2>2, <2>4 DEF Lists
<1>4. CASE command = "Article"
  <2>1. /\ << ArticleFollows >> \in LineSeq /\ << << Dot >> >> \in LineSeq
        /\ Lines(BodyOf[Ids[1]]) \in LineSeq
    BY <1>0, <1>4, PayloadTyped, LinesKeepWords, StatusTexts, TokensTyped, SMTT(60) DEF LineSeq
  <2>2. WholeArticle(Ids[1]) \in LineSeq
    BY <2>1 DEF WholeArticle, LineSeq
  <2>3. [id |-> Ids[1], lines |-> WholeArticle(Ids[1])] \in Items
    BY <1>0, <1>4, <2>2 DEF Items
  <2>4. Wanted = << [id |-> Ids[1], lines |-> WholeArticle(Ids[1])] >>
    BY <1>4 DEF Wanted
  <2>5. \A item \in Items : << item >> \in Seq(Items) /\ Len(<< item >>) = 1
    OBVIOUS
  <2> QED BY <1>4, <2>3, <2>4, <2>5 DEF Lists
<1> QED BY <1>0, <1>2, <1>3, <1>4 DEF CommandKinds, Lists

(* The good-bye of a server that hangs up is read: the command closes. *)
LEMMA GoodbyeRead ==
    ASSUME IInv, Stage, session = "over", NEW n \in 1 .. Len(wire), ReadStatus(n), orderly'
    PROVE  Stage' /\ Promised
<1>1. /\ streams = "open" /\ wire # << >>
      /\ UNCHANGED << session, command, calls >> /\ Refused' = Refused
  BY StatusReadFacts
<1>2. calls = << >> /\ wire = StatusLine(Goodbye)
  BY <1>1 DEF Stage, LeftStage
<1>3. ~Has(Goodbye, CRLF)
  <2>1. \A a, token : Has(<< a >>, token) => token = a
    BY DEF Has
  <2> QED BY <2>1 DEF Goodbye, CRLF
<1>4. OnGoodbye(StatusLine(Goodbye))
  BY <1>2, <1>3, OneStatusRead, StatusTexts, Reactions
<1>5. streams' = "closed"
  BY <1>1, <1>4 DEF OnGoodbye, Close
<1>6. Result = << >> /\ Result' = << >>
  BY <1>1, <1>2, NothingDelivered, ResultStays
<1>7. Promised
  <2>1. Wanted' = Wanted /\ Standing = "gone" /\ Standing' = "gone"
    BY <1>1, WantedStays DEF Standing
  <2>2. PICK w, r : w = Wanted /\ r = Result /\ r = << >> /\ r = Result'
    BY <1>6
  <2>3. SubSeq(w, 1, 0) = << >>
    BY SMTT(60)
  <2>4. Len(r) = 0
    BY <2>2
  <2>5. Len(w) \in Nat
    BY <1>1, WantedTyped, <2>2 DEF IInv
  <2>6. (streams' = "closed") \in {FALSE, Standing = "gone" \/ 0 = Len(Wanted)}
    BY <1>5, <2>1
  <2>7. 0 \in Len(Result) .. Len(Wanted) /\ Result' = SubSeq(Wanted, 1, 0)
    <3>1. 0 \in Len(r) .. Len(w)
      BY <2>4, <2>5
    <3> QED BY <2>2, <2>3, <3>1, Zenon
  <2>8. Promise!Deliver
    BY <1>1, <2>1, <2>6, <2>7 DEF Promise!Deliver
  <2> QED BY <2>8 DEF Promised, Promise!Next
<1> QED BY <1>5, <1>7 DEF Stage

(* The results of a list begin: all of them are on the wire. *)
LEMMA ListOpened ==
    ASSUME ProperPayload, IInv, Stage, OpenStage, OpeningStage, command \in Lists,
           NEW n \in 1 .. Len(wire), ReadStatus(n), orderly', wire = Answered, ~Refused,
           requests = << >>
    PROVE  Stage' /\ Promised
<1>1. /\ streams = "open" /\ ~resultsComing /\ orderly /\ response = << >>
      /\ UNCHANGED << session, command, calls >> /\ Refused' = Refused /\ Wanted' = Wanted
  BY StatusReadFacts
<1>2. PICK status \in {GroupsFollow, NumbersFollow} : wire = Block(status, Listing)
  <2>1. CASE command = "ListGroups"
    BY <2>1 DEF Answered
  <2>2. CASE command = "ListGroupArticles"
    BY <2>2 DEF Answered
  <2> QED BY <2>1, <2>2 DEF Lists
<1> DEFINE coming == Listing \o StatusLine(<< Dot >>)
<1>3. /\ Listing \in Texts /\ Complete(Listing) /\ Lines(Listing) \in LineSeq
      /\ \A i \in DOMAIN Lines(Listing) : Lines(Listing)[i][1] # Dot
  BY PayloadTyped, LinesKeepWords DEF ProperPayload
<1>4. status \in Texts /\ ~Has(status, CRLF)
  BY StatusTexts, NoBreaks
<1>5. /\ wire = StatusLine(status) \o coming /\ coming \in Texts
      /\ Lines(coming) = Append(Lines(Listing), << Dot >>)
  BY <1>2, <1>3, <1>4, LinesOfBlock
<1> HIDE DEF coming
<1>6. ProcessResponse(Arrived(n)) /\ wire' = Remaining(n) /\ CleanStatus(n)
  BY DEF ReadStatus
<1>7. ProcessResponse(StatusLine(status)) /\ wire' = coming
  BY <1>4, <1>5, <1>6, StatusAlone
<1>8. OnResultsFollow(StatusLine(status))
  BY <1>4, <1>7, Reactions
<1>9. /\ resultsComing' = TRUE /\ response' = << >>
      /\ UNCHANGED << streams, requests, currentOperation >>
  BY <1>8 DEF OnResultsFollow, Forget, operation
<1>10. Pending' = coming
  BY <1>5, <1>7, <1>9 DEF Pending, Texts
<1>11. EndsList(Lines(Pending'))
  BY <1>3, <1>5, <1>10, ListEnds
<1>12. Wanted' = Delivered' \o Sieve(Lines(Pending'))
  <2>1. calls = << >>
    BY DEF OpenStage
  <2>2. Delivered' = << >>
    BY <1>1, <2>1, NothingDelivered, ResultStays
  <2>3. Sieve(Lines(coming)) = Sieve(Lines(Listing)) /\ Without(Lines(Listing), {<< Dot >>}) = Lines(Listing)
    BY <1>3, <1>5, ListEnds
  <2>4. Wanted = Sieve(Lines(Listing)) /\ Wanted \in LineSeq
    <3>1. Wanted \in LineSeq
      BY WantedTyped DEF IInv
    <3>2. CASE command = "ListGroups"
      BY <3>1, <3>2 DEF Wanted, WantedEntries, Groups, Entries, Sieve
    <3>3. CASE command = "ListGroupArticles"
      BY <2>3, <3>1, <3>3 DEF Wanted, WantedEntries, Sieve
    <3> QED BY <3>2, <3>3 DEF Lists
  <2>5. PICK w : w = Wanted
    OBVIOUS
  <2>6. << >> \o w = w
    BY <2>4, <2>5 DEF LineSeq
  <2> QED BY <1>1, <1>10, <2>2, <2>3, <2>4, <2>5, <2>6, Zenon
<1>13. ListStage'
  BY <1>1, <1>9, <1>11, <1>12 DEF ListStage, EndsList, Sieve
<1>14. ResultStage'
  BY <1>1, <1>9, <1>13 DEF ResultStage, OpeningStage, Lists
<1>15. session # "over"
  BY DEF OpeningStage
<1>16. Stage'
  BY <1>1, <1>9, <1>14, <1>15 DEF Stage
<1> QED BY <1>1, <1>9, <1>16, PromiseStutters

(* The group is selected: the reader asks for the article or the first header. *)
LEMMA GroupOpened ==
    ASSUME IInv, Stage, OpenStage, OpeningStage, command \in {"ArticleHeader", "Article"},
           NEW n \in 1 .. Len(wire), ReadStatus(n), orderly', wire = Answered, ~Refused,
           requests = << >>
    PROVE  Stage' /\ Promised
<1>1. /\ streams = "open" /\ ~resultsComing /\ orderly /\ response = << >>
      /\ UNCHANGED << session, command, calls >> /\ Refused' = Refused /\ Wanted' = Wanted
  BY StatusReadFacts
<1>2. wire = StatusLine(GroupRange)
  BY DEF Answered
<1>3. ProcessResponse(StatusLine(GroupRange)) /\ wire' = << >>
  BY <1>2, OneStatusRead, StatusTexts, NoBreaks
<1>4. OnGroupSelected(StatusLine(GroupRange))
  BY <1>3, RangeReaction
<1>5. /\ resultsComing' = TRUE /\ response' = << >> /\ Send(First)
      /\ UNCHANGED << streams, connected, currentOperation, articleId, article, idx >>
  BY <1>4 DEF OnGroupSelected, Forget, operation, OpeningStage
<1>6. requests' = << First >>
  BY <1>1, <1>5, SendAlone, RequestsAreSome DEF First
<1>7. calls = << >> /\ article = << >> /\ session = "authorised" /\ connected
  BY DEF OpenStage, OpeningStage
<1>8. ~Recognised(<< >>)
  <2>1. << >> # << Dot >>
    OBVIOUS
  <2> QED BY <2>1, EmptyIsNoStatus DEF Recognised
<1>9. command = "Article" => ArticleStage'
  <2>1. Pending' = << >>
    BY <1>3, <1>5 DEF Pending
  <2>2. ~Recognised(response')
    BY <1>5, <1>8
  <2> QED BY <1>1, <1>5, <1>6, <1>7, <2>1, <2>2
      DEF ArticleStage, First, OpeningStage, Complete, Recognised, LooksLikeStatus
<1>10. command = "ArticleHeader" => HeaderStage'
  <2> SUFFICES ASSUME command = "ArticleHeader" PROVE HeaderStage'
    OBVIOUS
  <2>1. idx = 1
    BY <1>1, <1>7 DEF IInv, HeaderInStep
  <2> QED BY <1>1, <1>3, <1>5, <1>6, <1>7, <2>1 DEF HeaderStage, First
<1>11. ResultStage'
  BY <1>1, <1>5, <1>7, <1>9, <1>10 DEF ResultStage, OpeningStage
<1>12. Stage'
  BY <1>1, <1>5, <1>7, <1>11 DEF Stage
<1> QED BY <1>1, <1>5, <1>12, PromiseStutters

(* What opens the results is read: the results come, or the group is refused. *)
LEMMA OpeningRead ==
    ASSUME ProperPayload, IInv, Stage, OpenStage, OpeningStage,
           NEW n \in 1 .. Len(wire), ReadStatus(n), orderly'
    PROVE  Stage' /\ Promised
<1>1. /\ streams = "open" /\ ~resultsComing /\ orderly /\ response = << >> /\ wire # << >>
      /\ UNCHANGED << session, command, calls >> /\ Refused' = Refused
  BY StatusReadFacts
<1>2. /\ requests = << >> /\ command \in CommandKinds
      /\ \/ wire = Answered /\ ~Refused
         \/ wire = StatusLine(NoSuchGroup) /\ Refused
  <2>1. /\ requests = << >>
        /\ \/ wire = Answered /\ ~Refused
           \/ wire = StatusLine(NoSuchGroup) /\ Refused
    BY <1>1, Zenon DEF OpeningStage
  <2>2. command \in CommandKinds
    BY IdsTyped DEF IInv, TypeOK
  <2> QED BY <2>1, <2>2
<1>3. CASE wire = Answered /\ ~Refused
  BY <1>2, <1>3, ListOpened, GroupOpened DEF Lists, CommandKinds
<1>4. CASE wire = StatusLine(NoSuchGroup) /\ Refused
  <2>1. OnUnrecognised(StatusLine(NoSuchGroup)) /\ wire' = << >>
    BY <1>4, OneStatusRead, StatusTexts, NoBreaks, Reactions
  <2>2. /\ response' = StatusLine(NoSuchGroup)
        /\ UNCHANGED << streams, requests, connected, resultsComing, currentOperation,
                        currentGroupCommand, articleId, article >>
    BY <2>1 DEF OnUnrecognised, operation
  <2>3. OpeningStage'
    BY <1>1, <1>2, <1>4, <2>1, <2>2 DEF OpeningStage, First
  <2>4. Stage'
    BY <1>1, <2>2, <2>3 DEF Stage, OpenStage, OpeningStage
  <2> QED BY <1>1, <2>2, <2>4, PromiseStutters
<1> QED BY <1>2, <1>3, <1>4

(* A read before the results goes on with the login or opens the results. *)
LEMMA StageReadStatus ==
    ASSUME ProperPayload, IInv, Stage, NEW n \in 1 .. Len(wire), ReadStatus(n), orderly'
    PROVE  Stage' /\ Promised
<1>1. streams = "open" /\ ~resultsComing
  BY StatusReadFacts
<1>2. CASE session = "over"
  BY <1>2, GoodbyeRead
<1>3. CASE session # "over"
  <2>1. OpenStage
    BY <1>1, <1>3 DEF Stage, ResultStage
  <2> QED BY <1>3, <2>1, LoginRead, OpeningRead DEF OpenStage
<1> QED BY <1>2, <1>3

(* A portion of a list is read.                                             *)
LEMMA StageReadList ==
    ASSUME IInv, Stage, NEW n \in 1 .. Len(wire), ReadArticleIds(n) \/ ReadGroups(n), orderly'
    PROVE  Stage' /\ Promised
<1> DEFINE prefix == SplitPrefix(Arrived(n))
           call == [id |-> "", text |-> prefix]
           now == Lines(prefix)
           later == Lines(Pending')
<1>1. /\ ReadData(n) /\ orderly /\ CleanList(n)
      /\ currentOperation \in Lists
      /\ UNCHANGED << requests, operation >>
      /\ \/ /\ calls' = Append(calls, call)
            /\ IF HasDot(prefix) THEN Close ELSE UNCHANGED streams
         \/ now = << >> /\ UNCHANGED << calls, streams >>
  BY DEF ReadArticleIds, ReadGroups, Lists
<1>2. /\ streams = "open" /\ resultsComing /\ wire' = Remaining(n) /\ response' = SplitRest(Arrived(n))
      /\ UNCHANGED << session, connected, resultsComing, command, served >>
  BY <1>1 DEF ReadData, TakeData
<1>3. command \in Lists /\ currentOperation = command /\ TypeOK
  <2>1. currentOperation \in {NoOperation, command} /\ NoOperation \notin Lists /\ TypeOK
    BY DEF IInv, OperationOfCommand, NoOperation, Lists
  <2> QED BY <1>1, <2>1
<1>4. /\ session = "authorised" /\ ~Refused /\ requests = << >>
      /\ EndsList(Lines(Pending)) /\ Wanted = Delivered \o Sieve(Lines(Pending))
  BY <1>2, <1>3 DEF Stage, LeftStage, OpenStage, ResultStage, ListStage, Lists
<1>5. Refused' = Refused /\ Wanted' = Wanted
  BY <1>2, WantedStays DEF Refused
<1>6. /\ prefix \in Texts /\ Pending' \in Texts
      /\ now \in LineSeq /\ later \in LineSeq /\ Lines(Pending) = now \o later
  <2>1. Pending' = SplitRest(Arrived(n)) \o Remaining(n)
    BY <1>2 DEF Pending
  <2>2. prefix \in Texts /\ SplitRest(Arrived(n)) \in Texts /\ Remaining(n) \in Texts
    BY <1>3, ReadFacts
  <2>3. Pending' \in Texts
    BY <2>1, <2>2, TokensTyped
  <2>4. Lines(Pending) = now \o Lines(SplitRest(Arrived(n)) \o Remaining(n))
    BY <1>1, <1>3, ReadLines DEF CleanList
  <2> QED BY <2>1, <2>2, <2>3, <2>4, LinesKeepWords
<1> HIDE DEF now, later
<1>7. /\ << Dot >> \in ToSet(now) => later = << >>
      /\ << Dot >> \notin ToSet(now) => EndsList(later)
  BY <1>4, <1>6, ListCut
<1>8. Sieve(now) \in LineSeq /\ Sieve(later) \in LineSeq /\ Sieve(now \o later) = Sieve(now) \o Sieve(later)
  BY <1>6, SieveConcat
<1>9. Delivered \in LineSeq
  <2>1. calls \in Seq(Call)
    BY <1>3 DEF TypeOK, Call
  <2> QED BY <1>3, <2>1, DeliveredMore
<1>10. ASSUME streams' # "closed", EndsList(later), Wanted' = Delivered' \o Sieve(later)
       PROVE  Stage'
  <2>1. ListStage'
    BY <1>1, <1>2, <1>4, <1>5, <1>10 DEF ListStage, EndsList, Sieve, later
  <2>2. ResultStage'
    BY <1>1, <1>2, <1>3, <1>4, <2>1 DEF ResultStage, operation, Lists
  <2> QED BY <1>2, <1>4, <2>2 DEF Stage
<1>11. CASE calls' = Append(calls, call) /\ IF HasDot(prefix) THEN Close ELSE UNCHANGED streams
  <2>1. Delivered' = Delivered \o Sieve(now)
    <3>1. calls \in Seq(Call)
      BY <1>3 DEF TypeOK, Call
    <3>2. PICK c \in Call : c = call /\ c.text = prefix
      <4>1. "" \in IdSet \union {""}
        OBVIOUS
      <4>2. \E c \in Call : c = [id |-> "", text |-> prefix] /\ c.id = ""
        BY <1>6, <4>1, CallTyped
      <4>3. call.text = prefix
        OBVIOUS
      <4> QED BY <4>2, <4>3
    <3> HIDE DEF prefix, call
    <3> QED BY <1>2, <1>3, <1>11, <3>1, <3>2, DeliveredMore DEF now
  <2>2. streams' = "closed" => << Dot >> \in ToSet(now)
    BY <1>2, <1>11 DEF HasDot, now
  <2>3. << Dot >> \in ToSet(now) => streams' = "closed"
    BY <1>2, <1>11 DEF HasDot, now, Close
  <2>4. streams' = "closed" => Sieve(later) = << >>
    BY <1>7, <2>2, SieveNone
  <2>5. PICK s, t \in LineSeq : s = Sieve(now) /\ t = Sieve(later)
    BY <1>8
  <2>6. Wanted = Delivered \o (s \o t) /\ Delivered' = Delivered \o s
    BY <1>4, <1>6, <1>8, <2>1, <2>5, Zenon
  <2>7. Promised /\ Wanted' = Delivered' \o t
    BY <1>2, <1>3, <1>4, <1>5, <1>9, <2>4, <2>5, <2>6, ListPromise
  <2>8. Stage'
    BY <1>7, <1>10, <2>3, <2>5, <2>7 DEF Stage
  <2> QED BY <2>7, <2>8
<1>12. CASE now = << >> /\ UNCHANGED << calls, streams >>
  <2>1. Lines(Pending) = later
    BY <1>6, <1>12 DEF LineSeq
  <2>2. Delivered' = Delivered
    BY <1>2, <1>12, ResultStays
  <2>3. Stage'
    BY <1>2, <1>4, <1>5, <1>10, <1>12, <2>1, <2>2
  <2> QED BY <1>2, <1>5, <1>12, <2>3, PromiseStutters
<1> QED BY <1>1, <1>11, <1>12 DEF now

(* A block ends with its only terminator: nothing follows it. *)
LEMMA BlockEnds ==
    ASSUME NEW S, NEW first \in S, NEW mark \in S, first # mark,
           NEW body \in Seq(S), \A i \in 1 .. Len(body) : body[i] # mark,
           NEW a \in Seq(S), NEW b \in Seq(S), a # << >>, a[Len(a)] = mark,
           a \o b = (<< first >> \o body) \o << mark >>
    PROVE  b = << >>
<1>1. PICK la, lb, m : la = Len(a) /\ lb = Len(b) /\ m = Len(body)
  OBVIOUS
<1>2. la \in Nat /\ lb \in Nat /\ m \in Nat /\ la # 0
  BY <1>1
<1>3. PICK s, d : s = << first >> /\ d = << mark >>
  OBVIOUS
<1>4. s \in Seq(S) /\ d \in Seq(S) /\ Len(s) = 1 /\ Len(d) = 1 /\ s[1] = first
  BY <1>3
<1>5. PICK f : f = s \o body
  OBVIOUS
<1>6. /\ f \in Seq(S) /\ Len(f) = 1 + m
      /\ \A i \in 1 .. (1 + m) : f[i] = IF i <= 1 THEN s[i] ELSE body[i - 1]
  <2>1. /\ f \in Seq(S) /\ Len(f) = Len(s) + Len(body)
        /\ \A i \in 1 .. (Len(s) + Len(body)) :
             f[i] = IF i <= Len(s) THEN s[i] ELSE body[i - Len(s)]
    BY <1>4, <1>5, ConcatProperties, Zenon
  <2> QED BY <1>1, <1>4, <2>1, Zenon
<1>7. PICK c : c = f \o d
  OBVIOUS
<1>8. /\ Len(c) = (1 + m) + 1
      /\ \A i \in 1 .. ((1 + m) + 1) : c[i] = IF i <= 1 + m THEN f[i] ELSE d[i - (1 + m)]
  <2>1. /\ Len(c) = Len(f) + Len(d)
        /\ \A i \in 1 .. (Len(f) + Len(d)) :
             c[i] = IF i <= Len(f) THEN f[i] ELSE d[i - Len(f)]
    BY <1>4, <1>6, <1>7, ConcatProperties, ZenonT(60)
  <2> QED BY <1>4, <1>6, <2>1, Zenon
<1>9. c = a \o b
  BY <1>3, <1>5, <1>7
<1>10. /\ Len(c) = la + lb
       /\ \A i \in 1 .. (la + lb) : c[i] = IF i <= la THEN a[i] ELSE b[i - la]
  BY <1>1, <1>9, ConcatProperties, ZenonT(60)
<1>11. la + lb = (1 + m) + 1
  BY <1>8, <1>10
<1>12. c[la] = mark
  <2>1. la \in 1 .. (la + lb) /\ la <= la
    BY <1>2
  <2>2. c[la] = a[la]
    BY <1>10, <2>1
  <2> QED BY <1>1, <2>2
<1>13. ASSUME la <= 1 + m PROVE FALSE
  <2>1. la \in 1 .. ((1 + m) + 1) /\ la \in 1 .. (1 + m)
    BY <1>2, <1>13
  <2>2. f[la] = mark
    BY <1>8, <1>12, <1>13, <2>1
  <2>3. CASE la <= 1
    <3>1. la = 1
      BY <1>2, <2>3
    <3> QED BY <1>4, <1>6, <2>1, <2>2, <3>1
  <2>4. CASE ~(la <= 1)
    <3>1. la - 1 \in 1 .. m
      BY <1>2, <1>13, <2>4
    <3>2. body[la - 1] = mark
      BY <1>6, <2>1, <2>2, <2>4
    <3> QED BY <1>1, <3>1, <3>2
  <2> QED BY <2>3, <2>4
<1>14. lb = 0
  BY <1>2, <1>11, <1>13
<1>15. \A t \in Seq(S) : Len(t) = 0 => t = << >>
  BY EmptySeq
<1> QED BY <1>1, <1>14, <1>15, Zenon

(* Only the terminator of an article is a line of one dot, and a missing    *)
(* article has none.                                                        *)
LEMMA WholeEnds ==
    ASSUME ProperPayload, NEW id \in IdSet, NEW a \in LineSeq, NEW b \in LineSeq,
           a # << >>, a[Len(a)] = << Dot >>
    PROVE  /\ a \o b = WholeArticle(id) => b = << >>
           /\ a \o b # << NoSuchArticle >>
<1>1. PICK dot, status, none : dot = << Dot >> /\ status = ArticleFollows /\ none = NoSuchArticle
  OBVIOUS
<1>2. dot # status /\ dot # none
  <2>1. Len(dot) = 1 /\ Len(status) = 2
    BY <1>1 DEF ArticleFollows
  <2>2. dot[1] # none[1]
    BY <1>1 DEF NoSuchArticle, Dot
  <2> QED BY <2>1, <2>2, SMTT(60)
<1>3. PICK body : body = Lines(BodyOf[id])
  OBVIOUS
<1>4. body \in Seq(Texts) /\ dot \in Texts /\ status \in Texts
      /\ \A i \in DOMAIN body : body[i] # dot
  BY <1>1, <1>3, PayloadTyped, LinesKeepWords, StatusTexts, TokensTyped DEF ProperPayload, LineSeq
<1>5. a \in Seq(Texts) /\ b \in Seq(Texts) /\ DOMAIN body = 1 .. Len(body)
  BY <1>4 DEF LineSeq
<1>6. ASSUME a \o b = WholeArticle(id) PROVE b = << >>
  <2>1. a \o b = (<< status >> \o body) \o << dot >>
    BY <1>1, <1>3, <1>6 DEF WholeArticle
  <2>2. \A i \in 1 .. Len(body) : body[i] # dot
    BY <1>4, <1>5
  <2> QED BY <1>1, <1>2, <1>4, <1>5, <2>1, <2>2, BlockEnds, ZenonT(60)
<1>7. ASSUME a \o b = << none >> PROVE FALSE
  <2>1. PICK la, lb : la = Len(a) /\ lb = Len(b)
    OBVIOUS
  <2>2. la \in Nat /\ lb \in Nat /\ la # 0
    BY <1>5, <2>1
  <2>3. PICK c : c = a \o b
    OBVIOUS
  <2>4. Len(c) = la + lb /\ \A i \in 1 .. (la + lb) : c[i] = IF i <= la THEN a[i] ELSE b[i - la]
    BY <1>5, <2>1, <2>3, ConcatProperties
  <2>5. Len(c) = 1 /\ c[1] = none
    BY <1>7, <2>3
  <2>6. la = 1 /\ 1 \in 1 .. (la + lb) /\ 1 <= la
    BY <2>2, <2>4, <2>5, SMTT(60)
  <2>7. a[1] = none
    BY <2>4, <2>5, <2>6
  <2> QED BY <1>1, <1>2, <2>1, <2>6, <2>7
<1> QED BY <1>1, <1>6, <1>7

(* A portion of an article is read; it is handed over when it is complete.  *)
LEMMA StageReadArticle ==
    ASSUME ProperPayload, IInv, Stage, NEW n \in 1 .. Len(wire), ReadArticle(n), orderly'
    PROVE  Stage' /\ Promised
<1> DEFINE prefix == SplitPrefix(Arrived(n))
           now == Lines(prefix)
           later == Lines(Pending')
<1>1. /\ ReadData(n) /\ orderly /\ CleanBody(n) /\ currentOperation = "Article"
      /\ article' = article \o prefix \o << CRLF >>
      /\ IF EndsInDot(article')
         THEN calls' = Append(calls, [id |-> articleId, text |-> article']) /\ Close
         ELSE UNCHANGED << calls, streams >>
      /\ UNCHANGED << requests, operation, idx >>
  BY DEF ReadArticle
<1>2. /\ streams = "open" /\ resultsComing /\ wire' = Remaining(n) /\ response' = SplitRest(Arrived(n))
      /\ UNCHANGED << session, connected, resultsComing, command, served >>
  BY <1>1 DEF ReadData, TakeData
<1>3. command = "Article" /\ TypeOK /\ Ids[1] \in IdSet
  <2>1. currentOperation \in {NoOperation, command} /\ NoOperation # "Article" /\ TypeOK
    BY DEF IInv, OperationOfCommand, NoOperation
  <2>2. command = "Article" /\ command \in Commands
    BY <1>1, <2>1 DEF TypeOK
  <2> QED BY <2>1, <2>2, IdsTyped
<1>4. /\ session = "authorised" /\ calls = << >> /\ articleId = Ids[1] /\ Complete(article)
      /\ ArticleStage
  BY <1>2, <1>3 DEF Stage, LeftStage, OpenStage, ResultStage, ArticleStage
<1>5. Refused' = Refused /\ Wanted' = Wanted
  BY <1>2, WantedStays DEF Refused
<1>6. /\ prefix \in Texts /\ article \in Texts /\ now \in LineSeq /\ later \in LineSeq
      /\ Lines(article) \in LineSeq /\ Lines(Pending) = now \o later
  <2>1. Pending' = SplitRest(Arrived(n)) \o Remaining(n)
    BY <1>2 DEF Pending
  <2>2. /\ prefix \in Texts /\ SplitRest(Arrived(n)) \in Texts /\ Remaining(n) \in Texts
        /\ article \in Texts
    BY <1>3, ReadFacts DEF TypeOK
  <2>3. Pending' \in Texts
    BY <2>1, <2>2, TokensTyped
  <2>4. Lines(Pending) = now \o Lines(SplitRest(Arrived(n)) \o Remaining(n))
    BY <1>1, <1>3, ReadLines DEF CleanBody
  <2> QED BY <2>1, <2>2, <2>3, <2>4, LinesKeepWords
<1>7. Lines(article') = Lines(article) \o now /\ Complete(article') /\ article' \in Texts
  <2>1. article \o prefix \in Texts /\ CRLF \in Tokens
    BY <1>6, TokensTyped
  <2>2. Lines(article \o prefix) = Lines(article) \o now
    BY <1>4, <1>6, LinesComplete
  <2>3. PICK t \in Texts : t = article \o prefix
    BY <2>1
  <2>4. article' = Append(t, CRLF)
    BY <1>1, <2>1, <2>3 DEF Texts
  <2>5. article' = StatusLine(t)
    BY <2>4 DEF StatusLine
  <2>6. Lines(article') = Lines(t) /\ Complete(StatusLine(t)) /\ article' \in Texts
    BY <2>3, <2>5, LinesOfLine
  <2>7. Complete(article')
    BY <2>5, <2>6
  <2> QED BY <2>2, <2>3, <2>6, <2>7
<1>8. Pending # << >>
  <2>1. wire \in Seq(Tokens) /\ response \in Seq(Tokens)
    BY <1>3 DEF TypeOK, Texts
  <2> QED BY <2>1 DEF Pending
<1> HIDE DEF now, later
<1>9. /\ requests = << >>
      /\ \/ ~Refused /\ Lines(article') \o later = WholeArticle(Ids[1])
         \/ Refused /\ Lines(article') \o later = << NoSuchArticle >>
  <2>1. Lines(article') \o later = Lines(article) \o Lines(Pending)
    <3>1. Joined(Joined(Lines(article), now), later) = Joined(Lines(article), Joined(now, later))
      BY <1>6, Regrouped DEF LineSeq
    <3> QED BY <1>6, <1>7, <3>1 DEF Joined
  <2> QED BY <1>4, <1>8, <2>1, Zenon DEF ArticleStage
<1>10. Lines(article') \in LineSeq
  BY <1>7, LinesKeepWords
<1>11. CASE EndsInDot(article')
  <2>1. Lines(article') # << >> /\ Lines(article')[Len(Lines(article'))] = << Dot >>
    BY <1>11 DEF EndsInDot, Last
  <2>2. ~Refused /\ Lines(article') = WholeArticle(Ids[1])
    <3>1. ~Refused /\ Lines(article') \o later = WholeArticle(Ids[1])
      BY <1>3, <1>6, <1>9, <1>10, <2>1, WholeEnds
    <3>2. later = << >>
      BY <1>3, <1>6, <1>10, <2>1, <3>1, WholeEnds
    <3> QED BY <1>10, <3>1, <3>2 DEF LineSeq
  <2>3. streams' = "closed"
    BY <1>1, <1>2, <1>11 DEF Close
  <2>4. PICK w, item : w = Wanted /\ item = [id |-> Ids[1], lines |-> WholeArticle(Ids[1])]
    OBVIOUS
  <2>5. w = << item >> /\ w \in Seq(Items) /\ Len(w) = 1
    BY <1>3, <2>4, WantedTyped DEF Wanted
  <2>6. Result = << >>
    BY <1>4, NothingDelivered
  <2>7. Result' = << item >>
    <3>1. PICK call : call = [id |-> Ids[1], text |-> article']
      OBVIOUS
    <3>2. calls' = << call >> /\ call.id = Ids[1] /\ call.text = article'
      BY <1>1, <1>4, <1>11, <3>1
    <3>3. Answer(1)' = item
      BY <1>2, <1>3, <2>2, <2>4, <3>2 DEF Answer, Parsed
    <3>4. Result' = [k \in DOMAIN calls' |-> Answer(k)']
      BY <1>2, <1>3 DEF Result
    <3>5. DOMAIN calls' = 1 .. 1
      BY <3>2
    <3>6. \A k \in 1 .. 1 : Answer(k)' = item
      BY <3>3
    <3> QED BY <3>4, <3>5, <3>6
  <2>8. SubSeq(w, 1, 0) = << >> /\ SubSeq(w, 1, 1) = w
    <3>1. SubSeq(w, 1, 0) = << >>
      BY SMTT(60)
    <3> QED BY <2>5, <3>1, WholePrefix
  <2>9. Promised
    BY <1>2, <1>5, <2>2, <2>3, <2>4, <2>5, <2>6, <2>7, <2>8, PromiseDelivers
  <2> QED BY <2>3, <2>9 DEF Stage
<1>12. CASE ~EndsInDot(article')
  <2>1. UNCHANGED << calls, streams >>
    BY <1>1, <1>12
  <2>2. ~Recognised(SplitRest(Arrived(n)))
    BY <1>1 DEF CleanBody
  <2>3. ArticleStage'
    BY <1>1, <1>2, <1>4, <1>5, <1>7, <1>9, <2>1, <2>2
    DEF ArticleStage, operation, Complete, Recognised, LooksLikeStatus, later
  <2>4. ResultStage'
    BY <1>1, <1>2, <1>3, <1>4, <2>3 DEF ResultStage, operation
  <2>5. Stage'
    BY <1>1, <1>2, <1>4, <2>1, <2>4 DEF Stage
  <2> QED BY <1>2, <1>5, <2>1, <2>5, PromiseStutters
<1> QED BY <1>11, <1>12

(* Whether a line is one of a header. *)
LEMMA HeaderLineKinds ==
    ~IsHeaderLine(HeadFollows) /\ ~IsHeaderLine(<< Dot >>) /\ IsHeaderLine(NoSuchArticle)
<1>1. PICK head, dot, none, mark :
         head = HeadFollows /\ dot = << Dot >> /\ none = NoSuchArticle /\ mark = << "221 " >>
  OBVIOUS
<1>2. /\ head \in Seq(Tokens) /\ none \in Seq(Tokens) /\ mark \in Seq(Tokens)
      /\ Len(head) = 2 /\ Len(none) = 1 /\ Len(mark) = 1
      /\ head[1] = "221 " /\ none[1] = "430 No such article" /\ mark[1] = "221 "
  <2>1. \A a, b : /\ Len(<< a, b >>) = 2 /\ << a, b >>[1] = a
                  /\ Len(<< a >>) = 1 /\ << a >>[1] = a
    OBVIOUS
  <2>2. "221 " \in Tokens
    BY DEF Tokens
  <2>3. head \in Texts /\ none \in Texts /\ mark \in Texts
    BY <1>1, <2>2, StatusTexts, TokensTyped, Zenon
  <2>4. head = << "221 ", "head" >> /\ none = << "430 No such article" >>
    BY <1>1 DEF HeadFollows, NoSuchArticle
  <2>5. Len(head) = 2 /\ head[1] = "221 "
    BY <2>1, <2>4, Zenon
  <2>6. Len(none) = 1 /\ none[1] = "430 No such article"
    BY <2>1, <2>4, Zenon
  <2>7. Len(mark) = 1 /\ mark[1] = "221 "
    BY <1>1, <2>1, Zenon
  <2> QED BY <2>3, <2>5, <2>6, <2>7, Zenon DEF Texts
<1>3. dot[1] = "."
  BY <1>1 DEF Dot
<1>4. StartsWith(head, mark)
  <2>1. Len(mark) <= Len(head) /\ \A i \in 1 .. Len(mark) : head[i] = mark[i]
    <3>1. \A i \in 1 .. 1 : i = 1
      OBVIOUS
    <3>2. 1 <= 2
      OBVIOUS
    <3> QED BY <1>2, <3>1, <3>2, Zenon
  <2> QED BY <1>2, <2>1, StartsPointwise
<1>5. ~StartsWith(none, mark)
  <2>1. 1 \in 1 .. Len(mark)
    <3>1. 1 \in 1 .. 1
      OBVIOUS
    <3> QED BY <1>2, <3>1, Zenon
  <2>2. none[1] # mark[1]
    <3>1. "221 " # "430 No such article"
      OBVIOUS
    <3> QED BY <1>2, <3>1, Zenon
  <2> QED BY <1>2, <2>1, <2>2, StartsPointwise
<1>6. none # dot
  BY <1>2, <1>3
<1> QED BY <1>1, <1>4, <1>5, <1>6 DEF IsHeaderLine

(* What is wanted of every line is all of it. *)
LEMMA WithinAll ==
    ASSUME NEW S, NEW X, NEW s \in Seq(S), \A i \in DOMAIN s : s[i] \in X
    PROVE  Within(s, X) = s
<1>1. Without(s, {}) = s
  BY WithoutNone
<1>2. Without(s, {}) = Within(s, S \ {})
  BY WithoutIsWithin
<1>3. \A i \in DOMAIN s : s[i] \in X <=> s[i] \in S \ {}
  OBVIOUS
<1>4. Within(s, X) = Within(s, S \ {})
  BY <1>3, WithinAlike
<1> QED BY <1>1, <1>2, <1>4

(* One line is wanted, or it is not. *)
LEMMA WithinOne ==
    ASSUME NEW S, NEW X, NEW e \in S
    PROVE  /\ e \in X => Within(<< e >>, X) = << e >>
           /\ e \notin X => Within(<< e >>, X) = << >>
<1>1. << >> \in Seq(S) /\ Append(<< >>, e) = << e >>
  OBVIOUS
<1>2. Within(<< >>, X) = << >>
  BY WithinEmpty
<1>3. /\ e \in X => Within(Append(<< >>, e), X) = Append(Within(<< >>, X), e)
      /\ e \notin X => Within(Append(<< >>, e), X) = Within(<< >>, X)
  BY <1>1, WithinAppend, ZenonT(60)
<1> QED BY <1>1, <1>2, <1>3

(* Each of two sequences is part of both together. *)
LEMMA InConcat ==
    ASSUME NEW S, NEW a \in Seq(S), NEW b \in Seq(S)
    PROVE  ToSet(a) \subseteq ToSet(a \o b) /\ ToSet(b) \subseteq ToSet(a \o b)
<1>1. PICK c, la, lb : c = a \o b /\ la = Len(a) /\ lb = Len(b)
  OBVIOUS
<1>2. la \in Nat /\ lb \in Nat /\ DOMAIN a = 1 .. la /\ DOMAIN b = 1 .. lb
  BY <1>1
<1>3. /\ c \in Seq(S) /\ Len(c) = la + lb
      /\ \A i \in 1 .. la + lb : c[i] = IF i <= la THEN a[i] ELSE b[i - la]
  BY <1>1, ConcatProperties
<1>4. DOMAIN c = 1 .. la + lb
  BY <1>3
<1>5. ASSUME NEW i \in 1 .. la PROVE i \in DOMAIN c /\ c[i] = a[i]
  BY <1>2, <1>3, <1>4
<1>6. ASSUME NEW i \in 1 .. lb PROVE la + i \in DOMAIN c /\ c[la + i] = b[i]
  <2>1. PICK k : k = la + i
    OBVIOUS
  <2>2. k \in 1 .. la + lb /\ ~(k <= la) /\ k - la = i
    BY <1>2, <2>1
  <2>3. c[k] = b[i]
    BY <1>3, <2>2, Zenon
  <2> QED BY <1>4, <2>1, <2>2, <2>3, Zenon
<1>7. ToSet(a) \subseteq ToSet(c) /\ ToSet(b) \subseteq ToSet(c)
  BY <1>2, <1>5, <1>6 DEF ToSet
<1> QED BY <1>1, <1>7

(* What is wanted of three sequences, one behind the other. *)
LEMMA WithinThree ==
    ASSUME NEW S, NEW X, NEW h \in Seq(S), NEW s \in Seq(S), NEW d \in Seq(S)
    PROVE  Within(Joined(Joined(h, s), d), X)
             = Joined(Joined(Within(h, X), Within(s, X)), Within(d, X))
<1>1. PICK f : f = h \o s
  OBVIOUS
<1>2. f \in Seq(S)
  BY <1>1, ConcatProperties
<1>3. Within(f, X) = Within(h, X) \o Within(s, X)
  BY <1>1, WithinConcat
<1>4. Within(f \o d, X) = Within(f, X) \o Within(d, X)
  BY <1>2, WithinConcat, SMTT(60)
<1> QED BY <1>1, <1>3, <1>4 DEF Joined

(* A header between its status line and the terminator. *)
Framed(body) == (<< HeadFollows >> \o body) \o << << Dot >> >>

(* The delegate takes the header out of the reply. *)
LEMMA HeaderSifted ==
    ASSUME NEW body \in LineSeq, \A i \in DOMAIN body : IsHeaderLine(body[i]),
           NEW text, Lines(text) = Framed(body)
    PROVE  HeaderLines(text) = body
<1>1. PICK keep : keep = {line \in ToSet(Lines(text)) : IsHeaderLine(line)}
  OBVIOUS
<1>2. PICK head, dot : head = HeadFollows /\ dot = << Dot >>
  OBVIOUS
<1>3. PICK h, d : h = << head >> /\ d = << dot >>
  OBVIOUS
<1>4. head \in Texts /\ dot \in Texts /\ head \notin keep /\ dot \notin keep
  BY <1>1, <1>2, HeaderLineKinds, StatusTexts, TokensTyped
<1>5. h \in Seq(Texts) /\ d \in Seq(Texts) /\ body \in Seq(Texts)
  BY <1>3, <1>4 DEF LineSeq
<1>6. Lines(text) = (h \o body) \o d
  BY <1>2, <1>3 DEF Framed
<1>7. Within(h, keep) = << >> /\ Within(d, keep) = << >>
  BY <1>3, <1>4, WithinOne
<1>8. \A i \in DOMAIN body : body[i] \in keep
  <2>1. \A i \in DOMAIN body : body[i] \in ToSet(body)
    BY DEF ToSet
  <2>2. \A a, b \in Seq(Texts) : ToSet(a) \subseteq ToSet(a \o b) /\ ToSet(b) \subseteq ToSet(a \o b)
    BY InConcat
  <2>3. PICK f : f = h \o body
    OBVIOUS
  <2>4. \A a, b \in Seq(Texts) : a \o b \in Seq(Texts)
    BY ConcatProperties
  <2>5. ToSet(body) \subseteq ToSet(f) /\ f \in Seq(Texts)
    BY <1>5, <2>2, <2>3, <2>4, Zenon
  <2>6. ToSet(f) \subseteq ToSet(Lines(text))
    BY <1>5, <1>6, <2>2, <2>3, <2>5, Zenon
  <2> QED BY <1>1, <2>1, <2>5, <2>6, Zenon
<1>9. Within(body, keep) = body
  BY <1>5, <1>8, WithinAll
<1>10. Within((h \o body) \o d, keep) = body
  <2>1. Within((h \o body) \o d, keep)
           = (Within(h, keep) \o Within(body, keep)) \o Within(d, keep)
    <3>1. Within(Joined(Joined(h, body), d), keep)
             = Joined(Joined(Within(h, keep), Within(body, keep)), Within(d, keep))
      BY <1>5, WithinThree
    <3> QED BY <3>1 DEF Joined
  <2>2. << >> \o body = body /\ body \o << >> = body
    BY <1>5, ConcatEmptySeq
  <2> QED BY <1>7, <1>9, <2>1, <2>2
<1> QED BY <1>1, <1>6, <1>10 DEF HeaderLines

(* A missing article is taken for one line of a header. *)
LEMMA MissingSifted ==
    ASSUME NEW text, Lines(text) = << NoSuchArticle >>
    PROVE  HeaderLines(text) = << NoSuchArticle >>
<1>1. PICK keep : keep = {line \in ToSet(Lines(text)) : IsHeaderLine(line)}
  OBVIOUS
<1>2. PICK none : none = NoSuchArticle
  OBVIOUS
<1>3. none \in Texts
  BY <1>2, StatusTexts
<1>4. none \in ToSet(<< none >>)
  BY DEF ToSet
<1>5. none \in keep
  BY <1>1, <1>2, <1>4, HeaderLineKinds
<1> QED BY <1>1, <1>2, <1>3, <1>5, WithinOne, SMTT(60) DEF HeaderLines

(* The header in the reply, or the line that says there is none. *)
LEMMA HeaderTaken ==
    ASSUME ProperPayload, NEW id \in IdSet, NEW reply \in Replies(HeadReq(id)),
           NEW text, Lines(text) = Lines(reply)
    PROVE  HeaderLines(text) \in {Lines(HeadOf[id]), << NoSuchArticle >>}
<1>1. Lines(reply) = Framed(Lines(HeadOf[id])) \/ Lines(reply) = << NoSuchArticle >>
  BY HeaderReply DEF Framed
<1>2. /\ Lines(HeadOf[id]) \in LineSeq
      /\ \A i \in DOMAIN Lines(HeadOf[id]) : IsHeaderLine(Lines(HeadOf[id])[i])
  BY PayloadTyped, LinesKeepWords DEF ProperPayload
<1>3. PICK body : body = Lines(HeadOf[id])
  OBVIOUS
<1>4. CASE Lines(reply) = Framed(body)
  BY <1>2, <1>3, <1>4, HeaderSifted
<1>5. CASE Lines(reply) = << NoSuchArticle >>
  BY <1>5, MissingSifted
<1> QED BY <1>1, <1>3, <1>4, <1>5

(* The first elements of a sequence, one by one. *)
LEMMA PrefixByElements ==
    ASSUME NEW S, NEW s \in Seq(S), NEW m \in 0 .. Len(s)
    PROVE  /\ [k \in 1 .. m |-> s[k]] = SubSeq(s, 1, m)
           /\ Len([k \in 1 .. m |-> s[k]]) = m
<1>1. PICK r : r = [k \in 1 .. m |-> s[k]]
  OBVIOUS
<1>2. PICK q : q = SubSeq(s, 1, m)
  OBVIOUS
<1>3. m \in Nat /\ \A k \in 1 .. m : s[k] \in S
  OBVIOUS
<1>4. r \in Seq(S) /\ Len(r) = m /\ \A k \in 1 .. m : r[k] = s[k]
  BY <1>1, <1>3
<1>5. q \in Seq(S) /\ Len(q) = m /\ \A k \in 1 .. m : q[k] = s[k]
  BY <1>2
<1>6. r = q
  BY <1>4, <1>5, SeqEqual
<1> QED BY <1>1, <1>2, <1>4, <1>6

(* A text that ends with a break is taken as a whole. *)
LEMMA WholeRead ==
    ASSUME TypeOK, NEW n \in 1 .. Len(wire), CleanHeader(n), wire[n] = CRLF
    PROVE  /\ SplitRest(Arrived(n)) = << >> /\ Remaining(n) = << >>
           /\ Lines(SplitPrefix(Arrived(n))) = Lines(wire)
<1>1. wire \in Seq(Tokens) /\ response = << >> /\ n = Len(wire) /\ wire # << >>
  <2>1. wire \in Seq(Tokens)
    BY DEF TypeOK, Texts
  <2> QED BY <2>1 DEF CleanHeader
<1>2. Arrived(n) = wire /\ Remaining(n) = << >> /\ Pending = wire
  BY <1>1 DEF Arrived, Remaining, Pending
<1>3. SplitRest(wire) = << >>
  <2>1. Len(wire) \in Breaks(wire) /\ Breaks(wire) # {}
    BY <1>1 DEF Breaks
  <2>2. Max(Breaks(wire)) = Len(wire)
    <3>1. Max(Breaks(wire)) \in 1 .. Len(wire)
          /\ \A i \in Max(Breaks(wire)) + 1 .. Len(wire) : wire[i] # CRLF
      BY <1>1, <2>1, LastBreak
    <3> QED BY <1>1, <3>1
  <2>3. SplitRest(wire) = SubSeq(wire, Len(wire) + 1, Len(wire))
    BY <2>1, <2>2 DEF SplitRest
  <2> QED BY <1>1, <2>3
<1>4. Lines(SplitPrefix(Arrived(n))) = Lines(wire)
  <2>1. HasBreak(n)
    BY <1>1 DEF HasBreak
  <2>2. Lines(wire) = Lines(SplitPrefix(Arrived(n))) \o Lines(SplitRest(Arrived(n)) \o Remaining(n))
    BY <1>2, <2>1, ReadLines
  <2>3. SplitRest(Arrived(n)) \o Remaining(n) = << >>
    BY <1>2, <1>3
  <2>4. Lines(<< >>) = << >>
    <3>1. << >> \in Texts /\ CRLF \in Tokens
      BY TokensTyped DEF Texts
    <3> QED BY <3>1, LinesAppend
  <2>5. SplitPrefix(Arrived(n)) \in Texts
    BY ReadFacts
  <2>6. Lines(SplitPrefix(Arrived(n))) \in LineSeq
    BY <2>5, LinesKeepWords
  <2>7. PICK l : l = Lines(SplitPrefix(Arrived(n)))
    OBVIOUS
  <2>8. l \o << >> = l
    BY <2>6, <2>7, ConcatEmptySeq DEF LineSeq
  <2> QED BY <2>2, <2>3, <2>4, <2>7, <2>8
<1> QED BY <1>2, <1>3, <1>4

(* What has been handed over of the headers, if each of them is right. *)
HeadersRight ==
    /\ TypeOK /\ command = "ArticleHeader" /\ Len(calls) <= Len(Ids)
    /\ \A k \in DOMAIN calls : Answer(k) = Wanted[k]

HeadersDone == Result = SubSeq(Wanted, 1, Len(calls)) /\ Len(Result) = Len(calls)

(* If every call has the item wanted in its place, what has been handed over is
   the beginning of what is wanted. *)
LEMMA HeadersHandedOver == HeadersRight => HeadersDone
<1> SUFFICES ASSUME HeadersRight PROVE HeadersDone
  OBVIOUS
<1>0. /\ TypeOK /\ command = "ArticleHeader" /\ Len(calls) <= Len(Ids)
      /\ \A k \in DOMAIN calls : Answer(k) = Wanted[k]
  BY DEF HeadersRight
<1>1. PICK w, m : w = Wanted /\ m = Len(calls)
  OBVIOUS
<1>2. m \in Nat /\ DOMAIN calls = 1 .. m
  <2>1. calls \in Seq(Call)
    BY <1>0 DEF TypeOK, Call
  <2>2. \A c \in Seq(Call) : Len(c) \in Nat /\ DOMAIN c = 1 .. Len(c)
    OBVIOUS
  <2> QED BY <1>1, <2>1, <2>2, Zenon
<1>3. w \in Seq(Items) /\ Len(w) = Len(Ids) /\ Len(w) \in Nat
  BY <1>0, <1>1, WantedTyped
<1>4. m \in 0 .. Len(w)
  BY <1>0, <1>1, <1>2, <1>3
<1>5. Result = [k \in 1 .. m |-> Answer(k)]
  BY <1>0, <1>2 DEF Result, Lists
<1>6. Result = [k \in 1 .. m |-> w[k]]
  BY <1>0, <1>1, <1>2, <1>5
<1>7. [k \in 1 .. m |-> w[k]] = SubSeq(w, 1, m) /\ Len([k \in 1 .. m |-> w[k]]) = m
  BY <1>3, <1>4, PrefixByElements
<1> QED BY <1>1, <1>6, <1>7 DEF HeadersDone

(* A header is read, and the next one asked for, unless it was the last.    *)
LEMMA StageReadHeader ==
    ASSUME ProperPayload, IInv, Stage, NEW n \in 1 .. Len(wire), ReadHeader(n), orderly'
    PROVE  Stage' /\ Promised
<1> DEFINE prefix == SplitPrefix(Arrived(n))
<1>1. /\ ReadData(n) /\ NextHeader /\ orderly /\ CleanHeader(n) /\ wire[n] = CRLF
      /\ currentOperation = "ArticleHeader"
      /\ calls' = Append(calls, [id |-> articleId, text |-> prefix])
  BY DEF ReadHeader
<1>2. /\ streams = "open" /\ resultsComing /\ connected /\ connected' = connected
      /\ TypeOK /\ OperationOfCommand /\ HeaderInStep /\ KthHeaderHasKthId
      /\ prefix \in Texts /\ articleId \in IdSet \union {""}
      /\ wire' = Remaining(n) /\ response' = SplitRest(Arrived(n))
      /\ UNCHANGED << session, resultsComing, command, served >>
  BY <1>1, ReadDataFacts DEF ReadData, TakeData
<1>3. command = "ArticleHeader" /\ connected' = TRUE
  BY <1>1, <1>2 DEF OperationOfCommand, NoOperation, TypeOK
<1>4. /\ idx \in 1 .. Len(Ids) /\ Len(calls) = idx - 1 /\ articleId = Ids[idx]
      /\ Ids[idx] \in IdSet /\ Len(Ids) \in Nat
  BY <1>2, <1>3, IdsTyped DEF HeaderInStep
<1>5. /\ session = "authorised" /\ currentOperation = command /\ HeaderStage
  BY <1>2, <1>3 DEF Stage, LeftStage, OpenStage, ResultStage
<1>6. /\ ~Refused /\ requests = << >> /\ wire \in Replies(HeadReq(Ids[idx]))
      /\ \A k \in DOMAIN calls : Answer(k) = Wanted[k]
  <2>1. requests = << >>
    BY <1>1 DEF CleanHeader
  <2>2. << HeadReq(Ids[idx]) >> # << >>
    OBVIOUS
  <2> QED BY <1>5, <2>1, <2>2 DEF HeaderStage
<1>7. wire' = << >> /\ response' = << >> /\ Lines(prefix) = Lines(wire)
  BY <1>1, <1>2, WholeRead
<1>8. Refused' = Refused /\ Wanted' = Wanted
  BY <1>2, WantedStays DEF Refused
<1>9. PICK call \in Call : call.id = Ids[idx] /\ call.text = prefix /\ calls' = Append(calls, call)
  <2>1. PICK call \in Call : call = [id |-> articleId, text |-> prefix] /\ call.id = articleId
    BY <1>2, CallTyped
  <2>2. call.text = prefix
    BY <2>1
  <2> QED BY <1>1, <1>4, <2>1, <2>2
<1>10. /\ Len(calls) \in Nat /\ DOMAIN calls = 1 .. Len(calls) /\ calls' \in Seq(Call)
       /\ Len(calls') = Len(calls) + 1 /\ DOMAIN calls' = 1 .. Len(calls) + 1
       /\ \A k \in 1 .. Len(calls) : calls'[k] = calls[k]
       /\ calls'[Len(calls) + 1] = call
  <2>1. calls \in Seq(Call)
    BY <1>2 DEF TypeOK, Call
  <2> QED BY <1>9, <2>1, Appended
<1>11. Len(calls') = idx /\ calls'[idx] = call /\ DOMAIN calls' = 1 .. idx
       /\ \A k \in 1 .. idx : k = idx \/ k \in DOMAIN calls
  BY <1>4, <1>10
<1> HIDE DEF prefix
<1>12. \A k \in DOMAIN calls' : Answer(k)' = Wanted'[k]
  <2>1. ASSUME NEW k \in DOMAIN calls PROVE Answer(k)' = Wanted'[k]
    <3>1. calls'[k] = calls[k]
      BY <1>10
    <3>2. Answer(k)' = Answer(k)
      BY <1>2, <1>8, <3>1 DEF Answer, Parsed
    <3> QED BY <1>6, <1>8, <3>2
  <2>2. PICK j : j = idx
    OBVIOUS
  <2>3. Answer(j)' = Wanted'[j]
    <3>1. HeaderLines(prefix) \in {Lines(HeadOf[Ids[j]]), << NoSuchArticle >>}
      BY <1>4, <1>6, <1>7, <2>2, HeaderTaken
    <3>2. Wanted[j] = [id |-> Ids[j], lines |-> Lines(HeadOf[Ids[j]])]
      BY <1>2, <1>3, <1>4, <2>2, WantedTyped
    <3>3. Parsed(calls[j].text)' = HeaderLines(prefix) /\ calls'[j].id = Ids[j]
      BY <1>2, <1>3, <1>9, <1>11, <2>2 DEF Parsed
    <3>4. Answer(j)' = IF HeaderLines(prefix) = << NoSuchArticle >> THEN Wanted'[j]
                       ELSE [id |-> Ids[j], lines |-> HeaderLines(prefix)]
      BY <1>2, <1>3, <3>3, Zenon DEF Answer
    <3> QED BY <1>8, <3>1, <3>2, <3>4, Zenon
  <2>4. \A k \in DOMAIN calls' : k = j \/ k \in DOMAIN calls
    BY <1>11, <2>2
  <2> QED BY <2>1, <2>3, <2>4
<1>13. HeadersDone /\ HeadersDone'
  <2>0. idx <= Len(Ids) /\ idx - 1 <= Len(Ids)
    BY <1>4
  <2>1. HeadersRight
    BY <1>2, <1>3, <1>4, <1>6, <2>0, Zenon DEF HeadersRight
  <2>2. HeadersRight'
    <3>1. TypeOK'
      BY ReadHeaderStep DEF IInv
    <3>2. command' = "ArticleHeader" /\ Len(calls') <= Len(Ids)
      BY <1>2, <1>3, <1>11, <2>0, Zenon
    <3> QED BY <1>12, <3>1, <3>2 DEF HeadersRight
  <2> QED BY <2>1, <2>2, HeadersHandedOver, PTL
<1>14. PICK w, m : w = Wanted /\ m = idx
  OBVIOUS
<1>15. /\ w \in Seq(Items) /\ Len(w) = Len(Ids) /\ m \in 1 .. Len(Ids) /\ Len(Ids) \in Nat
       /\ Len(calls) = m - 1 /\ Len(calls') = m
  BY <1>2, <1>3, <1>4, <1>11, <1>14, WantedTyped
<1>16. /\ Result = SubSeq(w, 1, Len(Result)) /\ Len(Result) = m - 1
       /\ Result' = SubSeq(w, 1, m)
  BY <1>8, <1>13, <1>14, <1>15 DEF HeadersDone
<1>17. m \in Len(Result) .. Len(w) /\ Len(Result) \in Nat
  <2>1. m \in m - 1 .. Len(w) /\ m - 1 \in Nat
    BY <1>15
  <2> QED BY <1>16, <2>1, Zenon
<1>18. ASSUME streams' = "closed" => m = Len(w) PROVE Promised
  BY <1>2, <1>6, <1>8, <1>14, <1>15, <1>16, <1>17, <1>18, PromiseDelivers
<1>19. CASE idx < Len(Ids)
  <2>1. AskNext
    BY <1>1, <1>19 DEF NextHeader
  <2>2. /\ idx' = idx + 1 /\ streams' = "open" /\ Send(HeadReq(Ids[idx']))
        /\ currentOperation' = currentOperation
    BY <1>2, <1>3, <2>1 DEF AskNext, ArticleHeaderOp, Request
  <2>3. requests' = << HeadReq(Ids[idx']) >>
    BY <1>2, <1>6, <2>2, SendAlone, RequestsAreSome
  <2>4. HeaderStage'
    BY <1>6, <1>7, <1>8, <1>12, <2>3 DEF HeaderStage
  <2>5. ResultStage'
    BY <1>2, <1>3, <1>5, <2>2, <2>4 DEF ResultStage, Lists
  <2>6. Stage'
    BY <1>2, <1>5, <2>2, <2>5 DEF Stage
  <2> QED BY <1>18, <2>2, <2>6
<1>20. CASE ~(idx < Len(Ids))
  <2>1. streams' = "closed"
    BY <1>1, <1>2, <1>20 DEF NextHeader, Close
  <2>2. m = Len(w)
    BY <1>14, <1>15, <1>20
  <2> QED BY <1>18, <2>1, <2>2 DEF Stage
<1> QED BY <1>19, <1>20

(* The end of the read loop closes nothing but a list that had ended: what   *)
(* is kept of an orderly read is no status line, and nothing of the rest.    *)
LEMMA StageLoopExit ==
    ASSUME IInv, InTurn, Stage, streams = "open", LoopExit
    PROVE  Stage' /\ Promised
<1>1. /\ pc = "reading" /\ ProcessResponse(response) /\ TypeOK /\ OperationOfCommand
      /\ UNCHANGED << wire, session, command, calls, served, orderly >>
  BY DEF LoopExit, history, IInv
<1>2. resultsComing /\ response \in Texts /\ wire \in Texts
  BY <1>1 DEF OperationOfCommand, TypeOK
<1>3. ResultStage /\ orderly /\ session # "over"
  BY <1>2 DEF Stage, LeftStage, OpenStage, ResultStage
<1>4. ~LooksLikeStatus(response)
  BY <1>2, <1>3 DEF InTurn, Alternates
<1>5. OnDone(response) \/ OnUnrecognised(response)
  BY <1>1, <1>2, <1>4, NoReaction
<1>6. Refused' = Refused /\ Wanted' = Wanted
  BY <1>1, WantedStays DEF Refused
<1>7. CASE OnUnrecognised(response)
  <2>1. UNCHANGED progress /\ streams' = streams
    BY <1>1, <1>7 DEF OnUnrecognised, progress, operation
  <2>2. Stage'
    BY <1>6, <2>1, StageUnchanged
  <2> QED BY <1>1, <1>6, <2>1, <2>2, PromiseStutters
<1>8. CASE OnDone(response)
  <2>1. response = << Dot >> /\ streams' = "closed"
    BY <1>8 DEF OnDone, Close
  <2>2. command \in Lists
    <3>1. command \in CommandKinds
      BY <1>1, IdsTyped DEF TypeOK
    <3>2. command # "Article"
      BY <1>3, <2>1 DEF ResultStage, ArticleStage, Recognised
    <3>3. command # "ArticleHeader"
      <4>1. << Dot >> # << >>
        OBVIOUS
      <4> QED BY <1>3, <2>1, <4>1 DEF ResultStage, HeaderStage
    <3> QED BY <3>1, <3>2, <3>3 DEF Lists, CommandKinds
  <2>3. ListStage
    BY <1>3, <2>2 DEF ResultStage, Lists
  <2>4. PICK lines : lines = Lines(Pending)
    OBVIOUS
  <2>5. PICK t : t = Pending
    OBVIOUS
  <2>6. t \in Texts /\ t # << >> /\ t[1] = Dot
    <3>1. PICK dot : dot = << Dot >>
      OBVIOUS
    <3>2. dot \in Seq(Tokens) /\ Len(dot) = 1 /\ dot[1] = Dot /\ wire \in Seq(Tokens)
      BY <1>2, <2>1, <3>1 DEF Texts
    <3>3. t = dot \o wire
      BY <2>1, <2>5, <3>1 DEF Pending
    <3>4. PICK rest, m : rest = wire /\ m = Len(rest)
      OBVIOUS
    <3>5. rest \in Seq(Tokens) /\ m \in Nat
      BY <3>2, <3>4
    <3>6. /\ t \in Seq(Tokens) /\ Len(t) = 1 + m
          /\ \A i \in 1 .. 1 + m : t[i] = IF i <= 1 THEN dot[i] ELSE rest[i - 1]
      <4>1. /\ t \in Seq(Tokens) /\ Len(t) = Len(dot) + Len(rest)
            /\ \A i \in 1 .. Len(dot) + Len(rest) :
                 t[i] = IF i <= Len(dot) THEN dot[i] ELSE rest[i - Len(dot)]
        BY <3>2, <3>3, <3>4, ConcatProperties, Zenon
      <4> QED BY <3>2, <3>4, <4>1, Zenon
    <3>7. 1 \in 1 .. 1 + m /\ 1 <= 1 /\ 1 + m # 0
      BY <3>5
    <3>8. t[1] = dot[1]
      BY <3>6, <3>7, Zenon
    <3>9. t # << >>
      <4>1. Len(<< >>) = 0
        OBVIOUS
      <4> QED BY <3>6, <3>7, <4>1, Zenon
    <3> QED BY <3>2, <3>6, <3>8, <3>9, Zenon DEF Texts
  <2>7. Dot # CRLF
    BY DEF Dot, CRLF
  <2>8. lines # << >> /\ lines \in LineSeq /\ lines[1][1] = Dot
    BY <2>4, <2>5, <2>6, <2>7, FirstToken, LinesKeepWords
  <2>9. EndsList(lines)
    BY <2>3, <2>4 DEF ListStage
  <2>10. lines = << << Dot >> >>
    <3>1. PICK last : last = << Dot >>
      OBVIOUS
    <3>2. PICK m : m = Len(lines)
      OBVIOUS
    <3>3. m \in Nat /\ m # 0
      BY <2>8, <3>2 DEF LineSeq
    <3>4. 1 \notin 1 .. m - 1
      BY <2>8, <2>9, <3>2 DEF EndsList
    <3>5. m = 1
      BY <3>3, <3>4
    <3>6. lines[1] = last
      BY <2>9, <3>1, <3>2, <3>5 DEF EndsList
    <3>7. \A s \in Seq(Texts) : Len(s) = 1 => s = << s[1] >>
      OBVIOUS
    <3> QED BY <2>8, <3>1, <3>2, <3>5, <3>6, <3>7, Zenon DEF LineSeq
  <2>11. Sieve(lines) = << >>
    BY <2>10, SieveNone
  <2>12. Delivered \in LineSeq
    <3>1. calls \in Seq(Call)
      BY <1>1 DEF TypeOK, Call
    <3> QED BY <2>2, <3>1, DeliveredMore
  <2>13. ~Refused /\ Wanted = Delivered \o Sieve(lines)
    BY <2>3, <2>4 DEF ListStage
  <2>14. PICK none : none = << >> /\ none \in LineSeq
    <3>1. << >> \in LineSeq
      BY DEF LineSeq
    <3> QED BY <3>1
  <2>15. none \o none = none /\ Delivered \o none = Delivered
    BY <2>12, <2>14, ConcatEmptySeq DEF LineSeq
  <2>16. Wanted = Delivered \o (none \o none) /\ Delivered' = Delivered \o none
    <3>1. Delivered' = Delivered
      BY <1>1, ResultStays
    <3> QED BY <2>11, <2>13, <2>14, <2>15, <3>1, Zenon
  <2>17. Promised
    BY <1>1, <1>6, <2>1, <2>2, <2>12, <2>13, <2>14, <2>16, ListPromise
  <2> QED BY <2>1, <2>17 DEF Stage
<1> QED BY <1>5, <1>7, <1>8

(* Nothing more happens to a connection that is closed. *)
LEMMA StageClosed ==
    ASSUME IInv, streams = "closed", [Next]_vars
    PROVE  Stage' /\ Promised
<1>1. streams' = "closed" /\ UNCHANGED << command, calls, session, served >>
  <2>1. CASE LoopExit
    <3>1. /\ pc = "reading" /\ ProcessResponse(response) /\ TypeOK /\ UnconnectedIsIdle /\ GrantedOnce
          /\ UNCHANGED << wire, session, command, calls, served, orderly >>
      BY <2>1 DEF LoopExit, history, IInv
    <3>2. resultsComing /\ response \in Texts /\ wire \in Texts
      BY <3>1 DEF IInv, OperationOfCommand, TypeOK
    <3>3. ~Has(Pending, Granted[1])
      BY <3>1, <3>2 DEF UnconnectedIsIdle, GrantedOnce
    <3>4. ~StartsWith(response, Granted)
      BY <3>2, <3>3, FirstWord DEF Pending
    <3>5. ClosesAtMost
      BY <3>1, <3>2, <3>4, QuietResponse
    <3> QED BY <3>1, <3>5 DEF ClosesAtMost
  <2>2. ~Open /\ ~ServerGreet /\ ~ServerAnswer /\ ~ServerHangUp
    BY DEF Open, ServerGreet, ServerAnswer, ServerHangUp
  <2>3. ~Read
    BY DEF Read, ReadStatus, ReadArticle, ReadHeader, ReadArticleIds, ReadGroups, ReadData
  <2>4. CASE UNCHANGED vars
    BY <2>4 DEF vars, connection, reader, operation, history
  <2> QED BY <2>1, <2>2, <2>3, <2>4 DEF Next, ReaderNext, ServerNext
<1>2. Refused' = Refused
  BY <1>1 DEF Refused
<1> QED BY <1>1, <1>2, PromiseStutters DEF Stage

(* Each step of a connection with orderly reads is a step of the Retrieval.  *)
LEMMA StageStep ==
    ASSUME ProperPayload, IInv, InTurn, Stage, [OrderlyNext]_vars
    PROVE  Stage' /\ Promised
<1>1. [Next]_vars
  BY DEF OrderlyNext
<1>2. CASE streams = "closed"
  BY <1>1, <1>2, StageClosed
<1>3. CASE UNCHANGED vars /\ streams # "closed"
  <2>1. UNCHANGED progress /\ streams' = streams /\ UNCHANGED << served, command, calls, session >>
    BY <1>3 DEF vars, connection, reader, history, progress
  <2>2. Refused' = Refused
    BY <2>1 DEF Refused
  <2>3. session = "over" => streams = "open"
    BY <1>3 DEF Stage, LeftStage
  <2> QED BY <1>3, <2>1, <2>2, <2>3, StageUnchanged, PromiseStutters
<1>4. ASSUME Next, orderly', streams # "closed" PROVE Stage' /\ Promised
  <2>1. CASE Open
    BY <2>1, StageOpened
  <2>2. CASE ServerGreet
    BY <2>2, StageGreeted
  <2>3. CASE ServerAnswer
    BY <2>3, StageAnswered
  <2>4. CASE ServerHangUp
    BY <1>4, <2>4, StageHungUp
  <2>5. CASE LoopExit
    <3>1. streams = "open"
      <4>1. resultsComing /\ streams \in {"none", "open", "closed"}
        BY <2>5 DEF LoopExit, IInv, OperationOfCommand, TypeOK
      <4> QED BY <1>4, <4>1 DEF IInv, UnconnectedIsIdle, UnopenedIsIdle
    <3> QED BY <2>5, <3>1, StageLoopExit
  <2>6. ASSUME NEW n \in 1 .. Len(wire), ReadStatus(n) PROVE Stage' /\ Promised
    BY <1>4, <2>6, StageReadStatus
  <2>7. ASSUME NEW n \in 1 .. Len(wire), ReadArticle(n) PROVE Stage' /\ Promised
    BY <1>4, <2>7, StageReadArticle
  <2>8. ASSUME NEW n \in 1 .. Len(wire), ReadHeader(n) PROVE Stage' /\ Promised
    BY <1>4, <2>8, StageReadHeader
  <2>9. ASSUME NEW n \in 1 .. Len(wire), ReadArticleIds(n) \/ ReadGroups(n)
        PROVE  Stage' /\ Promised
    BY <1>4, <2>9, StageReadList
  <2> QED BY <1>4, <2>1, <2>2, <2>3, <2>4, <2>5, <2>6, <2>7, <2>8, <2>9
      DEF Next, ReaderNext, ServerNext, Read
<1> QED BY <1>2, <1>3, <1>4 DEF OrderlyNext

(* With orderly reads, a connection keeps its promise, for all lists,        *)
(* headers and articles of a proper payload, any number of ids, every cut    *)
(* of the replies that the reader copes with, and every choice of refusals   *)
(* and hang-ups: what is handed over is at any time the beginning of what    *)
(* the server has, and nothing is missing when the connection is closed.     *)
THEOREM PromiseKept == ASSUME ProperPayload PROVE OrderlySpec => KeepsPromise
<1>1. OrderlySpec => Spec
  <2>1. [OrderlyNext]_vars => [Next]_vars
    BY DEF OrderlyNext
  <2> QED BY <2>1, PTL DEF OrderlySpec, Spec
<1>2. IInv /\ InTurn /\ Stage /\ [OrderlyNext]_vars => Stage' /\ Promised
  BY StageStep
<1>3. Promised <=> [Promise!Next]_(Promise!retrieval)
  BY DEF Promised
<1> QED BY <1>1, <1>2, <1>3, StageInit, PromiseInit, Invariance, TurnInvariance, PTL
    DEF OrderlySpec, KeepsPromise, Promise!Safety
================================================================================
