----------------------------- MODULE Display_proofs -----------------------------
(***************************************************************************)
(* Which article the view shows when several are on their way, proved for   *)
(* any articles, any header threads and any number of selections; and, in   *)
(* the second part, that the text of an article is what the server sent     *)
(* (Decoding).                                                              *)
(***************************************************************************)
EXTENDS Display, Decoding, SiftingTheorems

Block == ({"show"} \X Connections) \union ({"reload"} \X Readers)

States == {"none", "loading", "queued", "shown", "failed"}

Typed ==
    /\ selected \in Seq(Articles) /\ Len(selected) <= MaxSelections
    /\ state \in [Connections -> States]
    /\ rivals \in [Connections -> SUBSET Connections]
    /\ queue \in Seq(Block)
    /\ main \in [doing : {"free", "crashed", "uudecode", "open"}, of : Nat]
    /\ reader \in [Readers -> {"running", "waiting"}]

(* Connections are made one by one. *)
MadeInTurn == \A k \in Connections : state[k] # "none" => k <= Len(selected)

Busy == main.doing \in {"uudecode", "open"}

(* Each article that has arrived is in one place: a block, or with the main *)
(* thread.                                                                  *)
InOnePlace ==
    /\ \A i \in DOMAIN queue : queue[i][1] = "show" => state[queue[i][2]] = "queued"
    /\ \A i, j \in DOMAIN queue :
          queue[i][1] = "show" /\ queue[j][1] = "show" /\ queue[i][2] = queue[j][2] => i = j
    /\ Busy => /\ main.of \in Connections /\ state[main.of] = "queued"
               /\ \A i \in DOMAIN queue : queue[i][1] = "show" => queue[i][2] # main.of

(* Whatever is under way is a rival of all that were selected after it; what *)
(* is shown came last, or was a rival of what it took the place of.           *)
Rivalry ==
    /\ \A j, k \in Connections : j < k /\ UnderWay(j) /\ state[k] # "none" => j \in rivals[k]
    /\ \A k \in Connections :
          state[k] = "shown" => shown \in Connections /\ (shown >= k \/ shown \in rivals[k])

IInv == Typed /\ MadeInTurn /\ InOnePlace /\ Rivalry

(* It holds at the start. *)
LEMMA InitIInv == Init => IInv
<1> SUFFICES ASSUME Init PROVE IInv
  OBVIOUS
<1>1. MaxSelections \in Nat
  BY DisplayAssumption
<1>2. Typed
  BY <1>1 DEF Init, Typed, States, Free
<1> QED
  BY <1>2 DEF Init, IInv, MadeInTurn, InOnePlace, Busy, Rivalry, UnderWay, Free

(* Facts about the queue. *)
LEMMA Queued ==
    ASSUME NEW S, NEW q \in Seq(S), NEW b \in S
    PROVE  /\ Append(q, b) \in Seq(S)
           /\ \A i \in DOMAIN Append(q, b) :
                 \/ i \in DOMAIN q /\ Append(q, b)[i] = q[i]
                 \/ i = Len(q) + 1 /\ Append(q, b)[i] = b
           /\ \A i \in DOMAIN q : i # Len(q) + 1
OBVIOUS

(* What is left of a queue when its first block is taken. *)
LEMMA Dequeued ==
    ASSUME NEW S, NEW q \in Seq(S), q # << >>
    PROVE  /\ Tail(q) \in Seq(S)
           /\ \A i \in DOMAIN Tail(q) : i + 1 \in DOMAIN q /\ i + 1 # 1 /\ Tail(q)[i] = q[i + 1]
           /\ \A i, j \in DOMAIN Tail(q) : i + 1 = j + 1 => i = j
           /\ 1 \in DOMAIN q /\ q[1] \in S
OBVIOUS

(* A selection keeps the invariant. *)
LEMMA SelectStep ==
    ASSUME IInv, NEW a \in Articles, Select(a)
    PROVE  IInv'
<1> DEFINE k == Len(selected) + 1
<1>1. /\ main = Free /\ k <= MaxSelections /\ selected' = Append(selected, a)
      /\ state' = [state EXCEPT ![k] = "loading"]
      /\ UNCHANGED << queue, main, shown, reader >>
      /\ rivals' = [rivals EXCEPT ![k] = {j \in Connections : UnderWay(j)}]
  BY DEF Select
<1>2. k \in Connections /\ Len(selected) \in Nat /\ Len(selected') = k /\ selected' \in Seq(Articles)
  BY <1>1, DisplayAssumption DEF IInv, Typed, Connections
<1>3. state[k] = "none"
  BY <1>2 DEF IInv, Typed, MadeInTurn, States
<1>4. state' \in [Connections -> States] /\ state'[k] = "loading"
      /\ \A j \in Connections : j # k => state'[j] = state[j]
  BY <1>1, <1>2 DEF IInv, Typed, States
<1> HIDE DEF k
<1>5. Typed'
  BY <1>1, <1>2, <1>4 DEF IInv, Typed
<1>6. MadeInTurn'
  <2> SUFFICES ASSUME NEW j \in Connections, state'[j] # "none", j # k
               PROVE  j <= Len(selected')
    BY <1>2 DEF MadeInTurn, Connections
  <2> QED
    BY <1>2, <1>4 DEF IInv, MadeInTurn, Connections, k
<1>7. InOnePlace'
  <2>1. ~Busy'
    BY <1>1 DEF Busy, Free
  <2>2. \A i \in DOMAIN queue : queue[i][1] = "show" => queue[i][2] \in Connections
    BY DEF IInv, Typed, Block
  <2>3. \A i \in DOMAIN queue : queue[i][1] = "show" => state'[queue[i][2]] = "queued"
    BY <1>3, <1>4, <2>2 DEF IInv, InOnePlace
  <2> QED
    BY <1>1, <2>1, <2>3 DEF IInv, InOnePlace
<1>8. rivals'[k] = {j \in Connections : UnderWay(j)} /\ k \in Nat
      /\ \A j \in Connections : j # k => rivals'[j] = rivals[j] /\ j \in Nat
  BY <1>1, <1>2, DisplayAssumption DEF IInv, Typed, Connections
<1>9. Rivalry'
  <2>1. ASSUME NEW i \in Connections, NEW j \in Connections, i < j, UnderWay(i)', state'[j] # "none"
        PROVE  i \in rivals'[j]
    <3>1. i # k
      BY <1>2, <1>4, <1>8, <2>1 DEF IInv, MadeInTurn, Connections, k
    <3>2. UnderWay(i)
      BY <1>4, <2>1, <3>1 DEF UnderWay
    <3> QED
      BY <1>4, <1>8, <2>1, <3>2 DEF IInv, Rivalry
  <2>2. ASSUME NEW j \in Connections, state'[j] = "shown"
        PROVE  shown' \in Connections /\ (shown' >= j \/ shown' \in rivals'[j])
    BY <1>1, <1>4, <1>8, <2>2 DEF IInv, Rivalry
  <2> QED
    BY <2>1, <2>2 DEF Rivalry
<1> QED
  BY <1>5, <1>6, <1>7, <1>9 DEF IInv

(* An article that arrives keeps it. *)
LEMMA OnNewArticleStep ==
    ASSUME IInv, NEW k \in Connections, OnNewArticle(k)
    PROVE  IInv'
<1>1. /\ state[k] = "loading" /\ state' = [state EXCEPT ![k] = "queued"]
      /\ queue' = Append(queue, ShowBlock(k))
      /\ UNCHANGED << selected, main, shown, reader, rivals >>
  BY DEF OnNewArticle
<1>2. /\ state' \in [Connections -> States] /\ state'[k] = "queued"
      /\ \A j \in Connections : j # k => state'[j] = state[j]
  BY <1>1 DEF IInv, Typed, States
<1>3. ShowBlock(k) \in Block /\ ShowBlock(k)[1] = "show" /\ ShowBlock(k)[2] = k
  BY DEF Block, ShowBlock
<1>4. queue \in Seq(Block)
  BY DEF IInv, Typed
<1>5. Typed'
  BY <1>1, <1>2, <1>3, <1>4, Queued DEF IInv, Typed
<1>6. MadeInTurn'
  BY <1>1, <1>2 DEF IInv, MadeInTurn
<1>7. \A i \in DOMAIN queue : queue[i][1] = "show" => queue[i][2] \in Connections /\ queue[i][2] # k
  BY <1>1, <1>4 DEF IInv, InOnePlace, Block
<1>8. InOnePlace'
  <2>1. \A i \in DOMAIN queue' : queue'[i][1] = "show" =>
           \/ i \in DOMAIN queue /\ queue'[i] = queue[i] /\ queue'[i][2] # k
           \/ i = Len(queue) + 1 /\ queue'[i][2] = k
    BY <1>1, <1>3, <1>4, <1>7, Queued
  <2>2. \A i \in DOMAIN queue' : queue'[i][1] = "show" => state'[queue'[i][2]] = "queued"
    BY <1>2, <1>7, <2>1 DEF IInv, InOnePlace
  <2>3. \A i, j \in DOMAIN queue' :
           queue'[i][1] = "show" /\ queue'[j][1] = "show" /\ queue'[i][2] = queue'[j][2] => i = j
    BY <2>1 DEF IInv, InOnePlace
  <2>4. ASSUME Busy
        PROVE  /\ main.of \in Connections /\ state'[main.of] = "queued"
               /\ \A i \in DOMAIN queue' : queue'[i][1] = "show" => queue'[i][2] # main.of
    BY <1>1, <1>2, <2>1, <2>4 DEF IInv, InOnePlace
  <2>5. Busy' = Busy /\ main' = main
    BY <1>1 DEF Busy
  <2> QED
    BY <2>2, <2>3, <2>4, <2>5 DEF InOnePlace
<1>9. Rivalry'
  BY <1>1, <1>2 DEF IInv, Rivalry, UnderWay
<1> QED
  BY <1>5, <1>6, <1>8, <1>9 DEF IInv

(* A connection that fails keeps it. *)
LEMMA FailStep ==
    ASSUME IInv, NEW k \in Connections, Fail(k)
    PROVE  IInv'
<1>1. /\ state[k] = "loading" /\ state' = [state EXCEPT ![k] = "failed"]
      /\ UNCHANGED << selected, queue, main, shown, reader, rivals >>
  BY DEF Fail
<1>2. /\ state' \in [Connections -> States] /\ state'[k] = "failed"
      /\ \A j \in Connections : j # k => state'[j] = state[j]
  BY <1>1 DEF IInv, Typed, States
<1>3. Typed' /\ MadeInTurn'
  BY <1>1, <1>2 DEF IInv, Typed, MadeInTurn
<1>4. \A i \in DOMAIN queue : queue[i][1] = "show" => queue[i][2] \in Connections
  BY DEF IInv, Typed, Block
<1>5. \A j \in Connections : state[j] = "queued" => state'[j] = "queued"
  BY <1>1, <1>2
<1>6. InOnePlace'
  BY <1>1, <1>4, <1>5 DEF IInv, InOnePlace, Busy
<1>7. Rivalry'
  BY <1>1, <1>2 DEF IInv, Rivalry, UnderWay
<1> QED
  BY <1>3, <1>6, <1>7 DEF IInv

(* A header thread that queues its reload and waits keeps it. *)
LEMMA SyncReloadStep ==
    ASSUME IInv, NEW t \in Readers, SyncReload(t)
    PROVE  IInv'
<1>1. /\ reader' = [reader EXCEPT ![t] = "waiting"]
      /\ queue' = Append(queue, ReloadBlock(t))
      /\ UNCHANGED << selected, state, main, shown, rivals >>
  BY DEF SyncReload
<1>2. ReloadBlock(t) \in Block /\ ReloadBlock(t)[1] = "reload"
  BY DEF Block, ReloadBlock
<1>3. queue \in Seq(Block)
  BY DEF IInv, Typed
<1>4. Typed' /\ MadeInTurn'
  BY <1>1, <1>2, <1>3, Queued DEF IInv, Typed, MadeInTurn
<1>5. \A i \in DOMAIN queue' : queue'[i][1] = "show" => i \in DOMAIN queue /\ queue'[i] = queue[i]
  BY <1>1, <1>2, <1>3, Queued
<1>6. InOnePlace'
  BY <1>1, <1>5 DEF IInv, InOnePlace, Busy
<1>7. Rivalry'
  BY <1>1 DEF IInv, Rivalry, UnderWay
<1> QED
  BY <1>4, <1>6, <1>7 DEF IInv

(* A block that is taken leaves the others where they are. *)
LEMMA BlockTaken ==
    ASSUME IInv, queue # << >>, queue' = Tail(queue), state' = state
    PROVE  /\ queue' \in Seq(Block)
           /\ \A i \in DOMAIN queue' : queue'[i][1] = "show" => state'[queue'[i][2]] = "queued"
           /\ \A i, j \in DOMAIN queue' :
                 queue'[i][1] = "show" /\ queue'[j][1] = "show" /\ queue'[i][2] = queue'[j][2] => i = j
           /\ queue[1][1] = "show" =>
                 /\ queue[1][2] \in Connections /\ state[queue[1][2]] = "queued"
                 /\ \A i \in DOMAIN queue' : queue'[i][1] = "show" => queue'[i][2] # queue[1][2]
<1>1. queue \in Seq(Block)
  BY DEF IInv, Typed
<1>2. /\ queue' \in Seq(Block) /\ 1 \in DOMAIN queue /\ queue[1] \in Block
      /\ \A i \in DOMAIN queue' : i + 1 \in DOMAIN queue /\ i + 1 # 1 /\ queue'[i] = queue[i + 1]
      /\ \A i, j \in DOMAIN queue' : i + 1 = j + 1 => i = j
  BY <1>1, Dequeued
<1>3. queue[1][1] = "show" => queue[1][2] \in Connections
  BY <1>2 DEF Block
<1> QED
  BY <1>2, <1>3 DEF IInv, InOnePlace

(* A reload that runs on the main thread keeps it. *)
LEMMA RunReloadStep ==
    ASSUME IInv, RunReload
    PROVE  IInv'
<1>1. /\ main = Free /\ queue # << >> /\ queue[1][1] = "reload" /\ queue' = Tail(queue)
      /\ reader' = [reader EXCEPT ![queue[1][2]] = "running"]
      /\ UNCHANGED << selected, state, main, shown, rivals >>
  BY DEF RunReload
<1>2. ~Busy'
  BY <1>1 DEF Busy, Free
<1>3. Typed'
  BY <1>1, BlockTaken DEF IInv, Typed
<1>4. InOnePlace'
  BY <1>1, <1>2, BlockTaken DEF InOnePlace
<1>5. MadeInTurn' /\ Rivalry'
  BY <1>1 DEF IInv, MadeInTurn, Rivalry, UnderWay
<1> QED
  BY <1>3, <1>4, <1>5 DEF IInv

(* An article that is shown was a rival of every later one. *)
LEMMA Shows ==
    ASSUME IInv, NEW k \in Connections, state[k] = "queued", Show(k),
           UNCHANGED << selected, rivals >>
    PROVE  /\ state' \in [Connections -> States]
           /\ \A j \in Connections : j # k => state'[j] = state[j]
           /\ MadeInTurn' /\ Rivalry'
<1>1. /\ state' \in [Connections -> States] /\ state'[k] = "shown" /\ shown' = k
      /\ \A j \in Connections : j # k => state'[j] = state[j]
  BY DEF Show, IInv, Typed, States
<1>2. MadeInTurn'
  BY <1>1 DEF IInv, MadeInTurn
<1>3. \A j \in Connections : j < k \/ j = k \/ k < j
  BY DisplayAssumption DEF Connections
<1>4. UnderWay(k) /\ \A j \in Connections : UnderWay(j)' => UnderWay(j)
  BY <1>1 DEF UnderWay
<1>5. Rivalry'
  <2>1. ASSUME NEW i \in Connections, NEW j \in Connections, i < j, UnderWay(i)', state'[j] # "none"
        PROVE  i \in rivals'[j]
    BY <1>1, <1>4, <2>1 DEF IInv, Rivalry
  <2>2. ASSUME NEW j \in Connections, state'[j] = "shown"
        PROVE  shown' \in Connections /\ (shown' >= j \/ shown' \in rivals'[j])
    BY <1>1, <1>3, <1>4, <2>2, DisplayAssumption DEF IInv, Rivalry, Connections
  <2> QED
    BY <2>1, <2>2 DEF Rivalry
<1> QED
  BY <1>1, <1>2, <1>5

(* An article taken from the queue to be shown keeps it. *)
LEMMA RunShowStep ==
    ASSUME IInv, RunShow
    PROVE  IInv'
<1> DEFINE k == queue[1][2]
<1>1. /\ main = Free /\ queue # << >> /\ queue[1][1] = "show" /\ queue' = Tail(queue)
      /\ UNCHANGED << selected, reader, rivals >>
  BY DEF RunShow
<1>2. \/ \E d \in {"crashed", "uudecode"} :
            main' = [doing |-> d, of |-> k] /\ UNCHANGED << shown, state >>
      \/ Show(k) /\ main' = main
  BY DEF RunShow
<1>3. /\ queue \in Seq(Block) /\ 1 \in DOMAIN queue /\ queue[1] \in Block
      /\ \A i \in DOMAIN queue' : i + 1 \in DOMAIN queue /\ i + 1 # 1 /\ queue'[i] = queue[i + 1]
      /\ \A i, j \in DOMAIN queue' : i + 1 = j + 1 => i = j
      /\ queue' \in Seq(Block)
  BY <1>1, Dequeued DEF IInv, Typed
<1>4. k \in Connections /\ state[k] = "queued" /\ k \in Nat
  BY <1>1, <1>3 DEF IInv, InOnePlace, Block, Connections
<1>5. \A i \in DOMAIN queue' : queue'[i][1] = "show" =>
         queue'[i][2] # k /\ queue'[i][2] \in Connections /\ state[queue'[i][2]] = "queued"
  BY <1>1, <1>3 DEF IInv, InOnePlace, Block
<1>6. \A i, j \in DOMAIN queue' :
         queue'[i][1] = "show" /\ queue'[j][1] = "show" /\ queue'[i][2] = queue'[j][2] => i = j
  BY <1>3, SMTT(60) DEF IInv, InOnePlace
<1> HIDE DEF k
<1>7. CASE \E d \in {"crashed", "uudecode"} :
             main' = [doing |-> d, of |-> k] /\ UNCHANGED << shown, state >>
  <2>1. main'.of = k /\ main' \in [doing : {"free", "crashed", "uudecode", "open"}, of : Nat]
    BY <1>4, <1>7
  <2>2. Typed' /\ MadeInTurn' /\ Rivalry'
    BY <1>1, <1>3, <1>7, <2>1 DEF IInv, Typed, MadeInTurn, Rivalry, UnderWay
  <2>3. InOnePlace'
    BY <1>4, <1>5, <1>6, <1>7, <2>1 DEF InOnePlace
  <2> QED
    BY <2>2, <2>3 DEF IInv
<1>8. CASE Show(k) /\ main' = main
  <2>1. /\ state' \in [Connections -> States] /\ MadeInTurn' /\ Rivalry'
        /\ \A j \in Connections : j # k => state'[j] = state[j]
    BY <1>1, <1>4, <1>8, Shows
  <2>2. Typed'
    BY <1>1, <1>3, <1>8, <2>1 DEF IInv, Typed
  <2>3. ~Busy'
    BY <1>1, <1>8 DEF Busy, Free
  <2>4. InOnePlace'
    BY <1>5, <1>6, <2>1, <2>3 DEF InOnePlace
  <2> QED
    BY <2>1, <2>2, <2>4 DEF IInv
<1> QED
  BY <1>2, <1>7, <1>8

(* The main thread comes back from uudecode, and from opening the picture. *)
LEMMA ChildStep ==
    ASSUME IInv, Uudecoded \/ Opened
    PROVE  IInv'
<1>1. Busy /\ UNCHANGED << selected, queue, reader, rivals >>
  BY DEF Uudecoded, Opened, Busy
<1>2. \/ main' = [main EXCEPT !.doing = "open"] /\ UNCHANGED << shown, state >>
      \/ main' = Free /\ Show(main.of)
  BY DEF Uudecoded, Opened
<1>3. main.of \in Connections /\ state[main.of] = "queued"
      /\ \A i \in DOMAIN queue : queue[i][1] = "show" =>
            queue[i][2] # main.of /\ queue[i][2] \in Connections
  BY <1>1 DEF IInv, Typed, InOnePlace, Block
<1>4. CASE main' = [main EXCEPT !.doing = "open"] /\ UNCHANGED << shown, state >>
  <2>1. main'.of = main.of /\ main' \in [doing : {"free", "crashed", "uudecode", "open"}, of : Nat]
    BY <1>4 DEF IInv, Typed
  <2>2. Typed' /\ MadeInTurn' /\ Rivalry'
    BY <1>1, <1>4, <2>1 DEF IInv, Typed, MadeInTurn, Rivalry, UnderWay
  <2>3. InOnePlace'
    BY <1>1, <1>3, <1>4, <2>1 DEF IInv, InOnePlace
  <2> QED
    BY <2>2, <2>3 DEF IInv
<1>5. CASE main' = Free /\ Show(main.of)
  <2>1. /\ state' \in [Connections -> States] /\ MadeInTurn' /\ Rivalry'
        /\ \A j \in Connections : j # main.of => state'[j] = state[j]
    BY <1>1, <1>3, <1>5, Shows
  <2>2. Typed'
    BY <1>1, <1>5, <2>1 DEF IInv, Typed, Free
  <2>3. ~Busy'
    BY <1>5 DEF Busy, Free
  <2>4. InOnePlace'
    BY <1>1, <1>3, <2>1, <2>3 DEF IInv, InOnePlace
  <2> QED
    BY <2>1, <2>2, <2>4 DEF IInv
<1> QED
  BY <1>2, <1>4, <1>5

(* So it is an invariant. *)
LEMMA Invariance == Spec => []IInv
<1>1. IInv /\ [Next]_vars => IInv'
  <2> SUFFICES ASSUME IInv, [Next]_vars PROVE IInv'
    OBVIOUS
  <2>1. ASSUME NEW a \in Articles, Select(a) PROVE IInv'
    BY <2>1, SelectStep
  <2>2. ASSUME NEW k \in Connections, OnNewArticle(k) \/ Fail(k) PROVE IInv'
    BY <2>2, OnNewArticleStep, FailStep
  <2>3. ASSUME NEW t \in Readers, SyncReload(t) PROVE IInv'
    BY <2>3, SyncReloadStep
  <2>4. CASE Main
    BY <2>4, RunReloadStep, RunShowStep, ChildStep DEF Main
  <2>5. CASE UNCHANGED vars
    BY <2>5 DEF vars, IInv, Typed, MadeInTurn, InOnePlace, Busy, Rivalry, UnderWay
  <2> QED
    BY <2>1, <2>2, <2>3, <2>4, <2>5 DEF Next
<1> QED
  BY InitIInv, <1>1, PTL DEF Spec
-------------------------------------------------------------------------------
(* An article that has been shown gives way to an earlier selection only if *)
(* that one was under way when it was selected (onNewArticle).              *)
THEOREM OvertakenByRivals == Spec => []GivesWayToRivals
<1>1. IInv => GivesWayToRivals
  BY DEF IInv, Rivalry, GivesWayToRivals
<1> QED
  BY <1>1, Invariance, PTL
-------------------------------------------------------------------------------
(***************************************************************************)
(* The text of an article before it is shown: what Decoding makes of the    *)
(* bytes, proved for any characters and any buffer.                         *)
(***************************************************************************)
(* The bytes there are: first ones of any character, second ones of a wide. *)
FirstBytes == Characters \X {1}
AllBytes == FirstBytes \union (Wide \X {2})

(* Every character has bytes. *)
LEMMA BytesType ==
    ASSUME NEW c \in Characters
    PROVE  /\ Bytes(c) \in Seq(AllBytes)
           /\ << c, 1 >> \in AllBytes
           /\ c \in Wide => << c, 2 >> \in AllBytes
<1>1. << c, 1 >> \in AllBytes /\ (c \in Wide => << c, 2 >> \in AllBytes)
  BY DEF AllBytes, FirstBytes
<1>2. CASE c \in Wide
  BY <1>1, <1>2 DEF Bytes
<1>3. CASE c \notin Wide
  BY <1>1, <1>3 DEF Bytes
<1> QED BY <1>1, <1>2, <1>3

(* The bytes of a text are those of its characters, one after the other. *)
LEMMA EncodingAppend ==
    ASSUME NEW s \in Seq(Characters)
    PROVE  /\ Encoding(<< >>) = << >>
           /\ Encoding(s) \in Seq(AllBytes)
           /\ \A c \in Characters :
                 Encoding(Append(s, c)) = Encoding(s) \o Bytes(c)
<1> DEFINE F == [c \in Characters |-> Bytes(c)]
<1>1. F \in [Characters -> Seq(AllBytes)]
  BY BytesType
<1>2. \A t \in Seq(Characters) :
         Each(F, t) \in Seq(Seq(AllBytes)) /\ Encoding(t) = FlattenSeq(Each(F, t))
  <2> SUFFICES ASSUME NEW t \in Seq(Characters)
               PROVE  /\ Each(F, t) \in Seq(Seq(AllBytes))
                      /\ Encoding(t) = FlattenSeq(Each(F, t))
    OBVIOUS
  <2>1. Each(F, t) \in Seq(Seq(AllBytes))
    BY <1>1, EachType, Zenon
  <2>2. \A i \in DOMAIN t : t[i] \in Characters
    OBVIOUS
  <2>3. Each(F, t) = [i \in DOMAIN t |-> Bytes(t[i])]
    BY <2>2 DEF Each
  <2> QED BY <2>1, <2>3 DEF Encoding
<1> HIDE DEF F
<1>3. /\ << >> \in Seq(Characters) /\ Each(F, << >>) = << >>
      /\ FlattenSeq(<< >>) = << >>
  <2>1. << >> \in Seq(Characters)
    OBVIOUS
  <2>2. Each(F, << >>) = << >>
    BY <1>1, <2>1, EachType, Zenon
  <2>3. << >> \in Seq(Seq(AllBytes)) /\ << >> \in Seq(AllBytes)
    OBVIOUS
  <2> QED BY <2>1, <2>2, <2>3, FlattenAppend, Zenon
<1>4. Encoding(<< >>) = << >>
  BY <1>2, <1>3
<1>5. Encoding(s) \in Seq(AllBytes)
  BY <1>2, FlattenType
<1>6. ASSUME NEW c \in Characters
      PROVE  Encoding(Append(s, c)) = Encoding(s) \o Bytes(c)
  <2>1. Append(s, c) \in Seq(Characters)
    OBVIOUS
  <2>2. Each(F, Append(s, c)) = Append(Each(F, s), F[c])
    BY <1>1, EachAppend, ZenonT(60)
  <2>3. F[c] = Bytes(c) /\ F[c] \in Seq(AllBytes)
    BY BytesType DEF F
  <2>4. FlattenSeq(Append(Each(F, s), F[c])) = FlattenSeq(Each(F, s)) \o F[c]
    BY <1>2, <2>3, FlattenAppend
  <2> QED BY <1>2, <2>1, <2>2, <2>3, <2>4
<1> QED BY <1>4, <1>5, <1>6

(* The bytes of two texts, one after the other. *)
LEMMA EncodingConcat ==
    ASSUME NEW s \in Seq(Characters), NEW t \in Seq(Characters)
    PROVE  Encoding(s \o t) = Encoding(s) \o Encoding(t)
<1> DEFINE Enc(u) == Encoding(u)
           T == {u \in Seq(Characters) : Enc(s \o u) = Enc(s) \o Enc(u)}
<1>0. /\ \A u \in Seq(Characters) : Enc(u) \in Seq(AllBytes)
      /\ \A u \in Seq(Characters), c \in Characters :
            Enc(Append(u, c)) = Enc(u) \o Bytes(c)
      /\ Enc(<< >>) = << >>
      /\ \A c \in Characters : Bytes(c) \in Seq(AllBytes)
  BY EncodingAppend, BytesType, Zenon
<1> HIDE DEF Enc
<1>1. << >> \in T
  <2>1. << >> \in Seq(Characters) /\ s \o << >> = s
    OBVIOUS
  <2>2. Enc(s) \o << >> = Enc(s)
    BY <1>0
  <2> QED BY <1>0, <2>1, <2>2
<1>2. ASSUME NEW u \in Seq(Characters), NEW c \in Characters, u \in T PROVE Append(u, c) \in T
  <2>1. /\ s \o u \in Seq(Characters) /\ Append(u, c) \in Seq(Characters)
        /\ s \o Append(u, c) = Append(s \o u, c)
    <3>1. Longer(Joined(s, u), c) = Joined(s, Longer(u, c))
      BY LongerBehind
    <3>2. s \o Append(u, c) = Append(s \o u, c)
      BY <3>1 DEF Longer, Joined
    <3>3. s \o u \in Seq(Characters) /\ Append(u, c) \in Seq(Characters)
      BY ConcatProperties, AppendProperties
    <3> QED BY <3>2, <3>3
  <2>2. Enc(Append(s \o u, c)) = (Enc(s) \o Enc(u)) \o Bytes(c)
    <3>1. Enc(Append(s \o u, c)) = Enc(s \o u) \o Bytes(c)
      BY <1>0, <2>1
    <3>2. Enc(s \o u) = Enc(s) \o Enc(u)
      BY <1>2
    <3> QED BY <3>1, <3>2
  <2>3. (Enc(s) \o Enc(u)) \o Bytes(c) = Enc(s) \o (Enc(u) \o Bytes(c))
    <3>1. /\ Enc(s) \in Seq(AllBytes) /\ Enc(u) \in Seq(AllBytes)
          /\ Bytes(c) \in Seq(AllBytes)
      BY <1>0
    <3>2. Joined(Joined(Enc(s), Enc(u)), Bytes(c)) = Joined(Enc(s), Joined(Enc(u), Bytes(c)))
      BY <3>1, Regrouped
    <3> QED BY <3>2 DEF Joined
  <2>4. Enc(Append(u, c)) = Enc(u) \o Bytes(c)
    BY <1>0
  <2> QED BY <2>1, <2>2, <2>3, <2>4
<1>3. Seq(Characters) \subseteq T
  <2> HIDE DEF T
  <2> QED BY <1>1, <1>2, SequenceInduction
<1> QED BY <1>3 DEF Enc

(* A character that is added to two texts is added to the second. *)
LEMMA AppendBehind ==
    ASSUME NEW s \in Seq(Characters), NEW t \in Seq(Characters), NEW c \in Characters
    PROVE  Append(s \o t, c) = s \o Append(t, c)
<1>1. Longer(Joined(s, t), c) = Joined(s, Longer(t, c))
  BY LongerBehind
<1> QED BY <1>1 DEF Longer, Joined

(* What is decoded of bytes that come one by one: a character with its first.*)
LEMMA DecodedAppend ==
    ASSUME NEW b \in Seq(AllBytes)
    PROVE  /\ AsUTF8(<< >>) = << >>
           /\ AsUTF8(b) \in Seq(Characters)
           /\ \A x \in AllBytes :
                 AsUTF8(Append(b, x)) =
                   IF x[2] = 1 THEN Append(AsUTF8(b), x[1]) ELSE AsUTF8(b)
<1> DEFINE F == [x \in FirstBytes |-> x[1]]
           First(u) == Within(u, FirstBytes)
<1>1. F \in [FirstBytes -> Characters]
  BY DEF FirstBytes
<1>2. \A u \in Seq(AllBytes) :
         First(u) \in Seq(AllBytes) /\ \A i \in DOMAIN First(u) : First(u)[i] \in FirstBytes
  <2> DEFINE T == {u \in Seq(AllBytes) : First(u) \in Seq(FirstBytes)}
  <2>1. << >> \in T
    <3>1. << >> \in Seq(AllBytes) /\ << >> \in Seq(FirstBytes)
      OBVIOUS
    <3>2. Within(<< >>, FirstBytes) = << >>
      BY <3>1, WithinEmpty
    <3> QED BY <3>1, <3>2
  <2>2. ASSUME NEW u \in Seq(AllBytes), NEW x \in AllBytes, u \in T PROVE Append(u, x) \in T
    <3>1. Append(u, x) \in Seq(AllBytes)
      OBVIOUS
    <3>2. /\ x \in FirstBytes => First(Append(u, x)) = Append(First(u), x)
          /\ x \notin FirstBytes => First(Append(u, x)) = First(u)
      BY WithinAppend, SMTT(60)
    <3>3. First(u) \in Seq(FirstBytes)
      BY <2>2
    <3> HIDE DEF First
    <3>4. x \in FirstBytes => Append(First(u), x) \in Seq(FirstBytes)
      BY <3>3, AppendProperties
    <3>5. First(Append(u, x)) \in Seq(FirstBytes)
      BY <3>2, <3>3, <3>4
    <3> QED BY <3>1, <3>5
  <2>3. Seq(AllBytes) \subseteq T
    <3> HIDE DEF T
    <3> QED BY <2>1, <2>2, SequenceInduction
  <2>4. \A u \in Seq(AllBytes) : First(u) \in Seq(AllBytes)
    BY WithinType
  <2> HIDE DEF First
  <2> QED BY <2>3, <2>4
<1>3. \A u \in Seq(AllBytes) : First(u) \in Seq(FirstBytes)
  <2> HIDE DEF First
  <2> QED BY <1>2
<1>4. \A u \in Seq(AllBytes) : AsUTF8(u) = Each(F, First(u))
  <2> SUFFICES ASSUME NEW u \in Seq(AllBytes) PROVE AsUTF8(u) = Each(F, First(u))
    OBVIOUS
  <2>1. Within(u, FirstBytes) = First(u)
    OBVIOUS
  <2>2. AsUTF8(u) = [i \in DOMAIN First(u) |-> First(u)[i][1]]
    BY <2>1 DEF AsUTF8, FirstBytes, Characters
  <2>3. \A i \in DOMAIN First(u) : F[First(u)[i]] = First(u)[i][1]
    BY <1>2
  <2> HIDE DEF First, F
  <2>4. Each(F, First(u)) = [i \in DOMAIN First(u) |-> First(u)[i][1]]
    BY <2>3 DEF Each
  <2> QED BY <2>2, <2>4
<1>5. /\ << >> \in Seq(AllBytes) /\ First(<< >>) = << >> /\ << >> \in Seq(FirstBytes)
      /\ \A x \in AllBytes : Append(b, x) \in Seq(AllBytes)
      /\ \A x \in AllBytes : x[2] = 1 <=> x \in FirstBytes
      /\ \A x \in FirstBytes : F[x] = x[1]
  <2>1. << >> \in Seq(AllBytes) /\ << >> \in Seq(FirstBytes)
    OBVIOUS
  <2>2. First(<< >>) = << >>
    BY <2>1, WithinEmpty
  <2>3. \A x \in AllBytes : Append(b, x) \in Seq(AllBytes)
    OBVIOUS
  <2>4. \A x \in AllBytes : x[2] = 1 <=> x \in FirstBytes
    BY DEF AllBytes, FirstBytes
  <2> QED BY <2>1, <2>2, <2>3, <2>4
<1>6. \A x \in AllBytes : /\ x \in FirstBytes => First(Append(b, x)) = Append(First(b), x)
                          /\ x \notin FirstBytes => First(Append(b, x)) = First(b)
  BY WithinAppend
<1> HIDE DEF First, F
<1>7. AsUTF8(<< >>) = << >>
  <2>1. Each(F, << >>) = << >>
    BY <1>1, <1>5, EachType, Zenon
  <2> QED BY <1>4, <1>5, <2>1
<1>8. AsUTF8(b) \in Seq(Characters)
  <2>1. Each(F, First(b)) \in Seq(Characters)
    BY <1>1, <1>3, EachType, Zenon
  <2> QED BY <1>4, <2>1
<1>9. ASSUME NEW x \in AllBytes
      PROVE  AsUTF8(Append(b, x)) =
               IF x[2] = 1 THEN Append(AsUTF8(b), x[1]) ELSE AsUTF8(b)
  <2>1. CASE x \in FirstBytes
    <3>1. Each(F, Append(First(b), x)) = Append(Each(F, First(b)), F[x])
      BY <1>1, <1>3, <2>1, EachAppend, ZenonT(60)
    <3> QED BY <1>4, <1>5, <1>6, <2>1, <3>1
  <2>2. CASE x \notin FirstBytes
    BY <1>4, <1>5, <1>6, <2>2
  <2> QED BY <2>1, <2>2
<1> QED BY <1>7, <1>8, <1>9

(* What is decoded of bytes that come in two reads, if none is damaged. *)
LEMMA DecodedConcat ==
    ASSUME NEW a \in Seq(AllBytes), NEW b \in Seq(AllBytes)
    PROVE  AsUTF8(a \o b) = AsUTF8(a) \o AsUTF8(b)
<1> DEFINE Dec(u) == AsUTF8(u)
           T == {u \in Seq(AllBytes) : Dec(a \o u) = Dec(a) \o Dec(u)}
<1>0. /\ \A u \in Seq(AllBytes) : Dec(u) \in Seq(Characters)
      /\ \A u \in Seq(AllBytes), x \in AllBytes :
            Dec(Append(u, x)) = IF x[2] = 1 THEN Append(Dec(u), x[1]) ELSE Dec(u)
      /\ Dec(<< >>) = << >>
      /\ \A x \in AllBytes : x[1] \in Characters
  <2>1. \A x \in AllBytes : x[1] \in Characters
    BY DEF AllBytes, FirstBytes, Characters
  <2> QED BY <2>1, DecodedAppend, Zenon
<1> HIDE DEF Dec
<1>1. << >> \in T
  <2>1. << >> \in Seq(AllBytes) /\ a \o << >> = a
    OBVIOUS
  <2>2. Dec(a) \o << >> = Dec(a)
    BY <1>0
  <2> QED BY <1>0, <2>1, <2>2
<1>2. ASSUME NEW u \in Seq(AllBytes), NEW x \in AllBytes, u \in T PROVE Append(u, x) \in T
  <2>1. /\ a \o u \in Seq(AllBytes) /\ Append(u, x) \in Seq(AllBytes)
        /\ a \o Append(u, x) = Append(a \o u, x)
    OBVIOUS
  <2>2. /\ Dec(Append(a \o u, x)) = IF x[2] = 1 THEN Append(Dec(a) \o Dec(u), x[1])
                                    ELSE Dec(a) \o Dec(u)
        /\ Dec(Append(u, x)) = IF x[2] = 1 THEN Append(Dec(u), x[1]) ELSE Dec(u)
    BY <1>0, <1>2, <2>1, ZenonT(60)
  <2>3. /\ Dec(a) \in Seq(Characters) /\ Dec(u) \in Seq(Characters) /\ x[1] \in Characters
    BY <1>0
  <2>4. Append(Dec(a) \o Dec(u), x[1]) = Dec(a) \o Append(Dec(u), x[1])
    <3>1. PICK p \in Seq(Characters), q \in Seq(Characters), c \in Characters :
             p = Dec(a) /\ q = Dec(u) /\ c = x[1]
      BY <2>3
    <3>2. Append(p \o q, c) = p \o Append(q, c)
      BY AppendBehind
    <3> QED BY <3>1, <3>2
  <2> QED BY <2>1, <2>2, <2>4
<1>3. Seq(AllBytes) \subseteq T
  <2> HIDE DEF T
  <2> QED BY <1>1, <1>2, SequenceInduction
<1> QED BY <1>3 DEF Dec

(* A character with its bytes, after others: it is decoded to itself. *)
LEMMA DecodedCharacter ==
    ASSUME NEW b \in Seq(AllBytes), NEW c \in Characters
    PROVE  AsUTF8(b \o Bytes(c)) = Append(AsUTF8(b), c)
<1>1. /\ << c, 1 >> \in AllBytes /\ (c \in Wide => << c, 2 >> \in AllBytes)
      /\ Append(b, << c, 1 >>) \in Seq(AllBytes)
  <2>1. << c, 1 >> \in AllBytes /\ (c \in Wide => << c, 2 >> \in AllBytes)
    BY BytesType
  <2> QED BY <2>1
<1>2. AsUTF8(Append(b, << c, 1 >>)) = Append(AsUTF8(b), c)
  <2>1. << c, 1 >>[2] = 1 /\ << c, 1 >>[1] = c
    OBVIOUS
  <2> QED BY <1>1, <2>1, DecodedAppend
<1>3. CASE c \in Wide
  <2>1. << c, 2 >>[2] # 1
    OBVIOUS
  <2>2. AsUTF8(Append(Append(b, << c, 1 >>), << c, 2 >>)) = AsUTF8(Append(b, << c, 1 >>))
    BY <1>1, <1>3, <2>1, DecodedAppend
  <2>3. \A p, q \in AllBytes : b \o << p, q >> = Append(Append(b, p), q)
    OBVIOUS
  <2>4. b \o Bytes(c) = Append(Append(b, << c, 1 >>), << c, 2 >>)
    BY <1>1, <1>3, <2>3, Zenon DEF Bytes
  <2> QED BY <1>2, <2>2, <2>4
<1>4. CASE c \notin Wide
  <2>1. \A p \in AllBytes : b \o << p >> = Append(b, p)
    OBVIOUS
  <2>2. b \o Bytes(c) = Append(b, << c, 1 >>)
    BY <1>1, <1>4, <2>1, Zenon DEF Bytes
  <2> QED BY <1>2, <2>2
<1> QED BY <1>3, <1>4

(* Decoding undoes encoding. *)
LEMMA DecodedEncoding ==
    ASSUME NEW s \in Seq(Characters)
    PROVE  AsUTF8(Encoding(s)) = s
<1> DEFINE T == {u \in Seq(Characters) : AsUTF8(Encoding(u)) = u}
<1>1. << >> \in T
  <2>1. << >> \in Seq(Characters) /\ << >> \in Seq(AllBytes)
    OBVIOUS
  <2> QED BY <2>1, EncodingAppend, DecodedAppend
<1>2. ASSUME NEW u \in Seq(Characters), NEW c \in Characters, u \in T PROVE Append(u, c) \in T
  <2>1. Append(u, c) \in Seq(Characters)
    OBVIOUS
  <2>2. /\ Encoding(u) \in Seq(AllBytes)
        /\ Encoding(Append(u, c)) = Encoding(u) \o Bytes(c)
    BY EncodingAppend
  <2>3. AsUTF8(Encoding(u) \o Bytes(c)) = Append(AsUTF8(Encoding(u)), c)
    BY <2>2, DecodedCharacter
  <2> QED BY <1>2, <2>1, <2>2, <2>3
<1>3. Seq(Characters) \subseteq T
  <2> HIDE DEF T
  <2> QED BY <1>1, <1>2, SequenceInduction
<1> QED BY <1>3

(* Two sequences that are thinned are a thinned one, one after the other. *)
LEMMA ThinnedConcat ==
    ASSUME NEW S,
           NEW s \in Seq(S), NEW t \in Seq(S), NEW u \in Seq(S), NEW v \in Seq(S),
           IsThinned(s, t), IsThinned(u, v)
    PROVE  IsThinned(s \o u, t \o v)
<1>1. PICK p \in [DOMAIN s -> DOMAIN t] :
         /\ \A i, j \in DOMAIN s : i < j => p[i] < p[j]
         /\ \A i \in DOMAIN s : s[i] = t[p[i]]
  BY DEF IsThinned
<1>2. PICK q \in [DOMAIN u -> DOMAIN v] :
         /\ \A i, j \in DOMAIN u : i < j => q[i] < q[j]
         /\ \A i \in DOMAIN u : u[i] = v[q[i]]
  BY DEF IsThinned
<1> DEFINE su == s \o u
           tv == t \o v
           m == Len(s)
           n == Len(t)
           r == [i \in DOMAIN su |-> IF i <= m THEN p[i] ELSE n + q[i - m]]
<1>3. /\ m \in Nat /\ n \in Nat /\ Len(u) \in Nat /\ Len(v) \in Nat
      /\ DOMAIN s = 1 .. m /\ DOMAIN t = 1 .. n
      /\ DOMAIN u = 1 .. Len(u) /\ DOMAIN v = 1 .. Len(v)
  BY LenProperties
<1>4. /\ su \in Seq(S) /\ DOMAIN su = 1 .. m + Len(u)
      /\ \A i \in DOMAIN su : su[i] = IF i <= m THEN s[i] ELSE u[i - m]
  BY <1>3, ConcatProperties, LenProperties
<1>5. /\ tv \in Seq(S) /\ DOMAIN tv = 1 .. n + Len(v)
      /\ \A i \in DOMAIN tv : tv[i] = IF i <= n THEN t[i] ELSE v[i - n]
  BY <1>3, ConcatProperties, LenProperties
<1> HIDE DEF su, tv, m, n
<1>6. \A i \in DOMAIN su : \/ i <= m /\ i \in DOMAIN s
                           \/ ~(i <= m) /\ i - m \in DOMAIN u
  BY <1>3, <1>4
<1>7. \A i \in DOMAIN su : i <= m => /\ r[i] = p[i] /\ r[i] \in 1 .. n
                                     /\ r[i] \in DOMAIN tv /\ su[i] = tv[r[i]]
  <2> SUFFICES ASSUME NEW i \in DOMAIN su, i <= m
               PROVE  /\ r[i] = p[i] /\ r[i] \in 1 .. n
                      /\ r[i] \in DOMAIN tv /\ su[i] = tv[r[i]]
    OBVIOUS
  <2>1. i \in DOMAIN s /\ r[i] = p[i] /\ p[i] \in 1 .. n /\ s[i] = t[p[i]]
    BY <1>1, <1>3, <1>6
  <2>2. p[i] \in DOMAIN tv /\ p[i] <= n
    BY <1>3, <1>5, <2>1
  <2> QED BY <1>4, <1>5, <2>1, <2>2
<1>8. \A i \in DOMAIN su : ~(i <= m) => /\ r[i] = n + q[i - m] /\ q[i - m] \in 1 .. Len(v)
                                        /\ r[i] \in DOMAIN tv /\ su[i] = tv[r[i]]
  <2> SUFFICES ASSUME NEW i \in DOMAIN su, ~(i <= m)
               PROVE  /\ r[i] = n + q[i - m] /\ q[i - m] \in 1 .. Len(v)
                      /\ r[i] \in DOMAIN tv /\ su[i] = tv[r[i]]
    OBVIOUS
  <2>1. /\ i - m \in DOMAIN u /\ r[i] = n + q[i - m]
        /\ q[i - m] \in 1 .. Len(v) /\ u[i - m] = v[q[i - m]]
    BY <1>2, <1>3, <1>6
  <2>2. n + q[i - m] \in DOMAIN tv /\ ~(n + q[i - m] <= n) /\ (n + q[i - m]) - n = q[i - m]
    BY <1>3, <1>5, <2>1
  <2>3. tv[n + q[i - m]] = v[q[i - m]]
    BY <1>5, <2>2
  <2>4. su[i] = u[i - m]
    BY <1>4
  <2> QED BY <2>1, <2>2, <2>3, <2>4
<1>9. \A i, j \in DOMAIN su : i < j => r[i] < r[j]
  <2> SUFFICES ASSUME NEW i \in DOMAIN su, NEW j \in DOMAIN su, i < j PROVE r[i] < r[j]
    OBVIOUS
  <2>0. i \in Int /\ j \in Int
    BY <1>3, <1>4
  <2>1. CASE j <= m
    <3>1. i <= m
      BY <1>3, <2>0, <2>1
    <3>2. i \in DOMAIN s /\ j \in DOMAIN s
      BY <1>6, <2>1, <3>1
    <3>3. p[i] < p[j]
      BY <1>1, <3>2
    <3> HIDE DEF r
    <3> QED BY <1>7, <2>1, <3>1, <3>3
  <2>2. CASE i <= m /\ ~(j <= m)
    <3>1. r[i] \in 1 .. n /\ r[j] = n + q[j - m] /\ q[j - m] \in 1 .. Len(v)
      BY <1>7, <1>8, <2>2
    <3> HIDE DEF r
    <3> QED BY <1>3, <3>1
  <2>3. CASE ~(i <= m)
    <3>1. ~(j <= m) /\ i - m < j - m
      BY <1>3, <2>0, <2>3
    <3>2. i - m \in DOMAIN u /\ j - m \in DOMAIN u
      BY <1>6, <2>3, <3>1
    <3>3. q[i - m] < q[j - m]
      BY <1>2, <3>1, <3>2
    <3>4. /\ r[i] = n + q[i - m] /\ r[j] = n + q[j - m]
          /\ q[i - m] \in 1 .. Len(v) /\ q[j - m] \in 1 .. Len(v)
      BY <1>8, <2>3, <3>1
    <3> HIDE DEF r
    <3> QED BY <1>3, <3>3, <3>4
  <2> QED BY <2>1, <2>2, <2>3
<1>10. r \in [DOMAIN su -> DOMAIN tv]
  BY <1>7, <1>8
<1>11. \A i \in DOMAIN su : su[i] = tv[r[i]]
  BY <1>7, <1>8
<1> HIDE DEF r
<1>12. IsThinned(su, tv)
  BY <1>9, <1>10, <1>11 DEF IsThinned
<1> QED BY <1>12 DEF su, tv

(* Nothing is left of a sequence, or all. *)
LEMMA ThinnedEnds ==
    ASSUME NEW S, NEW s \in Seq(S)
    PROVE  IsThinned(<< >>, s) /\ IsThinned(s, s)
<1>1. IsThinned(<< >>, s)
  <2> DEFINE p == [i \in DOMAIN << >> |-> 1]
  <2>1. DOMAIN << >> = {}
    OBVIOUS
  <2>2. p \in [DOMAIN << >> -> DOMAIN s]
    BY <2>1
  <2> HIDE DEF p
  <2> QED BY <2>1, <2>2 DEF IsThinned
<1>2. IsThinned(s, s)
  <2> DEFINE p == [i \in DOMAIN s |-> i]
  <2>1. /\ p \in [DOMAIN s -> DOMAIN s]
        /\ \A i, j \in DOMAIN s : i < j => p[i] < p[j]
        /\ \A i \in DOMAIN s : s[i] = s[p[i]]
    OBVIOUS
  <2> HIDE DEF p
  <2> QED BY <2>1 DEF IsThinned
<1> QED BY <1>1, <1>2

(* What is decoded as ASCII is, without the marks, what UTF-8 would have      *)
(* given with something left out.                                            *)
Ascii(b) == [i \in DOMAIN b |-> IF b[i][1] \in Narrow THEN b[i][1] ELSE Mark]
Unmarked(s) == Without(s, {Mark})

Outcomes == Characters \union {Mark}

(* ASCII gives a text, and less than UTF-8 would. *)
LEMMA AsciiThinned ==
    ASSUME NEW b \in Seq(AllBytes)
    PROVE  /\ Ascii(b) \in Seq(Outcomes)
           /\ IsThinned(Unmarked(Ascii(b)), AsUTF8(b))
<1> DEFINE F == [x \in AllBytes |-> IF x[1] \in Narrow THEN x[1] ELSE Mark]
           Dec(u) == AsUTF8(u)
           T == {u \in Seq(AllBytes) : /\ Ascii(u) \in Seq(Outcomes)
                                       /\ IsThinned(Unmarked(Ascii(u)), Dec(u))}
<1>0. /\ \A u \in Seq(AllBytes) : Dec(u) \in Seq(Characters)
      /\ \A u \in Seq(AllBytes), x \in AllBytes :
            Dec(Append(u, x)) = IF x[2] = 1 THEN Append(Dec(u), x[1]) ELSE Dec(u)
      /\ Dec(<< >>) = << >>
  BY DecodedAppend, Zenon
<1> HIDE DEF Dec
<1>1. F \in [AllBytes -> Outcomes]
  BY DEF AllBytes, FirstBytes, Outcomes, Characters
<1>2. \A u \in Seq(AllBytes) : Ascii(u) = Each(F, u) /\ Ascii(u) \in Seq(Outcomes)
  <2> SUFFICES ASSUME NEW u \in Seq(AllBytes)
               PROVE  Ascii(u) = Each(F, u) /\ Ascii(u) \in Seq(Outcomes)
    OBVIOUS
  <2>1. \A i \in DOMAIN u : u[i] \in AllBytes
    OBVIOUS
  <2>2. Each(F, u) = Ascii(u)
    BY <2>1 DEF Each, Ascii
  <2>3. Each(F, u) \in Seq(Outcomes)
    BY <1>1, EachType, Zenon
  <2> QED BY <2>2, <2>3
<1>3. \A x \in AllBytes : /\ x[1] \in Characters /\ Mark \notin Characters
                          /\ F[x] = IF x[1] \in Narrow THEN x[1] ELSE Mark
                          /\ x[1] \in Narrow => x[2] = 1
  BY DecodingAssumption DEF AllBytes, FirstBytes, Characters
<1> HIDE DEF F
<1>4. << >> \in T
  <2>1. << >> \in Seq(AllBytes) /\ << >> \in Seq(Outcomes) /\ << >> \in Seq(Characters)
    OBVIOUS
  <2>2. Ascii(<< >>) = << >>
    BY DEF Ascii
  <2>3. Unmarked(<< >>) = << >>
    BY WithinEmpty DEF Unmarked, Without
  <2>4. IsThinned(<< >>, << >>)
    BY <2>1, ThinnedEnds
  <2> QED BY <1>0, <2>1, <2>2, <2>3, <2>4
<1>5. ASSUME NEW u \in Seq(AllBytes), NEW x \in AllBytes, u \in T PROVE Append(u, x) \in T
  <2>1. Append(u, x) \in Seq(AllBytes) /\ Ascii(Append(u, x)) \in Seq(Outcomes)
    BY <1>2, AppendProperties
  <2>2. Ascii(Append(u, x)) = Append(Ascii(u), F[x])
    <3>1. Each(F, Append(u, x)) = Append(Each(F, u), F[x])
      BY <1>1, EachAppend, ZenonT(60)
    <3> QED BY <1>2, <2>1, <3>1
  <2>3. /\ Ascii(u) \in Seq(Outcomes) /\ F[x] \in Outcomes
        /\ IsThinned(Unmarked(Ascii(u)), Dec(u))
    BY <1>1, <1>5
  <2>4. /\ F[x] # Mark => Unmarked(Ascii(Append(u, x))) = Append(Unmarked(Ascii(u)), F[x])
        /\ F[x] = Mark => Unmarked(Ascii(Append(u, x))) = Unmarked(Ascii(u))
    <3>1. \A v \in Seq(Outcomes), e \in Outcomes :
             /\ e \notin {Mark} => Without(Append(v, e), {Mark}) = Append(Without(v, {Mark}), e)
             /\ e \in {Mark} => Without(Append(v, e), {Mark}) = Without(v, {Mark})
      <4> TAKE v \in Seq(Outcomes), e \in Outcomes
      <4> QED BY WithoutAppend
    <3>2. \A e : e \in {Mark} <=> e = Mark
      OBVIOUS
    <3> QED BY <2>2, <2>3, <3>1, <3>2, ZenonT(60) DEF Unmarked
  <2>5. Unmarked(Ascii(u)) \in Seq(Outcomes)
    BY <2>3, WithoutType DEF Unmarked
  <2>6. Dec(u) \in Seq(Outcomes) /\ x[1] \in Outcomes
    BY <1>0, <1>3 DEF Outcomes
  <2>7. IsThinned(Unmarked(Ascii(Append(u, x))), Dec(Append(u, x)))
    <3> DEFINE a == Unmarked(Ascii(u))
               d == Dec(u)
    <3>1. a \in Seq(Outcomes) /\ d \in Seq(Outcomes) /\ IsThinned(a, d)
      BY <2>3, <2>5, <2>6
    <3> HIDE DEF a, d
    <3>2. \A e \in Outcomes : /\ << e >> \in Seq(Outcomes) /\ << >> \in Seq(Outcomes)
                              /\ Append(a, e) = a \o << e >> /\ Append(d, e) = d \o << e >>
                              /\ a \o << >> = a
      BY <3>1, SMTT(60)
    <3>3. \A e \in Outcomes : IsThinned(<< e >>, << e >>) /\ IsThinned(<< >>, << e >>)
      BY <3>2, ThinnedEnds
    <3>4. \A e \in Outcomes : IsThinned(a \o << e >>, d \o << e >>) /\ IsThinned(a \o << >>, d \o << e >>)
      BY <3>1, <3>2, <3>3, ThinnedConcat
    <3>5. \A e \in Outcomes : IsThinned(Append(a, e), Append(d, e)) /\ IsThinned(a, Append(d, e))
      BY <3>2, <3>4
    <3>6. CASE x[1] \in Narrow
      <4>1. F[x] = x[1] /\ F[x] # Mark /\ x[2] = 1
        BY <1>3, <3>6
      <4> QED BY <1>0, <2>4, <2>6, <3>5, <4>1 DEF a, d
    <3>7. CASE x[1] \notin Narrow
      <4>1. F[x] = Mark
        BY <1>3, <3>7
      <4>2. Unmarked(Ascii(Append(u, x))) = a
        BY <2>4, <4>1 DEF a
      <4>3. Dec(Append(u, x)) = Append(d, x[1]) \/ Dec(Append(u, x)) = d
        BY <1>0 DEF d
      <4> QED BY <2>6, <3>1, <3>5, <4>2, <4>3
    <3> QED BY <3>6, <3>7
  <2> QED BY <2>1, <2>7
<1>6. Seq(AllBytes) \subseteq T
  <2> HIDE DEF T
  <2> QED BY <1>4, <1>5, SequenceInduction
<1> QED BY <1>6 DEF Dec

(* A text has no marks. *)
LEMMA TextUnmarked ==
    ASSUME NEW s \in Seq(Characters)
    PROVE  Unmarked(s) = s
<1> DEFINE T == {u \in Seq(Characters) : Unmarked(u) = u}
<1>1. << >> \in T
  <2>1. << >> \in Seq(Characters)
    OBVIOUS
  <2> QED BY <2>1, WithinEmpty DEF Unmarked, Without
<1>2. ASSUME NEW u \in Seq(Characters), NEW c \in Characters, u \in T PROVE Append(u, c) \in T
  <2>1. Append(u, c) \in Seq(Characters) /\ c \notin {Mark}
    BY DecodingAssumption DEF Characters
  <2>2. Unmarked(Append(u, c)) = Append(Unmarked(u), c)
    BY <2>1, WithoutAppend DEF Unmarked
  <2> QED BY <1>2, <2>1, <2>2
<1>3. Seq(Characters) \subseteq T
  <2> HIDE DEF T
  <2> QED BY <1>1, <1>2, SequenceInduction
<1> QED BY <1>3

(* A text is cut between two characters if its bytes are: what is in front    *)
(* are the bytes of the first characters.                                    *)
LEMMA CutBetween ==
    ASSUME NEW s \in Seq(Characters), NEW k \in Nat, k <= Len(Encoding(s)),
           k < Len(Encoding(s)) => Encoding(s)[k + 1][2] # 2
    PROVE  \E u, v \in Seq(Characters) :
              s = u \o v /\ SubSeq(Encoding(s), 1, k) = Encoding(u)
<1> DEFINE Enc(t) == Encoding(t)
           Cut(t, n) == \E u, v \in Seq(Characters) : t = u \o v /\ SubSeq(Enc(t), 1, n) = Enc(u)
           T == {t \in Seq(Characters) :
                   \A n \in Nat : /\ n <= Len(Enc(t))
                                  /\ n < Len(Enc(t)) => Enc(t)[n + 1][2] # 2
                                  => Cut(t, n)}
<1>0. /\ \A t \in Seq(Characters) : Enc(t) \in Seq(AllBytes)
      /\ \A t \in Seq(Characters), c \in Characters :
            Enc(Append(t, c)) = Enc(t) \o Bytes(c)
      /\ Enc(<< >>) = << >>
      /\ << >> \in Seq(Characters)
      /\ \A c \in Characters : Bytes(c) \in Seq(AllBytes)
  <2>1. << >> \in Seq(Characters)
    OBVIOUS
  <2> QED BY <2>1, EncodingAppend, BytesType, Zenon
<1> HIDE DEF Enc
<1>1. \A t \in Seq(Characters) : Cut(t, Len(Enc(t)))
  <2> SUFFICES ASSUME NEW t \in Seq(Characters) PROVE Cut(t, Len(Enc(t)))
    OBVIOUS
  <2>1. t = t \o << >>
    OBVIOUS
  <2>2. SubSeq(Enc(t), 1, Len(Enc(t))) = Enc(t)
    BY <1>0, SubSeqFull
  <2> QED BY <1>0, <2>1, <2>2
<1>2. << >> \in T
  <2>1. ASSUME NEW n \in Nat, n <= Len(Enc(<< >>)) PROVE Cut(<< >>, n)
    <3>1. n = Len(Enc(<< >>))
      BY <1>0, <2>1
    <3> HIDE DEF Cut
    <3> QED BY <1>0, <1>1, <3>1
  <2> HIDE DEF Cut
  <2> QED BY <1>0, <2>1
<1>3. ASSUME NEW t \in Seq(Characters), NEW c \in Characters, t \in T PROVE Append(t, c) \in T
  <2> DEFINE tc == Append(t, c)
             E == Enc(t)
             B == Bytes(c)
  <2>1. tc \in Seq(Characters) /\ Enc(tc) = E \o B /\ E \in Seq(AllBytes) /\ B \in Seq(AllBytes)
    BY <1>0
  <2>2. /\ Len(E) \in Nat /\ Len(B) \in 1 .. 2
        /\ Len(B) = 2 => B[2][2] = 2
    <3>1. Len(E) \in Nat
      BY <2>1, LenProperties
    <3>2. Len(B) \in 1 .. 2 /\ (Len(B) = 2 => B[2][2] = 2)
      BY DEF Bytes
    <3> QED BY <3>1, <3>2
  <2>3. /\ Len(E \o B) = Len(E) + Len(B)
        /\ \A i \in 1 .. Len(E) + Len(B) : (E \o B)[i] = IF i <= Len(E) THEN E[i] ELSE B[i - Len(E)]
    BY <2>1, ConcatProperties
  <2> SUFFICES ASSUME NEW n \in Nat, n <= Len(Enc(tc)),
                      n < Len(Enc(tc)) => Enc(tc)[n + 1][2] # 2
               PROVE  Cut(tc, n)
    <3> HIDE DEF Cut, tc
    <3> QED BY <2>1 DEF tc
  <2> HIDE DEF tc, B
  <2>4. CASE n <= Len(E)
    <3>1. n < Len(E) => Enc(t)[n + 1][2] # 2
      <4> SUFFICES ASSUME n < Len(E) PROVE E[n + 1][2] # 2
        OBVIOUS
      <4>1. n + 1 \in 1 .. Len(E) + Len(B) /\ n + 1 <= Len(E)
        BY <2>2
      <4>2. (E \o B)[n + 1] = E[n + 1]
        BY <2>3, <4>1
      <4>3. n < Len(Enc(tc))
        BY <2>1, <2>2, <2>3
      <4> QED BY <2>1, <4>2, <4>3
    <3>2. Cut(t, n)
      BY <1>3, <2>4, <3>1
    <3>3. PICK u, v \in Seq(Characters) : t = u \o v /\ SubSeq(E, 1, n) = Enc(u)
      BY <3>2
    <3>4. Append(v, c) \in Seq(Characters) /\ tc = u \o Append(v, c)
      <4>1. u \in Seq(Characters) /\ v \in Seq(Characters) /\ Append(v, c) \in Seq(Characters)
        OBVIOUS
      <4>2. Append(u \o v, c) = u \o Append(v, c)
        BY <4>1, AppendBehind, ZenonT(60)
      <4> QED BY <3>3, <4>1, <4>2 DEF tc
    <3>5. SubSeq(E \o B, 1, n) = SubSeq(E, 1, n)
      <4>1. CASE n = 0
        BY <4>1, SubSeqEmpty
      <4>2. CASE n # 0
        <5>1. 1 \in 1 .. Len(E) /\ n \in 1 .. Len(E)
          BY <2>2, <2>4, <4>2
        <5> QED BY <2>1, <5>1, SubSeqOfConcat1
      <4> QED BY <4>1, <4>2
    <3> QED BY <2>1, <3>3, <3>4, <3>5
  <2>5. CASE ~(n <= Len(E))
    <3>1. n = Len(Enc(tc))
      <4> SUFFICES ASSUME n # Len(Enc(tc)) PROVE FALSE
        OBVIOUS
      <4>0. Len(Enc(tc)) = Len(E) + Len(B)
        BY <2>1, <2>3
      <4>1. n = Len(E) + 1 /\ Len(B) = 2
        <5>1. \A x, y, z \in Nat : /\ y \in 1 .. 2 /\ z <= x + y /\ z # x + y /\ ~(z <= x)
                                   => z = x + 1 /\ y = 2
          OBVIOUS
        <5>2. Len(B) \in Nat
          BY <2>2
        <5>3. /\ n \in Nat /\ n <= Len(E) + Len(B) /\ n # Len(E) + Len(B)
              /\ ~(n <= Len(E)) /\ Len(E) \in Nat /\ Len(B) \in 1 .. 2
          BY <2>2, <2>5, <4>0
        <5> QED BY <5>1, <5>2, <5>3
      <4>2. n + 1 \in 1 .. Len(E) + Len(B) /\ ~(n + 1 <= Len(E)) /\ (n + 1) - Len(E) = 2
        BY <2>2, <4>1
      <4>3. (E \o B)[n + 1] = B[2]
        BY <2>3, <4>2
      <4>4. n < Len(Enc(tc))
        BY <2>2, <4>0, <4>1
      <4> QED BY <2>1, <2>2, <4>1, <4>3, <4>4
    <3> HIDE DEF Cut
    <3> QED BY <1>1, <2>1, <3>1
  <2> QED BY <2>4, <2>5
<1>4. Seq(Characters) \subseteq T
  <2> HIDE DEF T
  <2> QED BY <1>2, <1>3, SequenceInduction
<1>5. Cut(s, k)
  BY <1>4 DEF Enc
<1> QED BY <1>5 DEF Enc

(* Two runs of whole characters are one. *)
LEMMA Utf8Concat ==
    ASSUME NEW a \in Seq(AllBytes), NEW b \in Seq(AllBytes),
           IsUTF8(a), IsUTF8(b)
    PROVE  IsUTF8(a \o b)
<1> DEFINE m == Len(a)
           n == Len(b)
           ab == a \o b
<1>1. /\ m \in Nat /\ n \in Nat /\ DOMAIN a = 1 .. m /\ DOMAIN b = 1 .. n
      /\ ab \in Seq(AllBytes) /\ Len(ab) = m + n /\ DOMAIN ab = 1 .. m + n
      /\ \A i \in 1 .. m + n : ab[i] = IF i <= m THEN a[i] ELSE b[i - m]
  BY ConcatProperties, LenProperties
<1> HIDE DEF m, n, ab
<1>2. \A i \in 1 .. m : /\ a[i][1] \notin Foreign
                        /\ a[i][2] = 2 => i > 1 /\ a[i - 1] = << a[i][1], 1 >>
                        /\ a[i][2] = 1 /\ a[i][1] \in Wide => i < m /\ a[i + 1] = << a[i][1], 2 >>
  BY <1>1 DEF IsUTF8, m
<1>3. \A i \in 1 .. n : /\ b[i][1] \notin Foreign
                        /\ b[i][2] = 2 => i > 1 /\ b[i - 1] = << b[i][1], 1 >>
                        /\ b[i][2] = 1 /\ b[i][1] \in Wide => i < n /\ b[i + 1] = << b[i][1], 2 >>
  BY <1>1 DEF IsUTF8, n
<1>4. ASSUME NEW i \in 1 .. m + n
      PROVE  /\ ab[i][1] \notin Foreign
             /\ ab[i][2] = 2 => i > 1 /\ ab[i - 1] = << ab[i][1], 1 >>
             /\ ab[i][2] = 1 /\ ab[i][1] \in Wide => i < m + n /\ ab[i + 1] = << ab[i][1], 2 >>
  <2>1. CASE i <= m
    <3>1. i \in 1 .. m /\ ab[i] = a[i]
      BY <1>1, <2>1
    <3>2. i > 1 => ab[i - 1] = a[i - 1]
      BY <1>1, <2>1
    <3>3. i < m => ab[i + 1] = a[i + 1] /\ i < m + n
      BY <1>1, <2>1
    <3> QED BY <1>2, <3>1, <3>2, <3>3
  <2>2. CASE ~(i <= m)
    <3> DEFINE j == i - m
    <3>1. j \in 1 .. n /\ ab[i] = b[j]
      BY <1>1, <2>2
    <3>2. j > 1 => i > 1 /\ ab[i - 1] = b[j - 1]
      <4> SUFFICES ASSUME j > 1 PROVE i > 1 /\ ab[i - 1] = b[j - 1]
        OBVIOUS
      <4>1. i - 1 \in 1 .. m + n /\ ~(i - 1 <= m) /\ (i - 1) - m = j - 1 /\ i > 1
        BY <1>1
      <4> QED BY <1>1, <4>1
    <3>3. j < n => ab[i + 1] = b[j + 1] /\ i < m + n
      <4> SUFFICES ASSUME j < n PROVE ab[i + 1] = b[j + 1] /\ i < m + n
        OBVIOUS
      <4>1. i + 1 \in 1 .. m + n /\ ~(i + 1 <= m) /\ (i + 1) - m = j + 1 /\ i < m + n
        BY <1>1, <2>2
      <4> QED BY <1>1, <4>1
    <3> HIDE DEF j
    <3> QED BY <1>3, <3>1, <3>2, <3>3
  <2> QED BY <2>1, <2>2
<1>5. IsUTF8(ab)
  BY <1>1, <1>4 DEF IsUTF8
<1> QED BY <1>5 DEF ab

(* The bytes of whole characters are UTF-8, if none is foreign to it. *)
LEMMA Utf8Encoding ==
    ASSUME NEW s \in Seq(Characters),
           \A i \in DOMAIN Encoding(s) : Encoding(s)[i][1] \notin Foreign
    PROVE  IsUTF8(Encoding(s))
<1> DEFINE Enc(t) == Encoding(t)
           Known(t) == \A i \in DOMAIN Enc(t) : Enc(t)[i][1] \notin Foreign
           T == {t \in Seq(Characters) : Known(t) => IsUTF8(Enc(t))}
<1>0. /\ \A t \in Seq(Characters) : Enc(t) \in Seq(AllBytes)
      /\ \A t \in Seq(Characters), c \in Characters :
            Enc(Append(t, c)) = Enc(t) \o Bytes(c)
      /\ Enc(<< >>) = << >>
      /\ << >> \in Seq(Characters)
      /\ \A c \in Characters : Bytes(c) \in Seq(AllBytes)
  <2>1. << >> \in Seq(Characters)
    OBVIOUS
  <2> QED BY <2>1, EncodingAppend, BytesType, Zenon
<1> HIDE DEF Enc
<1>1. << >> \in T
  BY <1>0 DEF IsUTF8
<1>2. ASSUME NEW t \in Seq(Characters), NEW c \in Characters, t \in T PROVE Append(t, c) \in T
  <2> DEFINE E == Enc(t)
             B == Bytes(c)
  <2>1. /\ E \in Seq(AllBytes) /\ B \in Seq(AllBytes) /\ Append(t, c) \in Seq(Characters)
        /\ Enc(Append(t, c)) = E \o B
    BY <1>0
  <2>2. /\ Len(E) \in Nat /\ DOMAIN E = 1 .. Len(E)
        /\ Len(B) \in 1 .. 2 /\ B[1][1] = c
        /\ DOMAIN (E \o B) = 1 .. Len(E) + Len(B)
        /\ \A i \in 1 .. Len(E) + Len(B) : (E \o B)[i] = IF i <= Len(E) THEN E[i] ELSE B[i - Len(E)]
    <3>1. Len(B) \in 1 .. 2 /\ B[1][1] = c
      BY DEF Bytes
    <3>2. E \o B \in Seq(AllBytes) /\ Len(E \o B) = Len(E) + Len(B)
      BY <2>1, ConcatProperties
    <3> QED BY <2>1, <3>1, <3>2, ConcatProperties, LenProperties
  <2> SUFFICES ASSUME Known(Append(t, c)) PROVE IsUTF8(Enc(Append(t, c)))
    BY <2>1
  <2>3. \A i \in 1 .. Len(E) + Len(B) : (E \o B)[i][1] \notin Foreign
    BY <2>1, <2>2
  <2>4. Known(t)
    <3> SUFFICES ASSUME NEW i \in DOMAIN E PROVE E[i][1] \notin Foreign
      OBVIOUS
    <3>1. i \in 1 .. Len(E) + Len(B) /\ i <= Len(E)
      BY <2>2
    <3>2. (E \o B)[i] = E[i]
      BY <2>2, <3>1
    <3> QED BY <2>3, <3>1, <3>2
  <2>5. c \notin Foreign
    <3>1. Len(E) + 1 \in 1 .. Len(E) + Len(B) /\ ~(Len(E) + 1 <= Len(E)) /\ (Len(E) + 1) - Len(E) = 1
      BY <2>2
    <3>2. (E \o B)[Len(E) + 1] = B[1]
      BY <2>2, <3>1
    <3> QED BY <2>2, <2>3, <3>1, <3>2
  <2>6. IsUTF8(B)
    <3>1. CASE c \in Wide
      <4>1. B = << << c, 1 >>, << c, 2 >> >>
        BY <3>1 DEF Bytes
      <4>2. /\ DOMAIN B = {1, 2} /\ Len(B) = 2
            /\ B[1] = << c, 1 >> /\ B[2] = << c, 2 >>
        BY <4>1
      <4> HIDE DEF B
      <4>3. ASSUME NEW i \in {1, 2}
            PROVE  /\ B[i][1] \notin Foreign
                   /\ B[i][2] = 2 => i > 1 /\ B[i - 1] = << B[i][1], 1 >>
                   /\ B[i][2] = 1 /\ B[i][1] \in Wide => i < 2 /\ B[i + 1] = << B[i][1], 2 >>
        <5>1. CASE i = 1
          <6>1. B[i] = << c, 1 >> /\ B[i + 1] = << c, 2 >>
            BY <4>2, <5>1
          <6> QED BY <2>5, <5>1, <6>1
        <5>2. CASE i = 2
          <6>1. B[i] = << c, 2 >> /\ B[i - 1] = << c, 1 >>
            BY <4>2, <5>2
          <6> QED BY <2>5, <5>2, <6>1
        <5> QED BY <5>1, <5>2
      <4> QED BY <4>2, <4>3 DEF IsUTF8
    <3>2. CASE c \notin Wide
      <4>1. B = << << c, 1 >> >>
        BY <3>2 DEF Bytes
      <4> QED BY <2>5, <3>2, <4>1 DEF IsUTF8
    <3> QED BY <3>1, <3>2
  <2> HIDE DEF E, B
  <2>7. IsUTF8(E)
    BY <1>2, <2>4 DEF E
  <2> QED BY <2>1, <2>6, <2>7, Utf8Concat
<1>3. Seq(Characters) \subseteq T
  <2> HIDE DEF T
  <2> QED BY <1>1, <1>2, SequenceInduction
<1> QED BY <1>3 DEF Enc

(* The bytes of a text are of its characters; second ones are of wide ones. *)
LEMMA BytesOfText ==
    ASSUME NEW s \in Seq(Characters)
    PROVE  \A i \in DOMAIN Encoding(s) :
              /\ Encoding(s)[i][1] \in {s[j] : j \in DOMAIN s}
              /\ Encoding(s)[i][2] = 2 => Encoding(s)[i][1] \in Wide
<1> DEFINE Enc(t) == Encoding(t)
           Of(x, t) == x[1] \in {t[j] : j \in DOMAIN t} /\ (x[2] = 2 => x[1] \in Wide)
           T == {t \in Seq(Characters) : \A i \in DOMAIN Enc(t) : Of(Enc(t)[i], t)}
<1>0. /\ \A t \in Seq(Characters) : Enc(t) \in Seq(AllBytes)
      /\ \A t \in Seq(Characters), c \in Characters :
            Enc(Append(t, c)) = Enc(t) \o Bytes(c)
      /\ Enc(<< >>) = << >>
      /\ << >> \in Seq(Characters)
      /\ \A c \in Characters : Bytes(c) \in Seq(AllBytes)
  <2>1. << >> \in Seq(Characters)
    OBVIOUS
  <2> QED BY <2>1, EncodingAppend, BytesType, Zenon
<1> HIDE DEF Enc
<1>1. << >> \in T
  <2>1. DOMAIN Enc(<< >>) = {}
    BY <1>0
  <2> QED BY <1>0, <2>1
<1>2. ASSUME NEW t \in Seq(Characters), NEW c \in Characters, t \in T PROVE Append(t, c) \in T
  <2> DEFINE tc == Append(t, c)
             E == Enc(t)
             B == Bytes(c)
  <2>1. /\ E \in Seq(AllBytes) /\ B \in Seq(AllBytes) /\ tc \in Seq(Characters)
        /\ Enc(tc) = E \o B
    BY <1>0
  <2>2. /\ Len(E) \in Nat /\ DOMAIN E = 1 .. Len(E)
        /\ DOMAIN (E \o B) = 1 .. Len(E) + Len(B)
        /\ \A i \in 1 .. Len(E) + Len(B) : (E \o B)[i] = IF i <= Len(E) THEN E[i] ELSE B[i - Len(E)]
        /\ Len(B) \in Nat
    <3>1. E \o B \in Seq(AllBytes) /\ Len(E \o B) = Len(E) + Len(B)
      BY <2>1, ConcatProperties
    <3> QED BY <2>1, <3>1, ConcatProperties, LenProperties
  <2>3. \A x : Of(x, t) => Of(x, tc)
    <3>1. \A j \in DOMAIN t : j \in DOMAIN tc /\ tc[j] = t[j]
      OBVIOUS
    <3> HIDE DEF tc
    <3> QED BY <3>1
  <2>4. \A j \in 1 .. Len(B) : Of(B[j], tc)
    <3>1. Len(t) + 1 \in DOMAIN tc /\ tc[Len(t) + 1] = c
      OBVIOUS
    <3> HIDE DEF tc
    <3>2. \A j \in 1 .. Len(B) : B[j][1] = c /\ (B[j][2] = 2 => c \in Wide)
      BY DEF Bytes
    <3> HIDE DEF B
    <3> QED BY <3>1, <3>2
  <2>5. ASSUME NEW i \in 1 .. Len(E) + Len(B) PROVE Of((E \o B)[i], tc)
    <3> HIDE DEF tc, B, Of
    <3>1. CASE i <= Len(E)
      <4>1. i \in DOMAIN E /\ (E \o B)[i] = E[i]
        BY <2>2, <3>1
      <4>2. Of(E[i], t)
        BY <1>2, <4>1
      <4> QED BY <2>3, <4>1, <4>2
    <3>2. CASE ~(i <= Len(E))
      <4>1. i - Len(E) \in 1 .. Len(B) /\ (E \o B)[i] = B[i - Len(E)]
        BY <2>2, <3>2
      <4> QED BY <2>4, <4>1
    <3> QED BY <3>1, <3>2
  <2> HIDE DEF tc, B, Of
  <2>6. tc \in T
    BY <2>1, <2>2, <2>5
  <2> QED BY <2>6 DEF tc
<1>3. Seq(Characters) \subseteq T
  <2> HIDE DEF T, Of
  <2> QED BY <1>1, <1>2, SequenceInduction
<1> QED BY <1>3 DEF Enc

(***************************************************************************)
(* The inductive invariant.  Whatever was damaged, without the marks the    *)
(* response is what whole reads would have given with something left out    *)
(* (InPlace); until something is damaged it is the first characters of the  *)
(* text, and their bytes are what has been read (SoFar).                    *)
(***************************************************************************)
Sent == SubSeq(Encoding(text), 1, sent)

DecodeTyped ==
    /\ text \in Seq(Characters) /\ sent \in 0 .. Len(Encoding(text))
    /\ buffer \in Seq(AllBytes) /\ response \in Seq(Outcomes) /\ damaged \in BOOLEAN

InPlace == IsThinned(Unmarked(response), AsUTF8(Sent))

SoFar ==
    ~damaged => /\ response \in Seq(Characters)
                /\ \E rest \in Seq(Characters) : text = response \o rest
                /\ Len(Encoding(response)) = sent

NeverTouched == (\A i \in DOMAIN text : text[i] \in Narrow) => ~damaged

DecodeIInv == DecodeTyped /\ InPlace /\ SoFar /\ NeverTouched

(* It holds before anything has been read. *)
LEMMA InitDecodeIInv ==
    ASSUME DecodingInit
    PROVE  DecodeIInv
<1>1. text \in Seq(Characters)
  BY DecodingAssumption DEF DecodingInit, SeqOf, Characters
<1>2. Encoding(text) \in Seq(AllBytes) /\ Encoding(<< >>) = << >>
  BY <1>1, EncodingAppend
<1>3. /\ sent = 0 /\ buffer = << >> /\ response = << >> /\ damaged = FALSE
      /\ Len(Encoding(text)) \in Nat
  BY <1>2 DEF DecodingInit
<1>4. DecodeTyped
  <2>1. << >> \in Seq(AllBytes) /\ << >> \in Seq(Outcomes) /\ FALSE \in BOOLEAN
    OBVIOUS
  <2>2. \A k \in Nat : 0 \in 0 .. k
    OBVIOUS
  <2> QED BY <1>1, <1>3, <2>1, <2>2 DEF DecodeTyped
<1>5. InPlace
  <2>1. Sent = << >>
    BY <1>3, SubSeqEmpty DEF Sent
  <2>2. Unmarked(<< >>) = << >>
    BY WithinEmpty DEF Unmarked, Without
  <2>3. << >> \in Seq(AllBytes)
    OBVIOUS
  <2>4. IsThinned(<< >>, << >>)
    BY <2>3, ThinnedEnds
  <2>5. AsUTF8(<< >>) = << >>
    BY <2>3, DecodedAppend
  <2> QED BY <1>3, <2>1, <2>2, <2>4, <2>5 DEF InPlace
<1>6. SoFar
  <2>1. << >> \in Seq(Characters) /\ text = << >> \o text /\ Len(<< >>) = 0
    BY <1>1
  <2> QED BY <1>1, <1>2, <1>3, <2>1 DEF SoFar
<1> QED BY <1>3, <1>4, <1>5, <1>6 DEF DecodeIInv, NeverTouched

(* What a read brings: the next bytes, in front of the buffer. *)
LEMMA WhatARead ==
    ASSUME DecodeTyped, NEW n \in 1 .. maxReadLength, maxReadLength \in Nat, Read(n)
    PROVE  LET E == Encoding(text)
               bytes == SubSeq(E, sent + 1, sent + n)
           IN  /\ E \in Seq(AllBytes) /\ bytes \in Seq(AllBytes) /\ Len(bytes) = n
               /\ \A i \in 1 .. n : bytes[i] = E[sent + i]
               /\ sent' = sent + n /\ sent' \in 0 .. Len(E) /\ n \in Nat
               /\ Sent \in Seq(AllBytes) /\ Sent' = Sent \o bytes /\ text' = text
               /\ buffer' \in Seq(AllBytes)
               /\ \/ /\ IsUTF8(bytes)
                     /\ response' = response \o AsUTF8(bytes)
                  \/ /\ ~IsUTF8(bytes)
                     /\ response' = response \o << >> \/ response' = response \o Ascii(bytes)
               /\ damaged' = (damaged \/ \E i \in 1 .. n :
                                 \/ bytes[i][1] \in Foreign
                                 \/ WithinCharacter(sent) \/ WithinCharacter(sent + n))
<1> DEFINE E == Encoding(text)
           bytes == SubSeq(E, sent + 1, sent + n)
           tail == SubSeq(buffer, Len(bytes) + 1, Len(buffer))
           filled == bytes \o tail
<1>1. /\ text \in Seq(Characters) /\ E \in Seq(AllBytes) /\ Len(E) \in Nat
      /\ n \in Nat /\ n >= 1 /\ sent \in 0 .. Len(E) /\ sent + n <= Len(E)
      /\ buffer \in Seq(AllBytes) /\ Len(buffer) \in Nat
  <2>1. text \in Seq(Characters) /\ buffer \in Seq(AllBytes) /\ sent \in 0 .. Len(E)
    BY DEF DecodeTyped
  <2>2. E \in Seq(AllBytes)
    BY <2>1, EncodingAppend
  <2>3. sent + n <= Len(E)
    BY DEF Read
  <2> QED BY <2>1, <2>2, <2>3, LenProperties
<1> HIDE DEF E
<1>2. /\ bytes \in Seq(AllBytes) /\ Len(bytes) = n
      /\ \A i \in 1 .. n : bytes[i] = E[sent + i]
  <2>1. \A i \in sent + 1 .. sent + n : E[i] \in AllBytes
    BY <1>1, ElementOfSeq
  <2>2. sent + 1 \in Int /\ sent + n \in Int /\ sent + 1 <= sent + n /\ (sent + n) - (sent + 1) + 1 = n
    BY <1>1
  <2>3. /\ bytes \in Seq(AllBytes) /\ Len(bytes) = n
        /\ \A i \in 1 .. n : bytes[i] = E[(sent + 1) + i - 1]
    BY <2>1, <2>2, SubSeqProperties
  <2>4. \A i \in 1 .. n : (sent + 1) + i - 1 = sent + i
    BY <1>1
  <2> QED BY <2>3, <2>4
<1> HIDE DEF bytes
<1>3. tail \in Seq(AllBytes)
  <2>1. \A i \in Len(bytes) + 1 .. Len(buffer) : buffer[i] \in AllBytes
    BY <1>1, <1>2, ElementOfSeq
  <2> QED BY <1>1, <1>2, <2>1, SubSeqProperties
<1> HIDE DEF tail
<1>4. filled \in Seq(AllBytes) /\ SubSeq(filled, 1, n) = bytes
  <2>1. filled \in Seq(AllBytes) /\ 1 \in 1 .. Len(bytes) /\ n \in 1 .. Len(bytes)
    BY <1>1, <1>2, <1>3
  <2>2. SubSeq(filled, 1, n) = SubSeq(bytes, 1, n)
    BY <1>2, <1>3, <2>1, SubSeqOfConcat1
  <2>3. SubSeq(bytes, 1, n) = bytes
    BY <1>2, SubSeqFull
  <2> QED BY <2>1, <2>2, <2>3
<1>5. Filled(bytes) = filled /\ Arrived(filled, n) = bytes
  BY <1>4 DEF Filled, Arrived, tail
<1>6. /\ sent' = sent + n /\ buffer' = filled /\ text' = text
      /\ \/ /\ IsUTF8(bytes)
            /\ response' = response \o AsUTF8(bytes)
         \/ /\ ~IsUTF8(bytes)
            /\ \E s \in AsASCII(bytes) : response' = response \o s
      /\ damaged' = (damaged \/ \E i \in 1 .. n :
                        \/ bytes[i][1] \in Foreign
                        \/ WithinCharacter(sent) \/ WithinCharacter(sent + n))
  BY <1>5 DEF Read, E, bytes
<1>7. Sent \in Seq(AllBytes) /\ Sent' = Sent \o bytes
  <2>1. Sent = SubSeq(E, 1, sent) /\ Sent' = SubSeq(E, 1, sent + n)
    BY <1>6 DEF Sent, E
  <2>2. /\ 1 \in 1 .. Len(E) + 1 /\ sent \in 1 - 1 .. Len(E) /\ sent + n \in sent .. Len(E)
    BY <1>1
  <2>3. SubSeq(E, 1, sent) \o SubSeq(E, sent + 1, sent + n) = SubSeq(E, 1, sent + n)
    BY <1>1, <2>2, ConcatAdjacentSubSeq
  <2>4. \A i \in 1 .. sent : E[i] \in AllBytes
    BY <1>1, ElementOfSeq
  <2>5. SubSeq(E, 1, sent) \in Seq(AllBytes)
    BY <1>1, <2>4, SubSeqProperties
  <2> QED BY <2>1, <2>3, <2>5 DEF bytes
<1>8. \A s \in AsASCII(bytes) : s = << >> \/ s = Ascii(bytes)
  BY DEF AsASCII, Ascii
<1>9. sent' \in 0 .. Len(E)
  BY <1>1, <1>6
<1> QED BY <1>1, <1>2, <1>4, <1>6, <1>7, <1>8, <1>9 DEF E, bytes

(* Every read keeps it. *)
LEMMA NextDecodeIInv ==
    ASSUME DecodeIInv, [DecodingNext]_decoding
    PROVE  DecodeIInv'
<1>1. CASE UNCHANGED decoding
  <2>1. /\ text' = text /\ sent' = sent /\ buffer' = buffer
        /\ response' = response /\ damaged' = damaged
    BY <1>1 DEF decoding
  <2>2. Sent' = Sent
    BY <2>1 DEF Sent
  <2>3. DecodeTyped' /\ InPlace'
    BY <2>1, <2>2 DEF DecodeIInv, DecodeTyped, InPlace
  <2> QED BY <2>1, <2>3 DEF DecodeIInv, SoFar, NeverTouched
<1>2. ASSUME NEW n \in 1 .. maxReadLength, Read(n) PROVE DecodeIInv'
  <2> DEFINE E == Encoding(text)
             bytes == SubSeq(E, sent + 1, sent + n)
  <2>0. maxReadLength \in Nat /\ DecodeTyped /\ Mark \notin Characters
    BY DecodingAssumption DEF DecodeIInv, Characters
  <2>1. /\ E \in Seq(AllBytes) /\ bytes \in Seq(AllBytes) /\ Len(bytes) = n
        /\ \A i \in 1 .. n : bytes[i] = E[sent + i]
        /\ sent' = sent + n /\ sent' \in 0 .. Len(E) /\ n \in Nat
        /\ Sent \in Seq(AllBytes) /\ Sent' = Sent \o bytes /\ text' = text
        /\ buffer' \in Seq(AllBytes)
        /\ \/ /\ IsUTF8(bytes)
              /\ response' = response \o AsUTF8(bytes)
           \/ /\ ~IsUTF8(bytes)
              /\ response' = response \o << >> \/ response' = response \o Ascii(bytes)
        /\ damaged' = (damaged \/ \E i \in 1 .. n :
                          \/ bytes[i][1] \in Foreign
                          \/ WithinCharacter(sent) \/ WithinCharacter(sent + n))
    BY <1>2, <2>0, WhatARead
  <2>2. /\ text \in Seq(Characters) /\ sent \in 0 .. Len(E) /\ response \in Seq(Outcomes)
        /\ damaged \in BOOLEAN
    BY <2>0 DEF DecodeTyped
  <2>3. Encoding(text') = E
    BY <2>1
  <2> HIDE DEF E, bytes
  <2>4. PICK s \in Seq(Outcomes) :
          /\ response' = response \o s
          /\ IsUTF8(bytes) => s = AsUTF8(bytes)
          /\ IsThinned(Unmarked(s), AsUTF8(bytes))
    <3>1. AsUTF8(bytes) \in Seq(Characters)
      BY <2>1, DecodedAppend
    <3>2. AsUTF8(bytes) \in Seq(Outcomes) /\ << >> \in Seq(Outcomes)
      BY <3>1 DEF Outcomes
    <3>3. CASE IsUTF8(bytes)
      <4>1. Unmarked(AsUTF8(bytes)) = AsUTF8(bytes)
        BY <3>1, TextUnmarked
      <4>2. IsThinned(AsUTF8(bytes), AsUTF8(bytes))
        BY <3>1, ThinnedEnds
      <4> QED BY <2>1, <3>2, <3>3, <4>1, <4>2
    <3>4. CASE ~IsUTF8(bytes) /\ response' = response \o << >>
      <4>1. Unmarked(<< >>) = << >>
        BY WithinEmpty DEF Unmarked, Without
      <4>2. IsThinned(<< >>, AsUTF8(bytes))
        BY <3>1, ThinnedEnds
      <4> QED BY <3>2, <3>4, <4>1, <4>2
    <3>5. CASE ~IsUTF8(bytes) /\ response' = response \o Ascii(bytes)
      BY <2>1, <3>5, AsciiThinned
    <3> QED BY <2>1, <3>3, <3>4, <3>5
  <2>5. DecodeTyped'
    <3>1. response' \in Seq(Outcomes)
      BY <2>2, <2>4, ConcatProperties
    <3>2. damaged' \in BOOLEAN
      BY <2>1, <2>2
    <3> QED BY <2>1, <2>2, <2>3, <3>1, <3>2 DEF DecodeTyped
  <2>6. InPlace'
    <3>1. Unmarked(response \o s) = Unmarked(response) \o Unmarked(s)
      BY <2>2, WithoutConcat, SMTT(60) DEF Unmarked
    <3>2. AsUTF8(Sent \o bytes) = AsUTF8(Sent) \o AsUTF8(bytes)
      BY <2>1, DecodedConcat
    <3>3. /\ Unmarked(response) \in Seq(Outcomes) /\ Unmarked(s) \in Seq(Outcomes)
      BY <2>2, WithoutType DEF Unmarked
    <3>4. /\ AsUTF8(Sent) \in Seq(Outcomes) /\ AsUTF8(bytes) \in Seq(Outcomes)
      <4>1. /\ AsUTF8(Sent) \in Seq(Characters) /\ AsUTF8(bytes) \in Seq(Characters)
        BY <2>1, DecodedAppend
      <4> QED BY <4>1 DEF Outcomes
    <3>5. IsThinned(Unmarked(response), AsUTF8(Sent))
      BY DEF DecodeIInv, InPlace
    <3>6. IsThinned(Unmarked(response) \o Unmarked(s), AsUTF8(Sent) \o AsUTF8(bytes))
      BY <2>4, <3>3, <3>4, <3>5, ThinnedConcat
    <3>7. IsThinned(Unmarked(response'), AsUTF8(Sent'))
      BY <2>1, <2>4, <3>1, <3>2, <3>6
    <3> QED BY <3>7 DEF InPlace
  <2>7. SoFar'
    <3> SUFFICES ASSUME ~damaged'
                 PROVE  /\ response' \in Seq(Characters)
                        /\ \E rest \in Seq(Characters) : text = response' \o rest
                        /\ Len(Encoding(response')) = sent'
      BY <2>1 DEF SoFar
    <3>1. /\ ~damaged /\ \A i \in 1 .. n : bytes[i][1] \notin Foreign
          /\ ~WithinCharacter(sent + n)
      <4>1. 1 \in 1 .. n
        OBVIOUS
      <4> QED BY <2>1, <4>1
    <3>2. /\ response \in Seq(Characters)
          /\ \E rest \in Seq(Characters) : text = response \o rest
          /\ Len(Encoding(response)) = sent
      BY <3>1 DEF DecodeIInv, SoFar
    <3>3. PICK rest \in Seq(Characters) : text = response \o rest
      BY <3>2
    <3> DEFINE R == Encoding(response)
               Q == Encoding(rest)
    <3>4. /\ R \in Seq(AllBytes) /\ Q \in Seq(AllBytes) /\ E = R \o Q /\ Len(R) = sent
      BY <3>2, <3>3, EncodingAppend, EncodingConcat DEF E
    <3> HIDE DEF R, Q
    <3>5. /\ Len(R) \in Nat /\ Len(Q) \in Nat /\ Len(E) = sent + Len(Q) /\ n <= Len(Q)
          /\ \A i \in 1 .. Len(Q) : E[sent + i] = Q[i]
      <4>1. Len(R) \in Nat /\ Len(Q) \in Nat /\ Len(E) = sent + Len(Q)
        BY <3>4, ConcatProperties, LenProperties
      <4>2. ASSUME NEW i \in 1 .. Len(Q) PROVE E[sent + i] = Q[i]
        <5>1. sent + i \in 1 .. Len(R) + Len(Q) /\ ~(sent + i <= Len(R)) /\ (sent + i) - Len(R) = i
          BY <3>4, <4>1
        <5>2. (R \o Q)[sent + i] = Q[(sent + i) - Len(R)]
          BY <3>4, <5>1, ConcatProperties
        <5> QED BY <3>4, <5>1, <5>2
      <4> QED BY <2>1, <2>2, <4>1, <4>2
    <3>6. n < Len(Q) => Q[n + 1][2] # 2
      <4> SUFFICES ASSUME n < Len(Q) PROVE Q[n + 1][2] # 2
        OBVIOUS
      <4>1. sent + n < Len(E) /\ n + 1 \in 1 .. Len(Q) /\ (sent + n) + 1 = sent + (n + 1)
        BY <2>1, <2>2, <3>5, SMTT(60)
      <4>2. E[(sent + n) + 1][2] # 2
        BY <3>1, <4>1 DEF WithinCharacter, E
      <4> QED BY <3>5, <4>1, <4>2
    <3>7. PICK u, v \in Seq(Characters) : rest = u \o v /\ SubSeq(Q, 1, n) = Encoding(u)
      BY <2>1, <3>5, <3>6, CutBetween DEF Q
    <3>8. bytes = Encoding(u)
      <4>1. \A i \in 1 .. n : Q[i] \in AllBytes
        <5>1. \A i \in 1 .. n : i \in 1 .. Len(Q)
          BY <2>1, <3>5, SMTT(60)
        <5>2. \A i \in 1 .. Len(Q) : Q[i] \in AllBytes
          BY <3>4, ElementOfSeq
        <5> QED BY <5>1, <5>2
      <4>2. /\ SubSeq(Q, 1, n) \in Seq(AllBytes) /\ Len(SubSeq(Q, 1, n)) = n
            /\ \A i \in 1 .. n : SubSeq(Q, 1, n)[i] = Q[i]
        BY <2>1, <4>1, SubSeqProperties
      <4>3. \A i \in 1 .. n : bytes[i] = Q[i]
        <5>1. \A i \in 1 .. n : i \in 1 .. Len(Q)
          BY <2>1, <3>5
        <5> QED BY <2>1, <3>5, <5>1
      <4>4. bytes = SubSeq(Q, 1, n)
        BY <2>1, <4>2, <4>3, SeqEqual
      <4> QED BY <3>7, <4>4
    <3>9. s = u
      <4>1. DOMAIN bytes = 1 .. n
        BY <2>1, LenProperties
      <4>2. IsUTF8(bytes)
        BY <3>1, <3>8, <4>1, Utf8Encoding
      <4>3. AsUTF8(bytes) = u
        BY <3>8, DecodedEncoding
      <4> QED BY <2>4, <4>2, <4>3
    <3>10. response \o u \in Seq(Characters) /\ text = (response \o u) \o v
      <4>1. response \in Seq(Characters) /\ u \in Seq(Characters) /\ v \in Seq(Characters)
        BY <3>2
      <4>2. Joined(Joined(response, u), v) = Joined(response, Joined(u, v))
        BY <4>1, Regrouped
      <4>3. (response \o u) \o v = response \o (u \o v)
        BY <4>2 DEF Joined
      <4>4. response \o u \in Seq(Characters)
        BY <4>1, ConcatProperties
      <4> QED BY <3>3, <3>7, <4>3, <4>4
    <3>11. Len(Encoding(response \o u)) = sent + n
      <4>1. Encoding(response \o u) = R \o bytes
        BY <3>2, <3>8, EncodingConcat DEF R
      <4>2. Len(R \o bytes) = Len(R) + Len(bytes)
        BY <2>1, <3>4, ConcatProperties
      <4> QED BY <2>1, <3>4, <4>1, <4>2
    <3> QED BY <2>1, <2>4, <3>9, <3>10, <3>11
  <2>8. NeverTouched'
    <3> SUFFICES ASSUME \A i \in DOMAIN text : text[i] \in Narrow PROVE ~damaged'
      BY <2>1 DEF NeverTouched
    <3>1. ~damaged
      BY DEF DecodeIInv, NeverTouched
    <3>2. \A i \in 1 .. Len(E) : E[i][1] \in Narrow /\ E[i][2] # 2
      <4>1. DOMAIN E = 1 .. Len(E)
        BY <2>1, LenProperties
      <4>2. \A i \in DOMAIN E : /\ E[i][1] \in {text[j] : j \in DOMAIN text}
                                /\ E[i][2] = 2 => E[i][1] \in Wide
        BY <2>2, BytesOfText DEF E
      <4>3. {text[j] : j \in DOMAIN text} \subseteq Narrow
        OBVIOUS
      <4>4. \A x \in Narrow : x \notin Wide
        BY DecodingAssumption
      <4> QED BY <4>1, <4>2, <4>3, <4>4
    <3>3. \A i \in 1 .. n : bytes[i][1] \notin Foreign
      <4>1. \A i \in 1 .. n : sent + i \in 1 .. Len(E)
        BY <2>1, <2>2
      <4>2. \A x \in Narrow : x \notin Foreign
        BY DecodingAssumption
      <4> QED BY <2>1, <3>2, <4>1, <4>2
    <3>4. ASSUME NEW k \in Nat PROVE ~WithinCharacter(k)
      <4>1. k < Len(E) => k + 1 \in 1 .. Len(E)
        BY <2>1, LenProperties
      <4> QED BY <3>2, <4>1 DEF WithinCharacter, E
    <3>5. sent \in Nat /\ sent + n \in Nat
      BY <2>1, <2>2
    <3> QED BY <2>1, <3>1, <3>3, <3>4, <3>5
  <2> QED BY <2>5, <2>6, <2>7, <2>8 DEF DecodeIInv
<1> QED BY <1>1, <1>2 DEF DecodingNext

(* So it is an invariant of the decoding. *)
LEMMA DecodeInvariance ==
    DecodingSpec => []DecodeIInv
<1>1. DecodingInit => DecodeIInv
  BY InitDecodeIInv
<1>2. DecodeIInv /\ [DecodingNext]_decoding => DecodeIInv'
  BY NextDecodeIInv
<1> QED BY <1>1, <1>2, PTL DEF DecodingSpec

(* Reads that end between characters of UTF-8 bring the text as it was sent, *)
(* all that has been read and nothing else (readAvailableBytes).             *)
THEOREM DecodedExactly ==
    DecodingSpec => [](ExactUnlessDamaged)
<1>1. DecodeIInv => ExactUnlessDamaged
  <2> SUFFICES ASSUME DecodeIInv, ~damaged
               PROVE  /\ IsPrefix(response, text)
                      /\ Len(Encoding(response)) = sent
    BY DEF ExactUnlessDamaged
  <2>1. /\ response \in Seq(Characters) /\ Len(Encoding(response)) = sent
        /\ \E rest \in Seq(Characters) : text = response \o rest
    BY DEF DecodeIInv, SoFar
  <2>2. PICK rest \in Seq(Characters) : text = response \o rest
    BY <2>1
  <2>3. Len(response) <= Len(response \o rest)
        /\ SubSeq(response, 1, Len(response)) = SubSeq(response \o rest, 1, Len(response))
    BY <2>1
  <2> QED BY <2>1, <2>2, <2>3 DEF IsPrefix
<1> QED BY <1>1, DecodeInvariance, PTL

(* Whatever a read cuts or brings, without the marks the response is the text *)
(* with something left out, in its order, and a text of whole ASCII is never  *)
(* touched (processedMessageString).                                         *)
THEOREM DecodedInPlace ==
    DecodingSpec => [](NothingInvented)
<1>1. DecodeIInv => NothingInvented
  <2> SUFFICES ASSUME DecodeIInv PROVE NothingInvented
    OBVIOUS
  <2> DEFINE E == Encoding(text)
             read == SubSeq(E, 1, sent)
             coming == SubSeq(E, sent + 1, Len(E))
  <2>1. /\ text \in Seq(Characters) /\ sent \in 0 .. Len(E) /\ response \in Seq(Outcomes)
        /\ IsThinned(Unmarked(response), AsUTF8(read))
        /\ NeverTouched
    BY DEF DecodeIInv, DecodeTyped, InPlace, Sent
  <2>2. E \in Seq(AllBytes) /\ AsUTF8(E) = text
    BY <2>1, EncodingAppend, DecodedEncoding
  <2> HIDE DEF E
  <2>3. /\ Len(E) \in Nat /\ 1 \in 1 .. Len(E) + 1 /\ sent \in 1 - 1 .. Len(E) /\ Len(E) \in sent .. Len(E)
    BY <2>1, <2>2, LenProperties
  <2>4. read \o coming = SubSeq(E, 1, Len(E)) /\ SubSeq(E, 1, Len(E)) = E
    BY <2>2, <2>3, ConcatAdjacentSubSeq, SubSeqFull
  <2>5. read \in Seq(AllBytes) /\ coming \in Seq(AllBytes)
    <3>1. /\ \A i \in 1 .. sent : E[i] \in AllBytes
          /\ \A i \in sent + 1 .. Len(E) : E[i] \in AllBytes
      BY <2>1, <2>2, <2>3, ElementOfSeq
    <3> QED BY <2>1, <2>3, <3>1, SubSeqProperties, SMTT(60)
  <2> HIDE DEF read, coming
  <2>6. text = AsUTF8(read) \o AsUTF8(coming)
    <3>1. AsUTF8(read \o coming) = AsUTF8(read) \o AsUTF8(coming)
      BY <2>5, DecodedConcat
    <3>2. read \o coming = E
      BY <2>4
    <3> QED BY <2>2, <3>1, <3>2
  <2>7. /\ AsUTF8(read) \in Seq(Outcomes) /\ AsUTF8(coming) \in Seq(Outcomes)
    <3>1. /\ AsUTF8(read) \in Seq(Characters) /\ AsUTF8(coming) \in Seq(Characters)
      BY <2>5, DecodedAppend
    <3> QED BY <3>1 DEF Outcomes
  <2>8. Unmarked(response) \in Seq(Outcomes) /\ << >> \in Seq(Outcomes)
    BY <2>1, WithoutType DEF Unmarked
  <2>9. IsThinned(<< >>, AsUTF8(coming))
    BY <2>7, ThinnedEnds
  <2>10. IsThinned(Unmarked(response) \o << >>, text)
    BY <2>1, <2>6, <2>7, <2>8, <2>9, ThinnedConcat
  <2>11. Unmarked(response) \o << >> = Unmarked(response)
    BY <2>8, ConcatEmptySeq
  <2>12. IsThinned(Without(response, {Mark}), text)
    BY <2>10, <2>11 DEF Unmarked
  <2>13. ToSet(text) \subseteq Narrow => ~damaged
    BY <2>1 DEF NeverTouched, ToSet
  <2> QED BY <2>12, <2>13 DEF NothingInvented
<1> QED BY <1>1, DecodeInvariance, PTL
================================================================================
