-------------------------- MODULE ThreadRealms_proofs --------------------------
(***************************************************************************)
(* That a command works on one Realm from the beginning to the end of a     *)
(* handler, and on which, proved for any number of threads and any reuse of *)
(* their pthread_t.                                                         *)
(***************************************************************************)
EXTENDS ThreadRealms, TLAPS

(***************************************************************************)
(* The inductive invariant.  Threads that run at once differ in their       *)
(* pthread_t, and every Realm that can be found is found under the          *)
(* pthread_t it was made on.                                                *)
(***************************************************************************)
RunningDiffer ==
    \A t \in Threads :
        /\ stage[t] = "unborn" => pthread[t] = None
        /\ Running(t) =>
            /\ pthread[t] \in Pthreads
            /\ \A u \in Threads \ {t} : Running(u) => pthread[u] # pthread[t]

MadeAtHome ==
    \A r \in Threads :
        /\ home[r] # None => home[r] = pthread[r] /\ stage[r] # "unborn"
        /\ at[r] # 0 => home[r] # None /\ group[r] <= at[r]

FoundAtHome ==
    /\ \A t \in Threads : realms[t] # None => home[realms[t]] = pthread[t] /\ pthread[t] # None
    /\ \A p \in Pthreads : cache[p] # None => home[cache[p]] = p

UsedAtHome ==
    \A t \in Threads : uses[t] # None => Running(t) /\ home[uses[t]] = pthread[t]

(* In a handler the Realm in use is the one that would be found again. *)
Working(t) == stage[t] \in {"storing", "using", "found", "writing"}

InHand ==
    \A t \in Threads :
        /\ ~Working(t) => uses[t] = None
        /\ Working(t) =>
            /\ uses[t] # None /\ met[t] = uses[t]
            /\ realms[t] # None => realms[t] = uses[t]
            /\ realms[t] = None => cache[pthread[t]] = uses[t]

WritesAlone ==
    \A t \in Threads : stage[t] = "writing" =>
        writer = t /\ latest < MaxVersion /\ begun[t] = uses[t]

IInv ==
    /\ TypeOK /\ RunningDiffer /\ MadeAtHome /\ FoundAtHome /\ UsedAtHome
    /\ InHand /\ WritesAlone /\ MissedOnInherited

LEMMA InitIInv == Init => IInv
BY ThreadRealmsAssumption
   DEF Init, IInv, TypeOK, RunningDiffer, MadeAtHome, FoundAtHome, UsedAtHome, InHand, Working,
       WritesAlone, MissedOnInherited, Running, Realms

(* What a handler finds is what it has in hand. *)
LEMMA FoundInHand ==
    ASSUME IInv, NEW t \in Threads, Working(t)
    PROVE  Found(t) = uses[t]
<1>1. CASE realms[t] # None
  BY <1>1 DEF IInv, InHand, Found
<1>2. CASE realms[t] = None
  <2>1. cache[pthread[t]] = uses[t] /\ uses[t] # None
    BY <1>2 DEF IInv, InHand
  <2>2. Held(uses[t])
    BY DEF Held
  <2> QED
    BY <1>2, <2>1, <2>2 DEF Found, Cached
<1> QED
  BY <1>1, <1>2

(* What Obtain gives a running thread, and what it leaves alone. *)
LEMMA Obtained ==
    ASSUME IInv, NEW t \in Threads, Running(t), NEW r \in Threads, Obtain(t, r)
    PROVE  /\ home' \in [Threads -> Pthreads \union {None}]
           /\ cache' \in [Pthreads -> Realms]
           /\ home'[r] = pthread[t] /\ pthread[t] \in Pthreads
           /\ \A x \in Threads : home'[x] = home[x] \/ (home[x] = None /\ x = t /\ home'[x] = pthread[t])
           /\ \A p \in Pthreads : cache'[p] # None => home'[cache'[p]] = p
           /\ \A p \in Pthreads \ {pthread[t]} : cache'[p] = cache[p]
           /\ realms[t] # None => r = realms[t] /\ UNCHANGED << cache, home >>
           /\ realms[t] = None => cache'[pthread[t]] = r
           /\ Found(t) # None => r = Found(t) /\ UNCHANGED << cache, home >>
           /\ Found(t) = None => r = t
<1>1. pthread[t] \in Pthreads
  BY DEF IInv, RunningDiffer
<1>2. CASE Found(t) # None
  <2>1. r = Found(t) /\ UNCHANGED << cache, home >>
    BY <1>2 DEF Obtain
  <2>2. realms[t] = None => cache[pthread[t]] = r
    BY <1>2, <2>1 DEF Found, Cached
  <2>3. home[r] = pthread[t]
    BY <1>1, <1>2, <2>1, <2>2 DEF IInv, FoundAtHome, Found
  <2> QED
    BY <1>1, <1>2, <2>1, <2>2, <2>3 DEF IInv, TypeOK, FoundAtHome, Found
<1>3. CASE Found(t) = None
  <2>1. /\ r = t
        /\ cache' = [cache EXCEPT ![pthread[t]] = t]
        /\ home' = [home EXCEPT ![t] = pthread[t]]
    BY <1>3 DEF Obtain
  <2>2. realms[t] = None
    BY <1>3 DEF Found
  <2>3. home[t] = None \/ home[t] = pthread[t]
    BY DEF IInv, MadeAtHome
  <2>4. \A x \in Threads : home'[x] = home[x] \/ (home[x] = None /\ x = t /\ home'[x] = pthread[t])
    BY <2>1, <2>3 DEF IInv, TypeOK
  <2>5. \A p \in Pthreads : cache'[p] # None => home'[cache'[p]] = p
    <3> SUFFICES ASSUME NEW p \in Pthreads, cache'[p] # None
                 PROVE  home'[cache'[p]] = p
      OBVIOUS
    <3>1. CASE p = pthread[t]
      BY <1>1, <2>1, <3>1 DEF IInv, TypeOK
    <3>2. CASE p # pthread[t]
      <4>1. cache'[p] = cache[p] /\ cache[p] \in Threads /\ home[cache[p]] = p
        BY <1>1, <2>1, <3>2 DEF IInv, TypeOK, FoundAtHome, Realms
      <4>2. p # None
        BY ThreadRealmsAssumption
      <4> QED
        BY <2>4, <4>1, <4>2
    <3> QED
      BY <3>1, <3>2
  <2> QED
    BY <1>1, <1>3, <2>1, <2>2, <2>4, <2>5 DEF IInv, TypeOK, Realms
<1> QED
  BY <1>2, <1>3
-------------------------------------------------------------------------------
(***************************************************************************)
(* Every step preserves the invariant.                                      *)
(***************************************************************************)
LEMMA HandleStep ==
    ASSUME IInv, NEW t \in Threads, Handle(t)
    PROVE  IInv'
<1>1. PICK r \in Threads :
         Obtain(t, r) /\ uses' = [uses EXCEPT ![t] = r] /\ met' = [met EXCEPT ![t] = r]
  BY DEF Handle
<1>2. Running(t) /\ stage[t] = "open"
  BY DEF Handle, Running
<1>3. /\ home' \in [Threads -> Pthreads \union {None}]
      /\ cache' \in [Pthreads -> Realms]
      /\ home'[r] = pthread[t] /\ pthread[t] \in Pthreads
      /\ \A x \in Threads : home'[x] = home[x] \/ (home[x] = None /\ x = t /\ home'[x] = pthread[t])
      /\ \A p \in Pthreads : cache'[p] # None => home'[cache'[p]] = p
      /\ \A p \in Pthreads \ {pthread[t]} : cache'[p] = cache[p]
      /\ realms[t] # None => r = realms[t]
      /\ realms[t] = None => cache'[pthread[t]] = r
      /\ Found(t) = None => r = t
  BY <1>1, <1>2, Obtained
<1>4. /\ UNCHANGED << latest, writer, pthread, group, begun, realms >>
      /\ stage' = [stage EXCEPT ![t] = IF realms[t] = None THEN "storing" ELSE "using"]
      /\ at' \in {at, [at EXCEPT ![t] = 0]}
  BY DEF Handle
<1>5. TypeOK'
  <2>1. at' \in [Threads -> 0 .. latest]
    BY <1>4 DEF IInv, TypeOK
  <2> QED
    BY <1>1, <1>3, <1>4, <2>1 DEF IInv, TypeOK, Realms
<1>6. RunningDiffer'
  BY <1>2, <1>4 DEF IInv, TypeOK, RunningDiffer, Running
<1>7. MadeAtHome'
  <2>1. \A x \in Threads : at'[x] # 0 => at[x] # 0 /\ at'[x] = at[x]
    BY <1>4 DEF IInv, TypeOK
  <2> QED
    BY <1>2, <1>3, <1>4, <2>1 DEF IInv, TypeOK, MadeAtHome
<1>8. FoundAtHome'
  <2>1. \A u \in Threads : realms[u] # None => realms[u] \in Threads /\ home[realms[u]] # None
    BY ThreadRealmsAssumption DEF IInv, TypeOK, FoundAtHome, Realms
  <2> QED
    BY <1>3, <1>4, <2>1 DEF IInv, FoundAtHome
<1>9. UsedAtHome'
  <2>1. \A u \in Threads : uses[u] # None => uses[u] \in Threads /\ Running(u) /\ home[uses[u]] = pthread[u]
    BY DEF IInv, TypeOK, UsedAtHome, Realms
  <2>2. \A u \in Threads : Running(u) => pthread[u] # None
    BY ThreadRealmsAssumption DEF IInv, RunningDiffer
  <2> QED
    BY <1>1, <1>2, <1>3, <1>4, <2>1, <2>2 DEF IInv, TypeOK, UsedAtHome, Running
<1>10. InHand'
  <2>0. ASSUME NEW u \in Threads, ~Working(u)' PROVE uses'[u] = None
    BY <1>1, <1>4, <2>0 DEF IInv, TypeOK, InHand, Working
  <2> SUFFICES ASSUME NEW u \in Threads, Working(u)'
               PROVE  /\ uses'[u] # None /\ met'[u] = uses'[u]
                      /\ realms'[u] # None => realms'[u] = uses'[u]
                      /\ realms'[u] = None => cache'[pthread'[u]] = uses'[u]
    BY <2>0 DEF InHand
  <2>1. CASE u = t
    BY <1>1, <1>3, <1>4, <2>1, ThreadRealmsAssumption DEF IInv, TypeOK
  <2>2. CASE u # t
    <3>1. Working(u) /\ uses'[u] = uses[u] /\ met'[u] = met[u]
      BY <1>1, <1>4, <2>2 DEF IInv, TypeOK, Working
    <3>2. pthread[u] \in Pthreads \ {pthread[t]}
      BY <1>2, <2>2, <3>1 DEF IInv, RunningDiffer, Running, Working
    <3> QED
      BY <1>3, <1>4, <3>1, <3>2 DEF IInv, InHand
  <2> QED
    BY <2>1, <2>2
<1>11. WritesAlone'
  BY <1>1, <1>4 DEF IInv, TypeOK, WritesAlone
<1>12. MissedOnInherited'
  BY <1>1, <1>2, <1>4 DEF IInv, TypeOK, MissedOnInherited, Realms
<1> QED
  BY <1>5, <1>6, <1>7, <1>8, <1>9, <1>10, <1>11, <1>12 DEF IInv

LEMMA StoreRealmStep ==
    ASSUME IInv, NEW t \in Threads, StoreRealm(t)
    PROVE  IInv'
<1>1. /\ UNCHANGED << latest, writer, pthread, group, uses, begun, met, cache, at, home >>
      /\ stage[t] = "storing" /\ stage' = [stage EXCEPT ![t] = "using"]
      /\ realms' \in {realms, [realms EXCEPT ![t] = uses[t]]}
  BY DEF StoreRealm, Store
<1>2. uses[t] # None /\ home[uses[t]] = pthread[t] /\ pthread[t] \in Pthreads
  BY <1>1 DEF IInv, InHand, Working, UsedAtHome, RunningDiffer, Running
<1>3. TypeOK'
  BY <1>1 DEF IInv, TypeOK
<1>4. RunningDiffer' /\ MadeAtHome' /\ UsedAtHome'
  BY <1>1 DEF IInv, TypeOK, RunningDiffer, MadeAtHome, UsedAtHome, Running
<1>5. FoundAtHome'
  BY <1>1, <1>2, ThreadRealmsAssumption DEF IInv, TypeOK, FoundAtHome
<1>6. InHand'
  BY <1>1 DEF IInv, TypeOK, InHand, Working
<1>7. WritesAlone' /\ MissedOnInherited'
  BY <1>1 DEF IInv, TypeOK, WritesAlone, MissedOnInherited, Realms
<1> QED
  BY <1>3, <1>4, <1>5, <1>6, <1>7 DEF IInv

(* Reading starts at the latest version, so a Realm is never behind the      *)
(* group of the thread that made it.                                         *)
LEMMA Reads ==
    ASSUME IInv, NEW t \in Threads, Working(t), at' = [at EXCEPT ![uses[t]] = ReadVersion(uses[t])]
    PROVE  /\ uses[t] \in Threads /\ home[uses[t]] = pthread[t] /\ pthread[t] \in Pthreads
           /\ at' \in [Threads -> 0 .. latest]
           /\ group[uses[t]] <= ReadVersion(uses[t])
           /\ \A r \in Threads : at'[r] = at[r] \/ (r = uses[t] /\ at'[r] = ReadVersion(r))
<1>1. uses[t] \in Threads /\ home[uses[t]] = pthread[t] /\ pthread[t] \in Pthreads
  BY DEF IInv, TypeOK, InHand, UsedAtHome, RunningDiffer, Running, Working, Realms
<1>2. at[uses[t]] \in 0 .. latest /\ group[uses[t]] \in 0 .. latest /\ latest \in Nat
  BY <1>1, ThreadRealmsAssumption DEF IInv, TypeOK
<1>3. ReadVersion(uses[t]) \in 0 .. latest /\ group[uses[t]] <= ReadVersion(uses[t])
  BY <1>1, <1>2 DEF IInv, MadeAtHome, ReadVersion
<1> QED
  BY <1>1, <1>3 DEF IInv, TypeOK

LEMMA FindGroupStep ==
    ASSUME IInv, NEW t \in Threads, FindGroup(t)
    PROVE  IInv'
<1>1. /\ UNCHANGED << latest, writer, pthread, group, uses, begun, met, realms, cache, home >>
      /\ stage[t] = "using" /\ stage' = [stage EXCEPT ![t] = "found"]
      /\ at' = [at EXCEPT ![uses[t]] = ReadVersion(uses[t])]
  BY DEF FindGroup
<1>2. /\ uses[t] \in Threads /\ home[uses[t]] = pthread[t] /\ pthread[t] \in Pthreads
      /\ at' \in [Threads -> 0 .. latest]
      /\ group[uses[t]] <= ReadVersion(uses[t])
      /\ \A r \in Threads : at'[r] = at[r] \/ (r = uses[t] /\ at'[r] = ReadVersion(r))
  BY <1>1, Reads DEF Working
<1>3. TypeOK'
  BY <1>1, <1>2 DEF IInv, TypeOK
<1>4. RunningDiffer' /\ FoundAtHome' /\ UsedAtHome'
  BY <1>1 DEF IInv, TypeOK, RunningDiffer, FoundAtHome, UsedAtHome, Running
<1>5. MadeAtHome'
  BY <1>1, <1>2, ThreadRealmsAssumption DEF IInv, TypeOK, MadeAtHome
<1>6. InHand' /\ WritesAlone' /\ MissedOnInherited'
  BY <1>1 DEF IInv, TypeOK, InHand, WritesAlone, MissedOnInherited, Working, Realms
<1> QED
  BY <1>3, <1>4, <1>5, <1>6 DEF IInv

LEMMA MissGroupStep ==
    ASSUME IInv, NEW t \in Threads, MissGroup(t)
    PROVE  IInv'
<1>1. /\ UNCHANGED << latest, writer, pthread, group, begun, met, realms, cache, home >>
      /\ stage[t] = "using" /\ stage' = [stage EXCEPT ![t] = "stuck"]
      /\ uses' = [uses EXCEPT ![t] = None]
      /\ at' = [at EXCEPT ![uses[t]] = ReadVersion(uses[t])]
      /\ group[t] > ReadVersion(uses[t])
  BY DEF MissGroup
<1>2. /\ uses[t] \in Threads /\ home[uses[t]] = pthread[t] /\ pthread[t] \in Pthreads
      /\ at' \in [Threads -> 0 .. latest]
      /\ group[uses[t]] <= ReadVersion(uses[t])
      /\ \A r \in Threads : at'[r] = at[r] \/ (r = uses[t] /\ at'[r] = ReadVersion(r))
  BY <1>1, Reads DEF Working
<1>3. TypeOK'
  BY <1>1, <1>2 DEF IInv, TypeOK, Realms
<1>4. RunningDiffer' /\ FoundAtHome' /\ UsedAtHome'
  BY <1>1 DEF IInv, TypeOK, RunningDiffer, FoundAtHome, UsedAtHome, Running
<1>5. MadeAtHome'
  BY <1>1, <1>2, ThreadRealmsAssumption DEF IInv, TypeOK, MadeAtHome
<1>6. InHand' /\ WritesAlone'
  BY <1>1 DEF IInv, TypeOK, InHand, WritesAlone, Working
<1>7. met[t] = uses[t] /\ uses[t] # t
  <2>1. met[t] = uses[t]
    BY <1>1 DEF IInv, InHand, Working
  <2>2. group[t] \in Nat /\ latest \in Nat /\ ReadVersion(uses[t]) \in Nat
    BY <1>2, ThreadRealmsAssumption DEF IInv, TypeOK, ReadVersion
  <2> QED
    BY <1>1, <1>2, <2>1, <2>2
<1>8. stage[uses[t]] = "ended"
  <2>1. home[uses[t]] # None /\ pthread[uses[t]] = pthread[t] /\ stage[uses[t]] # "unborn"
    BY <1>2, ThreadRealmsAssumption DEF IInv, MadeAtHome
  <2>2. ~Running(uses[t])
    BY <1>1, <1>2, <1>7, <2>1 DEF IInv, RunningDiffer, Running
  <2> QED
    BY <2>1, <2>2 DEF Running
<1>9. MissedOnInherited'
  BY <1>1, <1>2, <1>7, <1>8 DEF IInv, TypeOK, MissedOnInherited, Realms
<1> QED
  BY <1>3, <1>4, <1>5, <1>6, <1>9 DEF IInv

LEMMA BeginWriteStep ==
    ASSUME IInv, NEW t \in Threads, BeginWrite(t)
    PROVE  IInv'
<1>1. PICK r \in Threads :
         /\ Obtain(t, r)
         /\ begun' = [begun EXCEPT ![t] = r]
         /\ at' = [at EXCEPT ![r] = latest]
         /\ IF realms[t] = None THEN Store(t, r) ELSE UNCHANGED realms
  BY DEF BeginWrite
<1>2. /\ UNCHANGED << latest, pthread, group, uses, met >>
      /\ stage[t] = "found" /\ writer = None /\ latest < MaxVersion /\ writer' = t
      /\ stage' = [stage EXCEPT ![t] = "writing"]
  BY DEF BeginWrite
<1>3. /\ uses[t] \in Threads /\ home[uses[t]] = pthread[t] /\ pthread[t] \in Pthreads
      /\ Found(t) = uses[t] /\ uses[t] # None
  <2>1. Working(t)
    BY <1>2 DEF Working
  <2> QED
    BY <2>1, FoundInHand
       DEF IInv, TypeOK, InHand, UsedAtHome, RunningDiffer, Running, Working, Realms
<1>4. r = uses[t] /\ UNCHANGED << cache, home >>
  BY <1>1, <1>3 DEF Obtain
<1>5. realms' \in {realms, [realms EXCEPT ![t] = uses[t]]}
  BY <1>1, <1>4 DEF Store
<1>6. TypeOK'
  <2>1. latest \in 0 .. latest
    BY ThreadRealmsAssumption DEF IInv, TypeOK
  <2> QED
    BY <1>1, <1>2, <1>3, <1>4, <1>5, <2>1 DEF IInv, TypeOK, Realms
<1>7. RunningDiffer' /\ UsedAtHome'
  BY <1>2, <1>4 DEF IInv, TypeOK, RunningDiffer, UsedAtHome, Running
<1>8. MadeAtHome'
  <2>1. \A x \in Threads : at'[x] = at[x] \/ (x = uses[t] /\ at'[x] = latest)
    BY <1>1, <1>4 DEF IInv, TypeOK
  <2>2. group[uses[t]] <= latest
    BY <1>3 DEF IInv, TypeOK
  <2> QED
    BY <1>2, <1>3, <1>4, <2>1, <2>2, ThreadRealmsAssumption DEF IInv, TypeOK, MadeAtHome
<1>9. FoundAtHome'
  BY <1>2, <1>3, <1>4, <1>5, ThreadRealmsAssumption DEF IInv, TypeOK, FoundAtHome
<1>10. InHand'
  BY <1>2, <1>4, <1>5 DEF IInv, TypeOK, InHand, Working
<1>11. WritesAlone'
  BY <1>1, <1>2, <1>4, ThreadRealmsAssumption DEF IInv, TypeOK, WritesAlone
<1>12. MissedOnInherited'
  BY <1>2 DEF IInv, TypeOK, MissedOnInherited, Realms
<1> QED
  BY <1>6, <1>7, <1>8, <1>9, <1>10, <1>11, <1>12 DEF IInv

LEMMA CommitWriteStep ==
    ASSUME IInv, NEW t \in Threads, CommitWrite(t)
    PROVE  IInv'
<1>1. /\ UNCHANGED << pthread, group, met, cache, home >>
      /\ stage[t] = "writing" /\ stage' = [stage EXCEPT ![t] = "open"]
      /\ writer' = None /\ latest' = latest + 1
      /\ begun' = [begun EXCEPT ![t] = None] /\ uses' = [uses EXCEPT ![t] = None]
  BY DEF CommitWrite
<1>2. Found(t) = uses[t] /\ at' = [at EXCEPT ![uses[t]] = latest + 1]
  BY <1>1, FoundInHand DEF CommitWrite, Working
<1>3. /\ uses[t] \in Threads /\ home[uses[t]] = pthread[t] /\ pthread[t] \in Pthreads
      /\ latest < MaxVersion /\ writer = t
  BY <1>1 DEF IInv, TypeOK, InHand, UsedAtHome, RunningDiffer, Running, Working, WritesAlone, Realms
<1>4. realms' \in {realms, [realms EXCEPT ![t] = uses[t]]}
  BY <1>1, <1>2 DEF CommitWrite, Store
<1>5. latest' \in 1 .. MaxVersion /\ latest \in Nat
  BY <1>1, <1>3, ThreadRealmsAssumption DEF IInv, TypeOK
<1>6. TypeOK'
  <2>1. at' \in [Threads -> 0 .. latest'] /\ group' \in [Threads -> 0 .. latest']
    <3>1. 0 .. latest \subseteq 0 .. latest' /\ latest + 1 \in 0 .. latest'
      BY <1>1, <1>5
    <3> QED
      BY <1>1, <1>2, <1>3, <3>1 DEF IInv, TypeOK
  <2>2. writer' \in Realms /\ begun' \in [Threads -> Realms] /\ uses' \in [Threads -> Realms]
    BY <1>1 DEF IInv, TypeOK, Realms
  <2>3. stage' \in [Threads -> {"unborn", "open", "storing", "using", "found", "writing",
                                "stuck", "ended"}]
    BY <1>1 DEF IInv, TypeOK
  <2>4. realms' \in [Threads -> Realms]
    BY <1>3, <1>4 DEF IInv, TypeOK, Realms
  <2> QED
    BY <1>1, <1>5, <2>1, <2>2, <2>3, <2>4 DEF IInv, TypeOK
<1>7. RunningDiffer' /\ UsedAtHome'
  BY <1>1 DEF IInv, TypeOK, RunningDiffer, UsedAtHome, Running
<1>8. FoundAtHome'
  BY <1>1, <1>3, <1>4, ThreadRealmsAssumption DEF IInv, TypeOK, FoundAtHome
<1>9. MadeAtHome'
  <2>1. \A x \in Threads : at'[x] = at[x] \/ (x = uses[t] /\ at'[x] = latest + 1)
    BY <1>2 DEF IInv, TypeOK
  <2>2. group[uses[t]] <= latest + 1
    BY <1>3, <1>5 DEF IInv, TypeOK
  <2> QED
    <3>1. ASSUME NEW x \in Threads
          PROVE  home'[x] # None => home'[x] = pthread'[x] /\ stage'[x] # "unborn"
      BY <1>1 DEF IInv, TypeOK, MadeAtHome
    <3>2. ASSUME NEW x \in Threads, at'[x] # 0
          PROVE  home'[x] # None /\ group'[x] <= at'[x]
      <4>1. home'[x] = home[x] /\ group'[x] = group[x]
        BY <1>1
      <4>2. CASE at'[x] = at[x]
        BY <3>2, <4>1, <4>2 DEF IInv, MadeAtHome
      <4>3. CASE x = uses[t] /\ at'[x] = latest + 1
        BY <1>3, <2>2, <4>1, <4>3, ThreadRealmsAssumption
      <4> QED
        BY <2>1, <4>2, <4>3
    <3> QED
      BY <3>1, <3>2 DEF MadeAtHome
<1>10. InHand'
  BY <1>1, <1>4 DEF IInv, TypeOK, InHand, Working
<1>11. WritesAlone'
  BY <1>1, <1>3 DEF IInv, TypeOK, WritesAlone
<1>12. MissedOnInherited'
  BY <1>1 DEF IInv, TypeOK, MissedOnInherited, Realms
<1> QED
  BY <1>6, <1>7, <1>9, <1>10, <1>11, <1>12, <1>8 DEF IInv

LEMMA ReturnStep ==
    ASSUME IInv, NEW t \in Threads, Return(t)
    PROVE  IInv'
<1>1. /\ UNCHANGED << latest, writer, pthread, group, begun, met, realms, cache, at, home >>
      /\ stage[t] = "found" /\ stage' = [stage EXCEPT ![t] = "open"]
      /\ uses' = [uses EXCEPT ![t] = None]
  BY DEF Return
<1>2. TypeOK' /\ RunningDiffer' /\ MadeAtHome' /\ FoundAtHome' /\ UsedAtHome'
  BY <1>1 DEF IInv, TypeOK, RunningDiffer, MadeAtHome, FoundAtHome, UsedAtHome, Running, Realms
<1>3. InHand' /\ WritesAlone' /\ MissedOnInherited'
  BY <1>1 DEF IInv, TypeOK, InHand, WritesAlone, MissedOnInherited, Working, Realms
<1> QED
  BY <1>2, <1>3 DEF IInv

LEMMA CloseStep ==
    ASSUME IInv, NEW t \in Threads, Close(t)
    PROVE  IInv'
<1>1. /\ UNCHANGED << latest, writer, pthread, group, uses, begun, met, realms, cache, at, home >>
      /\ stage[t] = "open" /\ stage' = [stage EXCEPT ![t] = "ended"]
  BY DEF Close
<1>2. TypeOK' /\ RunningDiffer' /\ MadeAtHome' /\ FoundAtHome'
  BY <1>1 DEF IInv, TypeOK, RunningDiffer, MadeAtHome, FoundAtHome, Running
<1>3. UsedAtHome'
  BY <1>1 DEF IInv, TypeOK, InHand, Working, UsedAtHome, Running
<1>4. InHand' /\ WritesAlone' /\ MissedOnInherited'
  BY <1>1 DEF IInv, TypeOK, InHand, WritesAlone, MissedOnInherited, Working, Realms
<1> QED
  BY <1>2, <1>3, <1>4 DEF IInv

LEMMA StartStep ==
    ASSUME IInv, NEW t \in Threads, Start(t)
    PROVE  IInv'
<1>1. PICK p \in Pthreads :
         /\ \A u \in Threads : Running(u) => pthread[u] # p
         /\ pthread' = [pthread EXCEPT ![t] = p]
  BY DEF Start
<1>2. PICK g \in 1 .. latest : group' = [group EXCEPT ![t] = g]
  BY DEF Start
<1>3. /\ UNCHANGED << latest, writer, uses, begun, met, realms, cache, at, home >>
      /\ stage[t] = "unborn" /\ stage' = [stage EXCEPT ![t] = "open"]
  BY DEF Start
<1>4. /\ home[t] = None /\ at[t] = 0 /\ pthread[t] = None
      /\ realms[t] = None /\ uses[t] = None
  BY <1>3 DEF IInv, MadeAtHome, RunningDiffer, FoundAtHome, UsedAtHome, Running
<1>5. TypeOK'
  BY <1>1, <1>2, <1>3 DEF IInv, TypeOK
<1>6. RunningDiffer'
  BY <1>1, <1>3 DEF IInv, TypeOK, RunningDiffer, Running
<1>7. MadeAtHome'
  BY <1>1, <1>2, <1>3, <1>4 DEF IInv, TypeOK, MadeAtHome
<1>8. FoundAtHome' /\ UsedAtHome'
  BY <1>1, <1>3, <1>4 DEF IInv, TypeOK, FoundAtHome, UsedAtHome, Running
<1>9. InHand' /\ WritesAlone' /\ MissedOnInherited'
  BY <1>1, <1>3 DEF IInv, TypeOK, InHand, WritesAlone, MissedOnInherited, Working, Realms
<1> QED
  BY <1>5, <1>6, <1>7, <1>8, <1>9 DEF IInv

LEMMA MainCommitStep ==
    ASSUME IInv, MainCommit
    PROVE  IInv'
<1>1. /\ UNCHANGED << writer, stage, pthread, group, uses, begun, met, realms, cache, at, home >>
      /\ writer = None /\ latest < MaxVersion /\ latest' = latest + 1
  BY DEF MainCommit
<1>2. latest' \in 1 .. MaxVersion /\ latest \in Nat
  BY <1>1, ThreadRealmsAssumption DEF IInv, TypeOK
<1>3. TypeOK'
  <2>1. at' \in [Threads -> 0 .. latest'] /\ group' \in [Threads -> 0 .. latest']
    BY <1>1, <1>2 DEF IInv, TypeOK
  <2> QED
    BY <1>1, <1>2, <2>1 DEF IInv, TypeOK
<1>4. RunningDiffer' /\ MadeAtHome' /\ FoundAtHome' /\ UsedAtHome' /\ InHand' /\ MissedOnInherited'
  BY <1>1 DEF IInv, RunningDiffer, MadeAtHome, FoundAtHome, UsedAtHome, InHand, MissedOnInherited,
              Running, Working
<1>5. WritesAlone'
  BY <1>1, ThreadRealmsAssumption DEF IInv, WritesAlone
<1> QED
  BY <1>3, <1>4, <1>5 DEF IInv

LEMMA AutorefreshStep ==
    ASSUME IInv, NEW r \in Threads, Autorefresh(r)
    PROVE  IInv'
<1>1. /\ UNCHANGED << latest, writer, stage, pthread, group, uses, begun, met, realms, cache, home >>
      /\ at[r] # 0 /\ at' = [at EXCEPT ![r] = latest]
  BY DEF Autorefresh
<1>2. TypeOK'
  <2>1. latest \in 0 .. latest
    BY ThreadRealmsAssumption DEF IInv, TypeOK
  <2> QED
    BY <1>1, <2>1 DEF IInv, TypeOK
<1>3. MadeAtHome'
  BY <1>1 DEF IInv, TypeOK, MadeAtHome
<1>4. RunningDiffer' /\ FoundAtHome' /\ UsedAtHome' /\ InHand' /\ WritesAlone' /\ MissedOnInherited'
  BY <1>1 DEF IInv, RunningDiffer, FoundAtHome, UsedAtHome, InHand, WritesAlone, MissedOnInherited,
              Running, Working
<1> QED
  BY <1>2, <1>3, <1>4 DEF IInv

LEMMA Invariance == Spec => []IInv
<1>1. IInv /\ [Next]_vars => IInv'
  <2> SUFFICES ASSUME IInv, [Next]_vars PROVE IInv'
    OBVIOUS
  <2>1. CASE MainCommit
    BY <2>1, MainCommitStep
  <2>2. ASSUME NEW t \in Threads, Start(t) PROVE IInv'
    BY <2>2, StartStep
  <2>3. ASSUME NEW t \in Threads, Autorefresh(t) PROVE IInv'
    BY <2>3, AutorefreshStep
  <2>4. ASSUME NEW t \in Threads, Step(t) PROVE IInv'
    BY <2>4, HandleStep, StoreRealmStep, FindGroupStep, MissGroupStep, BeginWriteStep,
       CommitWriteStep, ReturnStep, CloseStep DEF Step
  <2>5. CASE UNCHANGED vars
    BY <2>5 DEF vars, IInv, TypeOK, RunningDiffer, MadeAtHome, FoundAtHome, UsedAtHome, InHand,
                WritesAlone, MissedOnInherited, Running, Working
  <2> QED
    BY <2>1, <2>2, <2>3, <2>4, <2>5 DEF Next
<1> QED
  BY InitIInv, <1>1, PTL DEF Spec
-------------------------------------------------------------------------------
(***************************************************************************)
(* What follows, for any threads, pthreads and versions.                    *)
(***************************************************************************)
(* The variables keep their types: no thread and no Realm knows of a version *)
(* before it is committed.                                                   *)
THEOREM TypeCorrect == Spec => []TypeOK
<1>1. IInv => TypeOK
  BY DEF IInv
<1> QED
  BY <1>1, Invariance, PTL

(* ReaderBox.realm gives a thread only a Realm that was made on the thread's *)
(* own pthread_t, and never one that another running thread is using.        *)
THEOREM Confined == Spec => []ConfinedToThread
<1>1. ASSUME IInv PROVE ConfinedToThread
  <2> SUFFICES ASSUME NEW t \in Threads, uses[t] # None
               PROVE  /\ home[uses[t]] = pthread[t]
                      /\ \A u \in Threads \ {t} : uses[u] # uses[t]
    BY DEF ConfinedToThread
  <2>1. Running(t) /\ home[uses[t]] = pthread[t]
    BY <1>1 DEF IInv, UsedAtHome
  <2>2. ASSUME NEW u \in Threads \ {t}, uses[u] = uses[t] PROVE FALSE
    <3>1. Running(u) /\ home[uses[u]] = pthread[u]
      BY <1>1, <2>2 DEF IInv, UsedAtHome
    <3> QED
      BY <1>1, <2>1, <2>2, <3>1 DEF IInv, RunningDiffer
  <2> QED
    BY <2>1, <2>2
<1> QED
  BY <1>1, Invariance, PTL

(* Although the Realm is looked up anew for commitWrite, in a dictionary and *)
(* a cache that others change in the meantime, it is the one of beginWrite.  *)
THEOREM CommitsItsOwn == Spec => []CommitsWhatItBegan
<1>1. ASSUME IInv PROVE CommitsWhatItBegan
  <2>1. ASSUME NEW t \in Threads, stage[t] = "writing"
        PROVE  Found(t) = begun[t] /\ begun[t] = uses[t]
    <3>1. Found(t) = uses[t]
      BY <1>1, <2>1, FoundInHand DEF Working
    <3> QED
      BY <1>1, <2>1, <3>1 DEF IInv, WritesAlone
  <2> QED
    BY <2>1 DEF CommitsWhatItBegan
<1> QED
  BY <1>1, Invariance, PTL

(* A handler finds its group missing only on a Realm that an ended thread    *)
(* with the same pthread_t has left behind.                                  *)
THEOREM MissesOnInherited == Spec => []MissedOnInherited
<1>1. IInv => MissedOnInherited
  BY DEF IInv
<1> QED
  BY <1>1, Invariance, PTL
================================================================================
