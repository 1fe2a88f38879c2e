--------------------------- MODULE SiftingTheorems ----------------------------
(***************************************************************************)
(* Induction by the least counterexample, what sifting a sequence leaves of *)
(* it, and what flattening a sequence of sequences makes of it.             *)
(***************************************************************************)
EXTENDS Sifting, SequencesExt, WellFoundedInduction, SequenceTheorems, TLAPS

(***************************************************************************)
(* Putting sequences together, under names of their own: what only regroups *)
(* them is then said, and used, without any fact about their elements.      *)
(***************************************************************************)
Joined(s, t) == s \o t
Longer(s, e) == Append(s, e)

(* Three sequences may be put together in any grouping. *)
LEMMA Regrouped ==
    ASSUME NEW S, NEW s \in Seq(S), NEW t \in Seq(S), NEW u \in Seq(S)
    PROVE  Joined(Joined(s, t), u) = Joined(s, Joined(t, u))
<1>1. \A R : \A a, b, c \in Seq(R) : Joined(Joined(a, b), c) = Joined(a, Joined(b, c))
  BY ConcatAssociative DEF Joined
<1> QED BY <1>1

(* An element added to two sequences is added to the second. *)
LEMMA LongerBehind ==
    ASSUME NEW S, NEW s \in Seq(S), NEW t \in Seq(S), NEW e \in S
    PROVE  Longer(Joined(s, t), e) = Joined(s, Longer(t, e))
<1>1. PICK u \in Seq(S) : u = << e >>
  <2>1. << e >> \in Seq(S)
    OBVIOUS
  <2> QED BY <2>1, Zenon
<1>2. s \o t \in Seq(S)
  BY ConcatProperties
<1>3. Joined(Joined(s, t), u) = Joined(s, Joined(t, u))
  BY Regrouped
<1>4. \A r \in Seq(S) : Append(r, e) = r \o u
  BY <1>1, AppendIsConcat
<1>5. Append(t, e) = t \o u /\ Append(s \o t, e) = (s \o t) \o u
  BY <1>2, <1>4, Zenon
<1>6. (s \o t) \o u = s \o (t \o u)
  BY <1>3 DEF Joined
<1>7. Append(s \o t, e) = s \o Append(t, e)
  BY <1>5, <1>6, Zenon
<1> QED BY <1>7 DEF Longer, Joined

(* A nonempty set of natural numbers has a least element. *)
LEMMA LeastNatural ==
    ASSUME NEW T, T \subseteq Nat, T # {}
    PROVE  \E x \in T : \A y \in T : x <= y
<1>1. IsWellFoundedOn(OpToRel(<, Nat), Nat)
  BY NatLessThanWellFounded
<1>2. PICK x \in T : \A y \in T : ~ (<< y, x >> \in OpToRel(<, Nat))
  BY <1>1, WFMin
<1>3. ASSUME NEW y \in T PROVE x <= y
  <2>1. ~ (<< y, x >> \in OpToRel(<, Nat))
    BY <1>2
  <2>2. ~ (y < x)
    BY <2>1 DEF OpToRel
  <2> QED BY <2>2
<1> QED BY <1>3

(* Induction over a set of numbers. *)
LEMMA Induction ==
    ASSUME NEW T, 0 \in T, \A n \in Nat : n \in T => n + 1 \in T
    PROVE  Nat \subseteq T
<1> DEFINE U == Nat \ T
<1> SUFFICES ASSUME U # {} PROVE FALSE
  OBVIOUS
<1>1. PICK x \in U : \A y \in U : x <= y
  <2> U \subseteq Nat
    OBVIOUS
  <2> HIDE DEF U
  <2> QED BY LeastNatural
<1>2. x \in Nat /\ x # 0 /\ x - 1 \in Nat
  OBVIOUS
<1>3. x - 1 \notin U
  BY <1>1, <1>2
<1> QED BY <1>2, <1>3

(***************************************************************************)
(* What is defined by recursion over the natural numbers exists.            *)
(***************************************************************************)
Steps(S) == [Nat -> [S -> S]]

Builds(g, S, base, step, n) ==
    /\ g \in [0 .. n -> S] /\ g[0] = base
    /\ \A i \in 1 .. n : g[i] = step[i][g[i - 1]]

LEMMA BuiltUpTo ==
    ASSUME NEW S, NEW base \in S, NEW step \in [Nat -> [S -> S]], NEW n \in Nat
    PROVE  \E g : Builds(g, S, base, step, n)
<1> DEFINE T == {k \in Nat : \E g : Builds(g, S, base, step, k)}
<1>1. 0 \in T
  <2> DEFINE g == [i \in 0 .. 0 |-> base]
  <2>1. Builds(g, S, base, step, 0)
    BY DEF Builds
  <2> QED BY <2>1
<1>2. ASSUME NEW k \in Nat, k \in T PROVE k + 1 \in T
  <2>1. PICK g : Builds(g, S, base, step, k)
    BY <1>2
  <2> DEFINE h == [i \in 0 .. k + 1 |-> IF i = k + 1 THEN step[k + 1][g[k]] ELSE g[i]]
  <2>2. g \in [0 .. k -> S] /\ g[0] = base /\ \A i \in 1 .. k : g[i] = step[i][g[i - 1]]
    BY <2>1 DEF Builds
  <2>3. step[k + 1][g[k]] \in S
    BY <2>2
  <2>4. \A i \in 0 .. k : h[i] = g[i] /\ g[i] \in S
    BY <2>2
  <2>5. h[k + 1] = step[k + 1][g[k]]
    OBVIOUS
  <2>6. h \in [0 .. k + 1 -> S]
    <3>1. \A i \in 0 .. k + 1 : i = k + 1 \/ i \in 0 .. k
      OBVIOUS
    <3>2. \A i \in 0 .. k + 1 : h[i] \in S
      <4> HIDE DEF h
      <4> QED BY <3>1, <2>3, <2>4, <2>5
    <3> QED BY <3>2
  <2> HIDE DEF h
  <2>7. h[0] = base
    BY <2>2, <2>4
  <2>8. ASSUME NEW i \in 1 .. k + 1 PROVE h[i] = step[i][h[i - 1]]
    <3>1. CASE i = k + 1
      BY <3>1, <2>4, <2>5
    <3>2. CASE i \in 1 .. k
      <4>1. i - 1 \in 0 .. k /\ i \in 0 .. k
        BY <3>2
      <4> QED BY <3>2, <4>1, <2>2, <2>4
    <3> QED BY <3>1, <3>2
  <2>9. Builds(h, S, base, step, k + 1)
    BY <2>6, <2>7, <2>8 DEF Builds
  <2> QED BY <2>9
<1>3. Nat \subseteq T
  <2> HIDE DEF T
  <2> QED BY <1>1, <1>2, Induction
<1> QED BY <1>3

LEMMA BuiltAlike ==
    ASSUME NEW S, NEW base, NEW step, NEW m \in Nat, NEW n \in Nat, m <= n,
           NEW g, NEW h, Builds(g, S, base, step, m), Builds(h, S, base, step, n)
    PROVE  \A i \in 0 .. m : g[i] = h[i]
<1> DEFINE T == {i \in Nat : i <= m => g[i] = h[i]}
<1>1. 0 \in T
  BY DEF Builds
<1>2. ASSUME NEW i \in Nat, i \in T PROVE i + 1 \in T
  <2> SUFFICES ASSUME i + 1 <= m PROVE g[i + 1] = h[i + 1]
    OBVIOUS
  <2>1. i + 1 \in 1 .. m /\ i + 1 \in 1 .. n /\ (i + 1) - 1 = i /\ g[i] = h[i]
    BY <1>2
  <2> QED BY <2>1 DEF Builds
<1>3. Nat \subseteq T
  <2> HIDE DEF T
  <2> QED BY <1>1, <1>2, Induction
<1> QED BY <1>3

BuildsAll(f, S, base, step) ==
    /\ f \in [Nat -> S] /\ f[0] = base
    /\ \A n \in Nat : f[n + 1] = step[n + 1][f[n]]

LEMMA Recursion ==
    ASSUME NEW S, NEW base \in S, NEW step \in Steps(S)
    PROVE  \E f : BuildsAll(f, S, base, step)
<1> DEFINE upTo(n) == CHOOSE g : Builds(g, S, base, step, n)
           f == [n \in Nat |-> upTo(n)[n]]
<1>1. ASSUME NEW n \in Nat PROVE Builds(upTo(n), S, base, step, n)
  BY BuiltUpTo DEF Steps
<1> HIDE DEF upTo
<1>2. ASSUME NEW n \in Nat PROVE upTo(n)[n] \in S
  BY <1>1 DEF Builds
<1>3. f \in [Nat -> S]
  BY <1>2
<1>4. f[0] = base
  BY <1>1 DEF Builds
<1>5. ASSUME NEW n \in Nat PROVE f[n + 1] = step[n + 1][f[n]]
  <2>1. Builds(upTo(n + 1), S, base, step, n + 1) /\ Builds(upTo(n), S, base, step, n)
    BY <1>1
  <2>2. upTo(n)[n] = upTo(n + 1)[n]
    <3>1. n + 1 \in Nat /\ n <= n + 1 /\ n \in 0 .. n
      OBVIOUS
    <3> QED BY <2>1, <3>1, BuiltAlike
  <2>3. upTo(n + 1)[n + 1] = step[n + 1][upTo(n + 1)[n]]
    BY <2>1 DEF Builds
  <2> QED BY <2>2, <2>3
<1>6. BuildsAll(f, S, base, step)
  <2> HIDE DEF f
  <2> QED BY <1>3, <1>4, <1>5 DEF BuildsAll
<1> QED BY <1>6
-------------------------------------------------------------------------------
(***************************************************************************)
(* Sifting goes through the sequence element by element.                    *)
(***************************************************************************)
LEMMA WithinFirstDef ==
    ASSUME NEW S, NEW s \in Seq(S), NEW X
    PROVE  /\ WithinFirst(s, X, 0) = << >>
           /\ \A n \in 1 .. Len(s) :
                 /\ s[n] \in X => WithinFirst(s, X, n) = Append(WithinFirst(s, X, n - 1), s[n])
                 /\ s[n] \notin X => WithinFirst(s, X, n) = WithinFirst(s, X, n - 1)
           /\ \A n \in 0 .. Len(s) : WithinFirst(s, X, n) \in Seq(S)
<1> DEFINE step == [i \in Nat |-> [r \in Seq(S) |->
                       IF i \in 1 .. Len(s) /\ s[i] \in X THEN Append(r, s[i]) ELSE r]]
           Kept(k) == k = [i \in 0 .. Len(s) |-> IF i = 0 THEN << >>
                                                ELSE IF s[i] \in X THEN Append(k[i - 1], s[i])
                                                ELSE k[i - 1]]
           kept == CHOOSE k : Kept(k)
<1>0. Len(s) \in Nat
  OBVIOUS
<1>1. \A i \in Nat, r \in Seq(S) :
         step[i][r] = IF i \in 1 .. Len(s) /\ s[i] \in X THEN Append(r, s[i]) ELSE r
  OBVIOUS
<1>2. step \in [Nat -> [Seq(S) -> Seq(S)]]
  OBVIOUS
<1>3. PICK f \in [Nat -> Seq(S)] : f[0] = << >> /\ \A n \in Nat : f[n + 1] = step[n + 1][f[n]]
  <2> DEFINE Q == Seq(S)
             empty == << >>
  <2>1. empty \in Q /\ step \in [Nat -> [Q -> Q]]
    BY <1>2
  <2>2. step \in Steps(Q)
    BY <2>1 DEF Steps
  <2>3. \E f : BuildsAll(f, Q, empty, step)
    <3> HIDE DEF step, Q, empty
    <3> QED BY <2>1, <2>2, Recursion
  <2> QED BY <2>3 DEF BuildsAll
<1>4. \A i \in 1 .. Len(s) : f[i] = IF s[i] \in X THEN Append(f[i - 1], s[i]) ELSE f[i - 1]
  <2> SUFFICES ASSUME NEW i \in 1 .. Len(s)
               PROVE  f[i] = IF s[i] \in X THEN Append(f[i - 1], s[i]) ELSE f[i - 1]
    OBVIOUS
  <2>1. i - 1 \in Nat /\ (i - 1) + 1 = i /\ i \in Nat
    OBVIOUS
  <2>2. f[i] = step[i][f[i - 1]] /\ f[i - 1] \in Seq(S)
    BY <1>3, <2>1
  <2> QED BY <1>1, <2>1, <2>2
<1>5. Kept([i \in 0 .. Len(s) |-> f[i]])
  <2> DEFINE k == [i \in 0 .. Len(s) |-> f[i]]
  <2>1. \A i \in 0 .. Len(s) : k[i] = IF i = 0 THEN << >>
                                      ELSE IF s[i] \in X THEN Append(k[i - 1], s[i])
                                      ELSE k[i - 1]
    <3> SUFFICES ASSUME NEW i \in 0 .. Len(s)
                 PROVE  k[i] = IF i = 0 THEN << >>
                               ELSE IF s[i] \in X THEN Append(k[i - 1], s[i]) ELSE k[i - 1]
      OBVIOUS
    <3>1. CASE i = 0
      BY <3>1, <1>3
    <3>2. CASE i \in 1 .. Len(s)
      <4>1. i - 1 \in 0 .. Len(s) /\ k[i] = f[i] /\ k[i - 1] = f[i - 1]
        BY <3>2
      <4> HIDE DEF k
      <4>2. f[i] = IF s[i] \in X THEN Append(f[i - 1], s[i]) ELSE f[i - 1]
        BY <3>2, <1>4, Zenon
      <4>3. i # 0
        BY <3>2
      <4> QED BY <4>1, <4>2, <4>3, Zenon
    <3>3. i = 0 \/ i \in 1 .. Len(s)
      BY <1>0
    <3> QED BY <3>1, <3>2, <3>3, Zenon
  <2>2. k = [i \in 0 .. Len(s) |-> k[i]]
    OBVIOUS
  <2> HIDE DEF k
  <2>3. k = [i \in 0 .. Len(s) |-> IF i = 0 THEN << >>
                                 ELSE IF s[i] \in X THEN Append(k[i - 1], s[i]) ELSE k[i - 1]]
    BY <2>1, <2>2
  <2> USE DEF k
  <2> QED BY <2>3
<1>6. Kept(kept)
  <2> HIDE DEF Kept
  <2> QED BY <1>5
<1> HIDE DEF step, kept
<1>7. /\ kept[0] = << >>
      /\ \A i \in 1 .. Len(s) : kept[i] = IF s[i] \in X THEN Append(kept[i - 1], s[i])
                                           ELSE kept[i - 1]
  <2>1. kept = [i \in 0 .. Len(s) |-> IF i = 0 THEN << >>
                                    ELSE IF s[i] \in X THEN Append(kept[i - 1], s[i])
                                    ELSE kept[i - 1]]
    BY <1>6
  <2>2. \A i \in 0 .. Len(s) : kept[i] = IF i = 0 THEN << >>
                                         ELSE IF s[i] \in X THEN Append(kept[i - 1], s[i])
                                         ELSE kept[i - 1]
    BY <2>1
  <2> HIDE DEF Kept
  <2>3. 0 \in 0 .. Len(s) /\ \A i \in 1 .. Len(s) : i \in 0 .. Len(s) /\ i # 0
    BY <1>0
  <2> QED BY <2>2, <2>3
<1>8. \A n : WithinFirst(s, X, n) = kept[n]
  BY DEF WithinFirst, kept
<1> HIDE DEF Kept
<1>9. \A n \in 0 .. Len(s) : kept[n] \in Seq(S)
  <2> DEFINE T == {n \in Nat : n <= Len(s) => kept[n] \in Seq(S)}
  <2>1. 0 \in T
    <3>1. << >> \in Seq(S)
      OBVIOUS
    <3> QED BY <1>7, <3>1
  <2>2. ASSUME NEW n \in Nat, n \in T PROVE n + 1 \in T
    <3> SUFFICES ASSUME n + 1 <= Len(s) PROVE kept[n + 1] \in Seq(S)
      OBVIOUS
    <3>1. n + 1 \in 1 .. Len(s) /\ (n + 1) - 1 = n /\ kept[n] \in Seq(S) /\ s[n + 1] \in S
      BY <2>2, SMTT(60)
    <3>2. Append(kept[n], s[n + 1]) \in Seq(S)
      BY <3>1
    <3> QED BY <1>7, <3>1, <3>2
  <2>3. Nat \subseteq T
    <3> HIDE DEF T
    <3> QED BY <2>1, <2>2, Induction
  <2> QED BY <2>3
<1> QED BY <1>7, <1>8, <1>9

LEMMA WithinFirstType ==
    ASSUME NEW S, NEW s \in Seq(S), NEW X, NEW n \in 0 .. Len(s)
    PROVE  WithinFirst(s, X, n) \in Seq(S)
BY WithinFirstDef

LEMMA WithinFirstNext ==
    ASSUME NEW S, NEW s \in Seq(S), NEW X, NEW n \in 1 .. Len(s)
    PROVE  /\ s[n] \in X => WithinFirst(s, X, n) = Append(WithinFirst(s, X, n - 1), s[n])
           /\ s[n] \notin X => WithinFirst(s, X, n) = WithinFirst(s, X, n - 1)
BY WithinFirstDef, ZenonT(60)

Continues(t, s) == Len(s) <= Len(t) /\ \A i \in 1 .. Len(s) : t[i] = s[i]

(* Sifting more of the sequence only adds to what is left. *)
LEMMA WithinMore ==
    ASSUME NEW S, NEW s \in Seq(S), NEW X, NEW m \in 0 .. Len(s), NEW n \in 0 .. m
    PROVE  Continues(WithinFirst(s, X, m), WithinFirst(s, X, n))
<1> DEFINE w(k) == WithinFirst(s, X, k)
           Grown(k) == /\ Len(w(n)) <= Len(w(k))
                       /\ \A i \in 1 .. Len(w(n)) : w(k)[i] = w(n)[i]
           T == {d \in Nat : n + d <= Len(s) => Grown(n + d)}
<1>0. Len(s) \in Nat /\ n \in Nat /\ m \in Nat
  OBVIOUS
<1>1. /\ \A k \in 1 .. Len(s) : w(k) = Append(w(k - 1), s[k]) \/ w(k) = w(k - 1)
      /\ \A k \in 0 .. Len(s) : w(k) \in Seq(S)
  BY WithinFirstType, WithinFirstNext
<1> HIDE DEF w
<1>2. 0 \in T
  BY <1>0, <1>1
<1>3. ASSUME NEW d \in Nat, d \in T PROVE d + 1 \in T
  <2> SUFFICES ASSUME n + (d + 1) <= Len(s) PROVE Grown(n + (d + 1))
    OBVIOUS
  <2> DEFINE k == n + d
  <2>1. k \in 0 .. Len(s) /\ k + 1 \in 1 .. Len(s) /\ (k + 1) - 1 = k /\ n + (d + 1) = k + 1
        /\ n \in 0 .. Len(s)
    BY <1>0
  <2>2. Grown(k)
    BY <1>0, <1>3
  <2> HIDE DEF k
  <2>3. w(k) \in Seq(S) /\ w(n) \in Seq(S) /\ s[k + 1] \in S
    BY <1>1, <2>1, SMTT(60)
  <2>4. w(k + 1) = w(k) \/ w(k + 1) = Append(w(k), s[k + 1])
    BY <1>1, <2>1
  <2>5. Grown(k + 1)
    BY <2>2, <2>3, <2>4, SMTT(60)
  <2> QED BY <2>1, <2>5
<1>4. Nat \subseteq T
  <2> HIDE DEF T
  <2> QED BY <1>2, <1>3, Induction
<1>5. m - n \in Nat /\ n + (m - n) = m /\ m <= Len(s)
  BY <1>0
<1>6. Grown(m)
  BY <1>4, <1>5
<1> QED BY <1>6 DEF w, Continues

(* Induction over the sequences of a set. *)
LEMMA SequenceInduction ==
    ASSUME NEW S, NEW T, << >> \in T,
           \A s \in Seq(S), e \in S : s \in T => Append(s, e) \in T
    PROVE  Seq(S) \subseteq T
<1> DEFINE U == {n \in Nat : \A s \in Seq(S) : Len(s) = n => s \in T}
<1>1. 0 \in U
  <2>1. \A s \in Seq(S) : Len(s) = 0 => s = << >>
    OBVIOUS
  <2> QED BY <2>1
<1>2. ASSUME NEW n \in Nat, n \in U PROVE n + 1 \in U
  <2> SUFFICES ASSUME NEW s \in Seq(S), Len(s) = n + 1 PROVE s \in T
    OBVIOUS
  <2> DEFINE front == SubSeq(s, 1, n)
  <2>1. front \in Seq(S) /\ Len(front) = n /\ s[n + 1] \in S /\ s = Append(front, s[n + 1])
    OBVIOUS
  <2>2. front \in T
    BY <1>2, <2>1
  <2> HIDE DEF front
  <2> QED BY <2>1, <2>2
<1>3. Nat \subseteq U
  <2> HIDE DEF U
  <2> QED BY <1>1, <1>2, Induction
<1>4. \A s \in Seq(S) : Len(s) \in Nat
  OBVIOUS
<1> QED BY <1>3, <1>4

(* What is left of a sequence is a sequence of the same elements. *)
LEMMA WithinType ==
    ASSUME NEW S, NEW s \in Seq(S), NEW X
    PROVE  Within(s, X) \in Seq(S)
<1>1. Len(s) \in 0 .. Len(s)
  OBVIOUS
<1> QED BY <1>1, WithinFirstType DEF Within

(* An element that is added is kept or left out; the rest stays as it was. *)
LEMMA WithinAppend ==
    ASSUME NEW S, NEW s \in Seq(S), NEW e \in S, NEW X
    PROVE  /\ Within(<< >>, X) = << >>
           /\ e \in X => Within(Append(s, e), X) = Append(Within(s, X), e)
           /\ e \notin X => Within(Append(s, e), X) = Within(s, X)
<1> DEFINE t == Append(s, e)
<1>1. /\ t \in Seq(S) /\ Len(t) = Len(s) + 1 /\ t[Len(s) + 1] = e /\ Len(s) \in Nat
      /\ \A i \in 1 .. Len(s) : t[i] = s[i]
  OBVIOUS
<1> HIDE DEF t
<1>2. Within(<< >>, X) = << >>
  <2>1. << >> \in Seq(S) /\ Len(<< >>) = 0
    OBVIOUS
  <2> QED BY <2>1, WithinFirstDef, ZenonT(60) DEF Within
<1> DEFINE T == {n \in Nat : n <= Len(s) => WithinFirst(t, X, n) = WithinFirst(s, X, n)}
<1>3. 0 \in T
  BY <1>1, WithinFirstDef
<1>4. ASSUME NEW n \in Nat, n \in T PROVE n + 1 \in T
  <2> SUFFICES ASSUME n + 1 <= Len(s) PROVE WithinFirst(t, X, n + 1) = WithinFirst(s, X, n + 1)
    OBVIOUS
  <2>1. /\ n + 1 \in 1 .. Len(s) /\ n + 1 \in 1 .. Len(t) /\ (n + 1) - 1 = n
        /\ t[n + 1] = s[n + 1] /\ WithinFirst(t, X, n) = WithinFirst(s, X, n)
    BY <1>1, <1>4
  <2>2. /\ s[n + 1] \in X => WithinFirst(s, X, n + 1) = Append(WithinFirst(s, X, n), s[n + 1])
        /\ s[n + 1] \notin X => WithinFirst(s, X, n + 1) = WithinFirst(s, X, n)
    BY <2>1, WithinFirstNext, SMTT(60)
  <2>3. /\ t[n + 1] \in X => WithinFirst(t, X, n + 1) = Append(WithinFirst(t, X, n), t[n + 1])
        /\ t[n + 1] \notin X => WithinFirst(t, X, n + 1) = WithinFirst(t, X, n)
    BY <1>1, <2>1, WithinFirstNext, ZenonT(60)
  <2> QED BY <2>1, <2>2, <2>3
<1>5. Nat \subseteq T
  <2> HIDE DEF T
  <2> QED BY <1>3, <1>4, Induction
<1>6. WithinFirst(t, X, Len(s)) = WithinFirst(s, X, Len(s))
  BY <1>1, <1>5
<1>7. Len(t) \in 1 .. Len(t) /\ Len(t) - 1 = Len(s) /\ t[Len(t)] = e
  BY <1>1
<1>8. /\ e \in X => WithinFirst(t, X, Len(t)) = Append(WithinFirst(t, X, Len(s)), e)
      /\ e \notin X => WithinFirst(t, X, Len(t)) = WithinFirst(t, X, Len(s))
  BY <1>1, <1>7, WithinFirstNext, ZenonT(60)
<1> QED BY <1>2, <1>6, <1>8 DEF Within, t

(* Of nothing, nothing is left. *)
LEMMA WithinEmpty ==
    ASSUME NEW X
    PROVE  Within(<< >>, X) = << >>
<1>1. << >> \in Seq({0}) /\ 0 \in {0}
  OBVIOUS
<1> QED BY <1>1, WithinAppend

(* Sifting one sequence and then another is sifting both together. *)
LEMMA WithinConcat ==
    ASSUME NEW S, NEW s \in Seq(S), NEW t \in Seq(S), NEW X
    PROVE  Within(s \o t, X) = Within(s, X) \o Within(t, X)
<1> DEFINE T == {u \in Seq(S) : Within(s \o u, X) = Within(s, X) \o Within(u, X)}
<1>0. Within(s, X) \in Seq(S) /\ \A u \in Seq(S) : Within(u, X) \in Seq(S)
  BY WithinType
<1>1. << >> \in T
  <2>1. s \o << >> = s /\ Within(s, X) \o << >> = Within(s, X) /\ << >> \in Seq(S)
    BY <1>0
  <2>2. Within(<< >>, X) = << >>
    <3>1. CASE S = {}
      BY <1>0, <2>1, <3>1
    <3>2. CASE S # {}
      BY <3>2, <2>1, WithinAppend
    <3> QED BY <3>1, <3>2
  <2> QED BY <2>1, <2>2
<1>2. ASSUME NEW u \in Seq(S), NEW e \in S, u \in T PROVE Append(u, e) \in T
  <2>1. s \o u \in Seq(S) /\ s \o Append(u, e) = Append(s \o u, e) /\ Append(u, e) \in Seq(S)
    <3>1. Longer(Joined(s, u), e) = Joined(s, Longer(u, e))
      BY LongerBehind
    <3>2. s \o Append(u, e) = Append(s \o u, e)
      BY <3>1 DEF Longer, Joined
    <3>3. s \o u \in Seq(S) /\ Append(u, e) \in Seq(S)
      BY ConcatProperties, AppendProperties
    <3> QED BY <3>2, <3>3
  <2>2. /\ e \in X => Within(Append(s \o u, e), X) = Append(Within(s \o u, X), e)
        /\ e \notin X => Within(Append(s \o u, e), X) = Within(s \o u, X)
    BY <2>1, WithinAppend, ZenonT(60)
  <2>3. /\ e \in X => Within(Append(u, e), X) = Append(Within(u, X), e)
        /\ e \notin X => Within(Append(u, e), X) = Within(u, X)
    BY WithinAppend, SMTT(60)
  <2>4. Within(s \o u, X) = Within(s, X) \o Within(u, X)
    BY <1>2
  <2>5. Within(s, X) \o Append(Within(u, X), e) = Append(Within(s, X) \o Within(u, X), e)
    <3>1. Longer(Joined(Within(s, X), Within(u, X)), e) = Joined(Within(s, X), Longer(Within(u, X), e))
      BY <1>0, LongerBehind
    <3> QED BY <3>1 DEF Longer, Joined
  <2>6. Within(s \o Append(u, e), X) = Within(s, X) \o Within(Append(u, e), X)
    BY <2>1, <2>2, <2>3, <2>4, <2>5, Zenon
  <2> QED BY <2>1, <2>6
<1>3. Seq(S) \subseteq T
  <2> HIDE DEF T
  <2> QED BY <1>1, <1>2, SequenceInduction
<1> QED BY <1>3

(* Only the elements of the sequence count. *)
LEMMA WithinAlike ==
    ASSUME NEW S, NEW s \in Seq(S), NEW X, NEW Y,
           \A i \in DOMAIN s : s[i] \in X <=> s[i] \in Y
    PROVE  Within(s, X) = Within(s, Y)
<1> DEFINE T == {n \in Nat : n <= Len(s) => WithinFirst(s, X, n) = WithinFirst(s, Y, n)}
<1>1. 0 \in T
  BY WithinFirstDef
<1>2. ASSUME NEW n \in Nat, n \in T PROVE n + 1 \in T
  <2> SUFFICES ASSUME n + 1 <= Len(s) PROVE WithinFirst(s, X, n + 1) = WithinFirst(s, Y, n + 1)
    OBVIOUS
  <2>1. /\ n + 1 \in 1 .. Len(s) /\ (n + 1) - 1 = n /\ (s[n + 1] \in X <=> s[n + 1] \in Y)
        /\ WithinFirst(s, X, n) = WithinFirst(s, Y, n)
    BY <1>2
  <2>2. \A Z : /\ s[n + 1] \in Z => WithinFirst(s, Z, n + 1) = Append(WithinFirst(s, Z, n), s[n + 1])
               /\ s[n + 1] \notin Z => WithinFirst(s, Z, n + 1) = WithinFirst(s, Z, n)
    BY <2>1, WithinFirstNext, SMTT(60)
  <2> QED BY <2>1, <2>2, Zenon
<1>3. Nat \subseteq T
  <2> HIDE DEF T
  <2> QED BY <1>1, <1>2, Induction
<1>4. Len(s) \in Nat
  OBVIOUS
<1> QED BY <1>3, <1>4 DEF Within

(* To leave some elements out is to keep the others. *)
LEMMA WithoutIsWithin ==
    ASSUME NEW S, NEW s \in Seq(S), NEW X
    PROVE  Without(s, X) = Within(s, S \ X)
<1>1. \A i \in DOMAIN s : s[i] \in {s[j] : j \in DOMAIN s} \ X <=> s[i] \in S \ X
  OBVIOUS
<1> QED BY <1>1, WithinAlike DEF Without

(* The same for the elements that are left out: type, concatenation, Append. *)
LEMMA WithoutType ==
    ASSUME NEW S, NEW s \in Seq(S), NEW X
    PROVE  Without(s, X) \in Seq(S)
BY WithinType DEF Without

(* Leaving elements out of one sequence and another, and out of both. *)
LEMMA WithoutConcat ==
    ASSUME NEW S, NEW s \in Seq(S), NEW t \in Seq(S), NEW X
    PROVE  Without(s \o t, X) = Without(s, X) \o Without(t, X)
<1>1. s \o t \in Seq(S)
  OBVIOUS
<1>2. /\ Without(s \o t, X) = Within(s \o t, S \ X)
      /\ Without(s, X) = Within(s, S \ X) /\ Without(t, X) = Within(t, S \ X)
  BY <1>1, WithoutIsWithin
<1>3. Within(s \o t, S \ X) = Within(s, S \ X) \o Within(t, S \ X)
  BY WithinConcat
<1> QED BY <1>2, <1>3

(* An element that is added is left out or stays. *)
LEMMA WithoutAppend ==
    ASSUME NEW S, NEW s \in Seq(S), NEW e \in S, NEW X
    PROVE  /\ Without(<< >>, X) = << >>
           /\ e \notin X => Without(Append(s, e), X) = Append(Without(s, X), e)
           /\ e \in X => Without(Append(s, e), X) = Without(s, X)
<1>1. << >> \in Seq(S) /\ Append(s, e) \in Seq(S)
  OBVIOUS
<1>2. /\ Without(<< >>, X) = Within(<< >>, S \ X)
      /\ Without(Append(s, e), X) = Within(Append(s, e), S \ X)
      /\ Without(s, X) = Within(s, S \ X)
  BY <1>1, WithoutIsWithin
<1>3. e \in S \ X <=> e \notin X
  OBVIOUS
<1> QED BY <1>2, <1>3, WithinAppend
-------------------------------------------------------------------------------
(***************************************************************************)
(* What FlattenSeq makes of a sequence of sequences, one after the other.   *)
(***************************************************************************)
Flattens(f, ss, S) ==
    /\ f \in [0 .. Len(ss) -> Seq(S)] /\ f[0] = << >>
    /\ \A i \in 1 .. Len(ss) : f[i] = f[i - 1] \o ss[i]

(* FlattenSeq is built up sequence by sequence. *)
LEMMA FlattenDef ==
    ASSUME NEW S, NEW ss \in Seq(Seq(S))
    PROVE  \E f : Flattens(f, ss, S) /\ FlattenSeq(ss) = f[Len(ss)]
<1> DEFINE Q == Seq(S)
           n == Len(ss)
           empty == << >>
           step == [i \in Nat |-> [r \in Q |-> IF i \in 1 .. n THEN r \o ss[i] ELSE r]]
           Kept(k) == k = [i \in 1 .. n |-> IF i = 1 THEN ss[i] ELSE k[i - 1] \o ss[i]]
           kept == CHOOSE k : Kept(k)
<1>1. n \in Nat /\ empty \in Q /\ \A i \in 1 .. n : ss[i] \in Q
  OBVIOUS
<1>2. step \in [Nat -> [Q -> Q]]
  <2>1. \A i \in Nat, r \in Q : (IF i \in 1 .. n THEN r \o ss[i] ELSE r) \in Q
    BY <1>1
  <2> HIDE DEF Q, n
  <2> QED BY <2>1
<1>3. PICK f : Builds(f, Q, empty, step, n)
  <2> HIDE DEF step, Q, empty, n
  <2> QED BY <1>1, <1>2, BuiltUpTo
<1>4. f \in [0 .. n -> Q] /\ f[0] = << >> /\ \A i \in 1 .. n : f[i] = step[i][f[i - 1]]
  BY <1>3 DEF Builds
<1>5. \A i \in 1 .. n : f[i - 1] \in Q /\ f[i] = f[i - 1] \o ss[i]
  <2> SUFFICES ASSUME NEW i \in 1 .. n PROVE f[i - 1] \in Q /\ f[i] = f[i - 1] \o ss[i]
    OBVIOUS
  <2>1. i - 1 \in 0 .. n /\ i \in Nat
    BY <1>1
  <2>2. f[i - 1] \in Q
    BY <1>4, <2>1
  <2>3. step[i][f[i - 1]] = f[i - 1] \o ss[i]
    BY <2>1, <2>2
  <2> QED BY <1>4, <2>2, <2>3
<1>6. Flattens(f, ss, S)
  BY <1>4, <1>5 DEF Flattens
<1> HIDE DEF step
<1>7. Kept([i \in 1 .. n |-> f[i]])
  <2> DEFINE k == [i \in 1 .. n |-> f[i]]
  <2>1. ASSUME NEW i \in 1 .. n PROVE k[i] = IF i = 1 THEN ss[i] ELSE k[i - 1] \o ss[i]
    <3>1. k[i] = f[i - 1] \o ss[i]
      BY <1>5
    <3>2. CASE i = 1
      <4>1. f[i - 1] = << >> /\ ss[i] \in Seq(S)
        BY <1>1, <1>4, <3>2
      <4>2. << >> \o ss[i] = ss[i]
        BY <4>1
      <4> QED BY <3>1, <3>2, <4>1, <4>2
    <3>3. CASE i # 1
      <4>1. i - 1 \in 1 .. n
        BY <1>1, <3>3
      <4> QED BY <3>1, <3>3, <4>1
    <3> QED BY <3>2, <3>3
  <2>2. k = [i \in 1 .. n |-> k[i]]
    OBVIOUS
  <2> HIDE DEF k
  <2>3. k = [i \in 1 .. n |-> IF i = 1 THEN ss[i] ELSE k[i - 1] \o ss[i]]
    BY <2>1, <2>2
  <2> USE DEF k
  <2> QED BY <2>3
<1>8. Kept(kept)
  <2> HIDE DEF Kept
  <2> QED BY <1>7
<1> HIDE DEF kept
<1>9. \A i \in 1 .. n : kept[i] = IF i = 1 THEN ss[i] ELSE kept[i - 1] \o ss[i]
  BY <1>8
<1> HIDE DEF Kept
<1>10. \A i \in 1 .. n : kept[i] = f[i]
  <2> DEFINE T == {i \in Nat : i + 1 \in 1 .. n => kept[i + 1] = f[i + 1]}
  <2>0. \A j \in 1 .. n : j # 1 /\ kept[j - 1] = f[j - 1] => kept[j] = f[j]
    BY <1>5, <1>9, ZenonT(60)
  <2>1. 0 \in T
    <3> SUFFICES ASSUME 1 \in 1 .. n PROVE kept[1] = f[1]
      OBVIOUS
    <3>1. kept[1] = ss[1] /\ ss[1] \in Seq(S)
      BY <1>1, <1>9
    <3>2. f[1] = f[1 - 1] \o ss[1]
      BY <1>5, Zenon
    <3>3. f[1] = << >> \o ss[1]
      <4>1. 1 - 1 = 0 /\ f[0] = << >>
        BY <1>4
      <4> HIDE DEF n
      <4> QED BY <3>2, <4>1
    <3> QED BY <3>1, <3>3
  <2>2. ASSUME NEW i \in Nat, i \in T PROVE i + 1 \in T
    <3> SUFFICES ASSUME (i + 1) + 1 \in 1 .. n PROVE kept[(i + 1) + 1] = f[(i + 1) + 1]
      OBVIOUS
    <3>1. i + 1 \in 1 .. n /\ (i + 1) + 1 # 1 /\ ((i + 1) + 1) - 1 = i + 1
      BY <1>1
    <3>2. kept[i + 1] = f[i + 1]
      BY <2>2, <3>1
    <3> QED BY <2>0, <3>1, <3>2
  <2>3. Nat \subseteq T
    <3> HIDE DEF T
    <3> QED BY <2>1, <2>2, Induction
  <2>4. \A i \in 1 .. n : i - 1 \in Nat /\ (i - 1) + 1 = i
    OBVIOUS
  <2> QED BY <2>3, <2>4
<1>11. CASE n = 0
  <2>1. FlattenSeq(ss) = ss /\ ss = << >>
    BY <1>11 DEF FlattenSeq
  <2> QED BY <1>4, <1>6, <1>11, <2>1
<1>12. CASE n # 0
  <2>1. FlattenSeq(ss) = kept[n]
    BY <1>12 DEF FlattenSeq, kept, Kept
  <2>2. n \in 1 .. n
    BY <1>1, <1>12
  <2> QED BY <1>6, <1>10, <2>1, <2>2
<1> QED BY <1>11, <1>12

(* What is flattened is a sequence of the same elements. *)
LEMMA FlattenType ==
    ASSUME NEW S, NEW ss \in Seq(Seq(S))
    PROVE  FlattenSeq(ss) \in Seq(S)
<1>1. PICK f : Flattens(f, ss, S) /\ FlattenSeq(ss) = f[Len(ss)]
  BY FlattenDef
<1>2. Len(ss) \in 0 .. Len(ss)
  OBVIOUS
<1> QED BY <1>1, <1>2 DEF Flattens

(* A sequence that is added comes at the end. *)
LEMMA FlattenAppend ==
    ASSUME NEW S, NEW ss \in Seq(Seq(S)), NEW s \in Seq(S)
    PROVE  /\ FlattenSeq(<< >>) = << >>
           /\ FlattenSeq(Append(ss, s)) = FlattenSeq(ss) \o s
<1> DEFINE tt == Append(ss, s)
<1>1. /\ tt \in Seq(Seq(S)) /\ Len(ss) \in Nat /\ Len(tt) = Len(ss) + 1 /\ tt[Len(ss) + 1] = s
      /\ \A i \in 1 .. Len(ss) : tt[i] = ss[i]
  OBVIOUS
<1> HIDE DEF tt
<1>2. PICK f : Flattens(f, ss, S) /\ FlattenSeq(ss) = f[Len(ss)]
  BY FlattenDef
<1>3. PICK g : Flattens(g, tt, S) /\ FlattenSeq(tt) = g[Len(tt)]
  BY <1>1, FlattenDef
<1> DEFINE T == {n \in Nat : n <= Len(ss) => g[n] = f[n]}
<1>4. 0 \in T
  BY <1>2, <1>3 DEF Flattens
<1>5. ASSUME NEW n \in Nat, n \in T PROVE n + 1 \in T
  <2> SUFFICES ASSUME n + 1 <= Len(ss) PROVE g[n + 1] = f[n + 1]
    OBVIOUS
  <2>1. /\ n + 1 \in 1 .. Len(ss) /\ n + 1 \in 1 .. Len(tt) /\ (n + 1) - 1 = n
        /\ g[n] = f[n] /\ tt[n + 1] = ss[n + 1]
    BY <1>1, <1>5, SMTT(60)
  <2>2. f[n + 1] = f[n] \o ss[n + 1] /\ g[n + 1] = g[n] \o tt[n + 1]
    BY <1>2, <1>3, <2>1 DEF Flattens
  <2> QED BY <2>1, <2>2
<1>6. Nat \subseteq T
  <2> HIDE DEF T
  <2> QED BY <1>4, <1>5, Induction
<1>7. g[Len(ss)] = f[Len(ss)]
  BY <1>1, <1>6
<1>8. Len(tt) \in 1 .. Len(tt) /\ Len(tt) - 1 = Len(ss)
  BY <1>1
<1>9. g[Len(tt)] = g[Len(ss)] \o s
  BY <1>1, <1>3, <1>8 DEF Flattens
<1>10. FlattenSeq(<< >>) = << >>
  <2>1. Len(<< >>) = 0
    OBVIOUS
  <2> QED BY <2>1 DEF FlattenSeq
<1> QED BY <1>2, <1>3, <1>7, <1>9, <1>10 DEF tt

(* Flattening two sequences together or one after the other. *)
LEMMA FlattenConcat ==
    ASSUME NEW S, NEW ss \in Seq(Seq(S)), NEW tt \in Seq(Seq(S))
    PROVE  FlattenSeq(ss \o tt) = FlattenSeq(ss) \o FlattenSeq(tt)
<1> DEFINE Q == Seq(S)
           T == {uu \in Seq(Q) : FlattenSeq(ss \o uu) = FlattenSeq(ss) \o FlattenSeq(uu)}
<1>1. << >> \in T
  <2>1. /\ ss \o << >> = ss /\ << >> \in Seq(Q)
        /\ FlattenSeq(<< >>) = << >>
    BY FlattenAppend
  <2>2. FlattenSeq(ss) \o << >> = FlattenSeq(ss)
    BY FlattenType
  <2> QED BY <2>1, <2>2
<1>2. ASSUME NEW uu \in Seq(Q), NEW u \in Q, uu \in T PROVE Append(uu, u) \in T
  <2>1. /\ ss \o uu \in Seq(Q) /\ ss \o Append(uu, u) = Append(ss \o uu, u)
        /\ Append(uu, u) \in Seq(Q)
    <3>1. Longer(Joined(ss, uu), u) = Joined(ss, Longer(uu, u))
      BY LongerBehind
    <3>2. ss \o Append(uu, u) = Append(ss \o uu, u)
      BY <3>1 DEF Longer, Joined
    <3>3. ss \o uu \in Seq(Q) /\ Append(uu, u) \in Seq(Q)
      BY ConcatProperties, AppendProperties
    <3> QED BY <3>2, <3>3
  <2>2. /\ FlattenSeq(Append(ss \o uu, u)) = FlattenSeq(ss \o uu) \o u
        /\ FlattenSeq(Append(uu, u)) = FlattenSeq(uu) \o u
    BY <2>1, FlattenAppend
  <2>3. FlattenSeq(ss \o uu) = FlattenSeq(ss) \o FlattenSeq(uu)
    BY <1>2
  <2>4. (FlattenSeq(ss) \o FlattenSeq(uu)) \o u = FlattenSeq(ss) \o (FlattenSeq(uu) \o u)
    <3>1. FlattenSeq(ss) \in Seq(S) /\ FlattenSeq(uu) \in Seq(S)
      BY FlattenType
    <3>2. Joined(Joined(FlattenSeq(ss), FlattenSeq(uu)), u)
            = Joined(FlattenSeq(ss), Joined(FlattenSeq(uu), u))
      BY <3>1, Regrouped
    <3> QED BY <3>2 DEF Joined
  <2> QED BY <2>1, <2>2, <2>3, <2>4
<1>3. Seq(Q) \subseteq T
  <2>1. \A s \in Seq(Q), e \in Q : s \in T => Append(s, e) \in T
    BY <1>2
  <2> HIDE DEF T, Q
  <2> QED BY <1>1, <2>1, SequenceInduction
<1> QED BY <1>3

(* What is done to every element is done to one that is added, too. *)
Each(F, s) == [i \in DOMAIN s |-> F[s[i]]]

(* The results have the type of the function. *)
LEMMA EachType ==
    ASSUME NEW S, NEW Q, NEW F \in [S -> Q], NEW s \in Seq(S)
    PROVE  Each(F, s) \in Seq(Q) /\ Each(F, << >>) = << >>
BY DEF Each

(* Doing something to every element is doing it to the one that is added. *)
LEMMA EachAppend ==
    ASSUME NEW S, NEW Q, NEW F \in [S -> Q], NEW s \in Seq(S), NEW e \in S
    PROVE  Each(F, Append(s, e)) = Append(Each(F, s), F[e])
<1> DEFINE n == Len(s)
           t == Append(s, e)
           Fs == [i \in DOMAIN s |-> F[s[i]]]
           Ft == [i \in DOMAIN t |-> F[t[i]]]
<1>1. /\ n \in Nat /\ DOMAIN s = 1 .. n /\ \A i \in 1 .. n : s[i] \in S
      /\ t \in Seq(S) /\ Len(t) = n + 1 /\ DOMAIN t = 1 .. Len(t) /\ t[n + 1] = e
      /\ \A i \in 1 .. n : t[i] = s[i]
  BY AppendProperties, LenProperties
<1> HIDE DEF n, t
<1>2. Fs \in Seq(Q) /\ Len(Fs) = n
  BY <1>1
<1>3. Ft \in Seq(Q) /\ Len(Ft) = n + 1
  <2>1. \A i \in 1 .. n + 1 : t[i] \in S
    BY <1>1
  <2> QED BY <1>1, <2>1
<1>4. /\ \A i \in 1 .. n : Fs[i] = F[s[i]] /\ Ft[i] = F[s[i]]
      /\ Ft[n + 1] = F[e] /\ F[e] \in Q
  BY <1>1
<1> HIDE DEF Fs, Ft
<1> DEFINE u == Append(Fs, F[e])
<1>5. /\ u \in Seq(Q) /\ Len(u) = n + 1 /\ u[n + 1] = F[e]
      /\ \A i \in 1 .. n : u[i] = Fs[i]
  BY <1>2, <1>4, AppendProperties
<1> HIDE DEF u
<1>6. \A i \in 1 .. n + 1 : i \in 1 .. n \/ i = n + 1
  BY <1>1
<1>7. \A i \in 1 .. Len(Ft) : Ft[i] = u[i]
  BY <1>3, <1>4, <1>5, <1>6
<1>8. Ft = u
  BY <1>3, <1>5, <1>7, SeqEqual
<1> QED BY <1>8 DEF u, t, Fs, Ft, Each

(* A sequence is what comes before its last element, and that element. *)
WithLast(s, e) == [s EXCEPT ![Len(s)] = e]

(* Replacing the last element keeps what comes before it. *)
LEMMA LastReplaced ==
    ASSUME NEW S, NEW front \in Seq(S), NEW last \in S, NEW e \in S
    PROVE  WithLast(Append(front, last), e) = Append(front, e)
<1> DEFINE n == Len(front)
           s == Append(front, last)
           t == [s EXCEPT ![Len(s)] = e]
           u == Append(front, e)
<1>1. /\ n \in Nat /\ s \in Seq(S) /\ Len(s) = n + 1
      /\ \A i \in 1 .. n : s[i] = front[i]
      /\ u \in Seq(S) /\ Len(u) = n + 1 /\ u[n + 1] = e
      /\ \A i \in 1 .. n : u[i] = front[i]
  BY AppendProperties, LenProperties
<1> HIDE DEF n, s
<1>2. Len(s) \in 1 .. Len(s)
  BY <1>1
<1>3. /\ t \in Seq(S) /\ Len(t) = Len(s)
      /\ \A j \in 1 .. Len(s) : t[j] = IF j = Len(s) THEN e ELSE s[j]
  BY <1>1, <1>2, ExceptSeq
<1> HIDE DEF t, u
<1>4. \A i \in 1 .. n + 1 : (i \in 1 .. n /\ i # n + 1) \/ i = n + 1
  BY <1>1
<1>5. \A i \in 1 .. Len(t) : t[i] = u[i]
  BY <1>1, <1>3, <1>4
<1>6. t = u
  BY <1>1, <1>3, <1>5, SeqEqual
<1> QED BY <1>6 DEF s, t, u, WithLast
===============================================================================
