----------------------------- MODULE FormProofs -----------------------------
(***************************************************************************)
(* For queries, urlencoded forms and multipart bodies of any length: the   *)
(* parsers give back what the text was made from.                          *)
(*                                                                         *)
(* The parsers are recursive functions of a position.  They are shown to   *)
(* exist, by induction on how far from the end the position is; then where *)
(* the fields or parts are in the text; and then, from the last of them to *)
(* the first, what the parser returns at the beginning of each.  The model *)
(* only has to call the parsers with the text that the program was given.  *)
(***************************************************************************)
EXTENDS RequestProofs, FiniteSetTheorems, SequenceTheorems

LEMMA SetInduction ==
  ASSUME NEW S, 0 \in S, \A n \in Nat : n \in S => n + 1 \in S
  PROVE  Nat \subseteq S
<1> SUFFICES ASSUME NEW N \in Nat, N \notin S PROVE FALSE
  OBVIOUS
<1> DEFINE C == {n \in 0 .. N : n \in S}
           f == [n \in C |-> n + 1]
<1>1. IsFiniteSet(C)
  <2>1. IsFiniteSet(0 .. N)
    BY FS_Interval
  <2> QED BY <2>1, FS_Subset
<1>2. f \in Injection(C, C)
  <2>1. \A n \in C : n + 1 \in C
    OBVIOUS
  <2>2. \A m, n \in C : m + 1 = n + 1 => m = n
    OBVIOUS
  <2> QED BY <2>1, <2>2 DEF Injection, IsInjective
<1>3. f \in Surjection(C, C)
  BY <1>1, <1>2, FS_Injection
<1>4. 0 \in C
  OBVIOUS
<1>5. PICK n \in C : f[n] = 0
  BY <1>3, <1>4 DEF Surjection
<1> QED BY <1>5

(* F[i] is the first i sequences of seqs, one after the other. *)
Joined(F, T, seqs) ==
  /\ F \in [0 .. Len(seqs) -> Seq(T)] /\ F[0] = <<>>
  /\ \A i \in 1 .. Len(seqs) : F[i] = F[i-1] \o seqs[i]

LEMMA Flattened ==
  ASSUME NEW T, NEW seqs \in Seq(Seq(T))
  PROVE  \E F : Joined(F, T, seqs) /\ FlattenSeq(seqs) = F[Len(seqs)]
<1> DEFINE N == Len(seqs)
           next(g, i) == IF i = 1 THEN seqs[i] ELSE g[i-1] \o seqs[i]
           Upto(n, g) == g \in [1 .. n -> Seq(T)] /\ \A i \in 1 .. n : g[i] = next(g, i)
           S == {n \in Nat : n <= N => \E g : Upto(n, g)}
           f == CHOOSE g : g = [i \in 1 .. N |-> IF i = 1 THEN seqs[i] ELSE g[i-1] \o seqs[i]]
<1>1. N \in Nat /\ \A i \in 1 .. N : seqs[i] \in Seq(T)
  OBVIOUS
<1>2. FlattenSeq(seqs) = IF N = 0 THEN seqs ELSE f[N]
  BY DEF FlattenSeq
<1>3. 0 \in S
  <2>1. Upto(0, [i \in 1 .. 0 |-> <<>>])
    OBVIOUS
  <2> QED BY <2>1
<1>4. \A n \in Nat : n \in S => n + 1 \in S
  <2> SUFFICES ASSUME NEW n \in Nat, n \in S PROVE n + 1 \in S
    OBVIOUS
  <2> SUFFICES ASSUME n + 1 <= N PROVE \E g : Upto(n + 1, g)
    <3> HIDE DEF Upto
    <3> QED OBVIOUS
  <2>1. n <= N /\ n + 1 \in 1 .. N
    BY <1>1
  <2>2. PICK g : Upto(n, g)
    BY <2>1
  <2> DEFINE h == [i \in 1 .. n + 1 |-> IF i = n + 1 THEN next(g, i) ELSE g[i]]
  <2>3. next(g, n + 1) \in Seq(T)
    <3>1. CASE n = 0
      BY <1>1, <2>1, <3>1
    <3>2. CASE n # 0
      <4>1. n \in 1 .. n /\ n + 1 # 1 /\ (n + 1) - 1 = n
        BY <3>2
      <4>2. g[n] \in Seq(T) /\ seqs[n + 1] \in Seq(T)
        BY <1>1, <2>1, <2>2, <4>1
      <4>3. g[n] \o seqs[n + 1] \in Seq(T)
        BY <4>2
      <4> QED BY <4>1, <4>3
    <3> QED BY <3>1, <3>2
  <2>4. h \in [1 .. n + 1 -> Seq(T)]
    <3>1. \A i \in 1 .. n + 1 : i = n + 1 \/ i \in 1 .. n
      OBVIOUS
    <3> QED BY <2>2, <2>3, <3>1
  <2>5. ASSUME NEW i \in 1 .. n + 1 PROVE h[i] = next(h, i)
    <3>1. i = 1 \/ (i - 1 \in 1 .. n + 1 /\ i - 1 \in 1 .. n /\ i - 1 # n + 1)
      OBVIOUS
    <3>2. i # 1 => h[i - 1] = g[i - 1]
      BY <3>1
    <3>3. i = n + 1 \/ i \in 1 .. n
      OBVIOUS
    <3>4. h[i] = next(g, i)
      BY <2>2, <3>3
    <3> QED BY <3>2, <3>4
  <2> QED BY <2>4, <2>5
<1>5. PICK g : Upto(N, g)
  <2>1. N \in S
    BY <1>1, <1>3, <1>4, SetInduction
  <2> HIDE DEF Upto
  <2> QED BY <1>1, <2>1
<1>6. f = [i \in 1 .. N |-> next(f, i)]
  <2>1. g = [i \in 1 .. N |-> next(g, i)]
    BY <1>5
  <2> QED BY <2>1
<1> HIDE DEF f
<1>7. f = g
  <2> DEFINE A == {n \in Nat : n <= N => \A i \in 1 .. n : f[i] = g[i]}
  <2>1. 0 \in A
    OBVIOUS
  <2>2. \A n \in Nat : n \in A => n + 1 \in A
    <3> SUFFICES ASSUME NEW n \in Nat, n \in A, n + 1 <= N, NEW i \in 1 .. n + 1 PROVE f[i] = g[i]
      OBVIOUS
    <3>1. i \in 1 .. N /\ (i = 1 \/ i - 1 \in 1 .. n) /\ n <= N
      BY <1>1
    <3>2. f[i] = next(f, i)
      BY <1>6, <3>1
    <3>3. g[i] = next(g, i)
      BY <1>5, <3>1
    <3>4. i # 1 => f[i - 1] = g[i - 1]
      BY <3>1
    <3> QED BY <3>2, <3>3, <3>4
  <2>3. N \in A
    BY <1>1, <2>1, <2>2, SetInduction
  <2>4. \A i \in 1 .. N : f[i] = g[i]
    BY <1>1, <2>3
  <2>5. f = [i \in 1 .. N |-> f[i]]
    BY <1>6
  <2> QED BY <1>5, <2>4, <2>5
<1> DEFINE F == [i \in 0 .. N |-> IF i = 0 THEN <<>> ELSE g[i]]
<1>8. F \in [0 .. N -> Seq(T)]
  <2>1. \A i \in 0 .. N : i = 0 \/ i \in 1 .. N
    BY <1>1
  <2>2. <<>> \in Seq(T)
    OBVIOUS
  <2> QED BY <1>5, <2>1, <2>2
<1>9. F[0] = <<>>
  BY <1>1
<1>10. ASSUME NEW i \in 1 .. N PROVE F[i] = F[i-1] \o seqs[i]
  <2>1. i \in 0 .. N /\ i # 0 /\ i - 1 \in 0 .. N
    BY <1>1
  <2>2. F[i] = next(g, i)
    BY <1>5, <2>1
  <2>3. CASE i = 1
    <3>1. F[i-1] = <<>> /\ F[i] = seqs[i]
      BY <2>1, <2>2, <2>3
    <3>2. seqs[i] \in Seq(T)
      BY <1>1
    <3>3. <<>> \o seqs[i] = seqs[i]
      BY <3>2
    <3> QED BY <3>1, <3>3
  <2>4. CASE i # 1
    <3>1. F[i-1] = g[i-1]
      BY <2>1, <2>4
    <3> QED BY <2>2, <2>4, <3>1
  <2> QED BY <2>3, <2>4
<1>11. FlattenSeq(seqs) = F[N]
  <2>1. CASE N = 0
    <3>1. seqs = <<>>
      BY <2>1
    <3> QED BY <1>2, <1>9, <2>1, <3>1
  <2>2. CASE N # 0
    <3>1. F[N] = g[N]
      BY <1>1, <2>2
    <3> QED BY <1>2, <1>7, <2>2, <3>1
  <2> QED BY <2>1, <2>2
<1> HIDE DEF F
<1>12. Joined(F, T, seqs)
  BY <1>8, <1>9, <1>10 DEF Joined
<1> QED BY <1>11, <1>12

(* A recursive function over the numbers up to N, each value from one further
   on, unless it stops. *)
Unfolds(f, N, here, next, Stop) ==
  /\ f = [i \in 1 .. N |-> f[i]]
  /\ \A i \in 1 .. N : f[i] = here[i] \o IF i \in Stop THEN <<>> ELSE f[next[i]]

LEMMA Unfolded ==
  ASSUME NEW N \in Nat, NEW X, NEW here \in [1 .. N -> Seq(X)],
         NEW next \in [1 .. N -> Nat], NEW Stop \in SUBSET (1 .. N),
         \A i \in 1 .. N \ Stop : next[i] \in i + 1 .. N
  PROVE  /\ \E f : Unfolds(f, N, here, next, Stop)
         /\ \A f : Unfolds(f, N, here, next, Stop) => f \in [1 .. N -> Seq(X)]
<1> DEFINE Val(f, i) == here[i] \o IF i \in Stop THEN <<>> ELSE f[next[i]]
           Good(f, n) == \A i \in 1 .. N : i + n > N => f[i] = Val(f, i)
           S == {n \in Nat : \E f : f = [i \in 1 .. N |-> f[i]] /\ Good(f, n)}
<1>1. 0 \in S
  <2>1. Good([i \in 1 .. N |-> <<>>], 0)
    OBVIOUS
  <2> HIDE DEF Good
  <2>2. [i \in 1 .. N |-> <<>>] = [i \in 1 .. N |-> [j \in 1 .. N |-> <<>>][i]]
    OBVIOUS
  <2> QED BY <2>1, <2>2
<1>2. ASSUME NEW n \in Nat, n \in S PROVE n + 1 \in S
  <2>1. PICK f : f = [i \in 1 .. N |-> f[i]] /\ Good(f, n)
    BY <1>2
  <2> DEFINE g == [i \in 1 .. N |-> Val(f, i)]
  <2>2. ASSUME NEW i \in 1 .. N, i + (n + 1) > N PROVE g[i] = Val(g, i)
    <3>1. CASE i \in Stop
      BY <3>1
    <3>2. CASE i \notin Stop
      <4>1. next[i] \in 1 .. N /\ next[i] + n > N
        BY <2>2, <3>2
      <4>2. g[next[i]] = f[next[i]]
        BY <2>1, <4>1
      <4> QED BY <4>2
    <3> QED BY <3>1, <3>2
  <2>3. Good(g, n + 1)
    BY <2>2
  <2>4. g = [i \in 1 .. N |-> g[i]]
    OBVIOUS
  <2> HIDE DEF g, Good
  <2> QED BY <2>3, <2>4
<1>3. N \in S /\ \A f : Good(f, N) <=> \A i \in 1 .. N : f[i] = Val(f, i)
  <2>1. N \in S
    BY <1>1, <1>2, SetInduction
  <2>2. \A i \in 1 .. N : i + N > N
    OBVIOUS
  <2>3. \A f : Good(f, N) <=> \A i \in 1 .. N : f[i] = Val(f, i)
    <3> HIDE DEF Val
    <3> QED BY <2>2, Zenon
  <2> QED BY <2>1, <2>3
<1>4. PICK g : g = [i \in 1 .. N |-> g[i]] /\ \A i \in 1 .. N : g[i] = Val(g, i)
  <2> HIDE DEF Good, Val
  <2> QED BY <1>3
<1>5. ASSUME NEW f, Unfolds(f, N, here, next, Stop) PROVE f \in [1 .. N -> Seq(X)]
  <2>0. f = [i \in 1 .. N |-> f[i]] /\ \A i \in 1 .. N : f[i] = Val(f, i)
    BY <1>5 DEF Unfolds
  <2> DEFINE A == {n \in Nat : \A i \in 1 .. N : i + n > N => f[i] \in Seq(X)}
  <2>1. 0 \in A
    OBVIOUS
  <2>2. ASSUME NEW n \in Nat, n \in A PROVE n + 1 \in A
    <3> SUFFICES ASSUME NEW i \in 1 .. N, i + (n + 1) > N PROVE f[i] \in Seq(X)
      OBVIOUS
    <3>1. f[i] = Val(f, i) /\ here[i] \in Seq(X)
      BY <2>0
    <3>2. CASE i \in Stop
      BY <3>1, <3>2
    <3>3. CASE i \notin Stop
      <4>1. next[i] \in 1 .. N /\ next[i] + n > N
        BY <2>2, <3>3
      <4>2. f[next[i]] \in Seq(X)
        BY <2>2, <4>1
      <4> QED BY <3>1, <3>3, <4>2
    <3> QED BY <3>2, <3>3
  <2>3. N \in A
    <3> HIDE DEF A
    <3> QED BY <2>1, <2>2, SetInduction
  <2>4. \A i \in 1 .. N : f[i] \in Seq(X)
    BY <2>3
  <2> QED BY <2>0, <2>4
<1>6. Unfolds(g, N, here, next, Stop)
  BY <1>4 DEF Unfolds
<1> QED BY <1>5, <1>6

LEMMA Concatenated ==
  ASSUME NEW T, NEW s \in Seq(T), NEW t \in Seq(T)
  PROVE  /\ s \o t \in Seq(T) /\ Len(s \o t) = Len(s) + Len(t)
         /\ Len(s) \in Nat /\ Len(t) \in Nat
         /\ \A k \in 1 .. Len(s) : (s \o t)[k] = s[k]
         /\ \A k \in 1 .. Len(t) : (s \o t)[Len(s) + k] = t[k]
OBVIOUS

(* Where the pieces of a flattened sequence are. *)
LaidOut(F, seqs) ==
  /\ \A i \in 0 .. Len(seqs) : Len(F[i]) \in Nat /\ Len(F[i]) <= Len(F[Len(seqs)])
  /\ \A i \in 1 .. Len(seqs) :
       /\ Len(seqs[i]) \in Nat /\ Len(F[i]) = Len(F[i-1]) + Len(seqs[i])
       /\ \A k \in 1 .. Len(seqs[i]) : F[Len(seqs)][Len(F[i-1]) + k] = seqs[i][k]

LEMMA Layout ==
  ASSUME NEW T, NEW seqs \in Seq(Seq(T)), NEW F, Joined(F, T, seqs)
  PROVE  LaidOut(F, seqs)
<1> DEFINE N == Len(seqs)
           Prefix(s, t) == Len(s) <= Len(t) /\ \A p \in 1 .. Len(s) : t[p] = s[p]
           A == {n \in Nat : n <= N => \A i \in 0 .. n : Prefix(F[i], F[n])}
<1>1. N \in Nat
  OBVIOUS
<1>0. F \in [0 .. N -> Seq(T)] /\ F[0] = <<>> /\ \A i \in 1 .. N : F[i] = F[i-1] \o seqs[i]
  BY DEF Joined
<1>2. ASSUME NEW i \in 0 .. N PROVE F[i] \in Seq(T) /\ Len(F[i]) \in Nat
  <2>1. F[i] \in Seq(T)
    BY <1>0
  <2> QED BY <2>1
<1>3. ASSUME NEW i \in 1 .. N
      PROVE  /\ seqs[i] \in Seq(T) /\ Len(seqs[i]) \in Nat /\ i - 1 \in 0 .. N /\ i \in 0 .. N
             /\ F[i] = F[i-1] \o seqs[i]
  <2>1. seqs[i] \in Seq(T) /\ i - 1 \in 0 .. N /\ i \in 0 .. N
    BY <1>1
  <2>2. F[i] = F[i-1] \o seqs[i]
    BY <1>0
  <2>3. Len(seqs[i]) \in Nat
    BY <2>1
  <2> QED BY <2>1, <2>2, <2>3
<1>4. ASSUME NEW i \in 1 .. N
      PROVE  /\ Len(F[i]) = Len(F[i-1]) + Len(seqs[i])
             /\ Prefix(F[i-1], F[i])
             /\ \A k \in 1 .. Len(seqs[i]) : F[i][Len(F[i-1]) + k] = seqs[i][k]
  <2>1. F[i-1] \in Seq(T) /\ seqs[i] \in Seq(T) /\ F[i] = F[i-1] \o seqs[i]
    BY <1>2, <1>3
  <2>2. /\ Len(F[i]) = Len(F[i-1]) + Len(seqs[i])
        /\ Len(F[i-1]) \in Nat /\ Len(seqs[i]) \in Nat
        /\ \A k \in 1 .. Len(F[i-1]) : F[i][k] = F[i-1][k]
        /\ \A k \in 1 .. Len(seqs[i]) : F[i][Len(F[i-1]) + k] = seqs[i][k]
    <3> DEFINE s == F[i-1]
               t == seqs[i]
    <3>1. s \in Seq(T) /\ t \in Seq(T) /\ F[i] = s \o t
      BY <2>1
    <3> HIDE DEF s, t
    <3>2. /\ Len(F[i]) = Len(s) + Len(t)
          /\ Len(s) \in Nat /\ Len(t) \in Nat
          /\ \A k \in 1 .. Len(s) : F[i][k] = s[k]
          /\ \A k \in 1 .. Len(t) : F[i][Len(s) + k] = t[k]
      BY <3>1, Concatenated
    <3> QED BY <3>2 DEF s, t
  <2>3. \A a, b \in Nat : a <= a + b
    OBVIOUS
  <2>4. Len(F[i-1]) <= Len(F[i])
    BY <2>2, <2>3
  <2> QED BY <2>2, <2>4
<1>5. 0 \in A
  BY <1>2
<1>6. ASSUME NEW n \in Nat, n \in A PROVE n + 1 \in A
  <2> SUFFICES ASSUME n + 1 <= N, NEW i \in 0 .. n + 1 PROVE Prefix(F[i], F[n + 1])
    <3> HIDE DEF Prefix
    <3> QED OBVIOUS
  <2>1. n + 1 \in 1 .. N /\ (n + 1) - 1 = n /\ n \in 0 .. N /\ n <= N /\ i \in 0 .. N
    BY <1>1
  <2>2. Prefix(F[n], F[n + 1])
    <3> HIDE DEF Prefix
    <3>1. Prefix(F[(n + 1) - 1], F[n + 1])
      BY <1>4, <2>1
    <3> QED BY <2>1, <3>1
  <2>3. CASE i \in 0 .. n
    <3>1. Prefix(F[i], F[n])
      BY <1>6, <2>1, <2>3
    <3>2. Len(F[i]) \in Nat /\ Len(F[n]) \in Nat /\ Len(F[n + 1]) \in Nat
      BY <1>2, <2>1
    <3>3. \A p \in 1 .. Len(F[i]) : p \in 1 .. Len(F[n])
      BY <3>1, <3>2
    <3> QED BY <2>2, <3>1, <3>2, <3>3
  <2>4. CASE i = n + 1
    BY <1>2, <2>1, <2>4
  <2> QED BY <2>3, <2>4
<1>7. \A i \in 0 .. N : Prefix(F[i], F[N])
  <2>1. N \in A
    <3> HIDE DEF A
    <3> QED BY <1>1, <1>5, <1>6, SetInduction
  <2> HIDE DEF Prefix
  <2> QED BY <1>1, <2>1
<1>8. ASSUME NEW i \in 1 .. N, NEW k \in 1 .. Len(seqs[i])
      PROVE  F[N][Len(F[i-1]) + k] = seqs[i][k]
  <2>1. Len(F[i-1]) \in Nat /\ Len(seqs[i]) \in Nat /\ i \in 0 .. N
    BY <1>2, <1>3
  <2>2. Len(F[i-1]) + k \in 1 .. Len(F[i])
    <3>1. Len(F[i]) = Len(F[i-1]) + Len(seqs[i])
      BY <1>4
    <3>2. \A a, b \in Nat : \A j \in 1 .. b : a + j \in 1 .. a + b
      OBVIOUS
    <3> QED BY <2>1, <3>1, <3>2
  <2>3. F[N][Len(F[i-1]) + k] = F[i][Len(F[i-1]) + k]
    BY <1>7, <2>1, <2>2
  <2> QED BY <1>4, <2>3
<1> HIDE DEF A
<1> QED BY <1>2, <1>3, <1>4, <1>7, <1>8 DEF LaidOut

LEMMA MinIs ==
  ASSUME NEW S \in SUBSET Int, NEW m \in S, \A y \in S : m <= y
  PROVE  Min(S) = m
<1>1. Min(S) \in S /\ \A y \in S : Min(S) <= y
  BY DEF Min
<1>2. Min(S) <= m /\ m <= Min(S) /\ Min(S) \in Int /\ m \in Int
  BY <1>1
<1> QED BY <1>2

LEMMA MinIn ==
  ASSUME NEW S \in SUBSET Nat, S # {}
  PROVE  Min(S) \in S /\ \A y \in S : Min(S) <= y
<1> DEFINE B == {n \in Nat : \A y \in S : n <= y}
<1>1. 0 \in B
  OBVIOUS
<1>2. ASSUME \A m \in S : m \notin B PROVE FALSE
  <2>1. ASSUME NEW n \in Nat, n \in B PROVE n + 1 \in B
    <3>1. \A y \in S : n <= y /\ n # y /\ y \in Nat
      BY <1>2, <2>1
    <3> QED BY <3>1
  <2>2. Nat \subseteq B
    <3> HIDE DEF B
    <3> QED BY <1>1, <2>1, SetInduction
  <2>3. PICK y \in S : TRUE
    OBVIOUS
  <2>4. y + 1 \in B
    BY <2>2, <2>3
  <2> QED BY <2>3, <2>4
<1>3. PICK m \in S : \A y \in S : m <= y
  BY <1>2
<1>4. Min(S) = m
  BY <1>3, MinIs
<1> QED BY <1>3, <1>4

-----------------------------------------------------------------------------
(* Queries. *)

LEMMA FieldLayout ==
  ASSUME NEW T, NEW f \in Field(T)
  PROVE  /\ f.key \in Seq(T) /\ f.value \in Seq(T) /\ Len(f.key) \in Nat /\ Len(f.value) \in Nat
         /\ \A j \in 1 .. Len(f.key) : f.key[j] \notin {"&", "="}
         /\ \A j \in 1 .. Len(f.value) : f.value[j] # "&"
         /\ EncodeField(f) \in Seq(T \cup {"&", "="})
         /\ \A j \in 1 .. Len(EncodeField(f)) : EncodeField(f)[j] # "&"
         /\ \A j \in 1 .. Len(f.key) : EncodeField(f)[j] = f.key[j]
         /\ f.eq => /\ Len(EncodeField(f)) = Len(f.key) + 1 + Len(f.value)
                    /\ EncodeField(f)[Len(f.key) + 1] = "="
                    /\ \A j \in 1 .. Len(f.value) :
                         EncodeField(f)[Len(f.key) + 1 + j] = f.value[j]
         /\ ~f.eq => Len(EncodeField(f)) = Len(f.key) /\ f.value = <<>>
<1> DEFINE U == T \cup {"&", "="}
<1>1. f.key \in Seq(T \ {"&", "="}) /\ f.value \in Seq(T \ {"&"}) /\ f.eq \in BOOLEAN
      /\ (f.eq \/ f.value = <<>>)
  BY DEF Field
<1>2. f.key \in Seq(U) /\ f.value \in Seq(U) /\ f.key \in Seq(T) /\ f.value \in Seq(T)
      /\ <<"=">> \in Seq(U)
  BY <1>1
<1>3. /\ \A j \in 1 .. Len(f.key) : f.key[j] \notin {"&", "="}
      /\ \A j \in 1 .. Len(f.value) : f.value[j] # "&"
  BY <1>1
<1> DEFINE k == f.key
           v == f.value
           e == EncodeField(f)
<1>6. k \in Seq(U) /\ v \in Seq(U) /\ <<"=">> \in Seq(U)
  BY <1>2
<1>4. CASE f.eq
  <2> DEFINE h == k \o <<"=">>
  <2>1. e = h \o v
    BY <1>4 DEF EncodeField
  <2>2. /\ h \in Seq(U) /\ Len(h) = Len(k) + 1 /\ Len(k) \in Nat
        /\ (\A j \in 1 .. Len(k) : h[j] = k[j]) /\ h[Len(k) + 1] = "="
    <3> HIDE DEF k, U
    <3> QED BY <1>6
  <2> HIDE DEF h, e, v, k, U
  <2>3. /\ e \in Seq(U) /\ Len(e) = Len(h) + Len(v) /\ Len(v) \in Nat
        /\ \A j \in 1 .. Len(h) : e[j] = h[j]
        /\ \A j \in 1 .. Len(v) : e[Len(h) + j] = v[j]
    <3>0. h \in Seq(U) /\ v \in Seq(U)
      BY <1>6, <2>2
    <3>1. /\ h \o v \in Seq(U) /\ Len(h \o v) = Len(h) + Len(v) /\ Len(v) \in Nat
          /\ \A j \in 1 .. Len(h) : (h \o v)[j] = h[j]
          /\ \A j \in 1 .. Len(v) : (h \o v)[Len(h) + j] = v[j]
      BY <3>0, Concatenated
    <3> QED BY <2>1, <3>1
  <2>4. /\ Len(e) = Len(k) + 1 + Len(v)
        /\ \A j \in 1 .. Len(v) : e[Len(k) + 1 + j] = v[j]
    BY <2>2, <2>3
  <2>5. /\ e[Len(k) + 1] = "="
        /\ \A j \in 1 .. Len(k) : e[j] = k[j]
    BY <2>2, <2>3
  <2>6. ASSUME NEW j \in 1 .. Len(e) PROVE e[j] # "&"
    <3>1. j \in 1 .. Len(k) \/ j = Len(k) + 1 \/ j - (Len(k) + 1) \in 1 .. Len(v)
      BY <2>2, <2>3, <2>4
    <3>2. CASE j \in 1 .. Len(k)
      BY <1>3, <2>5, <3>2 DEF k
    <3>3. CASE j = Len(k) + 1
      BY <2>5, <3>3
    <3>4. CASE j - (Len(k) + 1) \in 1 .. Len(v)
      <4>1. j = Len(k) + 1 + (j - (Len(k) + 1))
        BY <2>2
      <4>2. e[j] = v[j - (Len(k) + 1)]
        BY <2>4, <3>4, <4>1
      <4> QED BY <1>3, <3>4, <4>2 DEF v
    <3> QED BY <3>1, <3>2, <3>3, <3>4
  <2> QED BY <1>2, <1>3, <1>4, <2>6, <2>2, <2>3, <2>4, <2>5 DEF k, v, e, U
<1>5. CASE ~f.eq
  <2>1. e = k \o <<>> \o <<>> /\ v = <<>>
    BY <1>1, <1>5 DEF EncodeField
  <2>2. k \o <<>> \o <<>> = k
    BY <1>2
  <2>3. e = k
    BY <2>1, <2>2
  <2>4. Len(k) \in Nat /\ Len(v) \in Nat
    BY <1>2
  <2> HIDE DEF e, v, k, U
  <2> QED BY <1>2, <1>3, <1>5, <2>1, <2>3, <2>4 DEF k, v, e, U
<1> QED BY <1>4, <1>5

(* Where t stands in s, SubSeq gives it back. *)
LEMMA Extracted ==
  ASSUME NEW T, NEW s \in Seq(T), NEW V, NEW t \in Seq(V), NEW a \in Nat \ {0},
         a + Len(t) <= Len(s) + 1, \A j \in 1 .. Len(t) : s[a - 1 + j] = t[j]
  PROVE  SubSeq(s, a, a + Len(t) - 1) = t
<1>1. Len(t) \in Nat /\ Len(s) \in Nat
  OBVIOUS
<1>2. a + Len(t) - 1 \in Nat /\ a + Len(t) - 1 <= Len(s) /\ (a + Len(t) - 1) - a + 1 = Len(t)
  BY <1>1
<1>3. SubSeq(s, a, a + Len(t) - 1) = [j \in 1 .. Len(t) |-> s[a - 1 + j]]
  <2> DEFINE b == a + Len(t) - 1
  <2>1. SubSeq(s, a, b) = [j \in 1 .. b - a + 1 |-> s[a + j - 1]]
    BY <1>2
  <2> HIDE DEF b
  <2>2. \A j \in 1 .. Len(t) : a + j - 1 = a - 1 + j
    OBVIOUS
  <2> QED BY <1>2, <2>1, <2>2 DEF b
<1>4. t = [j \in 1 .. Len(t) |-> t[j]]
  OBVIOUS
<1> QED BY <1>3, <1>4

LEMMA PairSplit ==
  ASSUME NEW T, NEW src \in Seq(T), NEW k \in Seq(T), NEW v \in Seq(T),
         NEW a \in Nat \ {0}, NEW end \in Nat, end <= Len(src) + 1,
         \A j \in 1 .. Len(k) : k[j] # "=" /\ src[a - 1 + j] = k[j],
         \/ /\ end = a + Len(k) + 1 + Len(v)
            /\ src[a + Len(k)] = "="
            /\ \A j \in 1 .. Len(v) : src[a + Len(k) + j] = v[j]
         \/ end = a + Len(k) /\ v = <<>>
  PROVE  SplitPair(src, a, end) = <<k, v>>
<1> DEFINE m == a + Len(k)
           eq == Find(src, "=", a)
<1>1. Len(k) \in Nat /\ Len(v) \in Nat /\ Len(src) \in Nat
  OBVIOUS
<1>2. m \in Nat \ {0} /\ m <= Len(src) + 1 /\ m <= end
  BY <1>1
<1>3. SubSeq(src, a, m - 1) = k
  BY <1>2, Extracted
<1>4. ASSUME NEW p \in eq PROVE p \in Nat /\ p >= m
  <2>1. p \in a .. Len(src) /\ src[p] = "="
    BY <1>4 DEF Find
  <2>2. ASSUME p < m PROVE FALSE
    <3>1. p - a + 1 \in 1 .. Len(k) /\ a - 1 + (p - a + 1) = p
      BY <1>1, <2>1, <2>2
    <3>2. src[p] = k[p - a + 1]
      BY <3>1
    <3> QED BY <2>1, <3>1, <3>2
  <2> QED BY <1>1, <2>1, <2>2
<1> HIDE DEF m
<1>5. CASE /\ end = a + Len(k) + 1 + Len(v)
           /\ src[a + Len(k)] = "="
           /\ \A j \in 1 .. Len(v) : src[a + Len(k) + j] = v[j]
  <2>1. /\ end = m + 1 + Len(v) /\ src[m] = "="
        /\ \A j \in 1 .. Len(v) : src[m + j] = v[j]
    BY <1>5 DEF m
  <2>2. m < end /\ m \in a .. Len(src)
    BY <1>1, <1>2, <2>1 DEF m
  <2>3. m \in eq /\ eq \in SUBSET Int
    BY <1>4, <2>1, <2>2 DEF Find
  <2>4. Min(eq) = m
    <3> HIDE DEF eq
    <3> QED BY <1>4, <2>3, MinIs
  <2>5. SubSeq(src, m + 1, end - 1) = v
    <3> DEFINE b == m + 1
    <3>1. b \in Nat \ {0} /\ b + Len(v) <= Len(src) + 1 /\ b + Len(v) - 1 = end - 1
      BY <1>1, <1>2, <2>1
    <3>2. \A j \in 1 .. Len(v) : b - 1 + j = m + j
      BY <1>2
    <3>3. \A j \in 1 .. Len(v) : src[b - 1 + j] = v[j]
      BY <2>1, <3>2
    <3> HIDE DEF b
    <3>4. SubSeq(src, b, b + Len(v) - 1) = v
      BY <3>1, <3>3, Extracted
    <3> QED BY <3>1, <3>4 DEF b
  <2> HIDE DEF eq
  <2>6. eq # {} /\ Min(eq) < end
    BY <2>2, <2>3, <2>4
  <2> QED BY <1>3, <2>4, <2>5, <2>6 DEF SplitPair, eq
<1>6. CASE end = a + Len(k) /\ v = <<>>
  <2>1. end = m
    BY <1>6 DEF m
  <2>2. ~(eq # {} /\ Min(eq) < end)
    <3> SUFFICES ASSUME eq # {} PROVE ~(Min(eq) < end)
      OBVIOUS
    <3>1. eq \in SUBSET Nat
      BY <1>4
    <3> HIDE DEF eq
    <3>2. Min(eq) \in eq
      BY <3>1, MinIn
    <3>3. Min(eq) \in Nat /\ Min(eq) >= m
      BY <1>4, <3>2
    <3> QED BY <1>2, <2>1, <3>3
  <2> HIDE DEF eq
  <2> QED BY <1>3, <1>6, <2>1, <2>2 DEF SplitPair, eq
<1> QED BY <1>5, <1>6

LEMMA FieldSplit ==
  ASSUME NEW T, NEW U, T \subseteq U, NEW src \in Seq(U), NEW f \in Field(T), NEW a \in Nat \ {0},
         a + Len(EncodeField(f)) <= Len(src) + 1,
         \A j \in 1 .. Len(EncodeField(f)) : src[a - 1 + j] = EncodeField(f)[j]
  PROVE  /\ \A p \in a .. a + Len(EncodeField(f)) - 1 : src[p] # "&"
         /\ SplitPair(src, a, a + Len(EncodeField(f))) = <<f.key, f.value>>
<1> DEFINE e == EncodeField(f)
           k == f.key
           v == f.value
           end == a + Len(e)
<1>1. k \in Seq(U) /\ v \in Seq(U) /\ e \in Seq(T \cup {"&", "="})
  <2>1. k \in Seq(T) /\ v \in Seq(T) /\ e \in Seq(T \cup {"&", "="})
    BY FieldLayout
  <2> HIDE DEF e, k, v
  <2> QED BY <2>1
<1>2. Len(e) \in Nat /\ Len(k) \in Nat /\ Len(v) \in Nat /\ Len(src) \in Nat
  BY <1>1
<1>3. /\ \A j \in 1 .. Len(e) : e[j] # "&"
      /\ \A j \in 1 .. Len(k) : k[j] # "=" /\ e[j] = k[j]
  BY FieldLayout
<1>4. \/ /\ Len(e) = Len(k) + 1 + Len(v) /\ e[Len(k) + 1] = "="
         /\ \A j \in 1 .. Len(v) : e[Len(k) + 1 + j] = v[j]
      \/ Len(e) = Len(k) /\ v = <<>>
  BY FieldLayout
<1>5. end <= Len(src) + 1 /\ \A j \in 1 .. Len(e) : src[a - 1 + j] = e[j]
  OBVIOUS
<1>6. SUFFICES (\A p \in a .. end - 1 : src[p] # "&") /\ SplitPair(src, a, end) = <<k, v>>
  OBVIOUS
<1> HIDE DEF e, k, v
<1>7. ASSUME NEW p \in a .. end - 1 PROVE src[p] # "&"
  <2>1. p - a + 1 \in 1 .. Len(e) /\ a - 1 + (p - a + 1) = p
    BY <1>2
  <2>2. src[p] = e[p - a + 1]
    BY <1>5, <2>1
  <2> QED BY <1>3, <2>1, <2>2
<1>8. \A j \in 1 .. Len(k) : src[a - 1 + j] = k[j]
  <2>1. \A j \in 1 .. Len(k) : j \in 1 .. Len(e)
    BY <1>2, <1>4
  <2> QED BY <1>3, <1>5, <2>1
<1>9. \/ /\ end = a + Len(k) + 1 + Len(v)
         /\ src[a + Len(k)] = "="
         /\ \A j \in 1 .. Len(v) : src[a + Len(k) + j] = v[j]
      \/ end = a + Len(k) /\ v = <<>>
  <2>1. CASE /\ Len(e) = Len(k) + 1 + Len(v) /\ e[Len(k) + 1] = "="
             /\ \A j \in 1 .. Len(v) : e[Len(k) + 1 + j] = v[j]
    <3>1. Len(k) + 1 \in 1 .. Len(e) /\ a - 1 + (Len(k) + 1) = a + Len(k)
      BY <1>2, <2>1
    <3>2. \A j \in 1 .. Len(v) : Len(k) + 1 + j \in 1 .. Len(e)
                                 /\ a - 1 + (Len(k) + 1 + j) = a + Len(k) + j
      BY <1>2, <2>1
    <3>3. src[a + Len(k)] = "="
      BY <1>5, <2>1, <3>1
    <3>4. \A j \in 1 .. Len(v) : src[a + Len(k) + j] = v[j]
      BY <1>5, <2>1, <3>2
    <3>5. end = a + Len(k) + 1 + Len(v)
      BY <1>2, <2>1
    <3> QED BY <3>3, <3>4, <3>5
  <2>2. CASE Len(e) = Len(k) /\ v = <<>>
    BY <2>2
  <2> QED BY <1>4, <2>1, <2>2
<1>10. end \in Nat
  BY <1>2
<1> HIDE DEF end
<1>11. SplitPair(src, a, end) = <<k, v>>
  BY <1>1, <1>3, <1>5, <1>8, <1>9, <1>10, PairSplit
<1> QED BY <1>7, <1>11

LEMMA QueryUnfolds ==
  ASSUME NEW T, NEW src \in Seq(T)
  PROVE  \E from :
           /\ filled_params_query(src) = from[1]
           /\ \A p \in 1 .. Len(src) + 1 :
                LET amp == Find(src, "&", p)
                    end == IF amp = {} THEN Len(src) + 1 ELSE Min(amp)
                    pair == SplitPair(src, p, end)
                IN  from[p] = IF p > Len(src) THEN <<>>
                              ELSE <<<<url_decode(pair[1]), url_decode(pair[2])>>>>
                                   \o IF amp = {} THEN <<>> ELSE from[end + 1]
<1> DEFINE N == Len(src) + 1
           amp(p) == Find(src, "&", p)
           end(p) == IF amp(p) = {} THEN N ELSE Min(amp(p))
           pair(p) == SplitPair(src, p, end(p))
           val(p) == <<url_decode(pair(p)[1]), url_decode(pair(p)[2])>>
           Rest(f, p) == <<val(p)>> \o IF amp(p) = {} THEN <<>> ELSE f[end(p) + 1]
           from == CHOOSE f : f = [p \in 1 .. N |-> IF p > Len(src) THEN <<>> ELSE Rest(f, p)]
<1>1. filled_params_query(src) = from[1]
  BY DEF filled_params_query
<1> DEFINE X == {val(p) : p \in 1 .. N}
           here == [p \in 1 .. N |-> IF p > Len(src) THEN <<>> ELSE <<val(p)>>]
           next == [p \in 1 .. N |-> end(p) + 1]
           Stop == {p \in 1 .. N : p > Len(src) \/ amp(p) = {}}
<1>2. here \in [1 .. N -> Seq(X)]
  <2> HIDE DEF val
  <2>1. ASSUME NEW p \in 1 .. N PROVE <<val(p)>> \in Seq(X) /\ <<>> \in Seq(X)
    OBVIOUS
  <2> HIDE DEF X
  <2> QED BY <2>1
<1>3. N \in Nat
  OBVIOUS
<1>4. ASSUME NEW p \in 1 .. N \ Stop PROVE next[p] \in p + 1 .. N
  <2>1. amp(p) \in SUBSET Nat /\ amp(p) # {}
    BY <1>4 DEF Find
  <2>2. Min(amp(p)) \in amp(p)
    <3> HIDE DEF amp
    <3> QED BY <2>1, MinIn
  <2>3. Min(amp(p)) \in p .. Len(src)
    BY <2>2 DEF Find
  <2>4. next[p] = Min(amp(p)) + 1
    BY <2>1
  <2> HIDE DEF amp, next
  <2> QED BY <2>3, <2>4
<1>5. PICK g : Unfolds(g, N, here, next, Stop)
  <2>1. next \in [1 .. N -> Nat]
    <3>1. ASSUME NEW p \in 1 .. N PROVE end(p) + 1 \in Nat
      <4>1. amp(p) \in SUBSET Nat
        BY DEF Find
      <4> HIDE DEF amp
      <4>2. amp(p) # {} => Min(amp(p)) \in Nat
        BY <4>1, MinIn
      <4> QED BY <1>3, <4>2
    <3> HIDE DEF end
    <3> QED BY <3>1
  <2>2. Stop \in SUBSET (1 .. N)
    OBVIOUS
  <2> HIDE DEF here, next, Stop, X, N
  <2> QED BY <1>2, <1>3, <1>4, <2>1, <2>2, Unfolded
<1>6. ASSUME NEW p \in 1 .. N
      PROVE  g[p] = IF p > Len(src) THEN <<>> ELSE Rest(g, p)
  <2>1. g[p] = here[p] \o IF p \in Stop THEN <<>> ELSE g[next[p]]
    <3> HIDE DEF here, next, Stop, N
    <3> QED BY <1>5 DEF Unfolds
  <2> HIDE DEF val, amp, end
  <2>2. CASE p > Len(src)
    <3>1. <<>> \o <<>> = <<>>
      OBVIOUS
    <3> QED BY <2>1, <2>2, <3>1
  <2>3. CASE ~(p > Len(src))
    <3>1. here[p] = <<val(p)>> /\ (p \in Stop <=> amp(p) = {}) /\ next[p] = end(p) + 1
      BY <2>3
    <3> HIDE DEF here, next, Stop
    <3> QED BY <2>1, <2>3, <3>1
  <2> QED BY <2>2, <2>3
<1>7. g = [p \in 1 .. N |-> IF p > Len(src) THEN <<>> ELSE Rest(g, p)]
  <2> HIDE DEF here, next, Stop, N, Rest
  <2> QED BY <1>5, <1>6 DEF Unfolds
<1>8. from = [p \in 1 .. N |-> IF p > Len(src) THEN <<>> ELSE Rest(from, p)]
  <2> HIDE DEF N, val, amp, end
  <2> QED BY <1>7
<1>9. \A p \in 1 .. N : from[p] = IF p > Len(src) THEN <<>> ELSE Rest(from, p)
  <2> HIDE DEF from, N, Rest
  <2> QED BY <1>8
<1> HIDE DEF from
<1> QED BY <1>1, <1>9

(* Where the fields of a query are: each from at[i] to before fin[i]. *)
FieldsAt(at, fin, fs) ==
  /\ at \in [1 .. Len(fs) -> Nat \ {0}] /\ fin \in [1 .. Len(fs) -> Nat \ {0}]
  /\ Len(fs) # 0 => at[1] = 1 /\ fin[Len(fs)] = Len(EncodeFields(fs)) + 1
  /\ \A i \in 1 .. Len(fs) :
       /\ fin[i] = at[i] + Len(EncodeField(fs[i]))
       /\ fin[i] <= Len(EncodeFields(fs)) + 1
       /\ \A j \in 1 .. Len(EncodeField(fs[i])) :
            EncodeFields(fs)[at[i] - 1 + j] = EncodeField(fs[i])[j]
  /\ \A i \in 1 .. Len(fs) - 1 :
       /\ EncodeFields(fs)[fin[i]] = "&" /\ fin[i] <= Len(EncodeFields(fs))
       /\ at[i + 1] = fin[i] + 1

LEMMA QueryLayout ==
  ASSUME NEW T, NEW fs \in Seq(Field(T))
  PROVE  /\ EncodeFields(fs) \in Seq(T \cup {"&", "="})
         /\ Len(fs) = 0 => EncodeFields(fs) = <<>>
         /\ \E at, fin : FieldsAt(at, fin, fs)
<1> DEFINE U == T \cup {"&", "="}
           n == Len(fs)
           e(i) == EncodeField(fs[i])
           lead(i) == IF i > 1 THEN <<"&">> ELSE <<>>
           seqs == [i \in DOMAIN fs |-> lead(i) \o e(i)]
           src == EncodeFields(fs)
<1>1. n \in Nat /\ DOMAIN fs = 1 .. n /\ \A i \in 1 .. n : fs[i] \in Field(T)
  OBVIOUS
<1>2. src = FlattenSeq(seqs)
  BY DEF EncodeFields
<1>3. ASSUME NEW i \in 1 .. n PROVE e(i) \in Seq(U) /\ Len(e(i)) \in Nat
  <2>1. EncodeField(fs[i]) \in Seq(U)
    BY <1>1, FieldLayout
  <2> QED BY <2>1
<1>4. ASSUME NEW i \in 1 .. n
      PROVE  /\ seqs[i] \in Seq(U)
             /\ Len(seqs[i]) = Len(lead(i)) + Len(e(i))
             /\ \A j \in 1 .. Len(e(i)) : seqs[i][Len(lead(i)) + j] = e(i)[j]
             /\ i > 1 => seqs[i][1] = "&"
  <2> DEFINE l == lead(i)
             t == e(i)
  <2>1. l \in Seq(U) /\ (i > 1 => Len(l) = 1 /\ l[1] = "&") /\ t \in Seq(U)
    <3>1. <<"&">> \in Seq(U) /\ <<>> \in Seq(U) /\ Len(<<"&">>) = 1 /\ <<"&">>[1] = "&"
      OBVIOUS
    <3> HIDE DEF U
    <3> QED BY <1>3, <3>1
  <2>2. seqs[i] = l \o t
    BY <1>1
  <2> HIDE DEF l, t, U, seqs
  <2>3. /\ l \o t \in Seq(U) /\ Len(l \o t) = Len(l) + Len(t)
        /\ \A j \in 1 .. Len(l) : (l \o t)[j] = l[j]
        /\ \A j \in 1 .. Len(t) : (l \o t)[Len(l) + j] = t[j]
    BY <2>1, Concatenated
  <2>4. i > 1 => (l \o t)[1] = "&"
    <3>1. ASSUME i > 1 PROVE (l \o t)[1] = "&"
      <4>1. Len(l) = 1 /\ l[1] = "&"
        BY <2>1, <3>1
      <4>2. 1 \in 1 .. Len(l)
        BY <4>1
      <4> QED BY <2>3, <4>1, <4>2
    <3> QED BY <3>1
  <2> QED BY <2>2, <2>3, <2>4 DEF l, t
<1>5. seqs \in Seq(Seq(U)) /\ Len(seqs) = n
  <2> HIDE DEF U, e, lead
  <2>1. seqs = [i \in 1 .. n |-> seqs[i]]
    BY <1>1
  <2>2. \A i \in 1 .. n : seqs[i] \in Seq(U)
    BY <1>4
  <2> HIDE DEF seqs
  <2> QED BY <1>1, <2>1, <2>2
<1> HIDE DEF seqs, U
<1>6. PICK F : Joined(F, U, seqs) /\ src = F[n]
  <2> HIDE DEF src, n
  <2> QED BY <1>2, <1>5, Flattened
<1>7. /\ \A i \in 0 .. n : Len(F[i]) \in Nat /\ Len(F[i]) <= Len(src)
      /\ \A i \in 1 .. n :
           /\ Len(F[i]) = Len(F[i-1]) + Len(seqs[i])
           /\ \A k \in 1 .. Len(seqs[i]) : src[Len(F[i-1]) + k] = seqs[i][k]
  <2> HIDE DEF src, n
  <2>1. LaidOut(F, seqs)
    BY <1>5, <1>6, Layout
  <2> QED BY <1>5, <1>6, <2>1 DEF LaidOut
<1> DEFINE at == [i \in 1 .. n |-> Len(F[i-1]) + Len(lead(i)) + 1]
           fin == [i \in 1 .. n |-> Len(F[i]) + 1]
<1>8. src \in Seq(U) /\ Len(src) \in Nat /\ Len(src) = Len(F[n]) /\ F[0] = <<>>
  <2>1. F \in [0 .. n -> Seq(U)] /\ F[0] = <<>> /\ n \in 0 .. n
    BY <1>1, <1>5, <1>6 DEF Joined
  <2>2. src \in Seq(U)
    BY <1>6, <2>1
  <2> QED BY <1>6, <2>1, <2>2
<1>9. Len(F[0]) = 0 /\ (n = 0 => src = <<>>)
  BY <1>6, <1>8
<1>10. \A i \in 1 .. n : Len(lead(i)) \in Nat /\ (i > 1 => Len(lead(i)) = 1) /\ (i = 1 => Len(lead(i)) = 0)
  OBVIOUS
<1> HIDE DEF src, lead, e
<1>11. ASSUME NEW i \in 1 .. n
       PROVE  /\ at[i] = Len(F[i-1]) + Len(lead(i)) + 1 /\ fin[i] = Len(F[i]) + 1
              /\ i - 1 \in 0 .. n /\ i \in 0 .. n
              /\ Len(F[i-1]) \in Nat /\ Len(F[i]) \in Nat /\ Len(lead(i)) \in Nat
              /\ at[i] \in Nat \ {0} /\ fin[i] \in Nat \ {0}
  <2>1. i - 1 \in 0 .. n /\ i \in 0 .. n
    BY <1>1
  <2> QED BY <1>7, <1>10, <2>1
<1>12. at \in [1 .. n -> Nat \ {0}] /\ fin \in [1 .. n -> Nat \ {0}]
  BY <1>11
<1> HIDE DEF at, fin, n
<1>13. ASSUME n # 0 PROVE at[1] = 1 /\ fin[n] = Len(src) + 1
  <2>1. 1 \in 1 .. n /\ n \in 1 .. n /\ 1 - 1 = 0
    BY <1>1, <1>13
  <2>2. at[1] = Len(F[1-1]) + Len(lead(1)) + 1 /\ fin[n] = Len(F[n]) + 1 /\ Len(lead(1)) = 0
    BY <1>10, <1>11, <2>1
  <2> QED BY <1>8, <1>9, <2>1, <2>2
<1>14. ASSUME NEW i \in 1 .. n
       PROVE  /\ fin[i] = at[i] + Len(e(i)) /\ fin[i] <= Len(src) + 1
              /\ \A j \in 1 .. Len(e(i)) : src[at[i] - 1 + j] = e(i)[j]
  <2> DEFINE x == Len(F[i-1])
             y == Len(lead(i))
             z == Len(e(i))
             q == Len(seqs[i])
  <2>1. q = y + z /\ Len(F[i]) = x + q /\ Len(F[i]) <= Len(src) /\ Len(F[i]) \in Nat
        /\ x \in Nat /\ y \in Nat /\ z \in Nat
        /\ at[i] = x + y + 1 /\ fin[i] = Len(F[i]) + 1
    BY <1>3, <1>4, <1>7, <1>11
  <2>2. /\ \A j \in 1 .. z : seqs[i][y + j] = e(i)[j]
        /\ \A k \in 1 .. q : src[x + k] = seqs[i][k]
    BY <1>4, <1>7
  <2> HIDE DEF x, y, z, q
  <2>3. fin[i] = at[i] + z /\ fin[i] <= Len(src) + 1
    BY <1>8, <2>1
  <2>4. ASSUME NEW j \in 1 .. z PROVE src[at[i] - 1 + j] = e(i)[j]
    <3>1. y + j \in 1 .. q /\ at[i] - 1 + j = x + (y + j)
      BY <2>1
    <3> QED BY <2>2, <3>1
  <2> QED BY <2>3, <2>4 DEF z
<1>15. ASSUME NEW i \in 1 .. n - 1
       PROVE  /\ src[fin[i]] = "&" /\ fin[i] <= Len(src) /\ at[i + 1] = fin[i] + 1
  <2>1. i \in 1 .. n /\ i + 1 \in 1 .. n /\ i + 1 > 1 /\ (i + 1) - 1 = i
    BY <1>1
  <2> DEFINE x == Len(F[i])
             q == Len(seqs[i + 1])
  <2>2. Len(lead(i + 1)) = 1 /\ q = 1 + Len(e(i + 1)) /\ Len(e(i + 1)) \in Nat
        /\ seqs[i + 1][1] = "&"
    BY <1>3, <1>4, <1>10, <2>1
  <2>3. /\ Len(F[i + 1]) = x + q /\ Len(F[i + 1]) <= Len(src) /\ x \in Nat
        /\ at[i + 1] = x + 1 + 1 /\ fin[i] = x + 1
        /\ \A k \in 1 .. q : src[x + k] = seqs[i + 1][k]
    BY <1>7, <1>11, <2>1, <2>2
  <2> HIDE DEF x, q
  <2>4. 1 \in 1 .. q
    BY <2>2
  <2>5. src[x + 1] = "&"
    BY <2>2, <2>3, <2>4
  <2> QED BY <1>8, <2>2, <2>3, <2>5
<1>16. FieldsAt(at, fin, fs)
  BY <1>8, <1>9, <1>12, <1>13, <1>14, <1>15 DEF src, e, U, n, FieldsAt
<1> QED BY <1>8, <1>16 DEF src, U, n

LEMMA TailOf ==
  ASSUME NEW h, NEW i \in Nat, NEW m \in Nat
  PROVE  <<h[i]>> \o [j \in 1 .. m |-> h[i + j]] = [j \in 1 .. m + 1 |-> h[i + j - 1]]
<1> DEFINE X == {h[k] : k \in Nat}
           t == [j \in 1 .. m |-> h[i + j]]
           s == <<h[i]>>
           r == [j \in 1 .. m + 1 |-> h[i + j - 1]]
<1>1. s \in Seq(X) /\ t \in Seq(X) /\ Len(s) = 1 /\ Len(t) = m /\ s[1] = h[i]
  OBVIOUS
<1>2. \A j \in 1 .. m : t[j] = h[i + j]
  OBVIOUS
<1>3. ASSUME NEW j \in 1 .. m + 1 PROVE r[j] = h[i + j - 1]
  OBVIOUS
<1>4. r = [j \in 1 .. m + 1 |-> r[j]]
  OBVIOUS
<1> HIDE DEF s, t, X, r
<1>5. /\ s \o t \in Seq(X) /\ Len(s \o t) = m + 1
      /\ (s \o t)[1] = h[i]
      /\ \A j \in 1 .. m : (s \o t)[1 + j] = h[i + j]
  <2>1. /\ s \o t \in Seq(X) /\ Len(s \o t) = Len(s) + Len(t)
        /\ \A j \in 1 .. Len(s) : (s \o t)[j] = s[j]
        /\ \A j \in 1 .. Len(t) : (s \o t)[Len(s) + j] = t[j]
    <3>1. s \in Seq(X) /\ t \in Seq(X)
      BY <1>1
    <3> QED BY <3>1, Concatenated
  <2>2. 1 \in 1 .. Len(s)
    BY <1>1
  <2> QED BY <1>1, <1>2, <2>1, <2>2
<1>6. ASSUME NEW j \in 1 .. m + 1 PROVE (s \o t)[j] = h[i + j - 1]
  <2>1. CASE j = 1
    <3>1. i + 1 - 1 = i
      OBVIOUS
    <3> QED BY <1>5, <2>1, <3>1
  <2>2. CASE j # 1
    <3>1. j - 1 \in 1 .. m /\ 1 + (j - 1) = j /\ i + (j - 1) = i + j - 1
      BY <2>2
    <3>2. (s \o t)[1 + (j - 1)] = h[i + (j - 1)]
      BY <1>5, <3>1
    <3> QED BY <3>1, <3>2
  <2> QED BY <2>1, <2>2
<1>7. s \o t = [j \in 1 .. m + 1 |-> (s \o t)[j]]
  <2> DEFINE st == s \o t
  <2>1. st \in Seq(X) /\ Len(st) = m + 1
    BY <1>5
  <2> HIDE DEF st
  <2>2. st = [j \in 1 .. m + 1 |-> st[j]]
    BY <2>1
  <2> QED BY <2>2 DEF st
<1>8. s \o t = r
  BY <1>3, <1>4, <1>6, <1>7
<1> QED BY <1>8 DEF s, t, r

LEMMA FieldsBack ==
  ASSUME NEW T, NEW fs \in Seq(Field(T))
  PROVE  filled_params_query(EncodeFields(fs)) = Meant(fs)
<1> DEFINE U == T \cup {"&", "="}
           n == Len(fs)
           e(i) == EncodeField(fs[i])
           src == EncodeFields(fs)
           h == [i \in 1 .. n |-> <<url_decode(fs[i].key), url_decode(fs[i].value)>>]
           given == IF n > 0 /\ e(n) = <<>> THEN n - 1 ELSE n
<1>1. n \in Nat /\ \A i \in 1 .. n : fs[i] \in Field(T)
  OBVIOUS
<1>2. Meant(fs) = [i \in 1 .. given |-> h[i]]
  <2>1. given \in Nat /\ \A i \in 1 .. given : i \in 1 .. n
    BY <1>1
  <2>2. Meant(fs) = [i \in 1 .. given |-> <<url_decode(fs[i].key), url_decode(fs[i].value)>>]
    BY DEF Meant
  <2> HIDE DEF given
  <2> QED BY <2>1, <2>2
<1>3. src \in Seq(U) /\ (n = 0 => src = <<>>)
  BY QueryLayout
<1>4. PICK at, fin : FieldsAt(at, fin, fs)
  BY QueryLayout
<1>40. /\ at \in [1 .. n -> Nat \ {0}] /\ fin \in [1 .. n -> Nat \ {0}]
       /\ n # 0 => at[1] = 1 /\ fin[n] = Len(src) + 1
       /\ \A i \in 1 .. n :
            /\ fin[i] = at[i] + Len(e(i))
            /\ fin[i] <= Len(src) + 1
            /\ \A j \in 1 .. Len(e(i)) : src[at[i] - 1 + j] = e(i)[j]
       /\ \A i \in 1 .. n - 1 :
            /\ src[fin[i]] = "&" /\ fin[i] <= Len(src)
            /\ at[i + 1] = fin[i] + 1
  BY <1>4 DEF FieldsAt
<1> DEFINE amp(p) == Find(src, "&", p)
           end(p) == IF amp(p) = {} THEN Len(src) + 1 ELSE Min(amp(p))
           pair(p) == SplitPair(src, p, end(p))
<1> HIDE DEF src, U, n, e
<1>5. PICK from :
        /\ filled_params_query(src) = from[1]
        /\ \A p \in 1 .. Len(src) + 1 :
             from[p] = IF p > Len(src) THEN <<>>
                       ELSE <<<<url_decode(pair(p)[1]), url_decode(pair(p)[2])>>>>
                            \o IF amp(p) = {} THEN <<>> ELSE from[end(p) + 1]
  BY <1>3, QueryUnfolds
<1>6. Len(src) \in Nat
  BY <1>3
<1>7. ASSUME NEW i \in 1 .. n
      PROVE  /\ at[i] \in Nat \ {0} /\ fin[i] \in Nat \ {0} /\ Len(e(i)) \in Nat
             /\ fin[i] = at[i] + Len(e(i)) /\ fin[i] <= Len(src) + 1
             /\ \A p \in at[i] .. fin[i] - 1 : src[p] # "&"
             /\ SplitPair(src, at[i], fin[i]) = <<fs[i].key, fs[i].value>>
  <2>1. /\ at[i] \in Nat \ {0} /\ fin[i] \in Nat \ {0}
        /\ fin[i] = at[i] + Len(e(i)) /\ fin[i] <= Len(src) + 1
        /\ \A j \in 1 .. Len(e(i)) : src[at[i] - 1 + j] = e(i)[j]
    BY <1>40
  <2>2. fs[i] \in Field(T) /\ T \subseteq U
    BY <1>1 DEF U
  <2>3. Len(e(i)) \in Nat
    <3>1. e(i) \in Seq(U)
      BY <2>2, FieldLayout DEF e, U
    <3> QED BY <3>1
  <2> DEFINE a == at[i]
             f == fs[i]
  <2>4. /\ a \in Nat \ {0} /\ f \in Field(T) /\ a + Len(EncodeField(f)) <= Len(src) + 1
        /\ \A j \in 1 .. Len(EncodeField(f)) : src[a - 1 + j] = EncodeField(f)[j]
    BY <2>1, <2>2 DEF e
  <2> HIDE DEF a, f
  <2>5. /\ \A p \in a .. a + Len(EncodeField(f)) - 1 : src[p] # "&"
        /\ SplitPair(src, a, a + Len(EncodeField(f))) = <<f.key, f.value>>
    BY <1>3, <2>2, <2>4, FieldSplit
  <2>6. a = at[i] /\ f = fs[i] /\ fin[i] = a + Len(EncodeField(f))
    BY <2>1 DEF a, f, e
  <2> QED BY <2>1, <2>3, <2>5, <2>6
<1>8. ASSUME NEW i \in 1 .. n - 1 PROVE from[at[i]] = <<h[i]>> \o from[at[i + 1]]
  <2>1. i \in 1 .. n
    BY <1>1
  <2>2. src[fin[i]] = "&" /\ fin[i] <= Len(src) /\ at[i + 1] = fin[i] + 1
    BY <1>40
  <2>3. at[i] \in Nat \ {0} /\ fin[i] \in Nat /\ at[i] <= fin[i]
    BY <1>7, <2>1
  <2>4. Min(amp(at[i])) = fin[i] /\ amp(at[i]) # {}
    <3>1. fin[i] \in amp(at[i]) /\ amp(at[i]) \in SUBSET Int
      BY <2>2, <2>3 DEF Find
    <3>2. ASSUME NEW p \in amp(at[i]) PROVE fin[i] <= p
      <4>1. p \in at[i] .. Len(src) /\ src[p] = "&"
        BY <3>2 DEF Find
      <4>2. p \notin at[i] .. fin[i] - 1
        BY <1>7, <2>1, <4>1
      <4> QED BY <1>6, <2>3, <4>1, <4>2
    <3> HIDE DEF amp
    <3> QED BY <3>1, <3>2, MinIs
  <2>5. end(at[i]) = fin[i]
    BY <2>4
  <2>6. at[i] \in 1 .. Len(src) + 1 /\ ~(at[i] > Len(src))
    BY <1>6, <2>2, <2>3
  <2>7. pair(at[i]) = <<fs[i].key, fs[i].value>>
    BY <1>7, <2>1, <2>5
  <2> HIDE DEF amp, end, pair
  <2>8. from[at[i]] = <<<<url_decode(pair(at[i])[1]), url_decode(pair(at[i])[2])>>>>
                      \o from[at[i + 1]]
    BY <1>5, <2>2, <2>4, <2>5, <2>6
  <2> QED BY <2>1, <2>7, <2>8
<1>9. ASSUME n # 0
      PROVE  from[at[n]] = IF e(n) = <<>> THEN <<>> ELSE <<h[n]>>
  <2>1. n \in 1 .. n /\ fin[n] = Len(src) + 1
    BY <1>1, <1>40, <1>9
  <2>2. at[n] \in Nat \ {0} /\ Len(src) + 1 = at[n] + Len(e(n)) /\ Len(e(n)) \in Nat
    BY <1>7, <2>1
  <2>3. at[n] \in 1 .. Len(src) + 1
    BY <1>6, <2>2
  <2>4. CASE e(n) = <<>>
    <3>1. at[n] > Len(src)
      BY <1>6, <2>2, <2>4
    <3> QED BY <1>5, <2>3, <2>4, <3>1
  <2>5. CASE e(n) # <<>>
    <3>1. Len(e(n)) # 0
      <4>1. e(n) \in Seq(U)
        BY <1>1, <2>1, FieldLayout DEF e, U
      <4> QED BY <2>5, <4>1
    <3>2. ~(at[n] > Len(src))
      BY <1>6, <2>2, <3>1
    <3>3. amp(at[n]) = {}
      <4>1. \A p \in at[n] .. Len(src) : p \in at[n] .. fin[n] - 1
        BY <1>6, <2>1, <2>2
      <4> QED BY <1>7, <2>1, <4>1 DEF Find
    <3>4. end(at[n]) = fin[n]
      BY <2>1, <3>3
    <3>5. pair(at[n]) = <<fs[n].key, fs[n].value>>
      BY <1>7, <2>1, <3>4
    <3> HIDE DEF amp, end, pair
    <3>6. from[at[n]] = <<<<url_decode(pair(at[n])[1]), url_decode(pair(at[n])[2])>>>> \o <<>>
      BY <1>5, <2>3, <3>2, <3>3
    <3>7. from[at[n]] = <<h[n]>> \o <<>>
      BY <2>1, <3>5, <3>6
    <3>8. <<h[n]>> \o <<>> = <<h[n]>>
      OBVIOUS
    <3> QED BY <2>5, <3>7, <3>8
  <2> QED BY <2>4, <2>5
<1>10. CASE n = 0
  <2>1. Len(src) = 0 /\ 1 \in 1 .. Len(src) + 1 /\ 1 > Len(src)
    BY <1>3, <1>10
  <2>2. from[1] = <<>>
    BY <1>5, <2>1
  <2>3. given = 0
    BY <1>10
  <2>4. [i \in 1 .. 0 |-> h[i]] = <<>>
    OBVIOUS
  <2> QED BY <1>2, <1>5, <2>2, <2>3, <2>4 DEF src
<1>11. CASE n # 0
  <2> DEFINE tail(i) == [j \in 1 .. given - i + 1 |-> h[i + j - 1]]
             A == {k \in Nat : k < n => from[at[n - k]] = tail(n - k)}
  <2>1. given \in {n - 1, n} /\ (given = n - 1 <=> e(n) = <<>>)
    BY <1>1, <1>11
  <2> HIDE DEF given, h
  <2>2. 0 \in A
    <3>1. n - 0 = n /\ n + 1 - 1 = n
      BY <1>1
    <3>2. CASE e(n) = <<>>
      <4>1. 1 .. given - n + 1 = {}
        BY <1>1, <2>1, <3>2
      <4>2. tail(n) = <<>>
        BY <4>1
      <4> QED BY <1>9, <1>11, <3>1, <3>2, <4>2
    <3>3. CASE e(n) # <<>>
      <4>1. 1 .. given - n + 1 = 1 .. 1
        BY <1>1, <2>1, <3>3
      <4>2. tail(n) = [j \in 1 .. 1 |-> h[n + j - 1]]
        BY <4>1
      <4>3. [j \in 1 .. 1 |-> h[n + j - 1]] = <<h[n]>>
        BY <1>1, <3>1
      <4> QED BY <1>9, <1>11, <3>1, <3>3, <4>2, <4>3
    <3> QED BY <3>2, <3>3
  <2>3. ASSUME NEW k \in Nat, k \in A PROVE k + 1 \in A
    <3> SUFFICES ASSUME k + 1 < n PROVE from[at[n - (k + 1)]] = tail(n - (k + 1))
      OBVIOUS
    <3> DEFINE i == n - (k + 1)
               m == given - (i + 1) + 1
    <3>1. i \in 1 .. n - 1 /\ i \in Nat /\ i + 1 = n - k /\ k < n /\ m \in Nat /\ m + 1 = given - i + 1
      BY <1>1, <2>1
    <3>2. from[at[i + 1]] = tail(i + 1)
      BY <2>3, <3>1
    <3>3. from[at[i]] = <<h[i]>> \o from[at[i + 1]]
      BY <1>8, <3>1
    <3>4. tail(i + 1) = [j \in 1 .. m |-> h[i + j]]
      <4>1. \A j \in 1 .. m : (i + 1) + j - 1 = i + j
        BY <3>1
      <4> QED BY <4>1
    <3> HIDE DEF i, m
    <3>5. tail(i) = [j \in 1 .. m + 1 |-> h[i + j - 1]]
      BY <3>1
    <3>6. tail(i) = <<h[i]>> \o [j \in 1 .. m |-> h[i + j]]
      BY <3>1, <3>5, TailOf
    <3> QED BY <3>2, <3>3, <3>4, <3>6 DEF i
  <2>4. n - 1 \in A
    <3> HIDE DEF A
    <3>1. Nat \subseteq A
      BY <2>2, <2>3, SetInduction
    <3> QED BY <1>1, <1>11, <3>1
  <2>5. from[at[1]] = tail(1)
    <3>1. n - 1 < n /\ n - (n - 1) = 1
      BY <1>1
    <3> QED BY <2>4, <3>1
  <2>6. tail(1) = [i \in 1 .. given |-> h[i]]
    <3>1. given - 1 + 1 = given /\ \A j \in 1 .. given : 1 + j - 1 = j
      BY <1>1, <2>1
    <3> QED BY <3>1
  <2> QED BY <1>2, <1>40, <1>5, <1>11, <2>5, <2>6 DEF src
<1> QED BY <1>10, <1>11
LEMMA Regrouped ==
  ASSUME NEW X, NEW a \in Seq(X), NEW b \in Seq(X), NEW c \in Seq(X)
  PROVE  a \o (b \o c) = (a \o b) \o c
<1>1. (a \o b) \o c = a \o (b \o c)
  BY ConcatAssociative
<1> QED BY <1>1

(* A sequence put together from the right. *)
LEMMA FlattenBack ==
  ASSUME NEW X, NEW seqs \in Seq(Seq(X)), NEW g \in [1 .. Len(seqs) + 1 -> Seq(X)],
         g[Len(seqs) + 1] = <<>>,
         \A i \in 1 .. Len(seqs) : g[i] = seqs[i] \o g[i + 1]
  PROVE  FlattenSeq(seqs) = g[1]
<1> DEFINE N == Len(seqs)
<1>1. N \in Nat /\ \A i \in 1 .. N : seqs[i] \in Seq(X)
  OBVIOUS
<1>2. PICK F : Joined(F, X, seqs) /\ FlattenSeq(seqs) = F[N]
  BY Flattened
<1>3. F \in [0 .. N -> Seq(X)] /\ F[0] = <<>> /\ \A i \in 1 .. N : F[i] = F[i-1] \o seqs[i]
  BY <1>2 DEF Joined
<1> DEFINE A == {n \in Nat : n <= N => g[1] = F[n] \o g[n + 1]}
<1>4. 0 \in A
  <2>1. g[1] \in Seq(X)
    BY <1>1
  <2>2. g[1] = <<>> \o g[1]
    BY <2>1
  <2>3. F[0] \o g[0 + 1] = g[1]
    BY <1>3, <2>2
  <2> QED BY <2>3
<1>5. ASSUME NEW n \in Nat, n \in A PROVE n + 1 \in A
  <2> SUFFICES ASSUME n + 1 <= N PROVE g[1] = F[n + 1] \o g[n + 2]
    <3>1. (n + 1) + 1 = n + 2 /\ n + 1 \in Nat
      OBVIOUS
    <3>2. g[(n + 1) + 1] = g[n + 2]
      BY <3>1
    <3> HIDE DEF N
    <3> QED BY <3>1, <3>2
  <2>1. n <= N /\ n + 1 \in 1 .. N /\ (n + 1) - 1 = n /\ n \in 0 .. N /\ n + 2 \in 1 .. N + 1
        /\ (n + 1) + 1 = n + 2
    BY <1>1
  <2>2. g[1] = F[n] \o g[n + 1] /\ g[n + 1] = seqs[n + 1] \o g[n + 2] /\ F[n + 1] = F[n] \o seqs[n + 1]
    BY <1>3, <1>5, <2>1
  <2> DEFINE a == F[n]
             b == seqs[n + 1]
             c == g[n + 2]
  <2>3. a \in Seq(X) /\ b \in Seq(X) /\ c \in Seq(X)
    BY <1>1, <1>3, <2>1
  <2> HIDE DEF a, b, c
  <2>4. a \o (b \o c) = (a \o b) \o c
    <3>1. \A p, q, r \in Seq(X) : p \o (q \o r) = (p \o q) \o r
      BY Regrouped, SMTT(30)
    <3> QED BY <2>3, <3>1, Zenon
  <2> QED BY <2>2, <2>4 DEF a, b, c
<1>6. N \in A
  <2> HIDE DEF A
  <2>1. Nat \subseteq A
    BY <1>4, <1>5, SetInduction
  <2> QED BY <1>1, <2>1
<1>7. F[N] \in Seq(X)
  BY <1>1, <1>3
<1>8. F[N] \o <<>> = F[N]
  BY <1>7
<1>9. g[1] = F[N] \o g[N + 1]
  <2>1. N \in Nat /\ N <= N
    BY <1>1
  <2> HIDE DEF N
  <2> QED BY <1>6, <2>1
<1> QED BY <1>2, <1>8, <1>9

LEMMA Sliced ==
  ASSUME NEW T, NEW s \in Seq(T), NEW a \in Nat \ {0}, NEW m \in Nat, a + m <= Len(s) + 1
  PROVE  /\ SubSeq(s, a, a + m - 1) \in Seq(T) /\ Len(SubSeq(s, a, a + m - 1)) = m
         /\ \A j \in 1 .. m : SubSeq(s, a, a + m - 1)[j] = s[a - 1 + j]
<1> DEFINE b == a + m - 1
<1>1. Len(s) \in Nat /\ b \in Nat /\ b - a + 1 = m /\ b <= Len(s)
  OBVIOUS
<1>2. SubSeq(s, a, b) = [j \in 1 .. b - a + 1 |-> s[a + j - 1]]
  BY <1>1
<1>3. \A j \in 1 .. m : a + j - 1 = a - 1 + j /\ a - 1 + j \in 1 .. Len(s)
  BY <1>1
<1> HIDE DEF b
<1>4. SubSeq(s, a, b) = [j \in 1 .. m |-> s[a - 1 + j]]
  BY <1>1, <1>2, <1>3
<1>5. \A j \in 1 .. m : s[a - 1 + j] \in T
  BY <1>3
<1> DEFINE r == [j \in 1 .. m |-> s[a - 1 + j]]
<1>6. r \in Seq(T) /\ Len(r) = m /\ \A j \in 1 .. m : r[j] = s[a - 1 + j]
  BY <1>5
<1> QED BY <1>4, <1>6 DEF b

-----------------------------------------------------------------------------
(* Multipart bodies. *)

LEMMA NameOf ==
  ASSUME NEW K, NEW line \in Seq(NameTokens(K))
  PROVE  NameIn(line) = IF line = <<>> THEN <<>> ELSE <<line[1][2]>>
<1> DEFINE at == {i \in DOMAIN line : line[i][1] \in {"name", "filename"}}
<1>1. ASSUME NEW t \in NameTokens(K) PROVE t[1] \in {"name", "filename"}
  BY DEF NameTokens, Named, Filenamed
<1>2. Len(line) \in Nat /\ DOMAIN line = 1 .. Len(line)
      /\ \A i \in 1 .. Len(line) : line[i] \in NameTokens(K)
  OBVIOUS
<1>3. at = 1 .. Len(line)
  BY <1>1, <1>2
<1> HIDE DEF at
<1>4. NameIn(line) = IF at = {} THEN <<>> ELSE <<line[Min(at)][2]>>
  BY DEF NameIn, at
<1>5. CASE line = <<>>
  <2>1. at = {}
    BY <1>3, <1>5
  <2> QED BY <1>4, <1>5, <2>1
<1>6. CASE line # <<>>
  <2>1. Len(line) # 0
    BY <1>6
  <2>2. 1 \in at /\ at \in SUBSET Int /\ \A y \in at : 1 <= y
    BY <1>2, <1>3, <2>1
  <2>3. Min(at) = 1
    BY <2>2, MinIs
  <2> QED BY <1>4, <1>6, <2>2, <2>3
<1> QED BY <1>5, <1>6

(* The pair of a part: its line up to the empty line, and its value up to the
   last end of a line. *)
IsPart(part, line, value) ==
  /\ Len(part) = Len(line) + Len(value) + 3
  /\ \A j \in 1 .. Len(line) : part[j] = line[j]
  /\ part[Len(line) + 1] = Crlf /\ part[Len(line) + 2] = Crlf
  /\ \A j \in 1 .. Len(value) : part[Len(line) + 2 + j] = value[j]
  /\ part[Len(part)] = Crlf

LEMMA PairMade ==
  ASSUME NEW U, NEW part \in Seq(U), NEW K, NEW line \in Seq(NameTokens(K)),
         NEW V, NEW value \in Seq(V), IsPart(part, line, value)
  PROVE  PairOfPart(part) = IF line = <<>> THEN <<>> ELSE <<<<line[1][2], value>>>>
<1> DEFINE l == Len(line)
           m == Len(value)
           sep == {i \in 1 .. Len(part) - 1 : part[i] = Crlf /\ part[i + 1] = Crlf}
           n == Len(part)
           w == SubSeq(part, l + 3, n)
<1>1. l \in Nat /\ m \in Nat /\ n = l + m + 3
  BY DEF IsPart
<1>0. /\ part[l + 1] = Crlf /\ part[l + 2] = Crlf /\ part[n] = Crlf
      /\ \A j \in 1 .. l : part[j] = line[j]
      /\ \A j \in 1 .. m : part[l + 2 + j] = value[j]
  BY DEF IsPart
<1>2. ASSUME NEW t \in NameTokens(K) PROVE t # Crlf
  <2>1. t[1] \in {"name", "filename"} /\ Crlf[1] = "crlf"
    BY DEF NameTokens, Named, Filenamed, Crlf
  <2> QED BY <2>1
<1>3. \A j \in 1 .. l : part[j] # Crlf
  <2>1. \A j \in 1 .. l : line[j] \in NameTokens(K)
    OBVIOUS
  <2> QED BY <1>0, <1>2, <2>1
<1>4. l + 1 \in sep /\ sep \in SUBSET Int /\ \A y \in sep : l + 1 <= y
  <2>1. l + 1 \in 1 .. n - 1 /\ (l + 1) + 1 = l + 2
    BY <1>1
  <2>0. part[l + 1] = Crlf /\ part[(l + 1) + 1] = Crlf
    BY <1>0, <2>1
  <2>2. ASSUME NEW y \in sep PROVE l + 1 <= y
    <3>1. y \in 1 .. n - 1 /\ part[y] = Crlf
      OBVIOUS
    <3>2. y \notin 1 .. l
      BY <1>3, <3>1
    <3> QED BY <1>1, <3>1, <3>2
  <2>3. sep \in SUBSET Int
    BY <1>1
  <2> QED BY <2>0, <2>1, <2>2, <2>3
<1> HIDE DEF sep, l, m, n, w
<1>5. Min(sep) = l + 1 /\ sep # {}
  BY <1>4, MinIs
<1>6. SubSeq(part, 1, Min(sep) - 1) = line
  <2>1. 1 + Len(line) <= Len(part) + 1 /\ \A j \in 1 .. Len(line) : part[1 - 1 + j] = line[j]
    BY <1>0, <1>1 DEF l, n
  <2>2. SubSeq(part, 1, 1 + Len(line) - 1) = line
    BY <2>1, Extracted
  <2>3. Min(sep) - 1 = 1 + Len(line) - 1
    BY <1>1, <1>5 DEF l
  <2> QED BY <2>2, <2>3
<1>7. w \in Seq(U) /\ Len(w) = m + 1 /\ \A j \in 1 .. m + 1 : w[j] = part[l + 2 + j]
  <2> DEFINE a == l + 3
             k == m + 1
  <2>0. n = Len(part)
    BY DEF n
  <2>1. a \in Nat \ {0} /\ k \in Nat /\ a + k <= n + 1 /\ a + k - 1 = n
        /\ \A j \in 1 .. k : a - 1 + j = l + 2 + j
    BY <1>1
  <2> HIDE DEF a, k
  <2>2. /\ SubSeq(part, a, a + k - 1) \in Seq(U) /\ Len(SubSeq(part, a, a + k - 1)) = k
        /\ \A j \in 1 .. k : SubSeq(part, a, a + k - 1)[j] = part[a - 1 + j]
    BY <2>0, <2>1, Sliced
  <2>3. w = SubSeq(part, a, a + k - 1)
    BY <2>1 DEF w, a
  <2> QED BY <2>1, <2>2, <2>3 DEF k
<1>8. w[m + 1] = Crlf /\ \A j \in 1 .. m : w[j] = value[j]
  <2>1. m + 1 \in 1 .. m + 1 /\ l + 2 + (m + 1) = n
    BY <1>1
  <2>2. \A j \in 1 .. m : j \in 1 .. m + 1
    BY <1>1
  <2>3. w[m + 1] = Crlf
    BY <1>0, <1>7, <2>1
  <2>4. \A j \in 1 .. m : w[j] = part[l + 2 + j]
    BY <1>7, <2>2
  <2> QED BY <1>0, <2>3, <2>4
<1>9. PartBody(w) = value
  <2>1. w # <<>> /\ w[Len(w)] = Crlf
    BY <1>1, <1>7, <1>8
  <2>2. PartBody(w) = SubSeq(w, 1, Len(w) - 1)
    BY <2>1 DEF PartBody
  <2>3. /\ 1 + Len(value) <= Len(w) + 1 /\ 1 + Len(value) - 1 = Len(w) - 1
        /\ \A j \in 1 .. Len(value) : w[1 - 1 + j] = value[j]
    BY <1>1, <1>7, <1>8 DEF m
  <2>4. SubSeq(w, 1, 1 + Len(value) - 1) = value
    BY <1>7, <2>3, Extracted
  <2> QED BY <2>2, <2>3, <2>4
<1>10. SubSeq(part, Min(sep) + 2, n) = w
  <2>1. Min(sep) + 2 = l + 3
    BY <1>1, <1>5
  <2> QED BY <2>1 DEF w
<1>11. PairOfPart(part) =
         IF sep = {} \/ NameIn(SubSeq(part, 1, Min(sep) - 1)) = <<>> THEN <<>>
         ELSE <<<<NameIn(SubSeq(part, 1, Min(sep) - 1))[1],
                  PartBody(SubSeq(part, Min(sep) + 2, n))>>>>
  BY DEF PairOfPart, sep, n
<1>12. NameIn(line) = IF line = <<>> THEN <<>> ELSE <<line[1][2]>>
  BY NameOf
<1>13. PairOfPart(part) = IF NameIn(line) = <<>> THEN <<>> ELSE <<<<NameIn(line)[1], value>>>>
  BY <1>5, <1>6, <1>9, <1>10, <1>11
<1>14. <<line[1][2]>> # <<>> /\ <<line[1][2]>>[1] = line[1][2]
  OBVIOUS
<1> QED BY <1>12, <1>13, <1>14

(* The parser at q: the first delimiter, what follows it, the next one. *)
DelimsAt(body, q) == Find(body, Delim, q)
FirstAt(body, q) == Min(DelimsAt(body, q)) + 1
StartAt(body, q) ==
  IF FirstAt(body, q) \in Find(body, Crlf, FirstAt(body, q))
  THEN FirstAt(body, q) + 1 ELSE FirstAt(body, q)
EndsAt(body, q) == Find(body, Delim, StartAt(body, q))
NoPartAt(body, q) ==
  \/ DelimsAt(body, q) = {}
  \/ FirstAt(body, q) \in Find(body, Dashes, FirstAt(body, q))
  \/ EndsAt(body, q) = {}
PairAt(body, q) == PairOfPart(SubSeq(body, StartAt(body, q), Min(EndsAt(body, q)) - 1))

LEMMA PairTyped == \A part : \E e : PairOfPart(part) = <<>> \/ PairOfPart(part) = <<e>>
BY DEF PairOfPart

(* The recursion of the parser has a solution. *)
PartsFound(from, X, body) ==
  /\ from \in [1 .. Len(body) + 1 -> Seq(X)]
  /\ parse_multipart_formdata(body) = from[1]
  /\ \A q \in 1 .. Len(body) + 1 :
       /\ from[q] = IF NoPartAt(body, q) THEN <<>>
                      ELSE PairAt(body, q) \o from[Min(EndsAt(body, q))]
       /\ ~NoPartAt(body, q) => PairAt(body, q) \in Seq(X)

LEMMA PartUnfolds ==
  ASSUME NEW U, NEW body \in Seq(U)
  PROVE  \E from, X : PartsFound(from, X, body)
<1> DEFINE N == Len(body) + 1
           Next(p) == Min(EndsAt(body, p))
           Value(f, p) == IF NoPartAt(body, p) THEN <<>> ELSE PairAt(body, p) \o f[Next(p)]
           from == CHOOSE f : f = [p \in 1 .. N |-> Value(f, p)]
           X == {PairAt(body, p)[1] : p \in 1 .. N}
           here == [p \in 1 .. N |-> IF NoPartAt(body, p) THEN <<>> ELSE PairAt(body, p)]
           next == [p \in 1 .. N |-> IF NoPartAt(body, p) THEN 0 ELSE Next(p)]
           Stop == {p \in 1 .. N : NoPartAt(body, p)}
<1>1. parse_multipart_formdata(body) = from[1]
  BY DEF parse_multipart_formdata, NoPartAt, PairAt, EndsAt, StartAt, FirstAt, DelimsAt
<1>2. N \in Nat /\ Len(body) \in Nat
  OBVIOUS
<1>3. ASSUME NEW p \in 1 .. N PROVE PairAt(body, p) \in Seq(X)
  <2>1. PICK e : PairAt(body, p) = <<>> \/ PairAt(body, p) = <<e>>
    BY PairTyped DEF PairAt
  <2>2. <<>> \in Seq(X)
    OBVIOUS
  <2>3. PairAt(body, p)[1] \in X
    OBVIOUS
  <2> HIDE DEF X
  <2>4. CASE PairAt(body, p) = <<e>>
    <3>1. <<e>>[1] = e
      OBVIOUS
    <3>2. e \in X
      BY <2>3, <2>4, <3>1
    <3>3. <<e>> \in Seq(X)
      BY <3>2
    <3> QED BY <2>4, <3>3
  <2> QED BY <2>1, <2>2, <2>4
<1>4. ASSUME NEW p \in 1 .. N, ~NoPartAt(body, p) PROVE Next(p) \in p + 1 .. N
  <2>1. DelimsAt(body, p) \in SUBSET Nat /\ DelimsAt(body, p) # {}
    BY <1>4 DEF NoPartAt, DelimsAt, Find
  <2>2. Min(DelimsAt(body, p)) \in DelimsAt(body, p)
    BY <2>1, MinIn
  <2>3. Min(DelimsAt(body, p)) \in p .. Len(body)
    BY <2>2 DEF DelimsAt, Find
  <2>4. FirstAt(body, p) \in p + 1 .. N
    BY <1>2, <2>3 DEF FirstAt
  <2>5. StartAt(body, p) \in Nat /\ StartAt(body, p) >= p + 1
    BY <2>4 DEF StartAt
  <2>6. EndsAt(body, p) \in SUBSET Nat /\ EndsAt(body, p) # {}
    BY <1>4, <2>5 DEF NoPartAt, EndsAt, Find
  <2>7. Next(p) \in EndsAt(body, p)
    BY <2>6, MinIn
  <2>8. Next(p) \in StartAt(body, p) .. Len(body)
    BY <2>7 DEF EndsAt, Find
  <2> HIDE DEF Next
  <2> QED BY <1>2, <2>5, <2>8
<1>5. here \in [1 .. N -> Seq(X)]
  <2>1. <<>> \in Seq(X)
    OBVIOUS
  <2> HIDE DEF X
  <2> QED BY <1>3, <2>1
<1>6. next \in [1 .. N -> Nat]
  <2>1. ASSUME NEW p \in 1 .. N PROVE next[p] \in Nat
    <3>1. ~NoPartAt(body, p) => Next(p) \in Nat
      <4> HIDE DEF Next, N
      <4> QED BY <1>2, <1>4
    <3> QED BY <3>1
  <2> HIDE DEF N, Next
  <2> QED BY <2>1
<1>7. \A p \in 1 .. N \ Stop : next[p] \in p + 1 .. N
  <2> HIDE DEF N, Next
  <2> QED BY <1>4
<1>8. Stop \in SUBSET (1 .. N)
  OBVIOUS
<1>9. /\ \E f : Unfolds(f, N, here, next, Stop)
      /\ \A f : Unfolds(f, N, here, next, Stop) => f \in [1 .. N -> Seq(X)]
  <2> HIDE DEF here, next, Stop, X, N
  <2> QED BY <1>2, <1>5, <1>6, <1>7, <1>8, Unfolded
<1>10. ASSUME NEW f, f = [p \in 1 .. N |-> f[p]]
       PROVE  Unfolds(f, N, here, next, Stop) <=> \A p \in 1 .. N : f[p] = Value(f, p)
  <2>1. ASSUME NEW p \in 1 .. N
        PROVE  here[p] \o (IF p \in Stop THEN <<>> ELSE f[next[p]]) = Value(f, p)
    <3>1. <<>> \o <<>> = <<>>
      OBVIOUS
    <3>2. CASE NoPartAt(body, p)
      <4>1. here[p] = <<>> /\ p \in Stop /\ Value(f, p) = <<>>
        BY <3>2
      <4> HIDE DEF here, Stop, Value, next
      <4> QED BY <3>1, <4>1
    <3>3. CASE ~NoPartAt(body, p)
      <4>1. here[p] = PairAt(body, p) /\ p \notin Stop /\ next[p] = Next(p)
            /\ Value(f, p) = PairAt(body, p) \o f[Next(p)]
        BY <3>3
      <4> HIDE DEF here, Stop, Value, next, Next
      <4> QED BY <4>1
    <3> QED BY <3>2, <3>3
  <2> HIDE DEF here, Stop, Value, next, N
  <2> QED BY <1>10, <2>1 DEF Unfolds
<1>11. PICK g : Unfolds(g, N, here, next, Stop)
  BY <1>9
<1>12. g = [p \in 1 .. N |-> Value(g, p)]
  <2>1. g = [p \in 1 .. N |-> g[p]]
    BY <1>11 DEF Unfolds
  <2>2. \A p \in 1 .. N : g[p] = Value(g, p)
    <3> HIDE DEF here, Stop, Value, next, N
    <3> QED BY <1>10, <1>11, <2>1
  <2> HIDE DEF here, Stop, Value, next, N
  <2> QED BY <2>1, <2>2
<1>13. from = [p \in 1 .. N |-> Value(from, p)]
  <2> HIDE DEF N, Value
  <2> QED BY <1>12
<1>14. from \in [1 .. N -> Seq(X)] /\ \A p \in 1 .. N : from[p] = Value(from, p)
  <2> HIDE DEF from
  <2>1. \A p \in 1 .. N : from[p] = Value(from, p)
    <3> HIDE DEF N, Value
    <3> QED BY <1>13
  <2>2. from = [p \in 1 .. N |-> from[p]]
    <3> HIDE DEF N, Value
    <3> QED BY <1>13
  <2>3. Unfolds(from, N, here, next, Stop)
    <3> HIDE DEF here, Stop, Value, next, N
    <3> QED BY <1>10, <2>1, <2>2
  <2>4. from \in [1 .. N -> Seq(X)]
    <3> HIDE DEF here, Stop, X, next, N
    <3> QED BY <1>9, <2>3
  <2> QED BY <2>1, <2>4
<1> HIDE DEF from, X
<1>15. PartsFound(from, X, body)
  BY <1>1, <1>3, <1>14 DEF PartsFound
<1> QED BY <1>15

PartText(p) == <<Delim, Crlf>> \o p.line \o <<Crlf, Crlf>> \o p.value \o <<Crlf>>

(* What is where in the text s of the part p. *)
IsText(s, p) ==
  /\ Len(s) = Len(p.line) + Len(p.value) + 5
  /\ s[1] = Delim /\ s[2] = Crlf
  /\ \A j \in 1 .. Len(p.line) : s[2 + j] = p.line[j]
  /\ s[Len(p.line) + 3] = Crlf /\ s[Len(p.line) + 4] = Crlf
  /\ \A j \in 1 .. Len(p.value) : s[Len(p.line) + 4 + j] = p.value[j]
  /\ s[Len(s)] = Crlf

Tokens(T, K) == T \cup {Delim, Crlf, Dashes} \cup NameTokens(K)

LEMMA PartLayout ==
  ASSUME NEW T, NEW K, NEW p \in Part(T, K)
  PROVE  PartText(p) \in Seq(Tokens(T, K)) /\ IsText(PartText(p), p)
<1> DEFINE U == Tokens(T, K)
           a == <<Delim, Crlf>>
           b == <<Crlf, Crlf>>
           c == <<Crlf>>
           l == p.line
           v == p.value
           s1 == a \o l
           s2 == s1 \o b
           s3 == s2 \o v
           s4 == s3 \o c
<1>1. /\ a \in Seq(U) /\ Len(a) = 2 /\ a[1] = Delim /\ a[2] = Crlf
      /\ b \in Seq(U) /\ Len(b) = 2 /\ b[1] = Crlf /\ b[2] = Crlf
      /\ c \in Seq(U) /\ Len(c) = 1 /\ c[1] = Crlf
  <2>1. Delim \in U /\ Crlf \in U
    BY DEF Tokens
  <2> HIDE DEF U
  <2> QED BY <2>1
<1>2. l \in Seq(U) /\ v \in Seq(U) /\ Len(l) \in Nat /\ Len(v) \in Nat
  <2>1. l \in Seq(NameTokens(K)) /\ v \in Seq(T \ {Delim})
    BY DEF Part
  <2>2. NameTokens(K) \subseteq U /\ T \ {Delim} \subseteq U
    BY DEF Tokens
  <2> HIDE DEF U, l, v
  <2> QED BY <2>1, <2>2
<1>3. PartText(p) = s4
  BY DEF PartText
<1> HIDE DEF U, a, b, c, l, v
<1>4. /\ s1 \in Seq(U) /\ Len(s1) = 2 + Len(l)
      /\ s1[1] = Delim /\ s1[2] = Crlf
      /\ \A j \in 1 .. Len(l) : s1[2 + j] = l[j]
  <2>1. /\ a \o l \in Seq(U) /\ Len(a \o l) = Len(a) + Len(l)
        /\ \A k \in 1 .. Len(a) : (a \o l)[k] = a[k]
        /\ \A k \in 1 .. Len(l) : (a \o l)[Len(a) + k] = l[k]
    <3>1. a \in Seq(U) /\ l \in Seq(U)
      BY <1>1, <1>2
    <3> QED BY <3>1, Concatenated
  <2>2. 1 \in 1 .. Len(a) /\ 2 \in 1 .. Len(a)
    BY <1>1
  <2> QED BY <1>1, <2>1, <2>2
<1> HIDE DEF s1
<1>5. /\ s2 \in Seq(U) /\ Len(s2) = 4 + Len(l)
      /\ \A k \in 1 .. 2 + Len(l) : s2[k] = s1[k]
      /\ s2[Len(l) + 3] = Crlf /\ s2[Len(l) + 4] = Crlf
  <2>1. /\ s1 \o b \in Seq(U) /\ Len(s1 \o b) = Len(s1) + Len(b)
        /\ \A k \in 1 .. Len(s1) : (s1 \o b)[k] = s1[k]
        /\ \A k \in 1 .. Len(b) : (s1 \o b)[Len(s1) + k] = b[k]
    <3>1. s1 \in Seq(U) /\ b \in Seq(U)
      BY <1>1, <1>4
    <3> QED BY <3>1, Concatenated
  <2>2. 1 \in 1 .. Len(b) /\ 2 \in 1 .. Len(b)
    BY <1>1
  <2>3. (s1 \o b)[Len(s1) + 1] = Crlf /\ (s1 \o b)[Len(s1) + 2] = Crlf
    BY <1>1, <2>1, <2>2
  <2>4. Len(s1) + 1 = Len(l) + 3 /\ Len(s1) + 2 = Len(l) + 4 /\ Len(s1) + Len(b) = 4 + Len(l)
    BY <1>1, <1>2, <1>4
  <2> QED BY <1>4, <2>1, <2>3, <2>4
<1> HIDE DEF s2
<1>6. /\ s3 \in Seq(U) /\ Len(s3) = 4 + Len(l) + Len(v)
      /\ \A k \in 1 .. 4 + Len(l) : s3[k] = s2[k]
      /\ \A j \in 1 .. Len(v) : s3[Len(l) + 4 + j] = v[j]
  <2>1. /\ s2 \o v \in Seq(U) /\ Len(s2 \o v) = Len(s2) + Len(v)
        /\ \A k \in 1 .. Len(s2) : (s2 \o v)[k] = s2[k]
        /\ \A k \in 1 .. Len(v) : (s2 \o v)[Len(s2) + k] = v[k]
    <3>1. s2 \in Seq(U) /\ v \in Seq(U)
      BY <1>2, <1>5
    <3> QED BY <3>1, Concatenated
  <2>2. Len(s2) = Len(l) + 4
    BY <1>2, <1>5
  <2> QED BY <1>5, <2>1, <2>2
<1> HIDE DEF s3
<1>7. /\ s4 \in Seq(U) /\ Len(s4) = Len(l) + Len(v) + 5
      /\ \A k \in 1 .. 4 + Len(l) + Len(v) : s4[k] = s3[k]
      /\ s4[Len(l) + Len(v) + 5] = Crlf
  <2>1. /\ s3 \o c \in Seq(U) /\ Len(s3 \o c) = Len(s3) + Len(c)
        /\ \A k \in 1 .. Len(s3) : (s3 \o c)[k] = s3[k]
        /\ \A k \in 1 .. Len(c) : (s3 \o c)[Len(s3) + k] = c[k]
    <3>1. s3 \in Seq(U) /\ c \in Seq(U)
      BY <1>1, <1>6
    <3> QED BY <3>1, Concatenated
  <2>2. 1 \in 1 .. Len(c) /\ Len(s3) + 1 = Len(l) + Len(v) + 5
    BY <1>1, <1>2, <1>6
  <2>3. (s3 \o c)[Len(s3) + 1] = Crlf
    BY <1>1, <2>1, <2>2
  <2> QED BY <1>1, <1>6, <2>1, <2>2, <2>3
<1> HIDE DEF s4
<1>8. s4[1] = Delim /\ s4[2] = Crlf
  <2>1. \A k \in {1, 2} : k \in 1 .. 2 + Len(l) /\ k \in 1 .. 4 + Len(l) /\ k \in 1 .. 4 + Len(l) + Len(v)
    BY <1>2
  <2> QED BY <1>4, <1>5, <1>6, <1>7, <2>1
<1>9. ASSUME NEW j \in 1 .. Len(l) PROVE s4[2 + j] = l[j]
  <2> DEFINE k == 2 + j
  <2>1. k \in 1 .. 2 + Len(l) /\ k \in 1 .. 4 + Len(l) /\ k \in 1 .. 4 + Len(l) + Len(v)
    BY <1>2
  <2>2. s1[k] = l[j]
    BY <1>4
  <2> HIDE DEF k
  <2>3. s4[k] = l[j]
    BY <1>5, <1>6, <1>7, <2>1, <2>2
  <2> QED BY <2>3 DEF k
<1>10. s4[Len(l) + 3] = Crlf /\ s4[Len(l) + 4] = Crlf
  <2>1. \A k \in {Len(l) + 3, Len(l) + 4} : k \in 1 .. 4 + Len(l) /\ k \in 1 .. 4 + Len(l) + Len(v)
    BY <1>2
  <2> QED BY <1>5, <1>6, <1>7, <2>1
<1>11. ASSUME NEW j \in 1 .. Len(v) PROVE s4[Len(l) + 4 + j] = v[j]
  <2> DEFINE k == Len(l) + 4 + j
  <2>1. k \in 1 .. 4 + Len(l) + Len(v)
    BY <1>2
  <2>2. s3[k] = v[j]
    BY <1>6
  <2> HIDE DEF k
  <2>3. s4[k] = v[j]
    BY <1>7, <2>1, <2>2
  <2> QED BY <2>3 DEF k
<1>12. IsText(s4, p)
  BY <1>7, <1>8, <1>9, <1>10, <1>11 DEF IsText, l, v
<1> QED BY <1>3, <1>7, <1>12 DEF U

LEMMA TextLength ==
  ASSUME NEW T, NEW K, NEW p \in Part(T, K)
  PROVE  Len(PartText(p)) \in Nat /\ Len(PartText(p)) >= 1
<1> DEFINE x == Len(p.line)
           y == Len(p.value)
           z == Len(PartText(p))
<1>1. p.line \in Seq(NameTokens(K)) /\ p.value \in Seq(T \ {Delim})
  BY DEF Part
<1>2. x \in Nat /\ y \in Nat
  BY <1>1
<1>3. z = x + y + 5
  BY PartLayout DEF IsText
<1> HIDE DEF x, y, z
<1>4. z \in Nat /\ z >= 1
  BY <1>2, <1>3
<1> QED BY <1>4 DEF z

(* Where the parts of a body begin, and what comes after the last one. *)
PartsAt(at, body, ps, closed) ==
  /\ at \in [1 .. Len(ps) + 1 -> Nat \ {0}] /\ at[1] = 1
  /\ \A i \in 1 .. Len(ps) :
       /\ at[i + 1] = at[i] + Len(PartText(ps[i])) /\ at[i + 1] <= Len(body) + 1
       /\ \A j \in 1 .. Len(PartText(ps[i])) : body[at[i] - 1 + j] = PartText(ps[i])[j]
  /\ IF closed THEN /\ at[Len(ps) + 1] + 1 <= Len(body)
                    /\ body[at[Len(ps) + 1]] = Delim /\ body[at[Len(ps) + 1] + 1] = Dashes
     ELSE at[Len(ps) + 1] = Len(body) + 1

LEMMA PartsLayout ==
  ASSUME NEW T, NEW K, NEW ps \in Seq(Part(T, K)), NEW closed \in BOOLEAN
  PROVE  /\ EncodeParts(ps) \o Closing(closed) \in Seq(Tokens(T, K))
         /\ \E at : PartsAt(at, EncodeParts(ps) \o Closing(closed), ps, closed)
<1> DEFINE U == Tokens(T, K)
           n == Len(ps)
           e(i) == PartText(ps[i])
           seqs == [i \in DOMAIN ps |-> e(i)]
           s == EncodeParts(ps)
           t == Closing(closed)
           body == s \o t
<1>1. n \in Nat /\ DOMAIN ps = 1 .. n /\ \A i \in 1 .. n : ps[i] \in Part(T, K)
  OBVIOUS
<1>2. s = FlattenSeq(seqs)
  BY DEF EncodeParts, PartText
<1>3. ASSUME NEW i \in 1 .. n PROVE e(i) \in Seq(U) /\ Len(e(i)) \in Nat /\ seqs[i] = e(i)
  <2>1. e(i) \in Seq(U)
    BY <1>1, PartLayout
  <2>2. seqs[i] = e(i)
    BY <1>1
  <2> QED BY <2>1, <2>2
<1>4. seqs \in Seq(Seq(U)) /\ Len(seqs) = n
  <2> HIDE DEF e, U, n
  <2> QED BY <1>1, <1>3
<1> HIDE DEF e, seqs, U
<1>5. PICK F : Joined(F, U, seqs) /\ FlattenSeq(seqs) = F[Len(seqs)]
  BY <1>4, Flattened
<1>6. LaidOut(F, seqs)
  BY <1>4, <1>5, Layout
<1>7. s = F[n] /\ F \in [0 .. n -> Seq(U)] /\ F[0] = <<>>
  BY <1>2, <1>4, <1>5 DEF Joined
<1> HIDE DEF n, s
<1>8. /\ \A i \in 0 .. n : Len(F[i]) \in Nat /\ Len(F[i]) <= Len(s)
      /\ \A i \in 1 .. n : /\ Len(F[i]) = Len(F[i-1]) + Len(e(i))
                           /\ \A j \in 1 .. Len(e(i)) : s[Len(F[i-1]) + j] = e(i)[j]
  <2>1. \A i \in 1 .. n : seqs[i] = e(i)
    BY <1>3
  <2> QED BY <1>4, <1>6, <1>7, <2>1 DEF LaidOut
<1>9. /\ t \in Seq(U)
      /\ closed => Len(t) = 3 /\ t[1] = Delim /\ t[2] = Dashes
      /\ ~closed => Len(t) = 0
  <2>1. Delim \in U /\ Dashes \in U /\ Crlf \in U
    BY DEF U, Tokens
  <2> QED BY <2>1 DEF Closing
<1>10. s \in Seq(U)
  BY <1>1, <1>7
<1> HIDE DEF t
<1>11. /\ body \in Seq(U) /\ Len(body) = Len(s) + Len(t) /\ Len(s) \in Nat /\ Len(t) \in Nat
       /\ \A k \in 1 .. Len(s) : body[k] = s[k]
       /\ \A k \in 1 .. Len(t) : body[Len(s) + k] = t[k]
  BY <1>9, <1>10, Concatenated
<1> HIDE DEF body
<1> DEFINE at == [i \in 1 .. n + 1 |-> Len(F[i - 1]) + 1]
<1>12. /\ at \in [1 .. n + 1 -> Nat \ {0}] /\ at[1] = 1 /\ at[n + 1] = Len(s) + 1
       /\ \A i \in 1 .. n : at[i] = Len(F[i - 1]) + 1 /\ at[i + 1] = Len(F[i]) + 1
  <2>1. \A i \in 1 .. n + 1 : i - 1 \in 0 .. n
    BY <1>1
  <2>2. 1 \in 1 .. n + 1 /\ n + 1 \in 1 .. n + 1 /\ 1 - 1 = 0 /\ (n + 1) - 1 = n
        /\ \A i \in 1 .. n : i \in 1 .. n + 1 /\ i + 1 \in 1 .. n + 1 /\ (i + 1) - 1 = i
    BY <1>1
  <2>3. at \in [1 .. n + 1 -> Nat \ {0}]
    <3>1. \A i \in 1 .. n + 1 : Len(F[i - 1]) + 1 \in Nat \ {0}
      BY <1>8, <2>1
    <3> QED BY <3>1
  <2>4. Len(F[0]) = 0
    BY <1>7
  <2>5. at[1] = 1 /\ at[n + 1] = Len(s) + 1
    BY <1>7, <2>2, <2>4
  <2> QED BY <2>2, <2>3, <2>5
<1> HIDE DEF at
<1>13. ASSUME NEW i \in 1 .. n
       PROVE  /\ at[i + 1] = at[i] + Len(e(i)) /\ at[i + 1] <= Len(body) + 1
              /\ \A j \in 1 .. Len(e(i)) : body[at[i] - 1 + j] = e(i)[j]
  <2>1. i \in 0 .. n /\ i - 1 \in 0 .. n
    BY <1>1
  <2>2. /\ Len(F[i - 1]) \in Nat /\ Len(F[i]) \in Nat /\ Len(F[i]) <= Len(s)
        /\ Len(F[i]) = Len(F[i-1]) + Len(e(i)) /\ Len(e(i)) \in Nat
        /\ at[i] = Len(F[i - 1]) + 1 /\ at[i + 1] = Len(F[i]) + 1
    BY <1>3, <1>8, <1>12, <2>1
  <2>3. at[i + 1] = at[i] + Len(e(i)) /\ at[i + 1] <= Len(body) + 1
    BY <1>11, <2>2
  <2>4. ASSUME NEW j \in 1 .. Len(e(i)) PROVE body[at[i] - 1 + j] = e(i)[j]
    <3>1. at[i] - 1 + j = Len(F[i - 1]) + j /\ Len(F[i - 1]) + j \in 1 .. Len(s)
      BY <1>11, <2>2
    <3>2. s[Len(F[i - 1]) + j] = e(i)[j]
      BY <1>8
    <3> QED BY <1>11, <3>1, <3>2
  <2> QED BY <2>3, <2>4
<1>14. IF closed THEN /\ at[n + 1] + 1 <= Len(body)
                      /\ body[at[n + 1]] = Delim /\ body[at[n + 1] + 1] = Dashes
       ELSE at[n + 1] = Len(body) + 1
  <2>1. CASE closed
    <3>0. Len(t) = 3
      BY <1>9, <2>1, Zenon
    <3>1. Len(t) = 3 /\ 1 \in 1 .. Len(t) /\ 2 \in 1 .. Len(t)
      BY <3>0
    <3>2. body[Len(s) + 1] = Delim /\ body[Len(s) + 2] = Dashes
      BY <1>9, <1>11, <2>1, <3>1
    <3>3. at[n + 1] + 1 = Len(s) + 2 /\ Len(s) + 2 <= Len(body)
      BY <1>11, <1>12, <3>1
    <3> QED BY <1>12, <2>1, <3>2, <3>3
  <2>2. CASE ~closed
    BY <1>9, <1>11, <1>12, <2>2
  <2> QED BY <2>1, <2>2
<1>15. PartsAt(at, body, ps, closed)
  BY <1>12, <1>13, <1>14 DEF PartsAt, n, e
<1> QED BY <1>11, <1>15 DEF body, s, t, U

(* The parser at the beginning of a part finds its pair, if there is another
   delimiter right behind it, and nothing if it is the last. *)
LEMMA PartAhead ==
  ASSUME NEW T, NEW K, NEW body \in Seq(Tokens(T, K)), NEW p \in Part(T, K),
         NEW a \in Nat \ {0}, NEW b, b = a + Len(PartText(p)), b <= Len(body) + 1,
         \A j \in 1 .. Len(PartText(p)) : body[a - 1 + j] = PartText(p)[j],
         b <= Len(body) => body[b] = Delim
  PROVE  /\ NoPartAt(body, a) <=> b = Len(body) + 1
         /\ b <= Len(body) =>
              /\ Min(EndsAt(body, a)) = b
              /\ PairAt(body, a) = IF p.line = <<>> THEN <<>> ELSE <<<<p.line[1][2], p.value>>>>
<1> DEFINE l == p.line
           v == p.value
           m == Len(l) + Len(v) + 3
           N == Len(body)
           s == PartText(p)
<1>1. l \in Seq(NameTokens(K)) /\ v \in Seq(T \ {Delim}) /\ Len(l) \in Nat /\ Len(v) \in Nat /\ N \in Nat
  <2>1. l \in Seq(NameTokens(K)) /\ v \in Seq(T \ {Delim})
    BY DEF Part
  <2> QED BY <2>1
<1>2. /\ Len(s) = m + 2 /\ s[1] = Delim /\ s[2] = Crlf
      /\ \A j \in 1 .. Len(l) : s[2 + j] = l[j]
      /\ s[Len(l) + 3] = Crlf /\ s[Len(l) + 4] = Crlf
      /\ \A j \in 1 .. Len(v) : s[Len(l) + 4 + j] = v[j]
      /\ s[m + 2] = Crlf
  <2>1. IsText(s, p)
    BY PartLayout
  <2>2. Len(s) = Len(l) + Len(v) + 5 /\ s[Len(s)] = Crlf
    BY <2>1 DEF IsText
  <2>3. Len(s) = m + 2
    BY <1>1, <2>2
  <2> QED BY <2>1, <2>2, <2>3 DEF IsText
<1>4. \A j \in 1 .. m + 2 : body[a - 1 + j] = s[j]
  BY <1>2
<1>0. b = a + Len(s) /\ b <= N + 1
  OBVIOUS
<1> HIDE DEF l, v, s, N
<1>3. m \in Nat /\ m >= 3 /\ b = a + m + 2 /\ b \in Nat /\ b <= N + 1
  <2> DEFINE x == Len(l)
             y == Len(v)
  <2>1. x \in Nat /\ y \in Nat /\ m = x + y + 3
    BY <1>1
  <2> HIDE DEF x, y, m
  <2>2. m \in Nat /\ m >= 3
    BY <2>1
  <2> QED BY <1>0, <1>2, <2>2
<1>5. Delim # Crlf /\ Dashes # Crlf /\ Dashes # Delim
      /\ \A t \in NameTokens(K) : t # Delim
  <2>1. Delim[1] = "delimiter" /\ Dashes[1] = "--" /\ Crlf[1] = "crlf"
    BY DEF Delim, Dashes, Crlf
  <2>2. \A t \in NameTokens(K) : t[1] \in {"name", "filename"}
    BY DEF NameTokens, Named, Filenamed
  <2> QED BY <2>1, <2>2
<1>6. ASSUME NEW j \in 2 .. m + 2 PROVE s[j] # Delim
  <2>1. CASE j \in {2, Len(l) + 3, Len(l) + 4, m + 2}
    BY <1>2, <1>5, <2>1
  <2>2. CASE j \in 3 .. Len(l) + 2
    <3>1. j - 2 \in 1 .. Len(l) /\ 2 + (j - 2) = j
      BY <1>1, <2>2
    <3>2. s[j] = l[j - 2]
      BY <1>2, <3>1
    <3>3. l[j - 2] \in NameTokens(K)
      BY <1>1, <3>1
    <3> QED BY <1>5, <3>2, <3>3
  <2>3. CASE j \in Len(l) + 5 .. m + 1
    <3> DEFINE i == j - (Len(l) + 4)
    <3>1. i \in 1 .. Len(v) /\ Len(l) + 4 + i = j
      BY <1>1, <2>3
    <3> HIDE DEF i
    <3>2. s[j] = v[i]
      BY <1>2, <3>1
    <3>3. v[i] \in T \ {Delim}
      BY <1>1, <3>1
    <3> QED BY <3>2, <3>3
  <2>4. j \in {2, Len(l) + 3, Len(l) + 4, m + 2} \/ j \in 3 .. Len(l) + 2 \/ j \in Len(l) + 5 .. m + 1
    <3> DEFINE x == Len(l)
               y == Len(v)
    <3>1. x \in Nat /\ y \in Nat /\ m = x + y + 3
      BY <1>1
    <3> HIDE DEF x, y, m
    <3>2. j \in {2, x + 3, x + 4, m + 2} \/ j \in 3 .. x + 2 \/ j \in x + 5 .. m + 1
      BY <3>1
    <3> QED BY <3>2 DEF x
  <2> QED BY <2>1, <2>2, <2>3, <2>4
<1>7. body[a] = Delim /\ body[a + 1] = Crlf /\ a + 1 <= N
  <2>1. 1 \in 1 .. m + 2 /\ 2 \in 1 .. m + 2 /\ a - 1 + 1 = a /\ a - 1 + 2 = a + 1
    BY <1>3
  <2>2. body[a] = s[1] /\ body[a + 1] = s[2]
    BY <1>4, <2>1
  <2> QED BY <1>2, <1>3, <2>2, <1>1
<1>8. \A i \in a + 1 .. b - 1 : body[i] # Delim
  <2> SUFFICES ASSUME NEW i \in a + 1 .. b - 1 PROVE body[i] # Delim
    OBVIOUS
  <2> DEFINE j == i - a + 1
  <2>1. j \in 2 .. m + 2 /\ j \in 1 .. m + 2 /\ a - 1 + j = i
    BY <1>3
  <2> HIDE DEF j
  <2>2. body[i] = s[j]
    BY <1>4, <2>1
  <2> QED BY <1>6, <2>1, <2>2
<1>9. DelimsAt(body, a) # {} /\ FirstAt(body, a) = a + 1
  <2>1. DelimsAt(body, a) = {i \in a .. N : body[i] = Delim}
    BY DEF DelimsAt, Find, N
  <2>2. a \in DelimsAt(body, a) /\ DelimsAt(body, a) \in SUBSET Int
        /\ \A i \in DelimsAt(body, a) : a <= i
    BY <1>1, <1>7, <2>1
  <2>3. Min(DelimsAt(body, a)) = a
    BY <2>2, MinIs
  <2> QED BY <2>2, <2>3 DEF FirstAt
<1>10. StartAt(body, a) = a + 2 /\ FirstAt(body, a) \notin Find(body, Dashes, FirstAt(body, a))
  <2>1. a + 1 \in Find(body, Crlf, a + 1) /\ a + 1 \notin Find(body, Dashes, a + 1)
    BY <1>1, <1>5, <1>7 DEF Find, N
  <2>2. (a + 1) + 1 = a + 2
    OBVIOUS
  <2> QED BY <1>9, <2>1, <2>2 DEF StartAt
<1>11. NoPartAt(body, a) <=> EndsAt(body, a) = {}
  BY <1>9, <1>10 DEF NoPartAt
<1>12. EndsAt(body, a) = {i \in a + 2 .. N : body[i] = Delim}
  BY <1>10 DEF EndsAt, Find, N
<1>13. ASSUME NEW i \in EndsAt(body, a) PROVE i \in Nat /\ b <= i /\ i <= N
  <2>1. i \in a + 2 .. N /\ body[i] = Delim
    BY <1>12
  <2>2. i \notin a + 1 .. b - 1
    BY <1>8, <2>1
  <2> QED BY <1>1, <1>3, <2>1, <2>2
<1>14. CASE b = N + 1
  <2>1. EndsAt(body, a) = {}
    BY <1>1, <1>3, <1>13, <1>14
  <2>2. ~(b <= N)
    BY <1>1, <1>14
  <2> QED BY <1>11, <1>14, <2>1, <2>2 DEF N
<1>15. CASE b # N + 1
  <2>1. b <= N /\ body[b] = Delim
    BY <1>1, <1>3, <1>15 DEF N
  <2>2. b \in EndsAt(body, a)
    <3>1. b \in a + 2 .. N
      BY <1>1, <1>3, <2>1
    <3> QED BY <1>12, <2>1, <3>1
  <2>3. EndsAt(body, a) \in SUBSET Int /\ \A i \in EndsAt(body, a) : b <= i
    BY <1>13
  <2>4. Min(EndsAt(body, a)) = b
    BY <2>2, <2>3, MinIs
  <2> DEFINE c == a + 2
             part == SubSeq(body, c, c + m - 1)
  <2>5. c \in Nat \ {0} /\ m \in Nat /\ c + m <= Len(body) + 1 /\ c + m - 1 = b - 1
    BY <1>1, <1>3, <2>1 DEF N
  <2> HIDE DEF c, m
  <2>6. /\ part \in Seq(Tokens(T, K)) /\ Len(part) = m
        /\ \A j \in 1 .. m : part[j] = body[c - 1 + j]
    BY <2>5, Sliced
  <2> HIDE DEF part
  <2>7. \A j \in 1 .. m : part[j] = s[2 + j]
    <3> SUFFICES ASSUME NEW j \in 1 .. m PROVE part[j] = s[2 + j]
      OBVIOUS
    <3>1. 2 + j \in 1 .. m + 2 /\ a - 1 + (2 + j) = c - 1 + j
      BY <2>5 DEF c
    <3>2. body[a - 1 + (2 + j)] = s[2 + j]
      BY <1>4, <3>1
    <3> QED BY <2>6, <3>1, <3>2
  <2>8. m = Len(l) + Len(v) + 3
    BY DEF m
  <2>9. \A j \in 1 .. Len(l) : part[j] = l[j]
    <3>1. \A j \in 1 .. Len(l) : j \in 1 .. m
      BY <1>1, <2>8
    <3> QED BY <1>2, <2>7, <3>1
  <2>10. part[Len(l) + 1] = Crlf /\ part[Len(l) + 2] = Crlf /\ part[m] = Crlf
    <3>1. Len(l) + 1 \in 1 .. m /\ Len(l) + 2 \in 1 .. m /\ m \in 1 .. m
          /\ 2 + (Len(l) + 1) = Len(l) + 3 /\ 2 + (Len(l) + 2) = Len(l) + 4 /\ 2 + m = m + 2
      BY <1>1, <2>8
    <3>2. part[Len(l) + 1] = s[Len(l) + 3] /\ part[Len(l) + 2] = s[Len(l) + 4] /\ part[m] = s[m + 2]
      BY <2>7, <3>1
    <3> QED BY <1>2, <3>2
  <2>11. \A j \in 1 .. Len(v) : part[Len(l) + 2 + j] = v[j]
    <3> SUFFICES ASSUME NEW j \in 1 .. Len(v) PROVE part[Len(l) + 2 + j] = v[j]
      OBVIOUS
    <3>1. Len(l) + 2 + j \in 1 .. m /\ 2 + (Len(l) + 2 + j) = Len(l) + 4 + j
      BY <1>1, <2>8
    <3>2. part[Len(l) + 2 + j] = s[Len(l) + 4 + j]
      BY <2>7, <3>1
    <3> QED BY <1>2, <3>2
  <2>12. PairOfPart(part) = IF l = <<>> THEN <<>> ELSE <<<<l[1][2], v>>>>
    <3>1. /\ part \in Seq(Tokens(T, K)) /\ l \in Seq(NameTokens(K)) /\ v \in Seq(T \ {Delim})
          /\ Len(part) = Len(l) + Len(v) + 3 /\ part[Len(part)] = Crlf
      BY <1>1, <2>6, <2>8, <2>10
    <3>2. IsPart(part, l, v)
      BY <2>9, <2>10, <2>11, <3>1 DEF IsPart
    <3> QED BY <3>1, <3>2, PairMade
  <2>13. PairAt(body, a) = PairOfPart(part)
    BY <1>10, <2>4, <2>5 DEF PairAt, part, c
  <2>14. EndsAt(body, a) # {}
    BY <2>2
  <2> QED BY <1>11, <1>15, <2>4, <2>12, <2>13, <2>14 DEF l, v, N
<1> QED BY <1>14, <1>15

LEMMA PartsBack ==
  ASSUME NEW T, NEW K, NEW ps \in Seq(Part(T, K)), NEW closed \in BOOLEAN, NEW r,
         r.parts = ps, r.closed = closed
  PROVE  parse_multipart_formdata(EncodeParts(ps) \o Closing(closed)) = NamedParts(r)
<1> DEFINE body == EncodeParts(ps) \o Closing(closed)
           n == Len(ps)
           given == IF closed THEN n ELSE n - 1
           pair(i) == IF ps[i].line = <<>> THEN <<>> ELSE <<<<ps[i].line[1][2], ps[i].value>>>>
           pairs == [i \in 1 .. given |-> pair(i)]
<1>1. n \in Nat /\ \A i \in 1 .. n : ps[i] \in Part(T, K)
  OBVIOUS
<1>2. NamedParts(r) = FlattenSeq(pairs)
  BY DEF NamedParts
<1>3. body \in Seq(Tokens(T, K)) /\ \E at : PartsAt(at, body, ps, closed)
  BY PartsLayout
<1> HIDE DEF body
<1>4. PICK at : PartsAt(at, body, ps, closed)
  BY <1>3
<1>5. PICK from, X : PartsFound(from, X, body)
  BY <1>3, PartUnfolds
<1>6. Len(body) \in Nat
  BY <1>3
<1> HIDE DEF n
<1>7. /\ at \in [1 .. n + 1 -> Nat \ {0}] /\ at[1] = 1
      /\ \A i \in 1 .. n :
           /\ at[i + 1] = at[i] + Len(PartText(ps[i])) /\ at[i + 1] <= Len(body) + 1
           /\ \A j \in 1 .. Len(PartText(ps[i])) : body[at[i] - 1 + j] = PartText(ps[i])[j]
  BY <1>4 DEF PartsAt, n
<1>8. /\ closed => /\ at[n + 1] + 1 <= Len(body)
                   /\ body[at[n + 1]] = Delim /\ body[at[n + 1] + 1] = Dashes
      /\ ~closed => at[n + 1] = Len(body) + 1
  BY <1>4, Zenon DEF PartsAt, n
<1>9. ASSUME NEW i \in 1 .. n + 1, at[i] <= Len(body) PROVE body[at[i]] = Delim
  <2>1. CASE i = n + 1
    <3>1. closed
      BY <1>6, <1>8, <1>9, <2>1
    <3> QED BY <1>8, <2>1, <3>1
  <2>2. CASE i # n + 1
    <3>1. i \in 1 .. n
      BY <1>1, <2>2
    <3>2. IsText(PartText(ps[i]), ps[i])
      BY <1>1, <3>1, PartLayout
    <3>3. PartText(ps[i])[1] = Delim
      BY <3>2 DEF IsText
    <3>4. Len(PartText(ps[i])) \in Nat /\ Len(PartText(ps[i])) >= 1
      BY <1>1, <3>1, TextLength
    <3>5. 1 \in 1 .. Len(PartText(ps[i]))
      BY <3>4
    <3>6. body[at[i] - 1 + 1] = Delim
      BY <1>7, <3>1, <3>3, <3>5
    <3>7. at[i] \in Nat /\ at[i] - 1 + 1 = at[i]
      BY <1>7
    <3> QED BY <3>6, <3>7
  <2> QED BY <2>1, <2>2
<1>10. ASSUME NEW i \in 1 .. n
       PROVE  /\ NoPartAt(body, at[i]) <=> at[i + 1] = Len(body) + 1
              /\ at[i + 1] <= Len(body) =>
                   Min(EndsAt(body, at[i])) = at[i + 1] /\ PairAt(body, at[i]) = pair(i)
              /\ at[i] \in 1 .. Len(body) + 1 /\ at[i + 1] \in 1 .. Len(body) + 1
  <2>1. i + 1 \in 1 .. n + 1 /\ i \in 1 .. n + 1
    BY <1>1
  <2>2. at[i] \in Nat \ {0} /\ at[i + 1] \in Nat \ {0}
    BY <1>7, <2>1
  <2> DEFINE a == at[i]
             b == at[i + 1]
             p == ps[i]
  <2>3. /\ a \in Nat \ {0} /\ p \in Part(T, K) /\ b = a + Len(PartText(p)) /\ b <= Len(body) + 1
        /\ \A j \in 1 .. Len(PartText(p)) : body[a - 1 + j] = PartText(p)[j]
        /\ b <= Len(body) => body[b] = Delim
    BY <1>1, <1>7, <1>9, <2>1, <2>2
  <2> HIDE DEF a, b, p
  <2>4. /\ NoPartAt(body, a) <=> b = Len(body) + 1
        /\ b <= Len(body) =>
             /\ Min(EndsAt(body, a)) = b
             /\ PairAt(body, a) = IF p.line = <<>> THEN <<>> ELSE <<<<p.line[1][2], p.value>>>>
    BY <1>3, <2>3, PartAhead
  <2>5. Len(PartText(p)) \in Nat
    <3>1. PartText(p) \in Seq(Tokens(T, K))
      BY <2>3, PartLayout
    <3> QED BY <3>1
  <2>6. a \in 1 .. Len(body) + 1 /\ b \in 1 .. Len(body) + 1
    BY <1>6, <2>2, <2>3, <2>5 DEF b
  <2> QED BY <2>4, <2>6 DEF a, b, p
<1>11. /\ from \in [1 .. Len(body) + 1 -> Seq(X)]
       /\ parse_multipart_formdata(body) = from[1]
       /\ \A q \in 1 .. Len(body) + 1 :
            /\ from[q] = IF NoPartAt(body, q) THEN <<>>
                           ELSE PairAt(body, q) \o from[Min(EndsAt(body, q))]
            /\ ~NoPartAt(body, q) => PairAt(body, q) \in Seq(X)
  BY <1>5 DEF PartsFound
<1>12. given \in Nat \cup {-1} /\ (closed => given = n) /\ (~closed => given = n - 1)
  BY <1>1
<1> HIDE DEF given, pair
<1>13. ASSUME NEW i \in 1 .. given
       PROVE  /\ i \in 1 .. n
              /\ from[at[i]] = pair(i) \o from[at[i + 1]]
              /\ pair(i) \in Seq(X)
  <2>1. i \in 1 .. n /\ i + 1 \in 1 .. n + 1 /\ (~closed => i + 1 \in 1 .. n)
    BY <1>1, <1>12
  <2>2. at[i + 1] <= Len(body)
    <3>1. at[i + 1] \in Nat \ {0}
      BY <1>7, <2>1
    <3>2. CASE i + 1 \in 1 .. n
      <4>1. at[i + 2] <= Len(body) + 1 /\ at[i + 2] = at[i + 1] + Len(PartText(ps[i + 1]))
        <5>1. (i + 1) + 1 = i + 2
          OBVIOUS
        <5> QED BY <1>7, <3>2, <5>1
      <4>2. Len(PartText(ps[i + 1])) \in Nat /\ Len(PartText(ps[i + 1])) >= 1
        BY <1>1, <3>2, TextLength
      <4> QED BY <1>6, <3>1, <4>1, <4>2
    <3>3. CASE i + 1 \notin 1 .. n
      <4>1. closed /\ i + 1 = n + 1
        BY <1>1, <2>1, <3>3
      <4>2. at[n + 1] + 1 <= Len(body)
        BY <1>8, <4>1
      <4> QED BY <1>6, <3>1, <4>1, <4>2
    <3> QED BY <3>2, <3>3
  <2>3. ~(at[i + 1] = Len(body) + 1)
    BY <1>6, <1>10, <2>1, <2>2
  <2>4. ~NoPartAt(body, at[i]) /\ Min(EndsAt(body, at[i])) = at[i + 1]
        /\ PairAt(body, at[i]) = pair(i) /\ at[i] \in 1 .. Len(body) + 1
    BY <1>10, <2>1, <2>2, <2>3
  <2> QED BY <1>11, <2>1, <2>4
<1>14. given # -1 => at[given + 1] \in 1 .. Len(body) + 1 /\ from[at[given + 1]] = <<>>
  <2> SUFFICES ASSUME given # -1
               PROVE  at[given + 1] \in 1 .. Len(body) + 1 /\ from[at[given + 1]] = <<>>
    OBVIOUS
  <2>1. CASE closed
    <3> DEFINE a == at[n + 1]
    <3>1. given + 1 = n + 1 /\ n + 1 \in 1 .. n + 1
      BY <1>1, <1>12, <2>1
    <3>2. a \in Nat \ {0} /\ a + 1 <= Len(body) /\ body[a] = Delim /\ body[a + 1] = Dashes
      BY <1>7, <1>8, <2>1, <3>1
    <3> HIDE DEF a
    <3>3. a \in DelimsAt(body, a) /\ DelimsAt(body, a) \in SUBSET Int
          /\ \A i \in DelimsAt(body, a) : a <= i
      BY <1>6, <3>2 DEF DelimsAt, Find
    <3>4. Min(DelimsAt(body, a)) = a
      BY <3>3, MinIs
    <3>5. FirstAt(body, a) = a + 1
      BY <3>4 DEF FirstAt
    <3>6. a + 1 \in Find(body, Dashes, a + 1)
      BY <1>6, <3>2 DEF Find
    <3>7. NoPartAt(body, a) /\ a \in 1 .. Len(body) + 1
      BY <1>6, <3>2, <3>5, <3>6 DEF NoPartAt
    <3>8. from[a] = <<>>
      BY <1>11, <3>7
    <3> QED BY <3>1, <3>7, <3>8 DEF a
  <2>2. CASE ~closed
    <3>1. n \in 1 .. n /\ given + 1 = n
      BY <1>1, <1>12, <2>2
    <3>2. at[n + 1] = Len(body) + 1
      BY <1>8, <2>2
    <3>3. NoPartAt(body, at[n]) /\ at[n] \in 1 .. Len(body) + 1
      BY <1>10, <3>1, <3>2
    <3> QED BY <1>11, <3>1, <3>3
  <2> QED BY <2>1, <2>2
<1>15. CASE given # -1
  <2> DEFINE g == [i \in 1 .. given + 1 |-> from[at[i]]]
  <2>1. given \in Nat /\ pairs \in Seq(Seq(X)) /\ Len(pairs) = given
        /\ \A i \in 1 .. given : pairs[i] = pair(i)
    BY <1>12, <1>13, <1>15
  <2>2. ASSUME NEW i \in 1 .. given + 1 PROVE at[i] \in 1 .. Len(body) + 1
    <3>1. i \in 1 .. given \/ i = given + 1
      BY <2>1
    <3> QED BY <1>10, <1>13, <1>14, <1>15, <3>1
  <2>3. g \in [1 .. given + 1 -> Seq(X)]
    BY <1>11, <2>2
  <2>4. given + 1 \in 1 .. given + 1 /\ 1 \in 1 .. given + 1
        /\ \A i \in 1 .. given : i \in 1 .. given + 1 /\ i + 1 \in 1 .. given + 1
    BY <2>1
  <2>5. g[given + 1] = <<>> /\ g[1] = from[1]
    BY <1>7, <1>14, <1>15, <2>4
  <2>6. \A i \in 1 .. given : g[i] = pairs[i] \o g[i + 1]
    BY <1>13, <2>1, <2>4
  <2> HIDE DEF g, pairs
  <2>7. FlattenSeq(pairs) = g[1]
    <3>1. /\ pairs \in Seq(Seq(X)) /\ g \in [1 .. Len(pairs) + 1 -> Seq(X)]
          /\ g[Len(pairs) + 1] = <<>>
          /\ \A i \in 1 .. Len(pairs) : g[i] = pairs[i] \o g[i + 1]
      BY <2>1, <2>3, <2>5, <2>6
    <3> QED BY <3>1, FlattenBack
  <2> QED BY <1>2, <1>11, <2>5, <2>7 DEF body
<1>16. CASE given = -1
  <2>1. ~closed /\ n = 0
    BY <1>1, <1>12, <1>16
  <2>2. Len(body) = 0
    BY <1>6, <1>7, <1>8, <2>1
  <2>3. DelimsAt(body, 1) = {}
    BY <2>2 DEF DelimsAt, Find
  <2>4. from[1] = <<>>
    <3>1. NoPartAt(body, 1) /\ 1 \in 1 .. Len(body) + 1
      BY <2>2, <2>3 DEF NoPartAt
    <3> QED BY <1>11, <3>1
  <2>5. pairs = <<>>
    <3>1. 1 .. given = {}
      BY <1>16
    <3> QED BY <3>1
  <2>6. FlattenSeq(<<>>) = <<>>
    BY DEF FlattenSeq
  <2> QED BY <1>2, <1>11, <2>4, <2>5, <2>6 DEF body
<1> QED BY <1>15, <1>16
-----------------------------------------------------------------------------
(* Requests. *)

(* consume_form_body looks for JSON after all else. *)
SaysJson == ~Mentions({"urlencoded", "multipart?"} \cup Bounded) /\ Mentions({"json"})

(* The request is one that is tried, and what was parsed is its texts. *)
FormInv ==
  /\ \E h \in Heads : start = h.start /\ lines = h.lines /\ form_body \in Bodies[h]
  /\ stage = "headers" \/ Parsed => from_url_params = filled_params_query(start.query)
  /\ stage = "UrlDecodingError" =>
       Undecodable(start.query) \/ Undecodable(TextAs("urlencoded"))
  /\ stage = "finished" /\ Mentions({"urlencoded"}) =>
       from_form = filled_params_query(TextAs("urlencoded"))
  /\ stage = "finished" /\ ~Mentions({"urlencoded"}) /\ Mentions(Bounded) /\ BoundaryKnown =>
       from_form = parse_multipart_formdata(TextAs("multipart"))
  /\ stage = "finished" /\ SaysJson /\ form_body.kind = "json" =>
       from_form = json_to_multimap(form_body.text)

LEMMA FormInit == RequestInit => FormInv
BY DEF RequestInit, FormInv, Parsed

(* What is asked of the headers does not change when they do not. *)
LEMMA SameHeaders ==
  ASSUME UNCHANGED <<headers, lines, form_body>>
  PROVE  /\ Mentions({"urlencoded"})' <=> Mentions({"urlencoded"})
         /\ Mentions(Bounded)' <=> Mentions(Bounded)
         /\ BoundaryKnown' <=> BoundaryKnown
         /\ SaysJson' <=> SaysJson
         /\ TextAs("urlencoded")' = TextAs("urlencoded")
         /\ TextAs("multipart")' = TextAs("multipart")
BY DEF Mentions, Bounded, BoundaryKnown, SaysJson, ValuesOf, TextAs

LEMMA FormNext == FormInv /\ [RequestNext]_requestVars => FormInv'
<1> SUFFICES ASSUME FormInv, [RequestNext]_requestVars PROVE FormInv'
  OBVIOUS
<1>1. UNCHANGED <<start, lines, form_body>>
  BY DEF RequestNext, StartLine, HeaderLines, HeadersEnd, consume_form_body, HeadStep, Continuation,
         Malformed, HeaderLine, NextLine, LoopEnds, requestVars, headVars
<1>2. (\E h \in Heads : start = h.start /\ lines = h.lines /\ form_body \in Bodies[h])'
  BY <1>1 DEF FormInv
<1>3. TextAs("urlencoded")' = TextAs("urlencoded")
  BY <1>1 DEF TextAs
<1>4. CASE StartLine
  <2>1. stage' \in {"HttpRequestParseError", "UrlDecodingError", "headers"}
    BY <1>4 DEF StartLine
  <2>2. stage' = "UrlDecodingError" => Undecodable(start.query)
    BY <1>4 DEF StartLine
  <2>3. stage' = "headers" => from_url_params' = filled_params_query(start.query)
    BY <1>4 DEF StartLine
  <2> QED BY <1>1, <1>2, <2>1, <2>2, <2>3 DEF FormInv, Parsed
<1>5. CASE HeaderLines
  <2>1. stage = "headers" /\ stage' = "headers" /\ from_url_params' = from_url_params
    BY <1>5 DEF HeaderLines
  <2> QED BY <1>1, <1>2, <2>1 DEF FormInv, Parsed
<1>6. CASE HeadersEnd
  <2>1. stage = "headers" /\ stage' \in {"HttpRequestParseError", "parsed"}
        /\ from_url_params' = from_url_params
    BY <1>6 DEF HeadersEnd
  <2> QED BY <1>1, <1>2, <2>1 DEF FormInv, Parsed
<1>7. CASE consume_form_body
  <2>1. /\ stage = "parsed" /\ from_url_params' = from_url_params
        /\ UNCHANGED <<headers, lines, form_body>>
    BY <1>7 DEF consume_form_body, headVars
  <2>2. stage' \in {"finished", "UrlDecodingError", "FailedParseForm", "RequestJsonParseFailed"}
    BY <1>7 DEF consume_form_body, Refused, FormAs
  <2>3. Mentions({"urlencoded"}) => Mentions({"urlencoded", "multipart?"} \cup Bounded)
    BY DEF Mentions
  <2>4. Mentions(Bounded) => /\ Mentions(Bounded \cup {"multipart?"})
                             /\ Mentions({"urlencoded", "multipart?"} \cup Bounded)
    BY DEF Mentions
  <2>5. CASE Mentions({"urlencoded"})
    <3>1. IF Undecodable(TextAs("urlencoded")) THEN Refused("UrlDecodingError")
          ELSE FormAs(filled_params_query(TextAs("urlencoded")))
      BY <1>7, <2>3, <2>5 DEF consume_form_body
    <3>2. /\ stage' = "UrlDecodingError" => Undecodable(TextAs("urlencoded"))
          /\ stage' = "finished" => from_form' = filled_params_query(TextAs("urlencoded"))
      BY <3>1 DEF Refused, FormAs
    <3>3. Mentions({"urlencoded"})' /\ ~SaysJson'
      BY <2>1, <2>3, <2>5, SameHeaders DEF SaysJson
    <3> QED BY <1>1, <1>2, <1>3, <2>1, <2>2, <3>2, <3>3 DEF FormInv, Parsed
  <2>6. CASE ~Mentions({"urlencoded"}) /\ Mentions(Bounded)
    <3>1. FormAs(IF BoundaryKnown THEN parse_multipart_formdata(TextAs("multipart")) ELSE <<>>)
      BY <1>7, <2>4, <2>6 DEF consume_form_body
    <3>2. /\ stage' = "finished"
          /\ BoundaryKnown => from_form' = parse_multipart_formdata(TextAs("multipart"))
      BY <3>1 DEF FormAs
    <3>3. ~Mentions({"urlencoded"})' /\ (BoundaryKnown' <=> BoundaryKnown) /\ ~SaysJson'
          /\ TextAs("multipart")' = TextAs("multipart")
      BY <2>1, <2>4, <2>6, SameHeaders DEF SaysJson
    <3> QED BY <1>1, <1>2, <2>1, <3>2, <3>3 DEF FormInv, Parsed
  <2>7. CASE ~Mentions({"urlencoded"}) /\ ~Mentions(Bounded)
    <3>1. ~Mentions({"urlencoded"})' /\ ~Mentions(Bounded)'
      BY <2>1, <2>7, SameHeaders
    <3>2. stage' # "UrlDecodingError"
      BY <1>7, <2>7 DEF consume_form_body, Refused, FormAs
    <3>3. stage' = "finished" /\ SaysJson' /\ form_body.kind = "json" =>
            from_form' = json_to_multimap(form_body.text)
      <4>1. SaysJson' <=> SaysJson
        BY <2>1, SameHeaders
      <4>2. SaysJson => ~Mentions(Bounded \cup {"multipart?"})
        BY DEF SaysJson, Mentions
      <4>3. SaysJson /\ form_body.kind = "json" => FormAs(json_to_multimap(form_body.text))
        BY <1>7, <2>7, <4>2 DEF consume_form_body, SaysJson
      <4> QED BY <4>1, <4>3 DEF FormAs
    <3> QED BY <1>1, <1>2, <2>1, <2>2, <3>1, <3>2, <3>3 DEF FormInv, Parsed
  <2> QED BY <2>5, <2>6, <2>7
<1>8. CASE UNCHANGED requestVars
  <2>1. UNCHANGED <<headers, lines, form_body, start, stage, from_url_params, from_form>>
    BY <1>8 DEF requestVars, headVars
  <2>2. /\ Mentions({"urlencoded"})' <=> Mentions({"urlencoded"})
        /\ Mentions(Bounded)' <=> Mentions(Bounded)
        /\ BoundaryKnown' <=> BoundaryKnown
        /\ SaysJson' <=> SaysJson
        /\ TextAs("multipart")' = TextAs("multipart")
    BY <2>1, SameHeaders
  <2> QED BY <1>2, <1>3, <2>1, <2>2 DEF FormInv, Parsed
<1> QED BY <1>4, <1>5, <1>6, <1>7, <1>8 DEF RequestNext

LEMMA FormInvariant == RequestSpec => [](HeadInv /\ StageInv /\ FormInv)
BY StageInvariant, FormInit, FormNext, PTL DEF RequestSpec

(* A line of the head that says what the content is counts. *)
LEMMA Mentioned ==
  ASSUME HeadInv, pos = Len(lines), NEW i \in DOMAIN lines,
         lines[i].key = "content-type", ~lines[i].lead
  PROVE  Mentions({lines[i].value})
<1>1. lines \in Seq(Line)
  BY DEF HeadInv, HeadTypeOK
<1>2. i \in 1 .. pos
  BY <1>1
<1>3. "content-type" \in Keys /\ NoColon # "content-type"
  BY RequestAssumption, HeadAssumption
<1>4. KeptIn("content-type", i)
  BY <1>2, <1>3 DEF HeadInv, HeaderLinesKept
<1>5. PICK n \in DOMAIN headers["content-type"] : headers["content-type"][n] = i
  BY <1>4 DEF KeptIn
<1>6. ValuesOf("content-type")[n] = lines[i].value
  BY <1>5 DEF ValuesOf
<1> QED BY <1>5, <1>6 DEF Mentions

(* Whatever fields a query or an urlencoded form was made from, and however
   many: if it can be decoded the request has these fields, in their order,
   with every "&" and "=" that was escaped in its place. *)
THEOREM FieldsAreParsed ==
  ASSUME NEW T, QueriesFrom(T)
  PROVE  RequestSpec => []QueryParsed
<1>1. HeadInv /\ StageInv /\ FormInv => QueryParsed
  <2> SUFFICES ASSUME HeadInv, StageInv, FormInv PROVE QueryParsed
    OBVIOUS
  <2>1. PICK h \in Heads : start = h.start /\ lines = h.lines /\ form_body \in Bodies[h]
    BY DEF FormInv
  <2>2. start.fields \in Seq(Field(T)) /\ start.query = EncodeFields(start.fields)
    BY <2>1 DEF QueriesFrom
  <2>3. Parsed => from_url_params = Meant(start.fields)
    BY <2>2, FieldsBack DEF FormInv
  <2>4. ASSUME stage = "finished", form_body.kind = "urlencoded"
        PROVE  from_form = Meant(form_body.fields)
    <3>1. /\ form_body.fields \in Seq(Field(T)) /\ form_body.text = EncodeFields(form_body.fields)
          /\ \E i \in DOMAIN lines : /\ lines[i].key = "content-type" /\ ~lines[i].lead
                                     /\ lines[i].value = "urlencoded"
      BY <2>1, <2>4 DEF QueriesFrom
    <3>2. pos = Len(lines)
      BY <2>4 DEF StageInv, Parsed
    <3>3. Mentions({"urlencoded"})
      BY <3>1, <3>2, Mentioned
    <3>4. from_form = filled_params_query(TextAs("urlencoded"))
      BY <2>4, <3>3 DEF FormInv
    <3>5. TextAs("urlencoded") = EncodeFields(form_body.fields)
      BY <2>4, <3>1 DEF TextAs
    <3> QED BY <3>1, <3>4, <3>5, FieldsBack
  <2> QED BY <2>3, <2>4 DEF QueryParsed, FormInv
<1> QED BY <1>1, FormInvariant, PTL

(* Whatever parts a multipart body was made from, and however many: with the
   boundary at the end of the header the form has the parts with a name, each
   value byte by byte, but not the last one if no delimiter follows it. *)
THEOREM PartsAreParsed ==
  ASSUME NEW T, NEW K, PartsFrom(T, K)
  PROVE  RequestSpec => []PartsParsed
<1>1. HeadInv /\ StageInv /\ FormInv => PartsParsed
  <2> SUFFICES ASSUME HeadInv, StageInv, FormInv, stage = "finished", form_body.kind = "multipart",
                      Len(headers["content-type"]) = 1, BoundaryKnown
               PROVE  from_form = NamedParts(form_body)
    BY DEF PartsParsed
  <2>1. PICK h \in Heads : start = h.start /\ lines = h.lines /\ form_body \in Bodies[h]
    BY DEF FormInv
  <2>2. /\ form_body.parts \in Seq(Part(T, K)) /\ form_body.closed \in BOOLEAN
        /\ form_body.text = EncodeParts(form_body.parts) \o Closing(form_body.closed)
    BY <2>1 DEF PartsFrom
  <2> DEFINE v == ValuesOf("content-type")
  <2>3. DOMAIN headers["content-type"] = {1} /\ Len(v) = 1
    <3>1. headers["content-type"] \in Seq(1 .. Len(lines))
      BY RequestAssumption DEF HeadInv, HeadTypeOK
    <3>2. DOMAIN headers["content-type"] = 1 .. 1
      BY <3>1
    <3>3. v = [i \in 1 .. 1 |-> v[i]]
      BY <3>2 DEF ValuesOf
    <3> QED BY <3>2, <3>3
  <2>4. v[1] = "multipart"
    BY <2>3 DEF BoundaryKnown
  <2>5. ~Mentions({"urlencoded"}) /\ Mentions(Bounded)
    BY <2>3, <2>4 DEF Mentions, Bounded
  <2>6. from_form = parse_multipart_formdata(TextAs("multipart"))
    BY <2>5 DEF FormInv
  <2>7. TextAs("multipart") = form_body.text
    BY DEF TextAs
  <2> QED BY <2>2, <2>6, <2>7, PartsBack
<1> QED BY <1>1, FormInvariant, PTL
=============================================================================
