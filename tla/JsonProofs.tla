----------------------------- MODULE JsonProofs -----------------------------
(***************************************************************************)
(* For JSON objects of any depth: the form has every leaf once.            *)
(*                                                                         *)
(* The two recursive functions, the one of the code and the reference that *)
(* collects the leaves, exist and are unfolded by induction on the depth   *)
(* of the object.  What is proved of an object, from what is known of the  *)
(* objects in it, is a bijection: the pairs of the form correspond one to  *)
(* one to the texts of the leaves.  That it is one, although the pairs of  *)
(* different leaves may be equal, gives the multiplicities.                *)
(***************************************************************************)
EXTENDS FormProofs

(* The members of s are the values under val of the members of A, each once. *)
Matches(s, A, val) ==
  \E b \in [1 .. Len(s) -> A] :
    /\ \A m, n \in 1 .. Len(s) : b[m] = b[n] => m = n
    /\ \A a \in A : \E n \in 1 .. Len(s) : b[n] = a
    /\ \A n \in 1 .. Len(s) : s[n] = val[b[n]]

LEMMA MatchNothing == ASSUME NEW val PROVE Matches(<<>>, {}, val)
<1> DEFINE b == [n \in 1 .. 0 |-> n]
<1>1. b \in [1 .. 0 -> {}] /\ Len(<<>>) = 0 /\ \A n \in 1 .. 0 : FALSE
  OBVIOUS
<1> QED BY <1>1, Zenon DEF Matches

LEMMA MatchJoin ==
  ASSUME NEW T, NEW s \in Seq(T), NEW t \in Seq(T), NEW A, NEW B, A \cap B = {}, NEW val,
         Matches(s, A, val), Matches(t, B, val)
  PROVE  Matches(s \o t, A \cup B, val)
<1> DEFINE L == Len(s)
           M == Len(t)
           u == s \o t
<1>1. /\ u \in Seq(T) /\ Len(u) = L + M /\ L \in Nat /\ M \in Nat
      /\ \A k \in 1 .. L : u[k] = s[k]
      /\ \A k \in 1 .. M : u[L + k] = t[k]
  BY Concatenated
<1>2. PICK b \in [1 .. L -> A] :
        /\ \A m, n \in 1 .. L : b[m] = b[n] => m = n
        /\ \A a \in A : \E n \in 1 .. L : b[n] = a
        /\ \A n \in 1 .. L : s[n] = val[b[n]]
  BY DEF Matches
<1>3. PICK c \in [1 .. M -> B] :
        /\ \A m, n \in 1 .. M : c[m] = c[n] => m = n
        /\ \A a \in B : \E n \in 1 .. M : c[n] = a
        /\ \A n \in 1 .. M : t[n] = val[c[n]]
  BY DEF Matches
<1> HIDE DEF L, M, u
<1> DEFINE d == [n \in 1 .. L + M |-> IF n <= L THEN b[n] ELSE c[n - L]]
<1>4. ASSUME NEW n \in 1 .. L + M
      PROVE  \/ n \in 1 .. L /\ n <= L /\ d[n] = b[n] /\ d[n] \in A /\ d[n] \notin B
             \/ n - L \in 1 .. M /\ ~(n <= L) /\ n = L + (n - L) /\ d[n] = c[n - L] /\ d[n] \in B /\ d[n] \notin A
  <2>1. \/ n \in 1 .. L /\ n <= L
        \/ n - L \in 1 .. M /\ ~(n <= L) /\ n = L + (n - L)
    BY <1>1
  <2>2. CASE n \in 1 .. L /\ n <= L
    <3>1. d[n] = b[n] /\ b[n] \in A
      BY <2>2
    <3> HIDE DEF d
    <3> QED BY <2>2, <3>1
  <2>3. CASE n - L \in 1 .. M /\ ~(n <= L) /\ n = L + (n - L)
    <3>1. d[n] = c[n - L] /\ c[n - L] \in B
      BY <2>3
    <3> HIDE DEF d
    <3> QED BY <2>3, <3>1
  <2> QED BY <2>1, <2>2, <2>3
<1>5. /\ \A n \in 1 .. L : n \in 1 .. L + M /\ d[n] = b[n]
      /\ \A n \in 1 .. M : L + n \in 1 .. L + M /\ d[L + n] = c[n]
  <2>1. \A n \in 1 .. L : n \in 1 .. L + M /\ n <= L
    BY <1>1
  <2>2. \A n \in 1 .. M : L + n \in 1 .. L + M /\ ~(L + n <= L) /\ (L + n) - L = n
    BY <1>1
  <2> QED BY <2>1, <2>2
<1>6. d = [n \in 1 .. L + M |-> d[n]]
  OBVIOUS
<1> HIDE DEF d
<1>7. d \in [1 .. L + M -> A \cup B]
  BY <1>4, <1>6
<1>8. ASSUME NEW m \in 1 .. L + M, NEW n \in 1 .. L + M, d[m] = d[n] PROVE m = n
  BY <1>1, <1>2, <1>3, <1>4, <1>8
<1>9. ASSUME NEW a \in A \cup B PROVE \E n \in 1 .. L + M : d[n] = a
  BY <1>2, <1>3, <1>5
<1>10. ASSUME NEW n \in 1 .. L + M PROVE u[n] = val[d[n]]
  <2>1. CASE n \in 1 .. L /\ d[n] = b[n]
    BY <1>1, <1>2, <2>1
  <2>2. CASE n - L \in 1 .. M /\ n = L + (n - L) /\ d[n] = c[n - L]
    BY <1>1, <1>3, <2>2
  <2> QED BY <1>4, <2>1, <2>2
<1>11. Matches(u, A \cup B, val)
  <2>1. 1 .. Len(u) = 1 .. L + M
    BY <1>1
  <2>2. /\ d \in [1 .. Len(u) -> A \cup B]
        /\ \A m, n \in 1 .. Len(u) : d[m] = d[n] => m = n
        /\ \A a \in A \cup B : \E n \in 1 .. Len(u) : d[n] = a
        /\ \A n \in 1 .. Len(u) : u[n] = val[d[n]]
    BY <1>7, <1>8, <1>9, <1>10, <2>1
  <2> QED BY <2>2, Zenon DEF Matches
<1> QED BY <1>11 DEF u

LEMMA MatchMap ==
  ASSUME NEW s, NEW A, NEW B, NEW val, NEW w, NEW m, m \in [A -> B],
         \A x, y \in A : m[x] = m[y] => x = y, \A z \in B : \E x \in A : m[x] = z,
         \A x \in A : w[m[x]] = val[x],
         Matches(s, A, val)
  PROVE  Matches(s, B, w)
<1> DEFINE N == 1 .. Len(s)
<1>1. PICK b \in [N -> A] :
        /\ \A i, n \in N : b[i] = b[n] => i = n
        /\ \A a \in A : \E n \in N : b[n] = a
        /\ \A n \in N : s[n] = val[b[n]]
  BY DEF Matches
<1> DEFINE c == [n \in N |-> m[b[n]]]
<1>2. c \in [N -> B] /\ \A n \in N : b[n] \in A /\ c[n] = m[b[n]]
  BY <1>1
<1> HIDE DEF N, c
<1>3. ASSUME NEW i \in N, NEW n \in N, c[i] = c[n] PROVE i = n
  BY <1>1, <1>2, <1>3
<1>4. ASSUME NEW z \in B PROVE \E n \in N : c[n] = z
  BY <1>1, <1>2
<1>5. ASSUME NEW n \in N PROVE s[n] = w[c[n]]
  BY <1>1, <1>2
<1> QED BY <1>2, <1>3, <1>4, <1>5 DEF Matches, N

LEMMA MatchFlatten ==
  ASSUME NEW T, NEW seqs \in Seq(Seq(T)), NEW A, NEW val,
         \A i \in 1 .. Len(seqs) : Matches(seqs[i], A[i], val),
         \A i, j \in 1 .. Len(seqs) : i # j => A[i] \cap A[j] = {}
  PROVE  Matches(FlattenSeq(seqs), UNION {A[i] : i \in 1 .. Len(seqs)}, val)
<1> DEFINE N == Len(seqs)
<1>1. PICK F : Joined(F, T, seqs) /\ FlattenSeq(seqs) = F[N]
  BY Flattened
<1>2. N \in Nat /\ \A i \in 1 .. N : seqs[i] \in Seq(T)
  OBVIOUS
<1>3. F \in [0 .. N -> Seq(T)] /\ F[0] = <<>> /\ \A i \in 1 .. N : F[i] = F[i-1] \o seqs[i]
  BY <1>1 DEF Joined
<1> HIDE DEF N
<1> DEFINE U(n) == UNION {A[i] : i \in 1 .. n}
           S == {n \in Nat : n <= N => Matches(F[n], U(n), val)}
<1>4. 0 \in S
  <2>1. U(0) = {}
    OBVIOUS
  <2> HIDE DEF U
  <2> QED BY <1>3, <2>1, MatchNothing
<1>5. ASSUME NEW n \in Nat, n \in S PROVE n + 1 \in S
  <2> SUFFICES ASSUME n + 1 <= N PROVE Matches(F[n + 1], U(n + 1), val)
    <3> HIDE DEF U
    <3> QED OBVIOUS
  <2>1. n + 1 \in 1 .. N /\ n \in 0 .. N /\ n <= N /\ (n + 1) - 1 = n
    BY <1>2
  <2>2. U(n + 1) = U(n) \cup A[n + 1]
    <3>1. 1 .. n + 1 = 1 .. n \cup {n + 1}
      OBVIOUS
    <3> QED BY <3>1
  <2>3. U(n) \cap A[n + 1] = {}
    <3>1. ASSUME NEW i \in 1 .. n PROVE A[i] \cap A[n + 1] = {}
      <4>1. i \in 1 .. N /\ i # n + 1
        BY <1>2, <2>1
      <4> QED BY <2>1, <4>1 DEF N
    <3> QED BY <3>1
  <2>4. F[n + 1] = F[n] \o seqs[n + 1]
    BY <1>3, <2>1
  <2>5. F[n] \in Seq(T) /\ seqs[n + 1] \in Seq(T)
    BY <1>2, <1>3, <2>1
  <2>6. Matches(F[n], U(n), val) /\ Matches(seqs[n + 1], A[n + 1], val)
    <3> HIDE DEF U
    <3> QED BY <1>5, <2>1 DEF N
  <2> HIDE DEF U
  <2>7. Matches(F[n] \o seqs[n + 1], U(n) \cup A[n + 1], val)
    BY <2>3, <2>5, <2>6, MatchJoin
  <2> QED BY <2>2, <2>4, <2>7
<1>6. N \in S
  <2> HIDE DEF S
  <2> QED BY <1>2, <1>4, <1>5, SetInduction
<1>7. Matches(F[N], U(N), val)
  <2> HIDE DEF U
  <2> QED BY <1>2, <1>6
<1> QED BY <1>1, <1>7 DEF N

At(s, p) == {n \in DOMAIN s : s[n] = p}

With(A, val, p) == {a \in A : val[a] = p}

(* What matches has every value as often as it is one of a member of A. *)
LEMMA MatchCount ==
  ASSUME NEW T, NEW s \in Seq(T), NEW A, NEW val, Matches(s, A, val), NEW p
  PROVE  Cardinality(At(s, p)) = Cardinality(With(A, val, p))
<1> DEFINE N == 1 .. Len(s)
           P == {n \in N : s[n] = p}
           Q == {a \in A : val[a] = p}
<1>1. PICK b \in [N -> A] :
        /\ \A i, n \in N : b[i] = b[n] => i = n
        /\ \A a \in A : \E n \in N : b[n] = a
        /\ \A n \in N : s[n] = val[b[n]]
  BY DEF Matches
<1>2. IsFiniteSet(P)
  <2>1. IsFiniteSet(N)
    BY FS_Interval
  <2> QED BY <2>1, FS_Subset
<1> DEFINE c == [n \in P |-> b[n]]
<1>3. c \in Bijection(P, Q)
  <2>1. c \in [P -> Q]
    BY <1>1
  <2>2. \A i, n \in P : c[i] = c[n] => i = n
    BY <1>1
  <2>3. \A a \in Q : \E n \in P : c[n] = a
    BY <1>1
  <2> HIDE DEF P, Q, c
  <2> QED BY <2>1, <2>2, <2>3 DEF Bijection, Injection, Surjection, IsInjective
<1>4. ExistsBijection(P, Q)
  <2> HIDE DEF P, Q, c
  <2> QED BY <1>3 DEF ExistsBijection
<1>5. Cardinality(P) = Cardinality(Q)
  <2> HIDE DEF P, Q
  <2> QED BY <1>2, <1>4, FS_Bijection
<1>6. At(s, p) = P /\ With(A, val, p) = Q
  BY DEF At, With
<1> QED BY <1>5, <1>6

-----------------------------------------------------------------------------
(* The two recursive functions over objects, one step of each. *)

FlatAt(f, j) ==
  [prefix \in Seq(Names) |->
    FlattenSeq([i \in DOMAIN j.members |->
      LET key == MakeKey(prefix, j.members[i].name)
          val == j.members[i].value
      IN  IF val.kind = "object" THEN f[val][key] ELSE Keyed(key, MemberTexts(val))])]

LeavesIn(f, j, i) ==
  LET m == j.members[i] IN
  IF m.value.kind = "object"
  THEN {[path |-> <<i>> \o l.path, key |-> m.name \o l.key, value |-> l.value] : l \in f[m.value]}
  ELSE {[path |-> <<i>>, key |-> m.name, value |-> m.value]}

LeavesAt(f, j) == UNION {LeavesIn(f, j, i) : i \in DOMAIN j.members}

LEMMA MemberTyped ==
  ASSUME NEW depth, NEW D \in Nat, JsonFrom(depth, D), NEW j \in JsonObjects
  PROVE  /\ depth[j] \in Nat /\ depth[j] <= D
         /\ Len(j.members) \in Nat /\ DOMAIN j.members = 1 .. Len(j.members)
         /\ \A i \in DOMAIN j.members :
              /\ j.members[i].name \in Seq(Names) /\ j.members[i].value \in Json
              /\ j.members[i].value.kind = "object" =>
                   /\ j.members[i].value \in JsonObjects
                   /\ depth[j.members[i].value] \in Nat
                   /\ depth[j.members[i].value] < depth[j]
<1>1. j.members \in Seq([name : Seq(Names), value : Json])
  BY DEF JsonFrom
<1>2. \A o \in JsonObjects : depth[o] \in Nat /\ depth[o] <= D
  <2>1. depth \in [JsonObjects -> 0 .. D]
    BY DEF JsonFrom
  <2> QED BY <2>1
<1>3. Len(j.members) \in Nat /\ DOMAIN j.members = 1 .. Len(j.members)
  BY <1>1
<1>4. ASSUME NEW i \in DOMAIN j.members
      PROVE  j.members[i].name \in Seq(Names) /\ j.members[i].value \in Json
  <2> DEFINE R == [name : Seq(Names), value : Json]
             s == j.members
  <2>1. s[i] \in R
    <3>1. s \in Seq(R) /\ i \in 1 .. Len(s)
      BY <1>1, <1>3
    <3> HIDE DEF s, R
    <3> QED BY <3>1
  <2> QED BY <2>1
<1>5. ASSUME NEW i \in DOMAIN j.members, j.members[i].value.kind = "object"
      PROVE  j.members[i].value \in JsonObjects /\ depth[j.members[i].value] < depth[j]
  <2>1. j.members[i].value \in JsonObjects
    BY <1>4, <1>5 DEF JsonObjects
  <2>2. depth[j.members[i].value] < depth[j]
    BY <1>5 DEF JsonFrom
  <2> QED BY <2>1, <2>2
<1> QED BY <1>2, <1>3, <1>4, <1>5

(* The values at the members that are objects are all that matters. *)
LEMMA SameBelow ==
  ASSUME NEW f, NEW g, NEW j,
         \A i \in DOMAIN j.members :
           j.members[i].value.kind = "object" => f[j.members[i].value] = g[j.members[i].value]
  PROVE  FlatAt(f, j) = FlatAt(g, j) /\ LeavesAt(f, j) = LeavesAt(g, j)
<1>1. FlatAt(f, j) = FlatAt(g, j)
  BY DEF FlatAt
<1>2. \A i \in DOMAIN j.members : LeavesIn(f, j, i) = LeavesIn(g, j, i)
  BY DEF LeavesIn
<1>3. LeavesAt(f, j) = LeavesAt(g, j)
  BY <1>2 DEF LeavesAt
<1> QED BY <1>1, <1>3

LEMMA ObjectsExist ==
  ASSUME NEW depth, NEW D \in Nat, JsonFrom(depth, D)
  PROVE  /\ \E f : f = [j \in JsonObjects |-> FlatAt(f, j)]
         /\ \E f : f = [j \in JsonObjects |-> LeavesAt(f, j)]
<1> DEFINE GoodF(f, n) == \A j \in JsonObjects : depth[j] < n => f[j] = FlatAt(f, j)
           GoodL(f, n) == \A j \in JsonObjects : depth[j] < n => f[j] = LeavesAt(f, j)
           F == {n \in Nat : \E f : f = [j \in JsonObjects |-> f[j]] /\ GoodF(f, n)}
           L == {n \in Nat : \E f : f = [j \in JsonObjects |-> f[j]] /\ GoodL(f, n)}
           none == [j \in JsonObjects |-> {}]
<1>1. \A j \in JsonObjects : depth[j] \in Nat /\ ~(depth[j] < 0) /\ depth[j] < D + 1
  BY MemberTyped
<1>2. 0 \in F /\ 0 \in L
  <2>1. none = [j \in JsonObjects |-> none[j]] /\ GoodF(none, 0) /\ GoodL(none, 0)
    BY <1>1
  <2> HIDE DEF none, GoodF, GoodL
  <2> QED BY <2>1
<1>3. ASSUME NEW n \in Nat, NEW f, NEW g, NEW j \in JsonObjects, depth[j] < n + 1,
             \A o \in JsonObjects : depth[o] < n => f[o] = g[o]
      PROVE  FlatAt(f, j) = FlatAt(g, j) /\ LeavesAt(f, j) = LeavesAt(g, j)
  <2>1. \A i \in DOMAIN j.members :
          j.members[i].value.kind = "object" => f[j.members[i].value] = g[j.members[i].value]
    BY <1>3, MemberTyped
  <2> QED BY <2>1, SameBelow
<1>4. ASSUME NEW n \in Nat, n \in F PROVE n + 1 \in F
  <2>1. PICK f : f = [j \in JsonObjects |-> f[j]] /\ GoodF(f, n)
    BY <1>4
  <2> DEFINE g == [j \in JsonObjects |-> FlatAt(f, j)]
  <2>2. \A o \in JsonObjects : depth[o] < n => f[o] = g[o]
    BY <2>1
  <2>3. \A j \in JsonObjects : depth[j] < n + 1 => FlatAt(f, j) = FlatAt(g, j)
    <3> HIDE DEF g
    <3> QED BY <1>3, <2>2
  <2>4. GoodF(g, n + 1) /\ g = [j \in JsonObjects |-> g[j]]
    BY <2>3
  <2> HIDE DEF g, GoodF
  <2> QED BY <2>4
<1>5. ASSUME NEW n \in Nat, n \in L PROVE n + 1 \in L
  <2>1. PICK f : f = [j \in JsonObjects |-> f[j]] /\ GoodL(f, n)
    BY <1>5
  <2> DEFINE g == [j \in JsonObjects |-> LeavesAt(f, j)]
  <2>2. \A o \in JsonObjects : depth[o] < n => f[o] = g[o]
    BY <2>1
  <2>3. \A j \in JsonObjects : depth[j] < n + 1 => LeavesAt(f, j) = LeavesAt(g, j)
    <3> HIDE DEF g
    <3> QED BY <1>3, <2>2
  <2>4. GoodL(g, n + 1) /\ g = [j \in JsonObjects |-> g[j]]
    BY <2>3
  <2> HIDE DEF g, GoodL
  <2> QED BY <2>4
<1>6. D + 1 \in F /\ D + 1 \in L
  <2> HIDE DEF F, L
  <2> QED BY <1>2, <1>4, <1>5, SetInduction
<1>7. PICK f : f = [j \in JsonObjects |-> f[j]] /\ GoodF(f, D + 1)
  BY <1>6
<1>8. PICK l : l = [j \in JsonObjects |-> l[j]] /\ GoodL(l, D + 1)
  BY <1>6
<1>9. f = [j \in JsonObjects |-> FlatAt(f, j)] /\ l = [j \in JsonObjects |-> LeavesAt(l, j)]
  BY <1>1, <1>7, <1>8
<1> QED BY <1>9

ObjectOf == CHOOSE f : f = [j \in JsonObjects |-> FlatAt(f, j)]

LeavesOf == CHOOSE f : f = [j \in JsonObjects |-> LeavesAt(f, j)]

LEMMA ObjectsUnfold ==
  ASSUME NEW depth, NEW D \in Nat, JsonFrom(depth, D), NEW j \in JsonObjects
  PROVE  /\ ObjectOf[j] = FlatAt(ObjectOf, j) /\ json_to_multimap(j) = ObjectOf[j][<<>>]
         /\ LeavesOf[j] = LeavesAt(LeavesOf, j) /\ Leaves(j) = LeavesOf[j]
<1>1. /\ ObjectOf = [o \in JsonObjects |-> FlatAt(ObjectOf, o)]
      /\ LeavesOf = [o \in JsonObjects |-> LeavesAt(LeavesOf, o)]
  BY ObjectsExist DEF ObjectOf, LeavesOf
<1>2. ObjectOf[j] = FlatAt(ObjectOf, j) /\ LeavesOf[j] = LeavesAt(LeavesOf, j)
  BY <1>1, Zenon
<1>3. json_to_multimap(j) = ObjectOf[j][<<>>]
  <2>1. j.kind = "object"
    BY DEF JsonObjects
  <2> QED BY <2>1 DEF json_to_multimap, ObjectOf, FlatAt
<1>4. Leaves(j) = LeavesOf[j]
  BY DEF Leaves, LeavesOf, LeavesAt, LeavesIn
<1> QED BY <1>2, <1>3, <1>4

-----------------------------------------------------------------------------
(* Leaves and their texts. *)

Leaf == [path : Seq(Nat), key : Seq(Names), value : Json]

LeafAt(i) == {l \in Leaf : l.path # <<>> /\ l.path[1] = i}

(* A leaf of the value of the i-th member is one of the object. *)
Below(i, name, l) == [path |-> <<i>> \o l.path, key |-> name \o l.key, value |-> l.value]

ItemsIn(ls) == UNION {{<<l, n>> : n \in DOMAIN MemberTexts(l.value)} : l \in ls}

Texts == UNION {{MemberTexts(v)[n] : n \in DOMAIN MemberTexts(v)} : v \in Json}

(* The pairs of items where the names before them are prefix. *)
Under(prefix) ==
  [it \in ItemsIn(Leaf) |-> <<prefix \o it[1].key, MemberTexts(it[1].value)[it[2]]>>]

LEMMA ItemIs ==
  \A ls, it : it \in ItemsIn(ls) <=>
    \E l \in ls : \E n \in DOMAIN MemberTexts(l.value) : it = <<l, n>>
BY DEF ItemsIn

LEMMA Cancelled ==
  ASSUME NEW X, NEW a \in Seq(X), NEW b \in Seq(X), NEW c \in Seq(X)
  PROVE  /\ a \o b = a \o c => b = c
         /\ a \o b \in Seq(X)
<1>1. ASSUME a \o b = a \o c PROVE b = c
  <2> DEFINE u == a \o b
             w == a \o c
  <2>1. /\ Len(u) = Len(a) + Len(b) /\ Len(a) \in Nat /\ Len(b) \in Nat
        /\ \A k \in 1 .. Len(b) : u[Len(a) + k] = b[k]
    BY Concatenated
  <2>2. /\ Len(w) = Len(a) + Len(c) /\ Len(c) \in Nat
        /\ \A k \in 1 .. Len(c) : w[Len(a) + k] = c[k]
    BY Concatenated
  <2>3. u = w
    BY <1>1
  <2> HIDE DEF u, w
  <2>4. Len(b) = Len(c)
    BY <2>1, <2>2, <2>3
  <2>5. \A k \in 1 .. Len(b) : b[k] = c[k]
    BY <2>1, <2>2, <2>3, <2>4
  <2>6. b = [k \in 1 .. Len(b) |-> b[k]] /\ c = [k \in 1 .. Len(c) |-> c[k]]
    OBVIOUS
  <2> QED BY <2>4, <2>5, <2>6
<1> QED BY <1>1, Concatenated

LEMMA LeafBelow ==
  ASSUME NEW i \in Nat, NEW name \in Seq(Names), NEW l \in Leaf
  PROVE  /\ Below(i, name, l) \in LeafAt(i) /\ Below(i, name, l).value = l.value
         /\ Below(i, name, l).key = name \o l.key
         /\ \A k \in Leaf : Below(i, name, l) = Below(i, name, k) => l = k
<1> DEFINE one == <<i>>
           path == l.path
           p == one \o path
<1>1. /\ l.path \in Seq(Nat) /\ l.key \in Seq(Names) /\ l.value \in Json /\ one \in Seq(Nat)
      /\ l = [path |-> l.path, key |-> l.key, value |-> l.value]
  BY DEF Leaf
<1>2. p \in Seq(Nat) /\ p # <<>> /\ p[1] = i
  <2>1. path \in Seq(Nat)
    BY <1>1
  <2> HIDE DEF path
  <2> QED BY <2>1
<1>3. name \o l.key \in Seq(Names)
  BY <1>1, Cancelled
<1>4. Below(i, name, l) \in LeafAt(i)
  <2> DEFINE key == name \o l.key
             r == [path |-> p, key |-> key, value |-> l.value]
  <2>1. Below(i, name, l) = r
    BY DEF Below
  <2> HIDE DEF p, key
  <2>2. r \in Leaf /\ r.path = p
    BY <1>1, <1>2, <1>3 DEF Leaf, key
  <2> QED BY <1>2, <2>1, <2>2 DEF LeafAt
<1>5. ASSUME NEW k \in Leaf, Below(i, name, l) = Below(i, name, k) PROVE l = k
  <2>1. /\ k.path \in Seq(Nat) /\ k.key \in Seq(Names)
        /\ k = [path |-> k.path, key |-> k.key, value |-> k.value]
    BY DEF Leaf
  <2>2. one \o l.path = one \o k.path /\ name \o l.key = name \o k.key /\ l.value = k.value
    BY <1>5 DEF Below
  <2>3. l.path = k.path
    <3> HIDE DEF one
    <3>1. \A b, c \in Seq(Nat) : one \o b = one \o c => b = c
      BY <1>1, Cancelled
    <3> QED BY <1>1, <2>1, <2>2, <3>1
  <2>4. l.key = k.key
    <3>1. \A b, c \in Seq(Names) : name \o b = name \o c => b = c
      BY Cancelled
    <3> QED BY <1>1, <2>1, <2>2, <3>1
  <2> QED BY <1>1, <2>1, <2>2, <2>3, <2>4
<1> QED BY <1>4, <1>5 DEF Below

(* What matches the leaves of a member's value matches them in the object. *)
LEMMA MatchBelow ==
  ASSUME NEW i \in Nat, NEW name \in Seq(Names), NEW prefix \in Seq(Names),
         NEW ls \in SUBSET Leaf, NEW s, Matches(s, ItemsIn(ls), Under(prefix \o name))
  PROVE  Matches(s, ItemsIn({Below(i, name, l) : l \in ls}), Under(prefix))
<1> DEFINE A == ItemsIn(ls)
           ms == {Below(i, name, l) : l \in ls}
           B == ItemsIn(ms)
           m == [it \in A |-> <<Below(i, name, it[1]), it[2]>>]
           v == Under(prefix \o name)
           w == Under(prefix)
<1>1. ASSUME NEW l \in ls, NEW n \in DOMAIN MemberTexts(l.value)
      PROVE  <<l, n>> \in A /\ <<Below(i, name, l), n>> \in B /\ m[<<l, n>>] = <<Below(i, name, l), n>>
             /\ w[<<Below(i, name, l), n>>] = v[<<l, n>>]
  <2> DEFINE k == Below(i, name, l)
  <2>1. k \in Leaf /\ k \in ms /\ k.value = l.value /\ k.key = name \o l.key
    BY LeafBelow DEF LeafAt
  <2>2. l \in Leaf /\ l.key \in Seq(Names)
    BY DEF Leaf
  <2> HIDE DEF k, ms
  <2>3. <<l, n>> \in A /\ <<k, n>> \in B /\ <<l, n>> \in ItemsIn(Leaf) /\ <<k, n>> \in ItemsIn(Leaf)
    BY <2>1, <2>2, ItemIs
  <2>4. v[<<l, n>>] = <<(prefix \o name) \o l.key, MemberTexts(l.value)[n]>>
    BY <2>3 DEF Under
  <2>5. w[<<k, n>>] = <<prefix \o k.key, MemberTexts(k.value)[n]>>
    BY <2>3 DEF Under
  <2>6. prefix \o (name \o l.key) = (prefix \o name) \o l.key
    <3>1. \A p, q, r \in Seq(Names) : p \o (q \o r) = (p \o q) \o r
      BY Regrouped, SMTT(30)
    <3> QED BY <2>2, <3>1
  <2>7. m[<<l, n>>] = <<k, n>>
    BY <2>3 DEF k
  <2> HIDE DEF A, B, m, v, w
  <2>8. w[<<k, n>>] = v[<<l, n>>]
    BY <2>1, <2>4, <2>5, <2>6
  <2> QED BY <2>3, <2>7, <2>8 DEF k
<1>2. \A it \in A : \E l \in ls : \E n \in DOMAIN MemberTexts(l.value) : it = <<l, n>>
  BY ItemIs
<1>3. \A it \in B : \E l \in ls : \E n \in DOMAIN MemberTexts(l.value) : it = <<Below(i, name, l), n>>
  <2> SUFFICES ASSUME NEW it \in B
               PROVE  \E l \in ls : \E n \in DOMAIN MemberTexts(l.value) : it = <<Below(i, name, l), n>>
    OBVIOUS
  <2>1. PICK k \in ms : \E n \in DOMAIN MemberTexts(k.value) : it = <<k, n>>
    <3> HIDE DEF ms
    <3> QED BY ItemIs
  <2>2. PICK l \in ls : k = Below(i, name, l)
    OBVIOUS
  <2>3. k.value = l.value
    BY <2>2, LeafBelow
  <2> QED BY <2>1, <2>2, <2>3
<1>4. m \in [A -> B]
  <2>1. \A it \in A : m[it] \in B
    <3> HIDE DEF A, B, m, ms, v, w
    <3> SUFFICES ASSUME NEW it \in A PROVE m[it] \in B
      OBVIOUS
    <3>1. PICK l \in ls : \E n \in DOMAIN MemberTexts(l.value) : it = <<l, n>>
      BY <1>2
    <3>2. PICK n \in DOMAIN MemberTexts(l.value) : it = <<l, n>>
      BY <3>1
    <3> QED BY <1>1, <3>2
  <2> HIDE DEF A, B
  <2> QED BY <2>1
<1> HIDE DEF A, B, m, v, w, ms
<1>5. ASSUME NEW x \in A, NEW y \in A, m[x] = m[y] PROVE x = y
  <2>1. PICK l \in ls : \E n \in DOMAIN MemberTexts(l.value) : x = <<l, n>>
    BY <1>2
  <2>2. PICK n \in DOMAIN MemberTexts(l.value) : x = <<l, n>>
    BY <2>1
  <2>3. PICK k \in ls : \E q \in DOMAIN MemberTexts(k.value) : y = <<k, q>>
    BY <1>2
  <2>4. PICK q \in DOMAIN MemberTexts(k.value) : y = <<k, q>>
    BY <2>3
  <2>5. <<Below(i, name, l), n>> = <<Below(i, name, k), q>>
    BY <1>1, <1>5, <2>2, <2>4
  <2>6. l = k
    BY <2>5, LeafBelow
  <2> QED BY <2>2, <2>4, <2>5, <2>6
<1>6. ASSUME NEW z \in B PROVE \E x \in A : m[x] = z
  <2>1. PICK l \in ls : \E n \in DOMAIN MemberTexts(l.value) : z = <<Below(i, name, l), n>>
    BY <1>3
  <2>2. PICK n \in DOMAIN MemberTexts(l.value) : z = <<Below(i, name, l), n>>
    BY <2>1
  <2> QED BY <1>1, <2>2
<1>7. ASSUME NEW x \in A PROVE w[m[x]] = v[x]
  <2>1. PICK l \in ls : \E n \in DOMAIN MemberTexts(l.value) : x = <<l, n>>
    BY <1>2
  <2>2. PICK n \in DOMAIN MemberTexts(l.value) : x = <<l, n>>
    BY <2>1
  <2> QED BY <1>1, <2>2
<1>8. Matches(s, A, v)
  BY DEF A, v
<1>9. Matches(s, B, w)
  BY <1>4, <1>5, <1>6, <1>7, <1>8, MatchMap
<1> QED BY <1>9 DEF B, w, ms

Pairs == Seq(Names) \X Texts

LEMMA TextsTyped ==
  ASSUME NEW depth, NEW D \in Nat, JsonFrom(depth, D), NEW v \in Json
  PROVE  \E k \in Nat : MemberTexts(v) \in [1 .. k -> Texts]
<1> DEFINE t == MemberTexts(v)
<1>1. \E k \in Nat : t = [n \in 1 .. k |-> t[n]]
  <2>1. CASE v.kind = "array"
    <3>1. DOMAIN v.items = 1 .. Len(v.items) /\ Len(v.items) \in Nat
      BY <2>1 DEF JsonFrom
    <3>2. t = [n \in DOMAIN v.items |-> t[n]]
      BY <2>1 DEF MemberTexts
    <3> QED BY <3>1, <3>2
  <2>2. CASE v.kind # "array"
    <3>1. t = <<AtomText(v)>>
      BY <2>2 DEF MemberTexts
    <3>2. \A x : <<x>> = [n \in 1 .. 1 |-> <<x>>[n]]
      OBVIOUS
    <3>3. t = [n \in 1 .. 1 |-> t[n]]
      BY <3>1, <3>2
    <3> QED BY <3>3
  <2> QED BY <2>1, <2>2
<1>2. PICK k \in Nat : t = [n \in 1 .. k |-> t[n]]
  BY <1>1
<1>3. \A n \in DOMAIN t : t[n] \in Texts
  BY DEF Texts
<1>4. DOMAIN t = 1 .. k
  BY <1>2
<1> HIDE DEF t
<1>5. t \in [1 .. k -> Texts]
  BY <1>2, <1>3, <1>4
<1> QED BY <1>5 DEF t

(* A member that is no object has its texts under its name. *)
LEMMA MatchLeaf ==
  ASSUME NEW depth, NEW D \in Nat, JsonFrom(depth, D), NEW i \in Nat,
         NEW name \in Seq(Names), NEW prefix \in Seq(Names), NEW v \in Json
  PROVE  LET l == [path |-> <<i>>, key |-> name, value |-> v]
             s == Keyed(MakeKey(prefix, name), MemberTexts(v))
         IN  l \in LeafAt(i) /\ s \in Seq(Pairs) /\ Matches(s, ItemsIn({l}), Under(prefix))
<1> DEFINE l == [path |-> <<i>>, key |-> name, value |-> v]
           key == MakeKey(prefix, name)
           t == MemberTexts(v)
           s == Keyed(key, t)
           A == ItemsIn({l})
           w == Under(prefix)
<1>1. PICK k \in Nat : t \in [1 .. k -> Texts]
  BY TextsTyped
<1>2. key \in Seq(Names) /\ key = prefix \o name
  BY Cancelled DEF MakeKey
<1>3. l \in LeafAt(i)
  <2> DEFINE one == <<i>>
  <2>1. one \in Seq(Nat) /\ one # <<>> /\ one[1] = i
    OBVIOUS
  <2>2. l = [path |-> one, key |-> name, value |-> v]
    OBVIOUS
  <2> HIDE DEF one, l
  <2>3. l \in Leaf /\ l.path = one
    BY <2>1, <2>2 DEF Leaf
  <2> QED BY <2>1, <2>3 DEF LeafAt
<1>4. s = [n \in 1 .. k |-> <<key, t[n]>>]
  <2>1. DOMAIN t = 1 .. k
    BY <1>1
  <2> HIDE DEF t, key
  <2> QED BY <2>1 DEF Keyed
<1>5. s \in Seq(Pairs) /\ Len(s) = k
  <2>1. \A n \in 1 .. k : <<key, t[n]>> \in Pairs
    <3> HIDE DEF t, key
    <3> QED BY <1>1, <1>2 DEF Pairs
  <2> HIDE DEF s, t, key
  <2> QED BY <1>4, <2>1
<1>6. l \in Leaf /\ l.value = v /\ l.key = name
  BY <1>3 DEF LeafAt
<1> HIDE DEF l
<1>7. DOMAIN t = 1 .. k /\ \A it : it \in A <=> \E n \in 1 .. k : it = <<l, n>>
  <2>1. DOMAIN t = 1 .. k
    BY <1>1
  <2>2. \A it : it \in A <=> \E n \in DOMAIN MemberTexts(l.value) : it = <<l, n>>
    BY ItemIs
  <2> QED BY <1>6, <2>1, <2>2
<1>8. ASSUME NEW n \in 1 .. k PROVE w[<<l, n>>] = <<key, t[n]>>
  <2>1. <<l, n>> \in ItemsIn(Leaf)
    BY <1>6, <1>7, ItemIs
  <2>2. w[<<l, n>>] = <<prefix \o l.key, MemberTexts(l.value)[n]>>
    BY <2>1 DEF Under
  <2> QED BY <1>2, <1>6, <2>2
<1> DEFINE b == [n \in 1 .. k |-> <<l, n>>]
<1> HIDE DEF A, w, s, t, key
<1>9. b \in [1 .. k -> A] /\ \A n \in 1 .. k : b[n] = <<l, n>>
  BY <1>7
<1> HIDE DEF b
<1>10. /\ \A m, n \in 1 .. k : b[m] = b[n] => m = n
       /\ \A a \in A : \E n \in 1 .. k : b[n] = a
       /\ \A n \in 1 .. k : s[n] = w[b[n]]
  <2>1. ASSUME NEW m \in 1 .. k, NEW n \in 1 .. k, b[m] = b[n] PROVE m = n
    BY <1>9, <2>1
  <2>2. ASSUME NEW a \in A PROVE \E n \in 1 .. k : b[n] = a
    BY <1>7, <1>9
  <2>3. ASSUME NEW n \in 1 .. k PROVE s[n] = w[b[n]]
    BY <1>4, <1>8, <1>9
  <2> QED BY <2>1, <2>2, <2>3
<1>11. Matches(s, A, w)
  BY <1>5, <1>9, <1>10, Zenon DEF Matches
<1> QED BY <1>3, <1>5, <1>11 DEF l, A, w, s, t, key

(* What is shown of an object from what is known of those in it. *)
IsFlattened(j) ==
  /\ LeavesOf[j] \subseteq Leaf
  /\ \A prefix \in Seq(Names) :
       /\ ObjectOf[j][prefix] \in Seq(Pairs)
       /\ Matches(ObjectOf[j][prefix], ItemsIn(LeavesOf[j]), Under(prefix))

LEMMA FlattenedAt ==
  ASSUME NEW depth, NEW D \in Nat, JsonFrom(depth, D), NEW j \in JsonObjects,
         \A i \in DOMAIN j.members :
           j.members[i].value.kind = "object" => IsFlattened(j.members[i].value)
  PROVE  IsFlattened(j)
<1> DEFINE N == Len(j.members)
           name(i) == j.members[i].name
           val(i) == j.members[i].value
           L(i) == LeavesIn(LeavesOf, j, i)
           piece(prefix, i) ==
             IF val(i).kind = "object" THEN ObjectOf[val(i)][MakeKey(prefix, name(i))]
             ELSE Keyed(MakeKey(prefix, name(i)), MemberTexts(val(i)))
<1>1. /\ N \in Nat /\ DOMAIN j.members = 1 .. N
      /\ \A i \in 1 .. N : name(i) \in Seq(Names) /\ val(i) \in Json /\ i \in Nat
  BY MemberTyped
<1>2. ASSUME NEW i \in 1 .. N, NEW prefix \in Seq(Names)
      PROVE  /\ L(i) \subseteq LeafAt(i) /\ piece(prefix, i) \in Seq(Pairs)
             /\ Matches(piece(prefix, i), ItemsIn(L(i)), Under(prefix))
  <2> DEFINE n == name(i)
             v == val(i)
             key == MakeKey(prefix, n)
  <2>1. n \in Seq(Names) /\ v \in Json /\ i \in Nat /\ key = prefix \o n
    BY <1>1 DEF MakeKey
  <2>2. key \in Seq(Names)
    <3> HIDE DEF key, n
    <3> QED BY <2>1, Cancelled
  <2>3. CASE v.kind = "object"
    <3>1. IsFlattened(v)
      BY <1>1, <2>3
    <3>2. /\ LeavesOf[v] \in SUBSET Leaf /\ ObjectOf[v][key] \in Seq(Pairs)
          /\ Matches(ObjectOf[v][key], ItemsIn(LeavesOf[v]), Under(prefix \o n))
      <4> HIDE DEF key, v, n
      <4> QED BY <2>1, <2>2, <3>1 DEF IsFlattened
    <3>3. L(i) = {Below(i, n, l) : l \in LeavesOf[v]}
      BY <2>3 DEF LeavesIn, Below
    <3>4. piece(prefix, i) = ObjectOf[v][key]
      BY <2>3
    <3> HIDE DEF L, piece, key, n, v
    <3>5. L(i) \subseteq LeafAt(i)
      BY <2>1, <3>2, <3>3, LeafBelow
    <3>6. Matches(ObjectOf[v][key], ItemsIn({Below(i, n, l) : l \in LeavesOf[v]}), Under(prefix))
      BY <2>1, <3>2, MatchBelow
    <3> QED BY <3>2, <3>3, <3>4, <3>5, <3>6
  <2>4. CASE v.kind # "object"
    <3> DEFINE l == [path |-> <<i>>, key |-> n, value |-> v]
               s == Keyed(key, MemberTexts(v))
    <3>1. L(i) = {l}
      BY <2>4 DEF LeavesIn
    <3>2. piece(prefix, i) = s
      BY <2>4
    <3>3. l \in LeafAt(i) /\ s \in Seq(Pairs) /\ Matches(s, ItemsIn({l}), Under(prefix))
      <4> HIDE DEF n, v
      <4> QED BY <2>1, MatchLeaf
    <3> HIDE DEF L, piece, l, s
    <3> QED BY <3>1, <3>2, <3>3
  <2> QED BY <2>3, <2>4
<1>3. LeavesOf[j] = UNION {L(i) : i \in 1 .. N}
  BY <1>1, ObjectsUnfold DEF LeavesAt
<1>4. ASSUME NEW prefix \in Seq(Names)
      PROVE  ObjectOf[j][prefix] = FlattenSeq([i \in 1 .. N |-> piece(prefix, i)])
  <2> DEFINE s == [i \in DOMAIN j.members |-> piece(prefix, i)]
  <2>1. ObjectOf[j] = FlatAt(ObjectOf, j)
    BY ObjectsUnfold
  <2>2. FlatAt(ObjectOf, j)[prefix] = FlattenSeq(s)
    BY DEF FlatAt
  <2>3. s = [i \in 1 .. N |-> piece(prefix, i)]
    <3> HIDE DEF piece
    <3> QED BY <1>1
  <2> HIDE DEF s, piece, N
  <2> QED BY <2>1, <2>2, <2>3
<1> HIDE DEF N, L, piece, name, val
<1>5. \A i \in 1 .. N : L(i) \subseteq LeafAt(i)
  <2>1. <<>> \in Seq(Names)
    OBVIOUS
  <2> QED BY <1>2, <2>1
<1>6. LeavesOf[j] \subseteq Leaf
  BY <1>3, <1>5 DEF LeafAt
<1> DEFINE A == [i \in 1 .. N |-> ItemsIn(L(i))]
<1>7. ASSUME NEW i \in 1 .. N, NEW k \in 1 .. N, i # k PROVE A[i] \cap A[k] = {}
  <2> SUFFICES ASSUME NEW it, it \in ItemsIn(L(i)), it \in ItemsIn(L(k)) PROVE FALSE
    OBVIOUS
  <2>1. PICK l \in L(i) : \E n \in DOMAIN MemberTexts(l.value) : it = <<l, n>>
    BY ItemIs
  <2>2. PICK m \in L(k) : \E n \in DOMAIN MemberTexts(m.value) : it = <<m, n>>
    BY ItemIs
  <2>3. l = m
    BY <2>1, <2>2
  <2>4. l.path[1] = i /\ m.path[1] = k
    BY <1>5 DEF LeafAt
  <2> QED BY <1>7, <2>3, <2>4
<1>8. ItemsIn(LeavesOf[j]) = UNION {A[i] : i \in 1 .. N}
  BY <1>3 DEF ItemsIn
<1>9. ASSUME NEW prefix \in Seq(Names)
      PROVE  /\ ObjectOf[j][prefix] \in Seq(Pairs)
             /\ Matches(ObjectOf[j][prefix], ItemsIn(LeavesOf[j]), Under(prefix))
  <2> DEFINE seqs == [i \in 1 .. N |-> piece(prefix, i)]
             w == Under(prefix)
  <2>1. seqs \in Seq(Seq(Pairs)) /\ Len(seqs) = N /\ \A i \in 1 .. N : seqs[i] = piece(prefix, i)
    BY <1>1, <1>2
  <2>2. \A i \in 1 .. N : Matches(seqs[i], A[i], w)
    BY <1>2, <2>1
  <2> HIDE DEF seqs, A, w
  <2>3. Matches(FlattenSeq(seqs), UNION {A[i] : i \in 1 .. N}, w)
    <3>1. /\ \A i \in 1 .. Len(seqs) : Matches(seqs[i], A[i], w)
          /\ \A i, k \in 1 .. Len(seqs) : i # k => A[i] \cap A[k] = {}
      BY <1>7, <2>1, <2>2
    <3>2. Matches(FlattenSeq(seqs), UNION {A[i] : i \in 1 .. Len(seqs)}, w)
      BY <2>1, <3>1, MatchFlatten
    <3> QED BY <2>1, <3>2
  <2>4. FlattenSeq(seqs) \in Seq(Pairs)
    <3>1. PICK F : Joined(F, Pairs, seqs) /\ FlattenSeq(seqs) = F[Len(seqs)]
      BY <2>1, Flattened
    <3>2. F \in [0 .. N -> Seq(Pairs)] /\ Len(seqs) \in 0 .. N
      BY <1>1, <2>1, <3>1 DEF Joined
    <3> QED BY <3>1, <3>2
  <2>5. ObjectOf[j][prefix] = FlattenSeq(seqs)
    BY <1>4 DEF seqs
  <2> QED BY <1>8, <2>3, <2>4, <2>5 DEF w
<1> QED BY <1>6, <1>9 DEF IsFlattened

LEMMA ObjectsFlattened ==
  ASSUME NEW depth, NEW D \in Nat, JsonFrom(depth, D), NEW o \in JsonObjects
  PROVE  IsFlattened(o)
<1> DEFINE S == {n \in Nat : \A j \in JsonObjects : depth[j] < n => IsFlattened(j)}
<1>1. \A j \in JsonObjects : depth[j] \in Nat /\ ~(depth[j] < 0) /\ depth[j] < D + 1
  BY MemberTyped
<1>2. 0 \in S
  BY <1>1
<1>3. ASSUME NEW n \in Nat, n \in S PROVE n + 1 \in S
  <2> SUFFICES ASSUME NEW j \in JsonObjects, depth[j] < n + 1 PROVE IsFlattened(j)
    OBVIOUS
  <2>1. \A i \in DOMAIN j.members :
          j.members[i].value.kind = "object" => IsFlattened(j.members[i].value)
    BY <1>3, MemberTyped
  <2> QED BY <2>1, FlattenedAt
<1>4. D + 1 \in S
  <2> HIDE DEF S
  <2> QED BY <1>2, <1>3, SetInduction
<1> QED BY <1>1, <1>4

LEMMA MembersBack ==
  ASSUME NEW depth, NEW D \in Nat, JsonFrom(depth, D), NEW o \in JsonObjects, NEW p
  PROVE  Cardinality({n \in DOMAIN json_to_multimap(o) : json_to_multimap(o)[n] = p})
           = Cardinality({it \in Items(o) : PairOf(it) = p})
<1> DEFINE form == json_to_multimap(o)
           A == ItemsIn(LeavesOf[o])
           w == Under(<<>>)
<1>1. form = ObjectOf[o][<<>>] /\ <<>> \in Seq(Names)
  BY ObjectsUnfold
<1>2. LeavesOf[o] \subseteq Leaf /\ form \in Seq(Pairs) /\ Matches(form, A, w)
  BY <1>1, ObjectsFlattened DEF IsFlattened
<1>3. Items(o) = A
  BY ObjectsUnfold DEF Items, ItemsIn
<1>4. ASSUME NEW it \in A PROVE w[it] = PairOf(it)
  <2>1. PICK l \in LeavesOf[o] : \E n \in DOMAIN MemberTexts(l.value) : it = <<l, n>>
    BY ItemIs
  <2>2. PICK n \in DOMAIN MemberTexts(l.value) : it = <<l, n>>
    BY <2>1
  <2>3. it \in ItemsIn(Leaf) /\ l.key \in Seq(Names)
    BY <1>2, <2>2, ItemIs DEF Leaf
  <2>4. w[it] = <<<<>> \o it[1].key, MemberTexts(it[1].value)[it[2]]>>
    BY <2>3 DEF Under
  <2>5. <<>> \o l.key = l.key
    BY <2>3
  <2> QED BY <2>2, <2>4, <2>5 DEF PairOf
<1> HIDE DEF form, A, w
<1>5. Cardinality(At(form, p)) = Cardinality(With(A, w, p))
  <2>1. form \in Seq(Pairs) /\ Matches(form, A, w)
    BY <1>2
  <2> QED BY <2>1, MatchCount
<1>6. With(A, w, p) = {it \in A : PairOf(it) = p}
  BY <1>4 DEF With
<1> QED BY <1>3, <1>5, <1>6 DEF form, At

(* Whatever object a JSON body is, however many members it has and however deep
   they are nested: the form has every atom and every item of an array exactly
   once, under the names that lead to it, and nothing else. *)
THEOREM MembersAreFlattened ==
  ASSUME NEW depth, NEW D \in Nat, JsonFrom(depth, D)
  PROVE  RequestSpec => []JsonFlattened
<1>1. HeadInv /\ StageInv /\ FormInv => JsonFlattened
  <2> SUFFICES ASSUME HeadInv, StageInv, FormInv, stage = "finished", form_body.kind = "json",
                      form_body.text.kind = "object", Len(headers["content-type"]) = 1,
                      Mentions({"json"})
               PROVE  \A p : Cardinality({n \in DOMAIN from_form : from_form[n] = p})
                              = Cardinality({it \in Items(form_body.text) : PairOf(it) = p})
    BY DEF JsonFlattened
  <2>1. form_body.text \in JsonObjects
    BY DEF FormInv, JsonFrom, JsonObjects
  <2>2. SaysJson
    <3>1. headers["content-type"] \in Seq(1 .. Len(lines))
      BY RequestAssumption DEF HeadInv, HeadTypeOK
    <3>2. DOMAIN headers["content-type"] = {1}
      BY <3>1
    <3>3. ValuesOf("content-type")[1] = "json"
      BY <3>2 DEF Mentions
    <3> QED BY <3>2, <3>3 DEF SaysJson, Mentions, Bounded
  <2>3. from_form = json_to_multimap(form_body.text)
    BY <2>2 DEF FormInv
  <2> QED BY <2>1, <2>3, MembersBack
<1> QED BY <1>1, FormInvariant, PTL
=============================================================================
