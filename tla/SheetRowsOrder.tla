-------------------------- MODULE SheetRowsOrder ---------------------------
(* Lemmas about the operators of SheetRows on positions: the first and the   *)
(* last of a set of rows, a set put in order, a row moved, removed, typed,   *)
(* and what a batch does to the tab. SheetRowsProofs cites them.             *)
EXTENDS SheetRows, FiniteSetTheorems, SequenceTheorems, TLAPS

-----------------------------------------------------------------------------
(* The least and the greatest of a finite set. *)
LEMMA GreatestExists ==
  ASSUME NEW S, S \subseteq Int, IsFiniteSet(S), S # {}
  PROVE  \E x \in S : \A y \in S : x >= y
  <1> DEFINE Bad == {T \in SUBSET S : T # {} /\ \A x \in T : \E y \in T : ~(x >= y)}
  <1>1. SUFFICES ASSUME S \in Bad PROVE FALSE
    OBVIOUS
  <1>2. Bad \subseteq FiniteSubsetsOf(S)
    BY FS_Subset DEF FiniteSubsetsOf
  <1>3. PICK T \in Bad : \A U \in Bad : <<U, T>> \notin StrictSubsetOrdering(S)
    <2> HIDE DEF Bad
    <2> QED BY <1>1, <1>2, FS_StrictSubsetOrderingWellFounded, WFMin
  <1>4. PICK x \in T : TRUE
    BY <1>3
  <1>5. CASE T \ {x} = {}
    <2>1. \A y \in T : x >= y
      BY <1>3, <1>4, <1>5
    <2> QED BY <2>1, <1>3, <1>4
  <1>6. CASE T \ {x} # {}
    <2>1. T \ {x} \notin Bad
      BY <1>3, <1>4 DEF StrictSubsetOrdering
    <2>2. PICK z \in T \ {x} : \A y \in T \ {x} : z >= y
      BY <1>3, <1>6, <2>1
    <2>3. x \in Int /\ z \in Int /\ \A y \in T : y \in Int
      BY <1>3, <1>4, <2>2
    <2>4. CASE x >= z
      <3>1. \A y \in T : x >= y
        BY <2>2, <2>3, <2>4
      <3> QED BY <3>1, <1>3, <1>4
    <2>5. CASE ~(x >= z)
      <3>1. \A y \in T : z >= y
        BY <2>2, <2>3, <2>5
      <3> QED BY <3>1, <1>3, <2>2
    <2> QED BY <2>4, <2>5
  <1> QED BY <1>5, <1>6

(* Max is the greatest, *)
LEMMA MaxOf ==
  ASSUME NEW S, S \subseteq Int, IsFiniteSet(S), S # {}
  PROVE  Max(S) \in S /\ \A y \in S : Max(S) >= y
  BY GreatestExists DEF Max

(* and Min the least. *)
LEMMA MinOf ==
  ASSUME NEW S, S \subseteq Nat, S # {}
  PROVE  Min(S) \in S /\ \A y \in S : Min(S) <= y
  <1>1. PICK less : /\ IsWellFoundedOn(less, Nat)
                    /\ \A x, y \in Nat : y < x => <<y, x>> \in less
    <2>1. \A x, y \in Nat : y < x => <<y, x>> \in OpToRel(<, Nat)
      BY Zenon DEF OpToRel
    <2> QED BY <2>1, NatLessThanWellFounded, Zenon
  <1>2. PICK x \in S : \A y \in S : ~(<<y, x>> \in less)
    BY <1>1, WFMin
  <1>3. ASSUME NEW y \in S PROVE x <= y
    <2>1. x \in Nat /\ y \in Nat /\ ~(y < x)
      BY <1>1, <1>2, Zenon
    <2> QED BY <2>1
  <1> QED BY <1>2, <1>3 DEF Min

-----------------------------------------------------------------------------
(* A finite set in the order that "above" gives it. *)
Orders(above, S) ==
  /\ IsFiniteSet(S)
  /\ above \in [S -> SUBSET S]
  /\ \A x \in S : x \notin above[x]
  /\ \A x, y \in S : x # y => x \in above[y] \/ y \in above[x]
  /\ \A x, y, z \in S : x \in above[y] /\ y \in above[z] => x \in above[z]
(* The place of each. *)
PlaceIn(above, S) == [x \in S |-> Cardinality(above[x]) + 1]

(* Places are numbers from 1 to the size of the set, each taken once, and *)
(* follow the order.                                                      *)
LEMMA PlacesDiffer ==
  ASSUME NEW S, NEW above, Orders(above, S)
  PROVE  /\ Cardinality(S) \in Nat
         /\ PlaceIn(above, S) \in Injection(S, 1 .. Cardinality(S))
         /\ \A x, y \in S : x \in above[y] => PlaceIn(above, S)[x] < PlaceIn(above, S)[y]
  <1> DEFINE p == PlaceIn(above, S)
  <1>1. \A T \in SUBSET S : IsFiniteSet(T) /\ Cardinality(T) \in Nat
    BY FS_Subset, FS_CardinalityType DEF Orders
  <1>2. ASSUME NEW x \in S
        PROVE  IsFiniteSet(above[x]) /\ Cardinality(above[x]) \in Nat
               /\ Cardinality(above[x] \cup {x}) = Cardinality(above[x]) + 1
    <2>1. above[x] \in SUBSET S /\ x \notin above[x]
      BY DEF Orders
    <2> QED BY <1>1, <2>1, FS_AddElement
  <1>3. ASSUME NEW x \in S PROVE p[x] \in 1 .. Cardinality(S)
    <2>1. above[x] \cup {x} \in SUBSET S /\ IsFiniteSet(S)
      BY DEF Orders
    <2>2. Cardinality(above[x] \cup {x}) <= Cardinality(S)
      BY <2>1, FS_Subset
    <2> QED BY <1>1, <1>2, <2>2 DEF PlaceIn, Orders
  <1>4. ASSUME NEW x \in S, NEW y \in S, x \in above[y] PROVE p[x] < p[y]
    <2>1. above[x] \cup {x} \in SUBSET above[y]
      BY <1>4 DEF Orders
    <2>2. Cardinality(above[x] \cup {x}) <= Cardinality(above[y])
      BY <1>2, <2>1, FS_Subset
    <2>3. Cardinality(above[x]) \in Nat /\ Cardinality(above[y]) \in Nat
      BY <1>2
    <2>4. p[x] = Cardinality(above[x]) + 1 /\ p[y] = Cardinality(above[y]) + 1
      BY DEF PlaceIn
    <2>5. Cardinality(above[x]) + 1 <= Cardinality(above[y])
      BY <1>2, <2>2
    <2> HIDE DEF p
    <2> QED BY <2>3, <2>4, <2>5
  <1>5. \A x, y \in S : p[x] = p[y] => x = y
    <2> SUFFICES ASSUME NEW x \in S, NEW y \in S, x # y PROVE p[x] # p[y]
      OBVIOUS
    <2>1. p[x] \in Int /\ p[y] \in Int
      BY <1>3, <1>1
    <2>2. x \in above[y] \/ y \in above[x]
      BY DEF Orders
    <2> HIDE DEF p
    <2> QED BY <1>4, <2>1, <2>2
  <1>6. Cardinality(S) \in Nat
    BY <1>1
  <1>7. p \in [S -> 1 .. Cardinality(S)]
    BY <1>3 DEF PlaceIn
  <1> QED BY <1>4, <1>5, <1>6, <1>7 DEF Injection, IsInjective

(* InOrder is the set in that order: each element is there once, at its      *)
(* place, and what is above an element comes before it.                      *)
LEMMA InOrderPlaces ==
  ASSUME NEW S, NEW above, Orders(above, S)
  PROVE  /\ Cardinality(S) \in Nat
         /\ InOrder(above) \in [1 .. Cardinality(S) -> S]
         /\ \A x \in S : /\ Cardinality(above[x]) + 1 \in 1 .. Cardinality(S)
                         /\ InOrder(above)[Cardinality(above[x]) + 1] = x
         /\ \A i, j \in 1 .. Cardinality(S) :
              i < j => InOrder(above)[i] \in above[InOrder(above)[j]]
         /\ \A i, j \in 1 .. Cardinality(S) : InOrder(above)[i] = InOrder(above)[j] => i = j
  <1> DEFINE p == PlaceIn(above, S)
             n == Cardinality(S)
             s == InOrder(above)
  <1>1. /\ n \in Nat
        /\ p \in Injection(S, 1 .. n)
        /\ \A x, y \in S : x \in above[y] => p[x] < p[y]
    BY PlacesDiffer
  <1>2. DOMAIN above = S /\ IsFiniteSet(S)
    BY DEF Orders
  <1>3. IsFiniteSet(1 .. n) /\ Cardinality(1 .. n) = n
    BY <1>1, FS_Interval
  <1>4. p \in Surjection(S, 1 .. n)
    <2> HIDE DEF p
    <2> QED BY <1>1, <1>2, <1>3, FS_Injection
  <1>5. ASSUME NEW k \in 1 .. n PROVE s[k] \in S /\ p[s[k]] = k
    <2>1. PICK x \in S : p[x] = k
      <3> HIDE DEF p
      <3> QED BY <1>4 DEF Surjection
    <2>2. Cardinality(above[x]) = k - 1
      <3>1. Cardinality(above[x]) \in Nat
        BY FS_Subset, FS_CardinalityType DEF Orders
      <3> QED BY <2>1, <3>1 DEF PlaceIn
    <2>3. s[k] = CHOOSE y \in S : Cardinality(above[y]) = k - 1
      BY <1>2 DEF InOrder
    <2>4. s[k] \in S /\ Cardinality(above[s[k]]) = k - 1
      BY <2>2, <2>3
    <2> QED BY <2>4 DEF PlaceIn
  <1>6. s \in [1 .. n -> S]
    <2>1. s = [k \in 1 .. n |-> s[k]]
      BY <1>2 DEF InOrder
    <2> HIDE DEF s
    <2> QED BY <1>5, <2>1
  <1>7. \A x, y \in S : p[x] = p[y] => x = y
    <2> HIDE DEF p
    <2> QED BY <1>1 DEF Injection, IsInjective
  <1>8. ASSUME NEW x \in S
        PROVE  Cardinality(above[x]) + 1 \in 1 .. n /\ s[Cardinality(above[x]) + 1] = x
    <2>1. p[x] = Cardinality(above[x]) + 1
      BY DEF PlaceIn
    <2>2. p[x] \in 1 .. n
      <3> HIDE DEF p
      <3> QED BY <1>1 DEF Injection
    <2> HIDE DEF p, s, n
    <2> QED BY <1>5, <1>7, <2>1, <2>2
  <1>9. ASSUME NEW i \in 1 .. n, NEW j \in 1 .. n, i < j PROVE s[i] \in above[s[j]]
    <2>1. s[i] \in S /\ s[j] \in S /\ p[s[i]] = i /\ p[s[j]] = j
      BY <1>5
    <2>2. s[i] # s[j] /\ s[j] \notin above[s[i]]
      <3> HIDE DEF p, s, n
      <3> QED BY <1>1, <1>9, <2>1
    <2> HIDE DEF p, s, n
    <2> QED BY <2>1, <2>2 DEF Orders
  <1>10. ASSUME NEW i \in 1 .. n, NEW j \in 1 .. n, s[i] = s[j] PROVE i = j
    <2> HIDE DEF p, s, n
    <2> QED BY <1>5, <1>10
  <1> QED BY <1>1, <1>6, <1>8, <1>9, <1>10

-----------------------------------------------------------------------------
(* What the person does to the rows. *)
IsTyped(q, r, i, e, S) ==
  /\ q \in Seq(S) /\ Len(q) = Len(r) + 1
  /\ \A k \in 1 .. Len(r) + 1 : q[k] = IF k < i THEN r[k] ELSE IF k = i THEN e ELSE r[k - 1]
IsRemoved(q, r, i, S) ==
  /\ q \in Seq(S) /\ Len(q) = Len(r) - 1
  /\ \A k \in 1 .. Len(r) - 1 : q[k] = IF k < i THEN r[k] ELSE r[k + 1]
IsPermuted(q, r, S) ==
  /\ q \in Seq(S) /\ Len(q) = Len(r)
  /\ \E f \in [1 .. Len(r) -> 1 .. Len(r)] :
       /\ \A k \in 1 .. Len(r) : q[k] = r[f[k]]
       /\ \A k, l \in 1 .. Len(r) : f[k] = f[l] => k = l
       /\ \A l \in 1 .. Len(r) : \E k \in 1 .. Len(r) : f[k] = l

(* InsertAt puts a row in, *)
LEMMA RowTyped ==
  ASSUME NEW S, NEW r \in Seq(S), NEW n \in Nat, n = Len(r), NEW i \in 1 .. n + 1, NEW e \in S
  PROVE  IsTyped(InsertAt(r, i, e), r, i, e, S)
  <1>1. PICK up : up = SubSeq(r, 1, i - 1)
    OBVIOUS
  <1>2. PICK low : low = SubSeq(r, i, n)
    OBVIOUS
  <1>3. PICK q : q = up \o <<e>>
    OBVIOUS
  <1>4. PICK t : t = q \o low
    OBVIOUS
  <1>5. i - 1 \in Nat /\ i - 1 <= Len(r) /\ i \in Nat /\ 1 <= i /\ i <= n + 1 /\ n <= Len(r)
    OBVIOUS
  <1>6. /\ up \in Seq(S) /\ Len(up) = i - 1
        /\ \A k \in Int : 1 <= k /\ k <= i - 1 => up[k] = r[k]
    BY <1>1, <1>5
  <1>7. /\ low \in Seq(S) /\ Len(low) = n - i + 1
        /\ \A k \in Int : 1 <= k /\ k <= n - i + 1 => low[k] = r[i + k - 1]
    BY <1>2, <1>5
  <1>8. <<e>> \in Seq(S) /\ Len(<<e>>) = 1 /\ <<e>>[1] = e
    OBVIOUS
  <1>9. /\ q \in Seq(S) /\ Len(q) = i
        /\ \A k \in Int : 1 <= k /\ k <= i - 1 => q[k] = up[k]
        /\ q[i] = e
    BY <1>3, <1>5, <1>6, <1>8
  <1>10. n - i + 1 \in Nat /\ i + (n - i + 1) = n + 1
    BY <1>5
  <1>11. /\ t \in Seq(S) /\ Len(t) = n + 1
         /\ \A k \in Int : 1 <= k /\ k <= i => t[k] = q[k]
         /\ \A k \in Int : i < k /\ k <= n + 1 => t[k] = low[k - i]
    BY <1>4, <1>5, <1>7, <1>9, <1>10
  <1>12. InsertAt(r, i, e) = t
    BY <1>1, <1>2, <1>3, <1>4 DEF InsertAt
  <1>13. ASSUME NEW k \in Int, 1 <= k, k <= n + 1
         PROVE  t[k] = IF k < i THEN r[k] ELSE IF k = i THEN e ELSE r[k - 1]
    <2>1. CASE k < i
      BY <1>5, <1>6, <1>9, <1>11, <1>13, <2>1
    <2>2. CASE k = i
      BY <1>5, <1>9, <1>11, <2>2
    <2>3. CASE k > i
      <3>1. t[k] = low[k - i]
        BY <1>5, <1>11, <1>13, <2>3
      <3>2. low[k - i] = r[i + (k - i) - 1] /\ i + (k - i) - 1 = k - 1
        BY <1>5, <1>7, <1>13, <2>3
      <3> QED BY <1>5, <2>3, <3>1, <3>2
    <2> QED BY <1>5, <2>1, <2>2, <2>3
  <1> QED BY <1>11, <1>12, <1>13 DEF IsTyped

(* RemoveAt takes one away, *)
LEMMA RowRemoved ==
  ASSUME NEW S, NEW r \in Seq(S), NEW n \in Nat, n = Len(r), NEW i \in 1 .. n
  PROVE  IsRemoved(RemoveAt(r, i), r, i, S)
  <1>1. PICK up : up = SubSeq(r, 1, i - 1)
    OBVIOUS
  <1>2. PICK low : low = SubSeq(r, i + 1, n)
    OBVIOUS
  <1>3. PICK t : t = up \o low
    OBVIOUS
  <1>4. i - 1 \in Nat /\ i - 1 <= Len(r) /\ i \in Nat /\ 1 <= i /\ i <= n /\ n <= Len(r)
    OBVIOUS
  <1>5. /\ up \in Seq(S) /\ Len(up) = i - 1
        /\ \A k \in Int : 1 <= k /\ k <= i - 1 => up[k] = r[k]
    BY <1>1, <1>4
  <1>6. /\ low \in Seq(S) /\ Len(low) = n - i
        /\ \A k \in Int : 1 <= k /\ k <= n - i => low[k] = r[i + k]
    BY <1>2, <1>4
  <1>7. n - i \in Nat /\ (i - 1) + (n - i) = n - 1
    BY <1>4
  <1>8. /\ t \in Seq(S) /\ Len(t) = n - 1
        /\ \A k \in Int : 1 <= k /\ k <= i - 1 => t[k] = up[k]
        /\ \A k \in Int : i <= k /\ k <= n - 1 => t[k] = low[k - (i - 1)]
    <2>1. t \in Seq(S) /\ Len(t) = n - 1
      BY <1>3, <1>5, <1>6, <1>7
    <2>2. \A k \in Int : 1 <= k /\ k <= i - 1 => t[k] = up[k]
      BY <1>3, <1>4, <1>5, <1>6, <1>7
    <2>3. \A k \in Int : i <= k /\ k <= n - 1 => t[k] = low[k - (i - 1)]
      BY <1>3, <1>4, <1>5, <1>6, <1>7
    <2> QED BY <2>1, <2>2, <2>3
  <1>9. RemoveAt(r, i) = t
    BY <1>1, <1>2, <1>3 DEF RemoveAt
  <1>10. ASSUME NEW k \in Int, 1 <= k, k <= n - 1
         PROVE  t[k] = IF k < i THEN r[k] ELSE r[k + 1]
    <2>1. CASE k < i
      BY <1>4, <1>5, <1>8, <1>10, <2>1
    <2>2. CASE k >= i
      <3>1. t[k] = low[k - (i - 1)]
        BY <1>4, <1>8, <1>10, <2>2
      <3>2. low[k - (i - 1)] = r[i + (k - (i - 1))] /\ i + (k - (i - 1)) = k + 1
        BY <1>4, <1>6, <1>10, <2>2
      <3> QED BY <1>4, <2>2, <3>1, <3>2
    <2> QED BY <1>4, <2>1, <2>2
  <1> QED BY <1>8, <1>9, <1>10 DEF IsRemoved

(* The row that was at i is at j, the others are in the order they were. *)
LEMMA RowMoved ==
  ASSUME NEW S, NEW r \in Seq(S), NEW n \in Nat, n = Len(r), NEW i \in 1 .. n, NEW j \in 1 .. n
  PROVE  IsPermuted(InsertAt(RemoveAt(r, i), j, r[i]), r, S)
  <1> DEFINE From(k) == IF k = j THEN i
                        ELSE LET l == IF k < j THEN k ELSE k - 1 IN IF l < i THEN l ELSE l + 1
             Back(l) == IF l = i THEN j
                        ELSE LET k == IF l < i THEN l ELSE l - 1 IN IF k < j THEN k ELSE k + 1
             f == [k \in 1 .. n |-> From(k)]
  <1>1. r[i] \in S
    OBVIOUS
  <1>2. PICK rest : rest = RemoveAt(r, i)
    OBVIOUS
  <1>3. IsRemoved(rest, r, i, S)
    BY <1>2, RowRemoved
  <1>4. /\ rest \in Seq(S) /\ Len(rest) = n - 1
        /\ \A k \in Int : 1 <= k /\ k < i => rest[k] = r[k]
        /\ \A k \in Int : i <= k /\ k <= n - 1 => rest[k] = r[k + 1]
    BY <1>3 DEF IsRemoved
  <1>5. PICK q : q = InsertAt(rest, j, r[i])
    OBVIOUS
  <1>6. IsTyped(q, rest, j, r[i], S)
    <2>1. n - 1 \in Nat /\ j \in 1 .. (n - 1) + 1
      OBVIOUS
    <2>2. PICK m \in Nat : m = n - 1 /\ j \in 1 .. m + 1
      BY <2>1
    <2> QED BY <1>1, <1>4, <1>5, <2>2, RowTyped
  <1>7. /\ q \in Seq(S) /\ Len(q) = n
        /\ \A k \in Int : 1 <= k /\ k < j => q[k] = rest[k]
        /\ q[j] = r[i]
        /\ \A k \in Int : j < k /\ k <= n => q[k] = rest[k - 1]
    BY <1>4, <1>6 DEF IsTyped
  <1>8. ASSUME NEW k \in 1 .. n PROVE From(k) \in 1 .. n /\ q[k] = r[From(k)]
    <2>1. CASE k = j
      BY <1>7, <2>1
    <2>2. CASE k < j
      <3>1. q[k] = rest[k] /\ k <= n - 1
        BY <1>7, <2>2
      <3> QED BY <1>4, <2>2, <3>1
    <2>3. CASE k > j
      <3>1. q[k] = rest[k - 1] /\ k - 1 \in 1 .. n - 1
        BY <1>7, <2>3
      <3>2. CASE k - 1 < i
        BY <1>4, <2>3, <3>1, <3>2
      <3>3. CASE k - 1 >= i
        <4>1. rest[k - 1] = r[(k - 1) + 1]
          BY <1>4, <3>1, <3>3
        <4> QED BY <2>3, <3>1, <3>3, <4>1
      <3> QED BY <3>2, <3>3
    <2> QED BY <2>1, <2>2, <2>3
  <1>9. ASSUME NEW k \in 1 .. n, NEW l \in 1 .. n, From(k) = From(l) PROVE k = l
    BY <1>9
  <1>10. ASSUME NEW l \in 1 .. n PROVE Back(l) \in 1 .. n /\ From(Back(l)) = l
    OBVIOUS
  <1> HIDE DEF From, Back
  <1>11. f \in [1 .. n -> 1 .. n]
    BY <1>8
  <1>12. /\ \A k \in 1 .. n : q[k] = r[f[k]]
         /\ \A k, l \in 1 .. n : f[k] = f[l] => k = l
         /\ \A l \in 1 .. n : \E k \in 1 .. n : f[k] = l
    BY <1>8, <1>9, <1>10
  <1> HIDE DEF f
  <1>13. IsPermuted(q, r, S)
    <2>1. /\ f \in [1 .. Len(r) -> 1 .. Len(r)]
          /\ \A k \in 1 .. Len(r) : q[k] = r[f[k]]
          /\ \A k, l \in 1 .. Len(r) : f[k] = f[l] => k = l
          /\ \A l \in 1 .. Len(r) : \E k \in 1 .. Len(r) : f[k] = l
      BY <1>11, <1>12
    <2>2. q \in Seq(S) /\ Len(q) = Len(r)
      BY <1>7
    <2> QED BY <2>1, <2>2, Zenon DEF IsPermuted
  <1> QED BY <1>2, <1>5, <1>13

-----------------------------------------------------------------------------
(* The two orders of SheetRows. *)
LEMMA NewerOrders ==
  ASSUME NEW a \in Mail, NEW b \in Mail, NEW c \in Mail
  PROVE  /\ ~Newer(a, a)
         /\ a # b => Newer(a, b) \/ Newer(b, a)
         /\ Newer(a, b) /\ Newer(b, c) => Newer(a, c)
         /\ Newer(a, b) => Date[a] >= Date[b]
  <1>1. a \in Nat /\ b \in Nat /\ c \in Nat /\ Date[a] \in Nat /\ Date[b] \in Nat /\ Date[c] \in Nat
    BY SheetAssumption
  <1> QED BY <1>1 DEF Newer

(* What a batch says of the rows it is for. *)
IsBatch(b) ==
  /\ b.at \in [DOMAIN b.at -> Nat \ {0}] /\ DOMAIN b.at \subseteq Mail
  /\ b.again \in [DOMAIN b.again -> Nat \ {0}] /\ DOMAIN b.again \subseteq Mail
  /\ b.state \in [DOMAIN b.at -> {"review", "read"}]

PartsAbove(n, b) == [y \in Parts(n, b) |-> {x \in Parts(n, b) : GoesAbove(x, y)}]

(* A part of the tab is a row that was there or a new mail in its block. *)
LEMMA PartIs ==
  ASSUME NEW n \in Nat, NEW b, IsBatch(b), NEW x \in Parts(n, b)
  PROVE  /\ x = <<x[1], x[2]>> /\ x[1] \in Nat
         /\ \/ x[2] = Blank /\ x[1] \in 1 .. n
            \/ x[2] \in DOMAIN b.at /\ x[2] \in Mail /\ x[2] # Blank /\ x[1] = b.at[x[2]]
  <1>1. CASE \E i \in 1 .. n : x = <<i, Blank>>
    BY <1>1
  <1>2. CASE \E m \in DOMAIN b.at : x = <<b.at[m], m>>
    BY <1>2, SheetAssumption DEF IsBatch
  <1> QED BY <1>1, <1>2 DEF Parts

(* The parts are finitely many, *)
LEMMA PartsFinite ==
  ASSUME NEW n \in Nat, NEW b, IsBatch(b)
  PROVE  IsFiniteSet(Parts(n, b))
  <1> DEFINE Old == {<<i, Blank>> : i \in 1 .. n}
             New == {<<b.at[m], m>> : m \in DOMAIN b.at}
             f == [i \in 1 .. n |-> <<i, Blank>>]
             g == [m \in DOMAIN b.at |-> <<b.at[m], m>>]
  <1>1. IsFiniteSet(1 .. n)
    BY FS_Interval
  <1>2. f \in Surjection(1 .. n, Old)
    BY DEF Surjection
  <1>3. IsFiniteSet(Old)
    <2> HIDE DEF f, Old
    <2> QED BY <1>1, <1>2, FS_Surjection
  <1>4. IsFiniteSet(DOMAIN b.at)
    BY SheetAssumption, FS_Subset DEF IsBatch
  <1>5. g \in Surjection(DOMAIN b.at, New)
    BY DEF Surjection
  <1>6. IsFiniteSet(New)
    <2> HIDE DEF g, New
    <2> QED BY <1>4, <1>5, FS_Surjection
  <1>7. IsFiniteSet(Old \cup New)
    <2> HIDE DEF Old, New
    <2> QED BY <1>3, <1>6, FS_Union
  <1> QED BY <1>7 DEF Parts

(* and GoesAbove orders them. *)
LEMMA PartsOrdered ==
  ASSUME NEW n \in Nat, NEW b, IsBatch(b)
  PROVE  Orders(PartsAbove(n, b), Parts(n, b))
  <1>1. PICK S : S = Parts(n, b)
    OBVIOUS
  <1>2. \A x \in S : /\ x = <<x[1], x[2]>> /\ x[1] \in Nat
                     /\ \/ x[2] = Blank /\ x[1] \in 1 .. n
                        \/ x[2] \in Mail /\ x[2] # Blank /\ x[1] = b.at[x[2]]
    BY <1>1, PartIs
  <1>3. ASSUME NEW x \in S PROVE ~GoesAbove(x, x)
    BY <1>2, NewerOrders DEF GoesAbove
  <1>4. ASSUME NEW x \in S, NEW y \in S, x # y PROVE GoesAbove(x, y) \/ GoesAbove(y, x)
    <2>1. x[1] # y[1] \/ x[2] # y[2]
      BY <1>2, <1>4
    <2>2. CASE x[1] # y[1]
      BY <1>2, <2>2 DEF GoesAbove
    <2>3. CASE x[1] = y[1] /\ x[2] # y[2]
      <3>1. CASE x[2] = Blank \/ y[2] = Blank
        BY <2>3, <3>1 DEF GoesAbove
      <3>2. CASE x[2] # Blank /\ y[2] # Blank
        <4>1. x[2] \in Mail /\ y[2] \in Mail
          BY <1>2, <3>2
        <4> QED BY <2>3, <3>2, <4>1, NewerOrders DEF GoesAbove
      <3> QED BY <3>1, <3>2
    <2> QED BY <2>1, <2>2, <2>3
  <1>5. ASSUME NEW x \in S, NEW y \in S, NEW z \in S, GoesAbove(x, y), GoesAbove(y, z)
        PROVE  GoesAbove(x, z)
    <2>1. x[1] \in Nat /\ y[1] \in Nat /\ z[1] \in Nat
      BY <1>2
    <2>2. CASE x[1] < y[1] \/ y[1] < z[1]
      BY <1>5, <2>1, <2>2 DEF GoesAbove
    <2>3. CASE ~(x[1] < y[1]) /\ ~(y[1] < z[1])
      <3>1. /\ x[1] = z[1] /\ x[2] # Blank /\ y[2] # Blank /\ Newer(x[2], y[2])
            /\ z[2] = Blank \/ Newer(y[2], z[2])
        BY <1>5, <2>3 DEF GoesAbove
      <3>2. x[2] \in Mail /\ y[2] \in Mail /\ (z[2] = Blank \/ z[2] \in Mail)
        BY <1>2, <3>1
      <3>3. z[2] = Blank \/ Newer(x[2], z[2])
        BY <3>1, <3>2, NewerOrders
      <3> QED BY <3>1, <3>3 DEF GoesAbove
    <2> QED BY <2>2, <2>3
  <1>6. IsFiniteSet(S)
    BY <1>1, PartsFinite
  <1>7. PICK above : above = [y \in S |-> {x \in S : GoesAbove(x, y)}]
    OBVIOUS
  <1>8. above \in [S -> SUBSET S] /\ \A x, y \in S : x \in above[y] <=> GoesAbove(x, y)
    BY <1>7
  <1>9. Orders(above, S)
    BY <1>3, <1>4, <1>5, <1>6, <1>8 DEF Orders
  <1> QED BY <1>1, <1>7, <1>9 DEF PartsAbove

SortAbove(r) == [j \in DOMAIN r |-> {i \in DOMAIN r : SortsAbove(r, i, j)}]

(* The order of the sort is one. *)
LEMMA SortOrdered ==
  ASSUME NEW r \in Seq(Row)
  PROVE  Orders(SortAbove(r), DOMAIN r)
  <1>1. PICK n \in Nat : n = Len(r) /\ DOMAIN r = 1 .. n
    OBVIOUS
  <1>2. \A i \in 1 .. n : i \in Int /\ (r[i].id = Blank \/ r[i].id \in Mail)
    <2>1. \A i \in 1 .. n : r[i] \in Row
      BY <1>1
    <2> QED BY <2>1 DEF Row
  <1>3. ASSUME NEW i \in 1 .. n PROVE ~SortsAbove(r, i, i)
    BY DEF SortsAbove
  <1>4. ASSUME NEW i \in 1 .. n, NEW j \in 1 .. n, i # j PROVE SortsAbove(r, i, j) \/ SortsAbove(r, j, i)
    <2>1. CASE r[i].id = r[j].id
      BY <1>4, <2>1 DEF SortsAbove
    <2>2. CASE r[i].id # r[j].id
      BY <1>2, <2>2, NewerOrders DEF SortsAbove
    <2> QED BY <2>1, <2>2
  <1>5. ASSUME NEW i \in 1 .. n, NEW j \in 1 .. n, NEW k \in 1 .. n,
               SortsAbove(r, i, j), SortsAbove(r, j, k)
        PROVE  SortsAbove(r, i, k)
    <2>1. CASE r[i].id = r[j].id \/ r[j].id = r[k].id
      BY <1>2, <1>5, <2>1 DEF SortsAbove
    <2>2. CASE r[i].id # r[j].id /\ r[j].id # r[k].id
      <3>1. /\ r[j].id = Blank \/ (r[i].id # Blank /\ Newer(r[i].id, r[j].id))
            /\ r[k].id = Blank \/ (r[j].id # Blank /\ Newer(r[j].id, r[k].id))
        BY <1>5, <2>2 DEF SortsAbove
      <3>2. r[i].id # Blank
        BY <2>2, <3>1
      <3>3. CASE r[k].id = Blank
        BY <3>2, <3>3 DEF SortsAbove
      <3>4. CASE r[k].id # Blank
        <4>1. /\ r[i].id \in Mail /\ r[j].id \in Mail /\ r[k].id \in Mail
              /\ Newer(r[i].id, r[j].id) /\ Newer(r[j].id, r[k].id)
          BY <1>2, <3>1, <3>2, <3>4
        <4>2. Newer(r[i].id, r[k].id) /\ r[i].id # r[k].id
          BY <4>1, NewerOrders
        <4> QED BY <3>2, <4>2 DEF SortsAbove
      <3> QED BY <3>3, <3>4
    <2> QED BY <2>1, <2>2
  <1>6. IsFiniteSet(1 .. n)
    BY FS_Interval
  <1>7. PICK above : above = [j \in 1 .. n |-> {i \in 1 .. n : SortsAbove(r, i, j)}]
    OBVIOUS
  <1>8. above \in [1 .. n -> SUBSET (1 .. n)] /\ \A i, j \in 1 .. n : i \in above[j] <=> SortsAbove(r, i, j)
    BY <1>7
  <1>9. Orders(above, 1 .. n)
    BY <1>3, <1>4, <1>5, <1>6, <1>8 DEF Orders
  <1> QED BY <1>1, <1>7, <1>9 DEF SortAbove

-----------------------------------------------------------------------------
(* The tab after a batch. *)
LEMMA MadeSequence ==
  ASSUME NEW S, NEW n \in Nat, NEW q \in [1 .. n -> S]
  PROVE  q \in Seq(S) /\ Len(q) = n /\ DOMAIN q = 1 .. n
  OBVIOUS

(* The sort loses no row and leaves the dates newest first. *)
LEMMA SortedRows ==
  ASSUME NEW r \in Seq(Row)
  PROVE  IsPermuted(Sorted(r), r, Row) /\ NewestFirst(Sorted(r))
  <1>1. PICK n \in Nat : n = Len(r) /\ DOMAIN r = 1 .. n
    OBVIOUS
  <1>2. PICK above : above = SortAbove(r)
    OBVIOUS
  <1>3. Orders(above, 1 .. n)
    BY <1>1, <1>2, SortOrdered
  <1>4. Cardinality(1 .. n) = n
    BY FS_Interval
  <1>5. PICK o : o = InOrder(above)
    OBVIOUS
  <1>6. /\ o \in [1 .. n -> 1 .. n]
        /\ \A x \in 1 .. n : \E k \in 1 .. n : o[k] = x
        /\ \A i, j \in 1 .. n : i < j => o[i] \in above[o[j]]
        /\ \A i, j \in 1 .. n : o[i] = o[j] => i = j
    <2>1. /\ o \in [1 .. Cardinality(1 .. n) -> 1 .. n]
          /\ \A x \in 1 .. n : /\ Cardinality(above[x]) + 1 \in 1 .. Cardinality(1 .. n)
                               /\ o[Cardinality(above[x]) + 1] = x
          /\ \A i, j \in 1 .. Cardinality(1 .. n) : i < j => o[i] \in above[o[j]]
          /\ \A i, j \in 1 .. Cardinality(1 .. n) : o[i] = o[j] => i = j
      BY <1>3, <1>5, InOrderPlaces
    <2> QED BY <1>4, <2>1
  <1>7. PICK q : q = [k \in 1 .. n |-> r[o[k]]]
    OBVIOUS
  <1>8. Sorted(r) = q
    <2>1. Sorted(r) = [k \in DOMAIN o |-> r[o[k]]]
      BY <1>2, <1>5 DEF Sorted, SortAbove
    <2>2. DOMAIN o = 1 .. n
      BY <1>6
    <2> QED BY <1>7, <2>1, <2>2
  <1>9. q \in Seq(Row) /\ Len(q) = n /\ DOMAIN q = 1 .. n
    <2>1. \A k \in 1 .. n : r[o[k]] \in Row
      BY <1>1, <1>6
    <2>2. q \in [1 .. n -> Row]
      BY <1>7, <2>1
    <2> QED BY <2>2, MadeSequence
  <1>10. IsPermuted(q, r, Row)
    <2>1. \A k \in 1 .. n : q[k] = r[o[k]]
      BY <1>7
    <2>2. /\ o \in [1 .. Len(r) -> 1 .. Len(r)]
          /\ \A k \in 1 .. Len(r) : q[k] = r[o[k]]
          /\ \A k, l \in 1 .. Len(r) : o[k] = o[l] => k = l
          /\ \A l \in 1 .. Len(r) : \E k \in 1 .. Len(r) : o[k] = l
      BY <1>1, <1>6, <2>1
    <2>3. q \in Seq(Row) /\ Len(q) = Len(r)
      BY <1>1, <1>9
    <2> QED BY <2>2, <2>3, Zenon DEF IsPermuted
  <1>11. NewestFirst(q)
    <2> SUFFICES ASSUME NEW i \in 1 .. n, NEW j \in 1 .. n, q[i].id # Blank, q[j].id # Blank, i < j
                 PROVE  Date[q[i].id] >= Date[q[j].id]
      BY <1>9 DEF NewestFirst, Dated
    <2>1. /\ o[i] \in 1 .. n /\ o[j] \in 1 .. n /\ o[i] \in above[o[j]]
          /\ q[i] = r[o[i]] /\ q[j] = r[o[j]]
      BY <1>6, <1>7
    <2>2. SortsAbove(r, o[i], o[j])
      BY <1>1, <1>2, <2>1 DEF SortAbove
    <2>3. r[o[i]].id \in Mail /\ r[o[j]].id \in Mail
      <3>1. r[o[i]] \in Row /\ r[o[j]] \in Row
        BY <1>1, <2>1
      <3> QED BY <2>1, <3>1 DEF Row
    <2>4. r[o[i]].id = r[o[j]].id \/ Newer(r[o[i]].id, r[o[j]].id)
      BY <2>1, <2>2, <2>3 DEF SortsAbove
    <2>5. Date[r[o[i]].id] >= Date[r[o[j]].id]
      <3>1. Date[r[o[i]].id] \in Nat
        BY <2>3, SheetAssumption
      <3> QED BY <2>3, <2>4, <3>1, NewerOrders
    <2> QED BY <2>1, <2>5
  <1> QED BY <1>8, <1>10, <1>11

(* A row of the person's is a row. *)
LEMMA HerRowIsARow == HerRow \in Row
  BY DEF HerRow, Row

(* Padding a tab adds empty rows below, as many as are missing. *)
LEMMA PaddedRows ==
  ASSUME NEW r \in Seq(Row), NEW n \in Nat
  PROVE  /\ Padded(r, n) \in Seq(Row)
         /\ Len(Padded(r, n)) >= n
         /\ n <= Len(r) => Padded(r, n) = r
  <1>1. PICK l \in Nat : l = Len(r)
    OBVIOUS
  <1>2. PICK more : more = Max({0, n - l})
    OBVIOUS
  <1>3. more \in Nat /\ more >= n - l /\ (n <= l => more = 0)
    <2>1. IsFiniteSet({0, n - l})
      <3>1. {0, n - l} = {0} \cup {n - l}
        OBVIOUS
      <3>2. IsFiniteSet({0}) /\ IsFiniteSet({n - l})
        BY FS_Singleton
      <3>3. IsFiniteSet({0} \cup {n - l})
        BY <3>2, FS_Union
      <3> QED BY <3>1, <3>3
    <2>2. Max({0, n - l}) \in {0, n - l} /\ \A y \in {0, n - l} : Max({0, n - l}) >= y
      BY <2>1, MaxOf
    <2> QED BY <1>2, <2>2
  <1>4. PICK rest : rest = [i \in 1 .. more |-> HerRow]
    OBVIOUS
  <1>5. rest \in Seq(Row) /\ Len(rest) = more
    BY <1>3, <1>4, HerRowIsARow
  <1>6. Padded(r, n) = r \o rest
    BY <1>1, <1>2, <1>4 DEF Padded
  <1>7. r \o rest \in Seq(Row) /\ Len(r \o rest) = l + more
    BY <1>1, <1>5
  <1>8. ASSUME n <= l PROVE r \o rest = r
    <2>1. rest = <<>>
      BY <1>3, <1>5, <1>8
    <2> QED BY <2>1
  <1> QED BY <1>1, <1>3, <1>6, <1>7, <1>8

(* The greatest index of a batch, for the padding. *)
LEMMA GreatestIndex ==
  ASSUME NEW D, D \subseteq Mail, NEW f \in [D -> Nat]
  PROVE  /\ Max({0} \cup {f[m] : m \in D}) \in Nat
         /\ \A m \in D : f[m] <= Max({0} \cup {f[m1] : m1 \in D})
         /\ \A n \in Nat : (\A m \in D : f[m] <= n) => Max({0} \cup {f[m] : m \in D}) <= n
  <1>1. IsFiniteSet(D)
    BY SheetAssumption, FS_Subset
  <1>2. PICK V : V = {f[m] : m \in D}
    OBVIOUS
  <1>3. f \in Surjection(D, V)
    BY <1>2 DEF Surjection
  <1>4. IsFiniteSet(V)
    BY <1>1, <1>3, FS_Surjection
  <1>5. IsFiniteSet({0} \cup V)
    BY <1>4, FS_Singleton, FS_Union
  <1>6. V \subseteq Nat
    BY <1>2
  <1>7. Max({0} \cup V) \in {0} \cup V /\ \A y \in {0} \cup V : Max({0} \cup V) >= y
    <2>1. PICK W : W = {0} \cup V
      OBVIOUS
    <2>2. W \subseteq Int /\ IsFiniteSet(W) /\ W # {}
      BY <1>5, <1>6, <2>1
    <2>3. Max(W) \in W /\ \A y \in W : Max(W) >= y
      BY <2>2, MaxOf
    <2> QED BY <2>1, <2>3
  <1>8. \A m \in D : f[m] \in V
    BY <1>2
  <1>9. \A v \in V : \E m \in D : v = f[m]
    BY <1>2
  <1>10. /\ Max({0} \cup V) \in Nat
         /\ \A m \in D : f[m] <= Max({0} \cup V)
         /\ \A n \in Nat : (\A m \in D : f[m] <= n) => Max({0} \cup V) <= n
    <2>1. PICK x : x = Max({0} \cup V)
      OBVIOUS
    <2>2. x \in {0} \cup V /\ \A y \in {0} \cup V : x >= y
      BY <1>7, <2>1
    <2>3. x \in Nat
      BY <1>6, <2>2
    <2>4. \A m \in D : f[m] <= x
      <3> SUFFICES ASSUME NEW m \in D PROVE f[m] <= x
        OBVIOUS
      <3>1. f[m] \in V /\ f[m] \in Nat
        BY <1>8
      <3> QED BY <2>2, <2>3, <3>1
    <2>5. ASSUME NEW n \in Nat, \A m \in D : f[m] <= n PROVE x <= n
      <3>1. CASE x = 0
        BY <3>1
      <3>2. CASE x \in V
        BY <1>9, <2>5, <3>2
      <3> QED BY <2>2, <3>1, <3>2
    <2> QED BY <2>1, <2>3, <2>4, <2>5
  <1> QED BY <1>2, <1>10

PlaceOf(x, n, b) == Cardinality({y \in Parts(n, b) : GoesAbove(y, x)}) + 1
IsInserted(q, r, b) ==
  /\ q \in Seq(Row)
  /\ \E o \in [1 .. Len(q) -> Parts(Len(r), b)] :
       /\ \A k \in 1 .. Len(q) : q[k] = RowOf(o[k], r, b)
       /\ \A i, j \in 1 .. Len(q) : o[i] = o[j] => i = j
       /\ \A i, j \in 1 .. Len(q) : i < j => GoesAbove(o[i], o[j])
       /\ \A x \in Parts(Len(r), b) :
            PlaceOf(x, Len(r), b) \in 1 .. Len(q) /\ o[PlaceOf(x, Len(r), b)] = x

LongFor(r, b) == Padded(r, Max({0} \cup {b.at[m] - 1 : m \in DOMAIN b.at}))

(* The padded tab reaches every block; a batch that names no row past the end *)
(* pads nothing.                                                              *)
LEMMA LongRows ==
  ASSUME NEW r \in Seq(Row), NEW b, IsBatch(b)
  PROVE  /\ LongFor(r, b) \in Seq(Row)
         /\ \A m \in DOMAIN b.at : b.at[m] <= Len(LongFor(r, b)) + 1
         /\ (\A m \in DOMAIN b.at : b.at[m] <= Len(r) + 1) => LongFor(r, b) = r
  <1> DEFINE D == DOMAIN b.at
  <1>1. PICK f : f = [m \in D |-> b.at[m] - 1]
    OBVIOUS
  <1>2. f \in [D -> Nat] /\ D \subseteq Mail /\ \A m \in D : b.at[m] \in Nat /\ f[m] = b.at[m] - 1
    BY <1>1 DEF IsBatch
  <1>3. PICK n : n = Max({0} \cup {f[m] : m \in D})
    OBVIOUS
  <1>4. {f[m] : m \in D} = {b.at[m] - 1 : m \in D}
    BY <1>2
  <1>5. LongFor(r, b) = Padded(r, n)
    BY <1>3, <1>4 DEF LongFor
  <1>6. /\ n \in Nat
        /\ \A m \in D : f[m] <= n
        /\ \A k \in Nat : (\A m \in D : f[m] <= k) => n <= k
    BY <1>2, <1>3, GreatestIndex
  <1>7. /\ Padded(r, n) \in Seq(Row)
        /\ Len(Padded(r, n)) >= n
        /\ n <= Len(r) => Padded(r, n) = r
    BY <1>6, PaddedRows
  <1>8. PICK long \in Seq(Row) : long = Padded(r, n)
    BY <1>7
  <1>9. \A m \in D : b.at[m] <= Len(long) + 1
    BY <1>2, <1>6, <1>7, <1>8
  <1>10. ASSUME \A m \in D : b.at[m] <= Len(r) + 1 PROVE long = r
    <2>1. \A m \in D : f[m] <= Len(r)
      BY <1>2, <1>10
    <2> QED BY <1>6, <1>7, <1>8, <2>1
  <1> HIDE DEF D
  <1> QED BY <1>5, <1>8, <1>9, <1>10 DEF D

(* Every part is a row. *)
LEMMA RowOfIsARow ==
  ASSUME NEW r \in Seq(Row), NEW b, IsBatch(b), NEW x \in Parts(Len(r), b)
  PROVE  RowOf(x, r, b) \in Row
  <1>0. PICK n \in Nat : n = Len(r)
    OBVIOUS
  <1>1. CASE x[2] = Blank
    <2>1. x[1] \in 1 .. Len(r)
      <3>1. x \in Parts(n, b)
        BY <1>0
      <3>2. x[1] \in 1 .. n
        BY <1>1, <3>1, PartIs
      <3> QED BY <1>0, <3>2
    <2> QED BY <1>1, <2>1 DEF RowOf
  <1>2. CASE x[2] # Blank
    <2>1. x[2] \in Mail /\ x[2] \in DOMAIN b.at
      <3>1. x \in Parts(n, b)
        BY <1>0
      <3> QED BY <1>2, <3>1, PartIs
    <2>2. b.state[x[2]] \in {"review", "read"}
      BY <2>1 DEF IsBatch
    <2> QED BY <1>2, <2>1, <2>2 DEF RowOf, NewRow, Row
  <1> QED BY <1>1, <1>2

(* Inserting the blocks makes the tab that has each part at its place. *)
LEMMA InsertedRows ==
  ASSUME NEW r \in Seq(Row), NEW b, IsBatch(b)
  PROVE  IsInserted(Inserted(r, b), LongFor(r, b), b)
  <1>1. PICK long \in Seq(Row) : long = LongFor(r, b)
    BY LongRows
  <1>2. PICK S : S = Parts(Len(long), b)
    OBVIOUS
  <1>3. PICK above : above = PartsAbove(Len(long), b)
    OBVIOUS
  <1>4. Orders(above, S)
    BY <1>2, <1>3, PartsOrdered
  <1>5. \A x, y \in S : x \in above[y] <=> GoesAbove(x, y)
    BY <1>2, <1>3 DEF PartsAbove
  <1>6. \A x \in S : Cardinality(above[x]) + 1 = PlaceOf(x, Len(long), b)
    BY <1>2, <1>3 DEF PartsAbove, PlaceOf
  <1>7. PICK o : o = InOrder(above)
    OBVIOUS
  <1>8. PICK n \in Nat : n = Cardinality(S)
    BY <1>4, InOrderPlaces
  <1>9. /\ o \in [1 .. n -> S]
        /\ \A x \in S : Cardinality(above[x]) + 1 \in 1 .. n /\ o[Cardinality(above[x]) + 1] = x
        /\ \A i, j \in 1 .. n : i < j => o[i] \in above[o[j]]
        /\ \A i, j \in 1 .. n : o[i] = o[j] => i = j
    BY <1>4, <1>7, <1>8, InOrderPlaces
  <1>10. PICK q : q = [k \in 1 .. n |-> RowOf(o[k], long, b)]
    OBVIOUS
  <1>11. Inserted(r, b) = q
    <2>1. Inserted(r, b) = [k \in DOMAIN o |-> RowOf(o[k], long, b)]
      BY <1>1, <1>3, <1>7 DEF Inserted, PartsAbove, LongFor
    <2> QED BY <1>9, <1>10, <2>1
  <1>12. q \in Seq(Row) /\ Len(q) = n
    <2>1. \A k \in 1 .. n : RowOf(o[k], long, b) \in Row
      BY <1>2, <1>9, RowOfIsARow
    <2>2. q \in [1 .. n -> Row]
      BY <1>10, <2>1
    <2> QED BY <2>2, MadeSequence
  <1>13. \A i, j \in 1 .. n : i < j => GoesAbove(o[i], o[j])
    BY <1>5, <1>9
  <1>14. \A x \in S : PlaceOf(x, Len(long), b) \in 1 .. n /\ o[PlaceOf(x, Len(long), b)] = x
    BY <1>6, <1>9
  <1>15. \A k \in 1 .. n : q[k] = RowOf(o[k], long, b)
    BY <1>10
  <1>16. IsInserted(q, long, b)
    BY <1>2, <1>9, <1>12, <1>13, <1>14, <1>15, Zenon DEF IsInserted
  <1> QED BY <1>1, <1>11, <1>16

-----------------------------------------------------------------------------
(* Where rows are afterwards: landed and pushed are their places. *)
OldParts(k) == {<<i, Blank>> : i \in 1 .. k}
NewParts(T, b) == {<<b.at[m], m>> : m \in T}

(* The parts above a place, counted. *)
LEMMA CountParts ==
  ASSUME NEW k \in Nat, NEW b, IsBatch(b), NEW T, T \subseteq DOMAIN b.at
  PROVE  /\ IsFiniteSet(T) /\ Cardinality(T) \in Nat
         /\ Cardinality(OldParts(k) \cup NewParts(T, b)) = k + Cardinality(T)
  <1>1. IsFiniteSet(T) /\ Cardinality(T) \in Nat
    <2>1. T \subseteq Mail
      BY DEF IsBatch
    <2> QED BY <2>1, SheetAssumption, FS_Subset, FS_CardinalityType
  <1>2. T \subseteq Mail /\ Blank \notin T
    BY SheetAssumption DEF IsBatch
  <1>3. IsFiniteSet(1 .. k) /\ Cardinality(1 .. k) = k
    BY FS_Interval
  <1>4. PICK f : f = [i \in 1 .. k |-> <<i, Blank>>]
    OBVIOUS
  <1>5. f \in Surjection(1 .. k, OldParts(k)) /\ f \in Injection(1 .. k, OldParts(k))
    BY <1>4 DEF OldParts, Surjection, Injection, IsInjective
  <1>6. IsFiniteSet(OldParts(k)) /\ Cardinality(OldParts(k)) = k
    BY <1>3, <1>5, FS_Surjection
  <1>7. PICK g : g = [m \in T |-> <<b.at[m], m>>]
    OBVIOUS
  <1>8. g \in Surjection(T, NewParts(T, b)) /\ g \in Injection(T, NewParts(T, b))
    BY <1>7 DEF NewParts, Surjection, Injection, IsInjective
  <1>9. IsFiniteSet(NewParts(T, b)) /\ Cardinality(NewParts(T, b)) = Cardinality(T)
    BY <1>1, <1>8, FS_Surjection
  <1>10. OldParts(k) \cap NewParts(T, b) = {}
    <2> SUFFICES ASSUME NEW i \in 1 .. k, NEW m \in T, <<i, Blank>> = <<b.at[m], m>> PROVE FALSE
      BY DEF OldParts, NewParts
    <2> QED BY <1>2
  <1>11. Cardinality(OldParts(k) \cap NewParts(T, b)) = 0
    BY <1>10, FS_EmptySet
  <1>12. Cardinality(OldParts(k) \cup NewParts(T, b)) = k + Cardinality(T) - 0
    BY <1>6, <1>9, <1>11, FS_Union
  <1> QED BY <1>1, <1>12

(* A row that was there is pushed by the new mails in the blocks above it, *)
LEMMA PlaceOfOld ==
  ASSUME NEW n \in Nat, NEW b, IsBatch(b), NEW i \in 1 .. n
  PROVE  PlaceOf(<<i, Blank>>, n, b) = i + Cardinality(Above(b, i + 1))
  <1>1. PICK T : T = Above(b, i + 1)
    OBVIOUS
  <1>2. T \subseteq DOMAIN b.at
    BY <1>1 DEF Above
  <1>3. ASSUME NEW y \in Parts(n, b)
        PROVE  GoesAbove(y, <<i, Blank>>) <=> y \in OldParts(i - 1) \cup NewParts(T, b)
    <2>1. /\ y = <<y[1], y[2]>> /\ y[1] \in Nat
          /\ \/ y[2] = Blank /\ y[1] \in 1 .. n
             \/ y[2] \in DOMAIN b.at /\ y[2] \in Mail /\ y[2] # Blank /\ y[1] = b.at[y[2]]
      BY PartIs
    <2>2. GoesAbove(y, <<i, Blank>>) <=> y[1] < i \/ (y[1] = i /\ y[2] # Blank)
      BY DEF GoesAbove
    <2>3. CASE y[2] = Blank
      <3>1. y \in OldParts(i - 1) <=> y[1] < i
        BY <2>1, <2>3 DEF OldParts
      <3>2. y \notin NewParts(T, b)
        BY <1>2, <2>3, SheetAssumption DEF NewParts, IsBatch
      <3> QED BY <2>2, <2>3, <3>1, <3>2
    <2>4. CASE y[2] # Blank
      <3>1. y \notin OldParts(i - 1)
        BY <2>4 DEF OldParts
      <3>2. y \in NewParts(T, b) <=> y[2] \in T
        BY <2>1, <2>4 DEF NewParts
      <3>3. y[2] \in T <=> y[1] < i + 1
        BY <1>1, <2>1, <2>4 DEF Above
      <3> QED BY <2>1, <2>2, <2>4, <3>1, <3>2, <3>3
    <2> QED BY <2>3, <2>4
  <1>4. OldParts(i - 1) \cup NewParts(T, b) \subseteq Parts(n, b)
    BY <1>2 DEF OldParts, NewParts, Parts
  <1>5. {y \in Parts(n, b) : GoesAbove(y, <<i, Blank>>)} = OldParts(i - 1) \cup NewParts(T, b)
    BY <1>3, <1>4
  <1>6. PICK k \in Nat : k = i - 1
    OBVIOUS
  <1>7. Cardinality(OldParts(k) \cup NewParts(T, b)) = k + Cardinality(T) /\ Cardinality(T) \in Nat
    BY <1>2, CountParts
  <1>8. PlaceOf(<<i, Blank>>, n, b) = Cardinality(OldParts(k) \cup NewParts(T, b)) + 1
    BY <1>5, <1>6 DEF PlaceOf
  <1> QED BY <1>1, <1>6, <1>7, <1>8

(* and a new mail is where the code says it landed. *)
LEMMA PlaceOfNew ==
  ASSUME NEW n \in Nat, NEW b, IsBatch(b), NEW m \in DOMAIN b.at, b.at[m] <= n + 1
  PROVE  PlaceOf(<<b.at[m], m>>, n, b) = Landed(b, m)
  <1>1. PICK i \in Nat : i = b.at[m] /\ i >= 1 /\ i <= n + 1
    BY DEF IsBatch
  <1>2. PICK A : A = Above(b, i)
    OBVIOUS
  <1>3. PICK E : E = {x \in DOMAIN b.at : b.at[x] = i /\ Newer(x, m)}
    OBVIOUS
  <1>4. PICK T : T = A \cup E
    OBVIOUS
  <1>5. A \subseteq DOMAIN b.at /\ E \subseteq DOMAIN b.at /\ T \subseteq DOMAIN b.at
    BY <1>2, <1>3, <1>4 DEF Above
  <1>6. m \in Mail /\ m # Blank
    BY SheetAssumption DEF IsBatch
  <1>7. ASSUME NEW y \in Parts(n, b)
        PROVE  GoesAbove(y, <<i, m>>) <=> y \in OldParts(i - 1) \cup NewParts(T, b)
    <2>1. /\ y = <<y[1], y[2]>> /\ y[1] \in Nat
          /\ \/ y[2] = Blank /\ y[1] \in 1 .. n
             \/ y[2] \in DOMAIN b.at /\ y[2] \in Mail /\ y[2] # Blank /\ y[1] = b.at[y[2]]
      BY PartIs
    <2>2. GoesAbove(y, <<i, m>>) <=> y[1] < i \/ (y[1] = i /\ y[2] # Blank /\ Newer(y[2], m))
      BY <1>6 DEF GoesAbove
    <2>3. CASE y[2] = Blank
      <3>1. y \in OldParts(i - 1) <=> y[1] < i
        BY <2>1, <2>3 DEF OldParts
      <3>2. y \notin NewParts(T, b)
        BY <1>5, <2>3, SheetAssumption DEF NewParts, IsBatch
      <3> QED BY <2>2, <2>3, <3>1, <3>2
    <2>4. CASE y[2] # Blank
      <3>1. y \notin OldParts(i - 1)
        BY <2>4 DEF OldParts
      <3>2. y \in NewParts(T, b) <=> y[2] \in T
        BY <2>1, <2>4 DEF NewParts
      <3>3. y[2] \in T <=> y[1] < i \/ (y[1] = i /\ Newer(y[2], m))
        BY <1>2, <1>3, <1>4, <2>1, <2>4 DEF Above
      <3> QED BY <2>1, <2>2, <2>4, <3>1, <3>2, <3>3
    <2> QED BY <2>3, <2>4
  <1>8. OldParts(i - 1) \cup NewParts(T, b) \subseteq Parts(n, b)
    BY <1>1, <1>5 DEF OldParts, NewParts, Parts
  <1>9. {y \in Parts(n, b) : GoesAbove(y, <<i, m>>)} = OldParts(i - 1) \cup NewParts(T, b)
    BY <1>7, <1>8
  <1>10. PICK k \in Nat : k = i - 1
    BY <1>1
  <1>11. Cardinality(OldParts(k) \cup NewParts(T, b)) = k + Cardinality(T)
    BY <1>5, CountParts
  <1>12. Cardinality(T) = Cardinality(A) + Cardinality(E)
    <2>1. /\ IsFiniteSet(A) /\ Cardinality(A) \in Nat
          /\ IsFiniteSet(E) /\ Cardinality(E) \in Nat
      BY <1>5, <1>10, CountParts
    <2>2. A \cap E = {}
      BY <1>1, <1>2, <1>3 DEF Above, IsBatch
    <2>3. Cardinality(A \cap E) = 0
      BY <2>2, FS_EmptySet
    <2>4. Cardinality(T) = Cardinality(A) + Cardinality(E) - Cardinality(A \cap E)
      BY <1>4, <2>1, FS_Union
    <2> QED BY <2>1, <2>3, <2>4
  <1>13. PlaceOf(<<i, m>>, n, b) = Cardinality(OldParts(k) \cup NewParts(T, b)) + 1
    BY <1>9, <1>10 DEF PlaceOf
  <1>14. Landed(b, m) = i + Cardinality(A) + Cardinality(E)
    BY <1>1, <1>2, <1>3 DEF Landed
  <1>15. Cardinality(A) \in Nat /\ Cardinality(E) \in Nat
    BY <1>5, <1>10, CountParts
  <1> QED BY <1>1, <1>10, <1>11, <1>12, <1>13, <1>14, <1>15

-----------------------------------------------------------------------------
(* What is read off the rows. *)
Single(r) == \A i, j \in 1 .. Len(r) : r[i].id = r[j].id /\ r[i].id # Blank => i = j

(* Every row of a tab carries a mail or none. *)
LEMMA RowsAre ==
  ASSUME NEW r \in Seq(Row)
  PROVE  /\ Len(r) \in Nat /\ DOMAIN r = 1 .. Len(r)
         /\ \A i \in 1 .. Len(r) : r[i] \in Row /\ (r[i].id = Blank \/ r[i].id \in Mail)
  <1>1. Len(r) \in Nat /\ DOMAIN r = 1 .. Len(r) /\ \A i \in 1 .. Len(r) : r[i] \in Row
    OBVIOUS
  <1> QED BY <1>1 DEF Row

(* The log of a mail that has no row, *)
LEMMA LogAbsent ==
  ASSUME NEW r, NEW m \in Mail, RowsOf(m, r) = {}
  PROVE  LogOf(r)[m] = "absent" /\ m \notin NotedOn(r)
  BY DEF LogOf, NotedOn

(* and of one that has one. *)
LEMMA LogPresent ==
  ASSUME NEW r \in Seq(Row), Single(r), NEW m \in Mail, NEW i \in 1 .. Len(r), r[i].id = m
  PROVE  LogOf(r)[m] = r[i].state /\ (m \in NotedOn(r) <=> r[i].noted)
  <1>1. m # Blank
    BY SheetAssumption
  <1>2. DOMAIN r = 1 .. Len(r) /\ i \in Nat
    BY RowsAre
  <1>3. RowsOf(m, r) = {i}
    BY <1>1, <1>2 DEF RowsOf, Single
  <1>4. Cardinality(RowsOf(m, r)) = 1
    BY <1>3, FS_Singleton
  <1>5. Where(m, r) = i
    <2>1. Min({i}) \in {i}
      BY <1>2, MinOf
    <2> QED BY <1>3, <2>1 DEF Where
  <1>6. LogOf(r)[m] = r[i].state
    BY <1>3, <1>4, <1>5 DEF LogOf
  <1>7. m \in NotedOn(r) <=> r[i].noted
    BY <1>3 DEF NotedOn
  <1> QED BY <1>6, <1>7

(* Where a mail is, its id is. *)
LEMMA WhereIs ==
  ASSUME NEW r \in Seq(Row), NEW m \in OnSheet(r)
  PROVE  Where(m, r) \in 1 .. Len(r) /\ r[Where(m, r)].id = m
  <1>1. RowsOf(m, r) # {} /\ RowsOf(m, r) \subseteq 1 .. Len(r)
    BY RowsAre DEF OnSheet, RowsOf
  <1>2. RowsOf(m, r) \subseteq Nat
    BY <1>1
  <1>3. Where(m, r) \in RowsOf(m, r)
    BY <1>1, <1>2, MinOf DEF Where
  <1> QED BY <1>1, <1>3 DEF RowsOf

(* The end is past every row that is dated. *)
LEMMA EndIs ==
  ASSUME NEW r \in Seq(Row)
  PROVE  EndOf(r) \in 1 .. Len(r) + 1 /\ \A i \in Dated(r) : i < EndOf(r)
  <1>1. Dated(r) \subseteq 1 .. Len(r) /\ Len(r) \in Nat
    BY RowsAre DEF Dated
  <1>2. IsFiniteSet(Dated(r))
    <2>1. IsFiniteSet(1 .. Len(r))
      BY <1>1, FS_Interval
    <2> QED BY <1>1, <2>1, FS_Subset
  <1>3. PICK W : W = {0} \cup Dated(r)
    OBVIOUS
  <1>4. IsFiniteSet(W)
    <2>1. IsFiniteSet({0})
      BY FS_Singleton
    <2>2. IsFiniteSet({0} \cup Dated(r))
      BY <1>2, <2>1, FS_Union
    <2> QED BY <1>3, <2>2
  <1>5. W \subseteq 0 .. Len(r) /\ W \subseteq Int /\ W # {}
    BY <1>1, <1>3
  <1>6. Max(W) \in W /\ \A y \in W : Max(W) >= y
    BY <1>4, <1>5, MaxOf
  <1>7. EndOf(r) = Max(W) + 1
    BY <1>3 DEF EndOf
  <1>8. Max(W) \in 0 .. Len(r)
    BY <1>5, <1>6
  <1>9. ASSUME NEW i \in Dated(r) PROVE i < Max(W) + 1
    <2>1. i \in W /\ i \in Int
      BY <1>1, <1>3
    <2> QED BY <1>6, <1>8, <2>1
  <1> QED BY <1>1, <1>7, <1>8, <1>9

(* A new mail's place: every dated row above is newer, and the row there, if *)
(* it is dated, is not.                                                      *)
LEMMA PlaceIs ==
  ASSUME NEW r \in Seq(Row), NEW m \in Mail
  PROVE  /\ Place(m, r) \in 1 .. Len(r) + 1
         /\ \A i \in Dated(r) : i < Place(m, r) => Date[r[i].id] > Date[m]
         /\ \/ Place(m, r) \in Dated(r) /\ Date[r[Place(m, r)].id] <= Date[m]
            \/ Place(m, r) = EndOf(r) /\ \A i \in Dated(r) : i < Place(m, r)
  <1>1. PICK V : V = {i \in Dated(r) : Date[r[i].id] <= Date[m]}
    OBVIOUS
  <1>2. PICK W : W = {EndOf(r)} \cup V
    OBVIOUS
  <1>3. Dated(r) \subseteq 1 .. Len(r) /\ Len(r) \in Nat
    BY RowsAre DEF Dated
  <1>4. W \subseteq 1 .. Len(r) + 1 /\ W # {} /\ W \subseteq Nat
    BY <1>1, <1>2, <1>3, EndIs
  <1>5. Min(W) \in W /\ \A y \in W : Min(W) <= y
    BY <1>4, MinOf
  <1>6. Place(m, r) = Min(W)
    BY <1>1, <1>2 DEF Place
  <1>7. PICK p \in W : p = Min(W)
    BY <1>5
  <1>8. ASSUME NEW i \in Dated(r), i < p PROVE Date[r[i].id] > Date[m]
    <2>1. i \in 1 .. Len(r) /\ p \in Nat
      BY <1>3, <1>4
    <2>2. ASSUME i \in V PROVE FALSE
      <3>1. i \in W
        BY <1>2, <2>2
      <3>2. p <= i
        BY <1>5, <1>7, <3>1
      <3> QED BY <1>8, <2>1, <3>2
    <2>3. ~(Date[r[i].id] <= Date[m])
      BY <1>1, <2>2
    <2>4. r[i].id \in Mail
      BY <2>1, RowsAre DEF Dated
    <2>5. Date[r[i].id] \in Nat /\ Date[m] \in Nat
      BY <2>4, SheetAssumption
    <2> QED BY <2>3, <2>5
  <1>9. \/ p \in Dated(r) /\ Date[r[p].id] <= Date[m]
        \/ p = EndOf(r) /\ \A i \in Dated(r) : i < p
    BY <1>1, <1>2, EndIs
  <1> QED BY <1>4, <1>6, <1>7, <1>8, <1>9

(* The rows that are written again. *)
IsRewritten(q, r) ==
  /\ q \in Seq(Row) /\ Len(q) = Len(r)
  /\ \A i \in 1 .. Len(r) : /\ q[i].id = r[i].id /\ q[i].noted = r[i].noted
                            /\ q[i].state = r[i].state \/ q[i].state = "read"

(* Rows written again keep their ids and the person's cells, and say "read". *)
LEMMA RewrittenRows ==
  ASSUME NEW r \in Seq(Row), NEW b, IsBatch(b)
  PROVE  /\ Rewritten(r, b) \in Seq(Row)
         /\ (\A m \in DOMAIN b.again : m \in OnSheet(r) /\ b.again[m] = Where(m, r)) =>
              IsRewritten(Rewritten(r, b), r)
  <1>1. PICK D : D = DOMAIN b.again
    OBVIOUS
  <1>2. b.again \in [D -> Nat] /\ D \subseteq Mail
    BY <1>1 DEF IsBatch
  <1>3. PICK n : n = Max({0} \cup {b.again[m] : m \in D})
    OBVIOUS
  <1>4. /\ n \in Nat
        /\ \A k \in Nat : (\A m \in D : b.again[m] <= k) => n <= k
    BY <1>2, <1>3, GreatestIndex
  <1>5. PICK long \in Seq(Row) : long = Padded(r, n) /\ (n <= Len(r) => long = r)
    BY <1>4, PaddedRows
  <1>6. PICK l \in Nat : l = Len(long) /\ DOMAIN long = 1 .. l /\ \A i \in 1 .. l : long[i] \in Row
    OBVIOUS
  <1> DEFINE At(i) == {m \in D : b.again[m] = i}
             New(i) == IF At(i) = {} THEN long[i]
                       ELSE [long[i] EXCEPT !.id = CHOOSE m \in At(i) : TRUE, !.state = "read"]
  <1>7. PICK q : q = [i \in 1 .. l |-> New(i)]
    OBVIOUS
  <1>8. Rewritten(r, b) = q
    BY <1>1, <1>3, <1>5, <1>6, <1>7 DEF Rewritten
  <1>9. ASSUME NEW i \in 1 .. l, At(i) # {}
        PROVE  /\ New(i) \in Row /\ New(i).state = "read" /\ New(i).noted = long[i].noted
               /\ New(i).id \in At(i)
    <2>1. PICK m : m = CHOOSE x \in At(i) : TRUE
      OBVIOUS
    <2>2. m \in At(i) /\ m \in Mail
      BY <1>2, <1>9, <2>1
    <2>3. New(i) = [long[i] EXCEPT !.id = m, !.state = "read"]
      BY <1>9, <2>1
    <2>4. long[i] \in Row
      BY <1>6
    <2> HIDE DEF New, At
    <2>5. New(i) \in Row /\ New(i).state = "read" /\ New(i).noted = long[i].noted /\ New(i).id = m
      BY <2>2, <2>3, <2>4 DEF Row
    <2> QED BY <2>2, <2>5
  <1>10. \A i \in 1 .. l : New(i) \in Row
    BY <1>6, <1>9
  <1>11. q \in Seq(Row) /\ Len(q) = l
    <2> HIDE DEF New
    <2>1. q \in [1 .. l -> Row]
      BY <1>7, <1>10
    <2> QED BY <2>1, MadeSequence
  <1>12. ASSUME \A m \in D : m \in OnSheet(r) /\ b.again[m] = Where(m, r)
         PROVE  IsRewritten(q, r)
    <2>1. \A m \in D : b.again[m] <= Len(r) /\ b.again[m] \in 1 .. Len(r) /\ r[b.again[m]].id = m
      BY <1>12, WhereIs
    <2>2. long = r /\ Len(r) = l
      <3>1. Len(r) \in Nat
        OBVIOUS
      <3>2. n <= Len(r)
        BY <1>4, <2>1, <3>1
      <3> QED BY <1>5, <1>6, <3>2
    <2>3. ASSUME NEW i \in 1 .. l
          PROVE  /\ q[i].id = r[i].id /\ q[i].noted = r[i].noted
                 /\ q[i].state = r[i].state \/ q[i].state = "read"
      <3>1. q[i] = New(i)
        BY <1>7
      <3>2. CASE At(i) = {}
        BY <2>2, <3>1, <3>2
      <3>3. CASE At(i) # {}
        <4>1. New(i).id \in At(i) /\ New(i).state = "read" /\ New(i).noted = r[i].noted
          BY <1>9, <2>2, <3>3
        <4>2. r[i].id = New(i).id
          <5> HIDE DEF New
          <5> QED BY <2>1, <4>1
        <4> HIDE DEF New
        <4> QED BY <3>1, <4>1, <4>2
      <3> QED BY <3>2, <3>3
    <2> QED BY <1>11, <2>2, <2>3 DEF IsRewritten
  <1> QED BY <1>1, <1>8, <1>11, <1>12

-----------------------------------------------------------------------------
(* A batch planned on these rows, and what landing it there does to them. *)
Fits(b, r) ==
  /\ \A m \in DOMAIN b.at : m \notin OnSheet(r) /\ b.at[m] = Place(m, r)
  /\ \A m \in DOMAIN b.again : m \in OnSheet(r) /\ b.again[m] = Where(m, r)

(* Places are found by the ids alone. *)
LEMMA SameIdsFit ==
  ASSUME NEW r \in Seq(Row), NEW q \in Seq(Row), Len(q) = Len(r),
         \A i \in 1 .. Len(r) : q[i].id = r[i].id, NEW b, IsBatch(b), Fits(b, r)
  PROVE  Fits(b, q) /\ Dated(q) = Dated(r)
  <1>1. DOMAIN q = DOMAIN r /\ \A i \in DOMAIN r : q[i].id = r[i].id
    OBVIOUS
  <1>2. ASSUME NEW m \in Mail PROVE RowsOf(m, q) = RowsOf(m, r)
    BY <1>1 DEF RowsOf
  <1>3. Dated(q) = Dated(r)
    BY <1>1 DEF Dated
  <1>4. EndOf(q) = EndOf(r)
    BY <1>3 DEF EndOf
  <1>5. OnSheet(q) = OnSheet(r)
    BY <1>2 DEF OnSheet
  <1>6. ASSUME NEW m \in Mail PROVE Where(m, q) = Where(m, r)
    BY <1>2, <1>6 DEF Where
  <1>7. ASSUME NEW m \in Mail PROVE Place(m, q) = Place(m, r)
    <2>1. \A i \in Dated(r) : q[i].id = r[i].id
      BY <1>1 DEF Dated
    <2>2. {i \in Dated(q) : Date[q[i].id] <= Date[m]} = {i \in Dated(r) : Date[r[i].id] <= Date[m]}
      BY <1>3, <2>1
    <2> QED BY <1>4, <2>2 DEF Place
  <1>8. DOMAIN b.at \subseteq Mail /\ DOMAIN b.again \subseteq Mail
    BY DEF IsBatch
  <1> QED BY <1>3, <1>5, <1>6, <1>7, <1>8 DEF Fits

(* The rows w, and the tab q once the new mails are in. *)
LEMMA AfterIs ==
  ASSUME NEW r \in Seq(Row), NEW b, IsBatch(b), ~b.sort, Fits(b, r)
  PROVE  \E w \in Seq(Row) : IsRewritten(w, r) /\ Fits(b, w) /\ IsInserted(After(b, r), w, b)
  <1>1. PICK w : w = Rewritten(r, b)
    OBVIOUS
  <1>2. w \in Seq(Row) /\ IsRewritten(w, r)
    BY <1>1, RewrittenRows DEF Fits
  <1>3. Fits(b, w)
    BY <1>2, SameIdsFit DEF IsRewritten
  <1>4. ASSUME NEW m \in DOMAIN b.at PROVE b.at[m] <= Len(w) + 1
    <2>1. m \in Mail /\ b.at[m] = Place(m, w)
      BY <1>3 DEF Fits, IsBatch
    <2>2. Place(m, w) \in 1 .. Len(w) + 1
      BY <1>2, <2>1, PlaceIs
    <2>3. Len(w) \in Nat
      BY <1>2
    <2> QED BY <2>1, <2>2, <2>3
  <1>5. LongFor(w, b) = w
    BY <1>2, <1>4, LongRows
  <1>6. IsInserted(Inserted(w, b), w, b)
    BY <1>2, <1>5, InsertedRows
  <1>7. After(b, r) = Inserted(w, b)
    BY <1>1 DEF After
  <1> QED BY <1>2, <1>3, <1>6, <1>7

(* Where the new mails are, and where the rows that were there. *)
LEMMA InsertedAt ==
  ASSUME NEW w \in Seq(Row), NEW b, IsBatch(b), Fits(b, w), NEW q, IsInserted(q, w, b)
  PROVE  /\ \A m \in DOMAIN b.at : /\ Landed(b, m) \in 1 .. Len(q)
                                   /\ q[Landed(b, m)] = NewRow(m, b.state[m])
         /\ \A i \in 1 .. Len(w) : /\ i + Cardinality(Above(b, i + 1)) \in 1 .. Len(q)
                                   /\ q[i + Cardinality(Above(b, i + 1))] = w[i]
  <1>1. PICK n \in Nat : n = Len(w)
    OBVIOUS
  <1>2. PICK o \in [1 .. Len(q) -> Parts(n, b)] :
          /\ \A k \in 1 .. Len(q) : q[k] = RowOf(o[k], w, b)
          /\ \A x \in Parts(n, b) : PlaceOf(x, n, b) \in 1 .. Len(q) /\ o[PlaceOf(x, n, b)] = x
    BY <1>1, Zenon DEF IsInserted
  <1>3. ASSUME NEW m \in DOMAIN b.at
        PROVE  Landed(b, m) \in 1 .. Len(q) /\ q[Landed(b, m)] = NewRow(m, b.state[m])
    <2>1. m \in Mail /\ b.at[m] = Place(m, w) /\ m # Blank
      BY SheetAssumption DEF Fits, IsBatch
    <2>2. b.at[m] <= n + 1
      BY <1>1, <2>1, PlaceIs
    <2>3. PlaceOf(<<b.at[m], m>>, n, b) = Landed(b, m)
      BY <2>2, PlaceOfNew
    <2>4. <<b.at[m], m>> \in Parts(n, b)
      BY DEF Parts
    <2>5. Landed(b, m) \in 1 .. Len(q) /\ o[Landed(b, m)] = <<b.at[m], m>>
      BY <1>2, <2>3, <2>4
    <2>6. RowOf(<<b.at[m], m>>, w, b) = NewRow(m, b.state[m])
      BY <2>1 DEF RowOf
    <2> QED BY <1>2, <2>5, <2>6
  <1>4. ASSUME NEW i \in 1 .. n
        PROVE  /\ i + Cardinality(Above(b, i + 1)) \in 1 .. Len(q)
               /\ q[i + Cardinality(Above(b, i + 1))] = w[i]
    <2>1. PICK k : k = i + Cardinality(Above(b, i + 1))
      OBVIOUS
    <2>2. PlaceOf(<<i, Blank>>, n, b) = k
      BY <2>1, PlaceOfOld
    <2>3. <<i, Blank>> \in Parts(n, b)
      BY DEF Parts
    <2>4. k \in 1 .. Len(q) /\ o[k] = <<i, Blank>>
      BY <1>2, <2>2, <2>3
    <2>5. RowOf(<<i, Blank>>, w, b) = w[i]
      BY DEF RowOf
    <2> QED BY <1>2, <2>1, <2>4, <2>5
  <1> QED BY <1>1, <1>3, <1>4

(* What stands in each row of the tab afterwards, and the order of two. *)
IsArranged(o, q, w, b) ==
  /\ o \in [1 .. Len(q) -> Parts(Len(w), b)]
  /\ \A i, j \in 1 .. Len(q) : o[i] = o[j] => i = j
  /\ \A i, j \in 1 .. Len(q) : i < j => GoesAbove(o[i], o[j])
  /\ \A k \in 1 .. Len(q) :
       \/ /\ o[k][2] = Blank /\ o[k][1] \in 1 .. Len(w) /\ q[k] = w[o[k][1]]
          /\ o[k] = <<o[k][1], Blank>>
       \/ /\ o[k][2] \in DOMAIN b.at /\ o[k][2] \in Mail /\ o[k][2] # Blank
          /\ o[k][1] = b.at[o[k][2]] /\ q[k] = NewRow(o[k][2], b.state[o[k][2]])
          /\ o[k] = <<b.at[o[k][2]], o[k][2]>>

(* Each row of the tab afterwards is such a part. *)
LEMMA InsertedIs ==
  ASSUME NEW w \in Seq(Row), NEW b, IsBatch(b), NEW q, IsInserted(q, w, b)
  PROVE  \E o : IsArranged(o, q, w, b)
  <1>1. PICK n \in Nat : n = Len(w)
    OBVIOUS
  <1>2. PICK o \in [1 .. Len(q) -> Parts(n, b)] :
          /\ \A k \in 1 .. Len(q) : q[k] = RowOf(o[k], w, b)
          /\ \A i, j \in 1 .. Len(q) : o[i] = o[j] => i = j
          /\ \A i, j \in 1 .. Len(q) : i < j => GoesAbove(o[i], o[j])
    BY <1>1, Zenon DEF IsInserted
  <1>3. ASSUME NEW k \in 1 .. Len(q)
        PROVE  \/ /\ o[k][2] = Blank /\ o[k][1] \in 1 .. n /\ q[k] = w[o[k][1]]
                  /\ o[k] = <<o[k][1], Blank>>
               \/ /\ o[k][2] \in DOMAIN b.at /\ o[k][2] \in Mail /\ o[k][2] # Blank
                  /\ o[k][1] = b.at[o[k][2]] /\ q[k] = NewRow(o[k][2], b.state[o[k][2]])
                  /\ o[k] = <<b.at[o[k][2]], o[k][2]>>
    <2>1. PICK x \in Parts(n, b) : x = o[k]
      BY <1>2
    <2>2. q[k] = RowOf(x, w, b)
      BY <1>2, <2>1
    <2>3. /\ x = <<x[1], x[2]>> /\ x[1] \in Nat
          /\ \/ x[2] = Blank /\ x[1] \in 1 .. n
             \/ x[2] \in DOMAIN b.at /\ x[2] \in Mail /\ x[2] # Blank /\ x[1] = b.at[x[2]]
      BY PartIs
    <2>4. CASE x[2] = Blank
      BY <2>1, <2>2, <2>3, <2>4 DEF RowOf
    <2>5. CASE x[2] # Blank
      BY <2>1, <2>2, <2>3, <2>5 DEF RowOf
    <2> QED BY <2>4, <2>5
  <1> QED BY <1>1, <1>2, <1>3 DEF IsArranged

(* No mail is on the tab twice, and what was in order still is. *)
LEMMA InsertedKeeps ==
  ASSUME NEW w \in Seq(Row), NEW b, IsBatch(b), Fits(b, w), NEW q, IsInserted(q, w, b)
  PROVE  /\ Single(w) => Single(q)
         /\ NewestFirst(w) => NewestFirst(q)
  <1>1. PICK n \in Nat : n = Len(w) /\ DOMAIN w = 1 .. n
    OBVIOUS
  <1>2. PICK l \in Nat : l = Len(q) /\ DOMAIN q = 1 .. l
    <2>1. q \in Seq(Row)
      BY DEF IsInserted
    <2> QED BY <2>1
  <1>3. PICK o \in [1 .. l -> Parts(n, b)] :
           /\ \A i, j \in 1 .. l : o[i] = o[j] => i = j
           /\ \A i, j \in 1 .. l : i < j => GoesAbove(o[i], o[j])
           /\ \A k \in 1 .. l :
                \/ /\ o[k][2] = Blank /\ o[k][1] \in 1 .. n /\ q[k] = w[o[k][1]]
                   /\ o[k] = <<o[k][1], Blank>>
                \/ /\ o[k][2] \in DOMAIN b.at /\ o[k][2] \in Mail /\ o[k][2] # Blank
                   /\ o[k][1] = b.at[o[k][2]] /\ q[k] = NewRow(o[k][2], b.state[o[k][2]])
                   /\ o[k] = <<b.at[o[k][2]], o[k][2]>>
    <2>1. PICK o : IsArranged(o, q, w, b)
      BY InsertedIs
    <2> QED BY <1>1, <1>2, <2>1 DEF IsArranged
  <1>4. \A i \in 1 .. n : w[i].id = Blank \/ w[i].id \in Mail
    BY <1>1, RowsAre
  <1>5. ASSUME NEW m \in DOMAIN b.at, NEW i \in 1 .. n PROVE w[i].id # m
    BY <1>1 DEF Fits, OnSheet, RowsOf, IsBatch
  <1>6. ASSUME NEW k \in 1 .. l, o[k][2] # Blank PROVE q[k].id = o[k][2]
    <2>1. q[k] = NewRow(o[k][2], b.state[o[k][2]])
      BY <1>3, <1>6
    <2> QED BY <2>1 DEF NewRow
  <1>7. ASSUME Single(w), NEW i \in 1 .. l, NEW j \in 1 .. l, q[i].id = q[j].id, q[i].id # Blank
        PROVE  i = j
    <2>1. CASE o[i][2] = Blank /\ o[j][2] = Blank
      <3>1. o[i][1] = o[j][1]
        BY <1>1, <1>3, <1>7, <2>1 DEF Single
      <3> QED BY <1>3, <2>1, <3>1
    <2>2. CASE o[i][2] # Blank /\ o[j][2] # Blank
      <3>1. o[i][2] = o[j][2]
        BY <1>6, <1>7, <2>2
      <3> QED BY <1>3, <2>2, <3>1
    <2>3. CASE o[i][2] = Blank /\ o[j][2] # Blank
      BY <1>3, <1>5, <1>6, <1>7, <2>3
    <2>4. CASE o[i][2] # Blank /\ o[j][2] = Blank
      BY <1>3, <1>5, <1>6, <1>7, <2>4
    <2> QED BY <2>1, <2>2, <2>3, <2>4
  <1>8. ASSUME NewestFirst(w), NEW i \in 1 .. l, NEW j \in 1 .. l, i < j,
               q[i].id # Blank, q[j].id # Blank
        PROVE  Date[q[i].id] >= Date[q[j].id]
    <2>1. GoesAbove(o[i], o[j])
      BY <1>3, <1>8
    <2>2. \A x \in Mail : Date[x] \in Nat
      BY SheetAssumption
    <2>3. CASE o[i][2] = Blank /\ o[j][2] = Blank
      <3>1. o[i][1] < o[j][1]
        BY <2>1, <2>3 DEF GoesAbove
      <3>2. q[i] = w[o[i][1]] /\ q[j] = w[o[j][1]] /\ o[i][1] \in 1 .. n /\ o[j][1] \in 1 .. n
        BY <1>3, <2>3
      <3>3. o[i][1] \in Dated(w) /\ o[j][1] \in Dated(w)
        BY <1>1, <1>8, <3>2 DEF Dated
      <3> QED BY <1>8, <3>1, <3>2, <3>3 DEF NewestFirst
    <2>4. CASE o[i][2] = Blank /\ o[j][2] # Blank
      <3>1. PICK m \in DOMAIN b.at : m = o[j][2] /\ m \in Mail /\ o[j][1] = b.at[m]
        BY <1>3, <2>4
      <3>2. PICK x \in 1 .. n : x = o[i][1] /\ q[i] = w[x]
        BY <1>3, <2>4
      <3>3. x < b.at[m]
        BY <2>1, <2>4, <3>1, <3>2 DEF GoesAbove
      <3>4. x \in Dated(w) /\ b.at[m] = Place(m, w)
        BY <1>1, <1>8, <3>2 DEF Dated, Fits
      <3>5. Date[w[x].id] > Date[m]
        BY <3>1, <3>3, <3>4, PlaceIs
      <3>6. w[x].id \in Mail /\ q[j].id = m
        BY <1>4, <1>6, <1>8, <2>4, <3>1, <3>2
      <3> QED BY <2>2, <3>1, <3>2, <3>5, <3>6
    <2>5. CASE o[i][2] # Blank /\ o[j][2] = Blank
      <3>1. PICK m \in DOMAIN b.at : m = o[i][2] /\ m \in Mail /\ o[i][1] = b.at[m]
        BY <1>3, <2>5
      <3>2. PICK x \in 1 .. n : x = o[j][1] /\ q[j] = w[x]
        BY <1>3, <2>5
      <3>3. PICK p \in 1 .. n + 1 : p = b.at[m] /\ p = Place(m, w)
        BY <1>1, <3>1, PlaceIs DEF Fits
      <3>4. p <= x
        BY <2>1, <2>5, <3>1, <3>2, <3>3 DEF GoesAbove
      <3>5. x \in Dated(w) /\ w[x].id \in Mail
        BY <1>1, <1>4, <1>8, <3>2 DEF Dated
      <3>6. q[i].id = m
        BY <1>6, <2>5, <3>1
      <3>7. ~(x < p)
        BY <3>4
      <3>8. p \in Dated(w) /\ Date[w[p].id] <= Date[m]
        <4>1. \/ Place(m, w) \in Dated(w) /\ Date[w[Place(m, w)].id] <= Date[m]
              \/ \A y \in Dated(w) : y < Place(m, w)
          BY <3>1, PlaceIs
        <4> QED BY <3>3, <3>5, <3>7, <4>1
      <3>9. w[p].id \in Mail
        BY <1>1, <1>4, <3>8 DEF Dated
      <3>10. Date[w[p].id] >= Date[w[x].id]
        <4>1. CASE p = x
          BY <2>2, <3>5, <4>1
        <4>2. CASE p < x
          BY <1>8, <3>5, <3>8, <4>2 DEF NewestFirst
        <4> QED BY <3>4, <4>1, <4>2
      <3> QED BY <2>2, <3>1, <3>2, <3>5, <3>6, <3>8, <3>9, <3>10
    <2>6. CASE o[i][2] # Blank /\ o[j][2] # Blank
      <3>1. PICK m \in DOMAIN b.at : m = o[i][2] /\ m \in Mail /\ o[i][1] = b.at[m] /\ q[i].id = m
        BY <1>3, <1>6, <2>6
      <3>2. PICK k \in DOMAIN b.at : k = o[j][2] /\ k \in Mail /\ o[j][1] = b.at[k] /\ q[j].id = k
        BY <1>3, <1>6, <2>6
      <3>3. b.at[m] < b.at[k] \/ Newer(m, k)
        BY <2>1, <2>6, <3>1, <3>2 DEF GoesAbove
      <3>4. CASE Newer(m, k)
        BY <3>1, <3>2, <3>4, NewerOrders
      <3>5. CASE b.at[m] < b.at[k]
        <4>1. b.at[m] = Place(m, w) /\ b.at[k] = Place(k, w)
          BY DEF Fits
        <4>2. PICK p \in 1 .. n + 1 : p = Place(m, w)
          BY <1>1, <3>1, PlaceIs
        <4>3. PICK s \in 1 .. n + 1 : s = Place(k, w) /\ s \in Nat
          BY <1>1, <3>2, PlaceIs
        <4>4. p < s
          BY <3>5, <4>1, <4>2, <4>3
        <4>5. p \in Dated(w)
          <5>1. p \in Dated(w) \/ \A y \in Dated(w) : y < p
            BY <3>1, <4>2, PlaceIs
          <5>2. s \in Dated(w) \/ \A y \in Dated(w) : y < s
            BY <3>2, <4>3, PlaceIs
          <5>3. ASSUME p \notin Dated(w) PROVE FALSE
            <6>1. s \notin Dated(w)
              BY <4>4, <5>1, <5>3
            <6>2. p = EndOf(w) /\ s = EndOf(w)
              BY <4>2, <4>3, <5>3, <6>1, <3>1, <3>2, PlaceIs
            <6> QED BY <4>4, <6>2
          <5> QED BY <5>3
        <4>6. Date[w[p].id] <= Date[m]
          BY <3>1, <4>2, <4>5, PlaceIs
        <4>7. Date[w[p].id] > Date[k]
          BY <3>2, <4>3, <4>4, <4>5, PlaceIs
        <4>8. w[p].id \in Mail
          BY <1>1, <1>4, <4>5 DEF Dated
        <4> QED BY <2>2, <3>1, <3>2, <4>6, <4>7, <4>8
      <3> QED BY <3>3, <3>4, <3>5
    <2> QED BY <2>3, <2>4, <2>5, <2>6
  <1>9. Single(w) => Single(q)
    BY <1>2, <1>7 DEF Single
  <1>10. NewestFirst(w) => NewestFirst(q)
    <2>1. ASSUME NEW i \in Dated(q)
          PROVE  i \in 1 .. l /\ q[i].id # Blank
      BY <1>2 DEF Dated
    <2> QED BY <1>8, <2>1 DEF NewestFirst
  <1> QED BY <1>9, <1>10

-----------------------------------------------------------------------------
(* What the log says of a mail whose row is only somewhere else. *)
Stays(m, q, r) ==
  LogOf(q)[m] = LogOf(r)[m] /\ (m \in NotedOn(q) <=> m \in NotedOn(r))

(* A mail whose row is on both tabs, or on neither, is in the log as it was. *)
LEMMA MailStays ==
  ASSUME NEW r \in Seq(Row), NEW q \in Seq(Row), Single(r), Single(q), NEW m \in Mail,
         \A i \in 1 .. Len(r) : r[i].id = m => \E j \in 1 .. Len(q) : q[j] = r[i],
         \A j \in 1 .. Len(q) : q[j].id = m => \E i \in 1 .. Len(r) : q[j] = r[i]
  PROVE  Stays(m, q, r)
  <1>1. CASE \E i \in 1 .. Len(r) : r[i].id = m
    <2>1. PICK i \in 1 .. Len(r) : r[i].id = m
      BY <1>1
    <2>2. PICK j \in 1 .. Len(q) : q[j] = r[i]
      BY <2>1
    <2>3. LogOf(r)[m] = r[i].state /\ (m \in NotedOn(r) <=> r[i].noted)
      BY <2>1, LogPresent
    <2>4. LogOf(q)[m] = q[j].state /\ (m \in NotedOn(q) <=> q[j].noted)
      BY <2>1, <2>2, LogPresent
    <2> QED BY <2>2, <2>3, <2>4 DEF Stays
  <1>2. CASE \A i \in 1 .. Len(r) : r[i].id # m
    <2>1. RowsOf(m, r) = {} /\ RowsOf(m, q) = {}
      BY <1>2, RowsAre DEF RowsOf
    <2> QED BY <2>1, LogAbsent DEF Stays
  <1> QED BY <1>1, <1>2

(* When every mail is, the log is the same. *)
LEMMA LogStays ==
  ASSUME NEW r, NEW q, \A m \in Mail : Stays(m, q, r)
  PROVE  LogOf(q) = LogOf(r) /\ NotedOn(q) = NotedOn(r)
  BY DEF Stays, LogOf, NotedOn

(* What the log can say. *)
LEMMA LogType ==
  ASSUME NEW r \in Seq(Row), Single(r)
  PROVE  LogOf(r) \in [Mail -> {"review", "read", "absent"}] /\ NotedOn(r) \in SUBSET Mail
  <1>1. ASSUME NEW m \in Mail PROVE LogOf(r)[m] \in {"review", "read", "absent"}
    <2>1. CASE \E i \in 1 .. Len(r) : r[i].id = m
      <3>1. PICK i \in 1 .. Len(r) : r[i].id = m
        BY <2>1
      <3>2. LogOf(r)[m] = r[i].state
        BY <3>1, LogPresent
      <3>3. r[i] \in Row
        BY RowsAre
      <3> QED BY <3>2, <3>3 DEF Row
    <2>2. CASE \A i \in 1 .. Len(r) : r[i].id # m
      <3>1. RowsOf(m, r) = {}
        BY <2>2, RowsAre DEF RowsOf
      <3> QED BY <3>1, LogAbsent
    <2> QED BY <2>1, <2>2
  <1>2. LogOf(r) = [m \in Mail |-> LogOf(r)[m]]
    BY DEF LogOf
  <1> QED BY <1>1, <1>2 DEF NotedOn

(* The same rows in another order: her moving one, and the sort. *)
LEMMA PermutedLog ==
  ASSUME NEW r \in Seq(Row), NEW q, IsPermuted(q, r, Row), Single(r)
  PROVE  Single(q) /\ LogOf(q) = LogOf(r) /\ NotedOn(q) = NotedOn(r)
  <1>1. PICK n \in Nat : n = Len(r)
    OBVIOUS
  <1>2. q \in Seq(Row) /\ Len(q) = n
    BY <1>1 DEF IsPermuted
  <1>3. PICK f \in [1 .. n -> 1 .. n] :
           /\ \A k \in 1 .. n : q[k] = r[f[k]]
           /\ \A k, l \in 1 .. n : f[k] = f[l] => k = l
           /\ \A l \in 1 .. n : \E k \in 1 .. n : f[k] = l
    BY <1>1 DEF IsPermuted
  <1>4. Single(q)
    <2>1. ASSUME NEW k \in 1 .. n, NEW l \in 1 .. n, q[k].id = q[l].id, q[k].id # Blank PROVE k = l
      <3>1. f[k] \in 1 .. n /\ f[l] \in 1 .. n /\ r[f[k]].id = r[f[l]].id /\ r[f[k]].id # Blank
        BY <1>3, <2>1
      <3>2. f[k] = f[l]
        BY <1>1, <3>1 DEF Single
      <3> QED BY <1>3, <3>2
    <2> QED BY <1>2, <2>1 DEF Single
  <1>5. ASSUME NEW m \in Mail PROVE Stays(m, q, r)
    <2>1. \A i \in 1 .. Len(r) : \E j \in 1 .. Len(q) : q[j] = r[i]
      BY <1>1, <1>2, <1>3
    <2>2. \A j \in 1 .. Len(q) : \E i \in 1 .. Len(r) : q[j] = r[i]
      BY <1>1, <1>2, <1>3
    <2> QED BY <1>2, <1>4, <2>1, <2>2, MailStays
  <1> QED BY <1>4, <1>5, LogStays

(* A row of her own. *)
LEMMA TypedLog ==
  ASSUME NEW r \in Seq(Row), NEW n \in Nat, n = Len(r), NEW i \in 1 .. n + 1,
         NEW q, IsTyped(q, r, i, HerRow, Row)
  PROVE  /\ Single(r) => Single(q) /\ LogOf(q) = LogOf(r) /\ NotedOn(q) = NotedOn(r)
         /\ NewestFirst(r) => NewestFirst(q)
  <1>1. /\ q \in Seq(Row) /\ Len(q) = n + 1
        /\ \A k \in 1 .. n + 1 : q[k] = IF k < i THEN r[k] ELSE IF k = i THEN HerRow ELSE r[k - 1]
    BY DEF IsTyped
  <1>2. PICK old : old = [k \in 1 .. n + 1 |-> IF k < i THEN k ELSE k - 1]
    OBVIOUS
  <1>3. ASSUME NEW k \in 1 .. n + 1, k # i PROVE old[k] \in 1 .. n /\ q[k] = r[old[k]]
    BY <1>1, <1>2, <1>3
  <1>4. q[i].id = Blank
    BY <1>1 DEF HerRow
  <1>5. \A j, k \in 1 .. n + 1 : j # i /\ k # i /\ j < k => old[j] < old[k]
    BY <1>2
  <1>6. ASSUME NEW l \in 1 .. n PROVE \E k \in 1 .. n + 1 : k # i /\ old[k] = l
    <2>1. CASE l < i
      <3>1. l \in 1 .. n + 1 /\ l # i /\ old[l] = l
        BY <1>2, <2>1
      <3> QED BY <3>1
    <2>2. CASE ~(l < i)
      <3>1. l + 1 \in 1 .. n + 1 /\ l + 1 # i /\ old[l + 1] = l
        BY <1>2, <2>2
      <3> QED BY <3>1
    <2> QED BY <2>1, <2>2
  <1>7. ASSUME Single(r) PROVE Single(q) /\ LogOf(q) = LogOf(r) /\ NotedOn(q) = NotedOn(r)
    <2>1. ASSUME NEW j \in 1 .. n + 1, NEW k \in 1 .. n + 1, j < k,
                 q[j].id = q[k].id, q[j].id # Blank
          PROVE  FALSE
      <3>1. j # i /\ k # i
        BY <1>4, <2>1
      <3>2. old[j] = old[k]
        BY <1>3, <1>7, <2>1, <3>1 DEF Single
      <3>3. old[j] < old[k] /\ old[j] \in Nat
        BY <1>3, <1>5, <2>1, <3>1
      <3> QED BY <3>2, <3>3
    <2>2. Single(q)
      <3>1. ASSUME NEW j \in 1 .. n + 1, NEW k \in 1 .. n + 1, q[j].id = q[k].id, q[j].id # Blank
            PROVE  j = k
        <4>1. ~(j < k) /\ ~(k < j)
          BY <2>1, <3>1
        <4> QED BY <4>1
      <3> QED BY <1>1, <3>1 DEF Single
    <2>3. ASSUME NEW m \in Mail PROVE Stays(m, q, r)
      <3>1. m # Blank
        BY SheetAssumption
      <3>2. \A l \in 1 .. Len(r) : r[l].id = m => \E k \in 1 .. Len(q) : q[k] = r[l]
        BY <1>1, <1>3, <1>6
      <3>3. \A k \in 1 .. Len(q) : q[k].id = m => \E l \in 1 .. Len(r) : q[k] = r[l]
        BY <1>1, <1>3, <1>4, <3>1
      <3> QED BY <1>1, <1>7, <2>2, <3>2, <3>3, MailStays
    <2> QED BY <2>2, <2>3, LogStays
  <1>8. ASSUME NewestFirst(r) PROVE NewestFirst(q)
    <2>1. ASSUME NEW k \in Dated(q) PROVE k \in 1 .. n + 1 /\ k # i /\ old[k] \in Dated(r)
      <3>1. k \in 1 .. n + 1 /\ q[k].id # Blank
        BY <1>1 DEF Dated
      <3>2. k # i
        BY <1>4, <3>1
      <3>3. old[k] \in 1 .. n /\ q[k] = r[old[k]]
        BY <1>3, <3>1, <3>2
      <3> QED BY <3>1, <3>2, <3>3 DEF Dated
    <2>2. ASSUME NEW j \in Dated(q), NEW k \in Dated(q), j < k PROVE Date[q[j].id] >= Date[q[k].id]
      <3>1. old[j] < old[k] /\ q[j] = r[old[j]] /\ q[k] = r[old[k]]
        BY <1>3, <1>5, <2>1, <2>2
      <3> QED BY <1>8, <2>1, <3>1 DEF NewestFirst
    <2> QED BY <2>2 DEF NewestFirst
  <1> QED BY <1>7, <1>8

(* A row taken away, with the mail on it. *)
LEMMA RemovedLog ==
  ASSUME NEW r \in Seq(Row), NEW n \in Nat, n = Len(r), NEW i \in 1 .. n,
         NEW q, IsRemoved(q, r, i, Row)
  PROVE  /\ Single(r) => /\ Single(q)
                         /\ \A m \in Mail : m # r[i].id => Stays(m, q, r)
                         /\ \A m \in Mail : m = r[i].id => LogOf(q)[m] = "absent" /\ m \notin NotedOn(q)
         /\ NewestFirst(r) => NewestFirst(q)
  <1>1. /\ q \in Seq(Row) /\ Len(q) = n - 1
        /\ \A k \in 1 .. n - 1 : q[k] = IF k < i THEN r[k] ELSE r[k + 1]
    BY DEF IsRemoved
  <1>2. PICK old : old = [k \in 1 .. n - 1 |-> IF k < i THEN k ELSE k + 1]
    OBVIOUS
  <1>3. ASSUME NEW k \in 1 .. n - 1 PROVE old[k] \in 1 .. n /\ old[k] # i /\ q[k] = r[old[k]]
    BY <1>1, <1>2, <1>3
  <1>4. \A j, k \in 1 .. n - 1 : j < k => old[j] < old[k]
    BY <1>2
  <1>5. ASSUME NEW l \in 1 .. n, l # i PROVE \E k \in 1 .. n - 1 : old[k] = l
    <2>1. CASE l < i
      <3>1. l \in 1 .. n - 1 /\ old[l] = l
        BY <1>2, <2>1
      <3> QED BY <3>1
    <2>2. CASE ~(l < i)
      <3>1. l - 1 \in 1 .. n - 1 /\ old[l - 1] = l
        BY <1>2, <1>5, <2>2
      <3> QED BY <3>1
    <2> QED BY <2>1, <2>2
  <1>6. ASSUME Single(r)
        PROVE  /\ Single(q)
               /\ \A m \in Mail : m # r[i].id => Stays(m, q, r)
               /\ \A m \in Mail : m = r[i].id => LogOf(q)[m] = "absent" /\ m \notin NotedOn(q)
    <2>1. ASSUME NEW j \in 1 .. n - 1, NEW k \in 1 .. n - 1, j < k,
                 q[j].id = q[k].id, q[j].id # Blank
          PROVE  FALSE
      <3>1. old[j] = old[k]
        <4>1. /\ old[j] \in 1 .. n /\ old[k] \in 1 .. n
              /\ r[old[j]].id = r[old[k]].id /\ r[old[j]].id # Blank
          BY <1>3, <2>1
        <4> QED BY <1>6, <4>1 DEF Single
      <3>2. old[j] < old[k] /\ old[j] \in Nat
        BY <1>3, <1>4, <2>1
      <3> QED BY <3>1, <3>2
    <2>2. Single(q)
      <3>1. ASSUME NEW j \in 1 .. n - 1, NEW k \in 1 .. n - 1, q[j].id = q[k].id, q[j].id # Blank
            PROVE  j = k
        <4>1. ~(j < k) /\ ~(k < j)
          BY <2>1, <3>1
        <4> QED BY <4>1
      <3> QED BY <1>1, <3>1 DEF Single
    <2>3. ASSUME NEW m \in Mail, m # r[i].id PROVE Stays(m, q, r)
      <3>1. \A l \in 1 .. Len(r) : r[l].id = m => \E k \in 1 .. Len(q) : q[k] = r[l]
        <4> SUFFICES ASSUME NEW l \in 1 .. n, r[l].id = m PROVE \E k \in 1 .. Len(q) : q[k] = r[l]
          OBVIOUS
        <4>1. l # i
          BY <2>3
        <4> QED BY <1>1, <1>3, <1>5, <4>1
      <3>2. \A k \in 1 .. Len(q) : q[k].id = m => \E l \in 1 .. Len(r) : q[k] = r[l]
        BY <1>1, <1>3
      <3> QED BY <1>1, <1>6, <2>2, <3>1, <3>2, MailStays
    <2>4. ASSUME NEW m \in Mail, m = r[i].id PROVE LogOf(q)[m] = "absent" /\ m \notin NotedOn(q)
      <3>1. m # Blank
        BY SheetAssumption
      <3>2. ASSUME NEW k \in 1 .. n - 1, q[k].id = m PROVE FALSE
        <4>1. old[k] \in 1 .. n /\ r[old[k]].id = r[i].id /\ old[k] # i
          BY <1>3, <2>4, <3>2
        <4> QED BY <1>6, <2>4, <3>1, <4>1 DEF Single
      <3>3. RowsOf(m, q) = {}
        BY <1>1, <3>2, RowsAre DEF RowsOf
      <3> QED BY <3>3, LogAbsent
    <2> QED BY <2>2, <2>3, <2>4
  <1>7. ASSUME NewestFirst(r) PROVE NewestFirst(q)
    <2>1. ASSUME NEW k \in Dated(q) PROVE k \in 1 .. n - 1 /\ old[k] \in Dated(r)
      <3>1. k \in 1 .. n - 1 /\ q[k].id # Blank
        BY <1>1 DEF Dated
      <3>2. old[k] \in 1 .. n /\ q[k] = r[old[k]]
        BY <1>3, <3>1
      <3> QED BY <3>1, <3>2 DEF Dated
    <2>2. ASSUME NEW j \in Dated(q), NEW k \in Dated(q), j < k PROVE Date[q[j].id] >= Date[q[k].id]
      <3>1. old[j] < old[k] /\ q[j] = r[old[j]] /\ q[k] = r[old[k]]
        BY <1>3, <1>4, <2>1, <2>2
      <3> QED BY <1>7, <2>1, <3>1 DEF NewestFirst
    <2> QED BY <2>2 DEF NewestFirst
  <1> QED BY <1>6, <1>7

(* A note on a row. *)
SameIds(q, r) ==
  /\ q \in Seq(Row) /\ Len(q) = Len(r)
  /\ \A k \in 1 .. Len(r) : q[k].id = r[k].id
OneNoted(q, r, x) ==
  /\ \A m \in Mail : m # x => Stays(m, q, r)
  /\ \A m \in Mail : m = x => /\ LogOf(q)[m] = LogOf(r)[m]
                              /\ LogOf(r)[m] # "absent" /\ m \in NotedOn(q)

(* A note changes no id and nothing else in the log. *)
LEMMA NotedLog ==
  ASSUME NEW r \in Seq(Row), NEW i \in 1 .. Len(r), NEW q, q = [r EXCEPT ![i].noted = TRUE]
  PROVE  /\ SameIds(q, r)
         /\ Single(r) => Single(q) /\ OneNoted(q, r, r[i].id)
  <1>1. PICK n \in Nat : n = Len(r)
    OBVIOUS
  <1>2. r \in [1 .. n -> Row] /\ r[i] \in Row
    BY <1>1
  <1>3. PICK e \in Row : e = [r[i] EXCEPT !.noted = TRUE]
    BY <1>2 DEF Row
  <1>4. e.id = r[i].id /\ e.state = r[i].state /\ e.noted
    BY <1>2, <1>3 DEF Row
  <1>5. q = [r EXCEPT ![i] = e]
    BY <1>3
  <1>6. q \in [1 .. n -> Row] /\ q[i] = e /\ \A k \in 1 .. n : k # i => q[k] = r[k]
    BY <1>1, <1>2, <1>5
  <1>7. q \in Seq(Row) /\ Len(q) = n
    BY <1>6, MadeSequence
  <1>8. \A k \in 1 .. n : q[k].id = r[k].id
    BY <1>4, <1>6
  <1>9. ASSUME Single(r)
        PROVE  Single(q) /\ OneNoted(q, r, r[i].id)
    <2>1. Single(q)
      BY <1>1, <1>7, <1>8, <1>9 DEF Single
    <2>2. ASSUME NEW m \in Mail, m # r[i].id PROVE Stays(m, q, r)
      <3>1. \A l \in 1 .. Len(r) : r[l].id = m => q[l] = r[l]
        BY <1>1, <1>6, <2>2
      <3>2. \A k \in 1 .. Len(q) : q[k].id = m => q[k] = r[k]
        BY <1>6, <1>7, <1>8, <2>2
      <3> QED BY <1>1, <1>7, <1>9, <2>1, <3>1, <3>2, MailStays
    <2>3. ASSUME NEW m \in Mail, m = r[i].id
          PROVE  LogOf(q)[m] = LogOf(r)[m] /\ LogOf(r)[m] # "absent" /\ m \in NotedOn(q)
      <3>1. LogOf(r)[m] = r[i].state
        BY <1>9, <2>3, LogPresent
      <3>2. LogOf(q)[m] = q[i].state /\ (m \in NotedOn(q) <=> q[i].noted)
        BY <1>1, <1>7, <1>8, <2>1, <2>3, LogPresent
      <3>3. r[i].state \in {"review", "read"}
        BY <1>2 DEF Row
      <3> QED BY <1>4, <1>6, <3>1, <3>2, <3>3
    <2> QED BY <2>1, <2>2, <2>3 DEF OneNoted
  <1>10. SameIds(q, r)
    BY <1>1, <1>7, <1>8 DEF SameIds
  <1> QED BY <1>9, <1>10

(* A batch landed on the rows it was planned on: mails are added and answered. *)
LEMMA LandedLog ==
  ASSUME NEW r \in Seq(Row), Single(r), NEW b, IsBatch(b), ~b.sort, Fits(b, r)
  PROVE  /\ Single(After(b, r))
         /\ NotedOn(After(b, r)) = NotedOn(r)
         /\ \A m \in Mail :
              \/ LogOf(After(b, r))[m] = LogOf(r)[m]
              \/ LogOf(r)[m] = "absent" /\ LogOf(After(b, r))[m] \in {"review", "read"}
              \/ LogOf(r)[m] = "review" /\ LogOf(After(b, r))[m] = "read"
  <1>1. PICK q : q = After(b, r)
    OBVIOUS
  <1>2. PICK w \in Seq(Row) : IsRewritten(w, r) /\ Fits(b, w) /\ IsInserted(q, w, b)
    BY <1>1, AfterIs
  <1>3. PICK n \in Nat : n = Len(r)
    OBVIOUS
  <1>4. /\ Len(w) = n
        /\ \A i \in 1 .. n : /\ w[i].id = r[i].id /\ w[i].noted = r[i].noted
                             /\ w[i].state = r[i].state \/ w[i].state = "read"
    BY <1>2, <1>3 DEF IsRewritten
  <1>5. Single(w)
    BY <1>3, <1>4 DEF Single
  <1>6. q \in Seq(Row) /\ Single(q)
    <2>1. q \in Seq(Row)
      BY <1>2 DEF IsInserted
    <2> QED BY <1>2, <1>5, <2>1, InsertedKeeps
  <1>7. \A m \in DOMAIN b.at : Landed(b, m) \in 1 .. Len(q) /\ q[Landed(b, m)] = NewRow(m, b.state[m])
    BY <1>2, InsertedAt
  <1>8. \A i \in 1 .. n : \E k \in 1 .. Len(q) : q[k] = w[i]
    BY <1>2, <1>4, InsertedAt
  <1>9. ASSUME NEW m \in Mail
        PROVE  /\ m \in NotedOn(q) <=> m \in NotedOn(r)
               /\ \/ LogOf(q)[m] = LogOf(r)[m]
                  \/ LogOf(r)[m] = "absent" /\ LogOf(q)[m] \in {"review", "read"}
                  \/ LogOf(r)[m] = "review" /\ LogOf(q)[m] = "read"
    <2>1. CASE \E i \in 1 .. n : r[i].id = m
      <3>1. PICK i \in 1 .. n : r[i].id = m
        BY <2>1
      <3>2. PICK k \in 1 .. Len(q) : q[k] = w[i] /\ q[k].id = m
        BY <1>4, <1>8, <3>1
      <3>3. LogOf(r)[m] = r[i].state /\ (m \in NotedOn(r) <=> r[i].noted)
        BY <1>3, <3>1, LogPresent
      <3>4. LogOf(q)[m] = q[k].state /\ (m \in NotedOn(q) <=> q[k].noted)
        BY <1>6, <3>2, LogPresent
      <3>5. r[i].state \in {"review", "read"}
        <4>1. r[i] \in Row
          BY <1>3
        <4> QED BY <4>1 DEF Row
      <3> QED BY <1>4, <3>2, <3>3, <3>4, <3>5
    <2>2. CASE m \in DOMAIN b.at
      <3>1. RowsOf(m, r) = {}
        BY <2>2 DEF Fits, OnSheet
      <3>2. LogOf(r)[m] = "absent" /\ m \notin NotedOn(r)
        BY <3>1, LogAbsent
      <3>3. PICK k \in 1 .. Len(q) : q[k] = NewRow(m, b.state[m])
        BY <1>7, <2>2
      <3>4. q[k].id = m /\ q[k].state = b.state[m] /\ ~q[k].noted
        BY <3>3 DEF NewRow
      <3>5. LogOf(q)[m] = q[k].state /\ (m \in NotedOn(q) <=> q[k].noted)
        BY <1>6, <3>4, LogPresent
      <3>6. b.state[m] \in {"review", "read"}
        BY <2>2 DEF IsBatch
      <3> QED BY <3>2, <3>4, <3>5, <3>6
    <2>3. CASE m \notin DOMAIN b.at /\ \A i \in 1 .. n : r[i].id # m
      <3>1. PICK o : IsArranged(o, q, w, b)
        BY <1>2, InsertedIs
      <3>2. ASSUME NEW k \in 1 .. Len(q) PROVE q[k].id # m
        <4>1. \/ o[k][1] \in 1 .. n /\ q[k] = w[o[k][1]]
              \/ o[k][2] \in DOMAIN b.at /\ q[k] = NewRow(o[k][2], b.state[o[k][2]])
          BY <1>4, <3>1 DEF IsArranged
        <4>2. CASE o[k][1] \in 1 .. n /\ q[k] = w[o[k][1]]
          BY <1>4, <2>3, <4>2
        <4>3. CASE o[k][2] \in DOMAIN b.at /\ q[k] = NewRow(o[k][2], b.state[o[k][2]])
          BY <2>3, <4>3 DEF NewRow
        <4> QED BY <4>1, <4>2, <4>3
      <3>3. RowsOf(m, q) = {}
        BY <1>6, <3>2, RowsAre DEF RowsOf
      <3>4. RowsOf(m, r) = {}
        BY <1>3, <2>3, RowsAre DEF RowsOf
      <3> QED BY <3>3, <3>4, LogAbsent
    <2> QED BY <2>1, <2>2, <2>3
  <1>10. NotedOn(q) = NotedOn(r)
    BY <1>9 DEF NotedOn
  <1> QED BY <1>1, <1>6, <1>9, <1>10

(* The rows a call reports for it. *)
LEMMA LandedRows ==
  ASSUME NEW r \in Seq(Row), NEW b, IsBatch(b), ~b.sort, Fits(b, r)
  PROVE  /\ \A m \in DOMAIN b.at : After(b, r)[Landed(b, m)].id = m
         /\ \A m \in DOMAIN b.again : After(b, r)[Pushed(b, m)].id = m
         /\ NewestFirst(r) => NewestFirst(After(b, r))
  <1>1. PICK q : q = After(b, r)
    OBVIOUS
  <1>2. PICK w \in Seq(Row) : IsRewritten(w, r) /\ Fits(b, w) /\ IsInserted(q, w, b)
    BY <1>1, AfterIs
  <1>3. /\ Len(w) = Len(r) /\ \A i \in 1 .. Len(r) : w[i].id = r[i].id
    BY <1>2 DEF IsRewritten
  <1>4. ASSUME NEW m \in DOMAIN b.at PROVE q[Landed(b, m)].id = m
    <2>1. q[Landed(b, m)] = NewRow(m, b.state[m])
      BY <1>2, InsertedAt
    <2> QED BY <2>1 DEF NewRow
  <1>5. ASSUME NEW m \in DOMAIN b.again PROVE q[Pushed(b, m)].id = m
    <2>1. PICK i : i = b.again[m]
      OBVIOUS
    <2>2. m \in OnSheet(w) /\ i = Where(m, w)
      BY <1>2, <2>1 DEF Fits
    <2>3. i \in 1 .. Len(w) /\ w[i].id = m
      BY <2>2, WhereIs
    <2>4. q[i + Cardinality(Above(b, i + 1))] = w[i]
      BY <1>2, <2>3, InsertedAt
    <2> QED BY <2>1, <2>3, <2>4 DEF Pushed
  <1>6. ASSUME NewestFirst(r) PROVE NewestFirst(q)
    <2>1. Dated(w) = Dated(r)
      BY <1>2, <1>3, SameIdsFit
    <2>2. \A i \in Dated(r) : w[i].id = r[i].id
      BY <1>3, RowsAre DEF Dated
    <2>3. NewestFirst(w)
      BY <1>6, <2>1, <2>2 DEF NewestFirst
    <2> QED BY <1>2, <2>3, InsertedKeeps
  <1> QED BY <1>1, <1>4, <1>5, <1>6

(* Whatever rows it lands on, a batch leaves rows. *)
LEMMA AfterRows ==
  ASSUME NEW r \in Seq(Row), NEW b, b.sort \in BOOLEAN, ~b.sort => IsBatch(b)
  PROVE  After(b, r) \in Seq(Row)
  <1>1. CASE b.sort
    <2>1. IsPermuted(Sorted(r), r, Row)
      BY SortedRows
    <2> QED BY <1>1, <2>1 DEF IsPermuted, After
  <1>2. CASE ~b.sort
    <2>1. PICK w \in Seq(Row) : w = Rewritten(r, b)
      BY <1>2, RewrittenRows
    <2>2. IsInserted(Inserted(w, b), LongFor(w, b), b)
      BY <1>2, InsertedRows
    <2> QED BY <1>2, <2>1, <2>2 DEF IsInserted, After
  <1> QED BY <1>1, <1>2

(* A batch planned from a reading fits what was read. *)
LEMMA PlannedFits ==
  ASSUME NEW r \in Seq(Row), NEW p, NEW w, NEW seq, NEW b, b = Batch(p, w, r, seq)
  PROVE  IsBatch(b) /\ Fits(b, r) /\ ~b.sort
  <1>1. /\ b.at = [m \in Fresh(w, r) |-> Place(m, r)]
        /\ b.again = [m \in Again(w, r) |-> Where(m, r)]
        /\ b.state = [m \in Fresh(w, r) |-> w[m]] /\ ~b.sort
    BY DEF Batch
  <1>2. \A m \in Fresh(w, r) : m \in Mail /\ m \notin OnSheet(r) /\ w[m] \in {"review", "read"}
    BY DEF Fresh
  <1>3. \A m \in Again(w, r) : m \in Mail /\ m \in OnSheet(r)
    BY DEF Again
  <1>4. Len(r) \in Nat
    OBVIOUS
  <1>5. \A m \in Fresh(w, r) : Place(m, r) \in Nat \ {0}
    BY <1>2, <1>4, PlaceIs
  <1>6. \A m \in Again(w, r) : Where(m, r) \in Nat \ {0}
    BY <1>3, <1>4, WhereIs
  <1>7. IsBatch(b)
    BY <1>1, <1>2, <1>3, <1>5, <1>6 DEF IsBatch
  <1> QED BY <1>1, <1>2, <1>3, <1>7 DEF Fits

=============================================================================
