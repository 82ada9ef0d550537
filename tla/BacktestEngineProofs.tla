------------------------- MODULE BacktestEngineProofs -------------------------
(***************************************************************************)
(* Safety of the worker for any dataset, batch size and stride, any prices *)
(* and any signals.  What its loops compute is proved by induction over    *)
(* their steps.                                                            *)
(***************************************************************************)
EXTENDS BacktestEngine, FiniteSetTheorems, SequenceTheorems,
        WellFoundedInduction, TLAPS

(* Induction over the steps of a loop                                      *)
LEMMA StepByStep ==
  ASSUME NEW n \in Nat, NEW S, 0 \in S,
         \A k \in 1..n : k - 1 \in S => k \in S
  PROVE  \A k \in 0..n : k \in S
<1> SUFFICES ASSUME NEW m \in 0..n, m \notin S
             PROVE  FALSE
  OBVIOUS
<1> DEFINE T == {k \in 0..n : k \notin S}
<1>1. T \subseteq Nat /\ T # {}
  OBVIOUS
<1>2. PICK k \in T : \A j \in T : ~(<<j, k>> \in OpToRel(<, Nat))
  BY <1>1, NatLessThanWellFounded, WFMin
<1>3. \A j \in T : ~(j < k)
  BY <1>1, <1>2 DEF OpToRel
<1>4. k \in 1..n /\ k - 1 \in 0..n
  OBVIOUS
<1>5. k - 1 \in S
  BY <1>3, <1>4
<1> QED  BY <1>4, <1>5

(* at is where the elements of r stand in s: the positions of S, in order. *)
Places(at, r, s, S) ==
    /\ at \in [1..Len(r) -> S]
    /\ \A k \in 1..Len(r) : r[k] = s[at[k]]
    /\ \A k, l \in 1..Len(r) : k < l => at[k] < at[l]
    /\ \A i \in S : \E k \in 1..Len(r) : at[k] = i

(* Selected keeps what S selects, in order: each element once.             *)
LEMMA SelectedInOrder ==
  ASSUME NEW E, NEW s \in Seq(E), NEW S \in SUBSET (1..Len(s))
  PROVE  /\ Selected(s, S) \in Seq(E)
         /\ Len(Selected(s, S)) = Cardinality(S)
         /\ \E at : Places(at, Selected(s, S), s, S)
<1> DEFINE n == Len(s)
           Loop(f, m) == f = [k \in 0..m |->
                                IF k = 0 THEN <<>>
                                ELSE IF k \in S THEN Append(f[k - 1], s[k]) ELSE f[k - 1]]
           D(m) == {i \in 1..m : i \in S}
           InOrder(r, m) == \E at : Places(at, r, s, D(m))
<1>1. n \in Nat /\ \A k \in 1..n : s[k] \in E
  OBVIOUS
<1> HIDE DEF n
<1>2. \E f : Loop(f, n)
  <2> DEFINE T == {m \in 0..n : \E f : Loop(f, m)}
  <2>1. 0 \in T
    <3>1. Loop([k \in 0..0 |-> <<>>], 0)
      OBVIOUS
    <3> HIDE DEF Loop
    <3>2. \E f : Loop(f, 0)
      BY <3>1
    <3> QED  BY <1>1, <3>2
  <2>2. ASSUME NEW m \in 1..n, m - 1 \in T
        PROVE  m \in T
    <3>1. PICK f : Loop(f, m - 1)
      BY <2>2
    <3>2. DOMAIN f = 0 .. m - 1
      BY <3>1
    <3> DEFINE g == [k \in 0..m |-> IF k < m THEN f[k]
                                    ELSE IF m \in S THEN Append(f[m - 1], s[m]) ELSE f[m - 1]]
    <3>3. \A k \in 0 .. m - 1 : g[k] = f[k]
      BY <1>1
    <3>4. ASSUME NEW k \in 0..m
          PROVE  g[k] = IF k = 0 THEN <<>>
                        ELSE IF k \in S THEN Append(g[k - 1], s[k]) ELSE g[k - 1]
      <4>1. CASE k = m
        BY <1>1, <3>3, <4>1
      <4>2. CASE k < m
        <5>1. k \in 0 .. m - 1 /\ (k # 0 => k - 1 \in 0 .. m - 1)
          BY <1>1, <4>2
        <5> HIDE DEF g
        <5> QED  BY <3>1, <3>3, <5>1
      <4> QED  BY <1>1, <4>1, <4>2
    <3>5. Loop(g, m)
      <4> HIDE DEF g
      <4>1. g = [k \in 0..m |-> g[k]]
        BY DEF g
      <4> QED  BY <3>4, <4>1
    <3> HIDE DEF Loop
    <3>6. \E h : Loop(h, m)
      BY <3>5
    <3> QED  BY <3>6
  <2> HIDE DEF T
  <2>3. \A k \in 1..n : k - 1 \in T => k \in T
    BY <2>2
  <2>4. \A k \in 0..n : k \in T
    BY <1>1, <2>1, <2>3, StepByStep, Zenon
  <2>5. n \in T
    BY <1>1, <2>4
  <2> QED  BY <2>5 DEF T
<1> DEFINE kept == CHOOSE f : Loop(f, n)
<1>3. Loop(kept, n)
  BY <1>2
<1>4. Selected(s, S) = kept[n]
  BY DEF Selected, n
<1> HIDE DEF kept
<1>5. /\ kept[0] = <<>>
      /\ \A k \in 1..n : kept[k] = IF k \in S THEN Append(kept[k - 1], s[k]) ELSE kept[k - 1]
  <2>1. ASSUME NEW k \in 0..n
        PROVE  kept[k] = IF k = 0 THEN <<>>
                         ELSE IF k \in S THEN Append(kept[k - 1], s[k]) ELSE kept[k - 1]
    BY <1>3
  <2>2. 0 \in 0..n /\ \A k \in 1..n : k \in 0..n /\ k # 0
    BY <1>1
  <2> HIDE DEF Loop
  <2> QED  BY <2>1, <2>2
<1> HIDE DEF Loop
<1>6. kept[n] \in Seq(E) /\ InOrder(kept[n], n)
  <2> DEFINE T == {m \in 0..n : kept[m] \in Seq(E) /\ InOrder(kept[m], m)}
  <2>1. 0 \in T
    <3>1. InOrder(<<>>, 0)
      <4>1. 1..0 = {} /\ 1..Len(<<>>) = {} /\ D(0) = {}
        OBVIOUS
      <4>2. [k \in {} |-> 0] \in [1..Len(<<>>) -> D(0)]
        BY <4>1
      <4>3. Places([k \in {} |-> 0], <<>>, s, D(0))
        <5> HIDE DEF D
        <5> QED  BY <4>1, <4>2 DEF Places
      <4> QED  BY <4>3
    <3> HIDE DEF InOrder
    <3>2. kept[0] \in Seq(E) /\ InOrder(kept[0], 0)
      BY <1>5, <3>1
    <3> QED  BY <1>1, <3>2
  <2>2. ASSUME NEW m \in 1..n, m - 1 \in T
        PROVE  m \in T
    <3>0. PICK at : Places(at, kept[m - 1], s, D(m - 1))
      BY <2>2
    <3>1. /\ at \in [1..Len(kept[m - 1]) -> D(m - 1)]
          /\ \A k \in 1..Len(kept[m - 1]) : kept[m - 1][k] = s[at[k]]
          /\ \A k, l \in 1..Len(kept[m - 1]) : k < l => at[k] < at[l]
          /\ \A i \in D(m - 1) : \E k \in 1..Len(kept[m - 1]) : at[k] = i
      BY <3>0 DEF Places
    <3>2. kept[m - 1] \in Seq(E) /\ Len(kept[m - 1]) \in Nat
      BY <2>2
    <3> DEFINE q == kept[m - 1]
               c == Len(q)
    <3>3. CASE m \notin S
      <4>1. kept[m] = q
        BY <1>5, <3>3
      <4>2. D(m) = D(m - 1)
        BY <1>1, <3>3
      <4>3. Places(at, kept[m], s, D(m))
        <5> HIDE DEF D
        <5> QED  BY <3>0, <4>1, <4>2
      <4>4. kept[m] \in Seq(E) /\ InOrder(kept[m], m)
        BY <3>2, <4>1, <4>3, Zenon
      <4> HIDE DEF InOrder
      <4> QED  BY <4>4
    <3>4. CASE m \in S
      <4>1. kept[m] = Append(q, s[m])
        BY <1>5, <3>4
      <4>2. /\ kept[m] \in Seq(E) /\ Len(kept[m]) = c + 1
            /\ \A k \in 1..c : kept[m][k] = q[k]
            /\ kept[m][c + 1] = s[m]
        BY <1>1, <3>2, <4>1
      <4>3. D(m) = D(m - 1) \cup {m}
        BY <1>1, <3>4
      <4> DEFINE at2 == [k \in 1 .. c + 1 |-> IF k <= c THEN at[k] ELSE m]
      <4>4. /\ \A k \in 1..c : at2[k] = at[k] /\ at[k] \in D(m - 1)
            /\ at2[c + 1] = m
            /\ c \in Nat
        <5>1. c \in Nat
          BY <3>2
        <5>2. at \in [1..c -> D(m - 1)]
          BY <3>1
        <5> HIDE DEF c, D
        <5> QED  BY <5>1, <5>2
      <4>5. at2 \in [1 .. c + 1 -> D(m)]
        <5>1. \A k \in 1 .. c + 1 : at2[k] \in D(m)
          <6> HIDE DEF at2, D, c, q
          <6> QED  BY <4>3, <4>4
        <5> QED  BY <5>1
      <4> HIDE DEF at2, c, q
      <4>6. \A k \in 1 .. c + 1 : k \in 1..c \/ k = c + 1
        BY <4>4
      <4>7. \A k \in 1 .. c + 1 : kept[m][k] = s[at2[k]]
        BY <3>1, <4>2, <4>4, <4>6 DEF c, q
      <4>8. ASSUME NEW k \in 1 .. c + 1, NEW l \in 1 .. c + 1, k < l
            PROVE  at2[k] < at2[l]
        <5>1. k \in 1..c /\ at2[k] = at[k] /\ at[k] \in 1 .. m - 1
          BY <4>4, <4>8
        <5>2. CASE l = c + 1
          BY <4>4, <5>1, <5>2, <1>1
        <5>3. CASE l \in 1..c
          BY <3>1, <4>4, <4>8, <5>1, <5>3 DEF c, q
        <5> QED  BY <4>6, <5>2, <5>3
      <4>9. ASSUME NEW i \in D(m)
            PROVE  \E k \in 1 .. c + 1 : at2[k] = i
        <5>1. CASE i = m
          <6>1. c + 1 \in 1 .. c + 1
            BY <4>4
          <6> QED  BY <4>4, <5>1, <6>1
        <5>2. CASE i \in D(m - 1)
          <6> HIDE DEF D
          <6>1. PICK k \in 1..c : at[k] = i
            BY <3>1, <5>2 DEF c, q
          <6>2. k \in 1 .. c + 1
            BY <4>4
          <6> QED  BY <4>4, <6>1, <6>2
        <5> QED  BY <4>3, <5>1, <5>2
      <4>10. Places(at2, kept[m], s, D(m))
        <5> HIDE DEF D
        <5> QED  BY <4>2, <4>5, <4>7, <4>8, <4>9 DEF Places
      <4>11. InOrder(kept[m], m)
        BY <4>10, Zenon
      <4> HIDE DEF InOrder
      <4> QED  BY <4>2, <4>11
    <3> QED  BY <3>3, <3>4
  <2> HIDE DEF T
  <2>3. \A k \in 1..n : k - 1 \in T => k \in T
    BY <2>2
  <2>4. \A k \in 0..n : k \in T
    BY <1>1, <2>1, <2>3, StepByStep, Zenon
  <2>5. n \in T
    BY <1>1, <2>4
  <2> QED  BY <2>5 DEF T
<1> DEFINE r == kept[n]
           c == Len(r)
<1>7. c \in Nat /\ c = Cardinality(D(n))
  <2>1. c \in Nat
    BY <1>6
  <2>2. PICK at : Places(at, r, s, D(n))
    BY <1>6
  <2>3. /\ at \in [1..c -> D(n)]
        /\ \A k, l \in 1..c : k < l => at[k] < at[l]
        /\ \A i \in D(n) : \E k \in 1..c : at[k] = i
    BY <2>2 DEF Places
  <2> HIDE DEF c, r
  <2>4. at \in Bijection(1..c, D(n))
    <3>1. \A k, l \in 1..c : at[k] = at[l] => k = l
      <4> SUFFICES ASSUME NEW k \in 1..c, NEW l \in 1..c, at[k] = at[l]
                   PROVE  ~(k < l) /\ ~(l < k)
        BY <2>1
      <4>1. at[k] \in Nat /\ at[l] \in Nat
        BY <1>1, <2>3
      <4> HIDE DEF D
      <4> QED  BY <2>3, <4>1
    <3> HIDE DEF D
    <3>2. at \in Injection(1..c, D(n))
      BY <2>3, <3>1 DEF Injection, IsInjective
    <3>3. at \in Surjection(1..c, D(n))
      BY <2>3 DEF Surjection
    <3> QED  BY <3>2, <3>3 DEF Bijection
  <2>5. IsFiniteSet(1..c) /\ Cardinality(1..c) = c
    BY <2>1, FS_Interval
  <2> HIDE DEF D
  <2>6. Cardinality(D(n)) = Cardinality(1..c)
    BY <2>4, <2>5, FS_Bijection DEF ExistsBijection
  <2> QED  BY <2>1, <2>5, <2>6
<1>8. D(n) = S
  BY DEF n
<1> HIDE DEF D, r
<1> QED  BY <1>4, <1>6, <1>7, <1>8 DEF r

(* A running total is the only function its loop defines.                  *)
LEMMA RunningTotal ==
  ASSUME NEW n \in Nat, NEW a \in [1..n -> Int]
  PROVE  \E f \in [0..n -> Int] :
             /\ f[0] = 0
             /\ \A k \in 1..n : f[k] = f[k - 1] + a[k]
             /\ \A g : g = [k \in 0..n |-> IF k = 0 THEN 0 ELSE g[k - 1] + a[k]] <=> g = f
<1> DEFINE Sums(f, m) == /\ f \in [0..m -> Int]
                         /\ f[0] = 0
                         /\ \A k \in 1..m : f[k] = f[k - 1] + a[k]
           T == {m \in 0..n : \E f : Sums(f, m)}
<1>1. 0 \in T
  <2>1. Sums([k \in 0..0 |-> 0], 0)
    OBVIOUS
  <2> HIDE DEF Sums
  <2>2. \E f : Sums(f, 0)
    BY <2>1
  <2> QED  BY <2>2
<1>2. ASSUME NEW m \in 1..n, m - 1 \in T
      PROVE  m \in T
  <2>1. PICK f : Sums(f, m - 1)
    BY <1>2
  <2>2. /\ f \in [0 .. m - 1 -> Int] /\ f[0] = 0
        /\ \A k \in 1 .. m - 1 : f[k] = f[k - 1] + a[k]
    BY <2>1
  <2> DEFINE g == [k \in 0..m |-> IF k < m THEN f[k] ELSE f[m - 1] + a[m]]
  <2>3. /\ \A k \in 0 .. m - 1 : g[k] = f[k] /\ f[k] \in Int
        /\ g[m] = f[m - 1] + a[m]
        /\ m - 1 \in 0 .. m - 1 /\ a[m] \in Int
    BY <2>2
  <2>4. g \in [0..m -> Int]
    <3>1. \A k \in 0..m : k \in 0 .. m - 1 \/ k = m
      OBVIOUS
    <3>2. f[m - 1] + a[m] \in Int
      <4>1. f[m - 1] \in Int /\ a[m] \in Int
        BY <2>3
      <4> QED  BY <4>1
    <3>3. g = [k \in 0..m |-> g[k]]
      OBVIOUS
    <3> HIDE DEF g
    <3>4. \A k \in 0..m : g[k] \in Int
      BY <2>3, <3>1, <3>2
    <3> QED  BY <3>3, <3>4
  <2> HIDE DEF g
  <2>5. ASSUME NEW k \in 1..m PROVE g[k] = g[k - 1] + a[k]
    <3>1. CASE k = m
      BY <2>3, <3>1
    <3>2. CASE k \in 1 .. m - 1
      BY <2>2, <2>3, <3>2, SMTT(30)
    <3> QED  BY <3>1, <3>2
  <2>6. g[0] = 0
    BY <2>2, <2>3
  <2>7. Sums(g, m)
    BY <2>4, <2>5, <2>6
  <2> HIDE DEF Sums
  <2>8. \E h : Sums(h, m)
    BY <2>7
  <2> QED  BY <2>8
<1>3. PICK f : Sums(f, n)
  <2> HIDE DEF T
  <2>1. \A m \in 1..n : m - 1 \in T => m \in T
    BY <1>2
  <2>2. \A m \in 0..n : m \in T
    BY <1>1, <2>1, StepByStep, Zenon
  <2>3. n \in T
    BY <2>2
  <2> QED  BY <2>3 DEF T
<1>4. /\ f \in [0..n -> Int] /\ f[0] = 0
      /\ \A k \in 1..n : f[k] = f[k - 1] + a[k]
  BY <1>3
<1> DEFINE Loop(g) == g = [k \in 0..n |-> IF k = 0 THEN 0 ELSE g[k - 1] + a[k]]
<1>5. Loop(f)
  <2>1. \A k \in 0..n : f[k] = IF k = 0 THEN 0 ELSE f[k - 1] + a[k]
    BY <1>4
  <2>2. f = [k \in 0..n |-> f[k]]
    BY <1>4
  <2> QED  BY <2>1, <2>2
<1>6. ASSUME NEW g, Loop(g)
      PROVE  g = f
  <2>1. DOMAIN g = 0..n
    BY <1>6
  <2>2. ASSUME NEW k \in 0..n
        PROVE  g[k] = IF k = 0 THEN 0 ELSE g[k - 1] + a[k]
    BY <1>6
  <2>3. g[0] = 0 /\ \A k \in 1..n : g[k] = g[k - 1] + a[k]
    <3>1. 0 \in 0..n /\ \A k \in 1..n : k \in 0..n /\ k # 0
      OBVIOUS
    <3> HIDE DEF Loop
    <3> QED  BY <2>2, <3>1
  <2> DEFINE U == {m \in 0..n : g[m] = f[m]}
  <2>4. 0 \in U
    BY <1>4, <2>3
  <2>5. \A m \in 1..n : m - 1 \in U => m \in U
    BY <1>4, <2>3
  <2> HIDE DEF U
  <2>6. \A m \in 0..n : m \in U
    BY <2>4, <2>5, StepByStep, Zenon
  <2>7. \A m \in 0..n : g[m] = f[m]
    BY <2>6 DEF U
  <2>8. g = [k \in 0..n |-> g[k]]
    BY <1>6
  <2>9. f = [k \in 0..n |-> f[k]]
    BY <1>4
  <2> HIDE DEF Loop, Sums
  <2> QED  BY <2>7, <2>8, <2>9
<1>7. \A g : Loop(g) <=> g = f
  <2> HIDE DEF Loop
  <2> QED  BY <1>5, <1>6
<1> QED  BY <1>4, <1>7

FillRecords == [order: Orders, price: Int, at: Nat, commission: Int]

(* What fills cost and buy is summed up fill by fill.                      *)
LEMMA Account ==
  ASSUME NEW new \in Seq(FillRecords)
  PROVE  \E paid, bought \in [0..Len(new) -> Int] :
             /\ paid[0] = 0 /\ bought[0] = 0
             /\ \A k \in 1..Len(new) : /\ paid[k] = paid[k - 1] + Paid(new[k])
                                       /\ bought[k] = bought[k - 1] + Bought(new[k])
             /\ Total(Paid, new) = paid[Len(new)]
             /\ Total(Bought, new) = bought[Len(new)]
<1> DEFINE n == Len(new)
           p == [k \in 1..n |-> Paid(new[k])]
           b == [k \in 1..n |-> Bought(new[k])]
<1>1. n \in Nat
  OBVIOUS
<1>2. ASSUME NEW k \in 1..n
      PROVE  Paid(new[k]) \in Int /\ Bought(new[k]) \in Int
  <2>1. /\ new[k].price \in Int /\ new[k].commission \in Int
        /\ new[k].order.quantity \in Int
    <3>1. new[k] \in FillRecords
      OBVIOUS
    <3>2. new[k].order \in Orders /\ new[k].price \in Int /\ new[k].commission \in Int
      BY <3>1 DEF FillRecords
    <3> QED  BY <3>2 DEF Orders
  <2> QED  BY <2>1, MatchingAssumption, SMTT(30) DEF Paid, Bought, Notional
<1> HIDE DEF n
<1>3. /\ p \in [1..n -> Int] /\ b \in [1..n -> Int]
      /\ \A k \in 1..n : p[k] = Paid(new[k]) /\ b[k] = Bought(new[k])
  BY <1>2
<1> HIDE DEF p, b
<1>4. PICK paid \in [0..n -> Int] :
          /\ paid[0] = 0
          /\ \A k \in 1..n : paid[k] = paid[k - 1] + p[k]
          /\ \A g : g = [k \in 0..n |-> IF k = 0 THEN 0 ELSE g[k - 1] + p[k]] <=> g = paid
  BY <1>1, <1>3, RunningTotal
<1>5. PICK bought \in [0..n -> Int] :
          /\ bought[0] = 0
          /\ \A k \in 1..n : bought[k] = bought[k - 1] + b[k]
          /\ \A g : g = [k \in 0..n |-> IF k = 0 THEN 0 ELSE g[k - 1] + b[k]] <=> g = bought
  BY <1>1, <1>3, RunningTotal
<1>6. Total(Paid, new) = paid[n]
  <2> DEFINE Step(g) == [k \in 0..n |-> IF k = 0 THEN 0 ELSE g[k - 1] + Paid(new[k])]
             Add(g)  == [k \in 0..n |-> IF k = 0 THEN 0 ELSE g[k - 1] + p[k]]
  <2>1. Total(Paid, new) = (CHOOSE g : g = Step(g))[n]
    BY DEF Total, n
  <2>2. ASSUME NEW g PROVE Step(g) = Add(g)
    <3>1. \A k \in 0..n : k # 0 => Paid(new[k]) = p[k]
      BY <1>1, <1>3
    <3> QED  BY <3>1
  <2>3. \A g : g = Add(g) <=> g = paid
    BY <1>4
  <2> HIDE DEF Step, Add
  <2> QED  BY <2>1, <2>2, <2>3
<1>7. Total(Bought, new) = bought[n]
  <2> DEFINE Step(g) == [k \in 0..n |-> IF k = 0 THEN 0 ELSE g[k - 1] + Bought(new[k])]
             Add(g)  == [k \in 0..n |-> IF k = 0 THEN 0 ELSE g[k - 1] + b[k]]
  <2>1. Total(Bought, new) = (CHOOSE g : g = Step(g))[n]
    BY DEF Total, n
  <2>2. ASSUME NEW g PROVE Step(g) = Add(g)
    <3>1. \A k \in 0..n : k # 0 => Bought(new[k]) = b[k]
      BY <1>1, <1>3
    <3> QED  BY <3>1
  <2>3. \A g : g = Add(g) <=> g = bought
    BY <1>5
  <2> HIDE DEF Step, Add
  <2> QED  BY <2>1, <2>2, <2>3
<1>8. \A k \in 1..n : /\ paid[k] = paid[k - 1] + Paid(new[k])
                      /\ bought[k] = bought[k - 1] + Bought(new[k])
  BY <1>3, <1>4, <1>5
<1>9. /\ paid \in [0..n -> Int] /\ bought \in [0..n -> Int]
      /\ paid[0] = 0 /\ bought[0] = 0
  BY <1>4, <1>5
<1> QED  BY <1>6, <1>7, <1>8, <1>9, Zenon DEF n

(* Without a trade the account is worth what it began with.                *)
Untraded ==
    fills = <<>> => /\ cash = Capital /\ position = 0
                    /\ \A i \in DOMAIN curve : curve[i] = 2 * Capital

(* The inductive invariant of the simulator adds when orders were placed   *)
(* and filled, which the histories do not tell by their types.             *)
MatchingInv ==
    /\ TypeOK /\ EveryOrderOnce /\ FirstComeFirstServed /\ FilledAtFirstChance
    /\ Untraded
    /\ fills \in Seq(FillRecords)
    /\ \A i \in DOMAIN book : book[i].born \in 1..Len(tick)
    /\ \A i \in DOMAIN fills : /\ fills[i].at \in 1..Len(tick)
                              /\ fills[i].order.born \in 1..fills[i].at

(* The orders a tick is matched against: those at rest, then the new ones. *)
LEMMA OrdersInLine ==
  ASSUME MatchingInv, NEW signals \in Seq(Signals)
  PROVE  LET orders == Queue(book, Placed(signals))
             filled == {fills[i].order.id : i \in DOMAIN fills}
             line   == {orders[i].id : i \in 1..Len(orders)}
         IN  /\ orders \in Seq(Orders)
             /\ Len(orders) = Len(book) + Len(signals)
             /\ \A i \in 1..Len(orders) :
                    /\ orders[i].born \in 1 .. Len(tick) + 1
                    /\ \A k \in orders[i].born .. Len(tick) : ~Marketable(orders[i], tick[k])
             /\ \A i, j \in 1..Len(orders) : i < j => orders[i].id < orders[j].id
             /\ line \cap filled = {}
             /\ line \cup filled = 0 .. seq + Len(signals) - 1
<1> DEFINE placed == Placed(signals)
           orders == Queue(book, placed)
           b      == Len(book)
           n      == Len(signals)
<1>1. /\ book \in Seq(Orders) /\ b \in Nat /\ seq \in Nat /\ n \in Nat
      /\ Len(tick) \in Nat
  BY DEF MatchingInv, TypeOK
<1>2. /\ placed \in Seq(Orders) /\ Len(placed) = n
      /\ \A i \in 1..n : placed[i].id = seq + i - 1 /\ placed[i].born = Len(tick) + 1
  <2>1. ASSUME NEW i \in 1..n
        PROVE  /\ placed[i] \in Orders
               /\ placed[i].id = seq + i - 1 /\ placed[i].born = Len(tick) + 1
    <3>1. signals[i] \in Signals
      BY <1>1
    <3>2. signals[i] \in [side: Sides, quantity: Int, limit: Int, type: Types]
      BY <3>1, MatchingAssumption
    <3>3. seq + i - 1 \in Nat
      BY <1>1
    <3> QED  BY <1>1, <3>2, <3>3 DEF Placed, Orders
  <2>2. DOMAIN signals = 1..n
    BY <1>1
  <2>3. placed = [i \in 1..n |-> placed[i]]
    BY <2>2 DEF Placed
  <2> HIDE DEF placed
  <2> QED  BY <1>1, <2>1, <2>3
<1> HIDE DEF placed, n
<1>3. /\ orders \in Seq(Orders) /\ Len(orders) = b + n
      /\ \A i \in 1..b : orders[i] = book[i]
      /\ \A i \in b + 1 .. b + n : orders[i] = placed[i - b]
  <2>1. orders = book \o placed
    BY DEF Queue
  <2> HIDE DEF orders
  <2>2. Len(orders) = b + n
    BY <1>1, <1>2, <2>1, ConcatProperties
  <2>3. orders \in Seq(Orders)
    BY <1>1, <1>2, <2>1
  <2>4. ASSUME NEW i \in 1 .. b + n
        PROVE  orders[i] = IF i <= b THEN book[i] ELSE placed[i - b]
    BY <1>1, <1>2, <2>1
  <2> HIDE DEF b
  <2> QED  BY <1>1, <2>2, <2>3, <2>4
<1> HIDE DEF orders, b
<1>4. ASSUME NEW i \in b + 1 .. b + n
      PROVE  /\ orders[i].id = seq + (i - b) - 1
             /\ orders[i].born = Len(tick) + 1
  <2>1. i - b \in 1..n
    BY <1>1
  <2> QED  BY <1>2, <1>3, <2>1
<1>5. \A i \in 1 .. b + n : i \in 1..b \/ i \in b + 1 .. b + n
  BY <1>1
<1>6. ASSUME NEW i \in 1 .. b + n
      PROVE  /\ orders[i].born \in 1 .. Len(tick) + 1
             /\ \A k \in orders[i].born .. Len(tick) : ~Marketable(orders[i], tick[k])
  <2>1. CASE i \in 1..b
    <3>1. orders[i] = book[i] /\ i \in DOMAIN book
      BY <1>1, <1>3, <2>1 DEF b
    <3>2. /\ book[i].born \in 1..Len(tick)
          /\ \A k \in book[i].born .. Len(tick) : ~Marketable(book[i], tick[k])
      BY <3>1 DEF MatchingInv, FilledAtFirstChance
    <3> QED  BY <1>1, <3>1, <3>2
  <2>2. CASE i \in b + 1 .. b + n
    BY <1>1, <1>4, <2>2
  <2> QED  BY <1>5, <2>1, <2>2
<1> DEFINE filled  == {fills[i].order.id : i \in DOMAIN fills}
           resting == {book[i].id : i \in DOMAIN book}
           line    == {orders[i].id : i \in 1..Len(orders)}
<1>7. resting \cap filled = {} /\ resting \cup filled = 0 .. seq - 1
  BY DEF MatchingInv, EveryOrderOnce
<1>8. ASSUME NEW i \in 1..b
      PROVE  orders[i] = book[i] /\ i \in DOMAIN book /\ orders[i].id \in resting
  BY <1>1, <1>3 DEF b
<1>9. ASSUME NEW i \in 1 .. b + n, NEW j \in 1 .. b + n, i < j
      PROVE  orders[i].id < orders[j].id
  <2>1. CASE j \in 1..b
    <3>1. i \in 1..b
      BY <1>1, <1>9, <2>1
    <3> QED  BY <1>8, <1>9, <2>1, <3>1 DEF MatchingInv, FirstComeFirstServed
  <2>2. CASE i \in 1..b /\ j \in b + 1 .. b + n
    <3>1. orders[i].id \in 0 .. seq - 1
      BY <1>7, <1>8, <2>2
    <3> QED  BY <1>1, <1>4, <2>2, <3>1
  <2>3. CASE i \in b + 1 .. b + n
    <3>1. j \in b + 1 .. b + n
      BY <1>1, <1>9, <2>3
    <3> QED  BY <1>1, <1>4, <1>9, <2>3, <3>1
  <2> QED  BY <1>5, <2>1, <2>2, <2>3
<1>10. line = resting \cup (seq .. seq + n - 1)
  <2>1. ASSUME NEW i \in 1 .. b + n
        PROVE  orders[i].id \in resting \cup (seq .. seq + n - 1)
    <3>1. CASE i \in 1..b
      BY <1>8, <3>1
    <3>2. CASE i \in b + 1 .. b + n
      BY <1>1, <1>4, <3>2
    <3> QED  BY <1>5, <3>1, <3>2
  <2>2. ASSUME NEW x \in seq .. seq + n - 1
        PROVE  x \in line
    <3>1. b + (x - seq) + 1 \in b + 1 .. b + n /\ b + (x - seq) + 1 \in 1 .. b + n
      BY <1>1
    <3>2. orders[b + (x - seq) + 1].id = x
      BY <1>1, <1>4, <3>1
    <3> QED  BY <1>3, <3>1, <3>2
  <2>3. ASSUME NEW i \in DOMAIN book
        PROVE  book[i].id \in line
    <3>1. i \in 1..b /\ i \in 1 .. b + n
      BY <1>1 DEF b
    <3> QED  BY <1>3, <1>8, <3>1
  <2> QED  BY <1>3, <2>1, <2>2, <2>3
<1>11. line \cap filled = {} /\ line \cup filled = 0 .. seq + n - 1
  <2> HIDE DEF line, resting, filled
  <2> QED  BY <1>1, <1>7, <1>10
<1> QED  BY <1>3, <1>6, <1>9, <1>11 DEF orders, b, n, placed

(* A tick moves the orders it can fill from the book to the fills.         *)
LEMMA Matching ==
  ASSUME MatchingInv, NEW signals \in Seq(Signals), NEW t \in Ticks
  PROVE  LET orders == Queue(book, Placed(signals))
             rest   == Remaining(orders, t)
             new    == Filled(orders, t)
             m      == Len(orders)
             M      == Matched(orders, t)
         IN  /\ rest \in Seq(Orders) /\ new \in Seq(FillRecords)
             /\ Len(rest) + Len(new) = m
             /\ \E at : Places(at, rest, orders, (1..m) \ M)
             /\ \E at \in [1..Len(new) -> M] :
                    /\ \A k \in 1..Len(new) : /\ new[k] = Fill(orders[at[k]], t)
                                              /\ new[k].order = orders[at[k]]
                                              /\ new[k].at = Len(tick) + 1
                    /\ \A k, l \in 1..Len(new) : k < l => at[k] < at[l]
                    /\ \A i \in M : \E k \in 1..Len(new) : at[k] = i
<1> DEFINE orders == Queue(book, Placed(signals))
           rest   == Remaining(orders, t)
           new    == Filled(orders, t)
           m      == Len(orders)
           M      == Matched(orders, t)
           all    == [i \in DOMAIN orders |-> Fill(orders[i], t)]
<1>1. orders \in Seq(Orders) /\ m \in Nat /\ DOMAIN orders = 1..m
  BY OrdersInLine
<1>2. rest = Selected(orders, DOMAIN orders \ M) /\ new = Selected(all, M)
  BY DEF Remaining, Filled
<1>3. M \subseteq 1..m
  BY <1>1 DEF Matched
<1> HIDE DEF orders, M
<1>4. ASSUME NEW i \in 1..m
      PROVE  /\ Fill(orders[i], t) \in FillRecords
             /\ Fill(orders[i], t).order = orders[i]
             /\ Fill(orders[i], t).at = Len(tick) + 1
  <2>1. orders[i] \in Orders
    BY <1>1
  <2>2. t.bid \in Int /\ t.ask \in Int /\ t.last \in Int
    BY MatchingAssumption
  <2>3. RefPrice(orders[i], t) \in Int
    BY <2>2 DEF RefPrice
  <2>4. ApplySlippage(orders[i].side, RefPrice(orders[i], t)) \in Int
    <3>1. Scale + Slippage \in Int /\ Scale - Slippage \in Int
      BY MatchingAssumption
    <3> HIDE DEF m
    <3> QED  BY <2>3, <3>1 DEF ApplySlippage
  <2>5. orders[i].quantity \in Int
    BY <2>1 DEF Orders
  <2>6. \A x \in Int : CommissionFor(x) \in Int
    BY MatchingAssumption DEF CommissionFor, Abs
  <2>7. Len(tick) + 1 \in Nat
    BY DEF MatchingInv, TypeOK
  <2>8. ApplySlippage(orders[i].side, RefPrice(orders[i], t)) * orders[i].quantity \in Int
    BY <2>4, <2>5
  <2> QED  BY <2>1, <2>4, <2>6, <2>7, <2>8 DEF Fill, FillRecords
<1>5. all \in Seq(FillRecords) /\ Len(all) = m /\ \A i \in 1..m : all[i] = Fill(orders[i], t)
  <2>1. all = [i \in 1..m |-> Fill(orders[i], t)]
    BY <1>1
  <2> HIDE DEF all, m
  <2> QED  BY <1>1, <1>4, <2>1
<1> HIDE DEF m, all
<1>6. DOMAIN orders \ M \in SUBSET (1..Len(orders)) /\ DOMAIN orders \ M = (1..m) \ M
  BY <1>1 DEF m
<1>7. /\ rest \in Seq(Orders) /\ Len(rest) = Cardinality((1..m) \ M)
      /\ \E at : Places(at, rest, orders, (1..m) \ M)
  <2> HIDE DEF rest
  <2> QED  BY <1>1, <1>2, <1>6, SelectedInOrder
<1>8. /\ new \in Seq(FillRecords) /\ Len(new) = Cardinality(M)
      /\ \E at : Places(at, new, all, M)
  <2> HIDE DEF new
  <2> QED  BY <1>2, <1>3, <1>5, SelectedInOrder
<1>9. Len(rest) + Len(new) = m
  <2>1. IsFiniteSet(1..m) /\ Cardinality(1..m) = m
    BY <1>1, FS_Interval
  <2>2. IsFiniteSet(M) /\ IsFiniteSet((1..m) \ M)
    BY <1>3, <2>1, FS_Subset
  <2>3. (M \cup ((1..m) \ M)) = 1..m /\ (M \cap ((1..m) \ M)) = {}
    BY <1>3
  <2>4. Cardinality(M \cup ((1..m) \ M))
            = Cardinality(M) + Cardinality((1..m) \ M) - Cardinality(M \cap ((1..m) \ M))
    BY <2>2, FS_Union
  <2>5. /\ Cardinality(M) \in Nat /\ Cardinality((1..m) \ M) \in Nat
        /\ Cardinality({}) = 0
    BY <2>2, FS_CardinalityType, FS_EmptySet
  <2>6. m = Cardinality(M) + Cardinality((1..m) \ M) - Cardinality({})
    BY <2>1, <2>3, <2>4, Zenon
  <2>7. Len(rest) = Cardinality((1..m) \ M) /\ Len(new) = Cardinality(M)
    BY <1>7, <1>8
  <2> HIDE DEF rest, new
  <2> QED  BY <2>5, <2>6, <2>7
<1>10. PICK at : Places(at, new, all, M)
  BY <1>8
<1>11. ASSUME NEW k \in 1..Len(new)
       PROVE  /\ new[k] = Fill(orders[at[k]], t)
              /\ new[k].order = orders[at[k]] /\ new[k].at = Len(tick) + 1
  <2>1. at[k] \in 1..m /\ new[k] = all[at[k]]
    BY <1>3, <1>10 DEF Places
  <2> HIDE DEF new
  <2> QED  BY <1>4, <1>5, <2>1
<1>12. \E f \in [1..Len(new) -> M] :
           /\ \A k \in 1..Len(new) : /\ new[k] = Fill(orders[f[k]], t)
                                     /\ new[k].order = orders[f[k]]
                                     /\ new[k].at = Len(tick) + 1
           /\ \A k, l \in 1..Len(new) : k < l => f[k] < f[l]
           /\ \A i \in M : \E k \in 1..Len(new) : f[k] = i
  <2> HIDE DEF new
  <2> QED  BY <1>10, <1>11 DEF Places
<1> QED  BY <1>7, <1>8, <1>9, <1>12 DEF orders, M, m

(* Matching the orders against a tick preserves MatchingInv.               *)
LEMMA MatchingStep ==
  ASSUME MatchingInv, NEW signals \in Seq(Signals), NEW t \in Ticks,
         ProcessSignals(signals, t)
  PROVE  MatchingInv'
<1> DEFINE orders == Queue(book, Placed(signals))
           rest   == Remaining(orders, t)
           new    == Filled(orders, t)
           M      == Matched(orders, t)
           m      == Len(orders)
           n      == Len(signals)
           now    == Len(tick) + 1
<1>0. cash' = cash + Total(Paid, new) /\ position' = position + Total(Bought, new)
  BY DEF ProcessSignals
<1>1. /\ book' = rest /\ seq' = seq + n
      /\ curve' = Append(curve, Equity(cash', position', Mark(t)))
      /\ fills' = fills \o new
      /\ tick' = Append(tick, t)
  BY DEF ProcessSignals
<1>2. /\ orders \in Seq(Orders) /\ m = Len(book) + n
      /\ \A i \in 1..m :
             /\ orders[i].born \in 1..now
             /\ \A k \in orders[i].born .. Len(tick) : ~Marketable(orders[i], tick[k])
      /\ \A i, j \in 1..m : i < j => orders[i].id < orders[j].id
  BY OrdersInLine
<1> DEFINE filled == {fills[i].order.id : i \in DOMAIN fills}
           line   == {orders[i].id : i \in 1..m}
<1>3. line \cap filled = {} /\ line \cup filled = 0 .. seq + n - 1
  BY OrdersInLine
<1>4. PICK rat : Places(rat, rest, orders, (1..m) \ M)
  BY Matching
<1>5. /\ rest \in Seq(Orders) /\ new \in Seq(FillRecords)
      /\ Len(rest) + Len(new) = m
  BY Matching
<1>6. PICK nat \in [1..Len(new) -> M] :
          /\ \A k \in 1..Len(new) : /\ new[k] = Fill(orders[nat[k]], t)
                                    /\ new[k].order = orders[nat[k]]
                                    /\ new[k].at = now
          /\ \A k, l \in 1..Len(new) : k < l => nat[k] < nat[l]
          /\ \A i \in M : \E k \in 1..Len(new) : nat[k] = i
  BY Matching
<1>7. /\ M \subseteq 1..m /\ m \in Nat
      /\ \A i \in 1..m : i \in M <=> Marketable(orders[i], t)
  BY <1>2 DEF Matched
<1>8. /\ seq \in Nat /\ n \in Nat /\ tick \in Seq(Ticks) /\ Len(tick) \in Nat /\ now \in Nat
      /\ fills \in Seq(FillRecords) /\ book \in Seq(Orders)
      /\ curve \in Seq(Int) /\ Len(curve) = Len(tick)
      /\ cash \in Int /\ position \in Int
  BY DEF MatchingInv, TypeOK
<1> HIDE DEF orders, rest, new, M, m, n, now
<1>9. /\ tick' \in Seq(Ticks) /\ Len(tick') = now /\ tick'[now] = t
      /\ \A k \in 1..Len(tick) : tick'[k] = tick[k]
  BY <1>1, <1>8 DEF now
<1>10. /\ fills' \in Seq(FillRecords) /\ Len(fills') = Len(fills) + Len(new)
       /\ \A i \in 1..Len(fills) : fills'[i] = fills[i]
       /\ \A i \in 1..Len(new) : fills'[Len(fills) + i] = new[i]
       /\ Len(fills) \in Nat /\ Len(new) \in Nat
  BY <1>1, <1>5, <1>8, ConcatProperties
<1>11. ASSUME NEW i \in DOMAIN fills'
       PROVE  \/ i \in 1..Len(fills) /\ i \in DOMAIN fills /\ fills'[i] = fills[i]
              \/ /\ i - Len(fills) \in 1..Len(new) /\ i > Len(fills)
                 /\ fills'[i] = new[i - Len(fills)]
  <2>1. i \in 1 .. Len(fills) + Len(new)
    BY <1>10
  <2>2. CASE i <= Len(fills)
    BY <1>8, <1>10, <2>1, <2>2
  <2>3. CASE i > Len(fills)
    <3>1. i - Len(fills) \in 1..Len(new) /\ Len(fills) + (i - Len(fills)) = i
      BY <1>10, <2>1, <2>3
    <3> QED  BY <1>10, <2>3, <3>1
  <2> QED  BY <1>10, <2>1, <2>2, <2>3
<1>12. /\ Len(rest) \in Nat /\ DOMAIN book' = 1..Len(rest)
       /\ rat \in [1..Len(rest) -> (1..m) \ M]
       /\ \A k \in 1..Len(rest) : book'[k] = orders[rat[k]]
       /\ \A k, l \in 1..Len(rest) : k < l => rat[k] < rat[l]
       /\ \A i \in (1..m) \ M : \E k \in 1..Len(rest) : rat[k] = i
  <2>1. Len(rest) \in Nat /\ DOMAIN rest = 1..Len(rest)
    BY <1>5
  <2>2. book' = rest
    BY <1>1
  <2> QED  BY <1>4, <2>1, <2>2 DEF Places
<1>13. TypeOK'
  <2>1. Total(Paid, new) \in Int /\ Total(Bought, new) \in Int
    <3>1. Len(new) \in 0..Len(new)
      BY <1>10
    <3>2. PICK paid, bought \in [0..Len(new) -> Int] :
              /\ Total(Paid, new) = paid[Len(new)]
              /\ Total(Bought, new) = bought[Len(new)]
      BY <1>5, Account
    <3> QED  BY <3>1, <3>2
  <2>2. cash' \in Int /\ position' \in Int
    <3> DEFINE paid == Total(Paid, new)
               bought == Total(Bought, new)
    <3>1. cash' = cash + paid /\ position' = position + bought
      BY <1>0
    <3>2. paid \in Int /\ bought \in Int
      BY <2>1
    <3> HIDE DEF paid, bought
    <3> QED  BY <1>8, <3>1, <3>2
  <2>3. Mark(t) \in Int
    <3>1. t.bid \in Int /\ t.ask \in Int /\ t.last \in Int
      BY MatchingAssumption
    <3> QED  BY <3>1 DEF Mark
  <2>4. Equity(cash', position', Mark(t)) \in Int
    BY <2>2, <2>3, MatchingAssumption, SMTT(30) DEF Equity
  <2>5. curve' \in Seq(Int) /\ Len(curve') = now
    BY <1>1, <1>8, <2>4 DEF now
  <2>6. \A i \in DOMAIN fills' : fills'[i].order \in Orders
    <3>1. \A i \in DOMAIN fills' : fills'[i] \in FillRecords
      BY <1>10
    <3> QED  BY <3>1 DEF FillRecords
  <2>7. book' \in Seq(Orders) /\ seq' \in Nat
    BY <1>1, <1>5, <1>8
  <2> QED  BY <1>9, <2>2, <2>5, <2>6, <2>7 DEF TypeOK
<1>14. EveryOrderOnce'
  <2> DEFINE restIds == {book'[i].id : i \in DOMAIN book'}
             fillIds == {fills'[i].order.id : i \in DOMAIN fills'}
  <2>1. \A i, j \in 1..m : orders[i].id = orders[j].id => i = j
    <3>1. \A i \in 1..m : orders[i].id \in Int
      <4>1. \A i \in 1..m : orders[i] \in Orders
        BY <1>2 DEF m
      <4> QED  BY <4>1 DEF Orders
    <3>2. \A i, j \in 1..m : i = j \/ i < j \/ j < i
      BY <1>7
    <3> QED  BY <1>2, <3>1, <3>2
  <2>2. restIds = {orders[i].id : i \in (1..m) \ M}
    <3>1. \A k \in 1..Len(rest) : rat[k] \in (1..m) \ M /\ book'[k].id = orders[rat[k]].id
      BY <1>12
    <3>2. ASSUME NEW i \in (1..m) \ M
          PROVE  orders[i].id \in restIds
      <4>1. PICK k \in 1..Len(rest) : rat[k] = i
        BY <1>12
      <4> QED  BY <1>12, <3>1, <4>1
    <3>3. ASSUME NEW k \in DOMAIN book'
          PROVE  book'[k].id \in {orders[i].id : i \in (1..m) \ M}
      BY <1>12, <3>1
    <3> QED  BY <3>2, <3>3
  <2>3. fillIds = filled \cup {orders[i].id : i \in M}
    <3>1. ASSUME NEW i \in DOMAIN fills'
          PROVE  fills'[i].order.id \in filled \cup {orders[j].id : j \in M}
      BY <1>6, <1>11
    <3>2. ASSUME NEW i \in DOMAIN fills
          PROVE  fills[i].order.id \in fillIds
      <4>1. i \in 1..Len(fills) /\ i \in DOMAIN fills'
        BY <1>8, <1>10
      <4> QED  BY <1>10, <4>1
    <3>3. ASSUME NEW j \in M
          PROVE  orders[j].id \in fillIds
      <4>1. PICK k \in 1..Len(new) : nat[k] = j
        BY <1>6
      <4>2. Len(fills) + k \in DOMAIN fills' /\ fills'[Len(fills) + k].order.id = orders[j].id
        BY <1>6, <1>10, <4>1, SMTT(30)
      <4> QED  BY <4>2
    <3> HIDE DEF fillIds
    <3> QED  BY <3>1, <3>2, <3>3 DEF fillIds
  <2>4. line = restIds \cup {orders[i].id : i \in M}
    BY <1>7, <2>2
  <2>5. restIds \cap {orders[i].id : i \in M} = {}
    BY <1>7, <2>1, <2>2
  <2>6. Len(book') + Len(fills') = seq'
    <3>1. Len(book) + Len(fills) = seq
      BY DEF MatchingInv, EveryOrderOnce
    <3>2. Len(book) \in Nat
      BY <1>8
    <3>3. Len(book') = Len(rest) /\ seq' = seq + n
      BY <1>1
    <3>4. Len(book) + n = Len(rest) + Len(new)
      BY <1>2, <1>5
    <3>5. Len(rest) \in Nat /\ Len(new) \in Nat /\ Len(fills) \in Nat
      BY <1>10, <1>12
    <3>6. Len(fills') = Len(fills) + Len(new)
      BY <1>10
    <3>7. seq \in Nat /\ n \in Nat
      BY <1>8
    <3> QED  BY <3>1, <3>2, <3>3, <3>4, <3>5, <3>6, <3>7, SMTT(30)
  <2>7. restIds \cap fillIds = {} /\ restIds \cup fillIds = 0 .. seq' - 1
    <3> HIDE DEF restIds, fillIds, line, filled
    <3> DEFINE gone == {orders[i].id : i \in M}
    <3>1. /\ fillIds = filled \cup gone /\ line = restIds \cup gone
          /\ restIds \cap gone = {}
      BY <2>3, <2>4, <2>5
    <3>2. seq' - 1 = seq + n - 1
      BY <1>1, <1>8
    <3> HIDE DEF gone
    <3> QED  BY <1>3, <3>1, <3>2
  <2> QED  BY <2>6, <2>7, Zenon DEF EveryOrderOnce
<1>15. FirstComeFirstServed'
  <2>1. ASSUME NEW i \in DOMAIN book', NEW j \in DOMAIN book', i < j
        PROVE  book'[i].id < book'[j].id
    <3>1. /\ rat[i] \in 1..m /\ rat[j] \in 1..m /\ rat[i] < rat[j]
          /\ book'[i] = orders[rat[i]] /\ book'[j] = orders[rat[j]]
      BY <1>12, <2>1
    <3> QED  BY <1>2, <3>1
  <2>2. ASSUME NEW i \in DOMAIN fills', NEW j \in DOMAIN fills',
               i < j, fills'[i].at = fills'[j].at
        PROVE  fills'[i].order.id < fills'[j].order.id
    <3>1. CASE j \in 1..Len(fills) /\ j \in DOMAIN fills /\ fills'[j] = fills[j]
      <4>1. i \in 1..Len(fills) /\ i \in DOMAIN fills /\ fills'[i] = fills[i]
        BY <1>8, <1>10, <2>2, <3>1
      <4> QED  BY <2>2, <3>1, <4>1 DEF MatchingInv, FirstComeFirstServed
    <3>2. CASE /\ j - Len(fills) \in 1..Len(new) /\ j > Len(fills)
               /\ fills'[j] = new[j - Len(fills)]
      <4>1. fills'[j].at = now
        BY <1>6, <3>2
      <4>2. CASE i \in 1..Len(fills) /\ i \in DOMAIN fills /\ fills'[i] = fills[i]
        <5>1. fills[i].at \in 1..Len(tick)
          BY <4>2 DEF MatchingInv
        <5> QED  BY <1>8, <2>2, <4>1, <4>2, <5>1 DEF now
      <4>3. CASE /\ i - Len(fills) \in 1..Len(new) /\ i > Len(fills)
                 /\ fills'[i] = new[i - Len(fills)]
        <5>1. nat[i - Len(fills)] < nat[j - Len(fills)]
          BY <1>6, <1>10, <2>2, <3>2, <4>3, SMTT(30)
        <5>2. nat[i - Len(fills)] \in 1..m /\ nat[j - Len(fills)] \in 1..m
          BY <1>6, <1>7, <3>2, <4>3
        <5>3. /\ fills'[i].order = orders[nat[i - Len(fills)]]
              /\ fills'[j].order = orders[nat[j - Len(fills)]]
          BY <1>6, <3>2, <4>3
        <5> QED  BY <1>2, <5>1, <5>2, <5>3
      <4> QED  BY <1>11, <4>2, <4>3
    <3> QED  BY <1>11, <3>1, <3>2
  <2> QED  BY <2>1, <2>2 DEF FirstComeFirstServed
<1>16. FilledAtFirstChance'
  <2>1. ASSUME NEW i \in DOMAIN book', NEW k \in book'[i].born .. Len(tick')
        PROVE  ~Marketable(book'[i], tick'[k])
    <3>1. book'[i] = orders[rat[i]] /\ rat[i] \in (1..m) \ M
      BY <1>12
    <3>2. CASE k = now
      BY <1>7, <1>9, <3>1, <3>2
    <3>3. CASE k # now
      <4>1. k \in orders[rat[i]].born .. Len(tick) /\ k \in 1..Len(tick)
        BY <1>2, <1>8, <1>9, <3>1, <3>3, SMTT(30) DEF now
      <4> QED  BY <1>2, <1>9, <3>1, <4>1
    <3> QED  BY <3>2, <3>3
  <2>2. ASSUME NEW i \in DOMAIN fills'
        PROVE  LET o == fills'[i].order
               IN  /\ Marketable(o, tick'[fills'[i].at])
                   /\ \A k \in o.born .. fills'[i].at - 1 : ~Marketable(o, tick'[k])
    <3>1. CASE i \in 1..Len(fills) /\ i \in DOMAIN fills /\ fills'[i] = fills[i]
      <4>1. /\ fills[i].at \in 1..Len(tick) /\ fills[i].order.born \in 1..fills[i].at
            /\ Marketable(fills[i].order, tick[fills[i].at])
            /\ \A k \in fills[i].order.born .. fills[i].at - 1 :
                   ~Marketable(fills[i].order, tick[k])
        BY <3>1 DEF MatchingInv, FilledAtFirstChance
      <4>2. \A k \in fills[i].order.born .. fills[i].at - 1 : k \in 1..Len(tick)
        <5>1. /\ fills[i].at \in 1..Len(tick)
              /\ fills[i].order.born \in 1..fills[i].at
          BY <4>1
        <5> QED  BY <1>8, <5>1, SMTT(30)
      <4> QED  BY <1>9, <3>1, <4>1, <4>2
    <3>2. CASE /\ i - Len(fills) \in 1..Len(new) /\ i > Len(fills)
               /\ fills'[i] = new[i - Len(fills)]
      <4> DEFINE p == nat[i - Len(fills)]
      <4>1. fills'[i].order = orders[p] /\ fills'[i].at = now /\ p \in M
        BY <1>6, <3>2
      <4> HIDE DEF p
      <4>2. Marketable(orders[p], t)
        BY <1>7, <4>1
      <4>3. \A k \in orders[p].born .. now - 1 : k \in 1..Len(tick) /\ k \in orders[p].born .. Len(tick)
        BY <1>2, <1>7, <1>8, <4>1 DEF now
      <4> QED  BY <1>2, <1>7, <1>9, <4>1, <4>2, <4>3
    <3> QED  BY <1>11, <3>1, <3>2
  <2> QED  BY <2>1, <2>2 DEF FilledAtFirstChance
<1>17. \A i \in DOMAIN book' : book'[i].born \in 1..Len(tick')
  BY <1>2, <1>9, <1>12
<1>18. ASSUME NEW i \in DOMAIN fills'
       PROVE  fills'[i].at \in 1..Len(tick') /\ fills'[i].order.born \in 1..fills'[i].at
  <2>1. CASE i \in 1..Len(fills) /\ i \in DOMAIN fills /\ fills'[i] = fills[i]
    <3>1. fills[i].at \in 1..Len(tick) /\ fills[i].order.born \in 1..fills[i].at
      BY <2>1 DEF MatchingInv
    <3> QED  BY <1>8, <1>9, <2>1, <3>1 DEF now
  <2>2. CASE /\ i - Len(fills) \in 1..Len(new) /\ i > Len(fills)
             /\ fills'[i] = new[i - Len(fills)]
    <3>1. nat[i - Len(fills)] \in 1..m
      BY <1>6, <1>7, <2>2
    <3>2. now \in 1..now
      BY <1>8 DEF now
    <3> QED  BY <1>2, <1>6, <1>9, <2>2, <3>1, <3>2, SMTT(30)
  <2> QED  BY <1>11, <2>1, <2>2
<1>19. Untraded'
  <2> SUFFICES ASSUME fills' = <<>>
               PROVE  /\ cash' = Capital /\ position' = 0
                      /\ \A i \in DOMAIN curve' : curve'[i] = 2 * Capital
    BY DEF Untraded
  <2>1. Len(fills) = 0 /\ Len(new) = 0
    BY <1>10
  <2>2. /\ cash = Capital /\ position = 0
        /\ \A i \in 1..Len(tick) : curve[i] = 2 * Capital
    <3>1. fills = <<>>
      BY <1>8, <2>1
    <3> QED  BY <1>8, <3>1 DEF MatchingInv, Untraded
  <2>3. Total(Paid, new) = 0 /\ Total(Bought, new) = 0
    <3>1. PICK paid, bought \in [0..Len(new) -> Int] :
              /\ paid[0] = 0 /\ bought[0] = 0
              /\ Total(Paid, new) = paid[Len(new)]
              /\ Total(Bought, new) = bought[Len(new)]
      BY <1>5, Account
    <3> QED  BY <2>1, <3>1
  <2>4. cash' = Capital /\ position' = 0
    <3> DEFINE paid == Total(Paid, new)
               bought == Total(Bought, new)
    <3>1. cash' = cash + paid /\ position' = position + bought /\ paid = 0 /\ bought = 0
      BY <1>0, <2>3
    <3> HIDE DEF paid, bought
    <3> QED  BY <1>8, <2>2, <3>1
  <2>5. Equity(cash', position', Mark(t)) = 2 * Capital
    <3>1. \A x \in Int : 0 * x * Scale * Scale = 0
      BY MatchingAssumption
    <3>2. Mark(t) \in Int /\ Capital \in Int
      BY MatchingAssumption DEF Mark
    <3> QED  BY <2>4, <3>1, <3>2 DEF Equity
  <2>6. /\ DOMAIN curve' = 1..now /\ curve'[now] = 2 * Capital
        /\ \A i \in 1..Len(tick) : curve'[i] = curve[i]
    <3> DEFINE e == Equity(cash', position', Mark(t))
    <3>1. curve' = Append(curve, e) /\ e = 2 * Capital
      BY <1>1, <2>5
    <3> HIDE DEF e
    <3> QED  BY <1>8, <3>1 DEF now
  <2>7. \A i \in 1..now : i = now \/ i \in 1..Len(tick)
    BY <1>8 DEF now
  <2> QED  BY <2>2, <2>4, <2>6, <2>7
<1> QED  BY <1>10, <1>13, <1>14, <1>15, <1>16, <1>17, <1>18, <1>19 DEF MatchingInv

(* The rows before each batch, and in all of them, add up batch by batch.  *)
LEMMA RowsSoFar ==
  ASSUME NEW B, \A b \in B : b.rows \in Seq(Ticks),
         NEW s \in Seq(B)
  PROVE  \E f \in [0..Len(s) -> Nat] :
             /\ f[0] = 0
             /\ \A k \in 1..Len(s) : f[k] = f[k - 1] + Len(s[k].rows)
             /\ \A j \in 0..Len(s) : Rows(SubSeq(s, 1, j)) = f[j]
<1> DEFINE n == Len(s)
           a == [k \in 1..n |-> Len(s[k].rows)]
<1>1. n \in Nat /\ \A k \in 1..n : Len(s[k].rows) \in Nat
  OBVIOUS
<1> HIDE DEF n
<1>2. a \in [1..n -> Int] /\ \A k \in 1..n : a[k] = Len(s[k].rows) /\ a[k] \in Nat
  BY <1>1
<1> HIDE DEF a
<1>3. PICK f \in [0..n -> Int] :
          /\ f[0] = 0
          /\ \A k \in 1..n : f[k] = f[k - 1] + a[k]
  BY <1>1, <1>2, RunningTotal
<1>4. \A k \in 0..n : f[k] \in Nat
  <2> DEFINE T == {k \in 0..n : f[k] \in Nat}
  <2>1. 0 \in T
    BY <1>1, <1>3
  <2>2. \A k \in 1..n : k - 1 \in T => k \in T
    BY <1>2, <1>3
  <2> HIDE DEF T
  <2>3. \A k \in 0..n : k \in T
    BY <1>1, <2>1, <2>2, StepByStep, Zenon
  <2> QED  BY <2>3 DEF T
<1>5. ASSUME NEW j \in 0..n
      PROVE  Rows(SubSeq(s, 1, j)) = f[j]
  <2> DEFINE q == SubSeq(s, 1, j)
             c == [k \in 1..j |-> a[k]]
             part == [k \in 0..j |-> f[k]]
             Step(g) == [k \in 0..j |-> IF k = 0 THEN 0 ELSE g[k - 1] + RowsOf(q[k])]
             Add(g)  == [k \in 0..j |-> IF k = 0 THEN 0 ELSE g[k - 1] + c[k]]
  <2>1. Len(q) = j /\ \A k \in 1..j : q[k] = s[k]
    BY <1>1 DEF n
  <2> HIDE DEF q
  <2>2. c \in [1..j -> Int] /\ \A k \in 1..j : c[k] = a[k] /\ k \in 1..n
    BY <1>1, <1>2
  <2> HIDE DEF c
  <2>9. j \in Nat
    BY <1>1
  <2>0. PICK h \in [0..j -> Int] :
            /\ h[0] = 0
            /\ \A k \in 1..j : h[k] = h[k - 1] + c[k]
            /\ \A g : g = [k \in 0..j |-> IF k = 0 THEN 0 ELSE g[k - 1] + c[k]] <=> g = h
    BY <2>2, <2>9, RunningTotal
  <2>3. \A g : g = Add(g) <=> g = h
    BY <2>0
  <2>4. ASSUME NEW g PROVE Step(g) = Add(g)
    <3>1. ASSUME NEW k \in 1..j PROVE RowsOf(q[k]) = c[k]
      BY <1>2, <2>1, <2>2 DEF RowsOf
    <3>2. \A k \in 0..j : k # 0 => k \in 1..j
      OBVIOUS
    <3> QED  BY <3>1, <3>2
  <2>5. Rows(q) = (CHOOSE g : g = Step(g))[j]
    BY <2>1 DEF Rows, Total
  <2>6. part = Add(part)
    <3>1. /\ 0 \in 0..n
          /\ \A k \in 0..j : k # 0 => /\ k \in 1..n /\ k \in 1..j
                                      /\ k - 1 \in 0..j /\ k - 1 \in 0..n
      BY <1>1
    <3>2. \A k \in 0..j : part[k] = IF k = 0 THEN 0 ELSE part[k - 1] + c[k]
      BY <1>3, <2>2, <3>1
    <3>3. part = [k \in 0..j |-> part[k]]
      OBVIOUS
    <3> HIDE DEF part
    <3> QED  BY <3>2, <3>3
  <2>7. part[j] = f[j]
    BY <1>1
  <2> HIDE DEF Step, Add, part
  <2>8. Rows(q) = part[j]
    BY <2>3, <2>4, <2>5, <2>6
  <2> QED  BY <2>7, <2>8 DEF q
<1>6. f \in [0..n -> Nat]
  BY <1>3, <1>4
<1> QED  BY <1>2, <1>3, <1>5, <1>6 DEF n

(* The tick store holds the columns of the usable batches, end to end:     *)
(* locate finds the batch of every index.                                  *)
LEMMA ViewIsHistory ==
  ASSUME config \in Configs, view = Views(config.dataset)
  PROVE  /\ History \in Seq(Ticks) /\ Size = Len(History)
         /\ \A i \in 0 .. Size - 1 : TickAt(i) = History[i + 1]
(* A file's batches are put end to end one by one.                         *)
<1>a. ASSUME NEW E, NEW h \in Seq(Seq(E))
      PROVE  \E f \in [0..Len(h) -> Seq(E)] :
                 /\ f[0] = <<>>
                 /\ \A k \in 1..Len(h) : f[k] = f[k - 1] \o h[k]
                 /\ FlattenSeq(h) = f[Len(h)]
  <2> USE <1>a
  <2> DEFINE n == Len(h)
             Flat(f, m) == /\ f \in [0..m -> Seq(E)]
                           /\ f[0] = <<>>
                           /\ \A k \in 1..m : f[k] = f[k - 1] \o h[k]
             T == {m \in 0..n : \E f : Flat(f, m)}
  <2>1. n \in Nat /\ \A k \in 1..n : h[k] \in Seq(E)
    OBVIOUS
  <2> HIDE DEF n
  <2>2. 0 \in T
    <3>1. <<>> \in Seq(E)
      OBVIOUS
    <3>2. Flat([k \in 0..0 |-> <<>>], 0)
      BY <3>1
    <3> HIDE DEF Flat
    <3> QED  BY <2>1, <3>2
  <2>3. ASSUME NEW m \in 1..n, m - 1 \in T
        PROVE  m \in T
    <3>1. PICK f : Flat(f, m - 1)
      BY <2>3
    <3>2. /\ f \in [0 .. m - 1 -> Seq(E)] /\ f[0] = <<>>
          /\ \A k \in 1 .. m - 1 : f[k] = f[k - 1] \o h[k]
      BY <3>1
    <3> DEFINE g == [k \in 0..m |-> IF k < m THEN f[k] ELSE f[m - 1] \o h[m]]
    <3>3. /\ \A k \in 0 .. m - 1 : g[k] = f[k]
          /\ g[m] = f[m - 1] \o h[m]
          /\ m - 1 \in 0 .. m - 1
      <4>1. /\ \A k \in 0 .. m - 1 : k \in 0..m /\ k < m
            /\ m \in 0..m /\ ~(m < m) /\ m - 1 \in 0 .. m - 1
        BY <2>1
      <4> QED  BY <4>1
    <3>4. f[m - 1] \o h[m] \in Seq(E)
      BY <2>1, <3>2, <3>3, ConcatProperties
    <3>5. g \in [0..m -> Seq(E)]
      <4>1. \A k \in 0..m : k \in 0 .. m - 1 \/ k = m
        BY <2>1
      <4>2. g = [k \in 0..m |-> g[k]]
        OBVIOUS
      <4> HIDE DEF g
      <4>3. \A k \in 0..m : g[k] \in Seq(E)
        BY <3>2, <3>3, <3>4, <4>1
      <4> QED  BY <4>2, <4>3
    <3> HIDE DEF g
    <3>6. ASSUME NEW k \in 1..m PROVE g[k] = g[k - 1] \o h[k]
      <4>1. CASE k = m
        BY <3>3, <4>1
      <4>2. CASE k \in 1 .. m - 1
        <5>1. k \in 0 .. m - 1 /\ k - 1 \in 0 .. m - 1
          BY <2>1, <4>2
        <5>2. g[k] = f[k] /\ g[k - 1] = f[k - 1]
          BY <3>3, <5>1
        <5>3. f[k] = f[k - 1] \o h[k]
          BY <3>2, <4>2
        <5> QED  BY <5>2, <5>3
      <4>3. k = m \/ k \in 1 .. m - 1
        BY <2>1
      <4> QED  BY <4>1, <4>2, <4>3
    <3>7. g[0] = <<>>
      BY <2>1, <3>2, <3>3
    <3>8. Flat(g, m)
      BY <3>5, <3>6, <3>7
    <3> HIDE DEF Flat
    <3> QED  BY <3>8
  <2>4. PICK f : Flat(f, n)
    <3> HIDE DEF T
    <3>1. \A m \in 1..n : m - 1 \in T => m \in T
      BY <2>3
    <3>2. \A m \in 0..n : m \in T
      BY <2>1, <2>2, <3>1, StepByStep, Zenon
    <3>3. n \in T
      BY <2>1, <3>2
    <3> QED  BY <3>3 DEF T
  <2>5. /\ f \in [0..n -> Seq(E)] /\ f[0] = <<>>
        /\ \A k \in 1..n : f[k] = f[k - 1] \o h[k]
    BY <2>4
  <2> HIDE DEF Flat, T
  <2>6. FlattenSeq(h) = f[n]
    <3>1. CASE n = 0
      <4>1. h = <<>>
        BY <3>1 DEF n
      <4> QED  BY <2>5, <3>1, <4>1 DEF FlattenSeq, n
    <3>2. CASE n # 0
      <4> DEFINE Loop(g) == g = [i \in 1..n |-> IF i = 1 THEN h[i] ELSE g[i - 1] \o h[i]]
                 flatten == CHOOSE g : Loop(g)
                 part == [k \in 1..n |-> f[k]]
      <4>1. FlattenSeq(h) = flatten[n]
        BY <3>2 DEF FlattenSeq, n
      <4>2. f[1] = h[1]
        <5>0. 1 \in 1..n /\ 1 - 1 = 0
          BY <2>1, <3>2
        <5>1. f[1] = <<>> \o h[1] /\ h[1] \in Seq(E)
          BY <2>1, <2>5, <5>0
        <5> QED  BY <5>1
      <4>3. Loop(part)
        <5>1. ASSUME NEW k \in 1..n
              PROVE  part[k] = IF k = 1 THEN h[k] ELSE part[k - 1] \o h[k]
          <6>1. CASE k = 1
            BY <4>2, <6>1
          <6>2. CASE k # 1
            <7>1. k - 1 \in 1..n
              BY <2>1, <6>2
            <7> QED  BY <2>5, <6>2, <7>1
          <6> QED  BY <6>1, <6>2
        <5>2. part = [k \in 1..n |-> part[k]]
          OBVIOUS
        <5> HIDE DEF part
        <5> QED  BY <5>1, <5>2
      <4>4. Loop(flatten)
        <5> HIDE DEF Loop
        <5> QED  BY <4>3
      <4> HIDE DEF flatten
      <4>5. ASSUME NEW k \in 1..n
            PROVE  flatten[k] = IF k = 1 THEN h[k] ELSE flatten[k - 1] \o h[k]
        BY <4>4
      <4> HIDE DEF Loop
      <4> DEFINE U == {k \in 0..n : k # 0 => flatten[k] = f[k]}
      <4>6. 0 \in U
        BY <2>1
      <4>7. ASSUME NEW k \in 1..n, k - 1 \in U
            PROVE  k \in U
        <5>1. CASE k = 1
          BY <4>2, <4>5, <5>1
        <5>2. CASE k # 1
          <6>1. k - 1 # 0 /\ flatten[k - 1] = f[k - 1]
            BY <2>1, <4>7, <5>2
          <6>2. flatten[k] = f[k]
            BY <2>5, <4>5, <5>2, <6>1
          <6> QED  BY <6>2
        <5> QED  BY <5>1, <5>2
      <4> HIDE DEF U
      <4>8. \A k \in 1..n : k - 1 \in U => k \in U
        BY <4>7
      <4>9. \A k \in 0..n : k \in U
        BY <2>1, <4>6, <4>8, StepByStep, Zenon
      <4>10. n \in U
        BY <2>1, <4>9
      <4> QED  BY <3>2, <4>1, <4>10 DEF U
    <3> QED  BY <3>1, <3>2
  <2> QED  BY <2>5, <2>6 DEF n
<1> DEFINE d    == config.dataset
           n    == Len(d)
           P    == DOMAIN d \ Gaps(d)
           good == Selected(d, P)
           g    == Len(good)
           Batches == [columns: BOOLEAN, rows: Seq(Ticks)]
           Columns == [rows: Seq(Ticks), offset: Nat]
           h    == [i \in DOMAIN d |-> IF d[i].columns THEN d[i].rows ELSE <<>>]
<1>0. /\ \A b \in Batches : b.rows \in Seq(Ticks)
      /\ \A b \in Columns : b.rows \in Seq(Ticks)
      /\ \A r \in Seq(Ticks), o \in Nat : [rows |-> r, offset |-> o] \in Columns
  OBVIOUS
<1>1. /\ d \in Seq(Batches) /\ n \in Nat /\ DOMAIN d = 1..n
      /\ \A i \in 1..n : d[i] \in Batches /\ d[i].rows \in Seq(Ticks)
  <2>1. d \in Seq(Batches)
    BY EngineAssumption
  <2> HIDE DEF d, Batches
  <2>2. \A i \in 1..n : d[i] \in Batches
    BY <2>1
  <2> QED  BY <1>0, <2>1, <2>2
<1> HIDE DEF d, n, Batches, Columns
<1>n. n \in Nat
  BY <1>1
<1>2. /\ P \in SUBSET (1..n)
      /\ \A i \in 1..n : i \in P <=> Usable(d[i])
  BY <1>1 DEF Gaps
<1> HIDE DEF P
<1>3. good \in Seq(Batches) /\ \E at : Places(at, good, d, P)
  <2> QED  BY <1>1, <1>2, SelectedInOrder DEF good, n
<1>4. PICK at : Places(at, good, d, P)
  BY <1>3
<1>5. view = EndToEnd(good)
  BY DEF Views, d, P
<1> HIDE DEF good
<1>6. /\ g \in Nat /\ DOMAIN good = 1..g
      /\ at \in [1..g -> P]
      /\ \A b \in 1..g : good[b] = d[at[b]] /\ at[b] \in 1..n
      /\ \A b, c \in 1..g : b < c => at[b] < at[c]
      /\ \A i \in P : \E b \in 1..g : at[b] = i
  <2>1. g \in Nat /\ DOMAIN good = 1..g
    BY <1>3
  <2>2. at \in [1..g -> P]
    BY <1>4 DEF Places
  <2>3. \A b \in 1..g : at[b] \in 1..n
    BY <1>2, <2>2
  <2> QED  BY <1>4, <2>1, <2>2, <2>3 DEF Places
<1> HIDE DEF g
<1>g. g \in Nat /\ \A b \in 1..g : at[b] \in Int
  <2>1. \A b \in 1..g : at[b] \in 1..n
    BY <1>6
  <2> QED  BY <1>n, <1>6, <2>1
<1>7. \A b \in 1..g : good[b].rows \in Seq(Ticks)
  BY <1>1, <1>6
<1>8. \E f \in [0..g -> Nat] :
          /\ f[0] = 0
          /\ \A k \in 1..g : f[k] = f[k - 1] + Len(good[k].rows)
          /\ \A j \in 0..g : Rows(SubSeq(good, 1, j)) = f[j]
  BY <1>0, <1>3, RowsSoFar DEF g
<1>9. PICK f \in [0..g -> Nat] :
          /\ f[0] = 0
          /\ \A k \in 1..g : f[k] = f[k - 1] + Len(good[k].rows)
          /\ \A j \in 0..g : Rows(SubSeq(good, 1, j)) = f[j]
  BY <1>8
<1>10. ASSUME NEW k \in 1..g
       PROVE  /\ k - 1 \in 0..g /\ f[k - 1] \in Nat /\ f[k] \in Nat
              /\ Len(good[k].rows) \in Nat /\ f[k] = f[k - 1] + Len(good[k].rows)
              /\ f[k - 1] <= f[k]
  <2>1. k - 1 \in 0..g /\ k \in 0..g
    BY <1>g
  <2>2. /\ f[k - 1] \in Nat /\ f[k] \in Nat
        /\ Len(good[k].rows) \in Nat /\ f[k] = f[k - 1] + Len(good[k].rows)
    BY <1>7, <1>9, <2>1
  <2> QED  BY <2>1, <2>2
<1>11. /\ view \in Seq(Columns) /\ Len(view) = g
       /\ \A b \in 1..g : view[b].rows = good[b].rows /\ view[b].offset = f[b - 1]
  <2>1. view = [b \in 1..g |-> [rows |-> good[b].rows, offset |-> Rows(SubSeq(good, 1, b - 1))]]
    BY <1>5, <1>6 DEF EndToEnd
  <2>2. \A b \in 1..g : Rows(SubSeq(good, 1, b - 1)) = f[b - 1]
    BY <1>9, <1>10
  <2>3. \A b \in 1..g : view[b] = [rows |-> good[b].rows, offset |-> f[b - 1]]
    BY <2>1, <2>2
  <2>4. \A b \in 1..g : view[b] \in Columns
    BY <1>0, <1>7, <1>10, <2>3
  <2>5. view = [b \in 1..g |-> view[b]]
    BY <2>1
  <2>6. view \in [1..g -> Columns]
    BY <2>4, <2>5
  <2>7. view \in Seq(Columns) /\ Len(view) = g
    <3>1. g \in Nat
      BY <1>g
    <3>2. view \in Seq(Columns)
      BY <2>6, <3>1, SeqDef, Zenon
    <3>3. DOMAIN view = 1..g
      BY <2>6
    <3>4. Len(view) \in Nat /\ 1..Len(view) = 1..g
      BY <3>2, <3>3, LenProperties
    <3>5. \A a, b \in Nat : 1..a = 1..b => a = b
      <4> SUFFICES ASSUME NEW a \in Nat, NEW b \in Nat, 1..a = 1..b
                   PROVE  a <= b /\ b <= a
        OBVIOUS
      <4>1. (a \in 1..a \/ a = 0) /\ (b \in 1..b \/ b = 0)
        OBVIOUS
      <4>2. (a \in 1..b \/ a = 0) /\ (b \in 1..a \/ b = 0)
        BY <4>1
      <4> QED  BY <4>2
    <3> QED  BY <3>1, <3>2, <3>4, <3>5, Zenon
  <2>8. ASSUME NEW b \in 1..g
        PROVE  view[b].rows = good[b].rows /\ view[b].offset = f[b - 1]
    <3>1. view[b] = [rows |-> good[b].rows, offset |-> f[b - 1]]
      BY <2>3
    <3> QED  BY <3>1
  <2> QED  BY <2>7, <2>8
<1>12. Size = f[g]
  <2>1. \E w \in [0..g -> Nat] :
            /\ w[0] = 0
            /\ \A k \in 1..g : w[k] = w[k - 1] + Len(view[k].rows)
            /\ \A j \in 0..g : Rows(SubSeq(view, 1, j)) = w[j]
    <3>0. view \in Seq(Columns) /\ \A b \in Columns : b.rows \in Seq(Ticks)
      BY <1>0, <1>11
    <3>1. \E w \in [0..Len(view) -> Nat] :
            /\ w[0] = 0
            /\ \A k \in 1..Len(view) : w[k] = w[k - 1] + Len(view[k].rows)
            /\ \A j \in 0..Len(view) : Rows(SubSeq(view, 1, j)) = w[j]
      BY <3>0, RowsSoFar
    <3> QED  BY <1>11, <3>1
  <2>2. PICK w \in [0..g -> Nat] :
            /\ w[0] = 0
            /\ \A k \in 1..g : w[k] = w[k - 1] + Len(view[k].rows)
            /\ \A j \in 0..g : Rows(SubSeq(view, 1, j)) = w[j]
    BY <2>1
  <2> DEFINE T == {k \in 0..g : w[k] = f[k]}
  <2>3. 0 \in T
    BY <1>6, <1>9, <2>2
  <2>4. ASSUME NEW k \in 1..g, k - 1 \in T
        PROVE  k \in T
    <3>1. w[k] = w[k - 1] + Len(good[k].rows) /\ w[k - 1] = f[k - 1]
      BY <1>11, <2>2, <2>4
    <3>2. k \in 0..g
      BY <1>g
    <3> QED  BY <1>10, <3>1, <3>2
  <2> HIDE DEF T
  <2>8. \A k \in 1..g : k - 1 \in T => k \in T
    BY <2>4
  <2>5. \A k \in 0..g : k \in T
    BY <1>g, <2>3, <2>8, StepByStep, Zenon
  <2>6. w[g] = f[g] /\ g \in 0..g
    BY <1>6, <2>5 DEF T
  <2>7. SubSeq(view, 1, g) = view
    BY <1>6, <1>11
  <2> QED  BY <2>2, <2>6, <2>7 DEF Size
<1>13. \A b, c \in 0..g : b <= c => f[b] <= f[c]
  <2> SUFFICES ASSUME NEW b \in 0..g PROVE \A c \in 0..g : b <= c => f[b] <= f[c]
    OBVIOUS
  <2> DEFINE T == {c \in 0..g : b <= c => f[b] <= f[c]}
  <2>1. 0 \in T
    BY <1>6
  <2>2. ASSUME NEW k \in 1..g, k - 1 \in T
        PROVE  k \in T
    <3>1. f[b] \in Nat
      BY <1>9
    <3>2. k \in 0..g /\ (b <= k => b = k \/ b <= k - 1)
      BY <1>6
    <3>3. f[k] \in Nat /\ f[k - 1] \in Nat /\ f[k - 1] <= f[k]
      BY <1>10
    <3>4. b <= k - 1 => f[b] <= f[k - 1]
      BY <2>2
    <3> QED  BY <3>1, <3>2, <3>3, <3>4
  <2> HIDE DEF T
  <2>3. \A k \in 1..g : k - 1 \in T => k \in T
    BY <2>2
  <2>4. \A k \in 0..g : k \in T
    BY <1>6, <2>1, <2>3, StepByStep, Zenon
  <2> QED  BY <2>4 DEF T
<1>14. /\ h \in Seq(Seq(Ticks)) /\ Len(h) = n
       /\ \A i \in 1..n : i \notin P => h[i] = <<>>
       /\ \A b \in 1..g : h[at[b]] = good[b].rows
  <2>1. \A i \in 1..n : h[i] = IF d[i].columns THEN d[i].rows ELSE <<>>
    BY <1>1
  <2>2. \A i \in 1..n : h[i] \in Seq(Ticks)
    BY <1>1, <2>1
  <2>3. h = [i \in 1..n |-> h[i]]
    BY <1>1
  <2> HIDE DEF h
  <2>4. h \in Seq(Seq(Ticks)) /\ Len(h) = n
    <3> DEFINE Rs == Seq(Ticks)
    <3>1. \A i \in 1..n : h[i] \in Rs
      BY <2>2
    <3> HIDE DEF Rs
    <3>2. h \in Seq(Rs) /\ Len(h) = n
      BY <1>n, <2>3, <3>1
    <3> QED  BY <3>2 DEF Rs
  <2>5. \A i \in 1..n : i \notin P => h[i] = <<>>
    BY <1>2, <2>1 DEF Usable
  <2>6. ASSUME NEW b \in 1..g
        PROVE  h[at[b]] = good[b].rows
    <3>1. at[b] \in P /\ at[b] \in 1..n /\ good[b] = d[at[b]]
      BY <1>6
    <3>2. d[at[b]].columns
      BY <1>2, <3>1 DEF Usable
    <3> QED  BY <2>1, <3>1, <3>2
  <2> QED  BY <2>4, <2>5, <2>6
<1>15. History = FlattenSeq(h)
  BY DEF History, d
<1> HIDE DEF h
<1>16. PICK F \in [0..n -> Seq(Ticks)] :
           /\ F[0] = <<>>
           /\ \A k \in 1..n : F[k] = F[k - 1] \o h[k]
           /\ FlattenSeq(h) = F[n]
  <2>1. \E F \in [0..Len(h) -> Seq(Ticks)] :
           /\ F[0] = <<>>
           /\ \A k \in 1..Len(h) : F[k] = F[k - 1] \o h[k]
           /\ FlattenSeq(h) = F[Len(h)]
    BY <1>14, <1>a
  <2> QED  BY <1>14, <2>1
<1> DEFINE Upto(i, c) ==
               /\ \A b \in 1..g : b <= c <=> at[b] <= i
               /\ Len(F[i]) = f[c]
               /\ \A b \in 1..g : b <= c =>
                      \A r \in 1..Len(good[b].rows) : F[i][f[b - 1] + r] = good[b].rows[r]
           T == {i \in 0..n : \E c \in 0..g : Upto(i, c)}
<1>17. 0 \in T
  <2>1. \A b \in 1..g : ~(b <= 0) /\ ~(at[b] <= 0)
    BY <1>6
  <2>2. Len(F[0]) = f[0]
    BY <1>9, <1>16
  <2>3. Upto(0, 0)
    BY <2>1, <2>2
  <2>4. 0 \in 0..g /\ 0 \in 0..n
    BY <1>1, <1>6
  <2> HIDE DEF Upto
  <2> QED  BY <2>3, <2>4
<1>18. ASSUME NEW i \in 1..n, i - 1 \in T
       PROVE  i \in T
  <2>1. PICK c \in 0..g : Upto(i - 1, c)
    BY <1>18
  <2>2. /\ \A b \in 1..g : b <= c <=> at[b] <= i - 1
        /\ Len(F[i - 1]) = f[c]
        /\ \A b \in 1..g : b <= c =>
               \A r \in 1..Len(good[b].rows) : F[i - 1][f[b - 1] + r] = good[b].rows[r]
    BY <2>1
  <2>6. i - 1 \in 0..n /\ i \in 0..n
    BY <1>n
  <2>3. /\ i - 1 \in 0..n /\ i \in 0..n
        /\ F[i - 1] \in Seq(Ticks) /\ F[i] = F[i - 1] \o h[i]
    BY <1>16, <2>6
  <2> HIDE DEF T
  <2>4. CASE i \notin P
    <3>1. F[i] = F[i - 1]
      <4>1. h[i] = <<>>
        BY <1>14, <2>4
      <4> QED  BY <2>3, <4>1
    <3>2. \A b \in 1..g : b <= c <=> at[b] <= i
      <4>1. \A b \in 1..g : at[b] # i /\ at[b] \in 1..n
        BY <1>6, <2>4
      <4> QED  BY <1>1, <2>2, <4>1
    <3>3. Upto(i, c)
      BY <2>2, <3>1, <3>2
    <3> HIDE DEF Upto
    <3> QED  BY <2>3, <3>3 DEF T
  <2>5. CASE i \in P
    <3>1. PICK e \in 1..g : at[e] = i
      BY <1>6, <2>5
    <3>2. e = c + 1
      <4>1. ~(e <= c)
        BY <1>1, <2>2, <3>1
      <4>2. CASE e > c + 1
        <5>1. c + 1 \in 1..g /\ ~(c + 1 <= c)
          BY <1>6, <4>2
        <5>2. at[c + 1] < i /\ ~(at[c + 1] <= i - 1) /\ at[c + 1] \in 1..n
          BY <1>6, <2>2, <3>1, <4>2, <5>1
        <5> QED  BY <1>1, <5>2
      <4> QED  BY <1>6, <4>1, <4>2
    <3>3. \A b \in 1..g : b <= e <=> at[b] <= i
      <4>1. ASSUME NEW b \in 1..g, b <= e
            PROVE  at[b] <= i
        <5>1. at[b] \in 1..n /\ (b < e => at[b] < i)
          BY <1>6, <3>1
        <5> QED  BY <1>n, <1>g, <3>1, <4>1, <5>1, SMTT(30)
      <4>2. ASSUME NEW b \in 1..g, e < b
            PROVE  ~(at[b] <= i)
        <5>1. at[b] \in 1..n /\ i < at[b]
          BY <1>6, <3>1, <4>2
        <5> QED  BY <1>n, <5>1
      <4> QED  BY <1>g, <4>1, <4>2
    <3>4. h[i] = good[e].rows /\ h[i] \in Seq(Ticks)
      BY <1>7, <1>14, <3>1
    <3>5. /\ Len(F[i]) = f[c] + Len(h[i])
          /\ \A k \in 1..f[c] : F[i][k] = F[i - 1][k]
          /\ \A k \in 1..Len(h[i]) : F[i][f[c] + k] = h[i][k]
      <4> DEFINE x == F[i - 1]
                 y == h[i]
                 z == x \o y
      <4>1. x \in Seq(Ticks) /\ y \in Seq(Ticks) /\ F[i] = z /\ Len(x) = f[c]
        BY <2>2, <2>3, <3>4
      <4> HIDE DEF x, y
      <4>2. /\ Len(z) = Len(x) + Len(y)
            /\ \A k \in 1..Len(x) : z[k] = x[k]
            /\ \A k \in 1..Len(y) : z[Len(x) + k] = y[k]
        <5>1. /\ Len(z) = Len(x) + Len(y)
              /\ \A k \in 1 .. Len(x) + Len(y) : z[k] = IF k <= Len(x) THEN x[k]
                                                        ELSE y[k - Len(x)]
          BY <4>1, ConcatProperties
        <5>2. Len(x) \in Nat /\ Len(y) \in Nat
          BY <4>1
        <5> HIDE DEF z
        <5>3. ASSUME NEW k \in 1..Len(y)
              PROVE  z[Len(x) + k] = y[k]
          <6>1. /\ Len(x) + k \in 1 .. Len(x) + Len(y) /\ ~(Len(x) + k <= Len(x))
                /\ Len(x) + k - Len(x) = k
            BY <5>2
          <6> QED  BY <5>1, <6>1
        <5>4. ASSUME NEW k \in 1..Len(x)
              PROVE  z[k] = x[k]
          <6>1. k \in 1 .. Len(x) + Len(y) /\ k <= Len(x)
            BY <5>2
          <6> QED  BY <5>1, <6>1
        <5> QED  BY <5>1, <5>3, <5>4
      <4> HIDE DEF z
      <4> QED  BY <4>1, <4>2 DEF x, y
    <3>6. Len(F[i]) = f[e]
      <4>1. f[e] = f[e - 1] + Len(good[e].rows)
        BY <1>10
      <4>2. e - 1 = c
        BY <3>2
      <4> QED  BY <3>4, <3>5, <4>1, <4>2
    <3>7. ASSUME NEW b \in 1..g, b <= e, NEW r \in 1..Len(good[b].rows)
          PROVE  F[i][f[b - 1] + r] = good[b].rows[r]
      <4>1. CASE b = e
        <5>1. b - 1 = c
          BY <3>2, <4>1
        <5> QED  BY <3>4, <3>5, <4>1, <5>1
      <4>2. CASE b # e
        <5>1. b <= c /\ b \in 0..g
          BY <1>6, <3>2, <3>7, <4>2
        <5>2. f[b] <= f[c] /\ f[c] \in Nat
          BY <1>9, <1>13, <5>1
        <5>4. /\ f[b - 1] \in Nat /\ f[b] \in Nat /\ Len(good[b].rows) \in Nat
              /\ f[b] = f[b - 1] + Len(good[b].rows)
          BY <1>10
        <5>3. f[b - 1] + r \in 1..f[c]
          BY <5>2, <5>4, SMTT(30)
        <5> QED  BY <2>2, <3>5, <5>1, <5>3
      <4> QED  BY <4>1, <4>2
    <3>8. Upto(i, e)
      BY <3>3, <3>6, <3>7
    <3>9. e \in 0..g
      BY <1>6
    <3> HIDE DEF Upto
    <3> QED  BY <2>3, <3>8, <3>9 DEF T
  <2> QED  BY <2>4, <2>5
<1> HIDE DEF T
<1>19. \A i \in 1..n : i - 1 \in T => i \in T
  BY <1>18
<1>20. \A i \in 0..n : i \in T
  BY <1>1, <1>17, <1>19, StepByStep, Zenon
<1>21. PICK c \in 0..g : Upto(n, c)
  <2>1. n \in T
    BY <1>1, <1>20
  <2> HIDE DEF Upto
  <2> QED  BY <2>1 DEF T
<1>22. c = g
  <2>1. ASSUME NEW b \in 1..g PROVE b <= c
    <3>1. at[b] <= n
      <4>1. at[b] \in 1..n
        BY <1>6
      <4> QED  BY <1>n, <4>1
    <3> QED  BY <1>21, <3>1
  <2>2. g \in 1..g \/ g = 0
    BY <1>g
  <2>3. g = 0 \/ g <= c
    BY <2>1, <2>2
  <2> QED  BY <1>g, <2>3
<1>23. /\ History = F[n] /\ History \in Seq(Ticks) /\ Size = Len(History)
       /\ \A b \in 1..g : \A r \in 1..Len(good[b].rows) :
              History[f[b - 1] + r] = good[b].rows[r]
  <2>1. History = F[n] /\ n \in 0..n
    BY <1>1, <1>15, <1>16
  <2>2. Len(F[n]) = f[g]
    BY <1>21, <1>22
  <2>3. \A b \in 1..g : \A r \in 1..Len(good[b].rows) : F[n][f[b - 1] + r] = good[b].rows[r]
    <3>1. \A b \in 1..g : b <= g
      BY <1>6
    <3> QED  BY <1>21, <1>22, <3>1
  <2> QED  BY <1>12, <1>16, <2>1, <2>2, <2>3
<1>24. ASSUME NEW i \in 0 .. Size - 1
       PROVE  TickAt(i) = History[i + 1]
  <2>1. f[g] \in Nat /\ i \in Nat /\ i < f[g]
    BY <1>6, <1>9, <1>12
  <2> DEFINE First(b) == i < f[b] /\ \A k \in 1 .. b - 1 : i >= f[k]
  <2>2. \E b \in 1..g : First(b)
    <3> SUFFICES ASSUME \A b \in 1..g : ~First(b)
                 PROVE  FALSE
      OBVIOUS
    <3> DEFINE U == {b \in 0..g : \A k \in 0..b : i >= f[k]}
    <3>1. 0 \in U
      BY <1>6, <1>9, <2>1
    <3>2. ASSUME NEW b \in 1..g, b - 1 \in U
          PROVE  b \in U
      <4>1. \A k \in 0 .. b - 1 : i >= f[k]
        BY <3>2
      <4>2. ~(i < f[b])
        BY <4>1
      <4>3. i >= f[b]
        BY <1>10, <2>1, <4>2
      <4>4. \A k \in 0..b : k = b \/ k \in 0 .. b - 1
        OBVIOUS
      <4> QED  BY <1>6, <4>1, <4>3, <4>4
    <3> HIDE DEF U
    <3>3. \A b \in 1..g : b - 1 \in U => b \in U
      BY <3>2
    <3>4. \A b \in 0..g : b \in U
      BY <1>6, <3>1, <3>3, StepByStep, Zenon
    <3>5. g \in U /\ g \in 0..g
      BY <1>6, <3>4
    <3>6. i >= f[g]
      BY <3>5 DEF U
    <3> QED  BY <2>1, <3>6
  <2> DEFINE Here(b) == /\ i < view[b].offset + Len(view[b].rows)
                        /\ \A k \in 1 .. b - 1 : i >= view[k].offset + Len(view[k].rows)
  <2>3. ASSUME NEW b \in 1..g
        PROVE  view[b].offset + Len(view[b].rows) = f[b]
    BY <1>10, <1>11
  <2>4. \A b \in 1..g : Here(b) <=> First(b)
    <3>1. \A b \in 1..g : \A k \in 1 .. b - 1 : k \in 1..g
      BY <1>6
    <3> QED  BY <2>3, <3>1
  <2>5. Locate(i) = CHOOSE b \in 1..g : Here(b)
    <3>1. DOMAIN view = 1..g
      BY <1>11
    <3> QED  BY <3>1 DEF Locate
  <2> DEFINE loc == Locate(i)
  <2>6. loc \in 1..g /\ First(loc)
    <3> HIDE DEF Here, First
    <3> QED  BY <2>2, <2>4, <2>5, Zenon
  <2>7. TickAt(i) = view[loc].rows[i - view[loc].offset + 1]
    BY DEF TickAt
  <2> HIDE DEF loc
  <2>8. f[loc - 1] <= i
    <3>1. CASE loc = 1
      BY <1>9, <2>1, <3>1
    <3>2. CASE loc # 1
      <4>1. loc - 1 \in 1 .. loc - 1 /\ loc - 1 \in 0..g
        BY <1>6, <2>6, <3>2
      <4> QED  BY <1>9, <2>1, <2>6, <4>1
    <3> QED  BY <3>1, <3>2
  <2>9. /\ i - f[loc - 1] + 1 \in 1..Len(good[loc].rows)
        /\ f[loc - 1] + (i - f[loc - 1] + 1) = i + 1
    BY <1>10, <2>1, <2>6, <2>8, SMTT(30)
  <2>10. TickAt(i) = good[loc].rows[i - f[loc - 1] + 1]
    BY <1>11, <2>6, <2>7
  <2>11. History[f[loc - 1] + (i - f[loc - 1] + 1)] = good[loc].rows[i - f[loc - 1] + 1]
    BY <1>23, <2>6, <2>9
  <2> QED  BY <2>9, <2>10, <2>11
<1> QED  BY <1>23, <1>24

(* The inductive invariant of the two loops: index is where the simulator  *)
(* is in the history, also when a batch ends beyond it, and the last tick  *)
(* that was timed is less than a stride away.                              *)
LoopInv ==
    /\ config \in Configs
    /\ phase \in {"load", "strategy", "run", "done", "failed", "died"}
    /\ phase \in {"load", "strategy", "failed"} =>
           /\ tick = <<>> /\ latencies = <<>>
           /\ batchStart = 0 /\ index = 0
    /\ phase \in {"strategy", "run", "done", "died"} => view = Views(config.dataset)
    /\ phase \in {"run", "done", "died"} =>
           /\ batchStart \in Nat /\ index \in Nat /\ batchStart <= index
           /\ batchStart < Size => index <= BatchEnd
           /\ Len(tick) = Smaller(index, Size)
    /\ phase = "done" => batchStart >= Size
    /\ \A k \in 1..Len(tick) : tick[k] = History[k]
    /\ latencies \in Seq(Nat)
    /\ \A k \in 1..Len(latencies) : latencies[k] = (k - 1) * config.stride
    /\ config.stride > 0 =>
           /\ (Len(latencies) - 1) * config.stride < Len(tick)
           /\ Len(tick) <= Len(latencies) * config.stride

(* An index within a stride of a multiple of it is that multiple if and    *)
(* only if it is divisible by the stride.                                  *)
LEMMA Strides ==
  ASSUME NEW s \in Nat \ {0}, NEW c \in Nat, NEW l \in Nat,
         (c - 1) * s < l, l <= c * s
  PROVE  /\ l % s = 0 <=> l = c * s
         /\ (l + s - 1) \div s = c
<1>1. \A x, y \in Int : x <= y => x * s <= y * s
  OBVIOUS
<1>2. \A x \in Int : x * s \in Int /\ (x + 1) * s = x * s + s /\ (x - 1) * s = x * s - s
  OBVIOUS
<1>3. ASSUME NEW x \in Nat
      PROVE  /\ x \div s \in Int /\ x % s \in 0 .. s - 1
             /\ x = (x \div s) * s + (x % s)
  OBVIOUS
<1>4. ASSUME NEW q \in Int, NEW r \in 0 .. s - 1, l = q * s + r
      PROVE  r = 0 <=> l = c * s
  <2>1. CASE q >= c
    <3>1. c * s <= q * s
      BY <1>1, <2>1
    <3> QED  BY <1>2, <1>4, <3>1
  <2>2. CASE q <= c - 1
    <3>1. q * s <= (c - 1) * s
      BY <1>1, <2>2
    <3> QED  BY <1>2, <1>4, <3>1
  <2> QED  BY <2>1, <2>2
<1>5. l % s = 0 <=> l = c * s
  BY <1>3, <1>4
<1>6. ASSUME NEW q \in Int, NEW r \in 0 .. s - 1, l + s - 1 = q * s + r
      PROVE  q = c
  <2>1. CASE q >= c + 1
    <3>1. (c + 1) * s <= q * s
      BY <1>1, <2>1
    <3> QED  BY <1>2, <1>6, <3>1
  <2>2. CASE q <= c - 1
    <3>1. q * s <= (c - 1) * s
      BY <1>1, <2>2
    <3> QED  BY <1>2, <1>6, <3>1
  <2> QED  BY <2>1, <2>2
<1>7. l + s - 1 \in Nat
  OBVIOUS
<1>8. (l + s - 1) \div s = c
  BY <1>3, <1>6, <1>7
<1> QED  BY <1>5, <1>8

SellPrice(t) == RefPrice([side |-> "sell"], t)
BuyPrice(t)  == RefPrice([side |-> "buy"], t)

(* A tick's trades leave the account worth no more than before, unless one *)
(* of them has a negative quantity.                                        *)
LEMMA TradesCost ==
  ASSUME MatchingInv, NEW signals \in Seq(Signals), NEW t \in Ticks,
         ProcessSignals(signals, t), 0 <= SellPrice(t), SellPrice(t) <= BuyPrice(t),
         \A i \in Len(fills) + 1 .. Len(fills') : fills'[i].order.quantity >= 0,
         NEW mark \in 2 * SellPrice(t) .. 2 * BuyPrice(t)
  PROVE  Equity(cash', position', mark) <= Equity(cash, position, mark)
(* A fill at the prices of a tick costs at least what it is worth at any   *)
(* mark between them: slippage and commission are never negative.          *)
<1>0. ASSUME NEW o \in Orders, o.quantity >= 0
      PROVE  2 * Paid(Fill(o, t)) + Bought(Fill(o, t)) * (mark * Scale * Scale) <= 0
  <2> USE <1>0
  <2> DEFINE ref   == RefPrice(o, t)
             price == ApplySlippage(o.side, ref)
             q     == o.quantity
             fee   == CommissionFor(price * q)
             f     == Fill(o, t)
  <2>1. /\ SellPrice(t) \in Int /\ BuyPrice(t) \in Int /\ mark \in Int
        /\ Scale \in Nat /\ Slippage \in Nat /\ Scale - Slippage \in Nat /\ Commission \in Nat
        /\ q \in Nat /\ o.side \in Sides
    <3>1. /\ SellPrice(t) \in Int /\ BuyPrice(t) \in Int
          /\ mark \in 2 * SellPrice(t) .. 2 * BuyPrice(t)
      BY MatchingAssumption DEF SellPrice, BuyPrice, RefPrice
    <3>2. o.quantity \in Int /\ o.side \in Sides
      BY DEF Orders
    <3> HIDE <1>0
    <3> QED  BY <3>1, <3>2, <1>0, MatchingAssumption
  <2>2. ref = IF o.side = "buy" THEN BuyPrice(t) ELSE SellPrice(t)
    BY <2>1 DEF RefPrice, SellPrice, BuyPrice, Sides
  <2>3. f.order = o /\ f.price = price /\ f.commission = fee
    BY DEF Fill
  <2>4. \A x \in Int : CommissionFor(x) \in Nat
    <3>1. \A x \in Int : Abs(x) \in Nat
      BY DEF Abs
    <3>2. \A x \in Nat : x * Commission \in Nat
      BY <2>1
    <3> QED  BY <3>1, <3>2 DEF CommissionFor
  <2>5. \A x, y \in Int : \A z \in Nat : x <= y => x * z <= y * z
    OBVIOUS
  <2>6. CASE o.side = "buy"
    <3> DEFINE a == BuyPrice(t)
    <3>1. price = a * (Scale + Slippage)
      BY <2>2, <2>6 DEF ApplySlippage
    <3>2. price \in Int /\ price * q \in Int
      BY <2>1, <3>1
    <3>3. fee \in Nat
      BY <2>4, <3>2
    <3>4. Paid(f) = -(price * q * Scale + fee) /\ Bought(f) = q
      BY <2>3, <2>6 DEF Paid, Bought, Notional
    <3> HIDE DEF price, q, fee, f
    <3>5. a \in Nat /\ mark <= 2 * a
      BY <2>1
    <3>6. mark * (q * Scale * Scale) <= (2 * a) * (q * Scale * Scale)
      <4>1. q * Scale * Scale \in Nat /\ 2 * a \in Int
        BY <2>1, <3>5
      <4> QED  BY <2>1, <2>5, <3>5, <4>1
    <3>7. a * (q * Scale * Scale) <= price * q * Scale
      <4>1. a * (q * Scale) \in Nat /\ Scale <= Scale + Slippage
        BY <2>1, <3>5
      <4>2. Scale * (a * (q * Scale)) <= (Scale + Slippage) * (a * (q * Scale))
        BY <2>1, <2>5, <4>1
      <4>3. Scale * (a * (q * Scale)) = a * (q * Scale * Scale)
        BY <2>1, <3>5
      <4>4. (Scale + Slippage) * (a * (q * Scale)) = price * q * Scale
        BY <2>1, <3>1, <3>5, SMTT(30)
      <4> QED  BY <4>2, <4>3, <4>4
    <3>8. q * (mark * Scale * Scale) = mark * (q * Scale * Scale)
      BY <2>1
    <3> DEFINE X == q * Scale * Scale
               Y == price * q * Scale
    <3>9. X \in Int /\ Y \in Int /\ a * X \in Int /\ (2 * a) * X = 2 * (a * X) /\ mark * X \in Int
      BY <2>1, <3>2, <3>5
    <3> HIDE DEF X, Y, a
    <3>10. mark * X <= 2 * (a * X) /\ a * X <= Y /\ Paid(f) = -(Y + fee)
      BY <3>4, <3>6, <3>7, <3>9 DEF X, Y
    <3>11. Bought(f) * (mark * Scale * Scale) = mark * X
      BY <3>4, <3>8 DEF X
    <3> QED  BY <3>3, <3>9, <3>10, <3>11 DEF f
  <2>7. CASE o.side = "sell"
    <3> DEFINE a == SellPrice(t)
    <3>1. price = a * (Scale - Slippage)
      BY <2>2, <2>7 DEF ApplySlippage
    <3>2. price \in Int /\ price * q \in Int
      BY <2>1, <3>1
    <3>3. fee \in Nat
      BY <2>4, <3>2
    <3>4. Paid(f) = price * q * Scale - fee /\ Bought(f) = -q
      BY <2>3, <2>7 DEF Paid, Bought, Notional
    <3> HIDE DEF price, q, fee, f
    <3>5. a \in Nat /\ 2 * a <= mark
      BY <2>1
    <3>6. (2 * a) * (q * Scale * Scale) <= mark * (q * Scale * Scale)
      <4>1. q * Scale * Scale \in Nat /\ 2 * a \in Int
        BY <2>1, <3>5
      <4> QED  BY <2>1, <2>5, <3>5, <4>1
    <3>7. price * q * Scale <= a * (q * Scale * Scale)
      <4>1. a * (q * Scale) \in Nat /\ Scale - Slippage <= Scale
        <5>1. q * Scale \in Nat
          BY <2>1
        <5> QED  BY <2>1, <3>5, <5>1
      <4>2. (Scale - Slippage) * (a * (q * Scale)) <= Scale * (a * (q * Scale))
        BY <2>1, <2>5, <4>1
      <4>3. Scale * (a * (q * Scale)) = a * (q * Scale * Scale)
        BY <2>1, <3>5
      <4>4. (Scale - Slippage) * (a * (q * Scale)) = price * q * Scale
        BY <2>1, <3>1, <3>5, SMTT(30)
      <4> QED  BY <4>2, <4>3, <4>4
    <3>8. (-q) * (mark * Scale * Scale) = -(mark * (q * Scale * Scale))
      BY <2>1
    <3> DEFINE X == q * Scale * Scale
               Y == price * q * Scale
    <3>9. X \in Int /\ Y \in Int /\ a * X \in Int /\ (2 * a) * X = 2 * (a * X) /\ mark * X \in Int
      BY <2>1, <3>2, <3>5
    <3> HIDE DEF X, Y, a
    <3>10. 2 * (a * X) <= mark * X /\ Y <= a * X /\ Paid(f) = Y - fee
      BY <3>4, <3>6, <3>7, <3>9 DEF X, Y
    <3>11. Bought(f) * (mark * Scale * Scale) = -(mark * X)
      BY <3>4, <3>8 DEF X
    <3> QED  BY <3>3, <3>9, <3>10, <3>11 DEF f
  <2> QED  BY <2>1, <2>6, <2>7 DEF Sides
<1> DEFINE orders == Queue(book, Placed(signals))
           new    == Filled(orders, t)
           n      == Len(new)
           P      == Total(Paid, new)
           B      == Total(Bought, new)
           X      == mark * Scale * Scale
<1>1. cash' = cash + P /\ position' = position + B
  BY DEF ProcessSignals
<1>2. orders \in Seq(Orders)
  BY OrdersInLine
<1>3. new \in Seq(FillRecords) /\ n \in Nat
  <2>1. new \in Seq(FillRecords)
    BY Matching
  <2> HIDE DEF new
  <2> QED  BY <2>1
<1>4. ASSUME NEW k \in 1..n
      PROVE  \E o \in Orders : o.quantity >= 0 /\ new[k] = Fill(o, t)
  <2>1. PICK at \in [1..n -> Matched(orders, t)] : new[k] = Fill(orders[at[k]], t)
    BY Matching, ZenonT(30)
  <2>2. at[k] \in DOMAIN orders
    BY <2>1 DEF Matched
  <2> HIDE DEF orders, n
  <2>3. orders[at[k]] \in Orders
    BY <1>2, <2>2
  <2>4. new[k].order.quantity >= 0
    <3>1. /\ fills' = fills \o new /\ Len(fills) \in Nat /\ fills \in Seq(FillRecords)
      BY DEF ProcessSignals, MatchingInv, orders
    <3> HIDE DEF new
    <3>2. /\ Len(fills) + k \in Len(fills) + 1 .. Len(fills')
          /\ fills'[Len(fills) + k] = new[k]
      BY <1>3, <3>1 DEF n
    <3> QED  BY <3>2
  <2>5. new[k].order = orders[at[k]]
    BY <2>1 DEF Fill
  <2> QED  BY <2>1, <2>3, <2>4, <2>5
<1> HIDE DEF orders, new
<1>5. PICK paid, bought \in [0..n -> Int] :
          /\ paid[0] = 0 /\ bought[0] = 0
          /\ \A k \in 1..n : /\ paid[k] = paid[k - 1] + Paid(new[k])
                             /\ bought[k] = bought[k - 1] + Bought(new[k])
          /\ P = paid[n] /\ B = bought[n]
  BY <1>3, Account
<1> HIDE DEF n, P, B
<1>6. mark \in Int /\ Scale \in Int /\ X \in Int
  BY MatchingAssumption
<1> HIDE DEF X
<1>7. ASSUME NEW k \in 1..n
      PROVE  /\ Paid(new[k]) \in Int /\ Bought(new[k]) \in Int
             /\ 2 * Paid(new[k]) + Bought(new[k]) * X <= 0
  <2>1. PICK o \in Orders : o.quantity >= 0 /\ new[k] = Fill(o, t)
    BY <1>4
  <2>2. 2 * Paid(Fill(o, t)) + Bought(Fill(o, t)) * X <= 0
    BY <1>0, <2>1 DEF X
  <2>3. /\ new[k].price \in Int /\ new[k].commission \in Int
        /\ new[k].order.quantity \in Int
    <3>1. new[k] \in FillRecords
      BY <1>3 DEF n
    <3>2. new[k].order \in Orders /\ new[k].price \in Int /\ new[k].commission \in Int
      BY <3>1 DEF FillRecords
    <3> QED  BY <3>2 DEF Orders
  <2>4. Paid(new[k]) \in Int /\ Bought(new[k]) \in Int
    <3>1. \A x, y \in Int : x * y * Scale \in Int
      BY <1>6
    <3>2. Notional(new[k]) \in Int
      BY <2>3, <3>1 DEF Notional
    <3> QED  BY <2>3, <3>2, SMTT(30) DEF Paid, Bought
  <2> QED  BY <2>1, <2>2, <2>4
<1>8. ASSUME NEW a \in Int, NEW b \in Int, NEW c \in Int, NEW d \in Int,
             2 * a + b * X <= 0, 2 * c + d * X <= 0
      PROVE  2 * (a + c) + (b + d) * X <= 0
  <2>1. (b + d) * X = b * X + d * X /\ b * X \in Int /\ d * X \in Int
    BY <1>6
  <2> QED  BY <1>8, <2>1
<1> DEFINE T == {k \in 0..n : 2 * paid[k] + bought[k] * X <= 0}
<1>9. 0 \in T
  BY <1>3, <1>5, <1>6 DEF n
<1>10. ASSUME NEW k \in 1..n, k - 1 \in T
       PROVE  k \in T
  <2>1. /\ k \in 0..n /\ k - 1 \in 0..n
        /\ paid[k - 1] \in Int /\ bought[k - 1] \in Int
        /\ 2 * paid[k - 1] + bought[k - 1] * X <= 0
    <3>1. k - 1 \in 0..n /\ 2 * paid[k - 1] + bought[k - 1] * X <= 0
      BY <1>10
    <3>2. k \in 0..n
      BY <1>10, <3>1
    <3> HIDE DEF T
    <3>3. \A i \in 0..n : paid[i] \in Int /\ bought[i] \in Int
      OBVIOUS
    <3> QED  BY <3>1, <3>2, <3>3
  <2>2. 2 * (paid[k - 1] + Paid(new[k])) + (bought[k - 1] + Bought(new[k])) * X <= 0
    BY <1>7, <1>8, <2>1
  <2>3. /\ paid[k] = paid[k - 1] + Paid(new[k])
        /\ bought[k] = bought[k - 1] + Bought(new[k])
    BY <1>5
  <2> QED  BY <2>1, <2>2, <2>3
<1> HIDE DEF T
<1>11. \A k \in 1..n : k - 1 \in T => k \in T
  BY <1>10
<1>12. \A k \in 0..n : k \in T
  <2>1. n \in Nat
    BY <1>3 DEF n
  <2> QED  BY <1>9, <1>11, <2>1, StepByStep, Zenon
<1>13. 2 * P + B * X <= 0 /\ P \in Int /\ B \in Int
  <2>1. n \in 0..n
    BY <1>3 DEF n
  <2>2. 2 * paid[n] + bought[n] * X <= 0
    BY <1>12, <2>1 DEF T
  <2>3. P = paid[n] /\ B = bought[n] /\ paid[n] \in Int /\ bought[n] \in Int
    BY <1>5, <2>1
  <2> QED  BY <2>2, <2>3
<1>14. cash \in Int /\ position \in Int
  BY DEF MatchingInv, TypeOK
<1>15. \A c, p \in Int : Equity(c, p, mark) = 2 * c + p * X
  <2>1. \A p \in Int : p * mark * Scale * Scale = p * (mark * Scale * Scale)
    BY <1>6
  <2> QED  BY <2>1 DEF Equity, X
<1>16. cash + P \in Int /\ position + B \in Int /\ (position + B) * X = position * X + B * X
  BY <1>6, <1>13, <1>14
<1>17. position * X \in Int /\ B * X \in Int
  BY <1>6, <1>13, <1>14
<1>18. Equity(cash', position', mark) = 2 * (cash + P) + (position + B) * X
  BY <1>1, <1>15, <1>16
<1>19. Equity(cash, position, mark) = 2 * cash + position * X
  BY <1>14, <1>15
<1> DEFINE V == position * X
           W == B * X
<1>20. V \in Int /\ W \in Int /\ 2 * P + W <= 0
  BY <1>13, <1>17
<1>21. /\ Equity(cash', position', mark) = 2 * (cash + P) + (V + W)
       /\ Equity(cash, position, mark) = 2 * cash + V
  BY <1>16, <1>18, <1>19
<1> HIDE DEF V, W
<1> QED  BY <1>13, <1>14, <1>20, <1>21

(* The sum of four lanes and of what they leave over is the plain sum, and *)
(* a running total.                                                        *)
LEMMA SumIsPlain ==
  ASSUME NEW data \in Seq(Int)
  PROVE  \E f \in [0..Len(data) -> Int] :
             /\ f[0] = 0
             /\ \A k \in 1..Len(data) : f[k] = f[k - 1] + data[k]
             /\ PlainSum(data) = f[Len(data)]
             /\ Sum(data) = f[Len(data)]
(* The plain loop adds up element by element.                              *)
<1>0. ASSUME NEW d \in Seq(Int)
      PROVE  \E f \in [0..Len(d) -> Int] :
                 /\ f[0] = 0
                 /\ \A k \in 1..Len(d) : f[k] = f[k - 1] + d[k]
                 /\ PlainSum(d) = f[Len(d)]
  <2> DEFINE m == Len(d)
             Step(g) == [k \in 0..m |-> IF k = 0 THEN 0 ELSE g[k - 1] + Itself(d[k])]
             Add(g)  == [k \in 0..m |-> IF k = 0 THEN 0 ELSE g[k - 1] + d[k]]
  <2>1. m \in Nat /\ d \in [1..m -> Int]
    BY <1>0
  <2>2. PlainSum(d) = (CHOOSE g : g = Step(g))[m]
    BY DEF PlainSum, Total
  <2>3. \A g : Step(g) = Add(g)
    BY DEF Itself
  <2> HIDE DEF m
  <2>4. PICK f \in [0..m -> Int] : /\ f[0] = 0
                                   /\ \A k \in 1..m : f[k] = f[k - 1] + d[k]
                                   /\ \A g : g = Add(g) <=> g = f
    BY <2>1, RunningTotal
  <2> HIDE DEF Step, Add
  <2>5. PlainSum(d) = f[m]
    BY <2>2, <2>3, <2>4
  <2> QED  BY <2>4, <2>5 DEF m
<1> DEFINE n == Len(data)
           q == n \div 4
           lane(k) == [b \in 1..q |-> data[4 * (b - 1) + k]]
           tail == SubSeq(data, 4 * q + 1, n)
           all == LaneSums(data) \o tail
           Runs(g, k) == /\ g \in [0..q -> Int]
                         /\ g[0] = 0
                         /\ \A b \in 1..q : g[b] = g[b - 1] + data[4 * (b - 1) + k]
                         /\ PlainSum(lane(k)) = g[q]
<1>1. /\ n \in Nat /\ q \in Nat /\ 4 * q <= n /\ n - 4 * q \in Nat
      /\ \A i \in 1..n : data[i] \in Int
  OBVIOUS
<1>2. PICK f \in [0..n -> Int] : /\ f[0] = 0
                                 /\ \A k \in 1..n : f[k] = f[k - 1] + data[k]
                                 /\ PlainSum(data) = f[n]
  BY <1>0
<1>3. LaneSums(data) = [k \in 1..4 |-> PlainSum(lane(k))]
  BY DEF LaneSums, Lanes
<1>4. Sum(data) = PlainSum(all)
  BY DEF Sum, Lanes
<1> HIDE DEF n, q
<1>5. ASSUME NEW k \in 1..4
      PROVE  \E g : Runs(g, k)
  <2>1. \A b \in 1..q : 4 * (b - 1) + k \in 1..n
    BY <1>1
  <2>2. \A b \in 1..q : data[4 * (b - 1) + k] \in Int
    BY <1>1, <2>1
  <2>3. lane(k) \in Seq(Int) /\ Len(lane(k)) = q
    BY <1>1, <2>2
  <2>4. \A b \in 1..q : lane(k)[b] = data[4 * (b - 1) + k]
    OBVIOUS
  <2> HIDE DEF lane
  <2> QED  BY <1>0, <2>3, <2>4
<1> HIDE DEF lane, Runs
<1>6. PICK l1, l2, l3, l4 : Runs(l1, 1) /\ Runs(l2, 2) /\ Runs(l3, 3) /\ Runs(l4, 4)
  <2>1. 1 \in 1..4 /\ 2 \in 1..4 /\ 3 \in 1..4 /\ 4 \in 1..4
    OBVIOUS
  <2>2. \A k \in 1..4 : \E g : Runs(g, k)
    BY <1>5
  <2> QED  BY <2>1, <2>2, Zenon
<1>7. /\ l1 \in [0..q -> Int] /\ l2 \in [0..q -> Int]
      /\ l3 \in [0..q -> Int] /\ l4 \in [0..q -> Int]
      /\ l1[0] = 0 /\ l2[0] = 0 /\ l3[0] = 0 /\ l4[0] = 0
  BY <1>6 DEF Runs
<1>8. /\ PlainSum(lane(1)) = l1[q] /\ PlainSum(lane(2)) = l2[q]
      /\ PlainSum(lane(3)) = l3[q] /\ PlainSum(lane(4)) = l4[q]
  BY <1>6 DEF Runs
<1>9. ASSUME NEW b \in 1..q
      PROVE  /\ l1[b] = l1[b - 1] + data[4 * (b - 1) + 1]
             /\ l2[b] = l2[b - 1] + data[4 * (b - 1) + 2]
             /\ l3[b] = l3[b - 1] + data[4 * (b - 1) + 3]
             /\ l4[b] = l4[b - 1] + data[4 * (b - 1) + 4]
  BY <1>6 DEF Runs
(* The four lanes together are at the same sum after each block.           *)
<1> DEFINE T == {b \in 0..q : f[4 * b] = l1[b] + l2[b] + l3[b] + l4[b]}
<1>10. 0 \in T
  BY <1>1, <1>2, <1>7
<1>11. ASSUME NEW b \in 1..q, b - 1 \in T
       PROVE  b \in T
  <2> DEFINE i == 4 * (b - 1)
  <2>1. /\ i \in 0..n /\ i + 1 \in 1..n /\ i + 2 \in 1..n /\ i + 3 \in 1..n /\ i + 4 \in 1..n
        /\ i + 4 = 4 * b /\ b \in 0..q /\ b - 1 \in 0..q
    BY <1>1
  <2>2. f[i] = l1[b - 1] + l2[b - 1] + l3[b - 1] + l4[b - 1]
    BY <1>11
  <2>3. /\ l1[b] = l1[b - 1] + data[i + 1] /\ l2[b] = l2[b - 1] + data[i + 2]
        /\ l3[b] = l3[b - 1] + data[i + 3] /\ l4[b] = l4[b - 1] + data[i + 4]
    BY <1>9
  <2>4. l1[b - 1] \in Int /\ l2[b - 1] \in Int /\ l3[b - 1] \in Int /\ l4[b - 1] \in Int
    BY <1>7, <2>1
  <2> HIDE DEF i
  <2>5. f[i + 1] = f[i] + data[i + 1] /\ f[i + 2] = f[i + 1] + data[i + 2]
    <3>1. (i + 1) - 1 = i /\ (i + 2) - 1 = i + 1
      BY <2>1
    <3> QED  BY <1>2, <2>1, <3>1
  <2>6. f[i + 3] = f[i + 2] + data[i + 3] /\ f[i + 4] = f[i + 3] + data[i + 4]
    <3>1. (i + 3) - 1 = i + 2 /\ (i + 4) - 1 = i + 3
      BY <2>1
    <3> QED  BY <1>2, <2>1, <3>1
  <2>7. data[i + 1] \in Int /\ data[i + 2] \in Int /\ data[i + 3] \in Int /\ data[i + 4] \in Int
    BY <1>1, <2>1
  <2>8. f[i + 4] = l1[b] + l2[b] + l3[b] + l4[b]
    <3> DEFINE a1 == l1[b - 1]  a2 == l2[b - 1]  a3 == l3[b - 1]  a4 == l4[b - 1]
               d1 == data[i + 1]  d2 == data[i + 2]  d3 == data[i + 3]  d4 == data[i + 4]
    <3>1. /\ a1 \in Int /\ a2 \in Int /\ a3 \in Int /\ a4 \in Int
          /\ d1 \in Int /\ d2 \in Int /\ d3 \in Int /\ d4 \in Int
      BY <2>4, <2>7
    <3>2. f[i + 4] = (a1 + a2 + a3 + a4) + d1 + d2 + d3 + d4
      BY <2>2, <2>5, <2>6
    <3>3. l1[b] = a1 + d1 /\ l2[b] = a2 + d2 /\ l3[b] = a3 + d3 /\ l4[b] = a4 + d4
      BY <2>3
    <3> HIDE DEF a1, a2, a3, a4, d1, d2, d3, d4
    <3> QED  BY <3>1, <3>2, <3>3
  <2> QED  BY <2>1, <2>8
<1> HIDE DEF T
<1>12. \A b \in 0..q : b \in T
  <2>1. \A b \in 1..q : b - 1 \in T => b \in T
    BY <1>11
  <2> QED  BY <1>1, <1>10, <2>1, StepByStep, Zenon
<1>13. f[4 * q] = l1[q] + l2[q] + l3[q] + l4[q]
  BY <1>1, <1>12 DEF T
<1>14. tail \in Seq(Int) /\ Len(tail) = n - 4 * q /\ \A i \in 1 .. n - 4 * q : tail[i] = data[4 * q + i]
  <2> DEFINE m == 4 * q + 1
  <2>1. /\ m \in Int /\ n \in Int /\ n - m + 1 = n - 4 * q
        /\ (IF m <= n THEN n - m + 1 ELSE 0) = n - 4 * q
    BY <1>1
  <2>2. \A i \in 1 .. n - 4 * q : m + i - 1 = 4 * q + i
    BY <1>1
  <2>3. \A i \in m..n : data[i] \in Int
    BY <1>1
  <2> HIDE DEF m
  <2>4. /\ SubSeq(data, m, n) \in Seq(Int) /\ Len(SubSeq(data, m, n)) = n - 4 * q
        /\ \A i \in 1 .. n - 4 * q : SubSeq(data, m, n)[i] = data[m + i - 1]
    BY <2>1, <2>3, SubSeqProperties
  <2> QED  BY <2>2, <2>4 DEF m
<1> HIDE DEF tail
<1>15. /\ l1[q] \in Int /\ l2[q] \in Int /\ l3[q] \in Int /\ l4[q] \in Int
  BY <1>1, <1>7
<1>16. /\ LaneSums(data) \in Seq(Int) /\ Len(LaneSums(data)) = 4
       /\ LaneSums(data)[1] = l1[q] /\ LaneSums(data)[2] = l2[q]
       /\ LaneSums(data)[3] = l3[q] /\ LaneSums(data)[4] = l4[q]
  <2>1. ASSUME NEW k \in 1..4 PROVE PlainSum(lane(k)) \in Int
    BY <1>8, <1>15
  <2> QED  BY <1>3, <1>8, <2>1
<1>17. /\ all \in Seq(Int) /\ Len(all) = 4 + (n - 4 * q)
       /\ all[1] = l1[q] /\ all[2] = l2[q] /\ all[3] = l3[q] /\ all[4] = l4[q]
       /\ \A i \in 1 .. n - 4 * q : all[4 + i] = data[4 * q + i]
  <2> DEFINE sums == LaneSums(data)
  <2> HIDE DEF sums
  <2>1. /\ sums \in Seq(Int) /\ Len(sums) = 4 /\ all = sums \o tail
        /\ sums[1] = l1[q] /\ sums[2] = l2[q] /\ sums[3] = l3[q] /\ sums[4] = l4[q]
    BY <1>16 DEF sums
  <2> HIDE DEF all
  <2>2. /\ all \in Seq(Int) /\ Len(all) = 4 + Len(tail)
        /\ \A i \in 1 .. 4 + Len(tail) : all[i] = IF i <= 4 THEN sums[i] ELSE tail[i - 4]
    <3>1. /\ sums \o tail \in Seq(Int) /\ Len(sums \o tail) = Len(sums) + Len(tail)
          /\ \A i \in 1 .. Len(sums) + Len(tail) : (sums \o tail)[i] =
                 IF i <= Len(sums) THEN sums[i] ELSE tail[i - Len(sums)]
      BY <1>14, <2>1, ConcatProperties
    <3>2. Len(sums) = 4 /\ all = sums \o tail
      BY <2>1
    <3> QED  BY <3>1, <3>2, Zenon
  <2>3. \A i \in 1 .. n - 4 * q : all[4 + i] = data[4 * q + i]
    <3>1. \A i \in 1 .. n - 4 * q : /\ 4 + i \in 1 .. 4 + Len(tail) /\ ~(4 + i <= 4)
                                     /\ (4 + i) - 4 = i
      BY <1>1, <1>14
    <3> QED  BY <1>14, <2>2, <3>1
  <2>4. all[1] = sums[1] /\ all[2] = sums[2] /\ all[3] = sums[3] /\ all[4] = sums[4]
    <3>1. Len(tail) \in Nat
      BY <1>1, <1>14
    <3> QED  BY <2>2, <3>1
  <2> QED  BY <1>14, <2>1, <2>2, <2>3, <2>4
<1> HIDE DEF all
<1> DEFINE r == n - 4 * q
<1>18. PICK h \in [0..4 + r -> Int] : /\ h[0] = 0
                                      /\ \A k \in 1..4 + r : h[k] = h[k - 1] + all[k]
                                      /\ PlainSum(all) = h[4 + r]
  BY <1>0, <1>17
<1>19. r \in Nat /\ 4 * q + r = n
  BY <1>1
<1> HIDE DEF r
<1>20. h[4] = f[4 * q]
  <2>1. /\ h[1] = h[0] + all[1] /\ h[2] = h[1] + all[2]
        /\ h[3] = h[2] + all[3] /\ h[4] = h[3] + all[4]
    <3>1. /\ 1 \in 1..4 + r /\ 2 \in 1..4 + r /\ 3 \in 1..4 + r /\ 4 \in 1..4 + r
          /\ 1 - 1 = 0 /\ 2 - 1 = 1 /\ 3 - 1 = 2 /\ 4 - 1 = 3
      BY <1>19
    <3> QED  BY <1>18, <3>1
  <2>2. h[4] = l1[q] + l2[q] + l3[q] + l4[q]
    BY <1>15, <1>17, <1>18, <2>1
  <2> QED  BY <1>13, <2>2
<1> DEFINE U == {i \in 0..r : h[4 + i] = f[4 * q + i]}
<1>21. 0 \in U
  BY <1>1, <1>19, <1>20
<1>22. ASSUME NEW i \in 1..r, i - 1 \in U
       PROVE  i \in U
  <2>1. h[4 + (i - 1)] = f[4 * q + (i - 1)]
    BY <1>22
  <2>2. /\ 4 + i \in 1..4 + r /\ (4 + i) - 1 = 4 + (i - 1)
        /\ 4 * q + i \in 1..n /\ (4 * q + i) - 1 = 4 * q + (i - 1)
    BY <1>1, <1>19
  <2>3. h[4 + i] = h[4 + (i - 1)] + all[4 + i] /\ f[4 * q + i] = f[4 * q + (i - 1)] + data[4 * q + i]
    BY <1>2, <1>18, <2>2
  <2>4. all[4 + i] = data[4 * q + i]
    BY <1>17 DEF r
  <2> QED  BY <2>1, <2>3, <2>4
<1> HIDE DEF U
<1>23. \A i \in 0..r : i \in U
  <2>1. \A i \in 1..r : i - 1 \in U => i \in U
    BY <1>22
  <2> QED  BY <1>19, <1>21, <2>1, StepByStep, Zenon
<1>24. h[4 + r] = f[n]
  BY <1>19, <1>23 DEF U
<1> QED  BY <1>2, <1>4, <1>18, <1>24 DEF n

(* There is a return as soon as a point follows a positive one, and the    *)
(* Sharpe ratio of the returns is defined, whatever they are.              *)
LEMMA SharpeOf ==
  ASSUME NEW equity \in Seq(Int)
  PROVE  LET returns == BuildReturns(equity)
             n       == Len(returns)
             mean    == PlainSum(returns)
             s       == ComputeSharpe(returns)
         IN  /\ equity = <<>> => returns = <<>>
             /\ Len(equity) >= 2 /\ equity[1] > 0 => returns # <<>>
             /\ returns # <<>> =>
                  /\ s \in [n: Int, sum: Int, spread: Int]
                  /\ s.spread > 0 /\ s.n > 0
                  /\ IF \A i, j \in DOMAIN returns : returns[i] = returns[j]
                       THEN s = NoSharpe
                       ELSE /\ s.sum = mean
                            /\ s.spread = PlainSum([i \in DOMAIN returns |->
                                   (n * returns[i] - mean) * (n * returns[i] - mean)])
<1> DEFINE returns == BuildReturns(equity)
<1>0. /\ returns \in Seq(Int)
      /\ equity = <<>> => returns = <<>>
      /\ Len(equity) >= 2 /\ equity[1] > 0 => returns # <<>>
  <2> DEFINE m == Len(equity)
             ids == [i \in 1..m |-> i]
             S == {i \in 2..m : equity[i - 1] > 0}
             after == Selected(ids, S)
             gain(i) == ((equity[i] - equity[i - 1]) * Precision) \div equity[i - 1]
  <2>1. m \in Nat /\ \A i \in 1..m : equity[i] \in Int
    OBVIOUS
  <2>2. BuildReturns(equity) = [k \in DOMAIN after |-> gain(after[k])]
    BY DEF BuildReturns
  <2> HIDE DEF m
  <2>3. ids \in Seq(Int) /\ Len(ids) = m /\ S \in SUBSET (1..Len(ids)) /\ \A i \in S : ids[i] = i
    BY <2>1
  <2> HIDE DEF ids
  <2>4. after \in Seq(Int) /\ \E at : Places(at, after, ids, S)
    BY <2>3, SelectedInOrder
  <2>5. PICK at : Places(at, after, ids, S)
    BY <2>4
  <2> HIDE DEF after
  <2> DEFINE n == Len(after)
  <2>6. n \in Nat /\ DOMAIN after = 1..n
    BY <2>4
  <2>7. /\ \A k \in 1..n : after[k] \in S
        /\ \A i \in S : \E k \in 1..n : at[k] = i
    BY <2>3, <2>5 DEF Places
  <2> HIDE DEF n
  <2>8. \A k \in 1..n : gain(after[k]) \in Int
    <3> SUFFICES ASSUME NEW k \in 1..n PROVE gain(after[k]) \in Int
      OBVIOUS
    <3> DEFINE i == after[k]
    <3>1. i \in 2..m /\ equity[i - 1] > 0
      BY <2>7
    <3> HIDE DEF i
    <3>2. equity[i] \in Int /\ equity[i - 1] \in Int /\ Precision \in Int
      BY <2>1, <3>1, PrecisionAssumption
    <3> DEFINE x == (equity[i] - equity[i - 1]) * Precision
               y == equity[i - 1]
    <3>3. x \in Int /\ y \in Int /\ y > 0
      BY <3>1, <3>2
    <3> HIDE DEF x, y
    <3>4. x \div y \in Int
      BY <3>3
    <3> QED  BY <3>4 DEF i, x, y
  <2> HIDE DEF gain
  <2>9. BuildReturns(equity) \in Seq(Int) /\ Len(BuildReturns(equity)) = n
    BY <2>2, <2>6, <2>8
  <2>10. equity = <<>> => n = 0
    <3> SUFFICES ASSUME equity = <<>>, n # 0 PROVE FALSE
      OBVIOUS
    <3>1. m = 0 /\ 1 \in 1..n
      BY <2>6 DEF m
    <3>2. after[1] \in S
      BY <2>7, <3>1
    <3> QED  BY <3>1, <3>2
  <2>11. m >= 2 /\ equity[1] > 0 => n # 0
    <3> SUFFICES ASSUME m >= 2, equity[1] > 0 PROVE n # 0
      OBVIOUS
    <3>1. 2 \in S
      BY <2>1
    <3>2. \E k \in 1..n : at[k] = 2
      BY <2>7, <3>1
    <3> QED  BY <2>6, <3>2
  <2> QED  BY <2>9, <2>10, <2>11 DEF m
<1> HIDE DEF returns
<1> SUFFICES ASSUME returns # <<>>
             PROVE  LET n    == Len(returns)
                        mean == PlainSum(returns)
                        s    == ComputeSharpe(returns)
                    IN  /\ s \in [n: Int, sum: Int, spread: Int]
                        /\ s.spread > 0 /\ s.n > 0
                        /\ IF \A i, j \in DOMAIN returns : returns[i] = returns[j]
                             THEN s = NoSharpe
                             ELSE /\ s.sum = mean
                                  /\ s.spread = PlainSum([i \in DOMAIN returns |->
                                         (n * returns[i] - mean) * (n * returns[i] - mean)])
  BY <1>0 DEF returns
<1> DEFINE n == Len(returns)
           mean == PlainSum(returns)
           dev(i) == n * returns[i] - mean
           squares == [i \in DOMAIN returns |-> dev(i) * dev(i)]
           spread == PlainSum(squares)
           Same == \A i, j \in 1..n : returns[i] = returns[j]
<1>1. n \in Nat /\ n >= 1 /\ DOMAIN returns = 1..n /\ \A i \in 1..n : returns[i] \in Int
  BY <1>0
<1>2. PICK f \in [0..n -> Int] : /\ f[0] = 0
                                 /\ \A k \in 1..n : f[k] = f[k - 1] + returns[k]
                                 /\ PlainSum(returns) = f[n]
                                 /\ Sum(returns) = f[n]
  BY <1>0, SumIsPlain
<1>3. mean \in Int /\ Sum(returns) = mean
  BY <1>1, <1>2
<1>4. Spread(returns, Sum(returns)) = Sum(squares)
  BY <1>3 DEF Spread
<1> HIDE DEF n, mean
<1>5. \A i \in 1..n : dev(i) \in Int /\ (dev(i) = 0 => dev(i) * dev(i) = 0)
                      /\ dev(i) * dev(i) \in Int /\ dev(i) * dev(i) >= 0
                      /\ (dev(i) * dev(i) = 0 => dev(i) = 0)
  <2> SUFFICES ASSUME NEW i \in 1..n
               PROVE  dev(i) \in Int /\ (dev(i) = 0 => dev(i) * dev(i) = 0)
                      /\ dev(i) * dev(i) \in Int /\ dev(i) * dev(i) >= 0
                      /\ (dev(i) * dev(i) = 0 => dev(i) = 0)
    OBVIOUS
  <2>1. dev(i) \in Int
    BY <1>1, <1>3
  <2> HIDE DEF dev
  <2>2. \A x \in Int : x * x >= 0 /\ (x * x = 0 => x = 0) /\ (x = 0 => x * x = 0) /\ x * x \in Int
    OBVIOUS
  <2> QED  BY <2>1, <2>2
<1>6. squares \in Seq(Int) /\ Len(squares) = n /\ \A i \in 1..n : squares[i] = dev(i) * dev(i)
  BY <1>1, <1>5
<1> HIDE DEF squares
<1>7. PICK g \in [0..n -> Int] : /\ g[0] = 0
                                 /\ \A k \in 1..n : g[k] = g[k - 1] + squares[k]
                                 /\ PlainSum(squares) = g[n]
                                 /\ Sum(squares) = g[n]
  BY <1>6, SumIsPlain
<1>8. spread \in Int /\ Sum(squares) = spread /\ spread = g[n]
  BY <1>1, <1>7
<1> HIDE DEF spread
(* Returns that are all the same deviate by nothing.                       *)
<1>9. ASSUME Same PROVE spread = 0
  <2> DEFINE T == {k \in 0..n : f[k] = k * returns[1]}
  <2>1. 0 \in T
    BY <1>1, <1>2
  <2>2. ASSUME NEW k \in 1..n, k - 1 \in T PROVE k \in T
    <3>1. /\ f[k] = f[k - 1] + returns[k] /\ returns[k] = returns[1] /\ k \in 0..n
          /\ f[k - 1] = (k - 1) * returns[1]
      <4>1. f[k - 1] = (k - 1) * returns[1]
        BY <2>2
      <4>2. 1 \in 1..n /\ k \in 0..n
        BY <1>1
      <4>3. returns[k] = returns[1]
        BY <1>9, <4>2
      <4>4. f[k] = f[k - 1] + returns[k]
        BY <1>2
      <4> QED  BY <4>1, <4>2, <4>3, <4>4
    <3> DEFINE r == returns[1]
    <3>2. r \in Int
      BY <1>1
    <3> HIDE DEF r
    <3>3. (k - 1) * r + r = k * r
      BY <1>1, <3>2
    <3> QED  BY <3>1, <3>3 DEF r
  <2> HIDE DEF T
  <2>3. \A k \in 0..n : k \in T
    <3>1. \A k \in 1..n : k - 1 \in T => k \in T
      BY <2>2
    <3> QED  BY <1>1, <2>1, <3>1, StepByStep, Zenon
  <2>4. mean = n * returns[1]
    BY <1>1, <1>2, <2>3 DEF mean, T
  <2>5. \A i \in 1..n : dev(i) = 0
    <3>1. \A i \in 1..n : returns[i] = returns[1] /\ n * returns[1] \in Int
      BY <1>1, <1>9
    <3> QED  BY <2>4, <3>1
  <2>6. \A i \in 1..n : squares[i] = 0
    BY <1>5, <1>6, <2>5
  <2> DEFINE U == {k \in 0..n : g[k] = 0}
  <2>7. 0 \in U
    BY <1>1, <1>7
  <2>8. ASSUME NEW k \in 1..n, k - 1 \in U PROVE k \in U
    <3>1. g[k - 1] = 0
      BY <2>8
    <3>2. k \in 0..n /\ g[k] = g[k - 1] + squares[k] /\ squares[k] = 0
      BY <1>1, <1>7, <2>6
    <3> QED  BY <3>1, <3>2
  <2> HIDE DEF U
  <2>9. \A k \in 0..n : k \in U
    <3>1. \A k \in 1..n : k - 1 \in U => k \in U
      BY <2>8
    <3> QED  BY <1>1, <2>7, <3>1, StepByStep, Zenon
  <2> QED  BY <1>1, <1>8, <2>9 DEF U
(* And only those: no square is negative.                                  *)
<1>10. spread >= 0 /\ (spread = 0 => Same)
  <2> DEFINE T == {k \in 0..n : g[k] >= 0 /\ (g[k] = 0 => \A i \in 1..k : squares[i] = 0)}
  <2>1. 0 \in T
    BY <1>1, <1>7
  <2>2. ASSUME NEW k \in 1..n, k - 1 \in T PROVE k \in T
    <3>0. k \in 0..n /\ k - 1 \in 0..n /\ g[k - 1] >= 0
      BY <1>1, <2>2
    <3>1. /\ g[k] = g[k - 1] + squares[k] /\ g[k - 1] \in Int
          /\ squares[k] \in Int /\ squares[k] >= 0
      <4>1. squares[k] \in Int /\ squares[k] >= 0
        <5>1. dev(k) * dev(k) \in Int /\ dev(k) * dev(k) >= 0 /\ squares[k] = dev(k) * dev(k)
          BY <1>5, <1>6
        <5> HIDE DEF dev
        <5> QED  BY <5>1
      <4>2. g[k] = g[k - 1] + squares[k] /\ g[k - 1] \in Int
        BY <1>7, <3>0
      <4> QED  BY <4>1, <4>2
    <3>2. g[k] >= 0 /\ (g[k] = 0 => g[k - 1] = 0 /\ squares[k] = 0)
      BY <3>0, <3>1
    <3>3. g[k - 1] = 0 => \A i \in 1 .. k - 1 : squares[i] = 0
      BY <2>2
    <3>4. \A i \in 1..k : i = k \/ i \in 1 .. k - 1
      BY <1>1
    <3> QED  BY <3>0, <3>2, <3>3, <3>4
  <2> HIDE DEF T
  <2>3. \A k \in 0..n : k \in T
    <3>1. \A k \in 1..n : k - 1 \in T => k \in T
      BY <2>2
    <3> QED  BY <1>1, <2>1, <3>1, StepByStep, Zenon
  <2>4. spread >= 0 /\ (spread = 0 => \A i \in 1..n : squares[i] = 0)
    BY <1>1, <1>8, <2>3 DEF T
  <2>5. ASSUME spread = 0, NEW i \in 1..n, NEW j \in 1..n PROVE returns[i] = returns[j]
    <3>1. dev(i) = 0 /\ dev(j) = 0
      BY <1>5, <1>6, <2>4, <2>5
    <3> DEFINE x == returns[i]
               y == returns[j]
    <3>2. x \in Int /\ y \in Int /\ n * x = mean /\ n * y = mean
      <4>1. x \in Int /\ y \in Int /\ n \in Int
        BY <1>1
      <4>2. n * x - mean = 0 /\ n * y - mean = 0
        BY <3>1
      <4> HIDE DEF x, y, dev
      <4>3. n * x \in Int /\ n * y \in Int
        BY <4>1
      <4> QED  BY <1>3, <4>1, <4>2, <4>3
    <3> HIDE DEF x, y, dev
    <3>3. \A a, b \in Int : n * a = n * b => a = b
      BY <1>1
    <3>4. x = y
      BY <3>2, <3>3
    <3> QED  BY <3>4 DEF x, y
  <2> QED  BY <2>4, <2>5
<1>11. ~Same => n >= 2 /\ spread > 0
  <2>1. n = 1 => Same
    BY <1>1
  <2> HIDE DEF Same
  <2> QED  BY <1>1, <1>8, <1>10, <2>1
<1> DEFINE s == ComputeSharpe(returns)
<1>12. s = IF n < 2 \/ spread = 0 THEN NoSharpe ELSE [n |-> n, sum |-> mean, spread |-> spread]
  BY <1>3, <1>4, <1>8 DEF ComputeSharpe, n
<1> HIDE DEF s
<1>13. CASE Same
  <2>1. s = NoSharpe
    BY <1>9, <1>12, <1>13
  <2>2. NoSharpe.n = 1 /\ NoSharpe.spread = 1 /\ NoSharpe \in [n: Int, sum: Int, spread: Int]
    BY DEF NoSharpe
  <2> QED  BY <1>1, <1>13, <2>1, <2>2 DEF s, n
<1>14. CASE ~Same
  <2>0. n >= 2 /\ spread > 0
    BY <1>11, <1>14
  <2>1. s = [n |-> n, sum |-> mean, spread |-> spread]
    <3>1. ~(n < 2) /\ spread # 0
      BY <1>1, <1>8, <2>0
    <3> QED  BY <1>12, <3>1
  <2>2. s.n = n /\ s.sum = mean /\ s.spread = spread
    BY <2>1
  <2>3. ~(\A i, j \in DOMAIN returns : returns[i] = returns[j])
    BY <1>1, <1>14
  <2>4. s.n > 0 /\ s.spread > 0 /\ s \in [n: Int, sum: Int, spread: Int]
    BY <1>1, <1>3, <1>8, <2>0, <2>1, <2>2
  <2> QED  BY <2>2, <2>3, <2>4 DEF s, mean, n, spread, squares
<1> QED  BY <1>13, <1>14

(* The drawdown is a loss, or none.  Of an account that is never overdrawn *)
(* it is the worst between any two points, and none if nothing changes.    *)
LEMMA WorstLoss ==
  ASSUME NEW equity \in Seq(Int), equity # <<>>
  PROVE  /\ MaxDrawdown(equity) \in [drop: Int, of: Int]
         /\ (\A i \in DOMAIN equity : equity[i] > 0) =>
              /\ \A i, j \in DOMAIN equity : i <= j =>
                     ~Exceeds([drop |-> equity[i] - equity[j], of |-> equity[i]],
                              MaxDrawdown(equity))
              /\ \E i, j \in DOMAIN equity : /\ i <= j
                     /\ ~Exceeds(MaxDrawdown(equity),
                                 [drop |-> equity[i] - equity[j], of |-> equity[i]])
              /\ (\A i, j \in DOMAIN equity : equity[i] = equity[j]) =>
                     MaxDrawdown(equity).drop = 0
<1> DEFINE n == Len(equity)
           Lost(j) == j # 0 /\ Peak(equity, j) > 0
           loss(j) == IF ~Lost(j) THEN NoLoss
                      ELSE [drop |-> Peak(equity, j) - equity[j], of |-> Peak(equity, j)]
           losses == {loss(j) : j \in 0..n}
<1>1. /\ n \in Nat /\ n >= 1 /\ DOMAIN equity = 1..n
      /\ \A i \in 1..n : equity[i] \in Int
  OBVIOUS
<1> HIDE DEF n
(* The running peak is a highest point so far.                             *)
<1>2. ASSUME NEW j \in 1..n
      PROVE  \E i \in 1..j : /\ Peak(equity, j) = equity[i]
                             /\ \A m \in 1..j : equity[m] <= equity[i]
  <2> DEFINE Highest(i, k) == \A m \in 1..k : equity[m] <= equity[i]
             T == {k \in 0..j : k = 0 \/ \E i \in 1..k : Highest(i, k)}
  <2>1. 0 \in T
    OBVIOUS
  <2>2. ASSUME NEW k \in 1..j, k - 1 \in T
        PROVE  k \in T
    <3>1. k \in 1..n /\ k \in 0..j /\ k \in 1..k /\ (k # 1 => k - 1 # 0)
      BY <1>1
    <3>2. CASE k = 1
      <4>1. Highest(k, k)
        BY <1>1, <3>1, <3>2
      <4> QED  BY <3>1, <4>1
    <3>3. CASE k # 1
      <4>1. PICK i \in 1 .. k - 1 : Highest(i, k - 1)
        BY <2>2, <3>1, <3>3
      <4>2. i \in 1..k /\ equity[i] \in Int /\ equity[k] \in Int
        BY <1>1, <3>1
      <4>3. CASE equity[k] <= equity[i]
        <5>1. Highest(i, k)
          BY <4>1, <4>3
        <5> QED  BY <3>1, <4>2, <5>1
      <4>4. CASE ~(equity[k] <= equity[i])
        <5>1. ASSUME NEW m \in 1..k PROVE equity[m] <= equity[k]
          <6>1. m = k \/ m \in 1 .. k - 1
            OBVIOUS
          <6>2. equity[m] \in Int
            BY <1>1, <3>1
          <6> QED  BY <4>1, <4>2, <4>4, <6>1, <6>2
        <5>2. Highest(k, k)
          BY <5>1
        <5> QED  BY <3>1, <5>2
      <4> QED  BY <4>3, <4>4
    <3> QED  BY <3>2, <3>3
  <2> HIDE DEF T
  <2>3. \A k \in 0..j : k \in T
    <3>1. \A k \in 1..j : k - 1 \in T => k \in T
      BY <2>2
    <3>2. j \in Nat
      BY <1>1
    <3> QED  BY <2>1, <3>1, <3>2, StepByStep, Zenon
  <2>4. PICK i \in 1..j : Highest(i, j)
    <3>1. j \in T /\ j # 0
      BY <1>1, <2>3
    <3> HIDE DEF Highest
    <3> QED  BY <3>1, Zenon DEF T
  <2> HIDE DEF Highest
  <2>5. \A m \in 1..j : equity[m] <= equity[i]
    BY <2>4 DEF Highest
  <2> DEFINE high == {equity[m] : m \in 1..j}
  <2>6. equity[i] \in high /\ \A m \in 1..j : equity[m] <= equity[i]
    BY <2>5
  <2>7. Peak(equity, j) \in high /\ \A m \in 1..j : equity[m] <= Peak(equity, j)
    BY <2>6 DEF Peak
  <2>8. PICK l \in 1..j : Peak(equity, j) = equity[l]
    BY <2>7
  <2> QED  BY <2>7, <2>8
<1>3. ASSUME NEW j \in 1..n
      PROVE  Peak(equity, j) \in Int
  <2>1. PICK i \in 1..j : Peak(equity, j) = equity[i]
    BY <1>2
  <2>2. i \in 1..n
    BY <1>1
  <2> QED  BY <1>1, <2>1, <2>2
<1>4. ASSUME NEW j \in 0..n
      PROVE  /\ loss(j) \in [drop: Int, of: Int]
             /\ loss(j).drop \in Int /\ loss(j).of \in Int /\ loss(j).of > 0
  <2>1. CASE ~Lost(j)
    BY <2>1 DEF NoLoss
  <2>2. CASE Lost(j)
    <3>1. j \in 1..n
      BY <1>1, <2>2
    <3>2. loss(j) = [drop |-> Peak(equity, j) - equity[j], of |-> Peak(equity, j)]
      BY <2>2
    <3> QED  BY <1>1, <1>3, <2>2, <3>1, <3>2
  <2> QED  BY <2>1, <2>2
<1>5. MaxDrawdown(equity) = CHOOSE x \in losses : \A y \in losses : ~Exceeds(y, x)
  <2> DEFINE some == {[drop |-> Peak(equity, j) - equity[j], of |-> Peak(equity, j)] :
                        j \in {k \in DOMAIN equity : Peak(equity, k) > 0}}
  <2>1. \A j \in 1..n : Lost(j) <=> Peak(equity, j) > 0
    BY <1>1
  <2>2. 0..n = {0} \cup 1..n /\ ~Lost(0)
    BY <1>1
  <2>3. losses \subseteq {NoLoss} \cup some
    <3> SUFFICES ASSUME NEW j \in 0..n PROVE loss(j) \in {NoLoss} \cup some
      OBVIOUS
    <3>1. CASE ~Lost(j)
      BY <3>1
    <3>2. CASE Lost(j)
      <4>1. j \in DOMAIN equity /\ Peak(equity, j) > 0
        BY <1>1, <3>2
      <4> QED  BY <3>2, <4>1
    <3> QED  BY <3>1, <3>2
  <2>4. some \subseteq losses
    <3> SUFFICES ASSUME NEW j \in DOMAIN equity, Peak(equity, j) > 0
                 PROVE  [drop |-> Peak(equity, j) - equity[j], of |-> Peak(equity, j)] \in losses
      OBVIOUS
    <3>1. j \in 0..n /\ Lost(j)
      BY <1>1
    <3>2. loss(j) = [drop |-> Peak(equity, j) - equity[j], of |-> Peak(equity, j)]
      BY <3>1
    <3> HIDE DEF loss
    <3> QED  BY <3>1, <3>2
  <2>5. NoLoss \in losses
    <3>1. 0 \in 0..n /\ loss(0) = NoLoss
      BY <1>1
    <3> HIDE DEF loss
    <3> QED  BY <3>1
  <2>6. losses = {NoLoss} \cup some
    <3> HIDE DEF losses, some
    <3> QED  BY <2>3, <2>4, <2>5
  <2> HIDE DEF losses
  <2> QED  BY <2>6 DEF MaxDrawdown
<1> HIDE DEF loss, Lost
(* Fractions are ordered by their cross products.                          *)
<1>6. ASSUME NEW a \in Int, NEW b \in Int, NEW c \in Int,
             NEW p \in Int, NEW q \in Int, NEW r \in Int, p > 0, q > 0, r > 0,
             a * q <= b * p, b * r <= c * q
      PROVE  a * r <= c * p
  <2>1. \A x, y, z \in Int : x <= y /\ z > 0 => x * z <= y * z
    OBVIOUS
  <2>2. \A x, y, z \in Int : x * z <= y * z /\ z > 0 => x <= y
    OBVIOUS
  <2>3. /\ a * q \in Int /\ b * p \in Int /\ b * r \in Int /\ c * q \in Int
        /\ a * r \in Int /\ c * p \in Int
    OBVIOUS
  <2>4. (a * q) * r <= (b * p) * r /\ (b * r) * p <= (c * q) * p
    BY <1>6, <2>1, <2>3
  <2>5. /\ (a * q) * r = (a * r) * q /\ (c * q) * p = (c * p) * q
        /\ (b * p) * r = (b * r) * p /\ (b * r) * p \in Int
        /\ (a * r) * q \in Int /\ (c * p) * q \in Int
    OBVIOUS
  <2>6. (a * r) * q <= (c * p) * q
    BY <2>4, <2>5
  <2> QED  BY <1>6, <2>2, <2>3, <2>6
<1> DEFINE D(j) == loss(j).drop
           O(j) == loss(j).of
           AtMost(i, j) == D(i) * O(j) <= D(j) * O(i)
<1>7. \A i, j \in 0..n : Exceeds(loss(i), loss(j)) <=> ~AtMost(i, j)
  <2> SUFFICES ASSUME NEW i \in 0..n, NEW j \in 0..n
               PROVE  Exceeds(loss(i), loss(j)) <=> ~AtMost(i, j)
    OBVIOUS
  <2>1. D(i) * O(j) \in Int /\ D(j) * O(i) \in Int
    BY <1>4
  <2> QED  BY <2>1 DEF Exceeds
<1>8. ASSUME NEW i \in 0..n, NEW j \in 0..n, NEW k \in 0..n, AtMost(i, j), AtMost(j, k)
      PROVE  AtMost(i, k)
  <2>1. /\ D(i) \in Int /\ D(j) \in Int /\ D(k) \in Int
        /\ O(i) \in Int /\ O(j) \in Int /\ O(k) \in Int
        /\ O(i) > 0 /\ O(j) > 0 /\ O(k) > 0
    BY <1>4
  <2> HIDE DEF D, O
  <2> QED  BY <1>6, <1>8, <2>1
<1>9. \A i, j \in 0..n : AtMost(i, i) /\ (AtMost(i, j) \/ AtMost(j, i))
  <2> SUFFICES ASSUME NEW i \in 0..n, NEW j \in 0..n
               PROVE  AtMost(i, i) /\ (AtMost(i, j) \/ AtMost(j, i))
    OBVIOUS
  <2>1. D(i) * O(i) \in Int /\ D(i) * O(j) \in Int /\ D(j) * O(i) \in Int
    BY <1>4
  <2> HIDE DEF D, O
  <2> QED  BY <2>1
<1> HIDE DEF D, O, AtMost
(* So one of them is the worst.                                            *)
<1> DEFINE U == {k \in 0..n : \E m \in 0..k : \A i \in 0..k : AtMost(i, m)}
<1>10. 0 \in U
  <2>1. \A i \in 0..0 : AtMost(i, 0)
    BY <1>1, <1>9
  <2> QED  BY <1>1, <2>1
<1>11. ASSUME NEW k \in 1..n, k - 1 \in U
       PROVE  k \in U
  <2>1. PICK m \in 0 .. k - 1 : \A i \in 0 .. k - 1 : AtMost(i, m)
    BY <1>11
  <2>2. k \in 0..n /\ k \in 0..k /\ m \in 0..n /\ m \in 0..k
    BY <1>1
  <2>3. \A i \in 0..k : i \in 0..n /\ (i = k \/ i \in 0 .. k - 1)
    BY <1>1
  <2>4. CASE AtMost(k, m)
    <3>1. \A i \in 0..k : AtMost(i, m)
      BY <2>1, <2>3, <2>4
    <3> QED  BY <2>2, <3>1
  <2>5. CASE AtMost(m, k)
    <3>1. \A i \in 0..k : AtMost(i, k)
      BY <1>8, <1>9, <2>1, <2>2, <2>3, <2>5
    <3> QED  BY <2>2, <3>1
  <2> QED  BY <1>9, <2>2, <2>4, <2>5
<1> HIDE DEF U
<1>12. \A k \in 0..n : k \in U
  <2>1. \A k \in 1..n : k - 1 \in U => k \in U
    BY <1>11
  <2> QED  BY <1>1, <1>10, <2>1, StepByStep, Zenon
<1>13. PICK w \in 0..n : \A i \in 0..n : AtMost(i, w)
  <2>1. n \in U
    BY <1>1, <1>12
  <2> QED  BY <2>1, Zenon DEF U
<1>14. PICK x \in 0..n : /\ MaxDrawdown(equity) = loss(x)
                         /\ \A i \in 0..n : AtMost(i, x)
  <2>1. loss(w) \in losses /\ \A y \in losses : ~Exceeds(y, loss(w))
    BY <1>7, <1>13
  <2>2. /\ MaxDrawdown(equity) \in losses
        /\ \A y \in losses : ~Exceeds(y, MaxDrawdown(equity))
    <3> HIDE DEF losses
    <3> QED  BY <1>5, <2>1, Zenon
  <2>3. PICK x \in 0..n : MaxDrawdown(equity) = loss(x)
    BY <2>2
  <2> QED  BY <1>7, <2>2, <2>3
<1>15. MaxDrawdown(equity) \in [drop: Int, of: Int]
  BY <1>4, <1>14
<1> SUFFICES ASSUME \A i \in 1..n : equity[i] > 0
             PROVE  /\ \A i, j \in 1..n : i <= j =>
                           ~Exceeds([drop |-> equity[i] - equity[j], of |-> equity[i]],
                                    MaxDrawdown(equity))
                    /\ \E i, j \in 1..n : /\ i <= j
                           /\ ~Exceeds(MaxDrawdown(equity),
                                       [drop |-> equity[i] - equity[j], of |-> equity[i]])
                    /\ (\A i, j \in 1..n : equity[i] = equity[j]) =>
                           MaxDrawdown(equity).drop = 0
  BY <1>1, <1>15
<1>16. \A j \in 1..n : Peak(equity, j) > 0 /\ Lost(j)
  <2> SUFFICES ASSUME NEW j \in 1..n PROVE Peak(equity, j) > 0 /\ Lost(j)
    OBVIOUS
  <2>1. PICK i \in 1..j : Peak(equity, j) = equity[i]
    BY <1>2
  <2>2. i \in 1..n /\ j # 0
    BY <1>1
  <2> QED  BY <2>1, <2>2 DEF Lost
<1>17. ASSUME NEW i \in 1..n, NEW j \in 1..n, i <= j
       PROVE  ~Exceeds([drop |-> equity[i] - equity[j], of |-> equity[i]], MaxDrawdown(equity))
  <2> DEFINE P == Peak(equity, j)
             a == equity[i]
             b == equity[j]
  <2>1. D(j) = P - b /\ O(j) = P /\ j \in 0..n
    BY <1>1, <1>16 DEF D, O, loss
  <2>2. P \in Int /\ P > 0 /\ a \in Int /\ a > 0 /\ b \in Int /\ b > 0 /\ a <= P
    <3>1. PICK l \in 1..j : /\ Peak(equity, j) = equity[l]
                            /\ \A m \in 1..j : equity[m] <= equity[l]
      BY <1>2
    <3>2. i \in 1..j
      BY <1>17
    <3> QED  BY <1>1, <1>3, <1>16, <3>1, <3>2
  <2>3. AtMost(j, x)
    BY <1>14, <2>1
  <2> HIDE DEF P, a, b
  <2>4. (a - b) * P <= (P - b) * a
    <3>1. b * a <= b * P /\ (a - b) * P = a * P - b * P /\ (P - b) * a = a * P - b * a
      BY <2>2
    <3>2. a * P \in Int /\ b * P \in Int /\ b * a \in Int
      BY <2>2
    <3> QED  BY <3>1, <3>2
  <2>5. (P - b) * O(x) <= D(x) * P
    BY <2>1, <2>3 DEF AtMost
  <2>6. D(x) \in Int /\ O(x) \in Int /\ O(x) > 0
    BY <1>4 DEF D, O
  <2>7. (a - b) * O(x) <= D(x) * a
    <3> DEFINE e == a - b
               f == P - b
               d == D(x)
               o == O(x)
    <3>1. e \in Int /\ f \in Int /\ d \in Int /\ o \in Int /\ o > 0
      BY <2>2, <2>6
    <3>2. e * P <= f * a /\ f * o <= d * P
      BY <2>4, <2>5
    <3> HIDE DEF d, o, e, f
    <3>3. e * o <= d * a
      BY <1>6, <2>2, <3>1, <3>2
    <3> QED  BY <3>3 DEF d, o, e, f
  <2>8. (a - b) * O(x) \in Int /\ D(x) * a \in Int
    BY <2>2, <2>6
  <2> DEFINE y == [drop |-> a - b, of |-> a]
  <2>9. y.drop = a - b /\ y.of = a
    OBVIOUS
  <2> HIDE DEF y
  <2>10. ~Exceeds(y, loss(x))
    BY <2>7, <2>8, <2>9 DEF Exceeds, D, O
  <2> QED  BY <1>14, <2>10 DEF y, a, b
<1>18. \E i, j \in 1..n : /\ i <= j
           /\ ~Exceeds(MaxDrawdown(equity), [drop |-> equity[i] - equity[j], of |-> equity[i]])
  <2>1. CASE x = 0
    <3> DEFINE y == [drop |-> equity[1] - equity[1], of |-> equity[1]]
    <3>1. 1 \in 1..n /\ 1 <= 1 /\ equity[1] \in Int
      BY <1>1
    <3>2. y.drop = 0 /\ y.of \in Int
      BY <3>1
    <3>3. loss(0).drop = 0 /\ loss(0).of = 1
      BY DEF loss, Lost, NoLoss
    <3> HIDE DEF y
    <3>4. ~Exceeds(loss(0), y)
      BY <3>2, <3>3 DEF Exceeds
    <3> QED  BY <1>14, <2>1, <3>1, <3>4 DEF y
  <2>2. CASE x # 0
    <3>1. x \in 1..n
      BY <1>1, <2>2
    <3>2. PICK i \in 1..x : Peak(equity, x) = equity[i]
      BY <1>2, <3>1
    <3>3. loss(x) = [drop |-> equity[i] - equity[x], of |-> equity[i]]
      BY <1>16, <3>1, <3>2 DEF loss
    <3>4. i \in 1..n /\ i <= x
      BY <1>1, <3>1
    <3>5. ~Exceeds(loss(x), loss(x))
      BY <1>7, <1>9
    <3> QED  BY <1>14, <3>1, <3>3, <3>4, <3>5
  <2> QED  BY <2>1, <2>2
<1>19. (\A i, j \in 1..n : equity[i] = equity[j]) => MaxDrawdown(equity).drop = 0
  <2> SUFFICES ASSUME \A i, j \in 1..n : equity[i] = equity[j]
               PROVE  loss(x).drop = 0
    BY <1>14
  <2>1. CASE x = 0
    BY <2>1 DEF loss, Lost, NoLoss
  <2>2. CASE x # 0
    <3>1. x \in 1..n
      BY <1>1, <2>2
    <3>2. PICK i \in 1..x : Peak(equity, x) = equity[i]
      BY <1>2, <3>1
    <3>3. i \in 1..n /\ equity[i] = equity[x] /\ equity[x] \in Int
      BY <1>1, <3>1
    <3> QED  BY <1>16, <3>1, <3>2, <3>3 DEF loss
  <2> QED  BY <2>1, <2>2
<1> QED  BY <1>17, <1>18, <1>19

(* Every order is filled once, by the first tick that can fill it and in   *)
(* order of arrival; the strategy sees the history tick by tick, whatever  *)
(* the batches, and the ticks at the stride are timed; the metrics are     *)
(* those of the whole run; and no trade at the quotes of a tick makes the  *)
(* account worth more.                                                     *)
THEOREM EngineSafe ==
  EngineSpec => /\ [](/\ TypeOK /\ EveryOrderOnce /\ FirstComeFirstServed
                      /\ FilledAtFirstChance /\ EveryTickOnceInOrder
                      /\ SharpeIsMeasured /\ DrawdownIsWorstLoss)
                /\ NoFreeLunch
(* Matching and both loops keep their invariants through every step.       *)
<1>0. ASSUME MatchingInv, LoopInv, [EngineNext]_<<vars, engineVars>>
      PROVE  /\ MatchingInv' /\ LoopInv'
             /\ tick' # tick => \E signals \in Seq(Signals), t \in Ticks : ProcessSignals(signals, t)
  <2> USE <1>0
  <2>1. /\ config \in Configs /\ config.batch \in Nat /\ config.stride \in Nat
        /\ config.noop \in BOOLEAN /\ config.signals \subseteq Signals
        /\ config.orders \in Nat
    BY EngineAssumption, MatchingAssumption DEF LoopInv
  <2>2. Batch \in Nat /\ Batch >= 1
    BY <2>1 DEF Batch, Larger
  <2>3. phase \in {"strategy", "run", "done", "died"} =>
            /\ History \in Seq(Ticks) /\ Size = Len(History) /\ Size \in Nat
            /\ \A i \in 0 .. Size - 1 : TickAt(i) = History[i + 1]
    <3>1. SUFFICES ASSUME phase \in {"strategy", "run", "done", "died"}
                   PROVE  /\ History \in Seq(Ticks) /\ Size = Len(History) /\ Size \in Nat
                          /\ \A i \in 0 .. Size - 1 : TickAt(i) = History[i + 1]
      OBVIOUS
    <3>2. view = Views(config.dataset)
      BY <3>1 DEF LoopInv
    <3>3. /\ History \in Seq(Ticks) /\ Size = Len(History)
          /\ \A i \in 0 .. Size - 1 : TickAt(i) = History[i + 1]
      BY <2>1, <3>2, ViewIsHistory
    <3> QED  BY <3>3
  <2>4. tick \in Seq(Ticks) /\ Len(tick) \in Nat
    BY DEF MatchingInv, TypeOK
  <2>5. view' = view => Size' = Size
    BY DEF Size
  <2>6. config' = config => History' = History /\ Batch' = Batch
    <3>1. config' = config => History' = History
      BY Zenon DEF History
    <3>2. config' = config => Batch' = Batch
      BY DEF Batch
    <3> QED  BY <3>1, <3>2
  <2>7. UNCHANGED vars => MatchingInv'
    <3> SUFFICES ASSUME UNCHANGED vars PROVE MatchingInv'
      OBVIOUS
    <3>1. /\ book' = book /\ seq' = seq /\ position' = position /\ cash' = cash
          /\ curve' = curve /\ tick' = tick /\ fills' = fills
      BY DEF vars
    <3>2. TypeOK'
      BY <3>1 DEF MatchingInv, TypeOK
    <3>3. EveryOrderOnce'
      <4>1. EveryOrderOnce
        BY DEF MatchingInv
      <4> QED  BY <3>1, <4>1, ZenonT(30) DEF EveryOrderOnce
    <3>4. FirstComeFirstServed' /\ FilledAtFirstChance'
      BY <3>1 DEF MatchingInv, FirstComeFirstServed, FilledAtFirstChance
    <3>5. Untraded'
      BY <3>1 DEF MatchingInv, Untraded
    <3> QED  BY <3>1, <3>2, <3>3, <3>4, <3>5 DEF MatchingInv
  <2>8. CASE LoadDataset
    <3>1. /\ phase = "load" /\ phase' \in {"strategy", "failed"}
          /\ phase' = "strategy" => view' = Views(config.dataset)
          /\ UNCHANGED vars
          /\ config' = config /\ batchStart' = batchStart /\ index' = index
          /\ latencies' = latencies
      BY <2>8 DEF LoadDataset
    <3>2. tick' = tick
      BY <3>1 DEF vars
    <3>3. LoopInv'
      BY <2>6, <3>1, <3>2 DEF LoopInv
    <3> QED  BY <2>7, <3>1, <3>2, <3>3
  <2>9. CASE LoadStrategy
    <3>1. /\ phase = "strategy" /\ phase' \in {"run", "failed"}
          /\ UNCHANGED vars
          /\ config' = config /\ view' = view /\ batchStart' = batchStart /\ index' = index
          /\ latencies' = latencies
      BY <2>9 DEF LoadStrategy
    <3>2. tick' = tick
      BY <3>1 DEF vars
    <3>3. /\ tick = <<>> /\ batchStart = 0 /\ index = 0
      BY <3>1 DEF LoopInv
    <3>4. Size \in Nat /\ Size' = Size
      BY <2>3, <2>5, <3>1
    <3>5. /\ Smaller(index, Size) = 0 /\ BatchEnd' \in Nat
      BY <2>2, <2>6, <3>1, <3>3, <3>4 DEF Smaller, BatchEnd
    <3>6. Len(tick) = 0
      BY <3>3
    <3>7. Smaller(index', Size') = Smaller(index, Size)
      BY <3>1, <3>4
    <3>8. LoopInv'
      BY <2>6, <3>1, <3>2, <3>3, <3>4, <3>5, <3>6, <3>7 DEF LoopInv
    <3> QED  BY <2>7, <3>1, <3>2, <3>8
  <2>10. CASE ProcessTick
    <3>1. /\ phase = "run" /\ index < BatchEnd
          /\ index' = index + 1
          /\ latencies' = IF Sampled THEN Append(latencies, index) ELSE latencies
          /\ config' = config /\ phase' = phase /\ view' = view /\ batchStart' = batchStart
      BY <2>10 DEF ProcessTick
    <3>2. PICK signals \in Answer : ProcessSignals(signals, TickAt(index))
      BY <2>10 DEF ProcessTick
    <3>3. signals \in Seq(Signals)
      <4>1. CASE config.noop
        BY <3>2, <4>1 DEF Answer
      <4>2. CASE ~config.noop
        <5>1. PICK n \in 0..(config.orders - seq) : signals \in [1..n -> config.signals]
          BY <3>2, <4>2 DEF Answer
        <5>2. n \in Nat /\ signals \in [1..n -> Signals]
          BY <2>1, <5>1
        <5> QED  BY <5>2
      <4> QED  BY <4>1, <4>2
    <3>4. /\ batchStart \in Nat /\ index \in Nat /\ batchStart <= index
          /\ batchStart < Size => index <= BatchEnd
          /\ Len(tick) = Smaller(index, Size)
      BY <3>1 DEF LoopInv
    <3>5. /\ History \in Seq(Ticks) /\ Size = Len(History) /\ Size \in Nat
          /\ \A i \in 0 .. Size - 1 : TickAt(i) = History[i + 1]
      BY <2>3, <3>1
    <3>6. index < Size /\ index + 1 <= BatchEnd /\ BatchEnd \in Nat
      BY <2>2, <3>1, <3>4, <3>5 DEF BatchEnd, Smaller
    <3>7. Len(tick) = index
      BY <3>4, <3>5, <3>6 DEF Smaller
    <3>8. TickAt(index) = History[index + 1] /\ TickAt(index) \in Ticks
      BY <3>4, <3>5, <3>6
    <3>9. tick' = Append(tick, TickAt(index))
      BY <3>2 DEF ProcessSignals
    <3>10. /\ Len(tick') = index + 1 /\ tick'[index + 1] = History[index + 1]
           /\ \A k \in 1..index : tick'[k] = tick[k]
      <4> DEFINE t == TickAt(index)
      <4>1. t \in Ticks /\ t = History[index + 1] /\ tick' = Append(tick, t)
        BY <3>8, <3>9
      <4> HIDE DEF t
      <4> QED  BY <2>4, <3>7, <4>1
    <3>11. MatchingInv'
      BY <3>2, <3>3, <3>8, MatchingStep
    <3>12. \A k \in 1..Len(tick') : tick'[k] = History'[k]
      <4>1. \A k \in 1..Len(tick) : tick[k] = History[k]
        BY DEF LoopInv
      <4>2. \A k \in 1 .. index + 1 : k = index + 1 \/ k \in 1..index
        BY <3>4
      <4> QED  BY <2>6, <3>1, <3>7, <3>10, <4>1, <4>2
    <3> DEFINE c == Len(latencies)
               s == config.stride
    <3>13. /\ latencies \in Seq(Nat) /\ c \in Nat
           /\ \A k \in 1..c : latencies[k] = (k - 1) * s
           /\ s > 0 => (c - 1) * s < index /\ index <= c * s
      BY <3>7 DEF LoopInv
    <3> HIDE DEF c
    <3>14. /\ latencies' \in Seq(Nat)
           /\ \A k \in 1..Len(latencies') : latencies'[k] = (k - 1) * s
           /\ s > 0 => /\ (Len(latencies') - 1) * s < index + 1
                       /\ index + 1 <= Len(latencies') * s
      <4>1. CASE s > 0 /\ index % s = 0
        <5>1. index = c * s
          <6>1. s \in Nat \ {0}
            BY <2>1, <4>1
          <6> HIDE DEF s
          <6> QED  BY <3>4, <3>13, <4>1, <6>1, Strides
        <5>2. latencies' = Append(latencies, index)
          BY <3>1, <4>1 DEF Sampled
        <5> HIDE DEF s
        <5>3. /\ latencies' \in Seq(Nat) /\ Len(latencies') = c + 1
              /\ \A k \in 1..c : latencies'[k] = latencies[k]
              /\ latencies'[c + 1] = index
          BY <3>4, <3>13, <5>2 DEF c
        <5>4. /\ (c + 1) - 1 = c /\ c * s \in Int /\ (c + 1) * s = c * s + s /\ s \in Nat
          <6>1. s \in Nat
            BY <2>1 DEF s
          <6> QED  BY <3>13, <6>1
        <5>5. ASSUME NEW k \in 1 .. c + 1
              PROVE  latencies'[k] = (k - 1) * s
          <6>1. k \in 1..c \/ k = c + 1
            BY <3>13
          <6> QED  BY <3>13, <5>1, <5>3, <5>4, <6>1
        <5>6. c * s < index + 1 /\ index + 1 <= (c + 1) * s
          BY <4>1, <5>1, <5>4
        <5> QED  BY <5>3, <5>4, <5>5, <5>6
      <4>2. CASE s > 0 /\ index % s # 0
        <5>1. index # c * s
          <6>1. s \in Nat \ {0}
            BY <2>1, <4>2
          <6> HIDE DEF s
          <6> QED  BY <3>4, <3>13, <4>2, <6>1, Strides
        <5>2. latencies' = latencies
          BY <3>1, <4>2 DEF Sampled
        <5> HIDE DEF s
        <5>3. c * s \in Int /\ (c - 1) * s \in Int
          BY <2>1, <3>13 DEF s
        <5> QED  BY <3>4, <3>13, <4>2, <5>1, <5>2, <5>3 DEF c
      <4>3. CASE ~(s > 0)
        <5>1. latencies' = latencies
          BY <3>1, <4>3 DEF Sampled
        <5> QED  BY <3>13, <4>3, <5>1 DEF c
      <4> QED  BY <2>1, <4>1, <4>2, <4>3
    <3>15. /\ batchStart' \in Nat /\ index' \in Nat /\ batchStart' <= index'
           /\ index' <= BatchEnd' /\ Len(tick') = Smaller(index', Size')
      <4>1. Size' = Size /\ Batch' = Batch /\ BatchEnd' = BatchEnd
        BY <2>5, <2>6, <3>1 DEF BatchEnd
      <4>2. Smaller(index + 1, Size) = index + 1
        BY <3>4, <3>5, <3>6 DEF Smaller
      <4>3. Smaller(index', Size') = Smaller(index + 1, Size)
        BY <3>1, <4>1
      <4> QED  BY <3>1, <3>4, <3>6, <3>10, <4>1, <4>2, <4>3
    <3>16. LoopInv'
      <4>1. /\ config' \in Configs /\ phase' = "run" /\ config'.stride = s
            /\ view' = Views(config'.dataset)
        BY <3>1 DEF LoopInv
      <4>2. Len(tick') = index + 1
        BY <3>10
      <4> HIDE DEF s
      <4> QED  BY <3>12, <3>14, <3>15, <4>1, <4>2 DEF LoopInv
    <3> QED  BY <3>2, <3>3, <3>8, <3>11, <3>16
  <2>11. CASE NextBatch
    <3>1. /\ phase = "run" /\ batchStart < Size /\ index = BatchEnd
          /\ batchStart' = batchStart + Batch /\ index' = batchStart + Batch
          /\ UNCHANGED vars
          /\ config' = config /\ phase' = phase /\ view' = view /\ latencies' = latencies
      BY <2>11 DEF NextBatch
    <3>2. tick' = tick
      BY <3>1 DEF vars
    <3>3. batchStart \in Nat /\ index \in Nat /\ Len(tick) = Smaller(index, Size)
      BY <3>1 DEF LoopInv
    <3>4. Size \in Nat /\ Size' = Size /\ Batch' = Batch
      BY <2>3, <2>5, <2>6, <3>1
    <3>5. /\ batchStart' \in Nat /\ index' \in Nat /\ batchStart' <= index'
      BY <2>2, <3>1, <3>3
    <3>6. batchStart' < Size' => index' <= BatchEnd'
      <4>1. BatchEnd' = Smaller(batchStart' + Batch, Size)
        BY <3>4 DEF BatchEnd
      <4>2. index' = batchStart' /\ batchStart' \in Nat
        BY <3>1, <3>5
      <4>3. \A x \in Nat : x < Size => x <= Smaller(x + Batch, Size)
        BY <2>2, <3>4 DEF Smaller
      <4> QED  BY <3>4, <4>1, <4>2, <4>3
    <3>7. Len(tick') = Smaller(index', Size')
      <4>1. Len(tick) = Smaller(Smaller(batchStart + Batch, Size), Size)
        BY <3>1, <3>3 DEF BatchEnd
      <4>2. Smaller(Smaller(batchStart + Batch, Size), Size) = Smaller(batchStart + Batch, Size)
        BY <2>2, <3>3, <3>4 DEF Smaller
      <4>3. Smaller(index', Size') = Smaller(batchStart + Batch, Size)
        BY <3>1, <3>4
      <4> QED  BY <3>2, <4>1, <4>2, <4>3
    <3>8. LoopInv'
      BY <2>6, <3>1, <3>2, <3>5, <3>6, <3>7 DEF LoopInv
    <3> QED  BY <2>7, <3>1, <3>2, <3>8
  <2>12. CASE Finalize \/ Die
    <3>1. /\ phase = "run" /\ phase' \in {"done", "died"}
          /\ phase' = "done" => batchStart >= Size
          /\ UNCHANGED vars
          /\ config' = config /\ view' = view /\ batchStart' = batchStart /\ index' = index
          /\ latencies' = latencies
      BY <2>12 DEF Finalize, Die
    <3>2. tick' = tick
      BY <3>1 DEF vars
    <3>3. Size' = Size /\ BatchEnd' = BatchEnd
      BY <2>5, <2>6, <3>1 DEF BatchEnd
    <3>4. Smaller(index', Size') = Smaller(index, Size)
      BY <3>1, <3>3
    <3>5. LoopInv'
      BY <2>6, <3>1, <3>2, <3>3, <3>4 DEF LoopInv
    <3> QED  BY <2>7, <3>1, <3>2, <3>5
  <2>13. CASE UNCHANGED <<vars, engineVars>>
    <3>1. /\ UNCHANGED vars
          /\ config' = config /\ phase' = phase /\ view' = view
          /\ batchStart' = batchStart /\ index' = index /\ latencies' = latencies
      BY <2>13 DEF engineVars
    <3>2. tick' = tick
      BY <3>1 DEF vars
    <3>3. Size' = Size /\ BatchEnd' = BatchEnd
      BY <2>5, <2>6, <3>1 DEF BatchEnd
    <3>4. Smaller(index', Size') = Smaller(index, Size)
      BY <3>1, <3>3
    <3>5. LoopInv'
      BY <2>6, <3>1, <3>2, <3>3, <3>4 DEF LoopInv
    <3> QED  BY <2>7, <3>1, <3>2, <3>5
  <2> QED  BY <2>8, <2>9, <2>10, <2>11, <2>12, <2>13 DEF EngineNext, Run
<1> DEFINE Costs ==
        tick' # tick =>
            LET t == Last(tick')
            IN  /\ 0 <= SellPrice(t) /\ SellPrice(t) <= BuyPrice(t)
                /\ \A i \in Len(fills) + 1 .. Len(fills') : fills'[i].order.quantity >= 0
                => \A mark \in 2 * SellPrice(t) .. 2 * BuyPrice(t) :
                       Equity(cash', position', mark) <= Equity(cash, position, mark)
<1>1. EngineInit => MatchingInv /\ LoopInv
  <2> SUFFICES ASSUME EngineInit PROVE MatchingInv /\ LoopInv
    OBVIOUS
  <2>1. /\ book = <<>> /\ seq = 0 /\ position = 0 /\ cash = Capital /\ curve = <<>>
        /\ tick = <<>> /\ fills = <<>>
        /\ config \in Configs /\ phase = "load" /\ latencies = <<>>
        /\ batchStart = 0 /\ index = 0
    BY DEF EngineInit, Init
  <2>2. DOMAIN book = {} /\ DOMAIN fills = {} /\ Len(tick) = 0 /\ Len(fills) = 0 /\ Len(book) = 0
    BY <2>1
  <2>3. TypeOK
    BY <2>1, <2>2, MatchingAssumption DEF TypeOK
  <2>4. EveryOrderOnce
    <3>1. {book[i].id : i \in DOMAIN book} = {} /\ {fills[i].order.id : i \in DOMAIN fills} = {}
      BY <2>2
    <3>2. 0 .. seq - 1 = {}
      BY <2>1
    <3> QED  BY <2>1, <2>2, <3>1, <3>2 DEF EveryOrderOnce
  <2>5. FirstComeFirstServed /\ FilledAtFirstChance
    BY <2>2 DEF FirstComeFirstServed, FilledAtFirstChance
  <2>6. fills \in Seq(FillRecords)
    BY <2>1
  <2>7. MatchingInv
    <3>1. Untraded
      BY <2>1 DEF Untraded
    <3> QED  BY <2>2, <2>3, <2>4, <2>5, <2>6, <3>1 DEF MatchingInv
  <2>8. LoopInv
    <3>1. 1..Len(tick) = {} /\ 1..Len(latencies) = {} /\ latencies \in Seq(Nat) /\ Len(latencies) = 0
      BY <2>1
    <3>2. config.stride > 0 => (0 - 1) * config.stride < 0 /\ 0 <= 0 * config.stride
      BY <2>1, EngineAssumption
    <3> QED  BY <2>1, <2>2, <3>1, <3>2 DEF LoopInv
  <2> QED  BY <2>7, <2>8
<1>2. MatchingInv /\ LoopInv /\ [EngineNext]_<<vars, engineVars>> => MatchingInv' /\ LoopInv'
  BY <1>0
<1>3. MatchingInv /\ LoopInv => EveryTickOnceInOrder
  <2> SUFFICES ASSUME MatchingInv, LoopInv PROVE EveryTickOnceInOrder
    OBVIOUS
  <2>1. tick \in Seq(Ticks) /\ Len(tick) \in Nat /\ config \in Configs
    BY DEF MatchingInv, TypeOK, LoopInv
  <2>2. \A k \in 1..Len(tick) : tick[k] = History[k]
    BY DEF LoopInv
  <2>3. CASE phase \in {"load", "strategy", "failed"}
    <3>1. tick = <<>>
      BY <2>3 DEF LoopInv
    <3>2. tick = SubSeq(History, 1, Len(tick))
      BY <3>1
    <3> QED  BY <2>3, <3>2 DEF EveryTickOnceInOrder
  <2>4. CASE phase \in {"run", "done", "died"}
    <3>1. History \in Seq(Ticks) /\ Size = Len(History)
      <4>1. view = Views(config.dataset)
        BY <2>4 DEF LoopInv
      <4> QED  BY <2>1, <4>1, ViewIsHistory
    <3>2. index \in Nat /\ batchStart <= index /\ batchStart \in Nat /\ Len(tick) = Smaller(index, Size)
      BY <2>4 DEF LoopInv
    <3>3. Size \in Nat /\ Len(tick) <= Size
      BY <3>1, <3>2 DEF Smaller
    <3>4. tick = SubSeq(History, 1, Len(tick))
      <4> DEFINE part == SubSeq(History, 1, Len(tick))
      <4>1. part \in Seq(Ticks) /\ Len(part) = Len(tick)
        BY <2>1, <3>1, <3>3
      <4>2. \A k \in 1..Len(tick) : part[k] = History[k]
        BY <2>1, <3>1, <3>3
      <4> HIDE DEF part
      <4> QED  BY <2>1, <2>2, <4>1, <4>2, SeqEqual
    <3>5. phase = "done" => Len(tick) = Size
      <4>1. phase = "done" => batchStart >= Size
        BY DEF LoopInv
      <4> QED  BY <3>2, <3>3, <4>1 DEF Smaller
    <3>6. phase = "done" => tick = History
      BY <2>1, <2>2, <3>1, <3>5, SeqEqual
    <3>7. ASSUME phase = "done", config.stride > 0
          PROVE  /\ Len(latencies) = (Size + config.stride - 1) \div config.stride
                 /\ \A k \in DOMAIN latencies : latencies[k] = (k - 1) * config.stride
      <4>1. /\ latencies \in Seq(Nat)
            /\ \A k \in 1..Len(latencies) : latencies[k] = (k - 1) * config.stride
            /\ (Len(latencies) - 1) * config.stride < Len(tick)
            /\ Len(tick) <= Len(latencies) * config.stride
        BY <3>7 DEF LoopInv
      <4>2. config.stride \in Nat \ {0} /\ Len(latencies) \in Nat /\ DOMAIN latencies = 1..Len(latencies)
        BY <2>1, <3>7, <4>1, EngineAssumption
      <4> DEFINE s == config.stride
                 c == Len(latencies)
      <4>3. s \in Nat \ {0} /\ c \in Nat /\ (c - 1) * s < Size /\ Size <= c * s
        BY <3>5, <3>7, <4>1, <4>2
      <4> HIDE DEF s, c
      <4>4. (Size + s - 1) \div s = c
        BY <3>3, <4>3, Strides
      <4> QED  BY <4>1, <4>2, <4>4 DEF s, c
    <3>8. phase = "run" => Len(tick) = Smaller(index, Size)
      BY <3>2
    <3> QED  BY <3>4, <3>6, <3>7, <3>8 DEF EveryTickOnceInOrder
  <2> QED  BY <2>3, <2>4 DEF LoopInv
<1>4. MatchingInv => TypeOK /\ EveryOrderOnce /\ FirstComeFirstServed /\ FilledAtFirstChance
  BY DEF MatchingInv
<1>5. MatchingInv /\ LoopInv /\ [EngineNext]_<<vars, engineVars>> => [Costs]_vars
  <2> SUFFICES ASSUME MatchingInv, LoopInv, [EngineNext]_<<vars, engineVars>>, tick' # tick
               PROVE  Costs
    OBVIOUS
  <2>1. PICK signals \in Seq(Signals), t \in Ticks : ProcessSignals(signals, t)
    BY <1>0
  <2>2. Last(tick') = t
    <3>1. tick' = Append(tick, t)
      BY <2>1 DEF ProcessSignals
    <3>2. tick \in Seq(Ticks)
      BY DEF MatchingInv, TypeOK
    <3> QED  BY <3>1, <3>2 DEF Last
  <2>3. ASSUME 0 <= SellPrice(t), SellPrice(t) <= BuyPrice(t),
               \A i \in Len(fills) + 1 .. Len(fills') : fills'[i].order.quantity >= 0,
               NEW mark \in 2 * SellPrice(t) .. 2 * BuyPrice(t)
        PROVE  Equity(cash', position', mark) <= Equity(cash, position, mark)
    BY <2>1, <2>3, TradesCost
  <2> QED  BY <2>2, <2>3
<1>6. NoFreeLunch <=> [][Costs]_vars
  BY DEF NoFreeLunch, SellPrice, BuyPrice
(* At the end the curve has a point for every tick.                        *)
<1>7. MatchingInv /\ LoopInv => SharpeIsMeasured /\ DrawdownIsWorstLoss
  <2> SUFFICES ASSUME MatchingInv, LoopInv PROVE SharpeIsMeasured /\ DrawdownIsWorstLoss
    OBVIOUS
  <2> DEFINE returns == BuildReturns(curve)
             n       == Len(returns)
             mean    == PlainSum(returns)
             sharpe  == ComputeSharpe(returns)
             worst   == MaxDrawdown(curve)
             gain    == Last(curve) - 2 * Capital
  <2>1. /\ curve \in Seq(Int) /\ Len(curve) = Len(tick) /\ Len(tick) \in Nat
        /\ Capital \in Int /\ DOMAIN curve = 1..Len(curve)
    BY MatchingAssumption DEF MatchingInv, TypeOK
  <2>2. phase = "done" => Len(curve) = Size
    <3> SUFFICES ASSUME phase = "done" PROVE Len(curve) = Size
      OBVIOUS
    <3>1. config \in Configs /\ view = Views(config.dataset)
      BY DEF LoopInv
    <3>2. History \in Seq(Ticks) /\ Size = Len(History)
      BY <3>1, ViewIsHistory
    <3>3. /\ batchStart \in Nat /\ index \in Nat /\ batchStart <= index /\ batchStart >= Size
          /\ Len(tick) = Smaller(index, Size)
      BY DEF LoopInv
    <3>4. Size \in Nat
      BY <3>2
    <3> QED  BY <2>1, <3>3, <3>4 DEF Smaller
  <2>3. /\ curve = <<>> => returns = <<>>
        /\ Len(curve) >= 2 /\ curve[1] > 0 => returns # <<>>
        /\ returns # <<>> =>
              /\ sharpe \in [n: Int, sum: Int, spread: Int]
              /\ sharpe.spread > 0 /\ sharpe.n > 0
              /\ IF \A i, j \in DOMAIN returns : returns[i] = returns[j]
                   THEN sharpe = NoSharpe
                   ELSE /\ sharpe.sum = mean
                        /\ sharpe.spread = PlainSum([i \in DOMAIN returns |->
                               (n * returns[i] - mean) * (n * returns[i] - mean)])
    BY <2>1, SharpeOf
  <2>4. curve # <<>> => gain \in Int /\ Last(curve) = curve[Len(curve)] /\ Len(curve) \in 1..Len(curve)
    BY <2>1 DEF Last
  <2>5. curve # <<>> => worst \in [drop: Int, of: Int]
    BY <2>1, WorstLoss
  <2>6. Measured = IF returns = <<>> THEN Claimed
                   ELSE [sharpe |-> sharpe, drawdown |-> worst, gain |-> gain]
    BY DEF Measured
  <2> HIDE DEF returns, sharpe, worst, gain
  <2>7. Measured # Claimed <=> returns # <<>>
    <3> SUFFICES ASSUME returns # <<>> PROVE Measured # Claimed
      BY <2>6
    <3>1. [sharpe |-> sharpe, drawdown |-> worst, gain |-> gain]
              \in [sharpe: [n: Int, sum: Int, spread: Int],
                   drawdown: [drop: Int, of: Int], gain: Int]
      BY <2>3, <2>4, <2>5
    <3> QED  BY <2>6, <3>1, ClaimedAssumption
  <2>8. returns # <<>> => /\ Measured.sharpe = sharpe /\ Measured.drawdown = worst
                          /\ Measured.gain = gain /\ curve # <<>>
    BY <2>3, <2>6
  <2>9. SharpeIsMeasured
    <3> SUFFICES ASSUME phase = "done", Size >= 2, curve[1] > 0
                 PROVE  /\ Measured # Claimed
                        /\ Measured.sharpe.spread > 0 /\ Measured.sharpe.n > 0
                        /\ IF \A i, j \in DOMAIN returns : returns[i] = returns[j]
                             THEN Measured.sharpe = NoSharpe
                             ELSE /\ Measured.sharpe.sum = mean
                                  /\ Measured.sharpe.spread = PlainSum([i \in DOMAIN returns |->
                                         (n * returns[i] - mean) * (n * returns[i] - mean)])
      BY DEF SharpeIsMeasured, returns
    <3>1. returns # <<>> /\ Measured # Claimed /\ Measured.sharpe = sharpe
      BY <2>2, <2>3, <2>7, <2>8
    <3> HIDE DEF n, mean
    <3> QED  BY <2>3, <3>1
  <2>10. DrawdownIsWorstLoss
    <3> DEFINE Loss(i, j) == [drop |-> curve[i] - curve[j], of |-> curve[i]]
               pairs == {p \in (DOMAIN curve) \X (DOMAIN curve) : p[1] <= p[2]}
    <3> SUFFICES ASSUME phase = "done", Measured # Claimed, \A i \in DOMAIN curve : curve[i] > 0
                 PROVE  /\ \A p \in pairs : ~Exceeds(Loss(p[1], p[2]), Measured.drawdown)
                        /\ \E p \in pairs : ~Exceeds(Measured.drawdown, Loss(p[1], p[2]))
                        /\ fills = <<>> => Measured.gain = 0 /\ Measured.drawdown.drop = 0
      BY DEF DrawdownIsWorstLoss
    <3>1. curve # <<>> /\ Measured.drawdown = worst /\ Measured.gain = gain
      BY <2>7, <2>8
    <3>2. /\ \A i, j \in DOMAIN curve : i <= j => ~Exceeds(Loss(i, j), worst)
          /\ \E i, j \in DOMAIN curve : i <= j /\ ~Exceeds(worst, Loss(i, j))
          /\ (\A i, j \in DOMAIN curve : curve[i] = curve[j]) => worst.drop = 0
      BY <2>1, <3>1, WorstLoss DEF worst
    <3> HIDE DEF Loss
    <3>3. \A p \in pairs : ~Exceeds(Loss(p[1], p[2]), worst)
      BY <3>2
    <3>4. \E p \in pairs : ~Exceeds(worst, Loss(p[1], p[2]))
      <4>1. PICK i \in DOMAIN curve, j \in DOMAIN curve : i <= j /\ ~Exceeds(worst, Loss(i, j))
        BY <3>2
      <4>2. <<i, j>> \in pairs /\ <<i, j>>[1] = i /\ <<i, j>>[2] = j
        BY <4>1
      <4> QED  BY <4>1, <4>2
    <3>5. fills = <<>> => gain = 0 /\ worst.drop = 0
      <4> SUFFICES ASSUME fills = <<>> PROVE gain = 0 /\ worst.drop = 0
        OBVIOUS
      <4>1. \A i \in DOMAIN curve : curve[i] = 2 * Capital
        BY DEF MatchingInv, Untraded
      <4>2. Last(curve) = 2 * Capital
        BY <2>1, <2>4, <3>1, <4>1
      <4> QED  BY <2>1, <3>2, <4>1, <4>2 DEF gain
    <3> QED  BY <3>1, <3>3, <3>4, <3>5
  <2> QED  BY <2>9, <2>10
<1> HIDE DEF Costs
<1> QED  BY <1>1, <1>2, <1>3, <1>4, <1>5, <1>6, <1>7, PTL DEF EngineSpec
================================================================================
