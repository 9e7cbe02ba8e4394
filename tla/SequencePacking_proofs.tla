---------------------- MODULE SequencePacking_proofs ----------------------
(***************************************************************************)
(* What packing promises, for any jobs, time levels, bands and channels:   *)
(* PackInv says that what there is was made of the job, and each part of   *)
(* PacksRight then follows from what the packing operators return.  Those  *)
(* that fold over the references are followed along the trace of their     *)
(* steps, which is a function of how many references have been placed.     *)
(***************************************************************************)
EXTENDS SequencePacking, SequenceTheorems, WellFoundedInduction, FiniteSetTheorems, TLAPS

-----------------------------------------------------------------------------
(* Division.                                                               *)

\* Quotient and remainder.
LEMMA Divided ==
  ASSUME NEW a \in Int, NEW b \in Nat \ {0}
  PROVE  a \div b \in Int /\ a % b \in Int /\ 0 <= a % b /\ a % b < b /\ a = b * (a \div b) + (a % b)
<1>1. a \div b \in Int BY SMTT(30)
<1>2. a % b \in 0 .. b - 1 BY SMTT(30)
<1>3. a = b * (a \div b) + (a % b) BY SMTT(30)
<1>4. QED BY <1>1, <1>2, <1>3

\* There is one quotient and one remainder.
LEMMA DividedOnce ==
  ASSUME NEW b \in Nat \ {0}, NEW q \in Int, NEW r \in Int, 0 <= r, r < b
  PROVE  (b * q + r) \div b = q /\ (b * q + r) % b = r
BY SMTT(30)

\* The quotient of naturals is a natural, and keeps their order.
LEMMA DividedNat ==
  ASSUME NEW a \in Nat, NEW b \in Nat \ {0}
  PROVE  a \div b \in Nat /\ a % b \in Nat
<1>1. a \div b \in Int /\ a % b \in Nat /\ a % b < b /\ a = b * (a \div b) + (a % b) BY Divided
<1> DEFINE q == a \div b
<1>2. q >= 0
  <2> SUFFICES ASSUME q < 0 PROVE FALSE BY <1>1
  <2>1. b * q <= b * (-1)
    <3> HIDE DEF q
    <3>1. q \in Int /\ q <= -1 BY <1>1 DEF q
    <3>2. QED BY <3>1
  <2>2. QED BY <1>1, <2>1
<1>3. QED BY <1>1, <1>2

\* A product grows with a factor.
LEMMA ProductBound ==
  ASSUME NEW b \in Nat, NEW x \in Int, NEW y \in Int, x <= y
  PROVE  b * x \in Int /\ b * y \in Int /\ b * x <= b * y
OBVIOUS

\* Products of integers, spread out.
LEMMA Spread ==
  ASSUME NEW a \in Int, NEW b \in Int, NEW c \in Int
  PROVE  a * b \in Int /\ a * b = b * a /\ a * (b + c) = a * b + a * c /\ a * (b - c) = a * b - a * c
         /\ a * (b * c) = (a * b) * c
OBVIOUS

\* Quotients keep the order of what is divided.
LEMMA DividedOrder ==
  ASSUME NEW b \in Nat \ {0}, NEW x \in Int, NEW y \in Int, x <= y
  PROVE  x \div b <= y \div b
<1> DEFINE p == x \div b
           q == y \div b
<1>1. p \in Int /\ q \in Int /\ b * p <= x /\ y < b * q + b BY Divided
<1> HIDE DEF p, q
<1>2. SUFFICES ASSUME q + 1 <= p PROVE FALSE BY <1>1 DEF p, q
<1>3. b * (q + 1) <= b * p BY <1>1, <1>2, ProductBound
<1>4. QED BY <1>1, <1>3, Spread

\* A remainder by a multiple, and a quotient in two steps.
DividesTwice(a, b, c) ==
  /\ b * c \in Nat \ {0}
  /\ (a % (b * c)) % c = a % c
  /\ (a % (b * c)) \div c = (a \div c) % b
  /\ a \div (b * c) = (a \div c) \div b

\* Dividing twice is dividing by the product.
LEMMA DividedTwice ==
  ASSUME NEW a \in Int, NEW b \in Nat \ {0}, NEW c \in Nat \ {0}
  PROVE  DividesTwice(a, b, c)
<1> DEFINE q == a \div c
           r == a % c
           p == q \div b
           s == q % b
<1>1. q \in Int /\ r \in Int /\ 0 <= r /\ r < c /\ a = c * q + r BY Divided
<1>2. p \in Int /\ s \in Int /\ 0 <= s /\ s < b /\ q = b * p + s BY <1>1, Divided
<1>3. b * c \in Nat \ {0} OBVIOUS
<1> DEFINE bc == b * c
           u == c * s + r
<1> HIDE DEF p, q, r, s
<1>4. c * s \in Int /\ 0 <= c * s /\ c * s <= c * (b - 1)
  <2>1. c * 0 = 0 OBVIOUS
  <2>2. QED BY <1>2, <2>1, ProductBound
<1>5. c * (b - 1) = b * c - c BY Spread
<1>6. u \in Int /\ 0 <= u /\ u < bc BY <1>1, <1>3, <1>4, <1>5
<1>7. a = bc * p + u
  <2>1. c * q = c * (b * p) + c * s BY <1>2, Spread
  <2>2. c * (b * p) = bc * p BY <1>2, Spread
  <2>3. QED BY <1>1, <2>1, <2>2, <1>2, <1>3
<1> HIDE DEF bc
<1>8. a \div bc = p /\ a % bc = u
  <2>1. bc \in Nat \ {0} BY <1>3 DEF bc
  <2>2. QED BY <2>1, <1>6, <1>7, <1>2, DividedOnce
<1>9. u \div c = s /\ u % c = r BY <1>1, <1>2, DividedOnce
<1>10. QED BY <1>8, <1>9, <1>3 DEF bc, p, q, r, s, DividesTwice

-----------------------------------------------------------------------------
(* Sets of numbers.                                                        *)

\* Every set of naturals that is not empty has a least element.
LEMMA HasLeast ==
  ASSUME NEW S, S \subseteq Nat, S # {}
  PROVE  \E m \in S : \A y \in S : m <= y
<1>1. IsWellFoundedOn(OpToRel(<, Nat), Nat) BY NatLessThanWellFounded
<1>2. PICK m \in S : \A y \in S : ~(<<y, m>> \in OpToRel(<, Nat)) BY <1>1, WFMin
<1>3. \A y \in S : ~(y < m) BY <1>2 DEF OpToRel
<1>4. QED BY <1>3

\* A set that has 0 and with every number below n the next one has n.
LEMMA Reaches ==
  ASSUME NEW n \in Nat, NEW S, 0 \in S, \A k \in 0 .. n - 1 : k \in S => k + 1 \in S
  PROVE  \A k \in 0 .. n : k \in S
<1> DEFINE missing == {k \in 0 .. n : k \notin S}
<1>1. ASSUME missing # {} PROVE FALSE
  <2>1. missing \subseteq Nat OBVIOUS
  <2>2. PICK least \in missing : \A y \in missing : least <= y BY <1>1, <2>1, HasLeast
  <2>3. least \in 0 .. n /\ least \notin S BY <2>2
  <2>4. least # 0 /\ least - 1 \in 0 .. n - 1 BY <2>3
  <2>5. least - 1 \in S
    <3>1. least - 1 \notin missing BY <2>2, <2>4
    <3>2. QED BY <2>4, <3>1
  <2>6. QED BY <2>3, <2>4, <2>5
<1>2. QED BY <1>1

\* The greatest and the least of a set are what they are known to be.
LEMMA GreatestIs ==
  ASSUME NEW S, NEW m \in S, S \subseteq Int, \A y \in S : m >= y
  PROVE  Max(S) = m
<1>1. Max(S) \in S /\ \A y \in S : Max(S) >= y BY DEF Max
<1>2. Max(S) \in Int /\ m \in Int /\ Max(S) >= m /\ m >= Max(S) BY <1>1
<1> DEFINE found == Max(S)
<1> HIDE DEF found
<1>3. QED BY <1>2 DEF found

\* The least of a set is the one that is known to be.
LEMMA LeastIs ==
  ASSUME NEW S, NEW m \in S, S \subseteq Int, \A y \in S : m <= y
  PROVE  Min(S) = m
<1>1. Min(S) \in S /\ \A y \in S : Min(S) <= y BY DEF Min
<1>2. Min(S) \in Int /\ m \in Int /\ Min(S) <= m /\ m <= Min(S) BY <1>1
<1> DEFINE found == Min(S)
<1> HIDE DEF found
<1>3. QED BY <1>2 DEF found

\* The larger of two.
LEMMA MaxOfTwo ==
  ASSUME NEW a \in Int, NEW b \in Int
  PROVE  Max({a, b}) = IF a >= b THEN a ELSE b
<1>1. CASE a >= b BY <1>1, GreatestIs
<1>2. CASE ~(a >= b) BY <1>2, GreatestIs
<1>3. QED BY <1>1, <1>2

\* The smaller of two.
LEMMA MinOfTwo ==
  ASSUME NEW a \in Int, NEW b \in Int
  PROVE  Min({a, b}) = IF a <= b THEN a ELSE b
<1>1. CASE a <= b BY <1>1, LeastIs
<1>2. CASE ~(a <= b) BY <1>2, LeastIs
<1>3. QED BY <1>1, <1>2

-----------------------------------------------------------------------------
(* Folds over the references.                                              *)

\* A list, whatever its elements.
IsList(rs) == Len(rs) \in Nat /\ DOMAIN rs = 1 .. Len(rs)

\* What is placed, and how many rows are counted, after each reference.
IsPlacing(P, t, rs, total) ==
  /\ P[0] = NothingPlaced(t, total)
  /\ \A k \in 1 .. Len(rs) : P[k] = Place(P[k - 1], rs[k], t)
\* The counts of ReferencedLayout's fold, one for each number of references.
IsCounting(N, rs) ==
  /\ N[0] = [video |-> 0, audio |-> 0]
  /\ \A k \in 1 .. Len(rs) : N[k] = [video |-> N[k - 1].video + RefVideoRows(rs[k]),
                                     audio |-> N[k - 1].audio + RefAudioRows(rs[k])]

\* The greatest of a set of the first k + 1 positions is k + 1 or among the first k.
LEMMA GreatestPosition ==
  ASSUME NEW k \in Nat, NEW s \in SUBSET (1 .. k + 1), s # {}
  PROVE  /\ Max(s) \in s
         /\ s \ {Max(s)} \in SUBSET (1 .. k)
         /\ k + 1 \in s => Max(s) = k + 1
         /\ k + 1 \notin s => s \in SUBSET (1 .. k)
<1>1. CASE k + 1 \in s
  <2>1. Max(s) = k + 1
    <3>1. s \subseteq Int /\ \A y \in s : k + 1 >= y OBVIOUS
    <3>2. QED BY <1>1, <3>1, GreatestIs
  <2>2. QED BY <1>1, <2>1
<1>2. CASE k + 1 \notin s
  <2>1. s \in SUBSET (1 .. k) BY <1>2
  <2> DEFINE above == {n \in Nat : \A y \in s : y <= n}
  <2>2. k \in above /\ above \subseteq Nat BY <2>1
  <2>3. PICK m \in above : \A n \in above : m <= n BY <2>2, HasLeast
  <2>4. m \in s
    <3>1. CASE m = 0
      <4>1. PICK y \in s : TRUE OBVIOUS
      <4>2. y \in Nat /\ y <= 0 /\ y >= 1 BY <2>1, <2>3, <3>1
      <4>3. QED BY <4>2
    <3>2. CASE m # 0
      <4>1. m - 1 \in Nat /\ m - 1 \notin above BY <2>3, <3>2
      <4>2. PICK y \in s : ~(y <= m - 1) BY <4>1
      <4>3. y = m BY <4>1, <4>2, <2>1, <2>3
      <4>4. QED BY <4>3
    <3>3. QED BY <3>1, <3>2
  <2>5. Max(s) = m
    <3>1. s \subseteq Int /\ \A y \in s : m >= y BY <2>1, <2>3
    <3>2. QED BY <2>4, <3>1, GreatestIs
  <2>6. QED BY <2>1, <2>4, <2>5, <1>2
<1>3. QED BY <1>1, <1>2

\* The fold of AllPlaced has the trace of its steps.
LEMMA PlacingExists ==
  ASSUME NEW t, NEW rs, NEW total, IsList(rs)
  PROVE  \E P : IsPlacing(P, t, rs, total) /\ AllPlaced(t, rs, total) = P[Len(rs)]
<1> DEFINE n == Len(rs)
           base == NothingPlaced(t, total)
           Op(p, i) == Place(p, rs[i], t)
           Next1(g, s) == IF s = {} THEN base ELSE Op(g[s \ {Max(s)}], Max(s))
           F(g, k) == [s \in SUBSET (1 .. k) |-> Next1(g, s)]
           Good == {k \in 0 .. n : \E g : g = F(g, k)}
<1>0. n \in Nat /\ DOMAIN rs = 1 .. n BY DEF IsList
<1>1. AllPlaced(t, rs, total) = (CHOOSE g : g = F(g, n))[1 .. n]
  BY <1>0 DEF AllPlaced, FoldLeft, MapThenFoldSet
<1> HIDE DEF n, base, Op
<1>2. 0 \in Good
  <2> DEFINE none == [s \in SUBSET (1 .. 0) |-> base]
  <2>1. none = F(none, 0)
    <3>1. \A s \in SUBSET (1 .. 0) : s = {} OBVIOUS
    <3>2. QED BY <3>1
  <2> HIDE DEF none, F
  <2>2. QED BY <2>1, <1>0
<1>3. ASSUME NEW k \in 0 .. n - 1, k \in Good PROVE k + 1 \in Good
  <2>1. PICK g : g = F(g, k) BY <1>3
  <2> DEFINE h == [s \in SUBSET (1 .. k + 1) |->
                     IF k + 1 \in s THEN Op(g[s \ {k + 1}], k + 1) ELSE g[s]]
  <2>2. h = F(h, k + 1)
    <3> SUFFICES ASSUME NEW s \in SUBSET (1 .. k + 1) PROVE h[s] = Next1(h, s) OBVIOUS
    <3>0. k \in Nat BY <1>0
    <3>1. CASE s = {} BY <2>1, <3>1
    <3>2. CASE s # {}
      <4> DEFINE rest == s \ {Max(s)}
      <4>1. Max(s) \in s /\ rest \in SUBSET (1 .. k) BY <3>0, <3>2, GreatestPosition
      <4>2. h[rest] = g[rest]
        <5>1. k + 1 \notin rest /\ rest \in SUBSET (1 .. k + 1) BY <4>1, <3>0
        <5> HIDE DEF rest
        <5>2. QED BY <5>1
      <4>3. CASE k + 1 \in s BY <4>2, <4>3, <3>0, <3>2, GreatestPosition
      <4>4. CASE k + 1 \notin s
        <5>1. s \in SUBSET (1 .. k) BY <3>0, <3>2, <4>4, GreatestPosition
        <5>2. g[s] = Next1(g, s)
          <6> HIDE DEF Next1
          <6>1. QED BY <2>1, <5>1
        <5>3. QED BY <5>2, <4>2, <4>4, <3>2
      <4>5. QED BY <4>3, <4>4
    <3>3. QED BY <3>1, <3>2
  <2>3. k + 1 \in 0 .. n BY <1>0
  <2> HIDE DEF h, F
  <2>4. QED BY <2>2, <2>3
<1>4. n \in Good
  <2> HIDE DEF Good
  <2>1. \A k \in 0 .. n : k \in Good BY <1>0, <1>2, <1>3, Reaches
  <2>2. QED BY <2>1, <1>0
<1> DEFINE iter == CHOOSE g : g = F(g, n)
           P == [k \in 0 .. n |-> iter[1 .. k]]
<1>5. iter = F(iter, n)
  <2>1. \E g : g = F(g, n) BY <1>4
  <2> HIDE DEF F
  <2>2. QED BY <2>1
<1> HIDE DEF iter
<1>6. P[0] = base
  <2>1. {} \in SUBSET (1 .. n) /\ 1 .. 0 = {} OBVIOUS
  <2>2. iter[{}] = base BY <2>1, <1>5
  <2>3. QED BY <2>1, <2>2, <1>0
<1>7. ASSUME NEW k \in 1 .. n PROVE P[k] = Op(P[k - 1], k)
  <2> DEFINE s == 1 .. k
  <2>1. s \in SUBSET (1 .. n) /\ s # {} /\ Max(s) = k
    <3>1. k \in s /\ s \subseteq Int /\ \A y \in s : k >= y OBVIOUS
    <3>2. Max(s) = k BY <3>1, GreatestIs
    <3>3. QED BY <1>0, <3>1, <3>2
  <2>2. s \ {k} = 1 .. k - 1 OBVIOUS
  <2>3. iter[s] = Op(iter[1 .. k - 1], k)
    <3> HIDE DEF s
    <3>1. QED BY <1>5, <2>1, <2>2
  <2>4. QED BY <2>3, <1>0
<1>8. IsPlacing(P, t, rs, total)
  <2> HIDE DEF P
  <2>1. QED BY <1>6, <1>7 DEF IsPlacing, n, base, Op
<1>9. AllPlaced(t, rs, total) = P[n] BY <1>0, <1>1 DEF iter
<1> HIDE DEF P
<1>10. QED BY <1>8, <1>9 DEF n

\* So has the fold of Counted.
LEMMA CountingExists ==
  ASSUME NEW rs, IsList(rs)
  PROVE  \E N : IsCounting(N, rs) /\ Counted(rs) = N[Len(rs)]
<1> DEFINE n == Len(rs)
           base == [video |-> 0, audio |-> 0]
           Op(p, i) == [video |-> p.video + RefVideoRows(rs[i]), audio |-> p.audio + RefAudioRows(rs[i])]
           Next1(g, s) == IF s = {} THEN base ELSE Op(g[s \ {Max(s)}], Max(s))
           F(g, k) == [s \in SUBSET (1 .. k) |-> Next1(g, s)]
           Good == {k \in 0 .. n : \E g : g = F(g, k)}
<1>0. n \in Nat /\ DOMAIN rs = 1 .. n BY DEF IsList
<1>1. Counted(rs) = (CHOOSE g : g = F(g, n))[1 .. n] BY <1>0 DEF Counted, FoldLeft, MapThenFoldSet
<1> HIDE DEF n, base, Op
<1>2. 0 \in Good
  <2> DEFINE none == [s \in SUBSET (1 .. 0) |-> base]
  <2>1. none = F(none, 0)
    <3>1. \A s \in SUBSET (1 .. 0) : s = {} OBVIOUS
    <3>2. QED BY <3>1
  <2> HIDE DEF none, F
  <2>2. QED BY <2>1, <1>0
<1>3. ASSUME NEW k \in 0 .. n - 1, k \in Good PROVE k + 1 \in Good
  <2>1. PICK g : g = F(g, k) BY <1>3
  <2> DEFINE h == [s \in SUBSET (1 .. k + 1) |->
                     IF k + 1 \in s THEN Op(g[s \ {k + 1}], k + 1) ELSE g[s]]
  <2>2. h = F(h, k + 1)
    <3> SUFFICES ASSUME NEW s \in SUBSET (1 .. k + 1) PROVE h[s] = Next1(h, s) OBVIOUS
    <3>0. k \in Nat BY <1>0
    <3>1. CASE s = {} BY <2>1, <3>1
    <3>2. CASE s # {}
      <4> DEFINE rest == s \ {Max(s)}
      <4>1. Max(s) \in s /\ rest \in SUBSET (1 .. k) BY <3>0, <3>2, GreatestPosition
      <4>2. h[rest] = g[rest]
        <5>1. k + 1 \notin rest /\ rest \in SUBSET (1 .. k + 1) BY <4>1, <3>0
        <5> HIDE DEF rest
        <5>2. QED BY <5>1
      <4>3. CASE k + 1 \in s BY <4>2, <4>3, <3>0, <3>2, GreatestPosition
      <4>4. CASE k + 1 \notin s
        <5>1. s \in SUBSET (1 .. k) BY <3>0, <3>2, <4>4, GreatestPosition
        <5>2. g[s] = Next1(g, s)
          <6> HIDE DEF Next1
          <6>1. QED BY <2>1, <5>1
        <5>3. QED BY <5>2, <4>2, <4>4, <3>2
      <4>5. QED BY <4>3, <4>4
    <3>3. QED BY <3>1, <3>2
  <2>3. k + 1 \in 0 .. n BY <1>0
  <2> HIDE DEF h, F
  <2>4. QED BY <2>2, <2>3
<1>4. n \in Good
  <2> HIDE DEF Good
  <2>1. \A k \in 0 .. n : k \in Good BY <1>0, <1>2, <1>3, Reaches
  <2>2. QED BY <2>1, <1>0
<1> DEFINE iter == CHOOSE g : g = F(g, n)
           P == [k \in 0 .. n |-> iter[1 .. k]]
<1>5. iter = F(iter, n)
  <2>1. \E g : g = F(g, n) BY <1>4
  <2> HIDE DEF F
  <2>2. QED BY <2>1
<1> HIDE DEF iter
<1>6. P[0] = base
  <2>1. {} \in SUBSET (1 .. n) /\ 1 .. 0 = {} OBVIOUS
  <2>2. iter[{}] = base BY <2>1, <1>5
  <2>3. QED BY <2>1, <2>2, <1>0
<1>7. ASSUME NEW k \in 1 .. n PROVE P[k] = Op(P[k - 1], k)
  <2> DEFINE s == 1 .. k
  <2>1. s \in SUBSET (1 .. n) /\ s # {} /\ Max(s) = k
    <3>1. k \in s /\ s \subseteq Int /\ \A y \in s : k >= y OBVIOUS
    <3>2. Max(s) = k BY <3>1, GreatestIs
    <3>3. QED BY <1>0, <3>1, <3>2
  <2>2. s \ {k} = 1 .. k - 1 OBVIOUS
  <2>3. iter[s] = Op(iter[1 .. k - 1], k)
    <3> HIDE DEF s
    <3>1. QED BY <1>5, <2>1, <2>2
  <2>4. QED BY <2>3, <1>0
<1>8. IsCounting(P, rs)
  <2> HIDE DEF P
  <2>1. QED BY <1>6, <1>7 DEF IsCounting, n, base, Op
<1>9. Counted(rs) = P[n] BY <1>0, <1>1 DEF iter
<1> HIDE DEF P
<1>10. QED BY <1>8, <1>9 DEF n

\* The references of a job.
IsRefs(rs) == IsList(rs) /\ \A i \in DOMAIN rs : IsReference(rs[i])

\* A reference has so many rows of each kind.
LEMMA RowsOfReference ==
  ASSUME NEW r, IsReference(r)
  PROVE  RefVideoRows(r) \in Nat /\ RefAudioRows(r) \in Nat
<1>1. {r.frames, r.height, r.width, r.audio} \subseteq Nat BY DEF IsReference
<1> DEFINE a == r.height \div 2
           b == r.width \div 2
<1>2. a \in Nat /\ b \in Nat BY <1>1, DividedNat
<1> HIDE DEF a, b
<1>3. r.frames * a * b \in Nat BY <1>1, <1>2
<1>4. QED BY <1>1, <1>3 DEF RefVideoRows, RefAudioRows, a, b

\* Counts are naturals and grow.
LEMMA CountsAreNaturals ==
  ASSUME NEW N, NEW rs, IsRefs(rs), IsCounting(N, rs)
  PROVE  /\ \A k \in 0 .. Len(rs) : N[k].video \in Nat /\ N[k].audio \in Nat
         /\ \A k \in 0 .. Len(rs) : N[k] = [video |-> N[k].video, audio |-> N[k].audio]
<1> DEFINE Good == {k \in 0 .. Len(rs) : /\ N[k].video \in Nat /\ N[k].audio \in Nat
                                        /\ N[k] = [video |-> N[k].video, audio |-> N[k].audio]}
<1>0. Len(rs) \in Nat BY DEF IsRefs, IsList
<1>1. 0 \in Good BY <1>0 DEF IsCounting
<1>2. ASSUME NEW k \in 0 .. Len(rs) - 1, k \in Good PROVE k + 1 \in Good
  <2> DEFINE j == k + 1
  <2>1. j \in 1 .. Len(rs) /\ j \in 0 .. Len(rs) /\ j - 1 = k BY <1>0
  <2> HIDE DEF j
  <2>2. N[j] = [video |-> N[k].video + RefVideoRows(rs[j]), audio |-> N[k].audio + RefAudioRows(rs[j])]
    BY <2>1 DEF IsCounting
  <2>3. RefVideoRows(rs[j]) \in Nat /\ RefAudioRows(rs[j]) \in Nat
    BY <2>1, RowsOfReference DEF IsRefs, IsList
  <2>4. N[j].video \in Nat /\ N[j].audio \in Nat BY <2>2, <2>3, <1>2
  <2>5. QED BY <2>1, <2>2, <2>4 DEF j
<1> HIDE DEF Good
<1>3. \A k \in 0 .. Len(rs) : k \in Good BY <1>0, <1>1, <1>2, Reaches
<1>4. QED BY <1>3 DEF Good

\* The count over the first of the references.
LEMMA CountOfFirst ==
  ASSUME NEW N, NEW rs, IsRefs(rs), IsCounting(N, rs), NEW i \in 1 .. Len(rs)
  PROVE  Counted(SubSeq(rs, 1, i - 1)) = N[i - 1]
<1> DEFINE s == SubSeq(rs, 1, i - 1)
<1>0. Len(rs) \in Nat /\ i - 1 \in Nat BY DEF IsRefs, IsList
<1>1. Len(s) = i - 1 /\ DOMAIN s = 1 .. i - 1 /\ \A k \in 1 .. i - 1 : s[k] = rs[k] BY <1>0
<1> HIDE DEF s
<1>2. IsList(s) BY <1>0, <1>1 DEF IsList
<1>3. PICK M : IsCounting(M, s) /\ Counted(s) = M[Len(s)] BY <1>2, CountingExists
<1> DEFINE Good == {k \in 0 .. i - 1 : M[k] = N[k]}
<1>4. 0 \in Good BY <1>0, <1>3 DEF IsCounting
<1>5. ASSUME NEW k \in 0 .. (i - 1) - 1, k \in Good PROVE k + 1 \in Good
  <2> DEFINE j == k + 1
  <2>1. j \in 1 .. Len(rs) /\ j \in 1 .. Len(s) /\ j \in 0 .. i - 1 /\ j - 1 = k BY <1>0, <1>1
  <2> HIDE DEF j
  <2>2. N[j] = [video |-> N[k].video + RefVideoRows(rs[j]), audio |-> N[k].audio + RefAudioRows(rs[j])]
    BY <2>1 DEF IsCounting
  <2>3. M[j] = [video |-> M[k].video + RefVideoRows(s[j]), audio |-> M[k].audio + RefAudioRows(s[j])]
    BY <2>1, <1>3 DEF IsCounting
  <2>4. M[k] = N[k] /\ s[j] = rs[j] BY <1>1, <1>5, <2>1
  <2>5. QED BY <2>1, <2>2, <2>3, <2>4 DEF j
<1> HIDE DEF Good
<1>6. \A k \in 0 .. i - 1 : k \in Good BY <1>0, <1>4, <1>5, Reaches
<1>7. i - 1 \in 0 .. i - 1 BY <1>0
<1>8. QED BY <1>1, <1>3, <1>6, <1>7 DEF Good, s

-----------------------------------------------------------------------------
(* Lists of rows.                                                          *)

\* A list in order, the rows that segments lie on, and a segment.
Increasing(s) == \A i, j \in 1 .. Len(s) : i < j => s[i] < s[j]
Ground(segments) == UNION {ToSet(Rows(g.first, g.rows)) : g \in ToSet(segments)}
IsSegment(g) == g.first \in Nat /\ g.rows \in Nat /\ g = [first |-> g.first, rows |-> g.rows]

\* Rows from one on are a list of these rows in order.
LEMMA RowsAreSequence ==
  ASSUME NEW f \in Nat, NEW n \in Nat
  PROVE  /\ Rows(f, n) \in Seq(Nat) /\ Len(Rows(f, n)) = n
         /\ \A i \in 1 .. n : Rows(f, n)[i] = f + i - 1
         /\ ToSet(Rows(f, n)) = f .. f + n - 1
         /\ Increasing(Rows(f, n))
<1> DEFINE s == Rows(f, n)
<1>1. s = [i \in 1 .. n |-> f + i - 1] BY DEF Rows
<1>2. s \in Seq(Nat) /\ Len(s) = n /\ DOMAIN s = 1 .. n /\ \A i \in 1 .. n : s[i] = f + i - 1
  BY <1>1
<1> HIDE DEF s
<1>3. ToSet(s) \subseteq f .. f + n - 1 BY <1>2 DEF ToSet
<1>4. ASSUME NEW x \in f .. f + n - 1 PROVE x \in ToSet(s)
  <2>1. (x - f) + 1 \in 1 .. n /\ s[(x - f) + 1] = x BY <1>2
  <2>2. QED BY <2>1, <1>2 DEF ToSet
<1>5. Increasing(s) BY <1>2 DEF Increasing
<1>6. QED BY <1>2, <1>3, <1>4, <1>5 DEF s

\* A joined list has the elements of both.
LEMMA JoinedSets ==
  ASSUME NEW S, NEW s \in Seq(S), NEW u \in Seq(S)
  PROVE  ToSet(s \o u) = ToSet(s) \cup ToSet(u)
<1> DEFINE j == s \o u
<1>1. /\ DOMAIN j = 1 .. Len(s) + Len(u)
      /\ \A i \in 1 .. Len(s) : j[i] = s[i]
      /\ \A i \in 1 .. Len(u) : j[Len(s) + i] = u[i]
  OBVIOUS
<1>2. DOMAIN s = 1 .. Len(s) /\ DOMAIN u = 1 .. Len(u) /\ Len(s) \in Nat /\ Len(u) \in Nat OBVIOUS
<1> HIDE DEF j
<1>3. ASSUME NEW x \in ToSet(s) \cup ToSet(u) PROVE x \in ToSet(j)
  <2>1. CASE x \in ToSet(s) BY <1>1, <1>2, <2>1 DEF ToSet
  <2>2. CASE x \in ToSet(u)
    <3>1. PICK i \in 1 .. Len(u) : x = u[i] BY <1>2, <2>2 DEF ToSet
    <3>2. Len(s) + i \in DOMAIN j /\ j[Len(s) + i] = x BY <1>1, <1>2, <3>1
    <3>3. QED BY <3>2 DEF ToSet
  <2>3. QED BY <1>3, <2>1, <2>2
<1>4. ASSUME NEW x \in ToSet(j) PROVE x \in ToSet(s) \cup ToSet(u)
  <2>1. PICK i \in DOMAIN j : x = j[i] BY DEF ToSet
  <2>2. CASE i <= Len(s) BY <1>1, <1>2, <2>1, <2>2 DEF ToSet
  <2>3. CASE i > Len(s)
    <3>1. i - Len(s) \in 1 .. Len(u) /\ Len(s) + (i - Len(s)) = i BY <1>1, <1>2, <2>3
    <3>2. x = u[i - Len(s)] BY <1>1, <2>1, <3>1
    <3>3. QED BY <1>2, <3>1, <3>2 DEF ToSet
  <2>4. QED BY <1>1, <1>2, <2>2, <2>3
<1>5. QED BY <1>3, <1>4 DEF j

\* Two lists in order are one when the second lies behind the first.
LEMMA IncreasingJoined ==
  ASSUME NEW s \in Seq(Nat), NEW u \in Seq(Nat), Increasing(s), Increasing(u),
         \A x \in ToSet(s), y \in ToSet(u) : x < y
  PROVE  Increasing(s \o u)
<1> DEFINE j == s \o u
<1>1. /\ Len(j) = Len(s) + Len(u)
      /\ \A i \in 1 .. Len(s) : j[i] = s[i]
      /\ \A i \in 1 .. Len(u) : j[Len(s) + i] = u[i]
  OBVIOUS
<1>2. DOMAIN s = 1 .. Len(s) /\ DOMAIN u = 1 .. Len(u) /\ Len(s) \in Nat /\ Len(u) \in Nat OBVIOUS
<1> HIDE DEF j
<1>3. ASSUME NEW a \in 1 .. Len(j), NEW b \in 1 .. Len(j), a < b PROVE j[a] < j[b]
  <2>1. CASE b <= Len(s)
    <3>1. a \in 1 .. Len(s) /\ b \in 1 .. Len(s) BY <1>1, <1>2, <1>3, <2>1
    <3>2. j[a] = s[a] /\ j[b] = s[b] /\ s[a] < s[b] BY <1>1, <1>3, <3>1 DEF Increasing
    <3>3. QED BY <3>2
  <2>2. CASE b > Len(s)
    <3>1. b - Len(s) \in 1 .. Len(u) /\ Len(s) + (b - Len(s)) = b BY <1>1, <1>2, <2>2
    <3>2. j[b] = u[b - Len(s)] /\ j[b] \in ToSet(u)
      <4>1. j[b] = u[b - Len(s)] BY <1>1, <3>1
      <4>2. QED BY <1>2, <3>1, <4>1 DEF ToSet
    <3>3. CASE a <= Len(s)
      <4>1. j[a] \in ToSet(s)
        <5>1. a \in DOMAIN s BY <1>1, <1>2, <3>3
        <5>2. j[a] = s[a] BY <1>1, <1>2, <5>1
        <5>3. QED BY <5>1, <5>2 DEF ToSet
      <4>2. QED BY <3>2, <4>1
    <3>4. CASE a > Len(s)
      <4>1. a - Len(s) \in 1 .. Len(u) /\ Len(s) + (a - Len(s)) = a BY <1>1, <1>2, <3>4
      <4>2. j[a] = u[a - Len(s)] /\ a - Len(s) < b - Len(s) BY <1>1, <1>2, <1>3, <4>1
      <4>3. QED BY <3>1, <3>2, <4>1, <4>2 DEF Increasing
    <3>5. QED BY <1>1, <1>2, <3>3, <3>4
  <2>3. QED BY <1>1, <1>2, <2>1, <2>2
<1>4. QED BY <1>3 DEF Increasing, j

\* Joined segments lie on the rows of both.
LEMMA GroundJoined ==
  ASSUME NEW S, NEW s \in Seq(S), NEW u \in Seq(S)
  PROVE  Ground(s \o u) = Ground(s) \cup Ground(u)
BY JoinedSets DEF Ground

\* One segment lies on its rows, none on none.
LEMMA GroundOfOne ==
  ASSUME NEW f \in Nat, NEW n \in Nat
  PROVE  Ground(<<[first |-> f, rows |-> n]>>) = f .. f + n - 1 /\ Ground(<<>>) = {}
<1>1. ToSet(<<[first |-> f, rows |-> n]>>) = {[first |-> f, rows |-> n]} BY DEF ToSet
<1>2. ToSet(<<>>) = {} BY DEF ToSet
<1>3. Ground(<<>>) = {} BY <1>2 DEF Ground
<1> DEFINE g == [first |-> f, rows |-> n]
<1>4. ToSet(Rows(g.first, g.rows)) = f .. f + n - 1 BY RowsAreSequence
<1>5. Ground(<<g>>) = ToSet(Rows(g.first, g.rows))
  <2>1. ToSet(<<g>>) = {g} BY <1>1
  <2> HIDE DEF g
  <2>2. QED BY <2>1 DEF Ground
<1>6. QED BY <1>3, <1>4, <1>5

-----------------------------------------------------------------------------
(* What is placed.                                                         *)

\* What segments are.
Segments == [first : Nat, rows : Nat]

\* After v video rows and a audio rows behind the text.
Laid(p, text, v, a) ==
  /\ p.next = text + v + a
  /\ p.sound \in Seq(Nat) /\ Len(p.sound) = a /\ Increasing(p.sound)
  /\ p.video \in Seq(Nat) /\ Len(p.video) = v /\ Increasing(p.video)
  /\ ToSet(p.sound) \cup ToSet(p.video) = text .. p.next - 1
  /\ ToSet(p.sound) \cap ToSet(p.video) = {}
  /\ p.segments \in Seq(Segments) /\ Ground(p.segments) = text .. p.next - 1

\* Every row of a set is before this one.
Below(S, f) == \A x \in S : x < f

\* Rows behind an increasing list.
LEMMA RowsJoined ==
  ASSUME NEW s \in Seq(Nat), Increasing(s), NEW f \in Nat, NEW n \in Nat, Below(ToSet(s), f)
  PROVE  /\ s \o Rows(f, n) \in Seq(Nat) /\ Len(s \o Rows(f, n)) = Len(s) + n
         /\ Increasing(s \o Rows(f, n))
         /\ ToSet(s \o Rows(f, n)) = ToSet(s) \cup (f .. f + n - 1)
<1> DEFINE u == Rows(f, n)
<1>1. u \in Seq(Nat) /\ Len(u) = n /\ ToSet(u) = f .. f + n - 1 /\ Increasing(u) BY RowsAreSequence
<1> HIDE DEF u
<1>2. \A x \in ToSet(s), y \in ToSet(u) : x < y
  <2>1. ToSet(s) \subseteq Nat BY DEF ToSet
  <2>2. QED BY <1>1, <2>1 DEF Below
<1>3. Increasing(s \o u) BY <1>1, <1>2, IncreasingJoined
<1>4. ToSet(s \o u) = ToSet(s) \cup ToSet(u) BY <1>1, JoinedSets
<1>5. s \o u \in Seq(Nat) /\ Len(s \o u) = Len(s) + Len(u) BY <1>1
<1>6. QED BY <1>1, <1>3, <1>4, <1>5 DEF u

\* A list u is the list s and n rows from row f on behind it.
Behind(u, s, f, n) ==
  /\ u \in Seq(Nat) /\ Len(u) = Len(s) + n /\ Increasing(u)
  /\ ToSet(u) = ToSet(s) \cup (f .. f + n - 1)
  /\ \A i \in 1 .. n : u[Len(s) + i] = f + i - 1

\* Rows behind a list in order.
LEMMA TargetBehind ==
  ASSUME NEW s \in Seq(Nat), Increasing(s), NEW f \in Nat, NEW n \in Nat, Below(ToSet(s), f)
  PROVE  Behind(s \o Rows(f, n), s, f, n)
<1> DEFINE r == Rows(f, n)
           u == s \o r
<1>1. u \in Seq(Nat) /\ Len(u) = Len(s) + n /\ Increasing(u) /\ ToSet(u) = ToSet(s) \cup (f .. f + n - 1)
  BY ZenonT(40), RowsJoined
<1>2. r \in Seq(Nat) /\ Len(r) = n /\ \A i \in 1 .. n : r[i] = f + i - 1 BY RowsAreSequence
<1> HIDE DEF r
<1>3. \A i \in 1 .. n : u[Len(s) + i] = r[i] BY <1>2
<1> HIDE DEF u
<1>4. Behind(u, s, f, n) BY ONLY <1>1, <1>2, <1>3 DEF Behind
<1>5. QED BY <1>4 DEF u, r

\* A segment that is there when it has rows adds these rows.
LEMMA SegmentsJoined ==
  ASSUME NEW s \in Seq(Segments), NEW f \in Nat, NEW n \in Nat, NEW c \in BOOLEAN, n > 0 => c
  PROVE  /\ s \o (IF c THEN <<[first |-> f, rows |-> n]>> ELSE <<>>) \in Seq(Segments)
         /\ Ground(s \o (IF c THEN <<[first |-> f, rows |-> n]>> ELSE <<>>)) = Ground(s) \cup (f .. f + n - 1)
<1>1. <<[first |-> f, rows |-> n]>> \in Seq(Segments) /\ <<>> \in Seq(Segments) BY DEF Segments
<1>2. CASE c
  <2> DEFINE one == <<[first |-> f, rows |-> n]>>
  <2>1. one \in Seq(Segments) /\ Ground(one) = f .. f + n - 1 BY <1>1, GroundOfOne
  <2> HIDE DEF one
  <2>2. s \o one \in Seq(Segments) /\ Ground(s \o one) = Ground(s) \cup Ground(one)
    BY <2>1, GroundJoined
  <2>3. QED BY <1>2, <2>1, <2>2 DEF one
<1>3. CASE ~c
  <2>1. f .. f + n - 1 = {} BY <1>3
  <2>2. s \o <<>> = s OBVIOUS
  <2>3. QED BY <1>3, <2>1, <2>2
<1>4. QED BY <1>2, <1>3

\* What placing a reference does to each part of what is placed.
LEMMA PlaceFields ==
  ASSUME NEW p, NEW r, NEW t
  PROVE  /\ Place(p, r, t).next = p.next + RefAudioRows(r) + RefVideoRows(r)
         /\ Place(p, r, t).clock = p.clock + Moves(r)
         /\ Place(p, r, t).sound = p.sound \o Rows(p.next, RefAudioRows(r))
         /\ Place(p, r, t).video = p.video \o Rows(p.next + RefAudioRows(r), RefVideoRows(r))
         /\ Place(p, r, t).segments =
              (p.segments
               \o (IF RefAudioRows(r) > 0 THEN <<[first |-> p.next, rows |-> RefAudioRows(r)]>> ELSE <<>>))
               \o (IF r.kind # "audio"
                   THEN <<[first |-> p.next + RefAudioRows(r), rows |-> RefVideoRows(r)]>> ELSE <<>>)
BY DEF Place

\* Placing a reference keeps what is laid in order, with its rows behind.
LEMMA LaidStep ==
  ASSUME NEW text \in Nat, NEW v \in Nat, NEW a \in Nat, NEW p, Laid(p, text, v, a),
         NEW r, IsReference(r), NEW t
  PROVE  Laid(Place(p, r, t), text, v + RefVideoRows(r), a + RefAudioRows(r))
<1> DEFINE q == Place(p, r, t)
           dv == RefVideoRows(r)
           da == RefAudioRows(r)
           f == p.next + da
<1>1. dv \in Nat /\ da \in Nat BY RowsOfReference
<1>2. r.kind = "audio" => dv = 0 BY DEF RefVideoRows
<1>3. /\ q.next = p.next + da + dv
      /\ q.sound = p.sound \o Rows(p.next, da)
      /\ q.video = p.video \o Rows(f, dv)
      /\ q.segments = (p.segments \o (IF da > 0 THEN <<[first |-> p.next, rows |-> da]>> ELSE <<>>))
                      \o (IF r.kind # "audio" THEN <<[first |-> f, rows |-> dv]>> ELSE <<>>)
  BY ZenonT(40), PlaceFields
<1> HIDE DEF q, dv, da
<1>4. p.next \in Nat /\ f \in Nat /\ p.next = text + v + a BY <1>1 DEF Laid
<1>5. \A x \in ToSet(p.sound) \cup ToSet(p.video) : x < p.next /\ x < f BY <1>1, <1>4 DEF Laid
<1> HIDE DEF f
<1>6. /\ q.sound \in Seq(Nat) /\ Len(q.sound) = a + da /\ Increasing(q.sound)
      /\ ToSet(q.sound) = ToSet(p.sound) \cup (p.next .. p.next + da - 1)
  <2>1. p.sound \in Seq(Nat) /\ Increasing(p.sound) /\ Len(p.sound) = a /\ Below(ToSet(p.sound), p.next)
    BY <1>5 DEF Laid, Below
  <2> DEFINE s == p.sound
             first == p.next
  <2> HIDE DEF s, first
  <2>2. s \in Seq(Nat) /\ Increasing(s) /\ first \in Nat /\ Below(ToSet(s), first)
    BY <1>4, <2>1 DEF s, first
  <2>3. /\ s \o Rows(first, da) \in Seq(Nat) /\ Len(s \o Rows(first, da)) = Len(s) + da
        /\ Increasing(s \o Rows(first, da))
        /\ ToSet(s \o Rows(first, da)) = ToSet(s) \cup (first .. first + da - 1)
    <3>1. da \in Nat BY <1>1
    <3>2. Behind(s \o Rows(first, da), s, first, da) BY ONLY <3>1, <2>2, TargetBehind
    <3>3. QED BY ONLY <3>2 DEF Behind
  <2>4. q.sound = s \o Rows(first, da) BY <1>3 DEF s, first
  <2>5. QED BY <2>1, <2>3, <2>4 DEF s, first
<1>7. /\ q.video \in Seq(Nat) /\ Len(q.video) = v + dv /\ Increasing(q.video)
      /\ ToSet(q.video) = ToSet(p.video) \cup (f .. f + dv - 1)
  <2>1. p.video \in Seq(Nat) /\ Increasing(p.video) /\ Len(p.video) = v /\ Below(ToSet(p.video), f)
    BY <1>5 DEF Laid, Below
  <2> DEFINE s == p.video
  <2> HIDE DEF s
  <2>2. s \in Seq(Nat) /\ Increasing(s) /\ Len(s) = v /\ Below(ToSet(s), f) BY <2>1 DEF s
  <2>3. /\ s \o Rows(f, dv) \in Seq(Nat) /\ Len(s \o Rows(f, dv)) = Len(s) + dv
        /\ Increasing(s \o Rows(f, dv))
        /\ ToSet(s \o Rows(f, dv)) = ToSet(s) \cup (f .. f + dv - 1)
    <3>1. dv \in Nat /\ f \in Nat BY <1>1, <1>4
    <3>2. Behind(s \o Rows(f, dv), s, f, dv) BY ONLY <3>1, <2>2, TargetBehind
    <3>3. QED BY ONLY <3>2 DEF Behind
  <2>4. q.video = s \o Rows(f, dv) BY <1>3 DEF s
  <2>5. QED BY <2>2, <2>3, <2>4 DEF s
<1>8. q.segments \in Seq(Segments)
      /\ Ground(q.segments) = (Ground(p.segments) \cup (p.next .. f - 1)) \cup (f .. f + dv - 1)
  <2> DEFINE m == p.segments \o (IF da > 0 THEN <<[first |-> p.next, rows |-> da]>> ELSE <<>>)
  <2>1. (da > 0) \in BOOLEAN /\ (r.kind # "audio") \in BOOLEAN /\ (dv > 0 => r.kind # "audio")
    BY <1>1, <1>2
  <2>2. m \in Seq(Segments) /\ Ground(m) = Ground(p.segments) \cup (p.next .. p.next + da - 1)
    <3>1. p.segments \in Seq(Segments) BY DEF Laid
    <3> DEFINE s == p.segments
               first == p.next
               c == da > 0
    <3> HIDE DEF s, first, c
    <3>2. s \in Seq(Segments) /\ first \in Nat /\ c \in BOOLEAN /\ (da > 0 => c)
      BY <1>4, <2>1, <3>1 DEF s, first, c
    <3>3. /\ s \o (IF c THEN <<[first |-> first, rows |-> da]>> ELSE <<>>) \in Seq(Segments)
          /\ Ground(s \o (IF c THEN <<[first |-> first, rows |-> da]>> ELSE <<>>))
               = Ground(s) \cup (first .. first + da - 1)
      BY <1>1, <3>2, SegmentsJoined
    <3>4. QED BY <3>3 DEF s, first, c
  <2>3. q.segments = m \o (IF r.kind # "audio" THEN <<[first |-> f, rows |-> dv]>> ELSE <<>>)
    BY <1>3
  <2> HIDE DEF m
  <2>4. q.segments \in Seq(Segments) /\ Ground(q.segments) = Ground(m) \cup (f .. f + dv - 1)
    <3> DEFINE c == r.kind # "audio"
    <3> HIDE DEF c
    <3>1. c \in BOOLEAN /\ (dv > 0 => c) BY <2>1 DEF c
    <3>2. /\ m \o (IF c THEN <<[first |-> f, rows |-> dv]>> ELSE <<>>) \in Seq(Segments)
          /\ Ground(m \o (IF c THEN <<[first |-> f, rows |-> dv]>> ELSE <<>>)) = Ground(m) \cup (f .. f + dv - 1)
      BY <1>1, <1>4, <2>2, <3>1, SegmentsJoined
    <3>3. QED BY <2>3, <3>2 DEF c
  <2>5. f = p.next + da BY DEF f
  <2>6. p.next + da - 1 = f - 1 BY <1>1, <1>4, <2>5
  <2>7. QED BY <2>2, <2>4, <2>6
<1>9. q.next = text + (v + dv) + (a + da) BY <1>1, <1>3, <1>4
<1>10. /\ ToSet(q.sound) \cup ToSet(q.video) = text .. q.next - 1
       /\ ToSet(q.sound) \cap ToSet(q.video) = {}
       /\ Ground(q.segments) = text .. q.next - 1
  <2>1. f = p.next + da /\ q.next = f + dv BY <1>3 DEF f
  <2>2. /\ ToSet(p.sound) \cup ToSet(p.video) = text .. p.next - 1 /\ ToSet(p.sound) \cap ToSet(p.video) = {}
        /\ Ground(p.segments) = text .. p.next - 1
    BY DEF Laid
  <2> DEFINE S == ToSet(p.sound)
             V == ToSet(p.video)
             n == p.next
             G == Ground(p.segments)
  <2> HIDE DEF S, V, n, G
  <2>3. /\ S \cup V = text .. n - 1 /\ S \cap V = {} /\ G = text .. n - 1
        /\ f = n + da /\ q.next = f + dv /\ n \in Nat /\ f \in Nat /\ text <= n
        /\ ToSet(q.sound) = S \cup (n .. n + da - 1) /\ ToSet(q.video) = V \cup (f .. f + dv - 1)
        /\ Ground(q.segments) = (G \cup (n .. f - 1)) \cup (f .. f + dv - 1)
    BY <1>1, <1>4, <1>6, <1>7, <1>8, <2>1, <2>2 DEF S, V, n, G
  <2>4. (n .. f - 1) \cup (f .. f + dv - 1) = n .. q.next - 1
    <3>1. q.next = (n + da) + dv BY <2>3
    <3>2. QED BY <1>1, <2>3, <3>1
  <2>5. (text .. n - 1) \cup (n .. q.next - 1) = text .. q.next - 1 BY <1>1, <2>3
  <2>6. ToSet(q.sound) \cup ToSet(q.video) = (text .. n - 1) \cup (n .. q.next - 1)
    BY <1>1, <2>3, <2>4
  <2>7. ToSet(q.sound) \cap ToSet(q.video) = {} BY SMTT(30), <1>1, <2>3
  <2>8. QED BY <2>3, <2>4, <2>5, <2>6, <2>7
<1>11. QED BY <1>6, <1>7, <1>8, <1>9, <1>10 DEF Laid, q, dv, da

\* What has been placed after each reference.
LEMMA AlwaysLaid ==
  ASSUME NEW P, NEW N, NEW t, NEW rs, NEW total, IsRefs(rs), IsPlacing(P, t, rs, total), IsCounting(N, rs),
         t.text \in Nat
  PROVE  \A k \in 0 .. Len(rs) : Laid(P[k], t.text, N[k].video, N[k].audio)
<1> DEFINE Good == {k \in 0 .. Len(rs) : Laid(P[k], t.text, N[k].video, N[k].audio)}
<1>0. Len(rs) \in Nat BY DEF IsRefs, IsList
<1>1. \A k \in 0 .. Len(rs) : N[k].video \in Nat /\ N[k].audio \in Nat BY CountsAreNaturals
<1>2. 0 \in Good
  <2>1. N[0].video = 0 /\ N[0].audio = 0 BY DEF IsCounting
  <2>2. P[0].next = t.text /\ P[0].sound = <<>> /\ P[0].video = <<>> /\ P[0].segments = <<>>
    BY DEF IsPlacing, NothingPlaced
  <2>3. ToSet(<<>>) = {} /\ Ground(<<>>) = {} /\ Increasing(<<>>)
    <3>1. ToSet(<<>>) = {} BY DEF ToSet
    <3>2. QED BY <3>1 DEF Ground, Increasing
  <2>4. Laid(P[0], t.text, 0, 0)
    <3>1. 0 .. -1 = {} /\ t.text .. t.text - 1 = {} /\ t.text = t.text + 0 + 0 OBVIOUS
    <3>2. <<>> \in Seq(Nat) /\ <<>> \in Seq(Segments) /\ Len(<<>>) = 0 OBVIOUS
    <3>3. QED BY <2>2, <2>3, <3>1, <3>2 DEF Laid
  <2>5. QED BY <1>0, <2>1, <2>4
<1>3. ASSUME NEW k \in 0 .. Len(rs) - 1, k \in Good PROVE k + 1 \in Good
  <2> DEFINE j == k + 1
  <2>1. j \in 1 .. Len(rs) /\ j \in 0 .. Len(rs) /\ j - 1 = k /\ k \in 0 .. Len(rs) BY <1>0
  <2> HIDE DEF j
  <2>2. P[j] = Place(P[k], rs[j], t) BY <2>1 DEF IsPlacing
  <2>3. N[j] = [video |-> N[k].video + RefVideoRows(rs[j]), audio |-> N[k].audio + RefAudioRows(rs[j])]
    BY <2>1 DEF IsCounting
  <2>4. IsReference(rs[j]) BY <2>1 DEF IsRefs, IsList
  <2>5. Laid(P[k], t.text, N[k].video, N[k].audio) BY <1>3
  <2>6. Laid(P[j], t.text, N[k].video + RefVideoRows(rs[j]), N[k].audio + RefAudioRows(rs[j]))
    BY <1>1, <2>1, <2>2, <2>4, <2>5, LaidStep
  <2>7. QED BY <2>1, <2>3, <2>6 DEF j
<1> HIDE DEF Good
<1>4. \A k \in 0 .. Len(rs) : k \in Good BY <1>0, <1>2, <1>3, Reaches
<1>5. QED BY <1>4 DEF Good

-----------------------------------------------------------------------------
(* Layouts and the sequences that have them.                               *)

\* The layout of an even canvas.
IsLayout(l) ==
  /\ {l.text, l.conditionVideo, l.conditionAudio, l.audio} \subseteq Nat
  /\ {l.frames, l.height, l.width} \subseteq Nat \ {0}
  /\ l.height % 2 = 0 /\ l.width % 2 = 0

\* Half of an even number.
LEMMA Halved ==
  ASSUME NEW n \in Nat \ {0}, n % 2 = 0
  PROVE  n \div 2 \in Nat \ {0} /\ n = 2 * (n \div 2)
OBVIOUS

\* Where the rows of each kind begin.
LEMMA LayoutNumbers ==
  ASSUME NEW l, IsLayout(l)
  PROVE  /\ RowsPerFrame(l) \in Nat \ {0} /\ VideoRows(l) \in Nat \ {0}
         /\ AudioStart(l) \in Nat /\ VideoStart(l) \in Nat /\ TotalRows(l) \in Nat \ {0}
         /\ AudioStart(l) = l.text + l.conditionVideo + l.conditionAudio
         /\ VideoStart(l) = AudioStart(l) + 2 * l.audio
         /\ TotalRows(l) = VideoStart(l) + VideoRows(l)
<1>1. l.height \div 2 \in Nat \ {0} /\ l.width \div 2 \in Nat \ {0} /\ l.frames \in Nat \ {0}
  BY Halved DEF IsLayout
<1>2. RowsPerFrame(l) \in Nat \ {0} BY <1>1 DEF RowsPerFrame
<1>3. VideoRows(l) \in Nat \ {0} BY <1>1, <1>2 DEF VideoRows
<1>4. QED BY <1>2, <1>3 DEF IsLayout, AudioStart, VideoStart, TotalRows

\* The rows of a sequence: what each is, and the order in which the lists have them.
Ordered(s, text) ==
  LET l == s.layout IN
  /\ IsLayout(l) /\ text \in [1 .. l.text -> 0 .. 1]
  /\ s.sound \in Seq(Nat) /\ Increasing(s.sound) /\ Len(s.sound) = l.conditionAudio + 2 * l.audio
  /\ s.video \in Seq(Nat) /\ Increasing(s.video) /\ Len(s.video) = l.conditionVideo + VideoRows(l)
  /\ ToSet(s.sound) \cap ToSet(s.video) = {}
  /\ ToSet(s.sound) \cup ToSet(s.video) = l.text .. TotalRows(l) - 1
  /\ Ground(s.segments) = l.text .. AudioStart(l) - 1
  /\ \A i \in 1 .. 2 * l.audio : s.sound[l.conditionAudio + i] = AudioStart(l) + i - 1
  /\ \A i \in 1 .. VideoRows(l) : s.video[l.conditionVideo + i] = VideoStart(l) + i - 1
  /\ s.tags = [i \in 1 .. TotalRows(l) |-> IF i <= l.text THEN text[i]
                                           ELSE IF i - 1 \in ToSet(s.sound) THEN TagAudio ELSE TagVideo]
  /\ DOMAIN s.at = 1 .. TotalRows(l)

\* Two intervals that meet are one.
LEMMA Adjoined ==
  ASSUME NEW a \in Int, NEW b \in Int, NEW c \in Int, a <= b, b <= c
  PROVE  (a .. b - 1) \cup (b .. c - 1) = a .. c - 1
OBVIOUS

\* Writing places keeps what has one.
LEMMA WrittenKeeps ==
  ASSUME NEW at, NEW first, NEW places
  PROVE  DOMAIN Written(at, first, places) = DOMAIN at
BY DEF Written

\* Every row of a trace has a place.
LEMMA PlacedDomain ==
  ASSUME NEW P, NEW t, NEW rs, NEW total, IsRefs(rs), IsPlacing(P, t, rs, total)
  PROVE  \A k \in 0 .. Len(rs) : DOMAIN P[k].at = 1 .. total
<1> DEFINE Good == {k \in 0 .. Len(rs) : DOMAIN P[k].at = 1 .. total}
<1>0. Len(rs) \in Nat BY DEF IsRefs, IsList
<1>1. 0 \in Good BY <1>0 DEF IsPlacing, NothingPlaced
<1>2. ASSUME NEW k \in 0 .. Len(rs) - 1, k \in Good PROVE k + 1 \in Good
  <2> DEFINE j == k + 1
  <2>1. j \in 1 .. Len(rs) /\ j \in 0 .. Len(rs) /\ j - 1 = k BY <1>0
  <2> HIDE DEF j
  <2>2. P[j] = Place(P[k], rs[j], t) BY <2>1 DEF IsPlacing
  <2>3. DOMAIN Place(P[k], rs[j], t).at = DOMAIN P[k].at BY DEF Place, Written
  <2>4. QED BY <1>2, <2>1, <2>2, <2>3 DEF j
<1> HIDE DEF Good
<1>3. \A k \in 0 .. Len(rs) : k \in Good BY <1>0, <1>1, <1>2, Reaches
<1>4. QED BY <1>3 DEF Good

\* The layout of a target and so many rows of references.
AssembledLayout(t, v, a) ==
  [text |-> t.text, conditionVideo |-> v, conditionAudio |-> a, explicit |-> TRUE,
   frames |-> t.frames, height |-> t.height, width |-> t.width, audio |-> t.audio]

\* A target makes a layout.
LEMMA TargetLayout ==
  ASSUME NEW t, IsTarget(t), NEW v \in Nat, NEW a \in Nat, NEW l,
         l.text = t.text, l.conditionVideo = v, l.conditionAudio = a,
         l.frames = t.frames, l.height = t.height, l.width = t.width, l.audio = t.audio
  PROVE  IsLayout(l)
BY DEF IsTarget, IsLayout

\* A target behind references that are laid in order makes an ordered sequence.
LEMMA AssembledIsOrdered ==
  ASSUME NEW t, IsTarget(t), NEW v \in Nat, NEW a \in Nat, NEW p, Laid(p, t.text, v, a),
         DOMAIN p.at = 1 .. TotalRows(AssembledLayout(t, v, a))
  PROVE  Ordered(Assembled(t, AssembledLayout(t, v, a), p), t.tags)
<1> DEFINE l == AssembledLayout(t, v, a)
           s == Assembled(t, l, p)
<1>1. /\ l.text = t.text /\ l.conditionVideo = v /\ l.conditionAudio = a
      /\ l.frames = t.frames /\ l.height = t.height /\ l.width = t.width /\ l.audio = t.audio
  BY DEF AssembledLayout
<1> HIDE DEF l
<1>2. IsLayout(l) BY <1>1, TargetLayout
<1>3. /\ s.layout = l /\ s.segments = p.segments
      /\ s.sound = p.sound \o Rows(p.next, 2 * t.audio)
      /\ s.video = p.video \o Rows(p.next + 2 * t.audio, VideoRows(l))
      /\ s.tags = [i \in 1 .. TotalRows(l) |->
                     CASE i - 1 \in ToSet(s.video) -> TagVideo
                       [] i - 1 \in ToSet(s.sound) \ ToSet(s.video) -> TagAudio
                       [] OTHER -> IF i - 1 < t.text THEN t.tags[(i - 1) + 1] ELSE TagText]
      /\ DOMAIN s.at = DOMAIN p.at
  BY DEF Assembled, Written
<1> HIDE DEF s
<1> DEFINE A == AudioStart(l)
           V == VideoStart(l)
           E == TotalRows(l)
           n == VideoRows(l)
           m == 2 * t.audio
<1>4. /\ n \in Nat \ {0} /\ A \in Nat /\ V \in Nat /\ E \in Nat /\ m \in Nat /\ t.text \in Nat
      /\ A = t.text + v + a /\ V = A + m /\ E = V + n /\ p.next = A
  <2>1. /\ n \in Nat \ {0} /\ A \in Nat /\ V \in Nat /\ E \in Nat
        /\ A = l.text + l.conditionVideo + l.conditionAudio /\ V = A + 2 * l.audio /\ E = V + n
    BY ONLY <1>2, LayoutNumbers
  <2>2. t.text \in Nat /\ t.audio \in Nat BY DEF IsTarget
  <2>3. p.next = t.text + v + a BY DEF Laid
  <2> HIDE DEF A, V, E, n
  <2>4. QED BY ONLY <1>1, <2>1, <2>2, <2>3, v \in Nat, a \in Nat DEF m
<1> HIDE DEF A, V, E, n, m
<1>5. /\ p.sound \in Seq(Nat) /\ Increasing(p.sound) /\ Len(p.sound) = a
      /\ p.video \in Seq(Nat) /\ Increasing(p.video) /\ Len(p.video) = v
      /\ ToSet(p.sound) \cup ToSet(p.video) = t.text .. A - 1 /\ ToSet(p.sound) \cap ToSet(p.video) = {}
      /\ Ground(p.segments) = t.text .. A - 1
  BY <1>4 DEF Laid
<1>6. Below(ToSet(p.sound), A) /\ Below(ToSet(p.video), V)
  <2> DEFINE S == ToSet(p.sound)
             W == ToSet(p.video)
  <2> HIDE DEF S, W
  <2>1. S \cup W = t.text .. A - 1 BY <1>5 DEF S, W
  <2>2. Below(S, A) /\ Below(W, V) BY ONLY <1>4, <2>1 DEF Below
  <2>3. QED BY <2>2 DEF S, W
<1>7. s.sound = p.sound \o Rows(A, m) /\ s.video = p.video \o Rows(V, n) BY <1>3, <1>4 DEF m, n
<1>8. /\ s.sound \in Seq(Nat) /\ Len(s.sound) = a + m /\ Increasing(s.sound)
      /\ ToSet(s.sound) = ToSet(p.sound) \cup (A .. A + m - 1)
      /\ \A i \in 1 .. m : s.sound[a + i] = A + i - 1
  <2> DEFINE g == p.sound
             u == s.sound
  <2> HIDE DEF g, u
  <2>1. g \in Seq(Nat) /\ Increasing(g) /\ Len(g) = a /\ Below(ToSet(g), A) /\ u = g \o Rows(A, m)
    BY <1>5, <1>6, <1>7 DEF g, u
  <2>2. A \in Nat /\ m \in Nat BY <1>4
  <2>3. Behind(u, g, A, m) BY ONLY <2>1, <2>2, TargetBehind
  <2>4. QED BY <2>1, <2>3 DEF g, u, Behind
<1>9. /\ s.video \in Seq(Nat) /\ Len(s.video) = v + n /\ Increasing(s.video)
      /\ ToSet(s.video) = ToSet(p.video) \cup (V .. V + n - 1)
      /\ \A i \in 1 .. n : s.video[v + i] = V + i - 1
  <2> DEFINE g == p.video
             u == s.video
  <2> HIDE DEF g, u
  <2>1. g \in Seq(Nat) /\ Increasing(g) /\ Len(g) = v /\ Below(ToSet(g), V) /\ u = g \o Rows(V, n)
    BY <1>5, <1>6, <1>7 DEF g, u
  <2>2. V \in Nat /\ n \in Nat BY <1>4
  <2>3. Behind(u, g, V, n) BY ONLY <2>1, <2>2, TargetBehind
  <2>4. QED BY <2>1, <2>3 DEF g, u, Behind
<1>10. ToSet(s.sound) \cap ToSet(s.video) = {}
  <2> DEFINE S == ToSet(p.sound)
             W == ToSet(p.video)
             S1 == ToSet(s.sound)
             W1 == ToSet(s.video)
  <2> HIDE DEF S, W, S1, W1
  <2>1. /\ S \cup W = t.text .. A - 1 /\ S \cap W = {}
        /\ S1 = S \cup (A .. A + m - 1) /\ W1 = W \cup (V .. V + n - 1)
    BY <1>5, <1>8, <1>9 DEF S, W, S1, W1
  <2>2. S1 \cap W1 = {} BY ONLY <1>4, <2>1, v \in Nat, a \in Nat
  <2>3. QED BY <2>2 DEF S1, W1
<1>11. ToSet(s.sound) \cup ToSet(s.video) = t.text .. E - 1
  <2>0. t.text <= A /\ A <= V /\ V <= E /\ A + m = V /\ V + n = E BY ONLY <1>4, v \in Nat, a \in Nat
  <2>1. (t.text .. A - 1) \cup (A .. A + m - 1) = t.text .. V - 1 BY ONLY <1>4, <2>0, Adjoined
  <2>2. (t.text .. V - 1) \cup (V .. V + n - 1) = t.text .. E - 1 BY ONLY <1>4, <2>0, Adjoined
  <2> DEFINE S == ToSet(p.sound)
             W == ToSet(p.video)
  <2> HIDE DEF S, W
  <2>3. ToSet(s.sound) \cup ToSet(s.video) = ((S \cup W) \cup (A .. A + m - 1)) \cup (V .. V + n - 1)
    BY <1>8, <1>9 DEF S, W
  <2>4. S \cup W = t.text .. A - 1 BY <1>5 DEF S, W
  <2>5. QED BY <2>1, <2>2, <2>3, <2>4
<1>12. s.tags = [i \in 1 .. E |-> IF i <= t.text THEN t.tags[i]
                                  ELSE IF i - 1 \in ToSet(s.sound) THEN TagAudio ELSE TagVideo]
  <2>1. s.tags = [i \in 1 .. E |->
                     CASE i - 1 \in ToSet(s.video) -> TagVideo
                       [] i - 1 \in ToSet(s.sound) \ ToSet(s.video) -> TagAudio
                       [] OTHER -> IF i - 1 < t.text THEN t.tags[(i - 1) + 1] ELSE TagText]
    BY <1>3 DEF E
  <2> DEFINE S == ToSet(s.sound)
             W == ToSet(s.video)
  <2> HIDE DEF S, W
  <2>2. S \cap W = {} /\ S \cup W = t.text .. E - 1 BY <1>10, <1>11 DEF S, W
  <2>3. ASSUME NEW i \in 1 .. E
        PROVE  (CASE i - 1 \in W -> TagVideo
                  [] i - 1 \in S \ W -> TagAudio
                  [] OTHER -> IF i - 1 < t.text THEN t.tags[(i - 1) + 1] ELSE TagText)
               = IF i <= t.text THEN t.tags[i] ELSE IF i - 1 \in S THEN TagAudio ELSE TagVideo
    <3>1. (i - 1) + 1 = i /\ i - 1 \in Int BY <1>4
    <3>2. CASE i <= t.text
      <4>1. i - 1 \notin S \cup W /\ i - 1 < t.text BY ONLY <1>4, <2>2, <3>2, i \in 1 .. E
      <4>2. QED BY <3>1, <3>2, <4>1
    <3>3. CASE ~(i <= t.text)
      <4>1. i - 1 \in S \cup W BY ONLY <1>4, <2>2, <3>3, i \in 1 .. E
      <4>2. QED BY <2>2, <3>3, <4>1
    <3>4. QED BY <3>2, <3>3
  <2>4. QED BY <2>1, <2>3 DEF S, W
<1>13. t.tags \in [1 .. t.text -> 0 .. 1] /\ Ground(s.segments) = t.text .. A - 1
  <2>1. t.tags \in [1 .. Len(t.tags) -> {0, 1}] /\ Len(t.tags) = t.text BY DEF IsTarget
  <2>2. QED BY <1>3, <1>5, <2>1
<1>14. DOMAIN s.at = 1 .. E BY <1>3 DEF E, l
<1>15. QED
  <2>1. s.layout = l BY <1>3
  <2>2. Ordered(s, t.tags)
    BY ONLY <2>1, <1>1, <1>2, <1>8, <1>9, <1>10, <1>11, <1>12, <1>13, <1>14 DEF Ordered, A, V, E, n, m
  <2>3. QED BY <2>2 DEF s, l

\* The text's tags, and a job that is not refused.
TextTags(j) == IF j.plain THEN [i \in 1 .. j.target.text |-> TagText] ELSE j.target.tags
IsAccepted(j) ==
  j.kind = "sequence" /\ IsJob(j) /\ (j.plain \/ Accepts(j.target, j.references))

\* A sequence without references is ordered.
LEMMA PlainIsOrdered ==
  ASSUME NEW t, IsTarget(t)
  PROVE  Ordered(Plain(t), [i \in 1 .. t.text |-> TagText])
<1> DEFINE l == PlainLayout(t)
           s == Plain(t)
           A == AudioStart(l)
           V == VideoStart(l)
           E == TotalRows(l)
           n == VideoRows(l)
           m == 2 * l.audio
           text == [i \in 1 .. t.text |-> TagText]
<1>1. /\ l.text = t.text /\ l.conditionVideo = 0 /\ l.conditionAudio = 0
      /\ l.frames = t.frames /\ l.height = t.height /\ l.width = t.width /\ l.audio = t.audio
  BY DEF PlainLayout
<1> DEFINE tag(row) == IF row >= V THEN TagVideo ELSE IF row >= A THEN TagAudio ELSE TagText
<1>2. /\ s.layout = l /\ s.segments = <<>> /\ s.sound = Rows(A, 2 * l.audio) /\ s.video = Rows(V, n)
      /\ s.tags = [i \in 1 .. E |-> tag(i - 1)] /\ DOMAIN s.at = 1 .. E
  BY DEF Plain
<1> HIDE DEF l, s
<1>3. IsLayout(l) BY ONLY <1>1, IsTarget(t), TargetLayout, 0 \in Nat
<1>4. /\ n \in Nat \ {0} /\ A \in Nat /\ V \in Nat /\ E \in Nat /\ m \in Nat /\ t.text \in Nat
      /\ A = t.text /\ V = A + m /\ E = V + n
  <2>1. /\ n \in Nat \ {0} /\ A \in Nat /\ V \in Nat /\ E \in Nat
        /\ A = l.text + l.conditionVideo + l.conditionAudio /\ V = A + 2 * l.audio /\ E = V + n
    BY ONLY <1>3, LayoutNumbers
  <2>2. t.text \in Nat /\ t.audio \in Nat BY DEF IsTarget
  <2> HIDE DEF A, V, E, n
  <2>3. QED BY ONLY <1>1, <2>1, <2>2 DEF m
<1> HIDE DEF A, V, E, n, m
<1>5. /\ s.sound \in Seq(Nat) /\ Len(s.sound) = m /\ Increasing(s.sound) /\ ToSet(s.sound) = A .. A + m - 1
      /\ \A i \in 1 .. m : s.sound[i] = A + i - 1
  <2>1. s.sound = Rows(A, m) BY <1>2 DEF m
  <2>2. A \in Nat /\ m \in Nat BY <1>4
  <2> DEFINE r == Rows(A, m)
  <2>3. /\ r \in Seq(Nat) /\ Len(r) = m /\ Increasing(r) /\ ToSet(r) = A .. A + m - 1
        /\ \A i \in 1 .. m : r[i] = A + i - 1
    BY ONLY <2>2, RowsAreSequence
  <2> HIDE DEF r
  <2>4. s.sound = r BY <2>1 DEF r
  <2>5. QED BY ONLY <2>3, <2>4
<1>6. /\ s.video \in Seq(Nat) /\ Len(s.video) = n /\ Increasing(s.video) /\ ToSet(s.video) = V .. V + n - 1
      /\ \A i \in 1 .. n : s.video[i] = V + i - 1
  <2>1. s.video = Rows(V, n) /\ V \in Nat /\ n \in Nat BY <1>2, <1>4
  <2>3. QED BY ONLY <2>1, RowsAreSequence
<1>7. /\ ToSet(s.sound) \cap ToSet(s.video) = {}
      /\ ToSet(s.sound) \cup ToSet(s.video) = t.text .. E - 1
  <2>1. A + m = V /\ V + n = E /\ A <= V /\ V <= E BY ONLY <1>4
  <2>2. (A .. V - 1) \cup (V .. E - 1) = A .. E - 1 BY ONLY <1>4, <2>1, Adjoined
  <2>3. (A .. V - 1) \cap (V .. E - 1) = {} BY ONLY <1>4
  <2>4. ToSet(s.sound) = A .. V - 1 /\ ToSet(s.video) = V .. E - 1
    <3>1. A + m - 1 = V - 1 /\ V + n - 1 = E - 1 BY ONLY <1>4
    <3>2. QED BY ONLY <1>5, <1>6, <3>1
  <2>5. QED BY ONLY <2>2, <2>3, <2>4, <1>4
<1>8. Ground(s.segments) = t.text .. A - 1
  <2>1. ToSet(<<>>) = {} BY DEF ToSet
  <2>2. Ground(<<>>) = {} BY <2>1 DEF Ground
  <2>3. t.text .. t.text - 1 = {} BY ONLY <1>4
  <2>4. QED BY ONLY <1>2, <1>4, <2>2, <2>3
<1>9. s.tags = [i \in 1 .. E |-> IF i <= t.text THEN text[i]
                                  ELSE IF i - 1 \in ToSet(s.sound) THEN TagAudio ELSE TagVideo]
  <2> SUFFICES ASSUME NEW i \in 1 .. E
               PROVE  tag(i - 1) = IF i <= t.text THEN text[i]
                                   ELSE IF i - 1 \in ToSet(s.sound) THEN TagAudio ELSE TagVideo
    BY <1>2
  <2>1. i \in Int /\ i >= 1 /\ i <= E /\ (i - 1 >= A <=> ~(i <= t.text)) /\ (i - 1 >= V => i - 1 >= A)
    BY ONLY <1>4, i \in 1 .. E
  <2>2. i - 1 \in ToSet(s.sound) <=> i - 1 >= A /\ ~(i - 1 >= V)
    BY ONLY SMTT(30), <1>4, <1>5, i \in 1 .. E
  <2>3. i <= t.text => text[i] = TagText BY <1>4
  <2>4. QED BY ONLY <2>1, <2>2, <2>3
<1>10. text \in [1 .. l.text -> 0 .. 1] BY ONLY <1>1 DEF TagText
<1>11. Ordered(s, text)
  <2> HIDE DEF tag, text
  <2>1. m = 2 * l.audio /\ A = AudioStart(l) /\ V = VideoStart(l) /\ E = TotalRows(l) /\ n = VideoRows(l)
    BY DEF A, V, E, m, n
  <2>2. /\ l.conditionAudio + 2 * l.audio = m /\ l.conditionVideo + VideoRows(l) = n
        /\ \A i \in 1 .. m : l.conditionAudio + i = i
        /\ \A i \in 1 .. n : l.conditionVideo + i = i
    <3>1. 0 + m = m /\ 0 + n = n /\ (\A i \in 1 .. m : 0 + i = i) /\ (\A i \in 1 .. n : 0 + i = i)
      BY ONLY <1>4
    <3>2. QED BY ONLY <1>1, <2>1, <3>1
  <2>3. \A i \in 1 .. 2 * l.audio : s.sound[l.conditionAudio + i] = AudioStart(l) + i - 1
    BY ONLY <1>5, <2>1, <2>2
  <2>4. \A i \in 1 .. VideoRows(l) : s.video[l.conditionVideo + i] = VideoStart(l) + i - 1
    BY ONLY <1>6, <2>1, <2>2
  <2>5. /\ Len(s.sound) = l.conditionAudio + 2 * l.audio /\ Len(s.video) = l.conditionVideo + VideoRows(l)
        /\ Ground(s.segments) = l.text .. AudioStart(l) - 1
        /\ ToSet(s.sound) \cup ToSet(s.video) = l.text .. TotalRows(l) - 1
    BY ONLY <1>1, <1>5, <1>6, <1>7, <1>8, <2>1, <2>2
  <2>6. /\ s.tags = [i \in 1 .. TotalRows(l) |-> IF i <= l.text THEN text[i]
                                                ELSE IF i - 1 \in ToSet(s.sound) THEN TagAudio ELSE TagVideo]
        /\ DOMAIN s.at = 1 .. TotalRows(l)
    BY ONLY <1>1, <1>2, <1>9, <2>1
  <2>7. s.layout = l BY <1>2
  <2>8. QED BY ONLY <1>3, <1>5, <1>6, <1>7, <1>10, <2>3, <2>4, <2>5, <2>6, <2>7 DEF Ordered
<1>12. QED BY <1>11 DEF s, text

\* The parts of a job.
LEMMA ReferencesAreRefs ==
  ASSUME NEW j, j.kind = "sequence", IsJob(j)
  PROVE  IsTarget(j.target) /\ j.plain \in BOOLEAN /\ (j.plain => j.references = <<>>) /\ IsRefs(j.references)
<1>1. /\ IsTarget(j.target) /\ j.plain \in BOOLEAN /\ DOMAIN j.references = 1 .. Len(j.references)
      /\ (\A i \in DOMAIN j.references : IsReference(j.references[i]))
      /\ (j.plain => j.references = <<>>) /\ Len(j.references) \in Nat
  BY DEF IsJob
<1>2. QED BY <1>1 DEF IsRefs, IsList

\* What a sequence with references is assembled from.
IsTraced(P, N, t, rs) ==
  LET n == Len(rs)
      l == AssembledLayout(t, N[n].video, N[n].audio)
  IN /\ IsPlacing(P, t, rs, TotalRows(l)) /\ IsCounting(N, rs)
     /\ Counted(rs) = N[n] /\ Referenced(t, rs) = Assembled(t, l, P[n])

\* The references of a job have a trace, laid in order at every step.
LEMMA Traced ==
  ASSUME NEW t, NEW rs, IsRefs(rs)
  PROVE  \E P, N : IsTraced(P, N, t, rs)
<1>1. IsList(rs) BY DEF IsRefs
<1>2. PICK N : IsCounting(N, rs) /\ Counted(rs) = N[Len(rs)] BY <1>1, CountingExists
<1> DEFINE l == AssembledLayout(t, N[Len(rs)].video, N[Len(rs)].audio)
<1>3. ReferencedLayout(t, rs) = l BY <1>2 DEF ReferencedLayout, AssembledLayout
<1> HIDE DEF l
<1>4. PICK P : IsPlacing(P, t, rs, TotalRows(l)) /\ AllPlaced(t, rs, TotalRows(l)) = P[Len(rs)]
  BY <1>1, PlacingExists
<1>5. Referenced(t, rs) = Assembled(t, l, P[Len(rs)]) BY <1>3, <1>4 DEF Referenced
<1>6. IsTraced(P, N, t, rs) BY <1>2, <1>4, <1>5 DEF IsTraced, l
<1>7. QED BY <1>6

\* A sequence with references is ordered.
LEMMA ReferencedIsOrdered ==
  ASSUME NEW t, IsTarget(t), NEW rs, IsRefs(rs)
  PROVE  Ordered(Referenced(t, rs), t.tags)
<1>1. PICK P, N : IsTraced(P, N, t, rs) BY Traced
<1> DEFINE n == Len(rs)
           v == N[n].video
           a == N[n].audio
           l == AssembledLayout(t, v, a)
<1>2. IsPlacing(P, t, rs, TotalRows(l)) /\ IsCounting(N, rs) /\ Referenced(t, rs) = Assembled(t, l, P[n])
  BY <1>1 DEF IsTraced
<1>3. n \in Nat /\ n \in 0 .. n /\ n = Len(rs) /\ t.text \in Nat BY DEF IsRefs, IsList, IsTarget
<1> HIDE DEF n
<1>4. v \in Nat /\ a \in Nat BY ONLY <1>2, <1>3, IsRefs(rs), CountsAreNaturals
<1>5. Laid(P[n], t.text, v, a) BY ONLY <1>2, <1>3, IsRefs(rs), AlwaysLaid
<1>6. DOMAIN P[n].at = 1 .. TotalRows(l) BY ONLY <1>2, <1>3, IsRefs(rs), PlacedDomain
<1> HIDE DEF v, a
<1>7. Ordered(Assembled(t, AssembledLayout(t, v, a), P[n]), t.tags)
  BY ONLY <1>4, <1>5, <1>6, IsTarget(t), AssembledIsOrdered
<1>8. QED BY <1>2, <1>7

\* What a job is packed into is ordered.
LEMMA PackedIsOrdered ==
  ASSUME NEW j, IsAccepted(j)
  PROVE  Ordered(Packed(j), TextTags(j))
<1>1. IsTarget(j.target) /\ j.plain \in BOOLEAN /\ IsRefs(j.references)
  BY ReferencesAreRefs DEF IsAccepted
<1>2. CASE j.plain
  <2>1. Packed(j) = Plain(j.target) /\ TextTags(j) = [i \in 1 .. j.target.text |-> TagText]
    BY <1>2 DEF Packed, TextTags
  <2>2. QED BY <1>1, <2>1, PlainIsOrdered
<1>3. CASE ~j.plain
  <2>1. Packed(j) = Referenced(j.target, j.references) /\ TextTags(j) = j.target.tags
    BY <1>3 DEF Packed, TextTags, IsAccepted
  <2>2. QED BY <1>1, <2>1, ReferencedIsOrdered
<1>4. QED BY <1>2, <1>3

\* A list in order has no row twice.
LEMMA IncreasingIsInjective ==
  ASSUME NEW s \in Seq(Nat), Increasing(s), NEW i \in 1 .. Len(s), NEW j \in 1 .. Len(s), s[i] = s[j]
  PROVE  i = j
<1>1. s[i] \in Nat /\ s[j] \in Nat /\ i \in Int /\ j \in Int OBVIOUS
<1>2. ~(i < j) /\ ~(j < i) BY <1>1 DEF Increasing
<1>3. QED BY <1>1, <1>2

\* Nor have two that share none.
LEMMA JoinedInjective ==
  ASSUME NEW s \in Seq(Nat), NEW u \in Seq(Nat), Increasing(s), Increasing(u), ToSet(s) \cap ToSet(u) = {}
  PROVE  IsInjective(s \o u)
<1> DEFINE j == s \o u
<1>1. /\ DOMAIN j = 1 .. Len(s) + Len(u)
      /\ \A i \in 1 .. Len(s) : j[i] = s[i]
      /\ \A i \in 1 .. Len(u) : j[Len(s) + i] = u[i]
  OBVIOUS
<1>2. DOMAIN s = 1 .. Len(s) /\ DOMAIN u = 1 .. Len(u) /\ Len(s) \in Nat /\ Len(u) \in Nat OBVIOUS
<1> HIDE DEF j
<1>3. ASSUME NEW a \in DOMAIN j, a > Len(s)
      PROVE  a - Len(s) \in 1 .. Len(u) /\ j[a] = u[a - Len(s)] /\ j[a] \in ToSet(u)
  <2>1. a - Len(s) \in 1 .. Len(u) /\ Len(s) + (a - Len(s)) = a BY <1>1, <1>2, <1>3
  <2>2. j[a] = u[a - Len(s)] BY <1>1, <2>1
  <2>3. QED BY <1>2, <2>1, <2>2 DEF ToSet
<1>4. ASSUME NEW a \in DOMAIN j, ~(a > Len(s))
      PROVE  a \in 1 .. Len(s) /\ j[a] = s[a] /\ j[a] \in ToSet(s)
  <2>1. a \in 1 .. Len(s) BY <1>1, <1>2, <1>4
  <2>2. QED BY <1>1, <1>2, <2>1 DEF ToSet
<1>5. ASSUME NEW a \in DOMAIN j, NEW b \in DOMAIN j, j[a] = j[b] PROVE a = b
  <2>1. CASE a > Len(s) /\ b > Len(s)
    <3>1. a - Len(s) = b - Len(s) BY <1>3, <1>5, <2>1, IncreasingIsInjective
    <3>2. QED BY <1>1, <1>2, <3>1
  <2>2. CASE ~(a > Len(s)) /\ ~(b > Len(s)) BY <1>4, <1>5, <2>2, IncreasingIsInjective
  <2>3. CASE (a > Len(s)) # (b > Len(s)) BY <1>3, <1>4, <1>5, <2>3
  <2>4. QED BY <2>1, <2>2, <2>3
<1>6. QED BY <1>5 DEF IsInjective, j

\* A sequence is a function on its indices.
LEMMA SequenceIsFunction ==
  ASSUME NEW S, NEW s \in Seq(S)
  PROVE  s \in [1 .. Len(s) -> S]
OBVIOUS

\* A list that ends with so many rows from one on.
HasTail(s, k, n, f) == Len(s) = k + n /\ \A i \in 1 .. n : s[k + i] = f + i - 1

\* The end of such a list is the list of these rows.
LEMMA TailIsRows ==
  ASSUME NEW s \in Seq(Nat), NEW k \in Nat, NEW n \in Nat, NEW f \in Nat, HasTail(s, k, n, f)
  PROVE  SubSeq(s, k + 1, Len(s)) = Rows(f, n)
<1> DEFINE u == SubSeq(s, k + 1, Len(s))
           r == Rows(f, n)
<1>1. u \in Seq(Nat) /\ Len(u) = n /\ \A i \in 1 .. n : u[i] = s[k + i]
  <2> DEFINE b == k + 1
             e == Len(s)
  <2>1. b \in Nat /\ e \in Nat /\ b >= 1 /\ e <= Len(s) /\ e - b + 1 = n /\ n >= 0 BY DEF HasTail
  <2>2. \A i \in 1 .. n : b + i - 1 = k + i OBVIOUS
  <2> HIDE DEF b, e
  <2>3. SubSeq(s, b, e) \in Seq(Nat) /\ Len(SubSeq(s, b, e)) = n
        /\ \A i \in 1 .. n : SubSeq(s, b, e)[i] = s[b + i - 1]
    BY <2>1
  <2>4. QED BY <2>2, <2>3 DEF b, e
<1>2. r \in Seq(Nat) /\ Len(r) = n /\ \A i \in 1 .. n : r[i] = f + i - 1 BY RowsAreSequence
<1> HIDE DEF u, r
<1>3. u = r
  <2>0. u \in [1 .. Len(u) -> Nat] /\ r \in [1 .. Len(r) -> Nat] /\ Len(u) = n /\ Len(r) = n
    BY ONLY <1>1, <1>2, SequenceIsFunction
  <2>1. u \in [1 .. n -> Nat] /\ r \in [1 .. n -> Nat] BY ONLY <2>0
  <2>2. \A i \in 1 .. n : u[i] = r[i] BY <1>1, <1>2 DEF HasTail
  <2>3. QED BY <2>1, <2>2
<1>4. QED BY <1>3 DEF u, r

\* What RowsAreWhole promises of a sequence.
IsWhole(s, text) ==
  LET l == s.layout
      segments == UNION {ToSet(Rows(g.first, g.rows)) : g \in ToSet(s.segments)}
      expected(row) == CASE row < l.text -> text[row + 1]
                         [] row \in ToSet(s.sound) -> TagAudio
                         [] OTHER -> TagVideo
  IN /\ IsInjective(s.sound \o s.video)
     /\ ToSet(s.sound) \cup ToSet(s.video) = l.text .. TotalRows(l) - 1
     /\ segments = l.text .. AudioStart(l) - 1
     /\ SubSeq(s.sound, l.conditionAudio + 1, Len(s.sound)) = Rows(AudioStart(l), 2 * l.audio)
     /\ SubSeq(s.video, l.conditionVideo + 1, Len(s.video)) = Rows(VideoStart(l), VideoRows(l))
     /\ \A row \in 0 .. TotalRows(l) - 1 : s.tags[row + 1] = expected(row)

\* An ordered sequence is whole.
LEMMA OrderedIsWhole ==
  ASSUME NEW s, NEW text, Ordered(s, text)
  PROVE  IsWhole(s, text)
<1> DEFINE l == s.layout
<1>1. IsLayout(l) BY DEF Ordered
<1>2. /\ VideoRows(l) \in Nat /\ AudioStart(l) \in Nat /\ VideoStart(l) \in Nat /\ TotalRows(l) \in Nat
      /\ 2 * l.audio \in Nat /\ l.conditionAudio \in Nat /\ l.conditionVideo \in Nat /\ l.text \in Nat
  BY <1>1, LayoutNumbers DEF IsLayout
<1>3. /\ s.sound \in Seq(Nat) /\ Increasing(s.sound) /\ Len(s.sound) = l.conditionAudio + 2 * l.audio
      /\ s.video \in Seq(Nat) /\ Increasing(s.video) /\ Len(s.video) = l.conditionVideo + VideoRows(l)
      /\ ToSet(s.sound) \cap ToSet(s.video) = {}
      /\ ToSet(s.sound) \cup ToSet(s.video) = l.text .. TotalRows(l) - 1
      /\ Ground(s.segments) = l.text .. AudioStart(l) - 1
      /\ \A i \in 1 .. 2 * l.audio : s.sound[l.conditionAudio + i] = AudioStart(l) + i - 1
      /\ \A i \in 1 .. VideoRows(l) : s.video[l.conditionVideo + i] = VideoStart(l) + i - 1
      /\ s.tags = [i \in 1 .. TotalRows(l) |-> IF i <= l.text THEN text[i]
                                               ELSE IF i - 1 \in ToSet(s.sound) THEN TagAudio ELSE TagVideo]
  BY DEF Ordered
<1> HIDE DEF l
<1>4. IsInjective(s.sound \o s.video) BY ONLY <1>3, JoinedInjective
<1>5. SubSeq(s.sound, l.conditionAudio + 1, Len(s.sound)) = Rows(AudioStart(l), 2 * l.audio)
  <2> DEFINE u == s.sound
             c == l.conditionAudio
             n == 2 * l.audio
             f == AudioStart(l)
  <2>1. HasTail(u, c, n, f) /\ u \in Seq(Nat) /\ c \in Nat /\ n \in Nat /\ f \in Nat
    BY ONLY <1>2, <1>3 DEF HasTail
  <2> HIDE DEF u, c, n, f
  <2>2. SubSeq(u, c + 1, Len(u)) = Rows(f, n) BY ONLY <2>1, TailIsRows
  <2>3. QED BY <2>2 DEF u, c, n, f
<1>6. SubSeq(s.video, l.conditionVideo + 1, Len(s.video)) = Rows(VideoStart(l), VideoRows(l))
  <2> DEFINE u == s.video
             c == l.conditionVideo
             n == VideoRows(l)
             f == VideoStart(l)
  <2>1. HasTail(u, c, n, f) /\ u \in Seq(Nat) /\ c \in Nat /\ n \in Nat /\ f \in Nat
    BY ONLY <1>2, <1>3 DEF HasTail
  <2> HIDE DEF u, c, n, f
  <2>2. SubSeq(u, c + 1, Len(u)) = Rows(f, n) BY ONLY <2>1, TailIsRows
  <2>3. QED BY <2>2 DEF u, c, n, f
<1>7. ASSUME NEW row \in 0 .. TotalRows(l) - 1
      PROVE  s.tags[row + 1] = CASE row < l.text -> text[row + 1]
                                 [] row \in ToSet(s.sound) -> TagAudio
                                 [] OTHER -> TagVideo
  <2>1. row + 1 \in 1 .. TotalRows(l) /\ (row + 1) - 1 = row /\ (row + 1 <= l.text <=> row < l.text)
    BY ONLY <1>2, row \in 0 .. TotalRows(l) - 1
  <2>2. s.tags[row + 1] = IF row + 1 <= l.text THEN text[row + 1]
                          ELSE IF (row + 1) - 1 \in ToSet(s.sound) THEN TagAudio ELSE TagVideo
    BY ONLY <1>3, <2>1
  <2>3. CASE row < l.text
    <3>1. row \notin ToSet(s.sound) BY ONLY <1>2, <1>3, <2>3
    <3>2. QED BY ONLY <2>1, <2>2, <2>3, <3>1
  <2>4. CASE ~(row < l.text) BY ONLY <2>1, <2>2, <2>4
  <2>5. QED BY <2>3, <2>4
<1>8. QED BY <1>3, <1>4, <1>5, <1>6, <1>7 DEF IsWhole, Ground, l

-----------------------------------------------------------------------------
(* Coordinates.                                                            *)

\* An axis has an index for every patch.
LEMMA AxisFacts ==
  ASSUME NEW dim \in Nat, NEW other
  PROVE  /\ dim \div 2 \in Nat /\ Len(Axis(dim, other)) = dim \div 2
         /\ DOMAIN Axis(dim, other) = 1 .. dim \div 2
         /\ \A k \in 1 .. dim \div 2 : Axis(dim, other)[k] = <<dim, other, k - 1>>
<1>1. dim \div 2 \in Nat OBVIOUS
<1> DEFINE n == dim \div 2
<1> HIDE DEF n
<1>2. Axis(dim, other) = [k \in 1 .. n |-> <<dim, other, k - 1>>] BY DEF Axis, n
<1>3. n \in Nat BY <1>1 DEF n
<1> DEFINE a == Axis(dim, other)
<1> HIDE DEF a
<1>4. Len(a) = n /\ DOMAIN a = 1 .. n /\ \A k \in 1 .. n : a[k] = <<dim, other, k - 1>>
  BY ONLY <1>2, <1>3 DEF a
<1>5. QED BY <1>1, <1>4 DEF a, n

\* The time grows by the span of each latent frame.
LEMMA ElapsedGrows ==
  ASSUME NEW f \in Nat
  PROVE  Elapsed(f) \in Nat /\ Elapsed(f + 1) = Elapsed(f) + Span(f) /\ Elapsed(0) = 0 /\ Span(f) \in {5, 20}
BY DEF Elapsed, Span

\* A later frame begins later.
LEMMA ElapsedOrder ==
  ASSUME NEW f \in Nat, NEW g \in Nat, f < g
  PROVE  Elapsed(f) < Elapsed(g)
BY DEF Elapsed

\* Writing places puts them on their rows and leaves the others.
LEMMA WrittenAt ==
  ASSUME NEW at, NEW total \in Nat, DOMAIN at = 1 .. total, NEW first \in Nat, NEW places,
         NEW n \in Nat, Len(places) = n, NEW i \in 1 .. total
  PROVE  /\ i - 1 < first => Written(at, first, places)[i] = at[i]
         /\ i - 1 >= first + n => Written(at, first, places)[i] = at[i]
         /\ (i - 1 >= first /\ i - 1 < first + n) => Written(at, first, places)[i] = places[i - first]
<1>1. Written(at, first, places)[i] = IF i - 1 \in first .. first + n - 1 THEN places[i - first] ELSE at[i]
  BY DEF Written
<1>2. i - 1 \in first .. first + n - 1 <=> (i - 1 >= first /\ i - 1 < first + n) OBVIOUS
<1>3. i - 1 < first => ~(i - 1 >= first) OBVIOUS
<1>4. i - 1 >= first + n => ~(i - 1 < first + n) OBVIOUS
<1>5. QED BY ONLY <1>1, <1>2, <1>3, <1>4

\* Where the rows of a picture's grid lie, patch by patch; and what a grid's width and height are.
Grid(hs, ws, frames, origin) ==
  [i \in 1 .. frames * (Len(hs) * Len(ws)) |->
     <<origin + Elapsed((i - 1) \div (Len(hs) * Len(ws))),
       hs[1 + ((i - 1) % (Len(hs) * Len(ws))) \div Len(ws)], ws[1 + ((i - 1) % Len(ws))]>>]

\* The patches of a reference's frames: a guide's image lies on a part of the target's.
IsPositioned(r) == r.aligned /\ r.kind = "image"
Heights(r, t) == IF IsPositioned(r)
                 THEN SubSeq(Axis(t.height, t.width), 1 + r.y \div 2, (r.y + r.height) \div 2)
                 ELSE Axis(r.height, r.width)
Widths(r, t) == IF IsPositioned(r)
                THEN SubSeq(Axis(t.width, t.height), 1 + r.x \div 2, (r.x + r.width) \div 2)
                ELSE Axis(r.width, r.height)

\* The places of a reference's frames are a grid of these patches.
LEMMA VideoIsGrid ==
  ASSUME NEW r, NEW origin, NEW t
  PROVE  VideoAt(r, origin, t) = Grid(Heights(r, t), Widths(r, t), r.frames, origin)
BY DEF VideoAt, Grid, Heights, Widths, IsPositioned

\* A function on the first numbers is a sequence.
LEMMA FunctionIsSequence ==
  ASSUME NEW S, NEW n \in Nat, NEW f \in [1 .. n -> S]
  PROVE  f \in Seq(S) /\ Len(f) = n
OBVIOUS

\* A list that is a part of another.
IsPart(u, s, b, m) == Len(u) = m /\ \A k \in 1 .. m : u[k] = s[b + k - 1]

\* A part of a sequence.
LEMMA PartOfSequence ==
  ASSUME NEW S, NEW s \in Seq(S), NEW b \in Nat, b >= 1, NEW e \in Nat, e <= Len(s),
         NEW m \in Nat, e - b + 1 = m
  PROVE  IsPart(SubSeq(s, b, e), s, b, m)
BY DEF IsPart

\* A part of an axis.
IsAxisPart(u, dim, other, first, n) == Len(u) = n /\ \A k \in 1 .. n : u[k] = <<dim, other, first + k - 1>>

\* A part of an axis.
LEMMA PartOfAxis ==
  ASSUME NEW dim \in Nat, NEW other, NEW y \in Nat, NEW h \in Nat, y % 2 = 0, h % 2 = 0, y + h <= dim
  PROVE  IsAxisPart(SubSeq(Axis(dim, other), 1 + y \div 2, (y + h) \div 2), dim, other, y \div 2, h \div 2)
<1> DEFINE a == Axis(dim, other)
           n == dim \div 2
           b == 1 + y \div 2
           e == (y + h) \div 2
           m == h \div 2
<1>1. n \in Nat /\ b \in Nat /\ e \in Nat /\ m \in Nat /\ b >= 1 /\ e <= n /\ e - b + 1 = m /\ b = 1 + y \div 2
  OBVIOUS
<1>2. Len(a) = n /\ a = [k \in 1 .. n |-> <<dim, other, k - 1>>] BY AxisFacts DEF Axis
<1> HIDE DEF a, n, b, e, m
<1> DEFINE T == {a[k] : k \in 1 .. n}
           part == SubSeq(a, b, e)
<1>3. a \in Seq(T)
  <2>1. a \in [1 .. n -> T] BY ONLY <1>2
  <2> HIDE DEF T
  <2>2. QED BY ONLY <1>1, <2>1, FunctionIsSequence
<1> HIDE DEF T
<1>4. Len(part) = m /\ \A k \in 1 .. m : part[k] = a[b + k - 1]
  <2>1. IsPart(SubSeq(a, b, e), a, b, m) BY ONLY <1>1, <1>2, <1>3, PartOfSequence
  <2>2. QED BY <2>1 DEF IsPart
<1> HIDE DEF part
<1>5. ASSUME NEW k \in 1 .. m PROVE part[k] = <<dim, other, y \div 2 + k - 1>>
  <2>1. b + k - 1 \in 1 .. n /\ (b + k - 1) - 1 = y \div 2 + k - 1 BY <1>1
  <2>2. QED BY <1>2, <1>4, <2>1
<1>6. QED BY <1>4, <1>5 DEF part, a, b, e, m, IsAxisPart

\* A quotient is bounded by the number of parts.
LEMMA DividedBelow ==
  ASSUME NEW a \in Nat, NEW b \in Nat \ {0}, NEW c \in Nat, a < c * b
  PROVE  a \div b \in 0 .. c - 1
<1> DEFINE q == a \div b
<1>1. q \in Nat /\ b * q <= a BY Divided, DividedNat
<1> HIDE DEF q
<1>2. ASSUME c <= q PROVE FALSE
  <2>1. b * c <= b * q BY <1>1, <1>2, ProductBound
  <2>2. b * c = c * b BY Spread
  <2>3. c * b \in Nat OBVIOUS
  <2>4. QED BY <1>1, <2>1, <2>2, <2>3
<1>3. QED BY <1>1, <1>2 DEF q

\* A place in a grid of frames of h by w patches.
IsPlace(i, frames, h, w) ==
  /\ h \in Nat \ {0} /\ w \in Nat \ {0} /\ h * w \in Nat \ {0}
  /\ (i - 1) \div (h * w) \in 0 .. frames - 1
  /\ ((i - 1) % (h * w)) \div w \in 0 .. h - 1
  /\ (i - 1) % w \in 0 .. w - 1

\* A row's frame, row of patches and column are in the grid.
LEMMA PlaceInGrid ==
  ASSUME NEW frames \in Nat, NEW h \in Nat, NEW w \in Nat, NEW i \in 1 .. frames * (h * w)
  PROVE  IsPlace(i, frames, h, w)
<1>1. h # 0 /\ w # 0
  <2>1. frames * (h * w) >= 1
    <3> DEFINE m == frames * (h * w)
    <3>1. m \in Nat OBVIOUS
    <3> HIDE DEF m
    <3>2. i \in 1 .. m BY DEF m
    <3>3. m >= 1 BY <3>1, <3>2
    <3>4. QED BY <3>3 DEF m
  <2>2. h = 0 \/ w = 0 => frames * (h * w) = 0
    <3>1. 0 * w = 0 /\ h * 0 = 0 /\ frames * 0 = 0 OBVIOUS
    <3>2. QED BY <3>1
  <2>3. QED BY <2>1, <2>2
<1> DEFINE plane == h * w
<1>2. plane \in Nat \ {0} BY <1>1
<1> DEFINE a == i - 1
<1>3. a \in Nat /\ a < frames * plane
  <2> DEFINE m == frames * plane
  <2>1. m \in Nat BY <1>2
  <2> HIDE DEF m
  <2>2. i \in 1 .. m BY DEF m
  <2>3. a \in Nat /\ a < m BY <2>1, <2>2
  <2>4. QED BY <2>3 DEF m
<1> HIDE DEF a
<1>4. a \div plane \in 0 .. frames - 1
  <2> HIDE DEF plane
  <2>1. QED BY <1>2, <1>3, DividedBelow
<1>5. a % plane \in Nat /\ a % plane < h * w
  <2>1. a \in Int BY <1>3
  <2> HIDE DEF plane
  <2>2. a % plane \in Nat /\ a % plane < plane BY <1>2, <2>1, Divided
  <2>3. QED BY <2>2 DEF plane
<1> DEFINE r == a % plane
<1>6. r \div w \in 0 .. h - 1
  <2> HIDE DEF r
  <2>1. r \in Nat /\ r < h * w BY <1>5 DEF r
  <2>2. QED BY <1>1, <2>1, DividedBelow
<1>7. a % w \in 0 .. w - 1
  <2>1. a % w \in Int /\ 0 <= a % w /\ a % w < w BY <1>1, <1>3, Divided
  <2>2. QED BY <2>1
<1>8. QED BY <1>1, <1>2, <1>4, <1>6, <1>7 DEF IsPlace, a

\* A reference that its target accepts.
Fits(r, t) == IsReference(r) /\ IsTarget(t) /\ (r.aligned => GuideFits(r, t))

\* The patches of a reference.
LEMMA GridSizes ==
  ASSUME NEW r, NEW t, Fits(r, t), r.kind # "audio"
  PROVE  /\ r.height \div 2 \in Nat /\ r.width \div 2 \in Nat /\ r.frames \in Nat
         /\ Len(Heights(r, t)) = r.height \div 2 /\ Len(Widths(r, t)) = r.width \div 2
         /\ RefVideoRows(r) = r.frames * ((r.height \div 2) * (r.width \div 2))
         /\ ~IsPositioned(r) =>
              /\ \A k \in 1 .. r.height \div 2 : Heights(r, t)[k] = <<r.height, r.width, k - 1>>
              /\ \A k \in 1 .. r.width \div 2 : Widths(r, t)[k] = <<r.width, r.height, k - 1>>
         /\ IsPositioned(r) =>
              /\ \A k \in 1 .. r.height \div 2 : Heights(r, t)[k] = <<t.height, t.width, r.y \div 2 + k - 1>>
              /\ \A k \in 1 .. r.width \div 2 : Widths(r, t)[k] = <<t.width, t.height, r.x \div 2 + k - 1>>
<1>1. r.height \in Nat /\ r.width \in Nat /\ r.frames \in Nat /\ r.x \in Nat /\ r.y \in Nat
  BY DEF Fits, IsReference
<1>2. t.height \in Nat /\ t.width \in Nat BY DEF Fits, IsTarget
<1>3. r.height \div 2 \in Nat /\ r.width \div 2 \in Nat BY <1>1, DividedNat
<1>4. RefVideoRows(r) = r.frames * ((r.height \div 2) * (r.width \div 2))
  <2> DEFINE a == r.height \div 2
             b == r.width \div 2
  <2>1. a \in Nat /\ b \in Nat BY <1>3
  <2> HIDE DEF a, b
  <2>2. RefVideoRows(r) = (r.frames * a) * b BY DEF RefVideoRows, a, b
  <2>3. (r.frames * a) * b = r.frames * (a * b) BY <1>1, <2>1, Spread
  <2>4. QED BY <2>2, <2>3 DEF a, b
<1>5. CASE ~IsPositioned(r)
  <2>1. Heights(r, t) = Axis(r.height, r.width) /\ Widths(r, t) = Axis(r.width, r.height)
    BY <1>5 DEF Heights, Widths
  <2>2. QED BY ONLY <1>1, <1>3, <1>4, <1>5, <2>1, AxisFacts
<1>6. CASE IsPositioned(r)
  <2>1. /\ r.height % 2 = 0 /\ r.width % 2 = 0 /\ r.x % 2 = 0 /\ r.y % 2 = 0
        /\ r.x + r.width <= t.width /\ r.y + r.height <= t.height
    BY <1>6 DEF IsPositioned, Fits, GuideFits
  <2>2. /\ Heights(r, t) = SubSeq(Axis(t.height, t.width), 1 + r.y \div 2, (r.y + r.height) \div 2)
        /\ Widths(r, t) = SubSeq(Axis(t.width, t.height), 1 + r.x \div 2, (r.x + r.width) \div 2)
    BY <1>6 DEF Heights, Widths
  <2>3. /\ Len(Heights(r, t)) = r.height \div 2
        /\ \A k \in 1 .. r.height \div 2 : Heights(r, t)[k] = <<t.height, t.width, r.y \div 2 + k - 1>>
    <3> DEFINE dim == t.height
               other == t.width
               y == r.y
               h == r.height
    <3>1. dim \in Nat /\ y \in Nat /\ h \in Nat /\ y % 2 = 0 /\ h % 2 = 0 /\ y + h <= dim
      BY <1>1, <1>2, <2>1
    <3> HIDE DEF dim, other, y, h
    <3>2. IsAxisPart(SubSeq(Axis(dim, other), 1 + y \div 2, (y + h) \div 2), dim, other, y \div 2, h \div 2)
      BY ONLY <3>1, PartOfAxis
    <3>3. IsAxisPart(Heights(r, t), dim, other, y \div 2, h \div 2)
      BY <2>2, <3>2 DEF dim, other, y, h
    <3>4. QED BY <3>3 DEF IsAxisPart, dim, other, y, h
  <2>4. /\ Len(Widths(r, t)) = r.width \div 2
        /\ \A k \in 1 .. r.width \div 2 : Widths(r, t)[k] = <<t.width, t.height, r.x \div 2 + k - 1>>
    <3> DEFINE dim == t.width
               other == t.height
               y == r.x
               h == r.width
    <3>1. dim \in Nat /\ y \in Nat /\ h \in Nat /\ y % 2 = 0 /\ h % 2 = 0 /\ y + h <= dim
      BY <1>1, <1>2, <2>1
    <3> HIDE DEF dim, other, y, h
    <3>2. IsAxisPart(SubSeq(Axis(dim, other), 1 + y \div 2, (y + h) \div 2), dim, other, y \div 2, h \div 2)
      BY ONLY <3>1, PartOfAxis
    <3>3. IsAxisPart(Widths(r, t), dim, other, y \div 2, h \div 2)
      BY <2>2, <3>2 DEF dim, other, y, h
    <3>4. QED BY <3>3 DEF IsAxisPart, dim, other, y, h
  <2>5. QED BY ONLY <1>1, <1>3, <1>4, <1>6, <2>3, <2>4
<1>7. QED BY <1>5, <1>6

-----------------------------------------------------------------------------
(* Where a reference's rows are placed.                                    *)

\* Where a reference's rows begin in time, on which axis, and the places they get.
Origin(p, r) == p.clock + (IF r.aligned THEN r.offset ELSE 0)
Heard(p, r) == IF r.aligned /\ r.audioOffset # <<>> THEN p.clock + r.audioOffset[1] ELSE Origin(p, r)
SoundWidths(r, t) == IF r.kind = "audio" THEN Axis(t.width, t.height) ELSE Axis(r.width, r.height)
Sound(p, r, t) == AudioAt(r.audio, Heard(p, r), SoundWidths(r, t))
Picture(p, r, t) == Grid(Heights(r, t), Widths(r, t), r.frames, Origin(p, r))

\* The places of an audio's two channels.
IsSound(u, n, origin, ws) ==
  /\ Len(u) = 2 * n
  /\ \A i \in 1 .. 2 * n : u[i] = <<origin + Clock * ((i - 1) % n), Nowhere, IF i <= n THEN ws[1] ELSE Last(ws)>>

\* An audio has two places for every latent.
LEMMA SoundLength ==
  ASSUME NEW n \in Nat, NEW origin, NEW ws
  PROVE  IsSound(AudioAt(n, origin, ws), n, origin, ws)
<1> DEFINE m == 2 * n
           At(i) == <<origin + Clock * ((i - 1) % n), Nowhere, IF i <= n THEN ws[1] ELSE Last(ws)>>
<1>1. m \in Nat OBVIOUS
<1>2. AudioAt(n, origin, ws) = [i \in 1 .. m |-> At(i)] BY DEF AudioAt
<1> HIDE DEF m, At
<1> DEFINE g == [i \in 1 .. m |-> At(i)]
<1>3. Len(g) = m /\ \A i \in 1 .. m : g[i] = At(i) BY <1>1
<1>4. QED BY <1>2, <1>3 DEF m, At, IsSound

\* A list is the rows of a grid of h by w patches.
IsGrid(u, hs, ws, h, w, frames, origin) ==
  /\ Len(u) = frames * (h * w)
  /\ \A i \in 1 .. frames * (h * w) :
       u[i] = <<origin + Elapsed((i - 1) \div (h * w)), hs[1 + ((i - 1) % (h * w)) \div w], ws[1 + ((i - 1) % w)]>>

\* A grid has a place for every patch of every frame.
LEMMA GridIsGrid ==
  ASSUME NEW hs, NEW ws, NEW h \in Nat, NEW w \in Nat, Len(hs) = h, Len(ws) = w,
         NEW frames \in Nat, NEW origin
  PROVE  IsGrid(Grid(hs, ws, frames, origin), hs, ws, h, w, frames, origin)
<1> DEFINE n == frames * (h * w)
<1>1. n \in Nat OBVIOUS
<1> HIDE DEF n
<1> DEFINE At(i) == <<origin + Elapsed((i - 1) \div (h * w)), hs[1 + ((i - 1) % (h * w)) \div w],
                      ws[1 + ((i - 1) % w)]>>
<1>2. Grid(hs, ws, frames, origin) = [i \in 1 .. n |-> At(i)] BY DEF Grid, n
<1> HIDE DEF At
<1> DEFINE g == [i \in 1 .. n |-> At(i)]
<1>3. Len(g) = n /\ \A i \in 1 .. n : g[i] = At(i) BY <1>1
<1>4. QED BY <1>2, <1>3 DEF n, At, IsGrid

\* A reference's frames have a place for every row.
LEMMA PictureLength ==
  ASSUME NEW r, NEW t, Fits(r, t), NEW p
  PROVE  IF r.kind = "audio" THEN RefVideoRows(r) = 0
         ELSE /\ Len(Picture(p, r, t)) = RefVideoRows(r)
              /\ \A i \in 1 .. RefVideoRows(r) :
                   /\ IsPlace(i, r.frames, r.height \div 2, r.width \div 2)
                   /\ Picture(p, r, t)[i] =
                        <<Origin(p, r) + Elapsed((i - 1) \div ((r.height \div 2) * (r.width \div 2))),
                          Heights(r, t)[1 + ((i - 1) % ((r.height \div 2) * (r.width \div 2))) \div (r.width \div 2)],
                          Widths(r, t)[1 + ((i - 1) % (r.width \div 2))]>>
<1>1. CASE r.kind = "audio" BY <1>1 DEF RefVideoRows
<1>2. CASE r.kind # "audio"
  <2> DEFINE h == r.height \div 2
             w == r.width \div 2
             frames == r.frames
             hs == Heights(r, t)
             ws == Widths(r, t)
             n == RefVideoRows(r)
  <2>1. h \in Nat /\ w \in Nat /\ frames \in Nat /\ Len(hs) = h /\ Len(ws) = w /\ n = frames * (h * w)
    BY <1>2, GridSizes
  <2>2. Picture(p, r, t) = Grid(hs, ws, frames, Origin(p, r)) BY DEF Picture
  <2> HIDE DEF h, w, frames, hs, ws, n
  <2>a. IsGrid(Grid(hs, ws, frames, Origin(p, r)), hs, ws, h, w, frames, Origin(p, r))
    BY ONLY <2>1, GridIsGrid
  <2>3. /\ Len(Picture(p, r, t)) = n
        /\ \A i \in 1 .. n :
             Picture(p, r, t)[i] =
               <<Origin(p, r) + Elapsed((i - 1) \div (h * w)), hs[1 + ((i - 1) % (h * w)) \div w],
                 ws[1 + ((i - 1) % w)]>>
    BY ONLY <2>1, <2>2, <2>a DEF IsGrid
  <2>4. \A i \in 1 .. n : IsPlace(i, frames, h, w) BY ONLY <2>1, PlaceInGrid
  <2>5. QED BY ONLY <1>2, <2>3, <2>4 DEF h, w, frames, hs, ws, n
<1>3. QED BY <1>1, <1>2

\* Placing a reference writes its rows and no other.
LEMMA PlaceAtStep ==
  ASSUME NEW r, NEW t, Fits(r, t), NEW p, NEW total \in Nat, DOMAIN p.at = 1 .. total, p.next \in Nat,
         NEW i \in 1 .. total
  PROVE  LET q == Place(p, r, t)
             first == p.next + RefAudioRows(r)
         IN /\ i - 1 < p.next => q.at[i] = p.at[i]
            /\ i - 1 >= q.next => q.at[i] = p.at[i]
            /\ i - 1 >= p.next /\ i - 1 < first => q.at[i] = Sound(p, r, t)[i - p.next]
            /\ i - 1 >= first /\ i - 1 < q.next => q.at[i] = Picture(p, r, t)[i - first]
<1> DEFINE q == Place(p, r, t)
           da == RefAudioRows(r)
           dv == RefVideoRows(r)
           next == p.next
           first == next + da
           seen == IF r.kind = "audio" THEN <<>> ELSE VideoAt(r, Origin(p, r), t)
           sounded == Written(p.at, next, Sound(p, r, t))
<1>1. IsReference(r) BY DEF Fits
<1>2. da \in Nat /\ dv \in Nat /\ r.audio \in Nat /\ da = 2 * r.audio
  BY <1>1, RowsOfReference DEF IsReference, RefAudioRows
<1>3. q.next = next + da + dv BY PlaceFields
<1>4. q.at = Written(sounded, first, seen) BY DEF Place, Sound, Heard, Origin, SoundWidths
<1>5. Len(Sound(p, r, t)) = da BY <1>2, SoundLength DEF Sound, IsSound
<1>6. Len(seen) = dv
  <2>1. CASE r.kind = "audio" BY <2>1, PictureLength
  <2>2. CASE r.kind # "audio"
    <3>1. Len(Picture(p, r, t)) = dv BY <2>2, PictureLength
    <3>2. seen = Picture(p, r, t) BY <2>2, VideoIsGrid DEF Picture
    <3>3. QED BY <3>1, <3>2
  <2>3. QED BY <2>1, <2>2
<1>7. dv # 0 => seen = Picture(p, r, t)
  <2>1. dv # 0 => r.kind # "audio" BY DEF RefVideoRows
  <2>2. r.kind # "audio" => seen = Picture(p, r, t) BY VideoIsGrid DEF Picture
  <2>3. QED BY <2>1, <2>2
<1>8. next \in Nat /\ first \in Nat BY <1>2
<1> DEFINE at == p.at
<1>9. DOMAIN at = 1 .. total OBVIOUS
<1>10. DOMAIN sounded = 1 .. total BY <1>9 DEF Written
<1> DEFINE heard == Sound(p, r, t)
<1> HIDE DEF q, da, dv, next, seen, sounded, heard, at
<1>11. sounded = Written(at, next, heard) /\ Len(heard) = da BY <1>5 DEF sounded, at, heard
<1>12. /\ i - 1 < next => sounded[i] = at[i]
       /\ i - 1 >= next + da => sounded[i] = at[i]
       /\ (i - 1 >= next /\ i - 1 < next + da) => sounded[i] = heard[i - next]
  BY ONLY SMTT(30), <1>2, <1>8, <1>9, <1>11, total \in Nat, i \in 1 .. total, WrittenAt
<1> HIDE DEF first
<1>13. /\ i - 1 < first => q.at[i] = sounded[i]
       /\ i - 1 >= first + dv => q.at[i] = sounded[i]
       /\ (i - 1 >= first /\ i - 1 < first + dv) => q.at[i] = seen[i - first]
  BY ONLY <1>2, <1>4, <1>6, <1>8, <1>10, total \in Nat, i \in 1 .. total, WrittenAt
<1>14. first = next + da /\ i - 1 \in Int BY DEF first
<1>15. /\ i - 1 < next => q.at[i] = at[i]
       /\ i - 1 >= q.next => q.at[i] = at[i]
       /\ i - 1 >= next /\ i - 1 < first => q.at[i] = heard[i - next]
       /\ i - 1 >= first /\ i - 1 < q.next => dv # 0 /\ q.at[i] = seen[i - first]
  BY ONLY <1>2, <1>3, <1>8, <1>12, <1>13, <1>14
<1>16. QED BY <1>7, <1>15 DEF q, next, da, first, at, heard

-----------------------------------------------------------------------------
(* Where the target's rows are placed.                                     *)

\* The place of one row of the target.
SoundPlace(l, c, x) ==
  <<c + Clock * ((x - 1) % l.audio), Nowhere,
    IF x <= l.audio THEN Axis(l.width, l.height)[1] ELSE Last(Axis(l.width, l.height))>>
PicturePlace(l, c, x) ==
  <<c + Elapsed((x - 1) \div RowsPerFrame(l)),
    <<l.height, l.width, ((x - 1) % RowsPerFrame(l)) \div (l.width \div 2)>>,
    <<l.width, l.height, (x - 1) % (l.width \div 2)>> >>

\* The target's rows of a sequence, from the time c on.
TargetAt(s, c) ==
  LET l == s.layout
  IN /\ \A x \in 1 .. 2 * l.audio : s.at[AudioStart(l) + x] = SoundPlace(l, c, x)
     /\ \A x \in 1 .. VideoRows(l) : s.at[VideoStart(l) + x] = PicturePlace(l, c, x)

\* A row of the target's picture is a patch of one of its frames.
LEMMA PatchOfRow ==
  ASSUME NEW l, IsLayout(l), NEW x \in 1 .. VideoRows(l)
  PROVE  /\ IsPlace(x, l.frames, l.height \div 2, l.width \div 2)
         /\ RowsPerFrame(l) = (l.height \div 2) * (l.width \div 2)
         /\ ((x - 1) % RowsPerFrame(l)) % (l.width \div 2) = (x - 1) % (l.width \div 2)
<1> DEFINE h == l.height \div 2
           w == l.width \div 2
<1>1. h \in Nat \ {0} /\ w \in Nat \ {0} /\ l.frames \in Nat \ {0} BY Halved DEF IsLayout
<1>2. RowsPerFrame(l) = h * w /\ VideoRows(l) = l.frames * (h * w) BY DEF RowsPerFrame, VideoRows
<1> HIDE DEF h, w
<1> DEFINE n == l.frames
           m == n * (h * w)
<1>3. n \in Nat /\ h \in Nat /\ w \in Nat /\ x \in 1 .. m BY <1>1, <1>2
<1> HIDE DEF n
<1>4. IsPlace(x, n, h, w) BY ONLY <1>3, PlaceInGrid
<1>5. ((x - 1) % (h * w)) % w = (x - 1) % w
  <2>1. x - 1 \in Int
    <3>1. m \in Nat BY <1>3
    <3> HIDE DEF m
    <3>2. QED BY <1>3, <3>1
  <2> DEFINE a == x - 1
  <2> HIDE DEF a
  <2>2. a \in Int BY <2>1 DEF a
  <2>3. DividesTwice(a, h, w) BY ONLY <1>1, <2>2, DividedTwice
  <2>4. QED BY <2>3 DEF a, DividesTwice
<1>6. QED BY <1>2, <1>4, <1>5 DEF h, w, n

\* Without references the target's rows begin where the text ends.
LEMMA PlainTarget ==
  ASSUME NEW t, IsTarget(t)
  PROVE  /\ TargetAt(Plain(t), Clock * t.text)
         /\ \A i \in 1 .. t.text : Plain(t).at[i] = <<Clock * (i - 1), Nowhere, Nowhere>>
         /\ Plain(t).layout = PlainLayout(t) /\ IsLayout(PlainLayout(t))
<1> DEFINE l == PlainLayout(t)
           s == Plain(t)
           A == AudioStart(l)
           V == VideoStart(l)
           E == TotalRows(l)
           n == VideoRows(l)
           P == RowsPerFrame(l)
           h == t.height \div 2
           w == t.width \div 2
           hs == Axis(t.height, t.width)
           ws == Axis(t.width, t.height)
<1>1. /\ l.text = t.text /\ l.conditionVideo = 0 /\ l.conditionAudio = 0
      /\ l.frames = t.frames /\ l.height = t.height /\ l.width = t.width /\ l.audio = t.audio
  BY DEF PlainLayout
<1>2. s.layout = l /\ s.at = [i \in 1 .. E |-> PlainAt(t, i - 1)] BY DEF Plain
<1>3. \A row : PlainAt(t, row) =
        CASE row < t.text -> <<Clock * row, Nowhere, Nowhere>>
          [] row \in t.text .. V - 1 ->
               <<Clock * (t.text + ((row - A) % t.audio)), Nowhere, IF row - A < t.audio THEN ws[1] ELSE Last(ws)>>
          [] OTHER -> <<Clock * t.text + Elapsed((row - V) \div P), hs[1 + ((row - V) % P) \div Len(ws)],
                        ws[1 + (((row - V) % P) % Len(ws))]>>
  BY DEF PlainAt
<1> HIDE DEF l, s
<1>4. IsLayout(l) BY ONLY <1>1, IsTarget(t), TargetLayout, 0 \in Nat
<1>5. /\ n \in Nat \ {0} /\ A \in Nat /\ V \in Nat /\ E \in Nat /\ t.text \in Nat /\ t.audio \in Nat
      /\ A = t.text /\ V = A + 2 * t.audio /\ E = V + n
  <2>1. /\ n \in Nat \ {0} /\ A \in Nat /\ V \in Nat /\ E \in Nat
        /\ A = l.text + l.conditionVideo + l.conditionAudio /\ V = A + 2 * l.audio /\ E = V + n
    BY ONLY <1>4, LayoutNumbers
  <2>2. t.text \in Nat /\ t.audio \in Nat BY DEF IsTarget
  <2> HIDE DEF A, V, E, n
  <2>3. QED BY ONLY <1>1, <2>1, <2>2
<1>6. /\ h \in Nat /\ w \in Nat /\ Len(hs) = h /\ Len(ws) = w
      /\ (\A k \in 1 .. h : hs[k] = <<t.height, t.width, k - 1>>)
      /\ (\A k \in 1 .. w : ws[k] = <<t.width, t.height, k - 1>>)
  <2>1. t.height \in Nat /\ t.width \in Nat BY DEF IsTarget
  <2>2. QED BY <2>1, AxisFacts
<1> HIDE DEF A, V, E, n, P, hs, ws
<1>7. ASSUME NEW i \in 1 .. t.text PROVE s.at[i] = <<Clock * (i - 1), Nowhere, Nowhere>>
  <2>1. i \in 1 .. E /\ i - 1 < t.text /\ i - 1 \notin t.text .. V - 1
    BY ONLY <1>5, i \in 1 .. t.text
  <2>2. s.at[i] = PlainAt(t, i - 1) BY ONLY <1>2, <2>1
  <2>3. QED BY ONLY <1>3, <2>1, <2>2
<1>8. ASSUME NEW x \in 1 .. 2 * t.audio PROVE s.at[A + x] = SoundPlace(l, Clock * t.text, x)
  <2> DEFINE i == A + x
             row == i - 1
  <2>1. /\ i \in 1 .. E /\ ~(row < t.text) /\ row \in t.text .. V - 1
        /\ row - A = x - 1 /\ (row - A < t.audio <=> x <= t.audio)
    BY ONLY <1>5, x \in 1 .. 2 * t.audio
  <2>2. s.at[i] = PlainAt(t, row) BY ONLY <1>2, <2>1
  <2> HIDE DEF row, i
  <2>3. PlainAt(t, row) = <<Clock * (t.text + ((x - 1) % t.audio)), Nowhere, IF x <= t.audio THEN ws[1] ELSE Last(ws)>>
    BY ONLY <1>3, <2>1
  <2>4. Clock * (t.text + ((x - 1) % t.audio)) = Clock * t.text + Clock * ((x - 1) % t.audio)
    <3>1. t.audio \in Nat \ {0} /\ x - 1 \in Int BY ONLY <1>5, x \in 1 .. 2 * t.audio
    <3> DEFINE y == (x - 1) % t.audio
    <3>2. y \in Int BY ONLY <3>1, Divided
    <3> HIDE DEF y
    <3>3. Clock * (t.text + y) = Clock * t.text + Clock * y BY ONLY <3>2, <1>5, Spread DEF Clock
    <3>4. QED BY <3>3 DEF y
  <2>5. QED BY <1>1, <2>2, <2>3, <2>4 DEF SoundPlace, ws, i
<1>9. ASSUME NEW x \in 1 .. n PROVE s.at[V + x] = PicturePlace(l, Clock * t.text, x)
  <2> DEFINE i == V + x
             row == i - 1
  <2>1. i \in 1 .. E /\ ~(row < t.text) /\ row \notin t.text .. V - 1 /\ row - V = x - 1
    BY ONLY <1>5, x \in 1 .. n
  <2>2. s.at[i] = PlainAt(t, row) BY ONLY <1>2, <2>1
  <2> HIDE DEF row, i
  <2>3. PlainAt(t, row) = <<Clock * t.text + Elapsed((x - 1) \div P), hs[1 + ((x - 1) % P) \div w],
                            ws[1 + (((x - 1) % P) % w)]>>
    BY ONLY <1>3, <1>6, <2>1
  <2>4. IsPlace(x, t.frames, h, w) /\ P = h * w /\ ((x - 1) % P) % w = (x - 1) % w
    <3>1. x \in 1 .. VideoRows(l) BY DEF n
    <3>2. IsPlace(x, l.frames, l.height \div 2, l.width \div 2)
         /\ RowsPerFrame(l) = (l.height \div 2) * (l.width \div 2)
         /\ ((x - 1) % RowsPerFrame(l)) % (l.width \div 2) = (x - 1) % (l.width \div 2)
      BY ONLY <1>4, <3>1, PatchOfRow
    <3>3. QED BY <1>1, <3>2 DEF P
  <2> DEFINE y == ((x - 1) % P) \div w
             z == (x - 1) % w
  <2>5. y \in 0 .. h - 1 /\ z \in 0 .. w - 1 BY <2>4 DEF IsPlace
  <2> HIDE DEF y, z
  <2>6. hs[1 + y] = <<t.height, t.width, y>> /\ ws[1 + z] = <<t.width, t.height, z>>
    <3>1. 1 + y \in 1 .. h /\ (1 + y) - 1 = y /\ 1 + z \in 1 .. w /\ (1 + z) - 1 = z
      BY ONLY <1>6, <2>5
    <3>2. QED BY ONLY <1>6, <3>1
  <2>7. s.at[V + x] = <<Clock * t.text + Elapsed((x - 1) \div P), <<t.height, t.width, y>>, <<t.width, t.height, z>> >>
    BY <2>2, <2>3, <2>4, <2>6 DEF y, z, i
  <2>8. QED BY <1>1, <2>7 DEF PicturePlace, P, y, z
<1>10. TargetAt(s, Clock * t.text) BY <1>1, <1>2, <1>8, <1>9 DEF TargetAt, A, V, n
<1>11. QED BY <1>2, <1>4, <1>7, <1>10 DEF s, l

\* How long an axis is.
LEMMA AxisLength ==
  ASSUME NEW dim \in Nat, NEW other
  PROVE  dim \div 2 \in Nat /\ Len(Axis(dim, other)) = dim \div 2
BY AxisFacts

\* The target behind what is placed.
LEMMA AssembledAt ==
  ASSUME NEW t, IsTarget(t), NEW l, IsLayout(l),
         l.text = t.text, l.frames = t.frames, l.height = t.height, l.width = t.width, l.audio = t.audio,
         NEW p, p.next = AudioStart(l), DOMAIN p.at = 1 .. TotalRows(l)
  PROVE  /\ TargetAt(Assembled(t, l, p), p.clock)
         /\ Assembled(t, l, p).layout = l
         /\ \A i \in 1 .. AudioStart(l) : Assembled(t, l, p).at[i] = p.at[i]
<1> DEFINE s == Assembled(t, l, p)
           c == p.clock
           A == AudioStart(l)
           V == VideoStart(l)
           E == TotalRows(l)
           n == VideoRows(l)
           m == 2 * t.audio
           P == RowsPerFrame(l)
           h == t.height \div 2
           w == t.width \div 2
           hs == Axis(t.height, t.width)
           ws == Axis(t.width, t.height)
           heard == AudioAt(t.audio, c, ws)
           seen == Grid(hs, ws, t.frames, c)
           at == p.at
           sounded == Written(at, A, heard)
<1>1. /\ n \in Nat \ {0} /\ A \in Nat /\ V \in Nat /\ E \in Nat /\ t.audio \in Nat /\ m \in Nat
      /\ V = A + m /\ E = V + n /\ t.frames \in Nat
  <2>1. n \in Nat \ {0} /\ A \in Nat /\ V \in Nat /\ E \in Nat /\ V = A + 2 * l.audio /\ E = V + n
    BY LayoutNumbers
  <2>2. t.audio \in Nat /\ t.frames \in Nat BY DEF IsTarget
  <2> HIDE DEF A, V, E, n
  <2>3. QED BY <2>1, <2>2
<1>2. /\ h \in Nat /\ w \in Nat /\ Len(hs) = h /\ Len(ws) = w
      /\ (\A k \in 1 .. h : hs[k] = <<t.height, t.width, k - 1>>)
      /\ (\A k \in 1 .. w : ws[k] = <<t.width, t.height, k - 1>>)
  <2>1. t.height \in Nat /\ t.width \in Nat BY DEF IsTarget
  <2>2. QED BY <2>1, AxisFacts
<1>3. P = h * w /\ n = t.frames * (h * w) BY DEF RowsPerFrame, VideoRows
<1>4. s.layout = l /\ s.at = Written(sounded, V, seen)
  <2> DEFINE target == [kind |-> "video", frames |-> t.frames, height |-> t.height, width |-> t.width,
                        audio |-> 0, aligned |-> FALSE]
  <2>1. s.layout = l /\ s.at = Written(sounded, p.next + m, VideoAt(target, c, t)) BY DEF Assembled
  <2>2. VideoAt(target, c, t) = Grid(Heights(target, t), Widths(target, t), target.frames, c)
    BY VideoIsGrid
  <2>3. Heights(target, t) = hs /\ Widths(target, t) = ws /\ target.frames = t.frames
    BY DEF Heights, Widths, IsPositioned
  <2>4. QED BY <2>1, <2>2, <2>3, <1>1
<1>5. IsGrid(seen, hs, ws, h, w, t.frames, c)
  <2> HIDE DEF h, w, hs, ws, c
  <2>1. QED BY ONLY <1>1, <1>2, GridIsGrid
<1>6. /\ Len(heard) = m
      /\ \A x \in 1 .. m :
           heard[x] = <<c + Clock * ((x - 1) % t.audio), Nowhere, IF x <= t.audio THEN ws[1] ELSE Last(ws)>>
  <2> HIDE DEF ws, c
  <2>1. IsSound(heard, t.audio, c, ws) BY ONLY <1>1, SoundLength
  <2>2. QED BY <2>1 DEF IsSound
<1>7. DOMAIN at = 1 .. E OBVIOUS
<1>8. DOMAIN sounded = 1 .. E BY <1>7 DEF Written
<1> HIDE DEF s, c, A, V, E, n, m, P, h, w, hs, ws, heard, at, seen
<1>9. Len(seen) = n BY <1>3, <1>5 DEF IsGrid
<1>10. ASSUME NEW i \in 1 .. E
       PROVE  /\ i - 1 < A => s.at[i] = at[i]
              /\ i - 1 >= A /\ i - 1 < V => s.at[i] = heard[i - A]
              /\ i - 1 >= V /\ i - 1 < V + n => s.at[i] = seen[i - V]
  <2>1. /\ i - 1 < A => sounded[i] = at[i]
        /\ i - 1 >= A + m => sounded[i] = at[i]
        /\ (i - 1 >= A /\ i - 1 < A + m) => sounded[i] = heard[i - A]
    BY ONLY <1>1, <1>6, <1>7, i \in 1 .. E, WrittenAt
  <2> HIDE DEF sounded
  <2>2. /\ i - 1 < V => s.at[i] = sounded[i]
        /\ i - 1 >= V + n => s.at[i] = sounded[i]
        /\ (i - 1 >= V /\ i - 1 < V + n) => s.at[i] = seen[i - V]
    BY ONLY <1>1, <1>4, <1>8, <1>9, i \in 1 .. E, WrittenAt
  <2>3. QED BY ONLY <1>1, <2>1, <2>2, i \in 1 .. E
<1>11. ASSUME NEW x \in 1 .. m PROVE s.at[A + x] = SoundPlace(l, c, x)
  <2> DEFINE i == A + x
  <2>1. i \in 1 .. E /\ i - 1 >= A /\ i - 1 < V /\ i - A = x BY ONLY <1>1, x \in 1 .. m
  <2> HIDE DEF i
  <2>2. s.at[i] = heard[x] BY ONLY <1>10, <2>1
  <2>3. QED BY <1>6, <2>2 DEF i, SoundPlace, ws
<1>12. ASSUME NEW x \in 1 .. n PROVE s.at[V + x] = PicturePlace(l, c, x)
  <2> DEFINE i == V + x
  <2>1. i \in 1 .. E /\ i - 1 >= V /\ i - 1 < V + n /\ i - V = x BY ONLY <1>1, x \in 1 .. n
  <2> HIDE DEF i
  <2>2. s.at[i] = seen[x] BY ONLY <1>10, <2>1
  <2>3. seen[x] = <<c + Elapsed((x - 1) \div (h * w)), hs[1 + ((x - 1) % (h * w)) \div w], ws[1 + ((x - 1) % w)]>>
    BY <1>3, <1>5 DEF IsGrid
  <2>4. IsPlace(x, t.frames, h, w)
    <3>1. x \in 1 .. VideoRows(l) BY DEF n
    <3>2. IsPlace(x, l.frames, l.height \div 2, l.width \div 2) BY <3>1, PatchOfRow
    <3>3. QED BY <3>2 DEF h, w
  <2> DEFINE y == ((x - 1) % (h * w)) \div w
             z == (x - 1) % w
  <2>5. y \in 0 .. h - 1 /\ z \in 0 .. w - 1 BY <2>4 DEF IsPlace
  <2> HIDE DEF y, z
  <2>6. hs[1 + y] = <<t.height, t.width, y>> /\ ws[1 + z] = <<t.width, t.height, z>>
    <3>1. 1 + y \in 1 .. h /\ (1 + y) - 1 = y /\ 1 + z \in 1 .. w /\ (1 + z) - 1 = z
      BY ONLY <1>2, <2>5
    <3>2. QED BY ONLY <1>2, <3>1
  <2>7. s.at[V + x] = <<c + Elapsed((x - 1) \div P), <<t.height, t.width, y>>, <<t.width, t.height, z>> >>
    BY <1>3, <2>2, <2>3, <2>6 DEF y, z, i
  <2>8. QED BY <1>3, <2>7 DEF PicturePlace, P, h, w, y, z
<1>13. TargetAt(s, c) BY <1>4, <1>11, <1>12 DEF TargetAt, A, V, n, m
<1>14. \A i \in 1 .. A : s.at[i] = at[i]
  <2> TAKE i \in 1 .. A
  <2>1. i \in 1 .. E /\ i - 1 < A BY ONLY <1>1, i \in 1 .. A
  <2>2. QED BY ONLY <1>10, <2>1
<1>15. QED BY <1>4, <1>13, <1>14 DEF s, c, A, at

-----------------------------------------------------------------------------
(* One frame more.                                                         *)

\* A list of so many elements.
IsTuple(u, n) == u = [i \in 1 .. n |-> u[i]]

\* It is a sequence of some set.
LEMMA ListIsSequence ==
  ASSUME NEW u, NEW n \in Nat, IsTuple(u, n)
  PROVE  \E S : u \in Seq(S) /\ Len(u) = n
<1> DEFINE S == {u[i] : i \in 1 .. n}
           v == [i \in 1 .. n |-> u[i]]
<1>1. v \in [1 .. n -> S] OBVIOUS
<1>2. u = v BY DEF IsTuple
<1> HIDE DEF S, v
<1>3. u \in [1 .. n -> S] BY <1>1, <1>2
<1>4. u \in Seq(S) /\ Len(u) = n BY ONLY <1>3, n \in Nat, FunctionIsSequence
<1>5. QED BY <1>4

\* A list that has what another has, and then what a third has, is the two joined.
Joins(u, s, n, r, k) ==
  /\ IsTuple(s, n) /\ IsTuple(r, k) /\ IsTuple(u, n + k)
  /\ \A i \in 1 .. n : u[i] = s[i]
  /\ \A i \in 1 .. k : u[n + i] = r[i]

\* Such a list is the two joined.
LEMMA JoinedIs ==
  ASSUME NEW n \in Nat, NEW k \in Nat, NEW s, NEW r, NEW u, Joins(u, s, n, r, k)
  PROVE  u = s \o r
<1>0. /\ IsTuple(s, n) /\ IsTuple(r, k) /\ IsTuple(u, n + k)
      /\ (\A i \in 1 .. n : u[i] = s[i]) /\ (\A i \in 1 .. k : u[n + i] = r[i])
  BY DEF Joins
<1>1. PICK S : s \in Seq(S) /\ Len(s) = n BY <1>0, ListIsSequence
<1>2. PICK T : r \in Seq(T) /\ Len(r) = k BY <1>0, ListIsSequence
<1> DEFINE W == S \cup T
           j == s \o r
<1>3. s \in Seq(W) /\ r \in Seq(W)
  <2>1. S \subseteq W /\ T \subseteq W OBVIOUS
  <2> HIDE DEF W
  <2>2. QED BY <1>1, <1>2, <2>1
<1>4. j \in Seq(W) /\ Len(j) = n + k /\ (\A i \in 1 .. n : j[i] = s[i]) /\ (\A i \in 1 .. k : j[n + i] = r[i])
  <2> HIDE DEF W
  <2>1. QED BY <1>1, <1>2, <1>3
<1> DEFINE m == n + k
<1>5. ASSUME NEW i \in 1 .. m PROVE u[i] = j[i]
  <2>1. CASE i <= n
    <3>1. i \in 1 .. n BY <2>1
    <3> HIDE DEF j
    <3>2. QED BY <1>0, <1>4, <3>1
  <2>2. CASE ~(i <= n)
    <3> DEFINE x == i - n
    <3>1. x \in 1 .. k /\ i = n + x BY <2>2
    <3> HIDE DEF x, j
    <3>2. QED BY <1>0, <1>4, <3>1
  <2>3. QED BY <2>1, <2>2
<1>6. j = [i \in 1 .. m |-> j[i]]
  <2> HIDE DEF W, j
  <2>1. j \in [1 .. m -> W] BY ONLY <1>4, SequenceIsFunction
  <2>2. QED BY <2>1
<1>7. u = [i \in 1 .. m |-> u[i]] BY <1>0 DEF IsTuple
<1> HIDE DEF j, m
<1>8. [i \in 1 .. m |-> u[i]] = [i \in 1 .. m |-> j[i]] BY <1>5
<1>9. QED BY <1>6, <1>7, <1>8 DEF j

\* Rows from one on, in two parts.
LEMMA RowsSplit ==
  ASSUME NEW f \in Nat, NEW n \in Nat, NEW k \in Nat
  PROVE  Rows(f, n + k) = Rows(f, n) \o Rows(f + n, k)
<1> DEFINE s == Rows(f, n)
           r == Rows(f + n, k)
           u == Rows(f, n + k)
<1>1. s = [i \in 1 .. n |-> f + i - 1] /\ r = [i \in 1 .. k |-> (f + n) + i - 1] /\ u = [i \in 1 .. n + k |-> f + i - 1]
  BY DEF Rows
<1>2. IsTuple(s, n) /\ IsTuple(r, k) /\ IsTuple(u, n + k) BY <1>1 DEF IsTuple
<1>3. (\A i \in 1 .. n : u[i] = s[i]) /\ (\A i \in 1 .. k : u[n + i] = r[i]) BY SMTT(30), <1>1
<1> HIDE DEF s, r, u
<1>4. u = s \o r
  <2>1. Joins(u, s, n, r, k) BY <1>2, <1>3 DEF Joins
  <2>2. QED BY ONLY <2>1, n \in Nat, k \in Nat, JoinedIs
<1>5. QED BY <1>4 DEF s, r, u

\* The fields of a packed sequence.
IsPackedRecord(s) ==
  s = [layout |-> s.layout, segments |-> s.segments, sound |-> s.sound, video |-> s.video, tags |-> s.tags, at |-> s.at]

\* The sequence u is s with a frame more.
IsLonger(u, s) ==
  LET l == s.layout
  IN /\ IsPackedRecord(s) /\ IsPackedRecord(u)
     /\ u.layout = [l EXCEPT !.frames = @ + 1] /\ "frames" \in DOMAIN l
     /\ u.segments = s.segments /\ u.sound = s.sound
     /\ u.video = s.video \o Rows(TotalRows(l), RowsPerFrame(l))
     /\ IsTuple(s.at, TotalRows(l)) /\ IsTuple(u.at, TotalRows(l) + RowsPerFrame(l))
     /\ \A i \in 1 .. AudioStart(l) : u.at[i] = s.at[i]

\* A layout with a frame more.
LEMMA LongerLayout ==
  ASSUME NEW l, IsLayout(l), "frames" \in DOMAIN l, NEW k, k = [l EXCEPT !.frames = @ + 1]
  PROVE  /\ k.text = l.text /\ k.conditionVideo = l.conditionVideo /\ k.conditionAudio = l.conditionAudio
         /\ k.audio = l.audio /\ k.height = l.height /\ k.width = l.width /\ k.frames = l.frames + 1
         /\ RowsPerFrame(k) = RowsPerFrame(l) /\ AudioStart(k) = AudioStart(l) /\ VideoStart(k) = VideoStart(l)
         /\ VideoRows(k) = VideoRows(l) + RowsPerFrame(l) /\ TotalRows(k) = TotalRows(l) + RowsPerFrame(l)
         /\ VideoRows(l) = RowsPerFrame(l) * l.frames
<1>1. /\ k.text = l.text /\ k.conditionVideo = l.conditionVideo /\ k.conditionAudio = l.conditionAudio
      /\ k.audio = l.audio /\ k.height = l.height /\ k.width = l.width /\ k.frames = l.frames + 1
  OBVIOUS
<1>2. RowsPerFrame(k) = RowsPerFrame(l) /\ AudioStart(k) = AudioStart(l) /\ VideoStart(k) = VideoStart(l)
  BY <1>1 DEF RowsPerFrame, AudioStart, VideoStart
<1>3. l.frames \in Nat /\ RowsPerFrame(l) \in Nat /\ VideoStart(l) \in Nat
  BY LayoutNumbers DEF IsLayout
<1>4. VideoRows(k) = VideoRows(l) + RowsPerFrame(l) /\ VideoRows(l) = RowsPerFrame(l) * l.frames
      /\ VideoRows(l) \in Nat
  <2> DEFINE p == RowsPerFrame(l)
             f == l.frames
  <2>1. VideoRows(k) = (f + 1) * p /\ VideoRows(l) = f * p BY <1>1, <1>2 DEF VideoRows
  <2>2. p \in Nat /\ f \in Nat BY <1>3
  <2> HIDE DEF p, f
  <2>3. (f + 1) * p = f * p + p /\ f * p = p * f /\ f * p \in Nat BY <2>2
  <2>4. QED BY <2>1, <2>3 DEF p, f
<1>5. TotalRows(k) = TotalRows(l) + RowsPerFrame(l)
  <2>1. TotalRows(k) = VideoStart(l) + VideoRows(k) /\ TotalRows(l) = VideoStart(l) + VideoRows(l)
    BY <1>2 DEF TotalRows
  <2>2. QED BY <2>1, <1>3, <1>4
<1>6. QED BY <1>1, <1>2, <1>4, <1>5

\* Patch i of frame f is row f * p + i of the picture.
LEMMA PictureOfFrame ==
  ASSUME NEW l, IsLayout(l), NEW c, NEW f \in Nat, NEW i \in 1 .. RowsPerFrame(l)
  PROVE  PicturePlace(l, c, RowsPerFrame(l) * f + i) =
           <<c + Elapsed(f), <<l.height, l.width, (i - 1) \div (l.width \div 2)>>,
             <<l.width, l.height, (i - 1) % (l.width \div 2)>> >>
<1> DEFINE p == RowsPerFrame(l)
           h == l.height \div 2
           w == l.width \div 2
           x == p * f + i
<1>1. h \in Nat \ {0} /\ w \in Nat \ {0} /\ p = h * w /\ p \in Nat \ {0}
  BY Halved, LayoutNumbers DEF IsLayout, RowsPerFrame
<1> HIDE DEF p, h, w
<1>2. i - 1 \in Int /\ 0 <= i - 1 /\ i - 1 < p /\ x - 1 = p * f + (i - 1) /\ f \in Int /\ x - 1 \in Int
  <2>1. p * f \in Int BY <1>1, Spread
  <2> DEFINE y == p * f
  <2> HIDE DEF y
  <2>2. y \in Int /\ i \in 1 .. p /\ p \in Nat BY <1>1, <2>1 DEF y, p
  <2>3. i - 1 \in Int /\ 0 <= i - 1 /\ i - 1 < p /\ (y + i) - 1 = y + (i - 1) /\ (y + i) - 1 \in Int
    BY ONLY <2>2
  <2>4. QED BY <2>3 DEF y
<1> DEFINE r == i - 1
           a == x - 1
<1> HIDE DEF r, x, a
<1>3. a = p * f + r /\ r \in Int /\ 0 <= r /\ r < p /\ f \in Int /\ a \in Int BY <1>2 DEF r, a
<1>4. a \div p = f /\ a % p = r BY ONLY <1>1, <1>3, DividedOnce
<1>5. a % w = r % w
  <2>1. DividesTwice(a, h, w) BY ONLY <1>1, <1>3, DividedTwice
  <2>2. QED BY <1>1, <1>4, <2>1 DEF DividesTwice
<1>6. PicturePlace(l, c, x) = <<c + Elapsed(f), <<l.height, l.width, r \div w>>, <<l.width, l.height, r % w>> >>
  BY <1>4, <1>5 DEF PicturePlace, a, p, w
<1>7. QED BY <1>6 DEF x, r, p, w

\* A longer sequence has the tags of the shorter and the video's behind.
LEMMA LongerTags ==
  ASSUME NEW s, NEW u, NEW text, Ordered(s, text), Ordered(u, text), IsLonger(u, s)
  PROVE  u.tags = s.tags \o [i \in 1 .. RowsPerFrame(s.layout) |-> TagVideo]
<1> DEFINE l == s.layout
           E == TotalRows(l)
           p == RowsPerFrame(l)
           tail == [i \in 1 .. p |-> TagVideo]
           S == ToSet(s.sound)
           tag(i) == IF i <= l.text THEN text[i] ELSE IF i - 1 \in S THEN TagAudio ELSE TagVideo
<1>1. /\ s.tags = [i \in 1 .. E |-> tag(i)] /\ S \subseteq l.text .. E - 1
      /\ IsLayout(l)
  BY DEF Ordered
<1>2. TotalRows(u.layout) = E + p /\ u.layout.text = l.text BY <1>1, LongerLayout DEF IsLonger
<1>3. u.tags = [i \in 1 .. E + p |-> tag(i)] BY <1>2 DEF Ordered, IsLonger
<1>4. E \in Nat /\ p \in Nat /\ l.text \in Nat /\ l.text <= E
  <2>1. /\ E \in Nat /\ p \in Nat /\ AudioStart(l) = l.text + l.conditionVideo + l.conditionAudio
        /\ VideoStart(l) = AudioStart(l) + 2 * l.audio /\ E = VideoStart(l) + VideoRows(l) /\ VideoRows(l) \in Nat
    BY <1>1, LayoutNumbers
  <2>2. {l.text, l.conditionVideo, l.conditionAudio, l.audio} \subseteq Nat BY <1>1 DEF IsLayout
  <2> HIDE DEF E, p, l
  <2>3. QED BY ONLY <2>1, <2>2
<1> DEFINE a == s.tags
           b == u.tags
<1> HIDE DEF l, E, p, S
<1>5. \A i \in 1 .. p : tag(E + i) = TagVideo BY <1>1, <1>4
<1> HIDE DEF tag
<1>6. IsTuple(a, E) /\ IsTuple(b, E + p) /\ IsTuple(tail, p) BY <1>1, <1>3 DEF IsTuple
<1>7. (\A i \in 1 .. E : b[i] = a[i]) /\ (\A i \in 1 .. p : b[E + i] = tail[i])
  <2>1. \A i \in 1 .. E : i \in 1 .. E + p BY ONLY <1>4
  <2>2. \A i \in 1 .. p : E + i \in 1 .. E + p BY ONLY <1>4
  <2>3. QED BY <1>1, <1>3, <1>5, <2>1, <2>2 DEF a, b
<1> HIDE DEF a, b, tail
<1>8. b = a \o tail
  <2>1. Joins(b, a, E, tail, p) BY <1>6, <1>7 DEF Joins
  <2>2. QED BY ONLY <1>4, <2>1, JoinedIs
<1>9. QED BY <1>8 DEF a, b, tail, p, l

\* Its places are those of the shorter, and those of one frame more behind.
LEMMA LongerPlaces ==
  ASSUME NEW s, NEW u, NEW text, Ordered(s, text), Ordered(u, text), IsLonger(u, s),
         NEW c \in Int, TargetAt(s, c), TargetAt(u, c)
  PROVE  LET l == s.layout
             E == TotalRows(l)
             p == RowsPerFrame(l)
             later(place) == <<place[1] + Span(l.frames - 1), place[2], place[3]>>
         IN u.at = s.at \o [i \in 1 .. p |-> later(s.at[E - p + i])]
<1> DEFINE l == s.layout
           k == u.layout
           A == AudioStart(l)
           V == VideoStart(l)
           E == TotalRows(l)
           n == VideoRows(l)
           p == RowsPerFrame(l)
           f == l.frames
           later(place) == <<place[1] + Span(f - 1), place[2], place[3]>>
           tail == [i \in 1 .. p |-> later(s.at[E - p + i])]
           m == 2 * l.audio
<1>1. IsLayout(l) BY DEF Ordered
<1>2. /\ k.audio = l.audio /\ k.height = l.height /\ k.width = l.width /\ RowsPerFrame(k) = p
      /\ AudioStart(k) = A /\ VideoStart(k) = V /\ VideoRows(k) = n + p /\ n = p * f
  BY <1>1, LongerLayout DEF IsLonger
<1>3. A \in Nat /\ V \in Nat /\ E \in Nat /\ n \in Nat /\ p \in Nat \ {0} /\ f \in Nat \ {0} /\ m \in Nat
      /\ V = A + m /\ E = V + n
  BY <1>1, LayoutNumbers DEF IsLayout
<1>4. /\ \A x \in 1 .. m : s.at[A + x] = SoundPlace(l, c, x)
      /\ \A x \in 1 .. n : s.at[V + x] = PicturePlace(l, c, x)
  BY DEF TargetAt
<1>5. /\ \A x \in 1 .. m : u.at[A + x] = SoundPlace(k, c, x)
      /\ \A x \in 1 .. n + p : u.at[V + x] = PicturePlace(k, c, x)
  BY <1>2 DEF TargetAt
<1>6. \A x : SoundPlace(k, c, x) = SoundPlace(l, c, x) /\ PicturePlace(k, c, x) = PicturePlace(l, c, x)
  BY <1>2 DEF SoundPlace, PicturePlace
<1> DEFINE a == s.at
           b == u.at
<1>7. IsTuple(a, E) /\ IsTuple(b, E + p) /\ \A i \in 1 .. A : b[i] = a[i] BY DEF IsLonger
<1>8. \A i \in 1 .. p : /\ PicturePlace(l, c, p * f + i) =
                             <<c + Elapsed(f), <<l.height, l.width, (i - 1) \div (l.width \div 2)>>,
                               <<l.width, l.height, (i - 1) % (l.width \div 2)>> >>
                       /\ PicturePlace(l, c, p * (f - 1) + i) =
                             <<c + Elapsed(f - 1), <<l.height, l.width, (i - 1) \div (l.width \div 2)>>,
                               <<l.width, l.height, (i - 1) % (l.width \div 2)>> >>
  <2>1. f \in Nat /\ f - 1 \in Nat BY <1>3
  <2>2. QED BY <1>1, <2>1, PictureOfFrame
<1>9. Elapsed(f - 1) \in Nat /\ Elapsed(f) = Elapsed(f - 1) + Span(f - 1) /\ Span(f - 1) \in Int
  <2> DEFINE g == f - 1
  <2>1. g \in Nat /\ g + 1 = f BY <1>3
  <2> HIDE DEF g
  <2>2. Elapsed(g) \in Nat /\ Elapsed(g + 1) = Elapsed(g) + Span(g) /\ Span(g) \in {5, 20}
    BY <2>1, ElapsedGrows
  <2>3. QED BY <2>1, <2>2 DEF g
<1> HIDE DEF l, k, A, V, E, n, p, m, a, b
<1>10. p * (f - 1) = n - p /\ p * f = n BY <1>2, <1>3, Spread
<1>11. \A i \in 1 .. E : b[i] = a[i]
  <2> TAKE i \in 1 .. E
  <2>1. CASE i <= A
    <3>1. i \in 1 .. A BY ONLY <1>3, <2>1, i \in 1 .. E
    <3>2. QED BY <1>7, <3>1
  <2>2. CASE i > A /\ i <= V
    <3> DEFINE x == i - A
    <3>1. x \in 1 .. m /\ A + x = i BY ONLY <1>3, <2>2, i \in 1 .. E
    <3> HIDE DEF x
    <3>2. QED BY <1>4, <1>5, <1>6, <3>1 DEF a, b
  <2>3. CASE i > V
    <3> DEFINE x == i - V
    <3>1. x \in 1 .. n /\ x \in 1 .. n + p /\ V + x = i BY ONLY <1>3, <2>3, i \in 1 .. E
    <3> HIDE DEF x
    <3>2. QED BY <1>4, <1>5, <1>6, <3>1 DEF a, b
  <2>4. QED BY ONLY <1>3, <2>1, <2>2, <2>3, i \in 1 .. E
<1>12. ASSUME NEW i \in 1 .. p PROVE b[E + i] = tail[i]
  <2>1. b[E + i] = PicturePlace(l, c, n + i)
    <3> DEFINE x == n + i
    <3>1. x \in 1 .. n + p /\ V + x = E + i BY ONLY <1>3, i \in 1 .. p
    <3> HIDE DEF x
    <3>2. b[V + x] = PicturePlace(l, c, x) BY <1>5, <1>6, <3>1 DEF b
    <3>3. QED BY <3>1, <3>2 DEF x
  <2>2. a[E - p + i] = PicturePlace(l, c, n - p + i)
    <3> DEFINE x == n - p + i
    <3>0. n - p \in Nat
      <4>1. p * (f - 1) \in Nat BY <1>3
      <4>2. QED BY <4>1, <1>10
    <3>1. x \in 1 .. n /\ V + x = E - p + i BY ONLY <1>3, <3>0, i \in 1 .. p
    <3> HIDE DEF x
    <3>2. a[V + x] = PicturePlace(l, c, x) BY <1>4, <3>1 DEF a
    <3>3. QED BY <3>1, <3>2 DEF x
  <2>3. c + Elapsed(f) = (c + Elapsed(f - 1)) + Span(f - 1) BY <1>9
  <2>4. b[E + i] = later(a[E - p + i])
    <3> DEFINE y == <<l.height, l.width, (i - 1) \div (l.width \div 2)>>
               z == <<l.width, l.height, (i - 1) % (l.width \div 2)>>
    <3>1. b[E + i] = <<c + Elapsed(f), y, z>> /\ a[E - p + i] = <<c + Elapsed(f - 1), y, z>>
      BY <1>8, <1>10, <2>1, <2>2
    <3> HIDE DEF y, z
    <3>2. later(a[E - p + i]) = <<(c + Elapsed(f - 1)) + Span(f - 1), y, z>> BY <3>1
    <3>3. QED BY <3>1, <3>2, <2>3
  <2>5. QED BY <2>4 DEF a
<1>13. IsTuple(tail, p) BY DEF IsTuple
<1> HIDE DEF tail
<1>14. b = a \o tail
  <2>1. p \in Nat BY <1>3
  <2>2. Joins(b, a, E, tail, p) BY <1>7, <1>11, <1>12, <1>13 DEF Joins
  <2>3. QED BY ONLY <1>3, <2>1, <2>2, JoinedIs
<1>15. QED BY <1>14 DEF a, b, tail, l, E, p

\* So it is what append_video_context makes of the shorter.
LEMMA LongerIsExtended ==
  ASSUME NEW s, NEW u, NEW text, Ordered(s, text), Ordered(u, text), IsLonger(u, s),
         NEW c \in Int, TargetAt(s, c), TargetAt(u, c)
  PROVE  Extended(s) = u
<1>1. u.tags = s.tags \o [i \in 1 .. RowsPerFrame(s.layout) |-> TagVideo] BY LongerTags
<1> DEFINE l == s.layout
           later(place) == <<place[1] + Span(l.frames - 1), place[2], place[3]>>
           tail == [i \in 1 .. RowsPerFrame(l) |-> later(s.at[TotalRows(l) - RowsPerFrame(l) + i])]
<1>2. u.at = s.at \o tail BY LongerPlaces
<1>3. /\ u.layout = [l EXCEPT !.frames = @ + 1] /\ u.segments = s.segments /\ u.sound = s.sound
      /\ u.video = s.video \o Rows(TotalRows(l), RowsPerFrame(l))
      /\ IsPackedRecord(s) /\ IsPackedRecord(u)
  BY DEF IsLonger
<1> DEFINE e == Extended(s)
<1>4. e = [s EXCEPT !.layout.frames = @ + 1, !.video = @ \o Rows(TotalRows(l), RowsPerFrame(l)),
             !.tags = @ \o [i \in 1 .. RowsPerFrame(l) |-> TagVideo],
             !.at = @ \o tail]
  BY DEF Extended
<1> HIDE DEF e, tail
<1>5. DOMAIN s = {"layout", "segments", "sound", "video", "tags", "at"} BY <1>3 DEF IsPackedRecord
<1>6. e = [layout |-> [l EXCEPT !.frames = @ + 1], segments |-> s.segments, sound |-> s.sound,
           video |-> s.video \o Rows(TotalRows(l), RowsPerFrame(l)),
           tags |-> s.tags \o [i \in 1 .. RowsPerFrame(l) |-> TagVideo], at |-> s.at \o tail]
  BY <1>4, <1>5
<1>7. e = u BY <1>1, <1>2, <1>3, <1>6 DEF IsPackedRecord
<1>8. QED BY <1>7 DEF e

\* The job of one frame more.
Longer(j) == [j EXCEPT !.target.frames = @ + 1]

\* A target of one frame more.
LEMMA LongerTarget ==
  ASSUME NEW t, IsTarget(t), NEW u, u = [t EXCEPT !.frames = @ + 1]
  PROVE  /\ IsTarget(u) /\ u.frames = t.frames + 1 /\ u.height = t.height /\ u.width = t.width
         /\ u.text = t.text /\ u.tags = t.tags /\ u.audio = t.audio
BY DEF IsTarget

\* A job of one frame more is accepted too, with the same references.
LEMMA LongerIsAccepted ==
  ASSUME NEW j, IsAccepted(j)
  PROVE  /\ IsAccepted(Longer(j)) /\ TextTags(Longer(j)) = TextTags(j)
         /\ Longer(j).target = [j.target EXCEPT !.frames = @ + 1]
         /\ Longer(j).plain = j.plain /\ Longer(j).references = j.references
<1> DEFINE k == Longer(j)
           t == j.target
           u == [t EXCEPT !.frames = @ + 1]
<1>1. j.kind = "sequence" /\ IsJob(j) /\ (j.plain \/ Accepts(t, j.references)) BY DEF IsAccepted
<1>2. /\ DOMAIN j = {"kind", "plain", "target", "references"} /\ IsTarget(t) /\ j.plain \in BOOLEAN
      /\ j.plain => j.references = <<>>
      /\ DOMAIN j.references = 1 .. Len(j.references)
      /\ \A i \in DOMAIN j.references : IsReference(j.references[i])
  BY <1>1 DEF IsJob
<1>3. k.kind = "sequence" /\ k.target = u /\ k.plain = j.plain /\ k.references = j.references /\ DOMAIN k = DOMAIN j
  BY <1>1, <1>2 DEF Longer
<1> HIDE DEF k, t, u
<1>4. /\ IsTarget(u) /\ u.frames = t.frames + 1 /\ u.height = t.height /\ u.width = t.width
      /\ u.text = t.text /\ u.tags = t.tags /\ u.audio = t.audio
  BY <1>2, LongerTarget DEF u
<1>5. IsJob(k) BY <1>2, <1>3, <1>4 DEF IsJob
<1>6. t.frames \in Nat BY <1>2 DEF IsTarget
<1>7. \A r : GuideFits(r, t) => GuideFits(r, u) BY <1>4, <1>6 DEF GuideFits
<1>8. Accepts(t, j.references) => Accepts(u, j.references) BY <1>4, <1>6, <1>7 DEF Accepts
<1>9. IsAccepted(k) BY <1>1, <1>3, <1>5, <1>8 DEF IsAccepted
<1>10. TextTags(k) = TextTags(j) BY <1>3, <1>4 DEF TextTags, t
<1>11. QED BY <1>3, <1>9, <1>10 DEF k, t, u

\* A layout with its fields named.
LayoutOf(text, video, audio, explicit, frames, height, width, sound) ==
  [text |-> text, conditionVideo |-> video, conditionAudio |-> audio, explicit |-> explicit,
   frames |-> frames, height |-> height, width |-> width, audio |-> sound]

\* A frame more changes the frames and nothing else.
LEMMA LayoutRecord ==
  ASSUME NEW text, NEW video, NEW audio, NEW explicit, NEW f, NEW height, NEW width, NEW sound
  PROVE  LET l == LayoutOf(text, video, audio, explicit, f, height, width, sound)
         IN /\ [l EXCEPT !.frames = @ + 1] = LayoutOf(text, video, audio, explicit, f + 1, height, width, sound)
            /\ "frames" \in DOMAIN l
<1> DEFINE l == LayoutOf(text, video, audio, explicit, f, height, width, sound)
           k == LayoutOf(text, video, audio, explicit, f + 1, height, width, sound)
<1>1. l.frames = f /\ "frames" \in DOMAIN l BY DEF LayoutOf
<1>2. k = [l EXCEPT !.frames = f + 1] BY DEF LayoutOf
<1>3. [l EXCEPT !.frames = @ + 1] = [l EXCEPT !.frames = l.frames + 1] OBVIOUS
<1>4. QED BY <1>1, <1>2, <1>3

\* One frame more, without references.
LEMMA PlainLonger ==
  ASSUME NEW t, IsTarget(t), NEW u, u = [t EXCEPT !.frames = @ + 1]
  PROVE  IsLonger(Plain(u), Plain(t))
<1> DEFINE l == PlainLayout(t)
           k == PlainLayout(u)
           s == Plain(t)
           v == Plain(u)
           E == TotalRows(l)
           p == RowsPerFrame(l)
           V == VideoStart(l)
           n == VideoRows(l)
<1>1. /\ IsTarget(u) /\ u.frames = t.frames + 1 /\ u.height = t.height /\ u.width = t.width
      /\ u.text = t.text /\ u.tags = t.tags /\ u.audio = t.audio
  BY LongerTarget
<1>2. k = [l EXCEPT !.frames = @ + 1] /\ "frames" \in DOMAIN l
  <2> DEFINE no == FALSE
             none == 0
             tx == t.text
             f == t.frames
             h == t.height
             w == t.width
             a == t.audio
  <2>1. k = LayoutOf(tx, none, none, no, f + 1, h, w, a) /\ l = LayoutOf(tx, none, none, no, f, h, w, a)
    BY <1>1 DEF PlainLayout, LayoutOf
  <2> HIDE DEF k, l, no, none, tx, f, h, w, a
  <2>2. QED BY ONLY <2>1, LayoutRecord
<1>3. IsLayout(l) /\ (\A i \in 1 .. t.text : s.at[i] = <<Clock * (i - 1), Nowhere, Nowhere>>)
      /\ (\A i \in 1 .. t.text : v.at[i] = <<Clock * (i - 1), Nowhere, Nowhere>>)
  BY <1>1, PlainTarget
<1>4. /\ s.layout = l /\ s.segments = <<>> /\ s.sound = Rows(AudioStart(l), 2 * l.audio)
      /\ s.video = Rows(V, n) /\ s.at = [i \in 1 .. E |-> PlainAt(t, i - 1)] /\ IsPackedRecord(s)
  BY DEF Plain, IsPackedRecord
<1>5. /\ v.layout = k /\ v.segments = <<>> /\ v.sound = Rows(AudioStart(k), 2 * k.audio)
      /\ v.video = Rows(VideoStart(k), VideoRows(k)) /\ v.at = [i \in 1 .. TotalRows(k) |-> PlainAt(u, i - 1)]
      /\ IsPackedRecord(v)
  BY DEF Plain, IsPackedRecord
<1>6. AudioStart(l) = t.text
  <2>1. AudioStart(l) = l.text + 0 + 0 /\ l.text = t.text /\ t.text \in Nat
    BY DEF AudioStart, PlainLayout, IsTarget
  <2>2. QED BY <2>1
<1> HIDE DEF l, k, s, v
<1>7. /\ k.audio = l.audio /\ AudioStart(k) = AudioStart(l) /\ VideoStart(k) = V
      /\ VideoRows(k) = n + p /\ TotalRows(k) = E + p
  BY ONLY <1>2, <1>3, LongerLayout
<1>8. V \in Nat /\ n \in Nat /\ p \in Nat /\ E = V + n BY ONLY <1>3, LayoutNumbers
<1> HIDE DEF V, n, p, E
<1>9. v.video = s.video \o Rows(E, p)
  <2>1. Rows(V, n + p) = Rows(V, n) \o Rows(V + n, p) BY ONLY <1>8, RowsSplit
  <2>2. QED BY <1>4, <1>5, <1>7, <1>8, <2>1
<1>10. IsTuple(s.at, E) /\ IsTuple(v.at, E + p)
  <2>1. IsTuple(s.at, E) BY <1>4 DEF IsTuple
  <2>2. IsTuple(v.at, TotalRows(k)) BY <1>5 DEF IsTuple
  <2>3. QED BY <2>1, <2>2, <1>7
<1>11. v.segments = s.segments /\ v.sound = s.sound /\ v.layout = [l EXCEPT !.frames = @ + 1]
  BY <1>2, <1>4, <1>5, <1>7
<1>12. \A i \in 1 .. AudioStart(l) : v.at[i] = s.at[i] BY <1>3, <1>6
<1>13. IsLonger(v, s) BY ONLY <1>2, <1>4, <1>5, <1>9, <1>10, <1>11, <1>12 DEF IsLonger, E, p
<1>14. QED BY <1>13 DEF v, s

\* A reference moves the clock behind all its rows; a guide does not move it.
LEMMA MovesOn ==
  ASSUME NEW r, IsReference(r)
  PROVE  /\ Moves(r) \in Nat /\ (r.aligned => Moves(r) = 0)
         /\ ~r.aligned => \A y \in 0 .. r.audio - 1 : Clock * y < Moves(r)
         /\ ~r.aligned /\ r.kind # "audio" => \A f \in 0 .. r.frames - 1 : Elapsed(f) < Moves(r)
<1>1. r.aligned \in BOOLEAN /\ r.audio \in Nat /\ r.frames \in Nat /\ r.kind \in {"image", "video", "audio"}
      /\ (r.kind = "image" => r.frames = 1 /\ r.audio = 0)
  BY DEF IsReference
<1>2. Clock * r.audio \in Nat /\ Clock \in Nat BY <1>1 DEF Clock
<1>3. CASE r.aligned
  <2>1. Moves(r) = 0 BY <1>3 DEF Moves
  <2>2. QED BY <1>3, <2>1
<1>20. \A y \in 0 .. r.audio - 1 : Clock * y < Clock * r.audio BY <1>1 DEF Clock
<1>21. \A f \in 0 .. r.frames - 1 : Elapsed(f) < Elapsed(r.frames) BY <1>1, ElapsedOrder
<1>22. \A y \in 0 .. r.audio - 1 : Clock * y \in Int BY <1>1 DEF Clock
<1>23. \A f \in 0 .. r.frames - 1 : Elapsed(f) \in Int BY <1>1, ElapsedGrows
<1>4. CASE ~r.aligned /\ r.kind = "audio"
  <2>1. Moves(r) = Clock * r.audio BY <1>4 DEF Moves
  <2>2. QED BY <1>2, <1>4, <1>20, <2>1
<1>5. CASE ~r.aligned /\ r.kind = "image"
  <2>1. Moves(r) = Clock BY <1>5 DEF Moves
  <2>2. Elapsed(0) < Clock BY DEF Elapsed, Clock
  <2>3. 0 .. r.frames - 1 = {0} /\ 0 .. r.audio - 1 = {} BY <1>1, <1>5
  <2>4. QED BY <1>2, <1>5, <2>1, <2>2, <2>3
<1>6. CASE ~r.aligned /\ r.kind = "video"
  <2> DEFINE a == Clock * r.audio
             e == Elapsed(r.frames)
  <2>1. Moves(r) = Max({a, e}) BY <1>6 DEF Moves
  <2>2. a \in Nat /\ e \in Nat BY <1>1, <1>2, ElapsedGrows
  <2> HIDE DEF a, e
  <2>3. Max({a, e}) = IF a >= e THEN a ELSE e BY <2>2, MaxOfTwo
  <2>4. Moves(r) \in Nat /\ Moves(r) >= a /\ Moves(r) >= e BY <2>1, <2>2, <2>3
  <2>5. \A y \in 0 .. r.audio - 1 : Clock * y < Moves(r) BY <1>20, <1>22, <2>2, <2>4 DEF a
  <2>6. \A f \in 0 .. r.frames - 1 : Elapsed(f) < Moves(r) BY <1>21, <1>23, <2>2, <2>4 DEF e
  <2>7. QED BY <1>6, <2>4, <2>5, <2>6
<1>7. QED BY <1>1, <1>3, <1>4, <1>5, <1>6

\* What placing a reference adds, but for where its rows are.
Adds(q, p, r) ==
  /\ q.next = p.next + RefAudioRows(r) + RefVideoRows(r)
  /\ q.clock = p.clock + Moves(r)
  /\ q.sound = p.sound \o Rows(p.next, RefAudioRows(r))
  /\ q.video = p.video \o Rows(p.next + RefAudioRows(r), RefVideoRows(r))
  /\ q.segments = (p.segments
                   \o (IF RefAudioRows(r) > 0 THEN <<[first |-> p.next, rows |-> RefAudioRows(r)]>> ELSE <<>>))
                  \o (IF r.kind # "audio"
                      THEN <<[first |-> p.next + RefAudioRows(r), rows |-> RefVideoRows(r)]>> ELSE <<>>)

\* What a reference adds.
LEMMA PlaceAdds ==
  ASSUME NEW p, NEW r, NEW t
  PROVE  Adds(Place(p, r, t), p, r)
BY PlaceFields DEF Adds

\* The clock of a trace is never before the text's.
LEMMA ClockIsNatural ==
  ASSUME NEW P, NEW t, NEW rs, NEW total, IsRefs(rs), IsPlacing(P, t, rs, total), t.text \in Nat
  PROVE  \A k \in 0 .. Len(rs) : P[k].clock \in Nat
<1> DEFINE Good == {k \in 0 .. Len(rs) : P[k].clock \in Nat}
<1>0. Len(rs) \in Nat BY DEF IsRefs, IsList
<1>1. 0 \in Good BY <1>0 DEF IsPlacing, NothingPlaced, Clock
<1>2. ASSUME NEW k \in 0 .. Len(rs) - 1, k \in Good PROVE k + 1 \in Good
  <2> DEFINE j == k + 1
  <2>1. j \in 1 .. Len(rs) /\ j \in 0 .. Len(rs) /\ j - 1 = k BY <1>0
  <2> HIDE DEF j
  <2>2. P[j] = Place(P[k], rs[j], t) BY <2>1 DEF IsPlacing
  <2>3. P[j].clock = P[k].clock + Moves(rs[j])
    <3>1. Adds(P[j], P[k], rs[j]) BY <2>2, PlaceAdds
    <3>2. QED BY <3>1 DEF Adds
  <2>4. Moves(rs[j]) \in Nat BY <2>1, MovesOn DEF IsRefs, IsList
  <2>5. QED BY <1>2, <2>1, <2>3, <2>4 DEF j
<1> HIDE DEF Good
<1>3. \A k \in 0 .. Len(rs) : k \in Good BY <1>0, <1>1, <1>2, Reaches
<1>4. QED BY <1>3 DEF Good

\* The same references placed in a longer sequence: of the rows both have, none differs.
IsSame(q, p, total) ==
  /\ q.next = p.next /\ q.clock = p.clock
  /\ q.sound = p.sound /\ q.video = p.video /\ q.segments = p.segments
  /\ \A i \in 1 .. total : q.at[i] = p.at[i]

\* Placing the same reference does the same, however many rows are to come.
LEMMA SameStep ==
  ASSUME NEW total \in Nat, NEW more \in Nat, NEW p, NEW q, IsSame(q, p, total),
         DOMAIN p.at = 1 .. total, DOMAIN q.at = 1 .. total + more,
         NEW t, NEW u, u.height = t.height, u.width = t.width, NEW r
  PROVE  IsSame(Place(q, r, u), Place(p, r, t), total)
<1> DEFINE first == p.next + RefAudioRows(r)
           origin == p.clock + (IF r.aligned THEN r.offset ELSE 0)
           heard == IF r.aligned /\ r.audioOffset # <<>> THEN p.clock + r.audioOffset[1] ELSE origin
           ws == IF r.kind = "audio" THEN Axis(t.width, t.height) ELSE Axis(r.width, r.height)
           sound == AudioAt(r.audio, heard, ws)
           seen == IF r.kind = "audio" THEN <<>> ELSE VideoAt(r, origin, t)
           a == Written(p.at, p.next, sound)
           b == Written(q.at, p.next, sound)
<1>1. Place(p, r, t).at = Written(a, first, seen) BY DEF Place
<1>2. VideoAt(r, origin, u) = VideoAt(r, origin, t) BY DEF VideoAt
<1>3. Place(q, r, u).at = Written(b, first, seen) BY <1>2 DEF Place, IsSame
<1> HIDE DEF first, sound, seen
<1>4. DOMAIN a = 1 .. total /\ DOMAIN b = 1 .. total + more /\ \A i \in 1 .. total : i \in 1 .. total + more
  BY DEF Written
<1>5. \A i \in 1 .. total : b[i] = a[i] BY <1>4 DEF Written, IsSame
<1> HIDE DEF a, b
<1>6. \A i \in 1 .. total : Written(b, first, seen)[i] = Written(a, first, seen)[i]
  BY <1>4, <1>5 DEF Written
<1> DEFINE x == Place(p, r, t)
           y == Place(q, r, u)
<1>7. Adds(x, p, r) /\ Adds(y, q, r) BY PlaceAdds
<1>8. \A i \in 1 .. total : y.at[i] = x.at[i] BY <1>1, <1>3, <1>6
<1> HIDE DEF x, y
<1>9. IsSame(y, x, total) BY ONLY <1>7, <1>8, IsSame(q, p, total) DEF Adds, IsSame
<1>10. QED BY <1>9 DEF x, y

\* So the traces of a target and of one a frame longer are the same.
LEMMA SameTraces ==
  ASSUME NEW total \in Nat, NEW more \in Nat, NEW t, NEW u, u.height = t.height, u.width = t.width, u.text = t.text,
         NEW rs, IsRefs(rs), NEW P, NEW Q, IsPlacing(P, t, rs, total), IsPlacing(Q, u, rs, total + more)
  PROVE  \A k \in 0 .. Len(rs) : IsSame(Q[k], P[k], total)
<1> DEFINE Good == {k \in 0 .. Len(rs) : IsSame(Q[k], P[k], total)}
<1>0. Len(rs) \in Nat BY DEF IsRefs, IsList
<1>1. 0 \in Good
  <2>1. P[0] = NothingPlaced(t, total) /\ Q[0] = NothingPlaced(u, total + more) BY DEF IsPlacing
  <2>2. \A i \in 1 .. total : i \in 1 .. total + more OBVIOUS
  <2>3. IsSame(NothingPlaced(u, total + more), NothingPlaced(t, total), total)
    BY <2>2 DEF IsSame, NothingPlaced
  <2>4. QED BY <1>0, <2>1, <2>3
<1>2. ASSUME NEW k \in 0 .. Len(rs) - 1, k \in Good PROVE k + 1 \in Good
  <2> DEFINE j == k + 1
  <2>1. j \in 1 .. Len(rs) /\ j \in 0 .. Len(rs) /\ j - 1 = k /\ k \in 0 .. Len(rs) BY <1>0
  <2> HIDE DEF j
  <2>2. P[j] = Place(P[k], rs[j], t) /\ Q[j] = Place(Q[k], rs[j], u) BY <2>1 DEF IsPlacing
  <2>3. DOMAIN P[k].at = 1 .. total BY <2>1, PlacedDomain
  <2>4. DOMAIN Q[k].at = 1 .. total + more
    <3> DEFINE all == total + more
    <3> HIDE DEF all
    <3>1. IsPlacing(Q, u, rs, all) BY DEF all
    <3>2. DOMAIN Q[k].at = 1 .. all BY ONLY <2>1, <3>1, IsRefs(rs), PlacedDomain
    <3>3. QED BY <3>2 DEF all
  <2>5. IsSame(Q[k], P[k], total) BY <1>2
  <2>6. IsSame(Q[j], P[j], total) BY <2>2, <2>3, <2>4, <2>5, SameStep
  <2>7. QED BY <2>1, <2>6 DEF j
<1> HIDE DEF Good
<1>3. \A k \in 0 .. Len(rs) : k \in Good BY <1>0, <1>1, <1>2, Reaches
<1>4. QED BY <1>3 DEF Good

\* What is known of a sequence with references: what was placed, and what was counted.
RefTrace(P, N, t, rs, l) ==
  LET n == Len(rs)
  IN /\ n \in Nat /\ N[n].video \in Nat /\ N[n].audio \in Nat
     /\ l = AssembledLayout(t, N[n].video, N[n].audio) /\ IsLayout(l)
     /\ IsPlacing(P, t, rs, TotalRows(l)) /\ IsCounting(N, rs) /\ Counted(rs) = N[n]
     /\ Referenced(t, rs) = Assembled(t, l, P[n])
     /\ Laid(P[n], t.text, N[n].video, N[n].audio) /\ P[n].next = AudioStart(l)
     /\ DOMAIN P[n].at = 1 .. TotalRows(l) /\ P[n].clock \in Nat

\* The references of a job have a trace that assembles their sequence.
LEMMA RefTraceExists ==
  ASSUME NEW t, IsTarget(t), NEW rs, IsRefs(rs)
  PROVE  \E P, N, l : RefTrace(P, N, t, rs, l)
<1>1. PICK P, N : IsTraced(P, N, t, rs) BY Traced
<1> DEFINE n == Len(rs)
           v == N[n].video
           a == N[n].audio
           l == AssembledLayout(t, v, a)
<1>2. /\ IsPlacing(P, t, rs, TotalRows(l)) /\ IsCounting(N, rs) /\ Counted(rs) = N[n]
      /\ Referenced(t, rs) = Assembled(t, l, P[n])
  BY <1>1 DEF IsTraced
<1>3. n \in Nat /\ n \in 0 .. n /\ n = Len(rs) /\ t.text \in Nat BY DEF IsRefs, IsList, IsTarget
<1> HIDE DEF n
<1>4. v \in Nat /\ a \in Nat BY ONLY <1>2, <1>3, IsRefs(rs), CountsAreNaturals
<1>5. Laid(P[n], t.text, v, a) BY ONLY <1>2, <1>3, IsRefs(rs), AlwaysLaid
<1> DEFINE E == TotalRows(l)
<1> HIDE DEF E
<1>6. DOMAIN P[n].at = 1 .. E /\ P[n].clock \in Nat
  <2>1. IsPlacing(P, t, rs, E) BY <1>2 DEF E
  <2>2. DOMAIN P[n].at = 1 .. E BY ONLY <2>1, <1>3, IsRefs(rs), PlacedDomain
  <2>3. P[n].clock \in Nat BY ONLY <2>1, <1>3, IsRefs(rs), ClockIsNatural
  <2>4. QED BY <2>2, <2>3
<1>7. IsLayout(l)
  <2>1. /\ l.text = t.text /\ l.conditionVideo = v /\ l.conditionAudio = a
        /\ l.frames = t.frames /\ l.height = t.height /\ l.width = t.width /\ l.audio = t.audio
    BY DEF AssembledLayout
  <2> HIDE DEF l, v, a
  <2>2. v \in Nat /\ a \in Nat BY <1>4 DEF v, a
  <2>3. QED BY ONLY <2>1, <2>2, IsTarget(t), TargetLayout
<1>8. P[n].next = AudioStart(l) BY <1>5 DEF Laid, AudioStart, AssembledLayout
<1>9. RefTrace(P, N, t, rs, l) BY ONLY <1>2, <1>3, <1>4, <1>5, <1>6, <1>7, <1>8 DEF RefTrace, E
<1>10. QED BY <1>9

\* The sequence of a trace.
IsOfTrace(s, t, l, p) ==
  /\ s.layout = l /\ s.segments = p.segments
  /\ s.sound = p.sound \o Rows(p.next, 2 * t.audio)
  /\ s.video = p.video \o Rows(p.next + 2 * t.audio, VideoRows(l))
  /\ IsPackedRecord(s) /\ IsTuple(s.at, TotalRows(l))
  /\ TargetAt(s, p.clock) /\ \A i \in 1 .. AudioStart(l) : s.at[i] = p.at[i]

\* What a trace has assembled.
LEMMA RefTraceTarget ==
  ASSUME NEW t, IsTarget(t), NEW rs, NEW P, NEW N, NEW l, RefTrace(P, N, t, rs, l)
  PROVE  IsOfTrace(Referenced(t, rs), t, l, P[Len(rs)])
<1> DEFINE p == P[Len(rs)]
           s == Assembled(t, l, p)
<1>1. Referenced(t, rs) = s /\ IsLayout(l) /\ p.next = AudioStart(l) /\ DOMAIN p.at = 1 .. TotalRows(l)
  BY DEF RefTrace
<1>2. l.text = t.text /\ l.frames = t.frames /\ l.height = t.height /\ l.width = t.width /\ l.audio = t.audio
  BY DEF RefTrace, AssembledLayout
<1>3. /\ s.layout = l /\ s.segments = p.segments
      /\ s.sound = p.sound \o Rows(p.next, 2 * t.audio)
      /\ s.video = p.video \o Rows(p.next + 2 * t.audio, VideoRows(l))
      /\ IsPackedRecord(s)
  BY DEF Assembled, IsPackedRecord
<1>4. IsTuple(s.at, TotalRows(l))
  <2> DEFINE sounded == Written(p.at, p.next, AudioAt(t.audio, p.clock, Axis(t.width, t.height)))
             target == [kind |-> "video", frames |-> t.frames, height |-> t.height, width |-> t.width,
                        audio |-> 0, aligned |-> FALSE]
             seen == VideoAt(target, p.clock, t)
  <2>1. s.at = Written(sounded, p.next + 2 * t.audio, seen) BY DEF Assembled
  <2>2. DOMAIN sounded = 1 .. TotalRows(l) BY <1>1 DEF Written
  <2> HIDE DEF sounded, seen, s
  <2>3. QED BY <2>1, <2>2 DEF Written, IsTuple
<1> HIDE DEF p
<1>5. TargetAt(s, p.clock) /\ \A i \in 1 .. AudioStart(l) : s.at[i] = p.at[i]
  BY ONLY IsTarget(t), <1>1, <1>2, AssembledAt
<1> HIDE DEF s
<1>6. QED BY <1>1, <1>3, <1>4, <1>5 DEF p, IsOfTrace

\* One frame more, with references.
LEMMA ReferencedLonger ==
  ASSUME NEW t, IsTarget(t), NEW u, u = [t EXCEPT !.frames = @ + 1], NEW rs, IsRefs(rs)
  PROVE  \E c \in Int : /\ IsLonger(Referenced(u, rs), Referenced(t, rs))
                       /\ TargetAt(Referenced(t, rs), c) /\ TargetAt(Referenced(u, rs), c)
<1>1. /\ IsTarget(u) /\ u.frames = t.frames + 1 /\ u.height = t.height /\ u.width = t.width
      /\ u.text = t.text /\ u.tags = t.tags /\ u.audio = t.audio
  BY LongerTarget
<1>2. PICK P, N, l : RefTrace(P, N, t, rs, l) BY RefTraceExists
<1>3. PICK Q, M, k : RefTrace(Q, M, u, rs, k) BY <1>1, RefTraceExists
<1> DEFINE n == Len(rs)
           s == Referenced(t, rs)
           v == Referenced(u, rs)
           p == P[n]
           q == Q[n]
           E == TotalRows(l)
           more == RowsPerFrame(l)
<1>4. /\ n \in Nat /\ IsLayout(l) /\ l = AssembledLayout(t, N[n].video, N[n].audio) /\ Counted(rs) = N[n]
      /\ IsPlacing(P, t, rs, E) /\ p.next = AudioStart(l) /\ p.clock \in Nat
      /\ Laid(p, t.text, N[n].video, N[n].audio)
  BY <1>2 DEF RefTrace
<1>5. /\ k = AssembledLayout(u, M[n].video, M[n].audio) /\ Counted(rs) = M[n] /\ IsPlacing(Q, u, rs, TotalRows(k))
  BY <1>3 DEF RefTrace
<1>6. k = [l EXCEPT !.frames = @ + 1] /\ "frames" \in DOMAIN l
  <2> DEFINE yes == TRUE
             a == N[n].video
             b == N[n].audio
             tx == t.text
             f == t.frames
             h == t.height
             w == t.width
             x == t.audio
  <2>1. k = LayoutOf(tx, a, b, yes, f + 1, h, w, x) /\ l = LayoutOf(tx, a, b, yes, f, h, w, x)
    BY <1>1, <1>4, <1>5 DEF AssembledLayout, LayoutOf
  <2> HIDE DEF yes, a, b, tx, f, h, w, x
  <2>2. QED BY ONLY <2>1, LayoutRecord
<1>7. /\ k.audio = l.audio /\ AudioStart(k) = AudioStart(l) /\ VideoStart(k) = VideoStart(l)
      /\ VideoRows(k) = VideoRows(l) + more /\ TotalRows(k) = E + more
  BY ONLY <1>4, <1>6, LongerLayout
<1>8. /\ E \in Nat /\ more \in Nat /\ VideoRows(l) \in Nat /\ AudioStart(l) \in Nat /\ VideoStart(l) \in Nat
      /\ E = VideoStart(l) + VideoRows(l) /\ VideoStart(l) = AudioStart(l) + 2 * l.audio
  BY ONLY <1>4, LayoutNumbers
<1>9. /\ s.layout = l /\ s.segments = p.segments /\ s.sound = p.sound \o Rows(p.next, 2 * t.audio)
      /\ s.video = p.video \o Rows(p.next + 2 * t.audio, VideoRows(l))
      /\ IsPackedRecord(s) /\ IsTuple(s.at, E)
      /\ TargetAt(s, p.clock) /\ \A i \in 1 .. AudioStart(l) : s.at[i] = p.at[i]
  <2>1. IsOfTrace(s, t, l, p) BY <1>2, RefTraceTarget
  <2>2. QED BY <2>1 DEF IsOfTrace
<1>10. /\ v.layout = k /\ v.segments = q.segments /\ v.sound = q.sound \o Rows(q.next, 2 * u.audio)
       /\ v.video = q.video \o Rows(q.next + 2 * u.audio, VideoRows(k))
       /\ IsPackedRecord(v) /\ IsTuple(v.at, TotalRows(k))
       /\ TargetAt(v, q.clock) /\ \A i \in 1 .. AudioStart(k) : v.at[i] = q.at[i]
  <2>1. IsOfTrace(v, u, k, q) BY <1>1, <1>3, RefTraceTarget
  <2>2. QED BY <2>1 DEF IsOfTrace
<1> HIDE DEF s, v, E, more, n
<1>11. IsSame(q, p, E)
  <2>1. IsPlacing(Q, u, rs, E + more) BY <1>5, <1>7
  <2>2. \A i \in 0 .. Len(rs) : IsSame(Q[i], P[i], E)
    BY ONLY <1>1, <1>4, <1>8, <2>1, IsRefs(rs), SameTraces
  <2>3. n \in 0 .. Len(rs) BY <1>4 DEF n
  <2>4. QED BY <2>2, <2>3
<1>12. v.video = s.video \o Rows(E, more)
  <2> DEFINE V == VideoStart(l)
             m == VideoRows(l)
             w == p.video
  <2>1. w \in Seq(Nat) BY <1>4 DEF Laid
  <2>2. p.next + 2 * t.audio = V /\ q.next + 2 * u.audio = V /\ E = V + m /\ V \in Nat /\ m \in Nat
    <3>1. l.audio = t.audio BY <1>4 DEF AssembledLayout
    <3>2. QED BY <1>1, <1>4, <1>8, <1>11, <3>1 DEF IsSame
  <2>3. v.video = w \o Rows(V, m + more) /\ s.video = w \o Rows(V, m)
    BY <1>7, <1>9, <1>10, <1>11, <2>2 DEF IsSame
  <2> HIDE DEF V, m, w
  <2>4. Rows(V, m + more) = Rows(V, m) \o Rows(V + m, more)
    BY ONLY ZenonT(40), <1>8, <2>2, RowsSplit
  <2> DEFINE a == Rows(V, m)
             b == Rows(V + m, more)
  <2>5. a \in Seq(Nat) /\ b \in Seq(Nat)
    <3>1. V + m \in Nat BY <2>2
    <3>2. QED BY <1>8, <2>2, <3>1, RowsAreSequence
  <2> HIDE DEF a, b
  <2>6. (w \o a) \o b = w \o (a \o b) BY SMTT(30), <2>1, <2>5, ConcatAssociative
  <2>7. QED BY <2>2, <2>3, <2>4, <2>6 DEF a, b
<1>13. IsLonger(v, s)
  <2>1. v.layout = [l EXCEPT !.frames = @ + 1] /\ v.segments = s.segments /\ v.sound = s.sound
    BY <1>1, <1>6, <1>9, <1>10, <1>11 DEF IsSame
  <2>2. IsTuple(v.at, E + more) BY <1>7, <1>10
  <2>3. \A i \in 1 .. AudioStart(l) : v.at[i] = s.at[i]
    <3> TAKE i \in 1 .. AudioStart(l)
    <3>1. i \in 1 .. E BY ONLY <1>4, <1>8, i \in 1 .. AudioStart(l) DEF IsLayout
    <3>2. v.at[i] = q.at[i] /\ s.at[i] = p.at[i] BY <1>7, <1>9, <1>10
    <3>3. QED BY <1>11, <3>1, <3>2 DEF IsSame
  <2>4. QED BY ONLY <1>6, <1>9, <1>10, <1>12, <2>1, <2>2, <2>3 DEF IsLonger, E, more
<1>14. TargetAt(v, p.clock) /\ p.clock \in Int BY <1>4, <1>10, <1>11 DEF IsSame
<1>15. QED BY <1>9, <1>13, <1>14 DEF s, v

\* A request with a frame more has a longer sequence, and its target begins when the other's does.
LEMMA PackedIsLonger ==
  ASSUME NEW j, IsAccepted(j)
  PROVE  \E c \in Int : /\ IsLonger(Packed(Longer(j)), Packed(j))
                       /\ TargetAt(Packed(j), c) /\ TargetAt(Packed(Longer(j)), c)
<1> DEFINE t == j.target
           u == [t EXCEPT !.frames = @ + 1]
           k == Longer(j)
           rs == j.references
<1>1. /\ IsAccepted(k) /\ TextTags(k) = TextTags(j) /\ k.target = u /\ k.plain = j.plain /\ k.references = rs
  BY LongerIsAccepted
<1>2. IsTarget(t) /\ j.plain \in BOOLEAN /\ IsRefs(rs) BY ReferencesAreRefs DEF IsAccepted
<1> HIDE DEF t, u, k, rs
<1>4. \E c \in Int : IsLonger(Packed(k), Packed(j)) /\ TargetAt(Packed(j), c) /\ TargetAt(Packed(k), c)
  <2>0. u = [t EXCEPT !.frames = @ + 1] BY DEF u
  <2>1. CASE j.plain
    <3>1. Packed(j) = Plain(t) /\ Packed(k) = Plain(u) BY <1>1, <2>1 DEF Packed, t
    <3>2. IsLonger(Plain(u), Plain(t)) BY ONLY <1>2, <2>0, PlainLonger
    <3>3. TargetAt(Plain(t), Clock * t.text) BY ONLY <1>2, PlainTarget
    <3>4. IsTarget(u) /\ u.text = t.text BY ONLY <1>2, <2>0, LongerTarget
    <3>5. TargetAt(Plain(u), Clock * t.text)
      <4>1. TargetAt(Plain(u), Clock * u.text) BY ONLY <3>4, PlainTarget
      <4>2. QED BY <3>4, <4>1
    <3>6. Clock * t.text \in Int BY <1>2 DEF IsTarget, Clock
    <3>7. QED BY <3>1, <3>2, <3>3, <3>5, <3>6
  <2>2. CASE ~j.plain
    <3>1. Packed(j) = Referenced(t, rs) /\ Packed(k) = Referenced(u, rs)
      <4>1. Accepts(k.target, k.references) BY <1>1, <2>2 DEF IsAccepted
      <4>2. Accepts(t, rs) BY <2>2 DEF IsAccepted, t, rs
      <4>3. QED BY <1>1, <2>2, <4>1, <4>2 DEF Packed, t, rs
    <3>2. QED BY <1>2, <2>0, <3>1, ReferencedLonger
  <2>3. QED BY <2>1, <2>2
<1>5. QED BY <1>4 DEF k

\* A capstone's frame makes the sequence of a request that has a frame more.
LEMMA ExtendedIsLonger ==
  ASSUME NEW j, IsAccepted(j)
  PROVE  Extended(Packed(j)) = Packed(Longer(j))
<1> DEFINE k == Longer(j)
<1>1. IsAccepted(k) /\ TextTags(k) = TextTags(j) BY LongerIsAccepted
<1>2. Ordered(Packed(j), TextTags(j)) /\ Ordered(Packed(k), TextTags(j)) BY <1>1, PackedIsOrdered
<1>3. PICK c \in Int : IsLonger(Packed(k), Packed(j)) /\ TargetAt(Packed(j), c) /\ TargetAt(Packed(k), c)
  BY PackedIsLonger
<1> DEFINE s == Packed(j)
           v == Packed(k)
           text == TextTags(j)
<1>4. Ordered(s, text) /\ Ordered(v, text) /\ IsLonger(v, s) /\ TargetAt(s, c) /\ TargetAt(v, c)
  BY <1>2, <1>3
<1> HIDE DEF s, v, text
<1>5. Extended(s) = v BY ONLY <1>4, c \in Int, LongerIsExtended
<1>6. QED BY <1>5 DEF s, v, k

-----------------------------------------------------------------------------
(* Patches and channels.                                                   *)

\* A number of two digits, the lower below b and the higher below n.
IsMixed(a, n, b, q, r) ==
  /\ q \in 0 .. n - 1 /\ r \in 0 .. b - 1
  /\ a \in 0 .. n * b - 1 /\ a = b * q + r /\ a \div b = q /\ a % b = r

\* A quotient and a remainder make one number.
LEMMA Mixed ==
  ASSUME NEW n \in Nat, NEW b \in Nat \ {0}, NEW q \in 0 .. n - 1, NEW r \in 0 .. b - 1
  PROVE  IsMixed(b * q + r, n, b, q, r)
<1>1. b * q \in Int /\ 0 <= b * q /\ b * q <= b * (n - 1) /\ b * (n - 1) = n * b - b /\ n * b \in Nat
  <2>1. b * 0 = 0 /\ b * (n - 1) = b * n - b /\ b * n = n * b /\ n * b \in Nat BY Spread
  <2>2. b * 0 <= b * q /\ b * q <= b * (n - 1) /\ b * q \in Int BY ProductBound
  <2>3. QED BY <2>1, <2>2
<1> DEFINE m == b * q
           k == n * b
<1> HIDE DEF m, k
<1>2. m \in Int /\ 0 <= m /\ m <= k - b /\ k \in Nat BY <1>1 DEF m, k
<1>3. m + r \in 0 .. k - 1 BY <1>2
<1>4. (b * q + r) \div b = q /\ (b * q + r) % b = r BY DividedOnce
<1>5. QED BY <1>3, <1>4 DEF IsMixed, m, k

\* And every number is made of its own.
LEMMA Unmixed ==
  ASSUME NEW n \in Nat, NEW b \in Nat \ {0}, NEW a, a \in 0 .. n * b - 1
  PROVE  IsMixed(a, n, b, a \div b, a % b)
<1> DEFINE k == n * b
<1>1. k \in Nat OBVIOUS
<1> HIDE DEF k
<1>2. a \in Nat /\ a < k /\ a \in 0 .. k - 1 BY <1>1 DEF k
<1>3. a \div b \in 0 .. n - 1 BY <1>2, DividedBelow DEF k
<1>4. a % b \in 0 .. b - 1 /\ a = b * (a \div b) + (a % b)
  <2>1. a % b \in Int /\ 0 <= a % b /\ a % b < b /\ a = b * (a \div b) + (a % b) BY <1>2, Divided
  <2>2. QED BY <2>1
<1>5. QED BY <1>2, <1>3, <1>4 DEF IsMixed, k

\* Channel c of frame f, and of it the patch and the latent in it.
LatentOf(l, c, f, y, z, dy, dx) ==
  (l.height * l.width) * (l.frames * c + f) + (l.width * (2 * y + dy) + (2 * z + dx))

\* What row and feature stand for.
IsFeature(l, row, x, c, f, y, z, dy, dx) ==
  /\ c \in 0 .. VideoChannels - 1 /\ f \in 0 .. l.frames - 1
  /\ y \in 0 .. l.height \div 2 - 1 /\ z \in 0 .. l.width \div 2 - 1 /\ dy \in 0 .. 1 /\ dx \in 0 .. 1
  /\ row \in 0 .. VideoRows(l) - 1 /\ x \in 0 .. 4 * VideoChannels - 1
  /\ x \div 4 = c /\ (x % 4) \div 2 = dy /\ x % 2 = dx
  /\ row \div RowsPerFrame(l) = f /\ (row % RowsPerFrame(l)) \div (l.width \div 2) = y
  /\ row % (l.width \div 2) = z

\* The sizes of a layout.
LEMMA Sizes ==
  ASSUME NEW l, IsLayout(l)
  PROVE  /\ l.frames \in Nat \ {0} /\ l.height \in Nat \ {0} /\ l.width \in Nat \ {0}
         /\ l.height \div 2 \in Nat \ {0} /\ l.width \div 2 \in Nat \ {0}
         /\ l.height = 2 * (l.height \div 2) /\ l.width = 2 * (l.width \div 2)
         /\ l.height * l.width \in Nat \ {0}
         /\ RowsPerFrame(l) = (l.height \div 2) * (l.width \div 2) /\ RowsPerFrame(l) \in Nat \ {0}
         /\ VideoRows(l) = l.frames * RowsPerFrame(l)
<1>1. /\ l.frames \in Nat \ {0} /\ l.height \in Nat \ {0} /\ l.width \in Nat \ {0}
      /\ l.height \div 2 \in Nat \ {0} /\ l.width \div 2 \in Nat \ {0}
      /\ l.height = 2 * (l.height \div 2) /\ l.width = 2 * (l.width \div 2)
  BY Halved DEF IsLayout
<1>2. l.height * l.width \in Nat \ {0} BY <1>1
<1>3. RowsPerFrame(l) \in Nat \ {0} BY LayoutNumbers
<1>4. QED BY <1>1, <1>2, <1>3 DEF RowsPerFrame, VideoRows

\* The latent that a feature of a row reads.
LEMMA PatchedIs ==
  ASSUME NEW l, IsLayout(l), NEW row, NEW x, NEW c, NEW f, NEW y, NEW z, NEW dy, NEW dx,
         IsFeature(l, row, x, c, f, y, z, dy, dx)
  PROVE  PatchedLatent(l, row, x) = LatentOf(l, c, f, y, z, dy, dx)
<1> DEFINE F == l.frames
           W == l.width
           S == l.height * l.width
<1>1. PatchedLatent(l, row, x) = c * S * F + f * S + (2 * y + dy) * W + 2 * z + dx
  BY DEF PatchedLatent, IsFeature
<1>2. F \in Nat /\ W \in Nat /\ S \in Nat /\ VideoChannels \in Nat
  BY Sizes, PackingAssumption DEF PackingAssumption
<1>3. c \in Int /\ f \in Int /\ y \in Int /\ z \in Int /\ dy \in Int /\ dx \in Int BY DEF IsFeature
<1>4. LatentOf(l, c, f, y, z, dy, dx) = S * (F * c + f) + (W * (2 * y + dy) + (2 * z + dx))
  BY DEF LatentOf
<1> HIDE DEF F, W, S
<1>5. S * (F * c + f) = S * (F * c) + S * f /\ c * S * F = S * (F * c) /\ S * f = f * S
  BY <1>2, <1>3
<1> DEFINE v == 2 * y + dy
<1>6. v \in Int /\ v * W = W * v /\ W * v \in Int /\ S * (F * c) \in Int /\ f * S \in Int
  <2>1. v \in Int BY <1>3
  <2> HIDE DEF v
  <2>2. QED BY <2>1, <1>2, <1>3
<1> DEFINE A == S * (F * c)
           B == f * S
           C == W * v
<1>7. PatchedLatent(l, row, x) = A + B + C + 2 * z + dx BY <1>1, <1>5, <1>6
<1>8. LatentOf(l, c, f, y, z, dy, dx) = (A + B) + (C + (2 * z + dx)) BY <1>4, <1>5
<1> HIDE DEF A, B, C, v
<1>9. A \in Int /\ B \in Int /\ C \in Int BY <1>6 DEF A, B, C
<1>10. QED BY <1>3, <1>7, <1>8, <1>9

\* A row and a feature name a channel, a frame, a patch and a place in it.
LEMMA FeatureOfPlace ==
  ASSUME NEW l, IsLayout(l), NEW row \in 0 .. VideoRows(l) - 1, NEW x \in 0 .. 4 * VideoChannels - 1
  PROVE  IsFeature(l, row, x, x \div 4, row \div RowsPerFrame(l),
                   (row % RowsPerFrame(l)) \div (l.width \div 2), row % (l.width \div 2), (x % 4) \div 2, x % 2)
<1> DEFINE F == l.frames
           h == l.height \div 2
           w == l.width \div 2
           P == RowsPerFrame(l)
           n == VideoRows(l)
<1>1. F \in Nat \ {0} /\ h \in Nat \ {0} /\ w \in Nat \ {0} /\ P \in Nat \ {0} /\ P = h * w /\ n = F * P
  BY Sizes
<1>2. row \in 0 .. n - 1 OBVIOUS
<1> HIDE DEF F, h, w, P, n
<1>3. IsMixed(row, F, P, row \div P, row % P)
  <2>1. row \in 0 .. F * P - 1 BY <1>1, <1>2
  <2>2. QED BY ONLY <1>1, <2>1, Unmixed
<1> DEFINE r == row % P
<1>4. r \in 0 .. h * w - 1 BY <1>1, <1>3 DEF IsMixed
<1> HIDE DEF r
<1>5. IsMixed(r, h, w, r \div w, r % w) BY ONLY <1>1, <1>4, Unmixed
<1>6. row % w \in 0 .. w - 1
  <2>1. row \in Int
    <3>1. n \in Nat BY <1>1
    <3>2. QED BY <1>2, <3>1
  <2> DEFINE z == row % w
  <2>2. z \in Int /\ 0 <= z /\ z < w /\ w \in Int BY <1>1, <2>1, Divided
  <2> HIDE DEF z
  <2>3. z \in 0 .. w - 1 BY <2>2
  <2>4. QED BY <2>3 DEF z
<1>7. x \div 4 \in 0 .. VideoChannels - 1 /\ (x % 4) \div 2 \in 0 .. 1 /\ x % 2 \in 0 .. 1
  BY PackingAssumption DEF PackingAssumption
<1>8. QED BY <1>2, <1>3, <1>5, <1>6, <1>7 DEF IsFeature, IsMixed, F, h, w, P, n, r

\* And these name a row and a feature.
LEMMA FeatureExists ==
  ASSUME NEW l, IsLayout(l), NEW c \in 0 .. VideoChannels - 1, NEW f \in 0 .. l.frames - 1,
         NEW y \in 0 .. l.height \div 2 - 1, NEW z \in 0 .. l.width \div 2 - 1, NEW dy \in 0 .. 1, NEW dx \in 0 .. 1
  PROVE  \E row \in 0 .. VideoRows(l) - 1, x \in 0 .. 4 * VideoChannels - 1 :
            IsFeature(l, row, x, c, f, y, z, dy, dx)
<1> DEFINE F == l.frames
           h == l.height \div 2
           w == l.width \div 2
           P == RowsPerFrame(l)
           r == w * y + z
           row == P * f + r
           x == 4 * c + (2 * dy + dx)
<1>1. F \in Nat \ {0} /\ h \in Nat \ {0} /\ w \in Nat \ {0} /\ P \in Nat \ {0} /\ P = h * w /\ VideoRows(l) = F * P
  BY Sizes
<1>2. f \in 0 .. F - 1 /\ y \in 0 .. h - 1 /\ z \in 0 .. w - 1 OBVIOUS
<1> HIDE DEF F, h, w, P, row, x, r
<1>3. IsMixed(r, h, w, y, z)
  <2>1. h \in Nat BY <1>1
  <2>2. IsMixed(w * y + z, h, w, y, z) BY ONLY <1>1, <2>1, <1>2, Mixed
  <2>3. QED BY <2>2 DEF r
<1>4. r \in 0 .. P - 1 BY <1>1, <1>3 DEF IsMixed
<1>5. IsMixed(row, F, P, f, r)
  <2>1. F \in Nat BY <1>1
  <2>2. IsMixed(P * f + r, F, P, f, r) BY ONLY <1>1, <2>1, <1>2, <1>4, Mixed
  <2>3. QED BY <2>2 DEF row
<1>6. row % w = z
  <2>1. row \in Int
    <3>1. F * P \in Nat BY <1>1
    <3>2. row \in 0 .. F * P - 1 BY <1>5 DEF IsMixed
    <3> DEFINE k == F * P
    <3> HIDE DEF k
    <3>3. k \in Nat /\ row \in 0 .. k - 1 BY <3>1, <3>2 DEF k
    <3>4. QED BY <3>3
  <2>2. DividesTwice(row, h, w) BY ONLY <1>1, <2>1, DividedTwice
  <2>3. QED BY <1>1, <1>3, <1>5, <2>2 DEF DividesTwice, IsMixed
<1>7. /\ x \in 0 .. 4 * VideoChannels - 1 /\ x \div 4 = c /\ (x % 4) \div 2 = dy /\ x % 2 = dx
  BY PackingAssumption DEF PackingAssumption, x
<1>8. IsFeature(l, row, x, c, f, y, z, dy, dx)
  BY <1>1, <1>2, <1>3, <1>5, <1>6, <1>7 DEF IsFeature, IsMixed, F, h, w, P
<1>9. row \in 0 .. VideoRows(l) - 1 BY <1>1, <1>5 DEF IsMixed
<1>10. QED BY <1>7, <1>8, <1>9

\* A latent's channel, frame, height and width.
LEMMA LatentDigits ==
  ASSUME NEW l, IsLayout(l), NEW c \in 0 .. VideoChannels - 1, NEW f \in 0 .. l.frames - 1,
         NEW y \in 0 .. l.height \div 2 - 1, NEW z \in 0 .. l.width \div 2 - 1, NEW dy \in 0 .. 1, NEW dx \in 0 .. 1
  PROVE  LET n == LatentOf(l, c, f, y, z, dy, dx)
             S == l.height * l.width
         IN /\ IsMixed(n, VideoChannels * l.frames, S, l.frames * c + f, l.width * (2 * y + dy) + (2 * z + dx))
            /\ IsMixed(l.frames * c + f, VideoChannels, l.frames, c, f)
            /\ IsMixed(n % S, l.height, l.width, 2 * y + dy, 2 * z + dx)
            /\ (2 * y + dy) \div 2 = y /\ (2 * z + dx) \div 2 = z
            /\ n % l.width = 2 * z + dx
<1> DEFINE F == l.frames
           H == l.height
           W == l.width
           S == H * W
           k == F * c + f
           u == 2 * y + dy
           v == 2 * z + dx
           r == W * u + v
           n == S * k + r
           m == VideoChannels * F
<1>1. F \in Nat \ {0} /\ H \in Nat \ {0} /\ W \in Nat \ {0} /\ S \in Nat \ {0} /\ VideoChannels \in Nat
      /\ f \in 0 .. F - 1
  BY Sizes, PackingAssumption DEF PackingAssumption
<1>2. u \in 0 .. H - 1 /\ v \in 0 .. W - 1 /\ u \div 2 = y /\ v \div 2 = z
  <2> DEFINE h == H \div 2
             w == W \div 2
  <2>1. H = 2 * h /\ W = 2 * w /\ h \in Nat /\ w \in Nat /\ y \in 0 .. h - 1 /\ z \in 0 .. w - 1
    BY Sizes
  <2> HIDE DEF h, w, H, W
  <2>2. QED BY <2>1
<1>3. LatentOf(l, c, f, y, z, dy, dx) = n BY DEF LatentOf
<1> HIDE DEF F, H, W, u, v
<1>4. IsMixed(k, VideoChannels, F, c, f) BY ONLY <1>1, c \in 0 .. VideoChannels - 1, Mixed
<1>5. IsMixed(r, H, W, u, v)
  <2>1. H \in Nat BY <1>1
  <2>2. QED BY ONLY <1>1, <2>1, <1>2, Mixed
<1>6. m \in Nat BY <1>1
<1> HIDE DEF k, r, m, S
<1>7. k \in 0 .. m - 1 /\ r \in 0 .. S - 1 BY <1>4, <1>5 DEF IsMixed, m, S
<1>8. IsMixed(n, m, S, k, r) BY ONLY <1>1, <1>6, <1>7, Mixed
<1>9. n % S = r BY <1>8 DEF IsMixed
<1>10. n % W = v
  <2>1. n \in Int
    <3> DEFINE b == m * S
    <3>1. b \in Nat BY <1>1, <1>6
    <3> HIDE DEF b, n
    <3>2. n \in 0 .. b - 1 BY <1>8 DEF IsMixed, b
    <3>3. QED BY <3>1, <3>2
  <2> HIDE DEF n
  <2>2. DividesTwice(n, H, W) BY ONLY <1>1, <2>1, DividedTwice
  <2>3. QED BY <1>5, <1>9, <2>2 DEF DividesTwice, IsMixed, S
<1>11. QED BY <1>2, <1>3, <1>4, <1>5, <1>8, <1>9, <1>10 DEF F, H, W, S, k, u, v, r, m

\* PatchesAreWhole, of any sequence.
PatchesOf(s) ==
  LET l == s.layout
      places == (0 .. VideoRows(l) - 1) \X (0 .. 4 * VideoChannels - 1)
      plane == l.height * l.width
      latent(p) == PatchedLatent(l, p[1], p[2])
      at(p) == s.at[VideoStart(l) + p[1] + 1]
  IN /\ {latent(p) : p \in places} = 0 .. VideoChannels * l.frames * plane - 1
     /\ \A p \in places :
          /\ ((latent(p) % plane) \div l.width) \div 2 = at(p)[2][3]
          /\ (latent(p) % l.width) \div 2 = at(p)[3][3]
          /\ at(p)[1] - s.at[VideoStart(l) + 1][1] = Elapsed((latent(p) \div plane) % l.frames)

\* Every latent of the target is read by some feature of some row.
LEMMA EveryLatent ==
  ASSUME NEW l, IsLayout(l), NEW n, n \in 0 .. (VideoChannels * l.frames) * (l.height * l.width) - 1
  PROVE  \E row \in 0 .. VideoRows(l) - 1, x \in 0 .. 4 * VideoChannels - 1 : PatchedLatent(l, row, x) = n
<1> DEFINE F == l.frames
           H == l.height
           W == l.width
           S == H * W
           m == VideoChannels * F
           k == n \div S
           r == n % S
           u == r \div W
           v == r % W
<1>1. F \in Nat \ {0} /\ H \in Nat \ {0} /\ W \in Nat \ {0} /\ S \in Nat \ {0} /\ VideoChannels \in Nat
      /\ m \in Nat /\ n \in 0 .. m * S - 1
  <2>1. F \in Nat \ {0} /\ H \in Nat \ {0} /\ W \in Nat \ {0} /\ S \in Nat \ {0} BY Sizes
  <2>2. VideoChannels \in Nat BY PackingAssumption DEF PackingAssumption
  <2>3. m \in Nat
    <3> HIDE DEF F
    <3>1. QED BY <2>1, <2>2
  <2>4. n \in 0 .. m * S - 1 OBVIOUS
  <2>5. QED BY <2>1, <2>2, <2>3, <2>4
<1> HIDE DEF F, H, W
<1>2. IsMixed(n, m, S, k, r)
  <2> HIDE DEF S, m
  <2>1. QED BY ONLY <1>1, Unmixed DEF k, r
<1> HIDE DEF k, r, m
<1>3. IsMixed(k, VideoChannels, F, k \div F, k % F)
  <2>1. k \in 0 .. VideoChannels * F - 1 BY <1>2 DEF IsMixed, m
  <2>2. QED BY ONLY <1>1, <2>1, Unmixed
<1>4. IsMixed(r, H, W, u, v)
  <2>1. r \in 0 .. H * W - 1 /\ H \in Nat BY <1>1, <1>2 DEF IsMixed
  <2>2. QED BY ONLY <1>1, <2>1, Unmixed DEF u, v
<1> DEFINE c == k \div F
           f == k % F
<1> HIDE DEF c, f, u, v, S
<1>5. c \in 0 .. VideoChannels - 1 /\ f \in 0 .. F - 1 /\ k = F * c + f /\ n = S * k + r /\ r = W * u + v
      /\ u \in 0 .. H - 1 /\ v \in 0 .. W - 1
  BY <1>2, <1>3, <1>4 DEF IsMixed, c, f
<1> DEFINE y == u \div 2
           dy == u % 2
           z == v \div 2
           dx == v % 2
<1>6. /\ y \in 0 .. H \div 2 - 1 /\ z \in 0 .. W \div 2 - 1 /\ dy \in 0 .. 1 /\ dx \in 0 .. 1
      /\ u = 2 * y + dy /\ v = 2 * z + dx
  <2> DEFINE h == H \div 2
             w == W \div 2
  <2>1. H = 2 * h /\ W = 2 * w /\ h \in Nat /\ w \in Nat BY Sizes DEF H, W
  <2> HIDE DEF h, w
  <2>2. y \in 0 .. h - 1 /\ z \in 0 .. w - 1 /\ dy \in 0 .. 1 /\ dx \in 0 .. 1 /\ u = 2 * y + dy /\ v = 2 * z + dx
    BY <1>5, <2>1
  <2>3. QED BY <2>2 DEF h, w
<1> HIDE DEF y, z, dy, dx
<1>7. LatentOf(l, c, f, y, z, dy, dx) = n BY <1>5, <1>6 DEF LatentOf, S, F, H, W
<1>8. PICK row \in 0 .. VideoRows(l) - 1, x \in 0 .. 4 * VideoChannels - 1 :
        IsFeature(l, row, x, c, f, y, z, dy, dx)
  BY <1>5, <1>6, FeatureExists DEF F, H, W
<1>9. PatchedLatent(l, row, x) = n BY <1>7, <1>8, PatchedIs
<1>10. QED BY <1>9

\* The latents of a sequence's rows are those of the patches at their places.
LEMMA PatchesAgree ==
  ASSUME NEW s, IsLayout(s.layout), NEW c \in Int, TargetAt(s, c)
  PROVE  PatchesOf(s)
<1> DEFINE l == s.layout
           P == RowsPerFrame(l)
           w == l.width \div 2
           V == VideoStart(l)
           S == l.height * l.width
           n == VideoRows(l)
<1>1. n \in Nat \ {0} /\ V \in Nat /\ P \in Nat \ {0} BY LayoutNumbers
<1>2. \A x \in 1 .. n : s.at[V + x] = PicturePlace(l, c, x) BY DEF TargetAt
<1>3. ASSUME NEW row \in 0 .. n - 1, NEW x \in 0 .. 4 * VideoChannels - 1
      PROVE  /\ PatchedLatent(l, row, x) \in 0 .. (VideoChannels * l.frames) * S - 1
             /\ ((PatchedLatent(l, row, x) % S) \div l.width) \div 2 = s.at[V + row + 1][2][3]
             /\ (PatchedLatent(l, row, x) % l.width) \div 2 = s.at[V + row + 1][3][3]
             /\ s.at[V + row + 1][1] - s.at[V + 1][1] = Elapsed((PatchedLatent(l, row, x) \div S) % l.frames)
  <2> DEFINE ch == x \div 4
             f == row \div P
             y == (row % P) \div w
             z == row % w
             dy == (x % 4) \div 2
             dx == x % 2
             latent == PatchedLatent(l, row, x)
  <2>1. IsFeature(l, row, x, ch, f, y, z, dy, dx) BY FeatureOfPlace
  <2> HIDE DEF ch, f, y, z, dy, dx, latent, l
  <2>2. /\ ch \in 0 .. VideoChannels - 1 /\ f \in 0 .. l.frames - 1
        /\ y \in 0 .. l.height \div 2 - 1 /\ z \in 0 .. l.width \div 2 - 1 /\ dy \in 0 .. 1 /\ dx \in 0 .. 1
    BY <2>1 DEF IsFeature
  <2>3. latent = LatentOf(l, ch, f, y, z, dy, dx) BY <2>1, PatchedIs DEF latent, l
  <2>4. /\ IsMixed(latent, VideoChannels * l.frames, S, l.frames * ch + f, l.width * (2 * y + dy) + (2 * z + dx))
        /\ IsMixed(l.frames * ch + f, VideoChannels, l.frames, ch, f)
        /\ IsMixed(latent % S, l.height, l.width, 2 * y + dy, 2 * z + dx)
        /\ (2 * y + dy) \div 2 = y /\ (2 * z + dx) \div 2 = z
        /\ latent % l.width = 2 * z + dx
    <3>1. IsLayout(l) BY DEF l
    <3>2. QED BY <3>1, <2>2, <2>3, LatentDigits
  <2>5. latent \in 0 .. (VideoChannels * l.frames) * S - 1 /\ ((latent % S) \div l.width) \div 2 = y
        /\ (latent % l.width) \div 2 = z /\ (latent \div S) % l.frames = f
    BY <2>4 DEF IsMixed
  <2>6. s.at[V + row + 1] = <<c + Elapsed(f), <<l.height, l.width, y>>, <<l.width, l.height, z>> >>
    <3> DEFINE i == row + 1
    <3> HIDE DEF V, n
    <3>1. i \in 1 .. n /\ V + i = V + row + 1 /\ i - 1 = row BY ONLY <1>1, row \in 0 .. n - 1
    <3> HIDE DEF i
    <3>2. s.at[V + i] = PicturePlace(l, c, i) BY <1>2, <3>1 DEF l
    <3>3. QED BY <3>1, <3>2 DEF PicturePlace, f, y, z, P, w
  <2>7. s.at[V + 1][1] = c
    <3> HIDE DEF V, n
    <3>1. 1 \in 1 .. n BY ONLY <1>1
    <3>2. s.at[V + 1] = PicturePlace(l, c, 1) BY <1>2, <3>1 DEF l
    <3>3. (1 - 1) \div RowsPerFrame(l) = 0
      <4> DEFINE b == RowsPerFrame(l)
      <4>1. b \in Nat \ {0} /\ b * 0 + 0 = 0 BY <1>1
      <4> HIDE DEF b
      <4>2. (b * 0 + 0) \div b = 0 BY <4>1, DividedOnce
      <4>3. QED BY <4>1, <4>2 DEF b
    <3>4. Elapsed(0) = 0 /\ c + 0 = c BY DEF Elapsed
    <3>5. s.at[V + 1][1] = c + Elapsed((1 - 1) \div RowsPerFrame(l)) BY <3>2 DEF PicturePlace
    <3>6. QED BY ONLY <3>3, <3>4, <3>5
  <2>8. (c + Elapsed(f)) - c = Elapsed(f)
    <3>1. f \in Nat
      <4>1. l.frames \in Nat BY DEF l, IsLayout
      <4>2. QED BY <4>1, <2>2
    <3>2. Elapsed(f) \in Int BY <3>1, ElapsedGrows
    <3>3. QED BY <3>2
  <2>9. QED BY <2>5, <2>6, <2>7, <2>8 DEF latent, l
<1>4. \A a \in 0 .. (VideoChannels * l.frames) * S - 1 :
         \E row \in 0 .. n - 1, x \in 0 .. 4 * VideoChannels - 1 : PatchedLatent(l, row, x) = a
  BY EveryLatent
<1> HIDE DEF l, P, w, V, S, n
<1>5. QED
  <2> DEFINE places == (0 .. n - 1) \X (0 .. 4 * VideoChannels - 1)
             latent(p) == PatchedLatent(l, p[1], p[2])
             all == 0 .. (VideoChannels * l.frames) * S - 1
  <2>1. {latent(p) : p \in places} \subseteq all
    <3> HIDE DEF all
    <3>1. \A p \in places : p[1] \in 0 .. n - 1 /\ p[2] \in 0 .. 4 * VideoChannels - 1 OBVIOUS
    <3>2. QED BY <1>3, <3>1 DEF all
  <2>2. ASSUME NEW a \in all PROVE a \in {latent(p) : p \in places}
    <3>1. PICK row \in 0 .. n - 1, x \in 0 .. 4 * VideoChannels - 1 : PatchedLatent(l, row, x) = a
      BY <1>4
    <3>2. <<row, x>> \in places /\ latent(<<row, x>>) = a BY <3>1
    <3> HIDE DEF places, latent
    <3>3. QED BY <3>2
  <2>3. {latent(p) : p \in places} = all BY <2>1, <2>2
  <2>4. \A p \in places : p[1] \in 0 .. n - 1 /\ p[2] \in 0 .. 4 * VideoChannels - 1 OBVIOUS
  <2>5. QED BY <1>3, <2>3, <2>4 DEF PatchesOf, l, V, S, n

-----------------------------------------------------------------------------
(* Where the rows of a reference lie, and when.                            *)

\* The placings of references that fit the target.
Steps(P, t, rs, total) ==
  /\ Len(rs) \in Nat /\ total \in Nat
  /\ \A k \in 0 .. Len(rs) : DOMAIN P[k].at = 1 .. total /\ P[k].next \in Nat /\ P[k].clock \in Nat
  /\ \A k \in 1 .. Len(rs) :
       /\ Fits(rs[k], t) /\ P[k] = Place(P[k - 1], rs[k], t)
       /\ RefAudioRows(rs[k]) \in Nat /\ RefVideoRows(rs[k]) \in Nat /\ Moves(rs[k]) \in Nat
       /\ P[k].next = P[k - 1].next + RefAudioRows(rs[k]) + RefVideoRows(rs[k])
       /\ P[k].clock = P[k - 1].clock + Moves(rs[k])

\* The placings of a request's references are such.
LEMMA StepsOf ==
  ASSUME NEW P, NEW N, NEW t, IsTarget(t), NEW rs, IsRefs(rs), \A k \in 1 .. Len(rs) : Fits(rs[k], t),
         NEW total \in Nat, IsPlacing(P, t, rs, total), IsCounting(N, rs)
  PROVE  Steps(P, t, rs, total)
<1>1. Len(rs) \in Nat /\ DOMAIN rs = 1 .. Len(rs) /\ t.text \in Nat BY DEF IsRefs, IsList, IsTarget
<1>2. \A k \in 0 .. Len(rs) : DOMAIN P[k].at = 1 .. total BY PlacedDomain
<1>3. \A k \in 0 .. Len(rs) : P[k].clock \in Nat BY <1>1, ClockIsNatural
<1>4. \A k \in 0 .. Len(rs) : P[k].next \in Nat
  <2>1. \A k \in 0 .. Len(rs) : Laid(P[k], t.text, N[k].video, N[k].audio) BY <1>1, AlwaysLaid
  <2>2. \A k \in 0 .. Len(rs) : N[k].video \in Nat /\ N[k].audio \in Nat BY CountsAreNaturals
  <2>3. ASSUME NEW k \in 0 .. Len(rs) PROVE P[k].next \in Nat
    <3>1. Laid(P[k], t.text, N[k].video, N[k].audio) /\ N[k].video \in Nat /\ N[k].audio \in Nat
      BY <2>1, <2>2
    <3>2. QED BY <1>1, <3>1 DEF Laid
  <2>4. QED BY <2>3
<1>5. ASSUME NEW k \in 1 .. Len(rs)
      PROVE  /\ P[k] = Place(P[k - 1], rs[k], t)
             /\ RefAudioRows(rs[k]) \in Nat /\ RefVideoRows(rs[k]) \in Nat /\ Moves(rs[k]) \in Nat
             /\ P[k].next = P[k - 1].next + RefAudioRows(rs[k]) + RefVideoRows(rs[k])
             /\ P[k].clock = P[k - 1].clock + Moves(rs[k])
  <2>1. IsReference(rs[k]) BY <1>1 DEF IsRefs
  <2>2. RefAudioRows(rs[k]) \in Nat /\ RefVideoRows(rs[k]) \in Nat BY <2>1, RowsOfReference
  <2>3. Moves(rs[k]) \in Nat BY <2>1, MovesOn
  <2>4. P[k] = Place(P[k - 1], rs[k], t) BY DEF IsPlacing
  <2>5. Adds(Place(P[k - 1], rs[k], t), P[k - 1], rs[k]) BY PlaceAdds
  <2>6. QED BY <2>2, <2>3, <2>4, <2>5 DEF Adds
<1>6. QED BY <1>1, <1>2, <1>3, <1>4, <1>5 DEF Steps

\* What is placed stays where it is, and the clock does not run back.
Kept(p, q, total) ==
  /\ q.next >= p.next /\ q.clock >= p.clock
  /\ \A x \in 1 .. total : x - 1 < p.next => q.at[x] = p.at[x]

\* A step of a trace keeps the places before it.
LEMMA KeptByStep ==
  ASSUME NEW P, NEW t, NEW rs, NEW total, Steps(P, t, rs, total), NEW k \in 1 .. Len(rs)
  PROVE  Kept(P[k - 1], P[k], total)
<1> DEFINE p == P[k - 1]
           r == rs[k]
<1>0. Len(rs) \in Nat /\ total \in Nat BY DEF Steps
<1>1. DOMAIN p.at = 1 .. total /\ p.next \in Nat /\ p.clock \in Nat
  <2>1. k - 1 \in 0 .. Len(rs) BY <1>0
  <2>2. QED BY <2>1 DEF Steps
<1>2. /\ Fits(r, t) /\ P[k] = Place(p, r, t)
      /\ RefAudioRows(r) \in Nat /\ RefVideoRows(r) \in Nat /\ Moves(r) \in Nat
      /\ P[k].next = p.next + RefAudioRows(r) + RefVideoRows(r) /\ P[k].clock = p.clock + Moves(r)
  BY DEF Steps
<1> HIDE DEF p, r
<1>3. ASSUME NEW x \in 1 .. total, x - 1 < p.next PROVE P[k].at[x] = p.at[x]
  BY ONLY <1>0, <1>1, <1>2, <1>3, PlaceAtStep
<1>4. P[k].next >= p.next /\ P[k].clock >= p.clock BY <1>1, <1>2
<1>5. QED BY <1>3, <1>4 DEF Kept, p

\* So do all the steps behind it.
LEMMA KeptFrom ==
  ASSUME NEW P, NEW t, NEW rs, NEW total, Steps(P, t, rs, total), NEW i \in 0 .. Len(rs), NEW k \in i .. Len(rs)
  PROVE  Kept(P[i], P[k], total)
<1>0. Len(rs) \in Nat /\ total \in Nat BY DEF Steps
<1>1. \A m \in 0 .. Len(rs) : P[m].next \in Nat /\ P[m].clock \in Nat BY DEF Steps
<1> DEFINE d == Len(rs) - i
           Good == {m \in 0 .. d : Kept(P[i], P[i + m], total)}
<1>2. d \in Nat BY <1>0
<1>3. 0 \in Good
  <2>1. Kept(P[i], P[i], total) BY <1>1 DEF Kept
  <2>2. i + 0 = i BY <1>0
  <2>3. QED BY <1>2, <2>1, <2>2
<1>4. ASSUME NEW m \in 0 .. d - 1, m \in Good PROVE m + 1 \in Good
  <2> DEFINE a == i + m
             b == i + (m + 1)
  <2>1. a \in 0 .. Len(rs) /\ b \in 1 .. Len(rs) /\ b - 1 = a /\ m + 1 \in 0 .. d BY <1>0, <1>2
  <2>2. Kept(P[i], P[a], total) BY <1>4
  <2> HIDE DEF a, b
  <2>3. Kept(P[b - 1], P[b], total) BY <2>1, KeptByStep
  <2>4. Kept(P[i], P[b], total)
    <3>1. P[b].next \in Nat /\ P[a].next \in Nat /\ P[i].next \in Nat /\ P[b].clock \in Nat /\ P[a].clock \in Nat
          /\ P[i].clock \in Nat
      BY SMTT(30), <1>0, <1>1, <2>1
    <3>2. Kept(P[a], P[b], total) BY <2>1, <2>3
    <3>3. P[b].next >= P[i].next /\ P[b].clock >= P[i].clock BY SMTT(30), <2>2, <3>1, <3>2 DEF Kept
    <3>4. ASSUME NEW x \in 1 .. total, x - 1 < P[i].next PROVE P[b].at[x] = P[i].at[x]
      <4>1. P[a].at[x] = P[i].at[x] /\ P[a].next >= P[i].next BY <2>2, <3>4 DEF Kept
      <4>2. x - 1 < P[a].next BY <1>0, <3>1, <3>4, <4>1
      <4>3. P[b].at[x] = P[a].at[x] BY <3>2, <4>2 DEF Kept
      <4>4. QED BY <4>1, <4>3
    <3>5. QED BY <3>3, <3>4 DEF Kept
  <2>5. QED BY <2>1, <2>4 DEF b
<1> HIDE DEF Good
<1>5. \A m \in 0 .. d : m \in Good BY ONLY <1>2, <1>3, <1>4, Reaches
<1>6. k - i \in 0 .. d /\ i + (k - i) = k BY <1>0
<1>7. QED BY <1>5, <1>6 DEF Good


\* The rows of a reference have the places it gave them.
IsPlaced(at, p, q, r, t) ==
  \A x \in p.next + 1 .. q.next :
    LET first == p.next + RefAudioRows(r)
    IN /\ x <= first => at[x] = Sound(p, r, t)[x - p.next]
       /\ x > first => at[x] = Picture(p, r, t)[x - first]

\* They keep them to the end of the trace.
LEMMA ReferenceIsPlaced ==
  ASSUME NEW P, NEW t, NEW rs, NEW total, Steps(P, t, rs, total), NEW i \in 1 .. Len(rs), P[Len(rs)].next <= total
  PROVE  IsPlaced(P[Len(rs)].at, P[i - 1], P[i], rs[i], t)
<1> DEFINE n == Len(rs)
           p == P[i - 1]
           q == P[i]
           z == P[n]
           r == rs[i]
           first == p.next + RefAudioRows(r)
<1>1. n \in Nat /\ total \in Nat /\ i \in 1 .. n /\ i \in 0 .. n /\ n \in i .. n /\ n \in 0 .. n /\ i - 1 \in 0 .. n
  BY DEF Steps
<1>2. DOMAIN p.at = 1 .. total /\ p.next \in Nat /\ q.next \in Nat /\ z.next \in Nat
  BY <1>1 DEF Steps
<1>3. Fits(r, t) /\ q = Place(p, r, t) /\ RefAudioRows(r) \in Nat BY DEF Steps
<1>4. Kept(q, z, total) BY <1>1, KeptFrom
<1> HIDE DEF n, p, q, z, r
<1>5. ASSUME NEW x \in p.next + 1 .. q.next
      PROVE  /\ x <= first => z.at[x] = Sound(p, r, t)[x - p.next]
             /\ x > first => z.at[x] = Picture(p, r, t)[x - first]
  <2>1. q.next <= total
    <3>1. z.next <= total BY DEF z, n
    <3>2. QED BY <1>1, <1>2, <1>4, <3>1 DEF Kept
  <2>2. x \in 1 .. total /\ x - 1 < q.next /\ x - 1 >= p.next BY <1>1, <1>2, <2>1
  <2>3. z.at[x] = q.at[x] BY <1>4, <2>2 DEF Kept
  <2>4. /\ x - 1 >= p.next /\ x - 1 < first => q.at[x] = Sound(p, r, t)[x - p.next]
        /\ x - 1 >= first /\ x - 1 < q.next => q.at[x] = Picture(p, r, t)[x - first]
    BY ONLY <1>1, <1>2, <1>3, <2>2, PlaceAtStep DEF first
  <2>5. first \in Nat /\ x \in Int BY <1>2, <1>3
  <2> HIDE DEF first
  <2>6. QED BY <2>2, <2>3, <2>4, <2>5
<1>6. QED BY <1>5 DEF IsPlaced, p, q, z, r, n

\* An ordinary reference's rows lie between where the clock stood before it and where it stands after it.
LEMMA OrdinaryTimes ==
  ASSUME NEW p, NEW q, NEW r, NEW t, Fits(r, t), ~r.aligned, p.next \in Nat, p.clock \in Nat,
         q.next = p.next + RefAudioRows(r) + RefVideoRows(r), q.clock = p.clock + Moves(r),
         NEW at, IsPlaced(at, p, q, r, t), NEW x \in p.next + 1 .. q.next
  PROVE  at[x][1] \in Nat /\ p.clock <= at[x][1] /\ at[x][1] < q.clock
<1> DEFINE first == p.next + RefAudioRows(r)
<1>1. IsReference(r) /\ r.audio \in Nat /\ r.frames \in Nat /\ RefAudioRows(r) \in Nat /\ RefVideoRows(r) \in Nat
      /\ RefAudioRows(r) = 2 * r.audio
  BY RowsOfReference DEF Fits, IsReference, RefAudioRows
<1>2. /\ Moves(r) \in Nat
      /\ \A y \in 0 .. r.audio - 1 : Clock * y < Moves(r)
      /\ r.kind # "audio" => \A f \in 0 .. r.frames - 1 : Elapsed(f) < Moves(r)
  BY <1>1, MovesOn
<1>3. Origin(p, r) = p.clock /\ Heard(p, r) = p.clock BY DEF Origin, Heard
<1>4. first \in Nat /\ x \in Nat BY <1>1
<1>5. CASE x <= first
  <2> DEFINE y == x - p.next
             m == r.audio
             u == Sound(p, r, t)
  <2>1. at[x] = u[y] BY <1>5 DEF IsPlaced
  <2>2. y \in 1 .. 2 * m BY <1>1, <1>5
  <2>3. IsSound(u, m, Heard(p, r), SoundWidths(r, t)) BY <1>1, SoundLength DEF Sound
  <2>4. u[y][1] = p.clock + Clock * ((y - 1) % m) BY SMTT(30), <1>3, <2>2, <2>3 DEF IsSound
  <2>5. (y - 1) % m \in 0 .. m - 1
    <3> HIDE DEF y
    <3>1. m \in Nat \ {0} /\ y - 1 \in Int BY <1>1, <2>2
    <3> HIDE DEF m
    <3>2. QED BY <3>1, Divided
  <2>6. Clock * ((y - 1) % m) < Moves(r) /\ Clock * ((y - 1) % m) \in Nat BY <1>2, <2>5 DEF Clock
  <2> HIDE DEF y, m, u
  <2>7. QED BY <1>2, <2>1, <2>4, <2>6
<1>6. CASE x > first
  <2> DEFINE y == x - first
             u == Picture(p, r, t)
             b == (r.height \div 2) * (r.width \div 2)
             f == (y - 1) \div b
  <2>1. at[x] = u[y] BY <1>6 DEF IsPlaced
  <2>2. y \in 1 .. RefVideoRows(r) BY <1>1, <1>4, <1>6
  <2>3. r.kind # "audio" BY <2>2 DEF RefVideoRows
  <2>4. IsPlace(y, r.frames, r.height \div 2, r.width \div 2) /\ u[y][1] = Origin(p, r) + Elapsed(f)
    <3> HIDE DEF y
    <3>1. QED BY <2>2, <2>3, PictureLength
  <2>5. f \in 0 .. r.frames - 1 BY <2>4 DEF IsPlace
  <2>6. Elapsed(f) < Moves(r) /\ Elapsed(f) \in Nat
    <3> HIDE DEF f
    <3>1. f \in Nat BY <1>1, <2>5
    <3>2. QED BY <1>2, <2>3, <2>5, <3>1, ElapsedGrows
  <2> HIDE DEF y, u, f
  <2>7. QED BY <1>2, <1>3, <2>1, <2>4, <2>6
<1>7. QED BY <1>4, <1>5, <1>6

\* Guides come last, and do not move the clock.
GuidesLast(rs) == \A i, j \in DOMAIN rs : i < j /\ rs[i].aligned => rs[j].aligned

\* Guides are last and leave the clock where they found it.
LEMMA GuidesKeepTheClock ==
  ASSUME NEW P, NEW t, NEW rs, NEW total, Steps(P, t, rs, total), DOMAIN rs = 1 .. Len(rs), GuidesLast(rs),
         NEW i \in 1 .. Len(rs), rs[i].aligned
  PROVE  P[Len(rs)].clock = P[i - 1].clock
<1> DEFINE d == Len(rs) - (i - 1)
           Good == {m \in 0 .. d : P[(i - 1) + m].clock = P[i - 1].clock}
<1>1. d \in Nat /\ Len(rs) \in Nat BY DEF Steps
<1>2. 0 \in Good
  <2>1. (i - 1) + 0 = i - 1 BY <1>1
  <2>2. QED BY <1>1, <2>1
<1>3. ASSUME NEW m \in 0 .. d - 1, m \in Good PROVE m + 1 \in Good
  <2> DEFINE a == (i - 1) + m
             b == (i - 1) + (m + 1)
  <2>1. b \in 1 .. Len(rs) /\ b - 1 = a /\ m + 1 \in 0 .. d /\ (b = i \/ i < b) /\ a \in 0 .. Len(rs)
    BY <1>1
  <2>2. P[a].clock = P[i - 1].clock BY <1>3
  <2> HIDE DEF a, b
  <2>3. rs[b].aligned BY <2>1 DEF GuidesLast
  <2>4. P[b].clock = P[b - 1].clock + Moves(rs[b]) /\ IsReference(rs[b]) BY <2>1 DEF Steps, Fits
  <2>5. Moves(rs[b]) = 0 BY <2>3, <2>4, MovesOn
  <2>6. P[a].clock \in Nat BY <2>1 DEF Steps
  <2>7. P[b].clock = P[i - 1].clock BY <2>1, <2>2, <2>4, <2>5, <2>6
  <2>8. QED BY <2>1, <2>7 DEF b
<1> HIDE DEF Good
<1>4. \A m \in 0 .. d : m \in Good BY ONLY <1>1, <1>2, <1>3, Reaches
<1>5. d \in 0 .. d /\ (i - 1) + d = Len(rs) BY <1>1
<1>6. QED BY <1>4, <1>5 DEF Good

\* A guide's picture lies on patches of the target.
OnPatch(place, t, y, z) == place[2] = <<t.height, t.width, y>> /\ place[3] = <<t.width, t.height, z>>

\* The patches of an even rectangle lie in an even canvas.
HalvesFit(y, h, dim) ==
  /\ (y + h) \div 2 = y \div 2 + h \div 2 /\ y \div 2 + h \div 2 <= dim \div 2
  /\ y \div 2 \in Nat /\ dim \div 2 \in Nat

\* Sums of even numbers, halved.
LEMMA Halves ==
  ASSUME NEW y \in Nat, NEW h \in Nat, NEW dim \in Nat, y % 2 = 0, h % 2 = 0, y + h <= dim
  PROVE  HalvesFit(y, h, dim)
BY DEF HalvesFit

\* A guide's rows lie on patches of the target, an image's on those of its rectangle.
LEMMA GuidePlaces ==
  ASSUME NEW p, NEW q, NEW r, NEW t, Fits(r, t), r.aligned, p.next \in Nat, p.clock \in Nat,
         q.next = p.next + RefAudioRows(r) + RefVideoRows(r),
         NEW at, IsPlaced(at, p, q, r, t), NEW x \in p.next + RefAudioRows(r) + 1 .. q.next
  PROVE  \E y \in 0 .. t.height \div 2 - 1, z \in 0 .. t.width \div 2 - 1 :
           /\ OnPatch(at[x], t, y, z)
           /\ r.kind = "image" =>
                /\ at[x][1] = p.clock + r.offset
                /\ y \in r.y \div 2 .. (r.y + r.height) \div 2 - 1
                /\ z \in r.x \div 2 .. (r.x + r.width) \div 2 - 1
<1> DEFINE first == p.next + RefAudioRows(r)
           i == x - first
           u == Picture(p, r, t)
           h == r.height \div 2
           w == r.width \div 2
           f == (i - 1) \div (h * w)
           a == ((i - 1) % (h * w)) \div w
           b == (i - 1) % w
<1>1. IsReference(r) /\ IsTarget(t) /\ GuideFits(r, t) /\ RefAudioRows(r) \in Nat /\ RefVideoRows(r) \in Nat
  BY RowsOfReference DEF Fits
<1>2. first \in Nat /\ x \in p.next + 1 .. q.next /\ x > first BY <1>1
<1>3. at[x] = u[i] BY <1>2 DEF IsPlaced
<1>4. i \in 1 .. RefVideoRows(r) BY <1>1, <1>2
<1>5. r.kind # "audio" BY <1>4 DEF RefVideoRows
<1> HIDE DEF i, u, first
<1>6. /\ IsPlace(i, r.frames, h, w)
      /\ u[i] = <<Origin(p, r) + Elapsed(f), Heights(r, t)[1 + a], Widths(r, t)[1 + b]>>
  BY <1>4, <1>5, PictureLength DEF u
<1>7. f \in 0 .. r.frames - 1 /\ a \in 0 .. h - 1 /\ b \in 0 .. w - 1 /\ h \in Nat /\ w \in Nat
  BY <1>6 DEF IsPlace
<1>8. /\ ~IsPositioned(r) =>
           /\ \A k \in 1 .. h : Heights(r, t)[k] = <<r.height, r.width, k - 1>>
           /\ \A k \in 1 .. w : Widths(r, t)[k] = <<r.width, r.height, k - 1>>
      /\ IsPositioned(r) =>
           /\ \A k \in 1 .. h : Heights(r, t)[k] = <<t.height, t.width, r.y \div 2 + k - 1>>
           /\ \A k \in 1 .. w : Widths(r, t)[k] = <<t.width, t.height, r.x \div 2 + k - 1>>
  BY <1>5, GridSizes
<1> HIDE DEF f, a, b
<1>9. 1 + a \in 1 .. h /\ 1 + b \in 1 .. w /\ (1 + a) - 1 = a /\ (1 + b) - 1 = b BY <1>7
<1>10. CASE r.kind = "image"
  <2>1. /\ r.y \in Nat /\ r.height \in Nat /\ t.height \in Nat /\ r.y % 2 = 0 /\ r.height % 2 = 0
        /\ r.y + r.height <= t.height
        /\ r.x \in Nat /\ r.width \in Nat /\ t.width \in Nat /\ r.x % 2 = 0 /\ r.width % 2 = 0
        /\ r.x + r.width <= t.width /\ r.frames = 1 /\ r.offset \in Int
    BY <1>1, <1>10 DEF IsReference, IsTarget, GuideFits
  <2> DEFINE y0 == r.y \div 2
             x0 == r.x \div 2
             y == y0 + a
             z == x0 + b
  <2>2. /\ (r.y + r.height) \div 2 = y0 + h /\ y0 + h <= t.height \div 2 /\ y0 \in Nat /\ t.height \div 2 \in Nat
        /\ (r.x + r.width) \div 2 = x0 + w /\ x0 + w <= t.width \div 2 /\ x0 \in Nat /\ t.width \div 2 \in Nat
    <3>1. HalvesFit(r.y, r.height, t.height) /\ HalvesFit(r.x, r.width, t.width) BY <2>1, Halves
    <3>2. QED BY <3>1 DEF HalvesFit
  <2> HIDE DEF y0, x0, h, w
  <2>3. /\ y \in 0 .. t.height \div 2 - 1 /\ z \in 0 .. t.width \div 2 - 1
        /\ y \in y0 .. (r.y + r.height) \div 2 - 1 /\ z \in x0 .. (r.x + r.width) \div 2 - 1
    BY <1>7, <2>2
  <2>4. IsPositioned(r) BY <1>10 DEF IsPositioned
  <2>5. Heights(r, t)[1 + a] = <<t.height, t.width, y0 + (1 + a) - 1>>
        /\ Widths(r, t)[1 + b] = <<t.width, t.height, x0 + (1 + b) - 1>>
    BY <1>8, <1>9, <2>4 DEF y0, x0
  <2>6. y0 + (1 + a) - 1 = y /\ x0 + (1 + b) - 1 = z BY <1>7, <2>2
  <2>7. Origin(p, r) + Elapsed(f) = p.clock + r.offset
    <3>1. f = 0 BY <1>7, <2>1
    <3>2. QED BY <2>1, <3>1, ElapsedGrows DEF Origin
  <2>8. OnPatch(at[x], t, y, z) /\ at[x][1] = p.clock + r.offset
    BY <1>3, <1>6, <2>5, <2>6, <2>7 DEF OnPatch
  <2> HIDE DEF y, z
  <2>9. QED BY <1>10, <2>3, <2>8 DEF y0, x0
<1>11. CASE r.kind # "image"
  <2>1. r.height = t.height /\ r.width = t.width BY <1>1, <1>11 DEF GuideFits
  <2>2. ~IsPositioned(r) BY <1>11 DEF IsPositioned
  <2>3. Heights(r, t)[1 + a] = <<t.height, t.width, a>> /\ Widths(r, t)[1 + b] = <<t.width, t.height, b>>
    BY <1>8, <1>9, <2>1, <2>2
  <2>4. OnPatch(at[x], t, a, b) BY <1>3, <1>6, <2>3 DEF OnPatch
  <2>5. QED BY <1>7, <1>11, <2>1, <2>4
<1>12. QED BY <1>10, <1>11

\* Every patch of the target has a row.
LEMMA PatchHasRow ==
  ASSUME NEW s, IsLayout(s.layout), NEW c, TargetAt(s, c),
         NEW y \in 0 .. s.layout.height \div 2 - 1, NEW z \in 0 .. s.layout.width \div 2 - 1
  PROVE  \E row \in VideoStart(s.layout) .. TotalRows(s.layout) - 1 : OnPatch(s.at[row + 1], s.layout, y, z)
<1> DEFINE l == s.layout
           V == VideoStart(l)
           n == VideoRows(l)
<1>1. VideoChannels \in Nat \ {0} BY PackingAssumption DEF PackingAssumption
<1>2. V \in Nat /\ n \in Nat /\ TotalRows(l) = V + n BY LayoutNumbers
<1>3. l.frames \in Nat \ {0} BY DEF IsLayout
<1>4. 0 \in 0 .. VideoChannels - 1 /\ 0 \in 0 .. l.frames - 1 /\ 0 \in 0 .. 1 BY <1>1, <1>3
<1> DEFINE zero == 0
<1> HIDE DEF zero
<1>5. PICK k \in 0 .. n - 1, x \in 0 .. 4 * VideoChannels - 1 : IsFeature(l, k, x, zero, zero, y, z, zero, zero)
  <2>1. zero \in 0 .. VideoChannels - 1 /\ zero \in 0 .. l.frames - 1 /\ zero \in 0 .. 1
    BY <1>4 DEF zero
  <2>2. QED BY <2>1, FeatureExists
<1>6. (k % RowsPerFrame(l)) \div (l.width \div 2) = y /\ k % (l.width \div 2) = z
  BY <1>5 DEF IsFeature
<1>7. k + 1 \in 1 .. n /\ (k + 1) - 1 = k /\ V + (k + 1) = (V + k) + 1 /\ V + k \in V .. TotalRows(l) - 1
  BY <1>2
<1> DEFINE j == k + 1
<1> HIDE DEF j
<1>8. s.at[V + j] = PicturePlace(l, c, j) /\ j - 1 = k BY <1>7 DEF TargetAt, j
<1>9. OnPatch(s.at[V + j], l, y, z) BY <1>6, <1>8 DEF PicturePlace, OnPatch
<1>10. QED BY <1>7, <1>9 DEF j

\* CoordinatesAgree, of any sequence, target and references; c is when the target begins.
FirstOf(t, rs, i) == t.text + Counted(SubSeq(rs, 1, i - 1)).video + Counted(SubSeq(rs, 1, i - 1)).audio
\* How much later the target is than without references.
Later(s) ==
  LET l == s.layout
  IN IF l.audio > 0 THEN s.at[AudioStart(l) + 1][1] - Clock * l.text ELSE s.at[VideoStart(l) + 1][1] - Clock * l.text

\* The first of CoordinatesAgree: the target is only moved.
TargetAgrees(s, t) ==
  LET l == s.layout
      alone == Plain(t)
      shift == AudioStart(l) - l.text
      at(row) == s.at[row + 1]
  IN \A row \in l.text .. Len(alone.at) - 1 :
       at(row + shift) = <<alone.at[row + 1][1] + Later(s), alone.at[row + 1][2], alone.at[row + 1][3]>>

\* It is later by what the clock has moved.
LEMMA LaterIs ==
  ASSUME NEW s, IsLayout(s.layout), NEW c \in Int, TargetAt(s, c)
  PROVE  Later(s) = c - Clock * s.layout.text
<1> DEFINE l == s.layout
           A == AudioStart(l)
           V == VideoStart(l)
<1>1. l.audio \in Nat /\ l.text \in Nat /\ A \in Nat /\ V \in Nat /\ VideoRows(l) \in Nat \ {0}
      /\ RowsPerFrame(l) \in Nat \ {0}
  BY LayoutNumbers DEF IsLayout
<1>2. CASE l.audio > 0
  <2>1. 1 \in 1 .. 2 * l.audio /\ (1 - 1) % l.audio = 0
    <3> DEFINE m == l.audio
    <3> HIDE DEF m
    <3>1. m \in Nat \ {0} BY <1>1, <1>2 DEF m
    <3>2. 1 \in 1 .. 2 * m /\ (1 - 1) % m = 0 BY <3>1
    <3>3. QED BY <3>2 DEF m
  <2>2. s.at[A + 1] = SoundPlace(l, c, 1) BY <2>1 DEF TargetAt
  <2>3. s.at[A + 1][1] = c BY <2>1, <2>2 DEF SoundPlace, Clock
  <2>4. QED BY <1>2, <2>3 DEF Later
<1>3. CASE ~(l.audio > 0)
  <2>1. 1 \in 1 .. VideoRows(l) /\ (1 - 1) \div RowsPerFrame(l) = 0
    <3> DEFINE m == RowsPerFrame(l)
    <3> HIDE DEF m
    <3>1. m \in Nat \ {0} BY <1>1 DEF m
    <3>2. (1 - 1) \div m = 0 BY <3>1
    <3>3. QED BY <1>1, <3>2 DEF m
  <2>2. s.at[V + 1] = PicturePlace(l, c, 1) BY <2>1 DEF TargetAt
  <2>3. s.at[V + 1][1] = c BY <2>1, <2>2, ElapsedGrows DEF PicturePlace
  <2>4. QED BY <1>3, <2>3 DEF Later
<1>4. QED BY <1>2, <1>3

\* A layout of this target.
IsLaidFor(l, t) ==
  /\ IsLayout(l) /\ l.text = t.text /\ l.frames = t.frames /\ l.height = t.height /\ l.width = t.width
  /\ l.audio = t.audio

\* The target of a packed sequence is only moved.
LEMMA TargetsAgree ==
  ASSUME NEW t, IsTarget(t), NEW s, IsLaidFor(s.layout, t), NEW c \in Int, TargetAt(s, c)
  PROVE  TargetAgrees(s, t)
<1> DEFINE l == s.layout
           k == PlainLayout(t)
           alone == Plain(t)
           d == Clock * t.text
<1>1. TargetAt(alone, d) /\ alone.layout = k /\ IsLayout(k) BY PlainTarget
<1>2. /\ k.text = t.text /\ k.frames = t.frames /\ k.height = t.height /\ k.width = t.width /\ k.audio = t.audio
      /\ k.conditionVideo = 0 /\ k.conditionAudio = 0
  BY DEF PlainLayout
<1>3. /\ l.text = t.text /\ l.frames = t.frames /\ l.height = t.height /\ l.width = t.width /\ l.audio = t.audio
      /\ IsLayout(l)
  BY DEF IsLaidFor
<1>4. Later(s) = c - d BY <1>3, LaterIs
<1>5. /\ t.text \in Nat /\ t.audio \in Nat /\ d \in Int BY DEF IsTarget, Clock
<1>6. Len(alone.at) = TotalRows(k) /\ TotalRows(k) \in Nat BY <1>1, LayoutNumbers DEF Plain
<1> HIDE DEF alone, k, l, d
<1>7. /\ AudioStart(k) = t.text /\ AudioStart(k) \in Nat /\ VideoStart(k) = t.text + 2 * t.audio
      /\ TotalRows(k) = VideoStart(k) + VideoRows(k) /\ VideoRows(k) \in Nat
      /\ AudioStart(l) \in Nat /\ VideoStart(l) = AudioStart(l) + 2 * t.audio
      /\ TotalRows(l) = VideoStart(l) + VideoRows(l)
  BY <1>1, <1>2, <1>3, <1>5, LayoutNumbers
<1>8. VideoRows(k) = VideoRows(l) /\ RowsPerFrame(k) = RowsPerFrame(l)
  BY <1>2, <1>3 DEF VideoRows, RowsPerFrame
<1>9. ASSUME NEW x \in 1 .. 2 * t.audio
      PROVE  s.at[AudioStart(l) + x] = <<alone.at[AudioStart(k) + x][1] + Later(s), alone.at[AudioStart(k) + x][2],
                                         alone.at[AudioStart(k) + x][3]>>
  <2>1. s.at[AudioStart(l) + x] = SoundPlace(l, c, x) /\ alone.at[AudioStart(k) + x] = SoundPlace(k, d, x)
    BY <1>1, <1>2, <1>3, <1>9 DEF TargetAt, l
  <2> DEFINE m == (x - 1) % t.audio
  <2>2. m \in Nat
    <3>1. t.audio \in Nat \ {0} /\ x - 1 \in Nat BY <1>5
    <3>2. QED BY <3>1, DividedNat
  <2> HIDE DEF m
  <2>3. c + Clock * m = (d + Clock * m) + Later(s) BY <1>4, <1>5, <2>2 DEF Clock
  <2>4. QED BY <1>2, <1>3, <2>1, <2>3 DEF SoundPlace, m
<1>10. ASSUME NEW x \in 1 .. VideoRows(k)
       PROVE  s.at[VideoStart(l) + x] = <<alone.at[VideoStart(k) + x][1] + Later(s), alone.at[VideoStart(k) + x][2],
                                          alone.at[VideoStart(k) + x][3]>>
  <2>1. s.at[VideoStart(l) + x] = PicturePlace(l, c, x) /\ alone.at[VideoStart(k) + x] = PicturePlace(k, d, x)
    BY <1>1, <1>8, <1>10 DEF TargetAt, l
  <2> DEFINE m == Elapsed((x - 1) \div RowsPerFrame(k))
  <2>2. m \in Nat
    <3>1. RowsPerFrame(k) \in Nat \ {0} /\ x - 1 \in Nat BY <1>1, <1>7, LayoutNumbers
    <3>2. (x - 1) \div RowsPerFrame(k) \in Nat BY <3>1, DividedNat
    <3>3. QED BY <3>2, ElapsedGrows
  <2> HIDE DEF m
  <2>3. c + m = (d + m) + Later(s) BY <1>4, <1>5, <2>2
  <2>4. QED BY <1>2, <1>3, <1>8, <2>1, <2>3 DEF PicturePlace, m
<1> DEFINE tx == t.text
           m == t.audio
           A == AudioStart(l)
           V == VideoStart(k)
           W == VideoStart(l)
           n == VideoRows(k)
<1>11. /\ tx \in Nat /\ m \in Nat /\ A \in Nat /\ n \in Nat /\ V = tx + 2 * m /\ W = A + 2 * m
       /\ Len(alone.at) = V + n /\ l.text = tx /\ AudioStart(k) = tx
  BY <1>3, <1>5, <1>6, <1>7
<1> HIDE DEF tx, m, A, V, W, n
<1>12. ASSUME NEW row \in l.text .. Len(alone.at) - 1
       PROVE  s.at[(row + (A - l.text)) + 1] =
                <<alone.at[row + 1][1] + Later(s), alone.at[row + 1][2], alone.at[row + 1][3]>>
  <2>0. row \in tx .. (V + n) - 1 BY <1>11
  <2>1. CASE row < V
    <3> DEFINE x == row - tx + 1
    <3>1. x \in 1 .. 2 * m /\ tx + x = row + 1 /\ A + x = (row + (A - tx)) + 1
      BY ONLY <1>11, <2>0, <2>1
    <3> HIDE DEF x
    <3>2. QED BY <1>9, <1>11, <3>1 DEF m, A
  <2>2. CASE row >= V
    <3> DEFINE x == row - V + 1
    <3>1. x \in 1 .. n /\ V + x = row + 1 /\ W + x = (row + (A - tx)) + 1 BY ONLY <1>11, <2>0, <2>2
    <3> HIDE DEF x
    <3>2. QED BY <1>10, <1>11, <3>1 DEF V, W, n
  <2>3. QED BY ONLY <1>11, <2>0, <2>1, <2>2
<1>13. QED BY <1>12 DEF TargetAgrees, l, alone, A

\* The rows of one reference, the references that are not guides, and the target's patches.
ReferenceRows(t, rs, i) ==
  FirstOf(t, rs, i) .. FirstOf(t, rs, i) + RefAudioRows(rs[i]) + RefVideoRows(rs[i]) - 1
Ordinary(rs) == {i \in DOMAIN rs : ~rs[i].aligned}
Patches(s) ==
  {<<s.at[row + 1][2], s.at[row + 1][3]>> : row \in VideoStart(s.layout) .. TotalRows(s.layout) - 1}

\* The others of CoordinatesAgree: references follow one another, and guides lie on the target.
OrdinaryFollow(s, t, rs) ==
  /\ \A i, j \in Ordinary(rs) :
       i < j => \A a \in ReferenceRows(t, rs, i), b \in ReferenceRows(t, rs, j) : s.at[a + 1][1] < s.at[b + 1][1]
  /\ \A i \in Ordinary(rs) :
       \A a \in ReferenceRows(t, rs, i) : s.at[a + 1][1] < Clock * s.layout.text + Later(s)

GuidesLie(s, t, rs) ==
  \A i \in DOMAIN rs \ Ordinary(rs) :
    LET r == rs[i]
        seen == FirstOf(t, rs, i) + RefAudioRows(r)
    IN \A row \in seen .. seen + RefVideoRows(r) - 1 :
         /\ <<s.at[row + 1][2], s.at[row + 1][3]>> \in Patches(s)
         /\ r.kind = "image" => /\ s.at[row + 1][1] = Clock * s.layout.text + Later(s) + r.offset
                                /\ s.at[row + 1][2][3] \in r.y \div 2 .. (r.y + r.height) \div 2 - 1
                                /\ s.at[row + 1][3][3] \in r.x \div 2 .. (r.x + r.width) \div 2 - 1

\* What the parts of a trace say of the sequence it ends in.
Follows(s, t, rs, P, total) ==
  /\ IsTarget(t) /\ IsRefs(rs) /\ GuidesLast(rs) /\ Steps(P, t, rs, total)
  /\ IsLayout(s.layout) /\ s.layout.text = t.text /\ s.layout.height = t.height /\ s.layout.width = t.width
  /\ P[Len(rs)].next <= total /\ TargetAt(s, P[Len(rs)].clock)
  /\ \A x \in 1 .. P[Len(rs)].next : s.at[x] = P[Len(rs)].at[x]
  /\ \A i \in 1 .. Len(rs) : FirstOf(t, rs, i) = P[i - 1].next

\* A sequence with references follows its trace.
LEMMA ReferencedFollows ==
  ASSUME NEW t, IsTarget(t), NEW rs, IsRefs(rs), Accepts(t, rs)
  PROVE  \E P, total : Follows(Referenced(t, rs), t, rs, P, total)
<1>1. PICK P, N, l : RefTrace(P, N, t, rs, l) BY RefTraceExists
<1> DEFINE n == Len(rs)
           s == Referenced(t, rs)
           E == TotalRows(l)
<1>2. /\ n \in Nat /\ IsLayout(l) /\ l = AssembledLayout(t, N[n].video, N[n].audio)
      /\ IsPlacing(P, t, rs, E) /\ IsCounting(N, rs) /\ P[n].next = AudioStart(l)
  BY <1>1 DEF RefTrace
<1>3. DOMAIN rs = 1 .. n /\ \A k \in 1 .. n : Fits(rs[k], t)
  <2>1. DOMAIN rs = 1 .. n /\ \A k \in 1 .. n : IsReference(rs[k]) BY DEF IsRefs, IsList
  <2>2. \A k \in 1 .. n : rs[k].aligned => GuideFits(rs[k], t) BY <2>1 DEF Accepts
  <2>3. QED BY <2>1, <2>2 DEF Fits
<1>4. E \in Nat /\ AudioStart(l) \in Nat /\ AudioStart(l) <= E
  <2>1. /\ E \in Nat /\ AudioStart(l) \in Nat /\ l.audio \in Nat /\ VideoRows(l) \in Nat
        /\ VideoStart(l) = AudioStart(l) + 2 * l.audio /\ E = VideoStart(l) + VideoRows(l)
    BY <1>2, LayoutNumbers DEF IsLayout
  <2> HIDE DEF E
  <2>2. QED BY ONLY <2>1
<1>5. Steps(P, t, rs, E)
  <2> HIDE DEF E
  <2>1. QED BY <1>2, <1>3, <1>4, StepsOf
<1>6. IsOfTrace(s, t, l, P[n]) BY <1>1, RefTraceTarget
<1>7. GuidesLast(rs) BY DEF Accepts, GuidesLast
<1>8. l.text = t.text /\ l.height = t.height /\ l.width = t.width BY <1>2 DEF AssembledLayout
<1>9. ASSUME NEW i \in 1 .. n PROVE FirstOf(t, rs, i) = P[i - 1].next
  <2>1. i - 1 \in 0 .. n BY <1>2
  <2>2. Counted(SubSeq(rs, 1, i - 1)) = N[i - 1] BY <1>2, CountOfFirst
  <2>3. t.text \in Nat BY DEF IsTarget
  <2>4. \A k \in 0 .. n : Laid(P[k], t.text, N[k].video, N[k].audio) BY <1>2, <2>3, AlwaysLaid
  <2>5. QED BY <2>1, <2>2, <2>4 DEF Laid, FirstOf
<1> HIDE DEF s, E
<1>10. Follows(s, t, rs, P, E) BY <1>2, <1>4, <1>5, <1>6, <1>7, <1>8, <1>9 DEF Follows, IsOfTrace
<1>11. QED BY <1>10 DEF s

\* The rows of a reference, among what was placed.
RowIn(s, t, rs, P, i, row) ==
  /\ row + 1 \in P[i - 1].next + 1 .. P[i].next /\ P[i - 1].next \in Nat /\ P[i - 1].clock \in Nat
  /\ IsPlaced(s.at, P[i - 1], P[i], rs[i], t)
  /\ Fits(rs[i], t) /\ P[i].next = P[i - 1].next + RefAudioRows(rs[i]) + RefVideoRows(rs[i])
  /\ P[i].clock = P[i - 1].clock + Moves(rs[i]) /\ RefAudioRows(rs[i]) \in Nat /\ RefVideoRows(rs[i]) \in Nat

\* Each row of a reference is where the trace has put it.
LEMMA RowsFollow ==
  ASSUME NEW s, NEW t, NEW rs, NEW P, NEW total, Follows(s, t, rs, P, total), NEW i \in DOMAIN rs,
         NEW row \in ReferenceRows(t, rs, i)
  PROVE  RowIn(s, t, rs, P, i, row)
<1> DEFINE n == Len(rs)
           p == P[i - 1]
           q == P[i]
           r == rs[i]
           z == P[n]
<1>1. /\ Steps(P, t, rs, total) /\ z.next <= total /\ \A x \in 1 .. z.next : s.at[x] = z.at[x]
  BY DEF Follows
<1>2. n \in Nat /\ i \in 1 .. n BY <1>1 DEF Steps, Follows, IsRefs, IsList
<1>3. p.next \in Nat /\ p.clock \in Nat /\ q.next \in Nat /\ z.next \in Nat
  <2>1. i - 1 \in 0 .. n /\ i \in 0 .. n /\ n \in 0 .. n BY <1>2
  <2>2. QED BY <1>1, <2>1 DEF Steps
<1>4. /\ Fits(r, t) /\ q.next = p.next + RefAudioRows(r) + RefVideoRows(r) /\ q.clock = p.clock + Moves(r)
      /\ RefAudioRows(r) \in Nat /\ RefVideoRows(r) \in Nat
  BY <1>1, <1>2 DEF Steps
<1>5. FirstOf(t, rs, i) = p.next BY <1>2 DEF Follows
<1>6. row + 1 \in p.next + 1 .. q.next
  <2>1. row \in p.next .. p.next + RefAudioRows(r) + RefVideoRows(r) - 1 BY <1>5 DEF ReferenceRows
  <2> HIDE DEF p, q, r
  <2>2. QED BY ONLY SMTT(30), <1>3, <1>4, <2>1
<1>7. IsPlaced(z.at, p, q, r, t) BY <1>1, <1>2, ReferenceIsPlaced
<1>8. q.next <= z.next
  <2>1. i \in 0 .. n /\ n \in i .. n BY <1>2
  <2>2. Kept(q, z, total) BY <1>1, <2>1, KeptFrom
  <2>3. QED BY <1>3, <2>2 DEF Kept
<1> HIDE DEF p, q, r, z
<1>9. \A x \in p.next + 1 .. q.next : s.at[x] = z.at[x]
  <2>1. \A x \in p.next + 1 .. q.next : x \in 1 .. z.next BY <1>3, <1>8
  <2>2. QED BY <1>1, <2>1
<1>10. IsPlaced(s.at, p, q, r, t) BY <1>7, <1>9 DEF IsPlaced
<1>11. QED BY <1>3, <1>4, <1>6, <1>10 DEF RowIn, p, q, r

\* References that are not guides follow one another, before the target.
LEMMA OrdinaryInOrder ==
  ASSUME NEW s, NEW t, NEW rs, NEW P, NEW total, Follows(s, t, rs, P, total)
  PROVE  OrdinaryFollow(s, t, rs)
<1> DEFINE n == Len(rs)
           z == P[n]
<1>1. Steps(P, t, rs, total) /\ n \in Nat /\ DOMAIN rs = 1 .. n /\ TargetAt(s, z.clock) /\ IsLayout(s.layout)
  BY DEF Follows, Steps, IsRefs, IsList
<1>2. \A k \in 0 .. n : P[k].clock \in Nat BY <1>1 DEF Steps
<1>3. Clock * s.layout.text + Later(s) = z.clock
  <2>1. n \in 0 .. n BY <1>1
  <2>2. z.clock \in Int /\ s.layout.text \in Nat BY <1>1, <1>2, <2>1 DEF IsLayout
  <2> HIDE DEF z
  <2>3. Later(s) = z.clock - Clock * s.layout.text BY <1>1, <2>2, LaterIs
  <2>4. QED BY <2>2, <2>3 DEF Clock
<1>4. ASSUME NEW i \in Ordinary(rs), NEW a \in ReferenceRows(t, rs, i)
      PROVE  s.at[a + 1][1] \in Nat /\ P[i - 1].clock <= s.at[a + 1][1] /\ s.at[a + 1][1] < P[i].clock
  <2>1. i \in DOMAIN rs /\ ~rs[i].aligned BY DEF Ordinary
  <2>2. RowIn(s, t, rs, P, i, a) BY <2>1, RowsFollow
  <2>3. QED BY <2>1, <2>2, OrdinaryTimes DEF RowIn
<1>5. ASSUME NEW i \in 0 .. n, NEW k \in i .. n PROVE P[i].clock <= P[k].clock
  <2>1. Kept(P[i], P[k], total) BY <1>1, KeptFrom
  <2>2. k \in 0 .. n BY <1>1
  <2>3. QED BY <1>2, <2>1, <2>2 DEF Kept
<1> HIDE DEF n
<1>6. ASSUME NEW i \in Ordinary(rs), NEW j \in Ordinary(rs), i < j,
             NEW a \in ReferenceRows(t, rs, i), NEW b \in ReferenceRows(t, rs, j)
      PROVE  s.at[a + 1][1] < s.at[b + 1][1]
  <2>1. i \in 1 .. n /\ j \in 1 .. n BY <1>1 DEF Ordinary
  <2>2. i \in 0 .. n /\ j - 1 \in i .. n /\ j - 1 \in 0 .. n BY <1>1, <1>6, <2>1
  <2>3. P[i].clock <= P[j - 1].clock /\ P[i].clock \in Nat /\ P[j - 1].clock \in Nat
    BY <1>2, <1>5, <2>2
  <2>4. s.at[a + 1][1] \in Nat /\ s.at[a + 1][1] < P[i].clock BY <1>4
  <2>5. s.at[b + 1][1] \in Nat /\ P[j - 1].clock <= s.at[b + 1][1] BY <1>4
  <2>6. QED BY <2>3, <2>4, <2>5
<1>7. ASSUME NEW i \in Ordinary(rs), NEW a \in ReferenceRows(t, rs, i)
      PROVE  s.at[a + 1][1] < Clock * s.layout.text + Later(s)
  <2>1. i \in 0 .. n /\ n \in i .. n /\ n \in 0 .. n BY <1>1 DEF Ordinary
  <2>2. P[i].clock <= z.clock /\ P[i].clock \in Nat /\ z.clock \in Nat BY <1>2, <1>5, <2>1 DEF n
  <2>3. s.at[a + 1][1] \in Nat /\ s.at[a + 1][1] < P[i].clock BY <1>4
  <2> HIDE DEF z
  <2>4. s.at[a + 1][1] < z.clock BY <2>2, <2>3
  <2>5. QED BY <1>3, <2>4
<1>8. QED BY <1>6, <1>7 DEF OrdinaryFollow

\* Guides lie on the target's patches.
LEMMA GuidesOnPatches ==
  ASSUME NEW s, NEW t, NEW rs, NEW P, NEW total, Follows(s, t, rs, P, total)
  PROVE  GuidesLie(s, t, rs)
<1> DEFINE n == Len(rs)
           l == s.layout
           z == P[n]
<1>1. /\ Steps(P, t, rs, total) /\ n \in Nat /\ DOMAIN rs = 1 .. n /\ TargetAt(s, z.clock) /\ IsLayout(l)
      /\ l.height = t.height /\ l.width = t.width /\ GuidesLast(rs)
  BY DEF Follows, Steps, IsRefs, IsList
<1>2. z.clock \in Int /\ Clock * l.text + Later(s) = z.clock
  <2>1. n \in 0 .. n BY <1>1
  <2>2. z.clock \in Int /\ l.text \in Nat BY <1>1, <2>1 DEF IsLayout, Steps
  <2> HIDE DEF z
  <2>3. Later(s) = z.clock - Clock * l.text BY <1>1, <2>2, LaterIs
  <2>4. QED BY <2>2, <2>3 DEF Clock
<1> SUFFICES ASSUME NEW i \in DOMAIN rs \ Ordinary(rs),
                    NEW row \in FirstOf(t, rs, i) + RefAudioRows(rs[i])
                                  .. FirstOf(t, rs, i) + RefAudioRows(rs[i]) + RefVideoRows(rs[i]) - 1
             PROVE  /\ <<s.at[row + 1][2], s.at[row + 1][3]>> \in Patches(s)
                    /\ rs[i].kind = "image" =>
                         /\ s.at[row + 1][1] = Clock * l.text + Later(s) + rs[i].offset
                         /\ s.at[row + 1][2][3] \in rs[i].y \div 2 .. (rs[i].y + rs[i].height) \div 2 - 1
                         /\ s.at[row + 1][3][3] \in rs[i].x \div 2 .. (rs[i].x + rs[i].width) \div 2 - 1
  BY DEF GuidesLie
<1> DEFINE r == rs[i]
           p == P[i - 1]
           q == P[i]
           x == row + 1
<1>3. i \in 1 .. n /\ r.aligned BY <1>1 DEF Ordinary
<1>4. FirstOf(t, rs, i) = p.next /\ Fits(r, t) /\ RefAudioRows(r) \in Nat /\ RefVideoRows(r) \in Nat /\ p.next \in Nat
  <2>1. i - 1 \in 0 .. n BY <1>1, <1>3
  <2>2. QED BY <1>1, <1>3, <2>1 DEF Follows, Steps
<1>5. /\ row \in ReferenceRows(t, rs, i)
      /\ x \in p.next + RefAudioRows(r) + 1 .. p.next + RefAudioRows(r) + RefVideoRows(r)
  <2>1. row \in p.next + RefAudioRows(r) .. p.next + RefAudioRows(r) + RefVideoRows(r) - 1 BY <1>4
  <2> HIDE DEF p, r
  <2>2. row \in p.next .. p.next + RefAudioRows(r) + RefVideoRows(r) - 1
        /\ x \in p.next + RefAudioRows(r) + 1 .. p.next + RefAudioRows(r) + RefVideoRows(r)
    BY ONLY <1>4, <2>1
  <2>3. QED BY <1>4, <2>2 DEF ReferenceRows, p, r
<1>6. RowIn(s, t, rs, P, i, row) BY <1>5, RowsFollow
<1>7. /\ p.clock \in Nat /\ IsPlaced(s.at, p, q, r, t) /\ q.next = p.next + RefAudioRows(r) + RefVideoRows(r)
  BY <1>6 DEF RowIn
<1>8. p.clock = z.clock BY <1>1, <1>3, GuidesKeepTheClock
<1> HIDE DEF p, q, r, z, l, n, x
<1>9. PICK y \in 0 .. t.height \div 2 - 1, w \in 0 .. t.width \div 2 - 1 :
        /\ OnPatch(s.at[x], t, y, w)
        /\ r.kind = "image" =>
             /\ s.at[x][1] = p.clock + r.offset
             /\ y \in r.y \div 2 .. (r.y + r.height) \div 2 - 1
             /\ w \in r.x \div 2 .. (r.x + r.width) \div 2 - 1
  BY <1>3, <1>4, <1>5, <1>7, GuidePlaces
<1>10. <<s.at[x][2], s.at[x][3]>> \in Patches(s)
  <2>1. PICK other \in VideoStart(l) .. TotalRows(l) - 1 : OnPatch(s.at[other + 1], l, y, w)
    BY <1>1, <1>2, PatchHasRow DEF l
  <2>2. s.at[x][2] = s.at[other + 1][2] /\ s.at[x][3] = s.at[other + 1][3]
    BY <1>1, <1>9, <2>1 DEF OnPatch
  <2>3. QED BY <2>2 DEF Patches, l
<1>11. s.at[x][2][3] = y /\ s.at[x][3][3] = w BY <1>9 DEF OnPatch
<1>12. QED BY <1>2, <1>8, <1>9, <1>10, <1>11 DEF x, r

\* What CoordinatesAgree promises of a sequence.
CoordinatesOf(s, t, rs) == TargetAgrees(s, t) /\ OrdinaryFollow(s, t, rs) /\ GuidesLie(s, t, rs)

\* What a job is packed into has its coordinates right.
LEMMA PackedAgrees ==
  ASSUME NEW j, IsAccepted(j)
  PROVE  IsLaidFor(Packed(j).layout, j.target) /\ CoordinatesOf(Packed(j), j.target, j.references)
<1> DEFINE t == j.target
           rs == j.references
           s == Packed(j)
<1>1. IsTarget(t) /\ j.plain \in BOOLEAN /\ IsRefs(rs) /\ (j.plain => rs = <<>>)
  BY ReferencesAreRefs DEF IsAccepted
<1>2. CASE j.plain
  <2>1. s = Plain(t) /\ rs = <<>> BY <1>1, <1>2 DEF Packed
  <2> HIDE DEF s, t
  <2>2. TargetAt(s, Clock * t.text) /\ s.layout = PlainLayout(t) /\ IsLayout(s.layout)
    BY <1>1, <2>1, PlainTarget
  <2>3. IsLaidFor(s.layout, t) BY <2>2 DEF IsLaidFor, PlainLayout
  <2>4. Clock * t.text \in Int BY <1>1 DEF IsTarget, Clock
  <2>5. TargetAgrees(s, t) BY <1>1, <2>2, <2>3, <2>4, TargetsAgree
  <2>6. OrdinaryFollow(s, t, rs) /\ GuidesLie(s, t, rs)
    <3>1. DOMAIN rs = {} BY <2>1
    <3> HIDE DEF rs
    <3>2. QED BY <3>1 DEF OrdinaryFollow, GuidesLie, Ordinary
  <2>7. QED BY <2>3, <2>5, <2>6 DEF CoordinatesOf, t, s
<1>3. CASE ~j.plain
  <2>1. s = Referenced(t, rs) /\ Accepts(t, rs) BY <1>3 DEF Packed, IsAccepted
  <2> HIDE DEF s, t, rs
  <2>2. PICK P, total : Follows(s, t, rs, P, total) BY <1>1, <2>1, ReferencedFollows
  <2>3. OrdinaryFollow(s, t, rs) /\ GuidesLie(s, t, rs) BY <2>2, OrdinaryInOrder, GuidesOnPatches
  <2>4. PICK Q, N, l : RefTrace(Q, N, t, rs, l) BY <1>1, RefTraceExists
  <2> DEFINE q == Q[Len(rs)]
  <2>5. IsOfTrace(s, t, l, q) /\ q.clock \in Int
    <3>1. IsOfTrace(Referenced(t, rs), t, l, q) BY <1>1, <2>4, RefTraceTarget
    <3>2. q.clock \in Nat BY <2>4 DEF RefTrace
    <3>3. QED BY <2>1, <3>1, <3>2
  <2>6. IsLayout(l) /\ l = AssembledLayout(t, N[Len(rs)].video, N[Len(rs)].audio)
    BY <2>4 DEF RefTrace
  <2>7. IsLaidFor(s.layout, t) /\ TargetAt(s, q.clock)
    BY <2>5, <2>6 DEF IsOfTrace, IsLaidFor, AssembledLayout
  <2>8. TargetAgrees(s, t) BY <1>1, <2>5, <2>7, TargetsAgree
  <2>9. QED BY <2>3, <2>7, <2>8 DEF CoordinatesOf, t, s, rs
<1>4. QED BY <1>1, <1>2, <1>3

-----------------------------------------------------------------------------
(* The keys of a band.                                                     *)

\* Rounding to blocks.
IsRounded(n, b) ==
  /\ RoundUp(n, b) \in Nat /\ RoundUp(n, b) % b = 0 /\ n <= RoundUp(n, b)
  /\ RoundDown(n, b) \in Nat /\ RoundDown(n, b) % b = 0 /\ RoundDown(n, b) <= n
  /\ \A key \in RoundDown(n, b) .. n : key \div b = n \div b
  /\ n > 0 => \A key \in n - 1 .. RoundUp(n, b) - 1 : key \div b = (n - 1) \div b
  /\ n = 0 => RoundUp(n, b) = 0

\* A multiple leaves no remainder.
LEMMA MultipleOf ==
  ASSUME NEW q \in Nat, NEW b \in Nat \ {0}
  PROVE  q * b \in Nat /\ (q * b) % b = 0 /\ q * b = b * q
<1>1. b * q \in Nat /\ q * b = b * q BY Spread
<1>2. (b * q + 0) % b = 0 BY DividedOnce
<1>3. QED BY <1>1, <1>2

\* What RoundUp and RoundDown return.
LEMMA Rounded ==
  ASSUME NEW n \in Nat, NEW b \in Nat \ {0}
  PROVE  IsRounded(n, b)
<1> DEFINE q == n \div b
           u == (n + b - 1) \div b
           r == n % b
           v == (n + b - 1) % b
<1>1. q \in Nat /\ r \in Nat /\ r < b /\ n = b * q + r BY Divided, DividedNat
<1>2. n + b - 1 \in Nat OBVIOUS
<1>3. u \in Nat /\ v \in Nat /\ v < b /\ n + b - 1 = b * u + v
  <2> DEFINE m == n + b - 1
  <2> HIDE DEF m
  <2>1. m \in Nat BY <1>2 DEF m
  <2>2. m \div b \in Nat /\ m % b \in Nat /\ m % b < b /\ m = b * (m \div b) + (m % b)
    BY <2>1, Divided, DividedNat
  <2>3. QED BY <2>2 DEF m
<1>4. RoundUp(n, b) = b * u /\ RoundDown(n, b) = b * q /\ b * u \in Nat /\ b * q \in Nat
      /\ (b * u) % b = 0 /\ (b * q) % b = 0
  <2> HIDE DEF q, u
  <2>1. u * b \in Nat /\ (u * b) % b = 0 /\ u * b = b * u /\ q * b \in Nat /\ (q * b) % b = 0 /\ q * b = b * q
    BY <1>1, <1>3, MultipleOf
  <2>2. QED BY <2>1 DEF RoundUp, RoundDown, q, u
<1> DEFINE bu == b * u
           bq == b * q
<1>5. /\ bu \in Nat /\ bq \in Nat /\ n = bq + r /\ n + b - 1 = bu + v
      /\ RoundUp(n, b) = bu /\ RoundDown(n, b) = bq
  BY <1>1, <1>3, <1>4
<1>6. ASSUME NEW key \in bq .. n PROVE key \div b = q
  <2> DEFINE d == key - bq
  <2>1. d \in Int /\ 0 <= d /\ d < b /\ key = b * q + d
    <3> HIDE DEF q, r
    <3>1. key \in Int /\ bq = b * q BY <1>5
    <3> HIDE DEF bq
    <3>2. d \in Int /\ 0 <= d /\ d < b /\ key = bq + d BY <1>1, <1>5, <1>6, <3>1
    <3>3. QED BY <3>1, <3>2
  <2> HIDE DEF d, q
  <2>2. (b * q + d) \div b = q
    <3>1. q \in Int BY <1>1
    <3>2. QED BY ONLY b \in Nat \ {0}, <2>1, <3>1, DividedOnce
  <2>3. QED BY <2>1, <2>2
<1>7. ASSUME n > 0, NEW key \in n - 1 .. bu - 1 PROVE key \div b = (n - 1) \div b
  <2> DEFINE k == u - 1
             d == key - b * k
             e == (n - 1) - b * k
  <2>1. u # 0
    <3>1. ASSUME u = 0 PROVE FALSE
      <4>1. n + b - 1 = v BY <1>3, <3>1
      <4> HIDE DEF v, u
      <4>2. QED BY <1>3, <1>7, <4>1
    <3>2. QED BY <3>1
  <2> HIDE DEF u, v
  <2>2. k \in Nat /\ b * k = bu - b /\ b * k \in Int
    <3>1. k \in Nat BY <1>3, <2>1
    <3>2. b * (u - 1) = b * u - b * 1 /\ b * 1 = b BY <1>3, Spread
    <3>3. QED BY <3>1, <3>2, <1>5
  <2> HIDE DEF bu
  <2>3. d \in Int /\ 0 <= d /\ d < b /\ e \in Int /\ 0 <= e /\ e < b
    <3> DEFINE bk == b * k
    <3> HIDE DEF bk
    <3>1. bk = bu - b /\ bk \in Int BY <2>2 DEF bk
    <3>2. /\ key - bk \in Int /\ 0 <= key - bk /\ key - bk < b
          /\ (n - 1) - bk \in Int /\ 0 <= (n - 1) - bk /\ (n - 1) - bk < b
      BY <1>3, <1>5, <1>7, <3>1
    <3>3. QED BY <3>2 DEF bk
  <2>4. key = b * k + d /\ n - 1 = b * k + e BY <2>2
  <2> HIDE DEF d, e, k
  <2>5. (b * k + d) \div b = k /\ (b * k + e) \div b = k
    <3>1. k \in Int BY <2>2
    <3>2. (b * k + d) \div b = k BY ONLY b \in Nat \ {0}, <2>3, <3>1, DividedOnce
    <3>3. (b * k + e) \div b = k BY ONLY b \in Nat \ {0}, <2>3, <3>1, DividedOnce
    <3>4. QED BY <3>2, <3>3
  <2>6. QED BY <2>4, <2>5
<1>8. ASSUME n = 0 PROVE bu = 0
  <2>1. b - 1 \in Nat /\ n + b - 1 = b - 1 BY <1>8
  <2>2. u = 0
    <3>1. (b * 0 + (b - 1)) \div b = 0 /\ b * 0 + (b - 1) = b - 1 BY <2>1, DividedOnce
    <3>2. QED BY <2>1, <3>1
  <2>3. QED BY <2>2
<1>9. n <= bu /\ bq <= n
  <2> HIDE DEF bu, bq, v, r, u, q
  <2>1. QED BY <1>1, <1>3, <1>5
<1>10. QED BY <1>4, <1>5, <1>6, <1>7, <1>8, <1>9 DEF IsRounded

\* The frame of a row of the video, and the frames around it.
FrameOf(l, row) == (row - VideoStart(l)) \div RowsPerFrame(l)
\* The frames that a band leaves to a row.
LowOf(l, band, row) == Max({0, FrameOf(l, row) - band})
HighOf(l, band, row) == Min({l.frames, FrameOf(l, row) + band + 1})

\* A video row's frame is one of the target's.
LEMMA FrameIs ==
  ASSUME NEW l, IsLayout(l), NEW row \in VideoStart(l) .. TotalRows(l) - 1
  PROVE  FrameOf(l, row) \in 0 .. l.frames - 1
<1> DEFINE P == RowsPerFrame(l)
           a == row - VideoStart(l)
<1>1. /\ P \in Nat \ {0} /\ VideoStart(l) \in Nat /\ TotalRows(l) = VideoStart(l) + VideoRows(l)
      /\ VideoRows(l) = l.frames * P /\ l.frames \in Nat /\ VideoRows(l) \in Nat
  BY LayoutNumbers, Sizes
<1>2. a \in Nat /\ a < l.frames * P
  <2> DEFINE m == VideoRows(l)
  <2> HIDE DEF m, P
  <2>1. a \in Nat /\ a < m BY <1>1 DEF m
  <2>2. QED BY <1>1, <2>1 DEF m
<1> HIDE DEF P, a
<1>3. a \div P \in 0 .. l.frames - 1 BY <1>1, <1>2, DividedBelow
<1>4. QED BY <1>3 DEF FrameOf, P, a

\* A later row has no earlier frame.
LEMMA FramesInOrder ==
  ASSUME NEW l, IsLayout(l), NEW x \in VideoStart(l) .. TotalRows(l) - 1, NEW y \in VideoStart(l) .. TotalRows(l) - 1,
         x <= y
  PROVE  FrameOf(l, x) <= FrameOf(l, y)
<1> DEFINE P == RowsPerFrame(l)
           a == x - VideoStart(l)
           b == y - VideoStart(l)
<1>1. P \in Nat \ {0} /\ VideoStart(l) \in Nat BY LayoutNumbers
<1>2. a \in Int /\ b \in Int /\ a <= b BY <1>1
<1> HIDE DEF P, a, b
<1>3. a \div P <= b \div P BY <1>1, <1>2, DividedOrder
<1>4. QED BY <1>3 DEF FrameOf, P, a, b

\* The first row of a frame.
LEMMA FirstOfFrame ==
  ASSUME NEW l, IsLayout(l), NEW f \in 0 .. l.frames - 1
  PROVE  /\ VideoStart(l) + RowsPerFrame(l) * f \in VideoStart(l) .. TotalRows(l) - 1
         /\ FrameOf(l, VideoStart(l) + RowsPerFrame(l) * f) = f
<1> DEFINE P == RowsPerFrame(l)
           V == VideoStart(l)
<1>1. /\ P \in Nat \ {0} /\ V \in Nat /\ TotalRows(l) = V + VideoRows(l)
      /\ VideoRows(l) = l.frames * P /\ l.frames \in Nat \ {0}
  BY LayoutNumbers, Sizes
<1> HIDE DEF P, V
<1>2. (P * f + 0) \div P = f BY <1>1, DividedOnce
<1>3. /\ P * f \in Nat /\ P * f <= P * (l.frames - 1)
      /\ P * (l.frames - 1) = P * l.frames - P /\ P * l.frames = l.frames * P
  <2>1. P * 0 <= P * f /\ P * f <= P * (l.frames - 1) /\ P * f \in Int /\ P * 0 = 0
    BY <1>1, ProductBound
  <2>2. P * (l.frames - 1) = P * l.frames - P * 1 /\ P * l.frames = l.frames * P /\ P * 1 = P
    BY <1>1, Spread
  <2>3. QED BY <2>1, <2>2
<1> DEFINE m == P * f
           k == l.frames * P
<1>4. m \in Nat /\ m <= k - P /\ k \in Nat /\ m \div P = f /\ TotalRows(l) = V + k
  <2>1. k \in Nat BY <1>1, LayoutNumbers
  <2>2. m \div P = f BY <1>2, <1>3
  <2>3. QED BY <1>1, <1>3, <2>1, <2>2
<1> HIDE DEF m, k
<1>5. V + m \in V .. TotalRows(l) - 1 /\ (V + m) - V = m BY <1>1, <1>4
<1>6. QED BY <1>4, <1>5 DEF FrameOf, P, V, m

\* The window of a row lies in the video.
LEMMA WindowIs ==
  ASSUME NEW l, IsLayout(l), NEW band \in Nat, NEW row \in VideoStart(l) .. TotalRows(l) - 1
  PROVE  /\ LowOf(l, band, row) \in 0 .. l.frames - 1 /\ HighOf(l, band, row) \in 1 .. l.frames
         /\ LowOf(l, band, row) = IF FrameOf(l, row) >= band THEN FrameOf(l, row) - band ELSE 0
         /\ HighOf(l, band, row) = IF l.frames <= FrameOf(l, row) + band + 1 THEN l.frames
                                   ELSE FrameOf(l, row) + band + 1
<1> DEFINE f == FrameOf(l, row)
           n == l.frames
<1>1. n \in Nat \ {0} /\ f \in 0 .. n - 1 BY FrameIs DEF IsLayout
<1> HIDE DEF f, n
<1>2. Max({0, f - band}) = IF 0 >= f - band THEN 0 ELSE f - band BY <1>1, MaxOfTwo
<1>3. Min({n, f + band + 1}) = IF n <= f + band + 1 THEN n ELSE f + band + 1 BY <1>1, MinOfTwo
<1>4. /\ LowOf(l, band, row) = IF 0 >= f - band THEN 0 ELSE f - band
      /\ HighOf(l, band, row) = IF n <= f + band + 1 THEN n ELSE f + band + 1
  BY <1>2, <1>3 DEF LowOf, HighOf, f, n
<1>5. QED
  <2>1. /\ (IF 0 >= f - band THEN 0 ELSE f - band) = (IF f >= band THEN f - band ELSE 0)
        /\ (IF 0 >= f - band THEN 0 ELSE f - band) \in 0 .. n - 1
        /\ (IF n <= f + band + 1 THEN n ELSE f + band + 1) \in 1 .. n
    BY <1>1
  <2>2. QED BY <1>4, <2>1 DEF f, n

\* The windows of a tile's rows make up one, from the first row's to the last row's.
LEMMA WindowsJoin ==
  ASSUME NEW l, IsLayout(l), NEW band \in Nat, NEW x \in VideoStart(l) .. TotalRows(l) - 1,
         NEW y \in VideoStart(l) .. TotalRows(l) - 1, x <= y
  PROVE  /\ \A row \in x .. y : LowOf(l, band, x) <= LowOf(l, band, row) /\ HighOf(l, band, row) <= HighOf(l, band, y)
         /\ \A g \in LowOf(l, band, x) .. HighOf(l, band, y) - 1 :
              \E row \in x .. y : g \in LowOf(l, band, row) .. HighOf(l, band, row) - 1
         /\ LowOf(l, band, x) < HighOf(l, band, y)
<1> DEFINE n == l.frames
           V == VideoStart(l)
           T == TotalRows(l)
           a == FrameOf(l, x)
           b == FrameOf(l, y)
<1>1. n \in Nat \ {0} /\ V \in Nat /\ T \in Nat BY LayoutNumbers DEF IsLayout
<1>2. a \in 0 .. n - 1 /\ b \in 0 .. n - 1 /\ a <= b BY FrameIs, FramesInOrder
<1>3. /\ LowOf(l, band, x) = IF a >= band THEN a - band ELSE 0
      /\ HighOf(l, band, x) = IF n <= a + band + 1 THEN n ELSE a + band + 1
      /\ LowOf(l, band, y) = IF b >= band THEN b - band ELSE 0
      /\ HighOf(l, band, y) = IF n <= b + band + 1 THEN n ELSE b + band + 1
  BY WindowIs
<1> HIDE DEF a, b, n, V, T
<1>4. ASSUME NEW row \in x .. y
      PROVE  LowOf(l, band, x) <= LowOf(l, band, row) /\ HighOf(l, band, row) <= HighOf(l, band, y)
  <2> DEFINE f == FrameOf(l, row)
  <2>1. row \in VideoStart(l) .. TotalRows(l) - 1 /\ x <= row /\ row <= y BY <1>1 DEF V, T
  <2>2. f \in 0 .. n - 1 /\ a <= f /\ f <= b BY <2>1, FrameIs, FramesInOrder DEF a, b, n
  <2>3. /\ LowOf(l, band, row) = IF f >= band THEN f - band ELSE 0
        /\ HighOf(l, band, row) = IF n <= f + band + 1 THEN n ELSE f + band + 1
    BY <2>1, WindowIs DEF n
  <2> HIDE DEF f
  <2>4. QED BY <1>1, <1>2, <1>3, <2>2, <2>3
<1>5. ASSUME NEW g \in LowOf(l, band, x) .. HighOf(l, band, y) - 1
      PROVE  \E row \in x .. y : g \in LowOf(l, band, row) .. HighOf(l, band, row) - 1
  <2>0. g \in 0 .. n - 1 BY <1>1, <1>2, <1>3
  <2>1. CASE g <= a + band
    <3>1. g \in LowOf(l, band, x) .. HighOf(l, band, x) - 1 BY <1>1, <1>2, <1>3, <2>0, <2>1
    <3>2. x \in x .. y BY <1>1 DEF V, T
    <3>3. QED BY <3>1, <3>2
  <2>2. CASE g > a + band /\ g >= b - band
    <3>1. g \in LowOf(l, band, y) .. HighOf(l, band, y) - 1 BY <1>1, <1>2, <1>3, <2>0, <2>2
    <3>2. y \in x .. y BY <1>1 DEF V, T
    <3>3. QED BY <3>1, <3>2
  <2>3. CASE g > a + band /\ g < b - band
    <3> DEFINE row == VideoStart(l) + RowsPerFrame(l) * g
    <3>1. row \in VideoStart(l) .. TotalRows(l) - 1 /\ FrameOf(l, row) = g
      BY <2>0, FirstOfFrame DEF n
    <3> HIDE DEF row
    <3>2. row \in Int /\ x \in Int /\ y \in Int BY <1>1, <3>1 DEF V, T
    <3>3. x <= row
      <4>1. ASSUME row < x PROVE FALSE
        <5>1. row <= x BY <3>2, <4>1
        <5>2. g <= a BY <3>1, <5>1, FramesInOrder DEF a
        <5>3. QED BY <1>2, <2>0, <2>3, <5>2
      <4>2. QED BY <3>2, <4>1
    <3>4. row <= y
      <4>1. ASSUME y < row PROVE FALSE
        <5>1. y <= row BY <3>2, <4>1
        <5>2. b <= g BY <3>1, <5>1, FramesInOrder DEF b
        <5>3. QED BY <1>2, <2>0, <2>3, <5>2
      <4>2. QED BY <3>2, <4>1
    <3>5. /\ LowOf(l, band, row) = IF g >= band THEN g - band ELSE 0
          /\ HighOf(l, band, row) = IF n <= g + band + 1 THEN n ELSE g + band + 1
      BY <3>1, WindowIs DEF n
    <3>6. g \in LowOf(l, band, row) .. HighOf(l, band, row) - 1 BY <1>1, <2>0, <3>5
    <3>7. row \in x .. y BY <3>2, <3>3, <3>4
    <3>8. QED BY <3>6, <3>7
  <2>4. QED BY <1>2, <2>0, <2>1, <2>2, <2>3
<1>6. LowOf(l, band, x) < HighOf(l, band, y) BY <1>1, <1>2, <1>3
<1>7. QED BY <1>4, <1>5, <1>6

\* The keys of a range, and what BandsCover promises of two ranges.
Keys(r) == r[1] .. r[2] - 1
Covers(ranges, wanted, block) ==
  /\ wanted \subseteq Keys(ranges[1]) \cup Keys(ranges[2])
  /\ Keys(ranges[1]) \cap Keys(ranges[2]) = {}
  /\ \A r \in {ranges[1], ranges[2]} : r[1] % block = 0 /\ r[2] % block = 0
  /\ \A key \in Keys(ranges[1]) \cup Keys(ranges[2]) :
       \E other \in wanted : key \div block = other \div block

\* All keys, to the end of the last block.
LEMMA EverythingCovers ==
  ASSUME NEW n \in Nat \ {0}, NEW b \in Nat \ {0}
  PROVE  Covers(<< <<0, RoundUp(n, b)>>, <<0, 0>> >>, 0 .. n - 1, b)
<1> DEFINE u == RoundUp(n, b)
           all == << <<0, u>>, <<0, 0>> >>
<1>1. IsRounded(n, b) BY Rounded
<1>2. u \in Nat /\ u % b = 0 /\ n <= u /\ \A key \in n - 1 .. u - 1 : key \div b = (n - 1) \div b
  BY <1>1 DEF IsRounded
<1> HIDE DEF u
<1>3. Keys(all[1]) = 0 .. u - 1 /\ Keys(all[2]) = {} BY <1>2 DEF Keys
<1>4. 0 % b = 0
  <2>1. (0 * b) % b = 0 BY MultipleOf
  <2>2. QED BY <2>1
<1>5. ASSUME NEW key \in 0 .. u - 1 PROVE \E other \in 0 .. n - 1 : key \div b = other \div b
  <2>1. CASE key < n BY <2>1
  <2>2. CASE key >= n
    <3>1. key \in n - 1 .. u - 1 /\ n - 1 \in 0 .. n - 1 BY <1>2, <2>2
    <3>2. QED BY <1>2, <3>1
  <2>3. QED BY <1>2, <2>1, <2>2
<1>6. \A r \in {all[1], all[2]} : r[1] % b = 0 /\ r[2] % b = 0 BY <1>2, <1>4
<1>7. 0 .. n - 1 \subseteq 0 .. u - 1 BY <1>2
<1> HIDE DEF all
<1>8. Covers(all, 0 .. n - 1, b) BY <1>3, <1>5, <1>6, <1>7 DEF Covers
<1>9. QED BY <1>8 DEF all, u

\* The keys before v and those of a window, each to whole blocks.
Windowed(v, lo, hi, end, b) ==
  LET context == RoundUp(v, b)
      from == RoundDown(lo, b)
      upto == Min({end, RoundUp(hi, b)})
  IN IF from <= context THEN << <<0, Max({context, upto})>>, <<0, 0>> >>
     ELSE << <<0, context>>, <<from, upto>> >>

\* The ranges of a window cover it and the rows before the video.
LEMMA WindowCovers ==
  ASSUME NEW v \in Nat, NEW lo \in Nat, NEW hi \in Nat, NEW n \in Nat, NEW b \in Nat \ {0},
         v <= lo, lo < hi, hi <= n
  PROVE  Covers(Windowed(v, lo, hi, RoundUp(n, b), b), (0 .. v - 1) \cup (lo .. hi - 1), b)
<1> DEFINE context == RoundUp(v, b)
           from == RoundDown(lo, b)
           end == RoundUp(n, b)
           up == RoundUp(hi, b)
           upto == Min({end, up})
           wanted == (0 .. v - 1) \cup (lo .. hi - 1)
           ranges == Windowed(v, lo, hi, end, b)
<1>1. IsRounded(v, b) /\ IsRounded(lo, b) /\ IsRounded(n, b) /\ IsRounded(hi, b) BY Rounded
<1>2. /\ context \in Nat /\ context % b = 0 /\ v <= context
      /\ v > 0 => \A key \in v - 1 .. context - 1 : key \div b = (v - 1) \div b
      /\ v = 0 => context = 0
  BY <1>1 DEF IsRounded
<1>3. from \in Nat /\ from % b = 0 /\ from <= lo /\ \A key \in from .. lo : key \div b = lo \div b
  BY <1>1 DEF IsRounded
<1>4. end \in Nat /\ end % b = 0 /\ n <= end BY <1>1 DEF IsRounded
<1>5. up \in Nat /\ up % b = 0 /\ hi <= up /\ \A key \in hi - 1 .. up - 1 : key \div b = (hi - 1) \div b
  BY <1>1 DEF IsRounded
<1> HIDE DEF context, from, end, up
<1>6. upto \in Nat /\ upto % b = 0 /\ hi <= upto /\ upto <= up
  <2>1. upto = IF end <= up THEN end ELSE up BY <1>4, <1>5, MinOfTwo
  <2>2. QED BY <1>4, <1>5, <2>1
<1>7. ranges = IF from <= context THEN << <<0, Max({context, upto})>>, <<0, 0>> >>
               ELSE << <<0, context>>, <<from, upto>> >>
  BY DEF Windowed, context, from, up
<1> HIDE DEF upto, ranges
<1>8. ASSUME NEW key \in 0 .. context - 1 PROVE \E other \in wanted : key \div b = other \div b
  <2>1. CASE key < v
    <3>1. key \in wanted BY <1>2, <2>1
    <3>2. QED BY <3>1
  <2>2. CASE key >= v
    <3>1. v > 0 BY <1>2, <2>2
    <3>2. key \in v - 1 .. context - 1 /\ v - 1 \in wanted BY <1>2, <2>2, <3>1
    <3>3. QED BY <1>2, <3>1, <3>2
  <2>3. QED BY <1>2, <2>1, <2>2
<1>9. ASSUME NEW key \in from .. upto - 1 PROVE \E other \in wanted : key \div b = other \div b
  <2>1. CASE key <= lo
    <3>1. key \in from .. lo /\ lo \in wanted BY <1>3, <2>1
    <3>2. QED BY <1>3, <3>1
  <2>2. CASE key > lo /\ key < hi
    <3>1. key \in wanted BY <1>3, <1>6, <2>2
    <3>2. QED BY <3>1
  <2>3. CASE key >= hi
    <3>1. key \in hi - 1 .. up - 1 /\ hi - 1 \in wanted BY <1>3, <1>5, <1>6, <2>3
    <3>2. QED BY <1>5, <3>1
  <2>4. QED BY <1>3, <1>6, <2>1, <2>2, <2>3
<1>10. 0 % b = 0
  <2>1. (0 * b) % b = 0 BY MultipleOf
  <2>2. QED BY <2>1
<1>11. CASE from <= context
  <2> DEFINE m == Max({context, upto})
  <2>1. m = IF context >= upto THEN context ELSE upto BY <1>2, <1>6, MaxOfTwo
  <2>2. m \in Nat /\ m % b = 0 /\ context <= m /\ upto <= m /\ (m = context \/ m = upto)
    BY <1>2, <1>6, <2>1
  <2>3. ranges = << <<0, m>>, <<0, 0>> >> BY <1>7, <1>11
  <2> HIDE DEF m
  <2>4. Keys(ranges[1]) = 0 .. m - 1 /\ Keys(ranges[2]) = {} BY <2>2, <2>3 DEF Keys
  <2>5. wanted \subseteq 0 .. m - 1 BY <1>2, <1>3, <1>6, <2>2
  <2>6. \A r \in {ranges[1], ranges[2]} : r[1] % b = 0 /\ r[2] % b = 0 BY <1>10, <2>2, <2>3
  <2>7. ASSUME NEW key \in 0 .. m - 1 PROVE \E other \in wanted : key \div b = other \div b
    <3>1. key \in 0 .. context - 1 \/ key \in from .. upto - 1 BY <1>2, <1>3, <1>6, <1>11, <2>2
    <3> HIDE DEF wanted
    <3>2. QED BY <1>8, <1>9, <3>1
  <2> HIDE DEF wanted
  <2>8. QED BY <2>4, <2>5, <2>6, <2>7 DEF Covers, wanted, ranges, end
<1>12. CASE ~(from <= context)
  <2>1. ranges = << <<0, context>>, <<from, upto>> >> BY <1>7, <1>12
  <2>2. Keys(ranges[1]) = 0 .. context - 1 /\ Keys(ranges[2]) = from .. upto - 1 BY <2>1 DEF Keys
  <2>3. (0 .. context - 1) \cap (from .. upto - 1) = {} BY <1>2, <1>3, <1>12
  <2>4. wanted \subseteq (0 .. context - 1) \cup (from .. upto - 1) BY <1>2, <1>3, <1>6
  <2>5. \A r \in {ranges[1], ranges[2]} : r[1] % b = 0 /\ r[2] % b = 0
    BY <1>2, <1>3, <1>6, <1>10, <2>1
  <2> HIDE DEF wanted
  <2>6. Covers(ranges, wanted, b) BY <1>8, <1>9, <2>2, <2>3, <2>4, <2>5 DEF Covers
  <2>7. QED BY <2>6 DEF wanted, ranges, end
<1>13. QED BY <1>11, <1>12

\* The keys that a query needs.
Needed(l, band, row) ==
  IF row < VideoStart(l) \/ band = 0 THEN 0 .. TotalRows(l) - 1
  ELSE (0 .. VideoStart(l) - 1)
         \cup ((VideoStart(l) + LowOf(l, band, row) * RowsPerFrame(l))
                 .. (VideoStart(l) + HighOf(l, band, row) * RowsPerFrame(l) - 1))

\* The windows of a tile's queries are one window.
LEMMA WindowsUnion ==
  ASSUME NEW l, IsLayout(l), NEW band \in Nat \ {0}, NEW x \in VideoStart(l) .. TotalRows(l) - 1,
         NEW y \in VideoStart(l) .. TotalRows(l) - 1, x <= y
  PROVE  LET lo == VideoStart(l) + LowOf(l, band, x) * RowsPerFrame(l)
             hi == VideoStart(l) + HighOf(l, band, y) * RowsPerFrame(l)
         IN /\ UNION {Needed(l, band, row) : row \in x .. y} = (0 .. VideoStart(l) - 1) \cup (lo .. hi - 1)
            /\ lo \in Nat /\ hi \in Nat /\ VideoStart(l) <= lo /\ lo < hi /\ hi <= TotalRows(l)
<1> DEFINE V == VideoStart(l)
           P == RowsPerFrame(l)
           n == l.frames
           low(row) == LowOf(l, band, row)
           high(row) == HighOf(l, band, row)
           lo == V + low(x) * P
           hi == V + high(y) * P
<1>1. /\ P \in Nat \ {0} /\ V \in Nat /\ TotalRows(l) \in Nat /\ TotalRows(l) = V + VideoRows(l)
      /\ VideoRows(l) = n * P /\ n \in Nat \ {0}
  BY LayoutNumbers, Sizes
<1>2. /\ \A row \in x .. y : low(x) <= low(row) /\ high(row) <= high(y)
      /\ \A g \in low(x) .. high(y) - 1 : \E row \in x .. y : g \in low(row) .. high(row) - 1
      /\ low(x) < high(y)
  BY WindowsJoin
<1>3. \A row \in V .. TotalRows(l) - 1 : low(row) \in 0 .. n - 1 /\ high(row) \in 1 .. n BY WindowIs
<1>4. \A row \in x .. y : row \in V .. TotalRows(l) - 1 /\ row >= V BY <1>1
<1> DEFINE near(row) == V + low(row) * P .. V + high(row) * P - 1
           span(row) == V + low(row) * P .. (V + high(row) * P) - 1
<1>5. \A row \in x .. y : Needed(l, band, row) = (0 .. V - 1) \cup near(row)
  <2> TAKE row \in x .. y
  <2>1. ~(row < V) /\ band # 0 BY <1>1, <1>4
  <2> HIDE DEF V
  <2>2. QED BY <2>1 DEF Needed, V
<1> HIDE DEF P, V, n, low, high
<1>30. ASSUME NEW row \in x .. y PROVE near(row) = span(row)
  <2> DEFINE g == high(row) * P
  <2>1. g \in Int
    <3>1. high(row) \in Int BY <1>1, <1>3, <1>4
    <3>2. QED BY <1>1, <3>1, Spread
  <2> HIDE DEF g
  <2>2. V + (g - 1) = (V + g) - 1 BY <1>1, <2>1
  <2>3. QED BY <2>2 DEF g, near, span
<1>6. ASSUME NEW a \in 0 .. n, NEW c \in 0 .. n, a <= c
      PROVE  V + a * P \in Nat /\ V + a * P <= V + c * P /\ (a < c => V + a * P + P <= V + c * P) /\ V <= V + a * P
  <2>1. /\ P * a \in Int /\ P * c \in Int /\ P * a <= P * c
        /\ P * a = a * P /\ P * c = c * P /\ P * 0 <= P * a /\ P * 0 = 0
    BY <1>1, <1>6, ProductBound, Spread
  <2>2. a < c => a * P + P <= c * P
    <3>1. ASSUME a < c PROVE a * P + P <= c * P
      <4>1. P * (a + 1) <= P * c BY <1>1, <3>1, ProductBound
      <4>2. P * (a + 1) = P * a + P * 1 /\ P * 1 = P BY <1>1, Spread
      <4>3. QED BY <2>1, <4>1, <4>2
    <3>2. QED BY <3>1
  <2> DEFINE e == a * P
             g == c * P
  <2>3. e \in Int /\ g \in Int /\ e <= g /\ 0 <= e /\ (a < c => e + P <= g) BY <2>1, <2>2
  <2> HIDE DEF e, g
  <2>4. V + e \in Nat /\ V + e <= V + g /\ (a < c => V + e + P <= V + g) /\ V <= V + e BY <1>1, <2>3
  <2>5. QED BY <1>30, <2>4 DEF e, g, span
<1>7. /\ low(x) \in 0 .. n /\ high(y) \in 0 .. n /\ low(x) <= high(y) /\ n \in 0 .. n /\ high(y) <= n
  <2>1. low(x) \in 0 .. n - 1 /\ high(y) \in 1 .. n BY <1>3 DEF V
  <2>2. QED BY <1>1, <1>2, <2>1
<1>8. lo \in Nat /\ hi \in Nat /\ V <= lo /\ lo < hi /\ hi <= TotalRows(l)
  <2>1. lo \in Nat /\ V <= lo /\ lo + P <= hi BY <1>2, <1>6, <1>7
  <2>2. hi \in Nat /\ hi <= V + n * P BY <1>6, <1>7
  <2>3. V + n * P = TotalRows(l) BY <1>1
  <2> HIDE DEF lo, hi
  <2>4. QED BY <1>1, <2>1, <2>2, <2>3
<1>9. ASSUME NEW row \in x .. y PROVE near(row) \subseteq lo .. hi - 1
  <2>1. low(row) \in 0 .. n - 1 /\ high(row) \in 1 .. n /\ low(x) <= low(row) /\ high(row) <= high(y)
    BY <1>2, <1>3, <1>4
  <2>2. low(row) \in 0 .. n /\ high(row) \in 0 .. n BY <1>1, <2>1
  <2>3. lo <= V + low(row) * P /\ V + low(row) * P \in Nat /\ V + high(row) * P <= hi /\ V + high(row) * P \in Nat
    BY <1>6, <1>7, <2>1, <2>2
  <2> DEFINE e == V + low(row) * P
             g == V + high(row) * P
  <2> HIDE DEF e, g, lo, hi
  <2>4. e .. g - 1 \subseteq lo .. hi - 1 BY <1>8, <2>3 DEF e, g
  <2>5. QED BY <1>30, <2>4 DEF e, g, span
<1>10. ASSUME NEW k \in lo .. hi - 1 PROVE \E row \in x .. y : k \in near(row)
  <2> DEFINE d == k - V
             g == d \div P
             m == d % P
             N == high(y)
  <2>1. d \in Nat
    <3> HIDE DEF lo, hi
    <3>1. QED BY <1>1, <1>8
  <2>2. g \in Nat /\ m \in Nat /\ m < P /\ d = P * g + m
    <3> HIDE DEF d
    <3>1. QED BY <1>1, <2>1, Divided, DividedNat
  <2> HIDE DEF g, m
  <2>3. g \in low(x) .. high(y) - 1
    <3>1. g < high(y)
      <4>1. d < N * P
        <5>1. N * P \in Int BY <1>7, <1>1, Spread DEF N
        <5> DEFINE h == N * P
        <5>2. k < V + h
          <6>1. k < hi /\ k \in Int
            <7> HIDE DEF lo, hi
            <7>1. QED BY <1>8
          <6>2. QED BY <6>1 DEF N
        <5> HIDE DEF h
        <5>3. d < h
          <6>1. k \in Int
            <7> HIDE DEF lo, hi
            <7>1. QED BY <1>8
          <6>2. QED BY <1>1, <5>1, <5>2, <6>1 DEF h
        <5>4. QED BY <5>3 DEF h
      <4>2. N \in Nat BY <1>1, <1>7 DEF N
      <4> HIDE DEF d, N
      <4>3. d \div P \in 0 .. N - 1 BY <1>1, <2>1, <4>1, <4>2, DividedBelow
      <4>4. QED BY <4>2, <4>3 DEF g, N
    <3>2. low(x) <= g
      <4> DEFINE c == low(x)
      <4>1. (P * c) \div P = c
        <5>0. c \in Int /\ 0 \in Int /\ 0 <= 0 /\ 0 < P BY <1>1, <1>7
        <5> HIDE DEF c
        <5>1. (P * c + 0) \div P = c BY ONLY <1>1, <5>0, DividedOnce
        <5>2. P * c \in Int BY <1>1, <5>0, Spread
        <5>3. QED BY <5>1, <5>2
      <4>2. P * c <= d /\ P * c \in Int
        <5>1. c * P = P * c /\ P * c \in Int BY <1>1, <1>7, Spread
        <5> DEFINE h == P * c
        <5>2. V + h <= k /\ k \in Int /\ h \in Int
          <6>1. lo <= k /\ k \in Int
            <7> HIDE DEF lo, hi
            <7>1. QED BY <1>8
          <6>2. QED BY <5>1, <6>1
        <5> HIDE DEF h
        <5>3. h <= d /\ h \in Int BY <1>1, <5>2
        <5>4. QED BY <5>3 DEF h
      <4> DEFINE pc == P * c
      <4> HIDE DEF pc, d
      <4>3. pc \div P <= d \div P BY <1>1, <2>1, <4>2, DividedOrder DEF pc
      <4>4. QED BY <4>1, <4>3 DEF pc, g
    <3>3. QED BY <1>1, <1>7, <2>2, <3>1, <3>2
  <2>4. PICK row \in x .. y : g \in low(row) .. high(row) - 1 BY <1>2, <2>3
  <2>5. low(row) \in 0 .. n /\ high(row) \in 0 .. n /\ g \in 0 .. n /\ g + 1 \in 0 .. n
        /\ low(row) <= g /\ g + 1 <= high(row) /\ g < g + 1 /\ g <= g + 1
    <3>1. low(row) \in 0 .. n - 1 /\ high(row) \in 1 .. n BY <1>3, <1>4
    <3>2. QED BY <1>1, <2>2, <2>4, <3>1
  <2>6. /\ V + low(row) * P <= V + g * P /\ V + low(row) * P \in Nat /\ V + g * P \in Nat
        /\ V + g * P + P <= V + (g + 1) * P
        /\ V + (g + 1) * P <= V + high(row) * P /\ V + (g + 1) * P \in Nat /\ V + high(row) * P \in Nat
    <3>1. V + low(row) * P <= V + g * P /\ V + low(row) * P \in Nat BY <1>6, <2>5
    <3>2. V + g * P \in Nat /\ V + g * P + P <= V + (g + 1) * P BY <1>6, <2>5
    <3>3. V + (g + 1) * P <= V + high(row) * P /\ V + (g + 1) * P \in Nat BY <1>6, <2>5
    <3>4. V + high(row) * P \in Nat BY <1>6, <2>5
    <3>5. QED BY <3>1, <3>2, <3>3, <3>4
  <2> DEFINE e == V + low(row) * P
             f == V + g * P
             f1 == V + (g + 1) * P
             h == V + high(row) * P
  <2>7. k = f + m
    <3>1. P * g = g * P /\ P * g \in Int BY <1>1, <2>2, Spread
    <3> DEFINE o == P * g
    <3>2. d = o + m /\ f = V + o /\ o \in Int BY <2>2, <3>1
    <3> HIDE DEF o, f
    <3>3. k \in Int
      <4> HIDE DEF lo, hi
      <4>1. QED BY <1>8
    <3>4. QED BY <1>1, <2>2, <3>2, <3>3
  <2>8. e <= f /\ e \in Nat /\ f \in Nat /\ f + P <= f1 /\ f1 <= h /\ f1 \in Nat /\ h \in Nat
    BY <2>6
  <2> HIDE DEF e, f, f1, h, d
  <2>9. k \in e .. h - 1 BY <1>1, <2>2, <2>7, <2>8
  <2>10. QED BY <1>30, <2>9 DEF e, h, span
<1> HIDE DEF near, lo, hi
<1>11. UNION {Needed(l, band, row) : row \in x .. y} = (0 .. V - 1) \cup (lo .. hi - 1)
  <2>1. ASSUME NEW k, k \in UNION {Needed(l, band, row) : row \in x .. y} PROVE k \in (0 .. V - 1) \cup (lo .. hi - 1)
    BY <1>5, <1>9, <2>1
  <2>2. ASSUME NEW k, k \in (0 .. V - 1) \cup (lo .. hi - 1) PROVE k \in UNION {Needed(l, band, row) : row \in x .. y}
    <3>1. x \in x .. y BY <1>1 DEF V
    <3>2. CASE k \in 0 .. V - 1 BY <1>5, <3>1, <3>2
    <3>3. CASE k \in lo .. hi - 1 BY <1>5, <1>10, <3>3
    <3>4. QED BY <2>2, <3>2, <3>3
  <2>3. QED BY <2>1, <2>2
<1>12. QED BY <1>8, <1>11 DEF lo, hi, V, P, low, high

\* BandsCover, of any layout and any band.
Queries(l, b, tile) == tile * b.tile .. Min({(tile + 1) * b.tile, TotalRows(l)}) - 1
\* The keys that a tile needs, and what BandsCover promises of a band.
Wanted(l, b, tile) == UNION {Needed(l, b.frames, row) : row \in Queries(l, b, tile)}
BandCovers(l, b) ==
  \A tile \in 0 .. (TotalRows(l) - 1) \div b.tile :
    Covers(KeyRanges(l, b.frames, b.tile, b.block, tile), Wanted(l, b, tile), b.block)

\* The rows of a tile.
LEMMA TileRows ==
  ASSUME NEW n \in Nat \ {0}, NEW w \in Nat \ {0}, NEW tile \in 0 .. (n - 1) \div w
  PROVE  /\ tile * w \in 0 .. n - 1
         /\ Min({(tile + 1) * w, n}) - 1 = Min({tile * w + w, n}) - 1
         /\ Min({tile * w + w, n}) - 1 \in tile * w .. n - 1
<1> DEFINE q == (n - 1) \div w
           first == tile * w
<1>1. q \in Nat /\ w * q <= n - 1 /\ w * q \in Int
  <2> DEFINE m == n - 1
             r == m % w
  <2>1. m \in Nat OBVIOUS
  <2> HIDE DEF m
  <2>2. m \div w \in Nat /\ r \in Nat /\ m = w * (m \div w) + r BY <2>1, Divided, DividedNat
  <2> DEFINE d == m \div w
  <2> HIDE DEF d, r
  <2>3. w * d \in Int BY <2>2, Spread DEF d
  <2> DEFINE e == w * d
  <2>4. m = e + r /\ e \in Int BY <2>2, <2>3 DEF d
  <2> HIDE DEF e
  <2>5. e <= m BY <2>1, <2>2, <2>4
  <2>6. QED BY <2>2, <2>3, <2>5 DEF d, e, m
<1>2. first = w * tile /\ w * tile <= w * q /\ 0 <= w * tile /\ w * tile \in Int /\ (tile + 1) * w = first + w
  <2>1. tile \in Nat /\ tile <= q BY <1>1
  <2> HIDE DEF q
  <2>2. w * 0 <= w * tile /\ w * 0 = 0 /\ w * tile <= w * q /\ w * tile \in Int
    BY <1>1, <2>1, ProductBound
  <2>3. tile * w = w * tile /\ (tile + 1) * w = w * (tile + 1) /\ w * (tile + 1) = w * tile + w * 1 /\ w * 1 = w
    BY <2>1, Spread
  <2>4. QED BY <2>2, <2>3
<1> DEFINE wt == w * tile
           wq == w * q
<1>3. wt \in Int /\ 0 <= wt /\ wt <= wq /\ wq <= n - 1 /\ wq \in Int BY <1>1, <1>2
<1> HIDE DEF wt, wq
<1>4. wt \in 0 .. n - 1 BY <1>3
<1>5. Min({wt + w, n}) = IF wt + w <= n THEN wt + w ELSE n BY <1>3, MinOfTwo
<1>6. Min({wt + w, n}) - 1 \in wt .. n - 1 BY <1>3, <1>4, <1>5
<1>7. first = wt /\ (tile + 1) * w = wt + w BY <1>2 DEF wt
<1>8. QED BY <1>4, <1>6, <1>7

\* A band's tiles see the keys they need.
LEMMA BandsHold ==
  ASSUME NEW l, IsLayout(l), NEW b \in Bands
  PROVE  BandCovers(l, b)
<1> SUFFICES ASSUME NEW tile \in 0 .. (TotalRows(l) - 1) \div b.tile
             PROVE  Covers(KeyRanges(l, b.frames, b.tile, b.block, tile), Wanted(l, b, tile), b.block)
  BY DEF BandCovers
<1> DEFINE V == VideoStart(l)
           T == TotalRows(l)
           P == RowsPerFrame(l)
           band == b.frames
           w == b.tile
           B == b.block
           first == tile * w
           last == Min({first + w, T}) - 1
           end == RoundUp(T, B)
           wanted == Wanted(l, b, tile)
<1>1. V \in Nat /\ T \in Nat \ {0} /\ band \in Nat /\ w \in Nat \ {0} /\ B \in Nat \ {0}
  BY LayoutNumbers, PackingAssumption DEF PackingAssumption
<1>2. first \in 0 .. T - 1 /\ last \in first .. T - 1 /\ Queries(l, b, tile) = first .. last
  <2>1. tile \in 0 .. (T - 1) \div w OBVIOUS
  <2> HIDE DEF T, w
  <2>2. /\ tile * w \in 0 .. T - 1
        /\ Min({(tile + 1) * w, T}) - 1 = Min({tile * w + w, T}) - 1
        /\ Min({tile * w + w, T}) - 1 \in tile * w .. T - 1
    BY <1>1, <2>1, TileRows
  <2>3. QED BY <2>2 DEF Queries, T, w
<1>3. wanted = UNION {Needed(l, band, row) : row \in first .. last} BY <1>2 DEF Wanted
<1>4. first \in first .. last /\ first <= last /\ first \in Int /\ last \in Int BY <1>1, <1>2
<1> HIDE DEF first, last, wanted, V, T
<1>5. CASE band = 0 \/ first < V
  <2>1. KeyRanges(l, band, w, B, tile) = << <<0, end>>, <<0, 0>> >>
    <3>1. band <= 0 \/ first < V BY <1>1, <1>5
    <3>2. QED BY <3>1 DEF KeyRanges, first, end, V, T
  <2>2. Needed(l, band, first) = 0 .. T - 1 BY <1>5 DEF Needed, V, T
  <2>3. ASSUME NEW row \in first .. last PROVE Needed(l, band, row) \subseteq 0 .. T - 1
    <3>1. CASE row < V \/ band = 0 BY <3>1 DEF Needed, V, T
    <3>2. CASE ~(row < V \/ band = 0)
      <4>1. row \in V .. T - 1 /\ row <= row /\ band \in Nat \ {0} BY <1>1, <1>2, <1>4, <3>2
      <4> DEFINE lo == V + LowOf(l, band, row) * P
                 hi == V + HighOf(l, band, row) * P
      <4>2. /\ UNION {Needed(l, band, x) : x \in row .. row} = (0 .. V - 1) \cup (lo .. hi - 1)
            /\ lo \in Nat /\ hi \in Nat /\ V <= lo /\ lo < hi /\ hi <= T
        BY <4>1, WindowsUnion DEF V, T
      <4> HIDE DEF lo, hi
      <4>3. (0 .. V - 1) \cup (lo .. hi - 1) \subseteq 0 .. T - 1 BY <1>1, <4>2
      <4>4. row \in row .. row BY <4>1, <1>1
      <4>5. QED BY <4>2, <4>3, <4>4
    <3>3. QED BY <3>1, <3>2
  <2>4. wanted = 0 .. T - 1 BY <1>3, <1>4, <2>2, <2>3
  <2>5. Covers(<< <<0, end>>, <<0, 0>> >>, 0 .. T - 1, B) BY <1>1, EverythingCovers
  <2>6. QED BY <2>1, <2>4, <2>5 DEF wanted
<1>6. CASE ~(band = 0 \/ first < V)
  <2> DEFINE lo == V + LowOf(l, band, first) * P
             hi == V + HighOf(l, band, last) * P
  <2>1. band \in Nat \ {0} /\ first \in V .. T - 1 /\ last \in V .. T - 1 /\ first <= last
    BY <1>1, <1>2, <1>4, <1>6
  <2>2. /\ wanted = (0 .. V - 1) \cup (lo .. hi - 1)
        /\ lo \in Nat /\ hi \in Nat /\ V <= lo /\ lo < hi /\ hi <= T
    <3>1. /\ UNION {Needed(l, band, x) : x \in first .. last} = (0 .. V - 1) \cup (lo .. hi - 1)
          /\ lo \in Nat /\ hi \in Nat /\ V <= lo /\ lo < hi /\ hi <= T
      BY <2>1, WindowsUnion DEF V, T
    <3>2. QED BY <1>3, <3>1
  <2>3. KeyRanges(l, band, w, B, tile) = Windowed(V, lo, hi, end, B)
    <3>1. ~(band <= 0 \/ first < V) BY <1>1, <1>6
    <3>2. QED BY <3>1 DEF KeyRanges, Windowed, LowOf, HighOf, FrameOf, first, last, V, T
  <2> HIDE DEF lo, hi
  <2>4. Covers(Windowed(V, lo, hi, end, B), (0 .. V - 1) \cup (lo .. hi - 1), B)
    BY <1>1, <2>2, WindowCovers
  <2>5. QED BY <2>2, <2>3, <2>4 DEF wanted
<1>7. QED BY <1>5, <1>6

-----------------------------------------------------------------------------
(* Chunks.                                                                 *)

\* The latents of resolved requests.
IsLong(c, m) ==
  /\ m \in Nat /\ c.frames = 5 * m + 2 /\ c.audio \in Nat
  /\ \E e \in 0 .. 5 : 6 * c.audio + e = 170 * m + 53

\* A resolved duration has 5 latent frames and 17 frames for every 28 1/3 audio latents.
LEMMA ResolvedIsLong ==
  ASSUME NEW n \in Nat
  PROVE  \E m : IsLong(Resolved(n), m)
<1> DEFINE m == IF n <= 5 THEN 0 ELSE (n - 5 + 16) \div 17
           aligned == AlignNumFrames(n)
           c == Resolved(n)
<1>1. m \in Nat
  <2>1. CASE n <= 5 BY <2>1
  <2>2. CASE ~(n <= 5)
    <3>1. n - 5 + 16 \in Nat BY <2>2
    <3> DEFINE k == n - 5 + 16
    <3> HIDE DEF k
    <3>2. k \div 17 \in Nat BY <3>1, DividedNat DEF k
    <3>3. QED BY <2>2, <3>2 DEF k
  <2>3. QED BY <2>1, <2>2
<1>2. aligned = 17 * m + 5 BY DEF AlignNumFrames
<1> HIDE DEF m, aligned
<1>3. c.frames = 5 * m + 2
  <2>1. (aligned - 5) \div 17 = m
    <3>1. (17 * m + 0) \div 17 = m BY <1>1, DividedOnce
    <3>2. QED BY <1>1, <1>2, <3>1
  <2>2. QED BY <1>1, <2>1 DEF Resolved, VideoLatentNumFrames, aligned
<1>4. c.audio = (170 * m + 53) \div 6 BY <1>1, <1>2 DEF Resolved, AudioLatentsForFrames, aligned
<1>5. c.audio \in Nat /\ \E e \in 0 .. 5 : 6 * c.audio + e = 170 * m + 53
  <2> DEFINE k == 170 * m + 53
             e == k % 6
  <2>1. k \in Nat BY <1>1
  <2> HIDE DEF k, e
  <2>2. k \div 6 \in Nat /\ e \in Nat /\ e < 6 /\ k = 6 * (k \div 6) + e
    BY <2>1, Divided, DividedNat DEF e
  <2>3. QED BY <1>4, <2>2 DEF k
<1> HIDE DEF c
<1>6. IsLong(c, m) BY <1>1, <1>3, <1>5 DEF IsLong
<1>7. QED BY <1>6 DEF c

\* One of the two clocks of a chunked request.
Tiles(full, stride, extent, overlap, n) ==
  /\ n \in Nat /\ n >= 2 /\ stride \in Nat \ {0} /\ extent \in Nat /\ overlap \in Nat \ {0}
  /\ extent = stride + overlap /\ full = stride * (n - 1) + extent /\ full \in Nat

\* Strides that divide what chunks leave tile the whole.
LEMMA StridesTile ==
  ASSUME NEW full \in Nat, NEW extent \in Nat, NEW n \in Nat, n >= 2, full - extent > 0,
         (full - extent) % (n - 1) = 0, extent > (full - extent) \div (n - 1)
  PROVE  Tiles(full, (full - extent) \div (n - 1), extent, extent - ((full - extent) \div (n - 1)), n)
<1> DEFINE d == n - 1
           f == full - extent
           s == f \div d
<1>1. d \in Nat \ {0} /\ f \in Nat /\ f > 0 /\ f % d = 0 /\ extent > s OBVIOUS
<1> HIDE DEF d, f
<1>2. s \in Nat /\ f = d * s + (f % d) BY <1>1, Divided, DividedNat
<1> HIDE DEF s
<1>3. d * s = s * d /\ d * s \in Int BY <1>1, <1>2, Spread
<1> DEFINE e == s * d
<1>4. f = e /\ e \in Int BY <1>1, <1>2, <1>3
<1>5. s # 0
  <2>1. ASSUME s = 0 PROVE FALSE
    <3>1. s * d = 0 BY <1>1, <2>1
    <3>2. QED BY <1>1, <1>4, <3>1
  <2>2. QED BY <2>1
<1> HIDE DEF e
<1>6. full = e + extent /\ extent - s \in Nat \ {0} /\ extent = s + (extent - s)
  BY <1>1, <1>2, <1>4 DEF f
<1>7. Tiles(full, s, extent, extent - s, n) BY <1>2, <1>5, <1>6 DEF Tiles, e, d
<1>8. QED BY <1>7 DEF s, f, d

\* A plan whose chunks tile.
IsPlan(p) ==
  /\ p.full.frames \in Nat /\ p.full.audio \in Nat
  /\ Tiles(p.full.frames, p.stride, p.chunk.frames, p.overlap, p.chunks)
  /\ Tiles(p.full.audio, p.audioStride, p.chunk.audio, p.audioOverlap, p.chunks)
  /\ p.stride % 5 = 0
  /\ \E m : IsLong(p.full, m) /\ \E k : IsLong(p.chunk, k)

\* A plan that is not refused tiles both streams.
LEMMA PlansTile ==
  ASSUME NEW full, NEW chunk, NEW n \in Nat, NEW a \in Nat, NEW b \in Nat, full = Resolved(a), chunk = Resolved(b),
         ChunkPlan(full, chunk, n) # Refused
  PROVE  IsPlan(ChunkPlan(full, chunk, n))
<1> DEFINE frames == full.frames - chunk.frames
           sounds == full.audio - chunk.audio
           s == frames \div (n - 1)
           t == sounds \div (n - 1)
           p == ChunkPlan(full, chunk, n)
<1>1. PICK m, k : IsLong(full, m) /\ IsLong(chunk, k) BY ResolvedIsLong
<1>2. full.frames \in Nat /\ full.audio \in Nat /\ chunk.frames \in Nat /\ chunk.audio \in Nat
  BY <1>1 DEF IsLong
<1>3. /\ n >= 2 /\ frames > 0 /\ sounds > 0
      /\ frames % (n - 1) = 0 /\ sounds % (n - 1) = 0
      /\ s % 5 = 0 /\ chunk.frames > s /\ chunk.audio > t
      /\ p = [chunks |-> n, full |-> full, chunk |-> chunk, stride |-> s, audioStride |-> t,
              overlap |-> chunk.frames - s, audioOverlap |-> chunk.audio - t]
  BY DEF ChunkPlan
<1>4. Tiles(full.frames, s, chunk.frames, chunk.frames - s, n) BY <1>2, <1>3, StridesTile
<1>5. Tiles(full.audio, t, chunk.audio, chunk.audio - t, n) BY <1>2, <1>3, StridesTile
<1> HIDE DEF s, t, frames, sounds
<1>6. /\ p.chunks = n /\ p.full = full /\ p.chunk = chunk /\ p.stride = s /\ p.audioStride = t
      /\ p.overlap = chunk.frames - s /\ p.audioOverlap = chunk.audio - t
  BY <1>3
<1> HIDE DEF p
<1>7. IsPlan(p) BY <1>1, <1>2, <1>3, <1>4, <1>5, <1>6 DEF IsPlan
<1>8. QED BY <1>7 DEF p

-----------------------------------------------------------------------------
(* What a job has been made of.                                            *)

\* What the other jobs make, and what a step takes.
ChosenCanvas(j) ==
  IF j.follows THEN ResolveCanvas(j.width, j.height, FollowedEdge(j.width, j.height), 0)
  ELSE ResolveCanvas(j.width, j.height, 768, 1008)
AlignedFrames(j) ==
  LET aligned == AlignNumFrames(j.frames)
  IN [frames |-> aligned, video |-> VideoLatentNumFrames(aligned), audio |-> AudioLatentsForFrames(aligned)]
TakenTimes(s, c, form, video, audio) ==
  LET times == IF form = "hyperflow" THEN HyperflowTimes(s, video, video + 1, audio, audio + 1)
               ELSE CudaTimes(s, video, audio)
  IN [form |-> form, video |-> video, audio |-> audio,
      times |-> IF c # s THEN WithCleanRows(times, RowsPerFrame(s.layout)) ELSE times]

\* The inductive invariant: what there is, is what the job says.
PackInv ==
  /\ job = NoJob \/ (job \in Jobs /\ IsJob(job))
  /\ sequence = <<>> => call = <<>> /\ step = <<>>
  /\ job = NoJob => sequence = <<>>
  /\ job.kind = "sequence" /\ sequence # <<>> =>
       /\ sequence = Packed(job)
       /\ call = sequence \/ (sequence # Refused /\ call = Extended(sequence))
  /\ job.kind = "chunks" /\ sequence # <<>> => sequence = ChunkPlan(job.full, job.chunk, job.chunks)
  /\ job.kind = "canvas" /\ sequence # <<>> => sequence = ChosenCanvas(job)
  /\ job.kind = "frames" /\ sequence # <<>> => sequence = AlignedFrames(job)
  /\ step # <<>> =>
       /\ IsPacked
       /\ \E form \in {"flow", "hyperflow"}, video, audio \in TimeLevels \ {CleanLevel} :
            /\ step = TakenTimes(sequence, call, form, video, audio)
            /\ form = "hyperflow" => call = sequence

\* The invariant holds where packing begins, and while there is none.
LEMMA PackingBegins ==
  PackingInit \/ PackingIdle => PackInv
BY JobsAssumption DEF PackingInit, PackingIdle, PackInv, NoJob

\* And every step keeps it.
LEMMA PackingKeeps ==
  PackInv /\ [PackingNext]_packingVars => PackInv'
<1> SUFFICES ASSUME PackInv, [PackingNext]_packingVars PROVE PackInv' OBVIOUS
<1>0. NoJob.kind = "none" BY DEF NoJob
<1>1. CASE UNCHANGED packingVars BY <1>1 DEF PackInv, packingVars, IsPacked
<1>2. CASE Pack
  <2>1. job' = job /\ step' = step /\ sequence' = Packed(job) /\ call' = sequence' /\ step = <<>>
        /\ job.kind = "sequence" /\ job # NoJob
    BY <1>0, <1>2 DEF Pack, PackInv
  <2>2. sequence' = <<>> => call' = <<>> /\ step' = <<>> BY <2>1
  <2>3. QED BY <2>1, <2>2 DEF PackInv
<1>3. CASE AddContext
  <2>1. job' = job /\ step' = step /\ sequence' = sequence /\ call' = Extended(sequence) /\ step = <<>>
        /\ job.kind = "sequence" /\ job # NoJob /\ sequence # <<>> /\ sequence # Refused
    BY <1>0, <1>3 DEF AddContext, IsPacked
  <2>2. QED BY <2>1 DEF PackInv
<1>4. ASSUME NEW form \in {"flow", "hyperflow"}, NEW video \in TimeLevels \ {CleanLevel},
             NEW audio \in TimeLevels \ {CleanLevel}, TakeTimes(form, video, audio)
      PROVE  PackInv'
  <2>1. job' = job /\ sequence' = sequence /\ call' = call /\ IsPacked
        /\ (form = "hyperflow" => call = sequence) /\ step' = TakenTimes(sequence, call, form, video, audio)
    BY <1>4 DEF TakeTimes, TakenTimes, HasContext
  <2>2. IsPacked' /\ sequence # <<>> BY <2>1 DEF IsPacked
  <2>3. /\ step' = TakenTimes(sequence', call', form, video, audio)
        /\ form = "hyperflow" => call' = sequence'
    BY <2>1
  <2>4. CleanLevel' = CleanLevel BY DEF CleanLevel
  <2>5. \E f \in {"flow", "hyperflow"}, v, a \in TimeLevels \ {CleanLevel} :
            /\ step' = TakenTimes(sequence', call', f, v, a)
            /\ f = "hyperflow" => call' = sequence'
    BY <2>3
  <2>6. QED BY <2>1, <2>2, <2>5 DEF PackInv
<1>5. CASE CutIntoChunks
  <2>1. job' = job /\ step' = step /\ call' = call /\ sequence' = ChunkPlan(job.full, job.chunk, job.chunks)
        /\ job.kind = "chunks" /\ sequence = <<>> /\ step = <<>> /\ call = <<>> /\ job # NoJob
    BY <1>0, <1>5 DEF CutIntoChunks, PackInv
  <2>2. QED BY <2>1 DEF PackInv
<1>6. CASE ChooseCanvas
  <2>1. job' = job /\ step' = step /\ call' = call /\ sequence' = ChosenCanvas(job)
        /\ job.kind = "canvas" /\ sequence = <<>> /\ step = <<>> /\ call = <<>> /\ job # NoJob
    BY <1>0, <1>6 DEF ChooseCanvas, ChosenCanvas, PackInv
  <2>2. QED BY <2>1 DEF PackInv
<1>7. CASE AlignFrames
  <2>1. job' = job /\ step' = step /\ call' = call /\ sequence' = AlignedFrames(job)
        /\ job.kind = "frames" /\ sequence = <<>> /\ step = <<>> /\ call = <<>> /\ job # NoJob
    BY <1>0, <1>7 DEF AlignFrames, AlignedFrames, PackInv
  <2>2. QED BY <2>1 DEF PackInv
<1>8. QED BY <1>1, <1>2, <1>3, <1>4, <1>5, <1>6, <1>7 DEF PackingNext

-----------------------------------------------------------------------------
(* The sequence of a call is that of an accepted request.                  *)

\* A job whose sequence is that of the calls.
IsCallOf(k) ==
  /\ IsAccepted(k) /\ call = Packed(k) /\ k.plain = job.plain /\ k.references = job.references
  /\ TextTags(k) = TextTags(job)
  /\ k.target.text = job.target.text /\ k.target.tags = job.target.tags /\ k.target.audio = job.target.audio
  /\ k.target.height = job.target.height /\ k.target.width = job.target.width

\* A packed job was accepted, and its calls have its sequence or the one a frame longer.
LEMMA PackedIsAccepted ==
  ASSUME PackInv, IsPacked
  PROVE  IsAccepted(job) /\ sequence = Packed(job)
         /\ (call = sequence \/ call = Packed(Longer(job)))
<1>1. job.kind = "sequence" /\ sequence # <<>> /\ sequence # Refused BY DEF IsPacked
<1>2. job # NoJob BY <1>1 DEF NoJob
<1>3. IsJob(job) /\ sequence = Packed(job) /\ (call = sequence \/ call = Extended(sequence))
  BY <1>1, <1>2 DEF PackInv
<1>4. job.plain \/ Accepts(job.target, job.references) BY <1>1, <1>3 DEF Packed
<1>5. IsAccepted(job) BY <1>1, <1>3, <1>4 DEF IsAccepted
<1>6. QED BY <1>3, <1>5, ExtendedIsLonger

\* So the calls' sequence is that of some accepted job of the same text and references.
LEMMA CallIsPacked ==
  ASSUME PackInv, IsPacked
  PROVE  \E k : IsCallOf(k)
<1>1. IsAccepted(job) /\ sequence = Packed(job) /\ (call = sequence \/ call = Packed(Longer(job)))
  BY PackedIsAccepted
<1>2. CASE call = sequence
  <2>1. IsCallOf(job) BY <1>1, <1>2 DEF IsCallOf
  <2>2. QED BY <2>1
<1>3. CASE call = Packed(Longer(job))
  <2>1. IsTarget(job.target) BY <1>1 DEF IsAccepted, IsJob
  <2> DEFINE t == job.target
             u == [t EXCEPT !.frames = @ + 1]
  <2>2. /\ u.text = t.text /\ u.tags = t.tags /\ u.audio = t.audio /\ u.height = t.height /\ u.width = t.width
    BY <2>1, LongerTarget
  <2>3. /\ IsAccepted(Longer(job)) /\ TextTags(Longer(job)) = TextTags(job)
        /\ Longer(job).target = u /\ Longer(job).plain = job.plain /\ Longer(job).references = job.references
    BY <1>1, LongerIsAccepted
  <2>4. IsCallOf(Longer(job)) BY <1>3, <2>2, <2>3 DEF IsCallOf
  <2>5. QED BY <2>4
<1>4. QED BY <1>1, <1>2, <1>3

\* Every row has its place in one list, and its tag.
LEMMA RowsHold ==
  PackInv => RowsAreWhole
<1> SUFFICES ASSUME PackInv, JustPacked PROVE RowsAreWhole BY DEF RowsAreWhole
<1>1. PICK k : IsCallOf(k) BY CallIsPacked DEF JustPacked
<1>2. IsWhole(call, TextTags(k)) BY <1>1, PackedIsOrdered, OrderedIsWhole DEF IsCallOf
<1>3. call.layout.text = k.target.text BY <1>1, PackedAgrees DEF IsCallOf, IsLaidFor
<1>4. TextTags(k) = IF job.plain THEN [i \in 1 .. call.layout.text |-> TagText] ELSE job.target.tags
  BY <1>1, <1>3 DEF TextTags, IsCallOf
<1>5. QED BY <1>2, <1>4 DEF RowsAreWhole, IsWhole

\* A sequence without references depends on these fields of its target.
LEMMA SamePlain ==
  ASSUME NEW t, NEW u, t.text = u.text, t.frames = u.frames, t.height = u.height, t.width = u.width, t.audio = u.audio
  PROVE  Plain(t) = Plain(u)
BY DEF Plain, PlainLayout, PlainAt

\* The target is where it would be without references, only later, and the references before it.
LEMMA CoordinatesHold ==
  PackInv => CoordinatesAgree
<1> SUFFICES ASSUME PackInv, JustPacked PROVE CoordinatesAgree BY DEF CoordinatesAgree
<1>1. PICK k : IsCallOf(k) BY CallIsPacked DEF JustPacked
<1> DEFINE l == call.layout
           t == [job.target EXCEPT !.frames = l.frames]
<1>2. /\ CoordinatesOf(call, k.target, job.references)
      /\ l.text = k.target.text /\ l.frames = k.target.frames /\ l.height = k.target.height /\ l.width = k.target.width
      /\ l.audio = k.target.audio
  BY <1>1, PackedAgrees DEF IsCallOf, IsLaidFor
<1>3. IsTarget(job.target) BY PackedIsAccepted DEF JustPacked, IsAccepted, IsJob
<1>4. /\ t.text = job.target.text /\ t.frames = l.frames /\ t.height = job.target.height
      /\ t.width = job.target.width /\ t.audio = job.target.audio
  BY <1>3 DEF IsTarget
<1>5. t.text = k.target.text /\ t.frames = k.target.frames /\ t.height = k.target.height
      /\ t.width = k.target.width /\ t.audio = k.target.audio
  BY <1>1, <1>2, <1>4 DEF IsCallOf
<1> HIDE DEF t
<1>6. Plain(t) = Plain(k.target) BY <1>5, SamePlain
<1>7. TargetAgrees(call, t) BY <1>2, <1>6 DEF CoordinatesOf, TargetAgrees
<1>8. OrdinaryFollow(call, t, job.references) /\ GuidesLie(call, t, job.references)
  BY <1>2, <1>5 DEF CoordinatesOf, OrdinaryFollow, GuidesLie, ReferenceRows, FirstOf
<1>9. t.text = l.text BY <1>2, <1>5
<1>10. QED
  BY <1>7, <1>8, <1>9 DEF CoordinatesAgree, TargetAgrees, OrdinaryFollow, GuidesLie, ReferenceRows, FirstOf, Later,
                           Ordinary, Patches, t

\* A capstone's sequence is that of one frame more.
LEMMA ContextHolds ==
  PackInv => ContextIsOneFrameMore
<1> SUFFICES ASSUME PackInv, JustPacked, HasContext PROVE call = Packed(Longer(job))
  BY DEF ContextIsOneFrameMore, Longer
<1>1. QED BY PackedIsAccepted DEF JustPacked, HasContext

\* A row's features are the latents of the patch at its place.
LEMMA PatchesHold ==
  PackInv => PatchesAreWhole
<1> SUFFICES ASSUME PackInv, JustPacked PROVE PatchesAreWhole BY DEF PatchesAreWhole
<1>1. PICK k : IsCallOf(k) BY CallIsPacked DEF JustPacked
<1>2. PICK c \in Int : TargetAt(call, c) BY <1>1, PackedIsLonger DEF IsCallOf
<1>3. IsLayout(call.layout) BY <1>1, PackedAgrees DEF IsCallOf, IsLaidFor
<1> DEFINE s == call
<1> HIDE DEF s
<1>4. PatchesOf(s) BY <1>2, <1>3, PatchesAgree DEF s
<1>5. QED BY <1>4 DEF PatchesAreWhole, PatchesOf, s

\* A band's tiles see the keys their queries need, and whole blocks of them.
LEMMA BandsAreCovered ==
  PackInv => BandsCover
<1> SUFFICES ASSUME PackInv, JustPacked, NEW b \in Bands PROVE BandCovers(call.layout, b)
  BY DEF BandsCover, BandCovers, Covers, Keys, Wanted, Needed, Queries, LowOf, HighOf, FrameOf
<1>1. PICK k : IsCallOf(k) BY CallIsPacked DEF JustPacked
<1>2. IsLayout(call.layout) BY <1>1, PackedAgrees DEF IsCallOf, IsLaidFor
<1>3. QED BY <1>2, BandsHold

\* What is packed has its type.
LEMMA PackingIsTyped ==
  PackInv => PackingTypeOK
<1> SUFFICES ASSUME PackInv PROVE PackingTypeOK OBVIOUS
<1>1. job.kind \in {"none", "sequence", "chunks", "canvas", "frames"} BY DEF PackInv, NoJob, IsJob
<1>2. ASSUME IsPacked
      PROVE  /\ DOMAIN call = DOMAIN sequence
             /\ sequence.tags \in Seq(0 .. 2) /\ ToSet(sequence.sound) \cup ToSet(sequence.video) \subseteq Nat
             /\ Len(sequence.at) = Len(sequence.tags)
  <2>1. IsAccepted(job) /\ sequence = Packed(job) /\ (call = sequence \/ call = Packed(Longer(job)))
    BY <1>2, PackedIsAccepted
  <2> DEFINE s == Packed(job)
             u == Packed(Longer(job))
             l == s.layout
             n == TotalRows(l)
             text == TextTags(job)
  <2>2. Ordered(s, text) /\ IsLonger(u, s) BY <2>1, PackedIsOrdered, PackedIsLonger
  <2> HIDE DEF s, u, text
  <2>3. DOMAIN s = DOMAIN u BY <2>2 DEF IsLonger, IsPackedRecord
  <2>4. IsLayout(l) /\ n \in Nat /\ l.text \in Nat BY <2>2, LayoutNumbers DEF Ordered, IsLayout
  <2>5. /\ text \in [1 .. l.text -> 0 .. 1] /\ s.sound \in Seq(Nat) /\ s.video \in Seq(Nat)
        /\ s.tags = [i \in 1 .. n |-> IF i <= l.text THEN text[i]
                                           ELSE IF i - 1 \in ToSet(s.sound) THEN TagAudio ELSE TagVideo]
    BY <2>2 DEF Ordered
  <2>6. s.tags \in [1 .. n -> 0 .. 2] BY <2>4, <2>5 DEF TagAudio, TagVideo
  <2>7. s.tags \in Seq(0 .. 2) /\ Len(s.tags) = n BY <2>4, <2>6
  <2>8. IsTuple(s.at, n) BY <2>2 DEF IsLonger
  <2>9. Len(s.at) = n BY <2>4, <2>8 DEF IsTuple
  <2>10. ToSet(s.sound) \cup ToSet(s.video) \subseteq Nat BY <2>5 DEF ToSet
  <2>11. QED BY <2>1, <2>3, <2>7, <2>9, <2>10 DEF s, u
<1>3. QED BY <1>1, <1>2 DEF PackingTypeOK

-----------------------------------------------------------------------------
(* Sums of weights.                                                        *)

\* The weight of a chunk at a latent of the whole, and the sum over some chunks.
Pull(p, at, stride, extent, overlap, k) == Weight(p, k, at - k * stride, extent, overlap)
PullOf(p, at, stride, extent, overlap, S) ==
  MapThenSumSet(LAMBDA k : Weight(p, k, at - k * stride, extent, overlap), S)
SomeOf(S) == CHOOSE x \in S : TRUE
IsSumming(g, p, at, stride, extent, overlap, S) ==
  \A s \in SUBSET S :
    g[s] = IF s = {} THEN 0
           ELSE Pull(p, at, stride, extent, overlap, SomeOf(s)) + g[s \ {SomeOf(s)}]

\* The element a fold takes.
LEMMA SomeIsIn ==
  ASSUME NEW S, S # {}
  PROVE  SomeOf(S) \in S
BY DEF SomeOf

\* A set without one of its elements.
LEMMA Without ==
  ASSUME NEW S, IsFiniteSet(S), NEW s \in SUBSET S, NEW x \in s
  PROVE  /\ s \ {x} \in SUBSET S /\ IsFiniteSet(s) /\ Cardinality(s) \in Nat
         /\ Cardinality(s \ {x}) = Cardinality(s) - 1 /\ Cardinality(s \ {x}) \in Nat
         /\ Cardinality(s) <= Cardinality(S) /\ Cardinality(S) \in Nat
<1>1. IsFiniteSet(s) /\ Cardinality(s) <= Cardinality(S) /\ Cardinality(S) \in Nat
  BY FS_Subset, FS_CardinalityType
<1>2. Cardinality(s) \in Nat BY <1>1, FS_CardinalityType
<1>3. IsFiniteSet(s \ {x}) /\ Cardinality(s \ {x}) = Cardinality(s) - 1 BY <1>1, FS_RemoveElement
<1>4. Cardinality(s \ {x}) \in Nat BY <1>3, FS_CardinalityType
<1>5. QED BY <1>1, <1>2, <1>3, <1>4

\* The sum over chunks has the trace of its fold.
LEMMA SumExists ==
  ASSUME NEW p, NEW at, NEW stride, NEW extent, NEW overlap, NEW S, IsFiniteSet(S)
  PROVE  \E g : /\ IsSumming(g, p, at, stride, extent, overlap, S)
                /\ PullOf(p, at, stride, extent, overlap, S) = g[S]
<1> DEFINE W(k) == Pull(p, at, stride, extent, overlap, k)
           Small(k) == {s \in SUBSET S : Cardinality(s) <= k}
           Next1(g, s) == IF s = {} THEN 0 ELSE W(SomeOf(s)) + g[s \ {SomeOf(s)}]
           F(g, k) == [s \in Small(k) |-> Next1(g, s)]
           G(g) == [s \in SUBSET S |-> Next1(g, s)]
           n == Cardinality(S)
           Good == {k \in 0 .. n : \E g : g = F(g, k)}
<1>1. PullOf(p, at, stride, extent, overlap, S) = (CHOOSE g : g = G(g))[S]
  BY DEF PullOf, MapThenSumSet, MapThenFoldSet, SomeOf, Pull
<1>2. n \in Nat BY FS_CardinalityType
<1> HIDE DEF W, n
<1>3. 0 \in Good
  <2> DEFINE none == [s \in Small(0) |-> 0]
  <2>1. \A s \in Small(0) : s = {}
    <3> SUFFICES ASSUME NEW s \in Small(0), s # {} PROVE FALSE OBVIOUS
    <3>1. PICK x \in s : TRUE OBVIOUS
    <3>2. Cardinality(s) <= 0 /\ s \in SUBSET S OBVIOUS
    <3>3. /\ Cardinality(s) \in Nat /\ Cardinality(s \ {x}) \in Nat
          /\ Cardinality(s \ {x}) = Cardinality(s) - 1
      BY ONLY <3>2, x \in s, IsFiniteSet(S), Without
    <3>4. QED BY <3>2, <3>3
  <2>2. none = F(none, 0) BY <2>1
  <2> HIDE DEF none, F
  <2>3. QED BY <1>2, <2>2
<1>4. ASSUME NEW k \in 0 .. n - 1, k \in Good PROVE k + 1 \in Good
  <2>1. PICK g : g = F(g, k) BY <1>4
  <2> DEFINE h == [s \in Small(k + 1) |-> IF s = {} THEN 0 ELSE W(SomeOf(s)) + g[s \ {SomeOf(s)}]]
  <2>2. h = F(h, k + 1)
    <3> SUFFICES ASSUME NEW s \in Small(k + 1) PROVE h[s] = Next1(h, s) OBVIOUS
    <3>1. CASE s = {} BY <3>1
    <3>2. CASE s # {}
      <4> DEFINE x == SomeOf(s)
                 rest == s \ {x}
      <4>1. x \in s BY <3>2, SomeIsIn
      <4>2. s \in SUBSET S /\ Cardinality(s) <= k + 1 /\ k \in Nat BY <1>2
      <4> HIDE DEF x
      <4>3. rest \in SUBSET S /\ Cardinality(rest) = Cardinality(s) - 1 /\ Cardinality(s) \in Nat
            /\ Cardinality(rest) \in Nat
        BY <4>1, <4>2, Without
      <4>4. rest \in Small(k) /\ rest \in Small(k + 1) BY <4>2, <4>3
      <4>5. g[rest] = h[rest]
        <5>1. g[rest] = Next1(g, rest)
          <6> HIDE DEF Next1
          <6>1. QED BY <2>1, <4>4
        <5>2. h[rest] = Next1(g, rest)
          <6> HIDE DEF Small, rest
          <6>1. QED BY <4>4
        <5>3. QED BY <5>1, <5>2
      <4>6. h[s] = Next1(g, s)
        <5> HIDE DEF Small
        <5>1. QED OBVIOUS
      <4> HIDE DEF h
      <4>7. QED BY <3>2, <4>5, <4>6 DEF x
    <3>3. QED BY <3>1, <3>2
  <2>3. k + 1 \in 0 .. n BY <1>2
  <2> HIDE DEF h, F
  <2>4. QED BY <2>2, <2>3
<1>5. n \in Good
  <2> HIDE DEF Good
  <2>1. \A k \in 0 .. n : k \in Good BY <1>2, <1>3, <1>4, Reaches
  <2>2. QED BY <2>1, <1>2
<1>6. Small(n) = SUBSET S
  <2>1. ASSUME NEW s \in SUBSET S PROVE Cardinality(s) <= n BY FS_Subset DEF n
  <2>2. QED BY <2>1
<1> DEFINE iter == CHOOSE g : g = G(g)
<1>7. iter = G(iter)
  <2>1. PICK g : g = F(g, n) BY <1>5
  <2>2. g = G(g)
    <3> HIDE DEF Next1, Small
    <3>1. QED BY <1>6, <2>1
  <2> HIDE DEF G
  <2>3. QED BY <2>2
<1> HIDE DEF iter
<1>8. IsSumming(iter, p, at, stride, extent, overlap, S) BY <1>7 DEF IsSumming, W
<1>9. PullOf(p, at, stride, extent, overlap, S) = iter[S] BY <1>1 DEF iter
<1>10. QED BY <1>8, <1>9

\* A sum of positive numbers is positive; and a sum of one or of two.
LEMMA SumsAre ==
  ASSUME NEW g, NEW p, NEW at, NEW stride, NEW extent, NEW overlap, NEW S, IsFiniteSet(S), S # {},
         IsSumming(g, p, at, stride, extent, overlap, S),
         \A k \in S : Pull(p, at, stride, extent, overlap, k) \in Nat \ {0}
  PROVE  g[S] \in Nat \ {0}
<1> DEFINE W(k) == Pull(p, at, stride, extent, overlap, k)
           n == Cardinality(S)
           Good == {k \in 0 .. n : \A s \in SUBSET S : Cardinality(s) <= k => g[s] \in Nat}
<1>1. n \in Nat BY FS_CardinalityType
<1>2. g[{}] = 0 BY DEF IsSumming
<1>3. ASSUME NEW s \in SUBSET S, s # {}
      PROVE  SomeOf(s) \in s /\ g[s] = W(SomeOf(s)) + g[s \ {SomeOf(s)}] /\ W(SomeOf(s)) \in Nat \ {0}
  <2>1. SomeOf(s) \in s BY <1>3, SomeIsIn
  <2>2. QED BY <1>3, <2>1 DEF IsSumming
<1> HIDE DEF W, n
<1>4. 0 \in Good
  <2>1. ASSUME NEW s \in SUBSET S, Cardinality(s) <= 0 PROVE s = {}
    <3> SUFFICES ASSUME NEW x \in s PROVE FALSE OBVIOUS
    <3>1. /\ Cardinality(s) \in Nat /\ Cardinality(s \ {x}) \in Nat
          /\ Cardinality(s \ {x}) = Cardinality(s) - 1
      BY ONLY s \in SUBSET S, x \in s, IsFiniteSet(S), Without
    <3>2. QED BY <2>1, <3>1
  <2>2. QED BY <1>1, <1>2, <2>1
<1>5. ASSUME NEW k \in 0 .. n - 1, k \in Good PROVE k + 1 \in Good
  <2>1. ASSUME NEW s \in SUBSET S, Cardinality(s) <= k + 1 PROVE g[s] \in Nat
    <3>1. CASE s = {} BY <1>2, <3>1
    <3>2. CASE s # {}
      <4> DEFINE x == SomeOf(s)
                 rest == s \ {x}
      <4>1. x \in s /\ g[s] = W(x) + g[rest] /\ W(x) \in Nat BY <1>3, <3>2
      <4> HIDE DEF x
      <4>2. rest \in SUBSET S /\ Cardinality(rest) = Cardinality(s) - 1 /\ Cardinality(s) \in Nat
        BY <4>1, Without
      <4>3. Cardinality(rest) <= k BY <1>1, <2>1, <4>2
      <4> HIDE DEF rest
      <4>4. g[rest] \in Nat BY <1>5, <4>2, <4>3
      <4>5. QED BY <4>1, <4>4
    <3>3. QED BY <3>1, <3>2
  <2>2. QED BY <1>1, <2>1
<1>6. n \in Good
  <2> HIDE DEF Good
  <2>1. \A k \in 0 .. n : k \in Good BY <1>1, <1>4, <1>5, Reaches
  <2>2. QED BY <2>1, <1>1
<1>7. ASSUME NEW s \in SUBSET S PROVE g[s] \in Nat
  <2>1. Cardinality(s) <= n BY FS_Subset DEF n
  <2>2. QED BY <1>6, <2>1
<1>8. g[S \ {SomeOf(S)}] \in Nat BY <1>7
<1>9. QED BY <1>3, <1>8

\* The sum over one chunk.
LEMMA SumOfOne ==
  ASSUME NEW g, NEW p, NEW at, NEW stride, NEW extent, NEW overlap, NEW a,
         IsSumming(g, p, at, stride, extent, overlap, {a}),
         Pull(p, at, stride, extent, overlap, a) \in Nat
  PROVE  g[{a}] = Pull(p, at, stride, extent, overlap, a)
<1>1. SomeOf({a}) = a BY SomeIsIn
<1>2. g[{}] = 0 /\ g[{a}] = Pull(p, at, stride, extent, overlap, a) + g[{a} \ {a}]
  BY <1>1 DEF IsSumming
<1>3. QED BY <1>2

\* The sum over two.
LEMMA SumOfTwo ==
  ASSUME NEW g, NEW p, NEW at, NEW stride, NEW extent, NEW overlap, NEW a, NEW b, a # b,
         IsSumming(g, p, at, stride, extent, overlap, {a, b}),
         Pull(p, at, stride, extent, overlap, a) \in Nat, Pull(p, at, stride, extent, overlap, b) \in Nat
  PROVE  g[{a, b}] = Pull(p, at, stride, extent, overlap, a) + Pull(p, at, stride, extent, overlap, b)
<1> DEFINE W(k) == Pull(p, at, stride, extent, overlap, k)
<1>1. SomeOf({a}) = a /\ SomeOf({b}) = b /\ SomeOf({a, b}) \in {a, b} BY SomeIsIn
<1>2. {a} \in SUBSET {a, b} /\ {b} \in SUBSET {a, b} /\ {a, b} \in SUBSET {a, b} /\ {} \in SUBSET {a, b}
  OBVIOUS
<1>3. \A s \in SUBSET {a, b} : g[s] = IF s = {} THEN 0 ELSE W(SomeOf(s)) + g[s \ {SomeOf(s)}]
  BY DEF IsSumming
<1> HIDE DEF W
<1>4. g[{}] = 0 BY <1>2, <1>3
<1>5. g[{a}] = W(a) + g[{}] /\ g[{b}] = W(b) + g[{}]
  <2>1. {a} \ {a} = {} /\ {b} \ {b} = {} /\ {a} # {} /\ {b} # {} OBVIOUS
  <2>2. QED BY <1>1, <1>2, <1>3, <2>1
<1>6. g[{a, b}] = W(a) + g[{b}] \/ g[{a, b}] = W(b) + g[{a}]
  <2>1. {a, b} \ {a} = {b} /\ {a, b} \ {b} = {a} /\ {a, b} # {} OBVIOUS
  <2>2. QED BY <1>1, <1>2, <1>3, <2>1
<1>7. QED BY <1>4, <1>5, <1>6 DEF W

-----------------------------------------------------------------------------
(* Chunks that overlap.                                                    *)

\* The numbers the weight is the least of.
Ramps(n, k, j, extent, overlap) ==
  {2 * overlap} \cup (IF k > 0 /\ j < overlap THEN {2 * j + 1} ELSE {})
    \cup (IF k < n - 1 /\ j >= extent - overlap THEN {2 * (extent - j) - 1} ELSE {})
\* A weight is the least of its ramps.
IsWeight(w, n, k, j, extent, overlap) == w \in Nat \ {0} /\ w = Min(Ramps(n, k, j, extent, overlap))

\* And a chunk's is.
LEMMA WeightIsLeast ==
  ASSUME NEW p, p.chunks \in Nat, NEW k \in Nat, NEW j \in Int, NEW extent \in Nat, NEW overlap \in Nat \ {0},
         j \in 0 .. extent - 1
  PROVE  IsWeight(Weight(p, k, j, extent, overlap), p.chunks, k, j, extent, overlap)
<1> DEFINE S == Ramps(p.chunks, k, j, extent, overlap)
<1>1. Weight(p, k, j, extent, overlap) = Min(S) BY DEF Weight, Ramps
<1>2. S \subseteq Nat \ {0} /\ S # {} BY DEF Ramps
<1> HIDE DEF S
<1>3. Min(S) \in S
  <2>1. PICK m \in S : \A y \in S : m <= y BY <1>2, HasLeast
  <2>2. S \subseteq Int /\ m \in S /\ \A y \in S : m <= y BY <1>2, <2>1
  <2>3. Min(S) = m BY <2>2, LeastIs
  <2>4. QED BY <2>1, <2>3
<1>4. QED BY <1>1, <1>2, <1>3 DEF S, IsWeight

\* Away from the ramps, on the one up, and on the one down.
LEMMA Level ==
  ASSUME NEW n \in Nat, NEW k \in Nat, NEW j \in Int, NEW extent \in Nat, NEW overlap \in Nat \ {0},
         k > 0 => j >= overlap, k < n - 1 => j < extent - overlap
  PROVE  Min(Ramps(n, k, j, extent, overlap)) = 2 * overlap
<1> DEFINE S == Ramps(n, k, j, extent, overlap)
<1>1. S = {2 * overlap} /\ 2 * overlap \in Int BY DEF Ramps
<1> HIDE DEF S
<1>2. 2 * overlap \in S /\ S \subseteq Int /\ \A y \in S : 2 * overlap <= y BY <1>1
<1>3. QED BY <1>2, LeastIs DEF S

\* The weight in the overlap with the chunk before.
LEMMA RampUp ==
  ASSUME NEW n \in Nat, NEW k \in Nat, NEW j \in Nat, NEW extent \in Nat, NEW overlap \in Nat \ {0},
         k > 0, j < overlap, k < n - 1 => j < extent - overlap
  PROVE  Min(Ramps(n, k, j, extent, overlap)) = 2 * j + 1
<1> DEFINE S == Ramps(n, k, j, extent, overlap)
           m == 2 * j + 1
<1>1. S = {2 * overlap, m} /\ m \in Int /\ 2 * overlap \in Int /\ m <= 2 * overlap BY DEF Ramps
<1> HIDE DEF S, m
<1>2. m \in S /\ S \subseteq Int /\ \A y \in S : m <= y BY <1>1
<1>3. QED BY <1>2, LeastIs DEF S, m

\* The weight in the overlap with the chunk behind.
LEMMA RampDown ==
  ASSUME NEW n \in Nat, NEW k \in Nat, NEW j \in Nat, NEW extent \in Nat, NEW overlap \in Nat \ {0},
         k < n - 1, k > 0 => j >= overlap, j >= extent - overlap
  PROVE  Min(Ramps(n, k, j, extent, overlap)) = 2 * (extent - j) - 1
<1> DEFINE S == Ramps(n, k, j, extent, overlap)
           m == 2 * (extent - j) - 1
<1>1. S = {2 * overlap, m} /\ m \in Int /\ 2 * overlap \in Int /\ m <= 2 * overlap BY DEF Ramps
<1> HIDE DEF S, m
<1>2. m \in S /\ S \subseteq Int /\ \A y \in S : m <= y BY <1>1
<1>3. QED BY <1>2, LeastIs DEF S, m

\* The chunks a latent is in.
Meets(n, at, stride, extent) == {k \in 0 .. n - 1 : at - k * stride \in 0 .. extent - 1}

\* Where a latent is in the chunk that begins last before it, and in those before.
Begins(at, stride, q, r) ==
  /\ q \in Nat /\ r \in 0 .. stride - 1 /\ at = stride * q + r
  /\ \A k \in Int : /\ at - k * stride = stride * (q - k) + r
                    /\ k > q => at - k * stride < 0
                    /\ k = q => at - k * stride = r
                    /\ k = q - 1 => at - k * stride = stride + r
                    /\ k < q - 1 => at - k * stride >= 2 * stride

\* The last chunk that could have a latent.
LEMMA LatentBegins ==
  ASSUME NEW at \in Nat, NEW stride \in Nat \ {0}
  PROVE  Begins(at, stride, at \div stride, at % stride)
<1> DEFINE q == at \div stride
           r == at % stride
<1>1. q \in Nat /\ r \in 0 .. stride - 1 /\ at = stride * q + r BY Divided, DividedNat
<1> HIDE DEF q, r
<1>2. ASSUME NEW k \in Int
      PROVE  /\ at - k * stride = stride * (q - k) + r
             /\ k > q => at - k * stride < 0
             /\ k = q => at - k * stride = r
             /\ k = q - 1 => at - k * stride = stride + r
             /\ k < q - 1 => at - k * stride >= 2 * stride
  <2> DEFINE d == q - k
             e == stride * d
  <2>1. stride * q \in Int /\ stride * k \in Int /\ k * stride = stride * k /\ e = stride * q - stride * k
        /\ e \in Int /\ d \in Int
    BY <1>1, Spread
  <2> HIDE DEF e
  <2>2. at - k * stride = e + r BY <1>1, <2>1
  <2>3. k > q => e <= stride * (-1) BY <1>1, <2>1, ProductBound DEF e
  <2>4. k = q => e = 0 BY <1>1, <2>1
  <2>5. k = q - 1 => e = stride
    <3>1. k = q - 1 => d = 1 BY <1>1
    <3>2. QED BY <3>1 DEF e
  <2>6. k < q - 1 => e >= stride * 2 BY <1>1, <2>1, ProductBound DEF e
  <2>7. QED BY <1>1, <2>1, <2>2, <2>3, <2>4, <2>5, <2>6 DEF e
<1>3. Begins(at, stride, q, r) BY <1>1, <1>2 DEF Begins
<1>4. QED BY <1>3 DEF q, r

\* Some chunk has it.
LEMMA SomeMeets ==
  ASSUME NEW full, NEW stride, NEW extent, NEW overlap, NEW n, Tiles(full, stride, extent, overlap, n),
         NEW at \in 0 .. full - 1
  PROVE  Meets(n, at, stride, extent) # {}
<1>1. /\ n \in Nat /\ n >= 2 /\ stride \in Nat \ {0} /\ extent \in Nat /\ overlap \in Nat \ {0}
      /\ extent = stride + overlap /\ full = stride * (n - 1) + extent /\ full \in Nat /\ at \in Nat
  BY DEF Tiles
<1> DEFINE q == at \div stride
           r == at % stride
           e == stride * (n - 1)
<1>2. Begins(at, stride, q, r) BY <1>1, LatentBegins
<1> HIDE DEF q, r
<1>3. e = (n - 1) * stride /\ e \in Int BY <1>1
<1>4. CASE q <= n - 1
  <2>1. q \in 0 .. n - 1 /\ at - q * stride \in 0 .. extent - 1 BY <1>1, <1>2, <1>4 DEF Begins
  <2>2. QED BY <2>1 DEF Meets
<1>5. CASE ~(q <= n - 1)
  <2>1. q \in Nat /\ r \in 0 .. stride - 1 /\ at = stride * q + r BY <1>2 DEF Begins
  <2>2. stride * (n - 1) <= stride * q /\ stride * q \in Int BY <1>1, <1>5, <2>1, ProductBound
  <2> HIDE DEF e
  <2>3. at - (n - 1) * stride \in 0 .. extent - 1 BY <1>1, <1>3, <2>1, <2>2 DEF e
  <2>4. n - 1 \in 0 .. n - 1 BY <1>1
  <2>5. QED BY <2>3, <2>4 DEF Meets
<1>6. QED BY <1>1, <1>2, <1>4, <1>5 DEF Begins

\* What ChunksTile promises of the weights at a latent.
AddsUp(sum, stride, overlap) == sum \in Nat \ {0} /\ (overlap <= stride => sum = 2 * overlap)

\* Where two chunks meet their weights add up to one, and elsewhere the one there is, is one.
LEMMA SumAt ==
  ASSUME NEW p, NEW full, NEW stride, NEW extent, NEW overlap, Tiles(full, stride, extent, overlap, p.chunks),
         NEW at \in 0 .. full - 1
  PROVE  AddsUp(PullOf(p, at, stride, extent, overlap, Meets(p.chunks, at, stride, extent)), stride, overlap)
<1> DEFINE n == p.chunks
           S == Meets(n, at, stride, extent)
           W(k) == Pull(p, at, stride, extent, overlap, k)
           q == at \div stride
           r == at % stride
           sum == PullOf(p, at, stride, extent, overlap, S)
<1>1. /\ n \in Nat /\ n >= 2 /\ stride \in Nat \ {0} /\ extent \in Nat /\ overlap \in Nat \ {0}
      /\ extent = stride + overlap /\ full = stride * (n - 1) + extent /\ full \in Nat /\ at \in Nat
  BY DEF Tiles
<1>2. Begins(at, stride, q, r) BY <1>1, LatentBegins
<1> HIDE DEF q, r, n
<1>3. IsFiniteSet(S) /\ S # {} /\ S \subseteq 0 .. n - 1
  <2>1. S \subseteq 0 .. n - 1 /\ 0 \in Int /\ n - 1 \in Int BY <1>1 DEF Meets
  <2>2. IsFiniteSet(0 .. n - 1) BY <2>1, FS_Interval
  <2>3. IsFiniteSet(S) BY <2>1, <2>2, FS_Subset
  <2>4. S # {} BY SomeMeets DEF n
  <2>5. QED BY <2>1, <2>3, <2>4
<1>4. ASSUME NEW k \in S
      PROVE  /\ W(k) \in Nat \ {0}
             /\ W(k) = Min(Ramps(n, k, at - k * stride, extent, overlap))
  <2> DEFINE j == at - k * stride
  <2>1. k \in Nat /\ j \in Int /\ j \in 0 .. extent - 1 BY <1>1, <1>3 DEF Meets
  <2> HIDE DEF j
  <2>2. IsWeight(Weight(p, k, j, extent, overlap), p.chunks, k, j, extent, overlap)
    <3>1. p.chunks \in Nat BY <1>1 DEF n
    <3>2. QED BY ONLY <1>1, <2>1, <3>1, WeightIsLeast
  <2>3. QED BY <2>2 DEF Pull, j, n, IsWeight
<1>5. PICK g : IsSumming(g, p, at, stride, extent, overlap, S) /\ sum = g[S] BY <1>3, SumExists
<1> HIDE DEF S, sum
<1>6. sum \in Nat \ {0}
  <2>1. \A k \in S : Pull(p, at, stride, extent, overlap, k) \in Nat \ {0} BY <1>4
  <2>2. QED BY ONLY <1>3, <1>5, <2>1, SumsAre
<1>7. ASSUME overlap <= stride PROVE sum = 2 * overlap
  <2>1. /\ q \in Nat /\ r \in 0 .. stride - 1 /\ at = stride * q + r
        /\ \A k \in Int : /\ k > q => at - k * stride < 0
                          /\ k = q => at - k * stride = r
                          /\ k = q - 1 => at - k * stride = stride + r
                          /\ k < q - 1 => at - k * stride >= 2 * stride
    BY <1>2 DEF Begins
  <2>2. extent <= 2 * stride /\ extent - overlap = stride BY <1>1, <1>7
  <2>3. \A k : k \in S <=> k \in 0 .. n - 1 /\ (k = q \/ (k = q - 1 /\ r < overlap))
    <3> SUFFICES ASSUME NEW k \in 0 .. n - 1
                 PROVE  at - k * stride \in 0 .. extent - 1 <=> (k = q \/ (k = q - 1 /\ r < overlap))
      BY DEF S, Meets
    <3> DEFINE j == at - k * stride
    <3>1. k \in Int /\ j \in Int BY <1>1
    <3>2. /\ k > q => j < 0
          /\ k = q => j = r
          /\ k = q - 1 => j = stride + r
          /\ k < q - 1 => j >= 2 * stride
      BY <2>1, <3>1
    <3> HIDE DEF j
    <3>3. j \in 0 .. extent - 1 <=> (k = q \/ (k = q - 1 /\ r < overlap))
      BY <1>1, <2>1, <2>2, <3>1, <3>2
    <3>4. QED BY <3>3 DEF j
  <2>4. CASE q \in 0 .. n - 1 /\ ~(q >= 1 /\ r < overlap)
    <3>1. S = {q} BY <1>1, <2>1, <2>3, <2>4
    <3>2. at - q * stride = r BY <2>1
    <3>3. W(q) = Min(Ramps(n, q, r, extent, overlap)) /\ W(q) \in Nat BY <1>4, <3>1, <3>2
    <3>4. Min(Ramps(n, q, r, extent, overlap)) = 2 * overlap
      <4>1. /\ q \in Nat /\ r \in Int
            /\ q > 0 => r >= overlap
            /\ q < n - 1 => r < extent - overlap
        BY <1>1, <2>1, <2>2, <2>4
      <4>2. QED BY ONLY <1>1, <4>1, Level
    <3>5. g[{q}] = W(q) BY ONLY <1>5, <3>1, <3>3, SumOfOne
    <3>6. QED BY <1>5, <3>1, <3>3, <3>4, <3>5
  <2>5. CASE q \in 0 .. n - 1 /\ q >= 1 /\ r < overlap
    <3>0. PICK o \in Nat : o = q - 1 BY <2>1, <2>5
    <3>1. S = {o, q} /\ o # q /\ o \in Nat BY <1>1, <2>1, <2>3, <2>5, <3>0
    <3>2. at - q * stride = r /\ at - o * stride = stride + r BY <2>1, <2>5, <3>0
    <3>3. W(q) = Min(Ramps(n, q, r, extent, overlap)) /\ W(q) \in Nat BY <1>4, <3>1, <3>2
    <3>4. W(o) = Min(Ramps(n, o, stride + r, extent, overlap)) /\ W(o) \in Nat BY <1>4, <3>1, <3>2
    <3>5. W(q) = 2 * r + 1
      <4>1. /\ q \in Nat /\ q > 0 /\ r \in Nat /\ r < overlap
            /\ q < n - 1 => r < extent - overlap
        BY <1>1, <2>1, <2>2, <2>5
      <4>2. Min(Ramps(n, q, r, extent, overlap)) = 2 * r + 1 BY ONLY <1>1, <4>1, RampUp
      <4>3. QED BY <3>3, <4>2
    <3>6. W(o) = 2 * (overlap - r) - 1
      <4>0. PICK j \in Nat : j = stride + r BY <1>1, <2>1
      <4>1. /\ o \in Nat /\ o < n - 1
            /\ o > 0 => j >= overlap
            /\ j >= extent - overlap
        BY <1>1, <1>7, <2>1, <2>2, <2>5, <3>0, <4>0
      <4>2. Min(Ramps(n, o, j, extent, overlap)) = 2 * (extent - j) - 1 BY ONLY <1>1, <4>1, RampDown
      <4>3. extent - j = overlap - r BY <1>1, <2>1, <4>0
      <4>4. QED BY <3>4, <4>0, <4>2, <4>3
    <3>7. g[{o, q}] = W(o) + W(q) BY ONLY <1>5, <3>1, <3>3, <3>4, SumOfTwo
    <3> HIDE DEF W
    <3>8. QED BY <1>1, <1>5, <2>1, <3>1, <3>5, <3>6, <3>7
  <2>6. CASE q \notin 0 .. n - 1
    <3>1. q = n /\ r < overlap
      <4>1. stride * n <= stride * q /\ stride * q \in Int /\ stride * n \in Int
        BY <1>1, <2>1, <2>6, ProductBound
      <4>2. stride * n = stride * (n - 1) + stride /\ stride * (n - 1) \in Int BY <1>1
      <4>3. at <= stride * (n - 1) + stride + overlap - 1 BY <1>1
      <4> DEFINE a == stride * n
                 b == stride * q
      <4>4. a + r <= b + r /\ b + r <= a + overlap - 1 /\ a \in Int /\ b \in Int
        BY <1>1, <2>1, <4>1, <4>2, <4>3
      <4>5. q < n + 1
        <5>1. SUFFICES ASSUME n + 1 <= q PROVE FALSE BY <1>1, <2>1
        <5>2. stride * (n + 1) <= b BY <1>1, <2>1, <5>1, ProductBound
        <5>3. stride * (n + 1) = a + stride BY <1>1
        <5> HIDE DEF a, b
        <5>4. QED BY <1>1, <1>7, <2>1, <4>4, <5>2, <5>3
      <4>6. q = n BY <1>1, <2>1, <2>6, <4>5
      <4>7. QED
        <5>1. a = b BY <4>6
        <5> HIDE DEF a, b
        <5>2. QED BY <1>1, <2>1, <4>4, <4>6, <5>1
    <3>0. PICK o \in Nat : o = q - 1 BY <1>1, <3>1
    <3>2. S = {o} /\ o = n - 1 /\ o \in Nat /\ o > 0 BY <1>1, <2>1, <2>3, <3>0, <3>1
    <3>3. at - o * stride = stride + r BY <2>1, <3>0, <3>2
    <3>4. W(o) = Min(Ramps(n, o, stride + r, extent, overlap)) /\ W(o) \in Nat BY <1>4, <3>2, <3>3
    <3>5. Min(Ramps(n, o, stride + r, extent, overlap)) = 2 * overlap
      <4>0. PICK j \in Int : j = stride + r BY <1>1, <2>1
      <4>1. /\ o \in Nat
            /\ o > 0 => j >= overlap
            /\ o < n - 1 => j < extent - overlap
        BY <1>1, <1>7, <2>1, <3>2, <4>0
      <4>2. Min(Ramps(n, o, j, extent, overlap)) = 2 * overlap BY ONLY <1>1, <4>1, Level
      <4>3. QED BY <4>0, <4>2
    <3>6. g[{o}] = W(o) BY ONLY <1>5, <3>2, <3>4, SumOfOne
    <3>7. QED BY <1>5, <3>2, <3>4, <3>5, <3>6
  <2>7. QED BY <2>4, <2>5, <2>6
<1>8. QED BY <1>6, <1>7 DEF AddsUp, sum, S, n

-----------------------------------------------------------------------------
(* The two clocks of chunks.                                               *)

\* The time from a multiple of five latent frames on.
LEMMA ElapsedFrom ==
  ASSUME NEW m \in Nat, NEW j \in Nat
  PROVE  Elapsed(5 * m + j) - Elapsed(5 * m) = Elapsed(j) /\ Elapsed(5 * m) = 85 * m /\ Elapsed(j) \in Int
<1> DEFINE q == j \div 5
           r == j % 5
<1>1. q \in Nat /\ r \in Nat /\ r < 5 /\ j = 5 * q + r BY Divided, DividedNat
<1> HIDE DEF q, r
<1>2. (5 * (m + q) + r) \div 5 = m + q /\ (5 * (m + q) + r) % 5 = r
  <2>1. m + q \in Int /\ 0 <= r /\ r < 5 /\ r \in Int BY <1>1
  <2>2. QED BY ONLY <2>1, 5 \in Nat \ {0}, DividedOnce
<1>3. (5 * m + 0) \div 5 = m /\ (5 * m + 0) % 5 = 0 BY DividedOnce
<1>4. 5 * m + j = 5 * (m + q) + r /\ 5 * m + 0 = 5 * m BY <1>1
<1>5. Elapsed(5 * m + j) = 85 * (m + q) + (IF r = 0 THEN 0 ELSE 20 * r - 15)
  BY <1>2, <1>4 DEF Elapsed
<1>6. Elapsed(5 * m) = 85 * m BY <1>3, <1>4 DEF Elapsed
<1>7. Elapsed(j) = 85 * q + (IF r = 0 THEN 0 ELSE 20 * r - 15) BY DEF Elapsed, q, r
<1>8. QED BY <1>1, <1>5, <1>6, <1>7

\* What a difference in tempo adds up to over d steps it has added up to at most so over fewer.
LEMMA DriftBound ==
  ASSUME NEW d \in Nat, NEW e \in Int, NEW k \in 0 .. d, d * e \in -2 .. 2
  PROVE  k * e \in -2 .. 2
<1>1. k \in Nat /\ d * e = e * d /\ k * e = e * k /\ k * e \in Int /\ d - k \in Nat OBVIOUS
<1> DEFINE x == d * e
           y == k * e
<1>2. CASE e >= 0
  <2>1. e * 0 <= e * k /\ e * k <= e * d BY <1>1, <1>2, ProductBound
  <2> HIDE DEF x, y
  <2>2. 0 <= y /\ y <= x BY <1>1, <2>1 DEF x, y
  <2>3. QED BY <1>1, <2>2 DEF x, y
<1>3. CASE ~(e >= 0)
  <2> DEFINE f == -e
  <2>1. f \in Nat /\ f * 0 <= f * k /\ f * k <= f * d
    <3>1. f \in Nat BY <1>3
    <3>2. QED BY <1>1, <3>1, ProductBound
  <2>2. f * k = -y /\ f * d = -x BY <1>1
  <2>3. f * 0 = 0 BY <2>1
  <2> HIDE DEF f, x, y
  <2>4. x \in -2 .. 2 /\ x \in Int /\ y \in Int BY <1>1 DEF x, y
  <2>5. y <= 0 /\ x <= y BY <2>1, <2>2, <2>3, <2>4
  <2>6. y \in -2 .. 2 BY <2>4, <2>5
  <2>7. QED BY <2>6 DEF y
<1>4. QED BY <1>2, <1>3

\* The two clocks of a chunk begin within a third of a latent.
LEMMA ClocksAgree ==
  ASSUME NEW p, IsPlan(p), NEW k \in 0 .. p.chunks - 1
  PROVE  /\ \A j \in 0 .. p.chunk.frames : Elapsed(k * p.stride + j) - Elapsed(k * p.stride) = Elapsed(j)
         /\ Elapsed(k * p.stride) - Clock * k * p.audioStride \in -2 .. 2
<1> DEFINE n == p.chunks
           s == p.stride
           a == p.audioStride
           d == n - 1
           q == s \div 5
           e == 85 * q - 3 * a
<1>1. PICK M, m : IsLong(p.full, M) /\ IsLong(p.chunk, m) BY DEF IsPlan
<1>2. PICK x \in 0 .. 5, y \in 0 .. 5 : 6 * p.full.audio + x = 170 * M + 53 /\ 6 * p.chunk.audio + y = 170 * m + 53
  BY <1>1 DEF IsLong
<1>3. /\ M \in Nat /\ m \in Nat /\ p.full.frames = 5 * M + 2 /\ p.chunk.frames = 5 * m + 2
      /\ p.full.audio \in Nat /\ p.chunk.audio \in Nat
  BY <1>1 DEF IsLong
<1>4. /\ n \in Nat /\ n >= 2 /\ s \in Nat \ {0} /\ a \in Nat \ {0} /\ s % 5 = 0
      /\ p.full.frames = s * (n - 1) + p.chunk.frames /\ p.full.audio = a * (n - 1) + p.chunk.audio
  BY DEF IsPlan, Tiles
<1>5. k \in Nat /\ k \in 0 .. d /\ d \in Nat BY <1>4
<1>6. q \in Nat /\ s = 5 * q BY <1>4, Divided, DividedNat
<1>7. p.full.frames = s * d + p.chunk.frames /\ p.full.audio = a * d + p.chunk.audio BY <1>4
<1> HIDE DEF n, s, a, d, q
<1>8. d * e \in -2 .. 2 /\ e \in Int
  <2> DEFINE b == q * d
             c == a * d
  <2>1. s * d = 5 * b /\ b \in Int /\ c \in Int /\ d * e = 85 * b - 3 * c /\ e \in Int
    BY <1>4, <1>5, <1>6
  <2> HIDE DEF b, c, e
  <2>2. 5 * M + 2 = 5 * b + (5 * m + 2) BY <1>3, <1>7, <2>1
  <2>3. p.full.audio = c + p.chunk.audio BY <1>7 DEF c
  <2>4. M = b + m BY <1>3, <2>1, <2>2
  <2>5. 170 * b - 6 * c = x - y BY <1>2, <1>3, <2>1, <2>3, <2>4
  <2>6. 85 * b - 3 * c \in -2 .. 2 BY <2>1, <2>5
  <2>7. QED BY <2>1, <2>6
<1>9. k * e \in -2 .. 2 BY <1>5, <1>8, DriftBound
<1> DEFINE t == k * q
<1>10. k * s = 5 * t /\ t \in Nat BY <1>5, <1>6
<1>11. 85 * t - Clock * k * a = k * e BY <1>4, <1>5, <1>6 DEF Clock
<1> HIDE DEF t, e
<1>12. Elapsed(k * s) = 85 * t
  <2>1. 0 \in Nat OBVIOUS
  <2>2. Elapsed(5 * t) = 85 * t BY <1>10, <2>1, ElapsedFrom
  <2>3. QED BY <1>10, <2>2
<1>13. Elapsed(k * s) - Clock * k * a \in -2 .. 2 BY <1>9, <1>11, <1>12
<1>14. ASSUME NEW j \in 0 .. p.chunk.frames PROVE Elapsed(k * s + j) - Elapsed(k * s) = Elapsed(j)
  <2>1. j \in Nat BY <1>3
  <2>2. Elapsed(5 * t + j) - Elapsed(5 * t) = Elapsed(j) BY <1>10, <2>1, ElapsedFrom
  <2>3. QED BY <1>10, <2>2
<1>15. QED BY <1>13, <1>14 DEF s, a

\* What a chunk slices of the noise is what it blends to.
LEMMA SlicesMeetBlends ==
  ASSUME NEW p, IsPlan(p), NEW k \in 0 .. p.chunks - 1, NEW c \in 0 .. 1
  PROVE  /\ \A j \in 0 .. p.chunk.frames - 1 :
              SlicedVideo(p, k, c, j) = c * p.full.frames + BlendedVideo(p, k, j)
         /\ \A j \in 0 .. p.chunk.audio - 1 : SlicedAudio(p, k, c, j) = BlendedAudio(p, k, c, j)
<1>1. /\ p.full.frames \in Nat /\ p.stride \in Nat /\ p.chunk.frames \in Nat /\ p.chunks \in Nat
  BY DEF IsPlan, Tiles
<1> DEFINE a == c * p.full.frames
           b == k * p.stride
<1>2. a \in Int /\ b \in Int BY <1>1
<1> HIDE DEF a, b
<1>3. \A j \in 0 .. p.chunk.frames - 1 : a + b + j = a + (b + j) BY <1>1, <1>2
<1>4. QED BY <1>3 DEF SlicedVideo, BlendedVideo, SlicedAudio, BlendedAudio, a, b

\* Chunks cover the request, add up and begin together.
LEMMA ChunksHold ==
  PackInv => ChunksTile
<1> SUFFICES ASSUME PackInv, IsChunked PROVE ChunksTile BY DEF ChunksTile
<1> DEFINE p == sequence
<1>1. job.kind = "chunks" /\ p # <<>> /\ p # Refused BY DEF IsChunked
<1>2. job # NoJob BY <1>1 DEF NoJob
<1>3. IsJob(job) /\ p = ChunkPlan(job.full, job.chunk, job.chunks) BY <1>1, <1>2 DEF PackInv
<1>4. /\ \E n \in 1 .. 4 * job.full.frames : job.full = Resolved(n)
      /\ \E n \in 1 .. 4 * job.chunk.frames : job.chunk = Resolved(n)
      /\ job.chunks \in Nat
  BY <1>1, <1>3 DEF IsJob
<1>5. PICK a \in Nat, b \in Nat : job.full = Resolved(a) /\ job.chunk = Resolved(b)
  <2>1. PICK a \in 1 .. 4 * job.full.frames : job.full = Resolved(a) BY <1>4
  <2>2. PICK b \in 1 .. 4 * job.chunk.frames : job.chunk = Resolved(b) BY <1>4
  <2>3. a \in Nat /\ b \in Nat OBVIOUS
  <2>4. QED BY <2>1, <2>2, <2>3
<1>6. IsPlan(p) BY <1>1, <1>3, <1>4, <1>5, PlansTile
<1> DEFINE whole(full, stride, extent, overlap) ==
             \A at \in 0 .. full - 1 :
               LET ks == Meets(p.chunks, at, stride, extent)
                   sum == PullOf(p, at, stride, extent, overlap, ks)
               IN sum > 0 /\ (Cardinality(ks) <= 2 /\ overlap <= stride => sum = 2 * overlap)
<1> HIDE DEF p
<1>7. ASSUME NEW full, NEW stride, NEW extent, NEW overlap, Tiles(full, stride, extent, overlap, p.chunks)
      PROVE  whole(full, stride, extent, overlap)
  <2> SUFFICES ASSUME NEW at \in 0 .. full - 1
               PROVE  LET sum == PullOf(p, at, stride, extent, overlap, Meets(p.chunks, at, stride, extent))
                      IN sum > 0 /\ (overlap <= stride => sum = 2 * overlap)
    OBVIOUS
  <2> DEFINE sum == PullOf(p, at, stride, extent, overlap, Meets(p.chunks, at, stride, extent))
  <2>1. AddsUp(sum, stride, overlap) BY <1>7, SumAt
  <2> HIDE DEF sum
  <2>2. sum > 0 /\ (overlap <= stride => sum = 2 * overlap) BY <2>1 DEF AddsUp
  <2>3. QED BY <2>2 DEF sum
<1>8. whole(p.full.frames, p.stride, p.chunk.frames, p.overlap)
  <2>1. Tiles(p.full.frames, p.stride, p.chunk.frames, p.overlap, p.chunks) BY <1>6 DEF IsPlan
  <2> HIDE DEF whole
  <2>2. QED BY <1>7, <2>1
<1>9. whole(p.full.audio, p.audioStride, p.chunk.audio, p.audioOverlap)
  <2>1. Tiles(p.full.audio, p.audioStride, p.chunk.audio, p.audioOverlap, p.chunks)
    BY <1>6 DEF IsPlan
  <2> HIDE DEF whole
  <2>2. QED BY <1>7, <2>1
<1>10. \A k \in 0 .. p.chunks - 1, c \in 0 .. 1 :
          /\ \A j \in 0 .. p.chunk.frames - 1 :
               SlicedVideo(p, k, c, j) = c * p.full.frames + BlendedVideo(p, k, j)
          /\ \A j \in 0 .. p.chunk.audio - 1 : SlicedAudio(p, k, c, j) = BlendedAudio(p, k, c, j)
  BY <1>6, SlicesMeetBlends
<1>11. \A k \in 0 .. p.chunks - 1 :
          /\ \A j \in 0 .. p.chunk.frames : Elapsed(k * p.stride + j) - Elapsed(k * p.stride) = Elapsed(j)
          /\ Elapsed(k * p.stride) - Clock * k * p.audioStride \in -2 .. 2
  BY <1>6, ClocksAgree
<1>12. QED BY <1>8, <1>9, <1>10, <1>11 DEF ChunksTile, PullOf, Meets, p

-----------------------------------------------------------------------------
(* Canvases and frames.                                                    *)

\* What lies between two integers is rounded to one between them.
LEMMA RoundsBetween ==
  ASSUME NEW p \in Nat, NEW q \in Nat \ {0}, NEW a \in Nat, NEW b \in Nat, a * q <= p, p <= b * q
  PROVE  RoundEven(p, q) \in a .. b
<1> DEFINE n == p \div q
           r == p % q
           x == q * a
           y == q * n
           z == q * b
<1>1. n \in Nat /\ r \in Nat /\ r < q /\ p = y + r BY Divided, DividedNat
<1>2. RoundEven(p, q) = IF 2 * r < q THEN n ELSE IF 2 * r > q THEN n + 1 ELSE n + (n % 2)
  <2>1. RoundEven(p, q) = CASE 2 * r < q -> n [] 2 * r > q -> n + 1 [] OTHER -> n + (n % 2)
    BY DEF RoundEven
  <2> HIDE DEF n, r
  <2>2. ~(2 * r < q /\ 2 * r > q) BY <1>1
  <2>3. QED BY ONLY <2>1, <2>2
<1> HIDE DEF n, r
<1>3. x \in Nat /\ y \in Nat /\ z \in Nat /\ x <= p /\ p <= z
  <2>1. a * q = q * a /\ b * q = q * b OBVIOUS
  <2>2. QED BY <1>1, <2>1
<1>4. a <= n
  <2>1. SUFFICES ASSUME n + 1 <= a PROVE FALSE BY <1>1
  <2>2. q * (n + 1) <= x /\ q * (n + 1) = y + q BY <1>1, <2>1, ProductBound
  <2> HIDE DEF x, y
  <2>3. QED BY <1>1, <1>3, <2>2
<1>5. r > 0 => n + 1 <= b
  <2>1. SUFFICES ASSUME r > 0, b <= n PROVE FALSE BY <1>1
  <2>2. z <= y BY <1>1, <2>1, ProductBound
  <2> HIDE DEF y, z
  <2>3. QED BY <1>1, <1>3, <2>1, <2>2
<1>6. n <= b
  <2>1. SUFFICES ASSUME b + 1 <= n PROVE FALSE BY <1>1
  <2>2. q * (b + 1) <= y /\ q * (b + 1) = z + q BY <1>1, <2>1, ProductBound
  <2> HIDE DEF y, z
  <2>3. QED BY <1>1, <1>3, <2>2
<1>7. n % 2 \in 0 .. 1 BY <1>1
<1>8. QED BY <1>1, <1>2, <1>4, <1>5, <1>6, <1>7

\* A rounded root.
IsRoot(n, p, q) ==
  /\ n \in Nat /\ (n = 0 \/ (2 * n - 1) * (2 * n - 1) * q <= 4 * p)
  /\ 4 * p < (2 * n + 1) * (2 * n + 1) * q

\* RoundRoot finds one.
LEMMA RootExists ==
  ASSUME NEW p \in Nat, NEW q \in Nat \ {0}
  PROVE  IsRoot(RoundRoot(p, q), p, q)
<1> DEFINE above == {n \in Nat : 4 * p < (2 * n + 1) * (2 * n + 1) * q}
<1>1. p \in above
  <2> DEFINE s == (2 * p + 1) * (2 * p + 1)
  <2>1. s \in Nat /\ s >= 4 * p + 1
    <3>1. s = 4 * (p * p) + 4 * p + 1 /\ p * p \in Nat OBVIOUS
    <3>2. QED BY <3>1
  <2> HIDE DEF s
  <2>2. s * 1 <= s * q BY <2>1, ProductBound
  <2>3. 4 * p < s * q BY <2>1, <2>2
  <2>4. QED BY <2>3 DEF s
<1>2. PICK n \in above : \A y \in above : n <= y BY <1>1, HasLeast
<1>3. n \in 0 .. p BY <1>1, <1>2
<1>4. n = 0 \/ (2 * n - 1) * (2 * n - 1) * q <= 4 * p
  <2>1. CASE n # 0
    <3> DEFINE k == n - 1
    <3>1. k \in Nat /\ k \notin above /\ 2 * k + 1 = 2 * n - 1 BY <1>2, <2>1
    <3>2. ~(4 * p < (2 * k + 1) * (2 * k + 1) * q) BY <3>1
    <3>3. (2 * k + 1) * (2 * k + 1) * q \in Int BY <3>1
    <3> DEFINE v == (2 * k + 1) * (2 * k + 1) * q
    <3>4. v = (2 * n - 1) * (2 * n - 1) * q BY <3>1
    <3> HIDE DEF v, k
    <3>5. v <= 4 * p BY <3>2, <3>3 DEF v
    <3>6. QED BY <3>4, <3>5
  <2>2. QED BY <2>1
<1>5. 4 * p < (2 * n + 1) * (2 * n + 1) * q BY <1>2
<1>6. /\ RoundRoot(p, q) \in 0 .. p
      /\ RoundRoot(p, q) = 0 \/ (2 * RoundRoot(p, q) - 1) * (2 * RoundRoot(p, q) - 1) * q <= 4 * p
      /\ 4 * p < (2 * RoundRoot(p, q) + 1) * (2 * RoundRoot(p, q) + 1) * q
  BY <1>3, <1>4, <1>5 DEF RoundRoot
<1>7. QED BY <1>6 DEF IsRoot

\* The root of what lies between two squares, all times four.
LEMMA RootBetween ==
  ASSUME NEW p \in Nat, NEW q \in Nat \ {0}, NEW a \in Nat, NEW b \in Nat, a * q <= 4 * p, 4 * p <= b * q,
         NEW n, IsRoot(n, p, q)
  PROVE  a < (2 * n + 1) * (2 * n + 1) /\ (n = 0 \/ (2 * n - 1) * (2 * n - 1) <= b)
<1> DEFINE u == (2 * n + 1) * (2 * n + 1)
           v == (2 * n - 1) * (2 * n - 1)
<1>1. n \in Nat /\ (n = 0 \/ v * q <= 4 * p) /\ 4 * p < u * q BY DEF IsRoot
<1>2. u \in Nat /\ v \in Nat BY <1>1
<1> HIDE DEF u, v
<1>3. q * u = u * q /\ q * v = v * q /\ q * a = a * q /\ q * b = b * q
      /\ q * u \in Int /\ q * v \in Int /\ q * a \in Int /\ q * b \in Int
  BY <1>2
<1>4. a < u
  <2>1. SUFFICES ASSUME u <= a PROVE FALSE BY <1>2
  <2>2. q * u <= q * a BY <1>2, <2>1, ProductBound
  <2>3. QED BY <1>1, <1>3, <2>2
<1>5. ASSUME n # 0 PROVE v <= b
  <2>1. SUFFICES ASSUME b + 1 <= v PROVE FALSE BY <1>2
  <2>2. q * (b + 1) <= q * v /\ q * (b + 1) = q * b + q BY <1>2, <2>1, ProductBound
  <2>3. QED BY <1>1, <1>3, <1>5, <2>2
<1>6. QED BY <1>4, <1>5 DEF u, v

\* A count that is at least one.
LEMMA AtLeastOne ==
  ASSUME NEW n \in Nat
  PROVE  Max({1, n}) = IF n >= 1 THEN n ELSE 1
<1> DEFINE S == {1, n}
           m == IF n >= 1 THEN n ELSE 1
<1>1. m \in S /\ S \subseteq Int /\ \A y \in S : m >= y OBVIOUS
<1> HIDE DEF m, S
<1>2. Max(S) = m BY <1>1, GreatestIs
<1>3. QED BY <1>2 DEF S, m

\* An edge of whole squares, and the other in the shape's proportion.
LEMMA FreeCanvas ==
  ASSUME NEW u \in Nat \ {0}, NEW long \in Nat \ {0}, NEW short \in Nat \ {0}, short <= long, long <= 4 * short
  PROVE  /\ Max({1, RoundEven(32 * u, 32)}) = u
         /\ Max({1, RoundEven(32 * u * long, 32 * short)}) \in u .. 4 * u
<1>1. RoundEven(32 * u, 32) = u
  <2>1. 32 * u \in Nat /\ 32 \in Nat \ {0} /\ u * 32 <= 32 * u /\ 32 * u <= u * 32 /\ u \in Nat
    OBVIOUS
  <2>2. RoundEven(32 * u, 32) \in u .. u BY ONLY <2>1, RoundsBetween
  <2>3. QED BY <2>2
<1> DEFINE e == 32 * u
           p == e * long
           q == 32 * short
           b == 4 * u
           n == RoundEven(p, q)
<1>2. p \in Nat /\ q \in Nat \ {0} /\ b \in Nat /\ u * q <= p /\ p <= b * q
  <2>1. e \in Nat /\ u * q = e * short /\ b * q = e * (4 * short) /\ q \in Nat \ {0} /\ b \in Nat
    OBVIOUS
  <2>2. e * short <= p /\ p <= e * (4 * short) /\ p \in Int /\ e * short \in Nat
    BY <2>1, ProductBound
  <2> HIDE DEF p
  <2>3. p \in Nat BY <2>1, <2>2
  <2>4. QED BY <2>1, <2>2, <2>3
<1> HIDE DEF p, q
<1>3. n \in u .. b BY <1>2, RoundsBetween
<1> HIDE DEF n
<1>4. Max({1, n}) = n
  <2>1. n \in Nat /\ n >= 1 BY <1>3
  <2>2. QED BY <2>1, AtLeastOne
<1>5. Max({1, u}) = u BY AtLeastOne
<1>6. Max({1, RoundEven(32 * u, 32)}) = u BY <1>1, <1>5
<1>7. QED BY <1>3, <1>4, <1>6 DEF n, p, q

\* A canvas of at most 1008 squares.
Limited(long, short) ==
  /\ Max({1, RoundRoot(1008 * short, long)}) \in 16 .. 32
  /\ Max({1, RoundRoot(1008 * long, short)}) \in 32 .. 63

\* A canvas that its area limits is valid.
LEMMA LimitedCanvas ==
  ASSUME NEW long \in Nat \ {0}, NEW short \in Nat \ {0}, short <= long, long <= 4 * short
  PROVE  Limited(long, short)
<1> DEFINE s == RoundRoot(1008 * short, long)
           l == RoundRoot(1008 * long, short)
<1>1. IsRoot(s, 1008 * short, long) /\ IsRoot(l, 1008 * long, short) BY RootExists
<1> HIDE DEF s, l
<1>2. s \in Nat /\ l \in Nat BY <1>1 DEF IsRoot
<1>3. 1008 < (2 * s + 1) * (2 * s + 1) /\ (s = 0 \/ (2 * s - 1) * (2 * s - 1) <= 4032)
  <2> DEFINE p == 1008 * short
  <2>1. p \in Nat /\ 1008 * long <= 4 * p /\ 4 * p <= 4032 * long /\ 1008 \in Nat /\ 4032 \in Nat
    OBVIOUS
  <2> HIDE DEF p
  <2>2. IsRoot(s, p, long) BY <1>1 DEF p
  <2>3. QED BY ONLY <2>1, <2>2, long \in Nat \ {0}, RootBetween
<1>4. 4032 < (2 * l + 1) * (2 * l + 1) /\ (l = 0 \/ (2 * l - 1) * (2 * l - 1) <= 16128)
  <2> DEFINE p == 1008 * long
  <2>1. p \in Nat /\ 4032 * short <= 4 * p /\ 4 * p <= 16128 * short /\ 16128 \in Nat /\ 4032 \in Nat
    OBVIOUS
  <2> HIDE DEF p
  <2>2. IsRoot(l, p, short) BY <1>1 DEF p
  <2>3. QED BY ONLY <2>1, <2>2, short \in Nat \ {0}, RootBetween
<1>5. s >= 16 /\ s <= 32
  <2>1. s >= 16
    <3>1. SUFFICES ASSUME s <= 15 PROVE FALSE BY <1>2
    <3>2. s \in 0 .. 15 BY <1>2, <3>1
    <3> DEFINE x == 2 * s + 1
    <3>3. x \in Nat /\ x <= 31 /\ 1008 < x * x BY <1>3, <3>2
    <3> HIDE DEF x
    <3>4. x * x <= x * 31 BY <3>3, ProductBound
    <3>5. QED BY <3>3, <3>4
  <2>2. s <= 32
    <3>1. SUFFICES ASSUME s >= 33 PROVE FALSE BY <1>2
    <3> DEFINE x == 2 * s - 1
    <3>2. x \in Nat /\ x >= 65 /\ x * x <= 4032 BY <1>2, <1>3, <3>1
    <3> HIDE DEF x
    <3>3. x * 65 <= x * x BY <3>2, ProductBound
    <3>4. QED BY <3>2, <3>3
  <2>3. QED BY <2>1, <2>2
<1>6. l >= 32 /\ l <= 63
  <2>1. l >= 32
    <3>1. SUFFICES ASSUME l <= 31 PROVE FALSE BY <1>2
    <3> DEFINE x == 2 * l + 1
    <3>3. x \in Nat /\ x <= 63 /\ 4032 < x * x BY <1>2, <1>4, <3>1
    <3> HIDE DEF x
    <3>4. x * x <= x * 63 BY <3>3, ProductBound
    <3>5. QED BY <3>3, <3>4
  <2>2. l <= 63
    <3>1. SUFFICES ASSUME l >= 64 PROVE FALSE BY <1>2
    <3> DEFINE x == 2 * l - 1
    <3>2. x \in Nat /\ x >= 127 /\ x * x <= 16128 BY <1>2, <1>4, <3>1
    <3> HIDE DEF x
    <3>3. x * 127 <= x * x BY <3>2, ProductBound
    <3>4. QED BY <3>2, <3>3
  <2>3. QED BY <2>1, <2>2
<1>7. Max({1, s}) = s /\ Max({1, l}) = l BY <1>2, <1>5, <1>6, AtLeastOne
<1>8. QED BY <1>2, <1>5, <1>6, <1>7 DEF s, l, Limited

\* A canvas that is not refused is valid.
LEMMA CanvasFits ==
  ASSUME NEW w \in Nat \ {0}, NEW h \in Nat \ {0}, NEW edge, NEW area,
         \E u \in Nat \ {0} : edge = 32 * u, area = 0 \/ (area = 1008 /\ edge = 768),
         ResolveCanvas(w, h, edge, area) # Refused
  PROVE  ValidCanvas(ResolveCanvas(w, h, edge, area))
<1> DEFINE wide == w >= h
           long == IF wide THEN w ELSE h
           short == IF wide THEN h ELSE w
           limited == area > 0 /\ edge * edge * long > area * 1024 * short
           s == Max({1, IF limited THEN RoundRoot(area * short, long) ELSE RoundEven(edge, 32)})
           l == Max({1, IF limited THEN RoundRoot(area * long, short) ELSE RoundEven(edge * long, 32 * short)})
           canvas == ResolveCanvas(w, h, edge, area)
<1>1. PICK u \in Nat \ {0} : edge = 32 * u OBVIOUS
<1>2. ~(w > 4 * h \/ h > 4 * w) /\ canvas = IF wide THEN [height |-> s, width |-> l] ELSE [height |-> l, width |-> s]
  <2> HIDE DEF s, l
  <2>1. canvas = IF w > 4 * h \/ h > 4 * w THEN Refused
                 ELSE IF wide THEN [height |-> s, width |-> l] ELSE [height |-> l, width |-> s]
    BY DEF ResolveCanvas, s, l
  <2>2. QED BY <2>1
<1>3. long \in Nat \ {0} /\ short \in Nat \ {0} /\ short <= long /\ long <= 4 * short BY <1>2
<1> HIDE DEF long, short
<1>4. s \in Nat \ {0} /\ l \in Nat \ {0} /\ l <= 4 * s /\ s <= 4 * l
  <2>1. CASE limited
    <3>1. area = 1008 BY <2>1
    <3>0. Limited(long, short) BY <1>3, LimitedCanvas
    <3>2. /\ Max({1, RoundRoot(1008 * short, long)}) \in 16 .. 32
          /\ Max({1, RoundRoot(1008 * long, short)}) \in 32 .. 63
      BY ONLY <3>0 DEF Limited
    <3>3. s = Max({1, RoundRoot(area * short, long)}) /\ l = Max({1, RoundRoot(area * long, short)})
      <4> HIDE DEF limited
      <4>1. QED BY <2>1
    <3> HIDE DEF s, l
    <3>4. s \in 16 .. 32 /\ l \in 32 .. 63 BY ONLY <3>1, <3>2, <3>3
    <3>5. QED BY <3>4
  <2>2. CASE ~limited
    <3>1. /\ Max({1, RoundEven(32 * u, 32)}) = u
          /\ Max({1, RoundEven(32 * u * long, 32 * short)}) \in u .. 4 * u
      BY ONLY <1>3, u \in Nat \ {0}, FreeCanvas
    <3>2. s = Max({1, RoundEven(edge, 32)}) /\ l = Max({1, RoundEven(edge * long, 32 * short)})
      <4> HIDE DEF limited
      <4>1. QED BY <2>2
    <3> HIDE DEF s, l
    <3>3. s = u /\ l \in u .. 4 * u BY ONLY <1>1, <3>1, <3>2
    <3>4. QED BY <3>3
  <2>3. QED BY <2>1, <2>2
<1> HIDE DEF s, l, canvas
<1>5. ValidCanvas(canvas) BY <1>2, <1>4 DEF ValidCanvas
<1>6. QED BY <1>5 DEF canvas

\* An edge that follows a video is a multiple of 32.
LEMMA FollowedIsWhole ==
  ASSUME NEW w \in Nat \ {0}, NEW h \in Nat \ {0}
  PROVE  \E u \in Nat \ {0} : FollowedEdge(w, h) = 32 * u
<1> DEFINE m == Min({w, h})
           d == m \div 32
<1>1. m \in Nat
  <2> DEFINE k == IF w <= h THEN w ELSE h
             S == {w, h}
  <2>1. k \in S /\ S \subseteq Int /\ \A y \in S : k <= y OBVIOUS
  <2> HIDE DEF S, k
  <2>2. Min(S) = k BY <2>1, LeastIs
  <2>3. QED BY <2>2 DEF S, k
<1> HIDE DEF m
<1>2. d \in Nat BY <1>1, DividedNat
<1> DEFINE u == IF d >= 1 THEN d ELSE 1
           S == {32, d * 32}
<1> HIDE DEF d
<1>3. 32 * u \in S /\ S \subseteq Int /\ \A y \in S : 32 * u >= y BY <1>2
<1>4. Max(S) = 32 * u
  <2> DEFINE k == 32 * u
  <2> HIDE DEF k, S
  <2>1. Max(S) = k BY <1>3, GreatestIs DEF k
  <2>2. QED BY <2>1 DEF k
<1>5. FollowedEdge(w, h) = Max(S) BY DEF FollowedEdge, d, m
<1>6. u \in Nat \ {0} BY <1>2
<1>7. QED BY <1>4, <1>5, <1>6

\* How many frames a request is given, and where its two clocks end.
LEMMA FramesFit ==
  ASSUME NEW n \in Nat \ {0}
  PROVE  /\ AlignNumFrames(n) >= n /\ AlignNumFrames(n) < n + (IF n < 5 THEN 5 ELSE 17)
         /\ \E m \in Nat : /\ AlignNumFrames(n) = 17 * m + 5
                           /\ VideoLatentNumFrames(AlignNumFrames(n)) = 5 * m + 2
<1> DEFINE k == n - 5 + 16
           q == k \div 17
           r == k % 17
           m == IF n <= 5 THEN 0 ELSE q
           aligned == AlignNumFrames(n)
<1>1. n > 5 => k \in Nat OBVIOUS
<1>2. n > 5 => q \in Nat /\ r \in Nat /\ r < 17 /\ k = 17 * q + r BY <1>1, Divided, DividedNat
<1>3. aligned = 17 * m + 5 BY DEF AlignNumFrames
<1> HIDE DEF q, r
<1>4. m \in Nat BY <1>2
<1>5. aligned >= n /\ aligned < n + (IF n < 5 THEN 5 ELSE 17)
  <2>1. CASE n <= 5 BY <1>3, <2>1
  <2>2. CASE ~(n <= 5)
    <3>1. n - 5 + 16 = 17 * q + r /\ q \in Nat /\ r \in Nat /\ r < 17 /\ aligned = 17 * q + 5
      BY <1>2, <1>3, <2>2
    <3> HIDE DEF aligned
    <3>2. QED BY <2>2, <3>1
  <2>3. QED BY <2>1, <2>2
<1> HIDE DEF m, aligned
<1>6. VideoLatentNumFrames(aligned) = 5 * m + 2
  <2>1. (17 * m + 0) \div 17 = m BY <1>4, DividedOnce
  <2>2. (aligned - 5) \div 17 = m BY <1>3, <1>4, <2>1
  <2>3. QED BY <1>4, <2>2 DEF VideoLatentNumFrames
<1>7. QED BY <1>3, <1>4, <1>5, <1>6 DEF aligned

\* The two clocks of an aligned duration end within half an audio latent.
LEMMA SoundFits ==
  ASSUME NEW m \in Nat
  PROVE  /\ Elapsed(5 * m + 2) = 5 * (17 * m + 5)
         /\ Clock * AudioLatentsForFrames(17 * m + 5) - 5 * (17 * m + 5) \in -1 .. 1
<1> DEFINE k == 170 * m + 53
           a == k \div 6
           r == k % 6
<1>1. a \in Nat /\ r \in Nat /\ r < 6 /\ k = 6 * a + r BY Divided, DividedNat
<1>2. AudioLatentsForFrames(17 * m + 5) = a
  <2>1. 10 * (17 * m + 5) + 3 = k OBVIOUS
  <2> HIDE DEF k
  <2>2. QED BY <2>1 DEF AudioLatentsForFrames
<1> HIDE DEF a, r
\* No tie: twice as far, an odd number is six times a number and a remainder.
<1>3. 3 * a - 5 * (17 * m + 5) \in -1 .. 1 BY <1>1
<1>4. Elapsed(2) = 25
  <2>1. (5 * 0 + 2) \div 5 = 0 /\ (5 * 0 + 2) % 5 = 2 BY DividedOnce
  <2>2. QED BY <2>1 DEF Elapsed
<1>5. Elapsed(5 * m + 2) = 85 * m + 25
  <2>1. Elapsed(5 * m + 2) - Elapsed(5 * m) = Elapsed(2) /\ Elapsed(5 * m) = 85 * m /\ Elapsed(2) \in Int
    BY ElapsedFrom
  <2> DEFINE x == Elapsed(5 * m + 2)
  <2>2. x \in Int BY <2>1, ElapsedGrows, 5 * m + 2 \in Nat
  <2> HIDE DEF x
  <2>3. x = 85 * m + 25 BY <1>4, <2>1, <2>2 DEF x
  <2>4. QED BY <2>3 DEF x
<1>6. QED BY <1>2, <1>3, <1>5 DEF Clock

\* A canvas is one the request may have, and a duration one the codec has.
LEMMA CanvasesHold ==
  PackInv => CanvasIsValid
<1> SUFFICES ASSUME PackInv, sequence # <<>> PROVE CanvasIsValid BY DEF CanvasIsValid
<1>1. ASSUME job.kind = "canvas", sequence # Refused PROVE ValidCanvas(sequence)
  <2>1. IsJob(job) /\ sequence = ChosenCanvas(job) BY <1>1 DEF PackInv, NoJob
  <2> DEFINE w == job.width
             h == job.height
  <2>2. w \in Nat \ {0} /\ h \in Nat \ {0} /\ job.follows \in BOOLEAN BY <1>1, <2>1 DEF IsJob
  <2> HIDE DEF w, h
  <2>3. CASE job.follows
    <3>1. sequence = ResolveCanvas(w, h, FollowedEdge(w, h), 0) BY <2>1, <2>3 DEF ChosenCanvas, w, h
    <3> DEFINE e == FollowedEdge(w, h)
    <3>2. \E u \in Nat \ {0} : e = 32 * u BY <2>2, FollowedIsWhole
    <3> HIDE DEF e
    <3>3. ResolveCanvas(w, h, e, 0) # Refused BY <1>1, <3>1 DEF e
    <3>4. ValidCanvas(ResolveCanvas(w, h, e, 0)) BY ONLY <2>2, <3>2, <3>3, CanvasFits
    <3>5. QED BY <3>1, <3>4 DEF e
  <2>4. CASE ~job.follows
    <3>1. sequence = ResolveCanvas(w, h, 768, 1008) BY <2>1, <2>4 DEF ChosenCanvas, w, h
    <3>2. \E u \in Nat \ {0} : 768 = 32 * u
      <4>1. 24 \in Nat \ {0} /\ 768 = 32 * 24 OBVIOUS
      <4>2. QED BY <4>1
    <3>3. ValidCanvas(ResolveCanvas(w, h, 768, 1008))
      <4>1. ResolveCanvas(w, h, 768, 1008) # Refused BY <1>1, <3>1
      <4>2. QED BY ONLY <2>2, <3>2, <4>1, CanvasFits
    <3>4. QED BY <3>1, <3>3
  <2>5. QED BY <2>3, <2>4
<1>2. ASSUME job.kind = "frames"
      PROVE  /\ sequence.frames >= job.frames /\ sequence.frames < job.frames + (IF job.frames < 5 THEN 5 ELSE 17)
             /\ Elapsed(sequence.video) = 5 * sequence.frames
             /\ Clock * sequence.audio - 5 * sequence.frames \in -1 .. 1
  <2>1. IsJob(job) /\ sequence = AlignedFrames(job) BY <1>2 DEF PackInv, NoJob
  <2> DEFINE n == job.frames
             aligned == AlignNumFrames(n)
  <2>2. n \in Nat \ {0} BY <1>2, <2>1 DEF IsJob
  <2>3. /\ sequence.frames = aligned /\ sequence.video = VideoLatentNumFrames(aligned)
        /\ sequence.audio = AudioLatentsForFrames(aligned)
    BY <2>1 DEF AlignedFrames
  <2> HIDE DEF n
  <2>4. aligned >= n /\ aligned < n + (IF n < 5 THEN 5 ELSE 17)
        /\ \E m \in Nat : aligned = 17 * m + 5 /\ VideoLatentNumFrames(aligned) = 5 * m + 2
    BY <2>2, FramesFit
  <2>5. PICK m \in Nat : aligned = 17 * m + 5 /\ VideoLatentNumFrames(aligned) = 5 * m + 2 BY <2>4
  <2>6. /\ Elapsed(5 * m + 2) = 5 * (17 * m + 5)
        /\ Clock * AudioLatentsForFrames(17 * m + 5) - 5 * (17 * m + 5) \in -1 .. 1
    BY SoundFits
  <2> HIDE DEF aligned
  <2>7. QED BY <2>3, <2>4, <2>5, <2>6 DEF n
<1>3. QED BY <1>1, <1>2 DEF CanvasIsValid

-----------------------------------------------------------------------------
(* Times in order.                                                         *)

\* Times, and lists of them in order.
Pairs == Int \X Int
IsAscending(u) == \A i, j \in DOMAIN u : i < j => Precedes(u[i], u[j])
Sorted(u, S) == u \in [1 .. Cardinality(S) -> S] /\ IsAscending(u)

\* Times are ordered.
LEMMA PairsAreOrdered ==
  ASSUME NEW p \in Pairs, NEW q \in Pairs, NEW r \in Pairs
  PROVE  /\ p = q \/ Precedes(p, q) \/ Precedes(q, p)
         /\ ~(Precedes(p, q) /\ Precedes(q, p)) /\ ~Precedes(p, p)
         /\ Precedes(p, q) /\ Precedes(q, r) => Precedes(p, r)
BY DEF Pairs, Precedes

\* Some time is the last.
LEMMA LastPair ==
  ASSUME NEW n \in Nat
  PROVE  \A S \in SUBSET Pairs :
           IsFiniteSet(S) /\ Cardinality(S) = n + 1 => \E m \in S : \A y \in S : y = m \/ Precedes(y, m)
<1> DEFINE HasLast(S) == \E m \in S : \A y \in S : y = m \/ Precedes(y, m)
           Good == {k \in 0 .. n : \A S \in SUBSET Pairs : IsFiniteSet(S) /\ Cardinality(S) = k + 1 => HasLast(S)}
<1>1. 0 \in Good
  <2> SUFFICES ASSUME NEW S \in SUBSET Pairs, IsFiniteSet(S), Cardinality(S) = 0 + 1 PROVE HasLast(S)
    OBVIOUS
  <2>1. Cardinality(S) = 1 OBVIOUS
  <2>2. PICK x : S = {x} BY <2>1, FS_Singleton
  <2>3. QED BY <2>2
<1>2. ASSUME NEW k \in 0 .. n - 1, k \in Good PROVE k + 1 \in Good
  <2> SUFFICES ASSUME NEW S \in SUBSET Pairs, IsFiniteSet(S), Cardinality(S) = (k + 1) + 1 PROVE HasLast(S)
    OBVIOUS
  <2>1. S # {} BY FS_EmptySet
  <2>2. PICK x \in S : TRUE BY <2>1
  <2> DEFINE R == S \ {x}
  <2>3. IsFiniteSet(R) /\ Cardinality(R) = Cardinality(S) - 1 BY FS_RemoveElement
  <2>4. Cardinality(R) = k + 1 /\ R \in SUBSET Pairs BY <2>3
  <2>5. HasLast(R)
    <3> HIDE DEF R, HasLast
    <3>1. QED BY <1>2, <2>3, <2>4
  <2>6. PICK m \in R : \A y \in R : y = m \/ Precedes(y, m) BY <2>5
  <2>7. CASE Precedes(x, m)
    <3>1. \A y \in S : y = m \/ Precedes(y, m) BY <2>6, <2>7
    <3>2. QED BY <3>1
  <2>8. CASE ~Precedes(x, m)
    <3>1. x \in Pairs /\ m \in Pairs /\ m # x OBVIOUS
    <3>2. Precedes(m, x) BY <2>8, <3>1, PairsAreOrdered
    <3>3. \A y \in S : y = x \/ Precedes(y, x)
      <4> SUFFICES ASSUME NEW y \in S, y # x PROVE Precedes(y, x) OBVIOUS
      <4>1. y \in Pairs /\ (y = m \/ Precedes(y, m)) BY <2>6
      <4>2. QED BY <3>1, <3>2, <4>1, PairsAreOrdered
    <3>4. QED BY <3>3
  <2>9. QED BY <2>7, <2>8
<1>3. n \in Good
  <2> HIDE DEF Good
  <2>1. \A k \in 0 .. n : k \in Good BY <1>1, <1>2, Reaches
  <2>2. QED BY <2>1
<1>4. QED BY <1>3

\* Any finite set of times can be listed in order.
LEMMA SortedExists ==
  ASSUME NEW S \in SUBSET Pairs, IsFiniteSet(S)
  PROVE  \E u : Sorted(u, S)
<1> DEFINE n == Cardinality(S)
           Good == {k \in 0 .. n : \A R \in SUBSET Pairs : IsFiniteSet(R) /\ Cardinality(R) = k => \E u : Sorted(u, R)}
<1>0. n \in Nat BY FS_CardinalityType
<1> HIDE DEF n
<1>1. 0 \in Good
  <2> SUFFICES ASSUME NEW R \in SUBSET Pairs, IsFiniteSet(R), Cardinality(R) = 0 PROVE \E u : Sorted(u, R)
    BY <1>0
  <2>1. << >> \in [1 .. Cardinality(R) -> R] /\ IsAscending(<< >>) BY DEF IsAscending
  <2>2. QED BY <2>1 DEF Sorted
<1>2. ASSUME NEW k \in 0 .. n - 1, k \in Good PROVE k + 1 \in Good
  <2>0. k \in Nat BY <1>0
  <2> SUFFICES ASSUME NEW R \in SUBSET Pairs, IsFiniteSet(R), Cardinality(R) = k + 1 PROVE \E u : Sorted(u, R)
    BY <1>0
  <2>1. PICK m \in R : \A y \in R : y = m \/ Precedes(y, m) BY <2>0, LastPair
  <2> DEFINE T == R \ {m}
  <2>2. IsFiniteSet(T) /\ Cardinality(T) = Cardinality(R) - 1 BY FS_RemoveElement
  <2>3. Cardinality(T) = k /\ T \in SUBSET Pairs BY <2>0, <2>2
  <2>4. PICK u : Sorted(u, T)
    <3> HIDE DEF T
    <3>1. QED BY <1>2, <2>2, <2>3
  <2>5. u \in [1 .. k -> T] /\ IsAscending(u) BY <2>3, <2>4 DEF Sorted
  <2> DEFINE v == [i \in 1 .. k + 1 |-> IF i <= k THEN u[i] ELSE m]
  <2>6. v \in [1 .. k + 1 -> R]
    <3> SUFFICES ASSUME NEW i \in 1 .. k + 1 PROVE (IF i <= k THEN u[i] ELSE m) \in R OBVIOUS
    <3>1. i <= k => i \in 1 .. k BY <2>0
    <3>2. QED BY <2>5, <3>1
  <2>7. IsAscending(v)
    <3> SUFFICES ASSUME NEW i \in 1 .. k + 1, NEW j \in 1 .. k + 1, i < j PROVE Precedes(v[i], v[j])
      BY DEF IsAscending
    <3>1. i \in 1 .. k /\ v[i] = u[i] BY <2>0
    <3>2. CASE j <= k
      <4>1. j \in 1 .. k /\ v[j] = u[j] BY <2>0, <3>2
      <4> HIDE DEF v
      <4>2. QED BY <2>5, <3>1, <4>1 DEF IsAscending
    <3>3. CASE ~(j <= k)
      <4>1. v[j] = m BY <3>3
      <4>2. u[i] \in R /\ u[i] # m BY <2>5, <3>1
      <4> HIDE DEF v
      <4>3. QED BY <2>1, <3>1, <4>1, <4>2
    <3>4. QED BY <3>2, <3>3
  <2>8. Sorted(v, R) BY <2>6, <2>7 DEF Sorted
  <2>9. QED BY <2>8
<1>3. n \in Good
  <2> HIDE DEF Good
  <2>1. \A k \in 0 .. n : k \in Good BY <1>0, <1>1, <1>2, Reaches
  <2>2. QED BY <1>0, <2>1
<1>4. QED BY <1>3 DEF n

\* So Ascending lists it.
LEMMA AscendingIsSorted ==
  ASSUME NEW S \in SUBSET Pairs, IsFiniteSet(S)
  PROVE  Sorted(Ascending(S), S)
<1>1. \E u \in [1 .. Cardinality(S) -> S] : \A i, j \in DOMAIN u : i < j => Precedes(u[i], u[j])
  BY SortedExists DEF Sorted, IsAscending
<1>2. QED BY <1>1 DEF Ascending, Sorted, IsAscending

\* A sorted sequence has every element of its set, in one place.
LEMMA SortedIsWhole ==
  ASSUME NEW S \in SUBSET Pairs, IsFiniteSet(S), NEW u, Sorted(u, S)
  PROVE  /\ DOMAIN u = 1 .. Cardinality(S) /\ Cardinality(S) \in Nat /\ Len(u) = Cardinality(S)
         /\ \A x \in S : \E i \in DOMAIN u : u[i] = x
         /\ \A i, j \in DOMAIN u : u[i] = u[j] => i = j
<1> DEFINE n == Cardinality(S)
<1>1. n \in Nat BY FS_CardinalityType
<1>2. u \in [1 .. n -> S] /\ IsAscending(u) BY DEF Sorted
<1> HIDE DEF n
<1>3. ASSUME NEW i \in 1 .. n, NEW j \in 1 .. n, u[i] = u[j] PROVE i = j
  <2>1. u[i] \in Pairs BY <1>2
  <2>2. ~Precedes(u[i], u[j]) /\ ~Precedes(u[j], u[i]) BY <1>3, <2>1, PairsAreOrdered
  <2>3. i < j \/ j < i \/ i = j BY <1>1
  <2>4. QED BY <1>2, <2>2, <2>3 DEF IsAscending
<1>4. u \in Injection(1 .. n, S) BY <1>2, <1>3 DEF Injection, IsInjective
<1>5. IsFiniteSet(1 .. n) /\ Cardinality(1 .. n) = n
  <2>1. 1 \in Int /\ n \in Int BY <1>1
  <2>2. IsFiniteSet(1 .. n) /\ Cardinality(1 .. n) = IF 1 > n THEN 0 ELSE n - 1 + 1
    BY ONLY <2>1, FS_Interval
  <2>3. QED BY <1>1, <2>2
<1>6. u \in Surjection(1 .. n, S) BY <1>4, <1>5, FS_Injection DEF n
<1>7. \A x \in S : \E i \in 1 .. n : u[i] = x BY <1>6 DEF Surjection
<1>8. Len(u) = n /\ DOMAIN u = 1 .. n BY <1>1, <1>2
<1>9. QED BY <1>1, <1>3, <1>7, <1>8 DEF n

\* One time, listed.
LEMMA AscendingOfOne ==
  ASSUME NEW p \in Pairs
  PROVE  Ascending({p}) = <<p>>
<1>1. {p} \in SUBSET Pairs /\ IsFiniteSet({p}) /\ Cardinality({p}) = 1 BY FS_Singleton
<1> DEFINE u == Ascending({p})
<1>2. Sorted(u, {p}) BY <1>1, AscendingIsSorted
<1> HIDE DEF u
<1>3. u \in [1 .. 1 -> {p}] BY <1>1, <1>2 DEF Sorted
<1>4. u = <<p>> BY <1>3
<1>5. QED BY <1>4 DEF u

\* Two times, listed.
LEMMA AscendingOfTwo ==
  ASSUME NEW p \in Pairs, NEW q \in Pairs, Precedes(p, q)
  PROVE  Ascending({p, q}) = <<p, q>>
<1>1. p # q /\ ~Precedes(q, p) /\ ~Precedes(p, p) /\ ~Precedes(q, q) BY PairsAreOrdered
<1>2. {p, q} \in SUBSET Pairs /\ IsFiniteSet({p, q}) /\ Cardinality({p, q}) = 2
  <2>1. IsFiniteSet({p}) /\ Cardinality({p}) = 1 BY FS_Singleton
  <2>2. q \notin {p} /\ {p} \cup {q} = {p, q} BY <1>1
  <2>3. IsFiniteSet({p} \cup {q}) /\ Cardinality({p} \cup {q}) = Cardinality({p}) + 1
    BY <2>1, <2>2, FS_AddElement
  <2>4. QED BY <2>1, <2>2, <2>3
<1> DEFINE u == Ascending({p, q})
<1>3. Sorted(u, {p, q}) BY <1>2, AscendingIsSorted
<1> HIDE DEF u
<1>4. u \in [1 .. 2 -> {p, q}] /\ IsAscending(u) BY <1>2, <1>3 DEF Sorted
<1>5. Precedes(u[1], u[2]) BY <1>4 DEF IsAscending
<1>6. u[1] = p /\ u[2] = q BY <1>1, <1>4, <1>5
<1>7. u = <<p, q>> BY <1>4, <1>6
<1>8. QED BY <1>7 DEF u

\* How many times there can be.
LEMMA FourAtMost ==
  ASSUME NEW S, NEW a, NEW b, NEW c, NEW d, S \subseteq {a, b, c, d}
  PROVE  /\ IsFiniteSet(S) /\ Cardinality(S) \in 0 .. 4
         /\ S \subseteq {a, b, c} => Cardinality(S) \in 0 .. 3
<1>1. IsFiniteSet({a}) /\ Cardinality({a}) = 1 BY FS_Singleton
<1>2. IsFiniteSet({a, b}) /\ Cardinality({a, b}) \in {1, 2}
  <2>1. {a, b} = {a} \cup {b} OBVIOUS
  <2>2. QED BY <1>1, <2>1, FS_AddElement
<1>3. IsFiniteSet({a, b, c}) /\ Cardinality({a, b, c}) \in {1, 2, 3}
  <2>1. {a, b, c} = {a, b} \cup {c} OBVIOUS
  <2>2. QED BY <1>2, <2>1, FS_AddElement
<1>4. IsFiniteSet({a, b, c, d}) /\ Cardinality({a, b, c, d}) \in {1, 2, 3, 4}
  <2>1. {a, b, c, d} = {a, b, c} \cup {d} OBVIOUS
  <2>2. QED BY <1>3, <2>1, FS_AddElement
<1>5. IsFiniteSet(S) /\ Cardinality(S) <= Cardinality({a, b, c, d}) /\ Cardinality(S) \in Nat
  <2>1. S \in SUBSET {a, b, c, d} OBVIOUS
  <2>2. IsFiniteSet(S) /\ Cardinality(S) <= Cardinality({a, b, c, d}) BY ONLY <1>4, <2>1, FS_Subset
  <2>3. QED BY <2>2, FS_CardinalityType
<1>6. ASSUME S \subseteq {a, b, c} PROVE Cardinality(S) <= Cardinality({a, b, c})
  <2>1. S \in SUBSET {a, b, c} BY <1>6
  <2>2. QED BY ONLY <1>3, <2>1, FS_Subset
<1>7. QED BY <1>3, <1>4, <1>5, <1>6

\* The sorted distinct times of the rows, and which of them a row has.
HasTimes(x, times, tags, n) ==
  /\ Len(x.unique) \in Nat \ {0} /\ DOMAIN x.unique = 1 .. Len(x.unique)
  /\ DOMAIN x.indices = 1 .. n /\ DOMAIN x.adaln = 1 .. n
  /\ IsTuple(x.unique, Len(x.unique)) /\ IsTuple(x.indices, n) /\ IsTuple(x.adaln, n)
  /\ \A row \in 1 .. n : /\ x.indices[row] \in 0 .. Len(x.unique) - 1
                         /\ x.unique[x.indices[row] + 1] = times[row]
                         /\ x.adaln[row] = 3 * x.indices[row] + tags[row]
  /\ IsAscending(x.unique)
  /\ ToSet(x.unique) = ToSet(times)
  /\ ToSet(x.indices) = 0 .. Len(x.unique) - 1

\* Indexed gives every row its time.
LEMMA IndexedHasTimes ==
  ASSUME NEW s, NEW n \in Nat \ {0}, NEW times \in [1 .. n -> Pairs], IsFiniteSet(ToSet(times)),
         s.tags \in [1 .. n -> 0 .. 2]
  PROVE  HasTimes(Indexed(s, times), times, s.tags, n) /\ Len(Indexed(s, times).unique) = Cardinality(ToSet(times))
<1> DEFINE S == ToSet(times)
           u == Ascending(S)
           x == Indexed(s, times)
           index(row) == (CHOOSE k \in DOMAIN u : u[k] = times[row]) - 1
           m == Cardinality(S)
<1>1. S \in SUBSET Pairs /\ \A row \in 1 .. n : times[row] \in S BY DEF ToSet
<1>2. \A y \in S : \E row \in 1 .. n : times[row] = y BY DEF ToSet
<1>3. x.unique = u /\ x.indices = [row \in 1 .. n |-> index(row)]
      /\ x.adaln = [row \in 1 .. n |-> 3 * index(row) + LargerTag(s.tags[row])]
  BY DEF Indexed
<1> HIDE DEF S, u, x
<1>4. /\ DOMAIN u = 1 .. m /\ m \in Nat /\ Len(u) = m
      /\ \A y \in S : \E i \in DOMAIN u : u[i] = y
      /\ \A i, j \in DOMAIN u : u[i] = u[j] => i = j
      /\ u \in [1 .. m -> S] /\ IsAscending(u)
  <2>1. Sorted(u, S) BY <1>1, AscendingIsSorted DEF S, u
  <2>2. IsFiniteSet(S) BY DEF S
  <2>3. /\ DOMAIN u = 1 .. m /\ m \in Nat /\ Len(u) = m
        /\ \A y \in S : \E i \in DOMAIN u : u[i] = y
        /\ \A i, j \in DOMAIN u : u[i] = u[j] => i = j
    BY <1>1, <2>1, <2>2, SortedIsWhole
  <2>4. QED BY <2>1, <2>3 DEF Sorted
<1>5. ASSUME NEW row \in 1 .. n
      PROVE  index(row) + 1 \in 1 .. m /\ u[index(row) + 1] = times[row]
  <2> DEFINE k == CHOOSE k \in DOMAIN u : u[k] = times[row]
  <2>1. k \in DOMAIN u /\ u[k] = times[row] BY <1>1, <1>4
  <2> HIDE DEF k
  <2>2. k \in 1 .. m /\ (k - 1) + 1 = k BY <1>4, <2>1
  <2>3. QED BY <2>1, <2>2 DEF k
<1>6. m # 0
  <2>1. 1 \in 1 .. n OBVIOUS
  <2>2. S # {} BY <1>1, <2>1
  <2>3. QED BY <1>4, <2>2
<1> HIDE DEF index, m
<1>7. \A row \in 1 .. n : index(row) \in 0 .. m - 1
  <2> SUFFICES ASSUME NEW row \in 1 .. n PROVE index(row) \in 0 .. m - 1 OBVIOUS
  <2>1. index(row) + 1 \in 1 .. m BY <1>5
  <2>2. index(row) = (CHOOSE k \in DOMAIN u : u[k] = times[row]) - 1 /\ \E k \in DOMAIN u : u[k] = times[row]
    BY <1>1, <1>4 DEF index
  <2> DEFINE k == CHOOSE k \in DOMAIN u : u[k] = times[row]
  <2>3. k \in 1 .. m BY <1>4, <2>2
  <2> HIDE DEF k
  <2>4. k - 1 \in 0 .. m - 1 BY <1>4, <2>3
  <2>5. QED BY <2>2, <2>4 DEF k
<1>8. ToSet(x.unique) = S BY <1>3, <1>4 DEF ToSet
<1>9. ToSet(x.indices) = 0 .. m - 1
  <2>1. ASSUME NEW i \in 0 .. m - 1 PROVE \E row \in 1 .. n : index(row) = i
    <3>1. i + 1 \in 1 .. m BY <1>4
    <3>2. u[i + 1] \in S BY <1>4, <3>1
    <3>3. PICK row \in 1 .. n : times[row] = u[i + 1] BY <1>2, <3>2
    <3>4. u[index(row) + 1] = u[i + 1] /\ index(row) + 1 \in DOMAIN u /\ i + 1 \in DOMAIN u
      BY <1>4, <1>5, <3>1, <3>3
    <3>5. index(row) + 1 = i + 1 BY <1>4, <3>4
    <3>6. index(row) \in 0 .. m - 1 BY <1>7
    <3>7. QED BY <1>4, <3>5, <3>6
  <2>2. \A row \in 1 .. n : x.indices[row] = index(row) BY <1>3
  <2>3. DOMAIN x.indices = 1 .. n BY <1>3
  <2>4. QED BY SMTT(30), <1>7, <2>1, <2>2, <2>3 DEF ToSet
<1>10. \A row \in 1 .. n : LargerTag(s.tags[row]) = s.tags[row] BY DEF LargerTag
<1>11. \A row \in 1 .. n : /\ x.indices[row] \in 0 .. m - 1
                           /\ u[x.indices[row] + 1] = times[row]
                           /\ x.adaln[row] = 3 * x.indices[row] + s.tags[row]
  BY <1>3, <1>5, <1>7, <1>10
<1>12. HasTimes(x, times, s.tags, n)
  <2>1. m \in Nat \ {0} BY <1>4, <1>6
  <2>2. Len(x.unique) = m /\ DOMAIN x.unique = 1 .. m /\ DOMAIN x.indices = 1 .. n /\ DOMAIN x.adaln = 1 .. n
    BY <1>3, <1>4
  <2>3. IsAscending(x.unique) /\ ToSet(x.unique) = ToSet(times) BY <1>3, <1>4, <1>8 DEF S
  <2>4. IsTuple(x.unique, m) /\ IsTuple(x.indices, n) /\ IsTuple(x.adaln, n)
    BY <1>3, <1>4 DEF IsTuple
  <2>5. QED BY ONLY <1>3, <1>9, <1>11, <2>1, <2>2, <2>3, <2>4 DEF HasTimes
<1>13. QED BY <1>3, <1>4, <1>12 DEF x, m, S

-----------------------------------------------------------------------------
(* The time of a row.                                                      *)

\* The time of a row, by where it is.
RowTime(s, video, audio, conditionVideo, conditionAudio, row) ==
  IF row < s.layout.text \/ row >= VideoStart(s.layout) THEN video
  ELSE IF row >= AudioStart(s.layout) THEN audio
  ELSE IF row \in ToSet(s.sound) THEN conditionAudio ELSE conditionVideo

\* The first rows of a list are those that are not the target's.
ListSplits(u, c, first, n) == {u[i] : i \in 1 .. Min({c, Len(u)})} = ToSet(u) \ (first .. first + n - 1)

\* So the first rows of a list are the references'.
LEMMA ListIsSplit ==
  ASSUME NEW u \in Seq(Nat), Increasing(u), NEW c \in Nat, NEW n \in Nat, NEW first \in Nat, Len(u) = c + n,
         \A i \in 1 .. n : u[c + i] = first + i - 1
  PROVE  ListSplits(u, c, first, n)
<1> DEFINE m == Min({c, Len(u)})
<1>1. m = c
  <2> DEFINE S == {c, Len(u)}
  <2>1. c \in S /\ S \subseteq Int /\ \A y \in S : c <= y OBVIOUS
  <2> HIDE DEF S
  <2>2. Min(S) = c BY <2>1, LeastIs
  <2>3. QED BY <2>2 DEF S
<1> HIDE DEF m
<1>2. DOMAIN u = 1 .. c + n /\ \A i \in 1 .. c + n : u[i] \in Nat OBVIOUS
<1>3. \A i, j \in 1 .. c + n : i < j => u[i] < u[j] BY DEF Increasing
<1>4. ASSUME NEW i \in 1 .. c PROVE i \in DOMAIN u /\ u[i] \notin first .. first + n - 1
  <2>1. i \in 1 .. c + n OBVIOUS
  <2>2. ASSUME u[i] \in first .. first + n - 1 PROVE FALSE
    <3> DEFINE x == u[i]
               j == x - first + 1
    <3>0. x \in first .. first + n - 1 BY <2>2
    <3> HIDE DEF x
    <3>1. j \in 1 .. n /\ c + j \in 1 .. c + n /\ i < c + j /\ first + j - 1 = x BY <3>0
    <3> HIDE DEF j
    <3>2. u[c + j] = u[i] BY <3>1 DEF x
    <3>3. u[i] < u[c + j] /\ u[i] \in Nat BY <1>2, <1>3, <2>1, <3>1
    <3>4. QED BY <3>2, <3>3
  <2>3. QED BY <1>2, <2>1, <2>2
<1>5. ASSUME NEW i \in 1 .. c + n, u[i] \notin first .. first + n - 1 PROVE i \in 1 .. c
  <2>1. ASSUME i > c PROVE FALSE
    <3> DEFINE j == i - c
    <3>1. j \in 1 .. n /\ i = c + j BY <2>1
    <3> HIDE DEF j
    <3>2. u[i] = first + j - 1 BY <3>1
    <3>3. QED BY <1>5, <3>1, <3>2
  <2>2. QED BY <2>1
<1>6. {u[i] : i \in 1 .. c} = ToSet(u) \ (first .. first + n - 1) BY <1>2, <1>4, <1>5 DEF ToSet
<1>7. QED BY <1>1, <1>6 DEF ListSplits, m

\* RowTimes gives every row this time.
LEMMA RowTimesAre ==
  ASSUME NEW s, NEW text, Ordered(s, text), NEW video, NEW audio, NEW conditionVideo, NEW conditionAudio
  PROVE  /\ DOMAIN RowTimes(s, video, audio, conditionVideo, conditionAudio) = 1 .. TotalRows(s.layout)
         /\ \A row \in 0 .. TotalRows(s.layout) - 1 :
              RowTimes(s, video, audio, conditionVideo, conditionAudio)[row + 1]
                = RowTime(s, video, audio, conditionVideo, conditionAudio, row)
<1> DEFINE l == s.layout
           A == AudioStart(l)
           V == VideoStart(l)
           E == TotalRows(l)
           seen == {s.video[i] : i \in 1 .. Min({l.conditionVideo, Len(s.video)})}
           heard == {s.sound[i] : i \in 1 .. Min({l.conditionAudio, Len(s.sound)})}
           time(row) == CASE row \in ToSet(s.sound) \ heard -> audio
                          [] row \in heard -> conditionAudio
                          [] row \in seen -> conditionVideo
                          [] OTHER -> video
           times == RowTimes(s, video, audio, conditionVideo, conditionAudio)
<1>1. times = [row \in 1 .. E |-> time(row - 1)] BY DEF RowTimes
<1>2. IsLayout(l) BY DEF Ordered
<1>3. /\ A \in Nat /\ V \in Nat /\ E \in Nat /\ l.text \in Nat /\ 2 * l.audio \in Nat /\ VideoRows(l) \in Nat
      /\ l.conditionAudio \in Nat /\ l.conditionVideo \in Nat
      /\ A = l.text + l.conditionVideo + l.conditionAudio /\ V = A + 2 * l.audio /\ E = V + VideoRows(l)
  BY <1>2, LayoutNumbers DEF IsLayout
<1>4. /\ s.sound \in Seq(Nat) /\ Increasing(s.sound) /\ Len(s.sound) = l.conditionAudio + 2 * l.audio
      /\ s.video \in Seq(Nat) /\ Increasing(s.video) /\ Len(s.video) = l.conditionVideo + VideoRows(l)
      /\ ToSet(s.sound) \cap ToSet(s.video) = {}
      /\ ToSet(s.sound) \cup ToSet(s.video) = l.text .. E - 1
      /\ \A i \in 1 .. 2 * l.audio : s.sound[l.conditionAudio + i] = A + i - 1
      /\ \A i \in 1 .. VideoRows(l) : s.video[l.conditionVideo + i] = V + i - 1
  BY DEF Ordered
<1> HIDE DEF A, V, E, l, times, seen, heard
<1>5. heard = ToSet(s.sound) \ (A .. V - 1)
  <2>1. ListSplits(s.sound, l.conditionAudio, A, 2 * l.audio)
    <3> DEFINE n == 2 * l.audio
    <3>1. n \in Nat /\ Len(s.sound) = l.conditionAudio + n
          /\ \A i \in 1 .. n : s.sound[l.conditionAudio + i] = A + i - 1
      BY <1>3, <1>4
    <3> HIDE DEF n
    <3>2. ListSplits(s.sound, l.conditionAudio, A, n) BY ONLY <1>3, <1>4, <3>1, ListIsSplit
    <3>3. QED BY <3>2 DEF n
  <2>2. A + 2 * l.audio - 1 = V - 1 BY <1>3
  <2>3. QED BY <2>1, <2>2 DEF ListSplits, heard, l
<1>6. seen = ToSet(s.video) \ (V .. E - 1)
  <2>1. ListSplits(s.video, l.conditionVideo, V, VideoRows(l))
    <3> DEFINE n == VideoRows(l)
    <3> HIDE DEF n
    <3>1. n \in Nat /\ Len(s.video) = l.conditionVideo + n
          /\ \A i \in 1 .. n : s.video[l.conditionVideo + i] = V + i - 1
      BY <1>3, <1>4 DEF n
    <3>2. ListSplits(s.video, l.conditionVideo, V, n) BY ONLY <1>3, <1>4, <3>1, ListIsSplit
    <3>3. QED BY <3>2 DEF n
  <2>2. V + VideoRows(l) - 1 = E - 1 BY <1>3
  <2>3. QED BY <2>1, <2>2 DEF ListSplits, seen, l
<1>7. A .. V - 1 \subseteq ToSet(s.sound) /\ V .. E - 1 \subseteq ToSet(s.video)
  <2>1. ASSUME NEW row \in A .. V - 1 PROVE row \in ToSet(s.sound)
    <3> DEFINE i == row - A + 1
               c == l.conditionAudio
               n == 2 * l.audio
               m == Len(s.sound)
    <3>0. n \in Nat /\ c \in Nat /\ V = A + n /\ m = c + n BY <1>3, <1>4
    <3> HIDE DEF c, n, m
    <3>1. i \in 1 .. n /\ c + i \in 1 .. m /\ A + i - 1 = row BY <1>3, <3>0
    <3> HIDE DEF i
    <3>2. s.sound[c + i] = row /\ c + i \in DOMAIN s.sound BY <1>4, <3>1 DEF c, n, m
    <3>3. QED BY <3>2 DEF ToSet
  <2>2. ASSUME NEW row \in V .. E - 1 PROVE row \in ToSet(s.video)
    <3> DEFINE i == row - V + 1
               c == l.conditionVideo
               n == VideoRows(l)
               m == Len(s.video)
    <3>0. n \in Nat /\ c \in Nat /\ E = V + n /\ m = c + n BY <1>3, <1>4
    <3> HIDE DEF c, n, m
    <3>1. i \in 1 .. n /\ c + i \in 1 .. m /\ V + i - 1 = row BY <1>3, <3>0
    <3> HIDE DEF i
    <3>2. s.video[c + i] = row /\ c + i \in DOMAIN s.video BY <1>4, <3>1 DEF c, n, m
    <3>3. QED BY <3>2 DEF ToSet
  <2>3. QED BY <2>1, <2>2
<1>8. ASSUME NEW row \in 0 .. E - 1
      PROVE  times[row + 1] = RowTime(s, video, audio, conditionVideo, conditionAudio, row)
  <2>1. times[row + 1] = time(row)
    <3>1. row + 1 \in 1 .. E /\ (row + 1) - 1 = row BY <1>3
    <3> HIDE DEF time
    <3>2. QED BY <1>1, <3>1
  <2>2. CASE row < l.text \/ row >= V
    <3>1. row \notin ToSet(s.sound) /\ row \notin seen /\ row \notin heard
      BY <1>3, <1>4, <1>5, <1>6, <1>7, <2>2
    <3>2. QED BY <2>1, <2>2, <3>1 DEF RowTime, V, l
  <2>3. CASE row >= A /\ row < V
    <3>1. row \in ToSet(s.sound) /\ row \notin heard /\ ~(row < l.text) BY <1>3, <1>5, <1>7, <2>3
    <3>2. row \notin ToSet(s.video) /\ row \notin seen BY <1>4, <1>6, <3>1
    <3>3. row \in ToSet(s.sound) \ heard /\ ~(row >= V) BY <1>3, <2>3, <3>1
    <3>4. times[row + 1] = audio BY <2>1, <3>1, <3>2, <3>3
    <3>5. QED BY <2>3, <3>1, <3>3, <3>4 DEF RowTime, V, A, l
  <2>4. CASE row >= l.text /\ row < A
    <3>0. A <= V /\ row \in l.text .. E - 1 BY <1>3, <2>4
    <3>1. row \in ToSet(s.sound) \cup ToSet(s.video) /\ row \notin A .. V - 1 /\ row \notin V .. E - 1
          /\ ~(row < l.text) /\ ~(row >= V) /\ ~(row >= A)
      <4>1. row \in ToSet(s.sound) \cup ToSet(s.video) BY <1>4, <3>0
      <4>2. row \notin A .. V - 1 /\ row \notin V .. E - 1 /\ ~(row < l.text) /\ ~(row >= V) /\ ~(row >= A)
        BY <1>3, <2>4, <3>0
      <4>3. QED BY <4>1, <4>2
    <3>2. CASE row \in ToSet(s.sound)
      <4>1. row \in heard /\ row \notin ToSet(s.video) /\ row \notin seen
        BY <1>4, <1>5, <1>6, <3>1, <3>2
      <4>2. times[row + 1] = conditionAudio BY <2>1, <4>1
      <4>3. QED BY <3>1, <3>2, <4>2 DEF RowTime, V, A, l
    <3>3. CASE row \notin ToSet(s.sound)
      <4>1. row \in seen /\ row \notin heard BY <1>5, <1>6, <3>1, <3>3
      <4>2. times[row + 1] = conditionVideo BY <2>1, <3>3, <4>1
      <4>3. QED BY <3>1, <3>3, <4>2 DEF RowTime, V, A, l
    <3>4. QED BY <3>2, <3>3
  <2>5. QED BY <1>3, <2>2, <2>3, <2>4
<1>9. DOMAIN times = 1 .. E BY <1>1
<1>10. QED BY <1>8, <1>9 DEF times, E, l

-----------------------------------------------------------------------------
(* Without references one comparison a row is enough.                      *)

\* The rows of the target's audio.
TargetSound(s) == AudioStart(s.layout) .. VideoStart(s.layout) - 1

\* They are the rows that TwoTimes overrides.
LEMMA OnlyTheTarget ==
  ASSUME NEW s, NEW text, Ordered(s, text), s.layout.conditionVideo = 0, s.layout.conditionAudio = 0
  PROVE  LET l == s.layout
             kept == Min({IF l.explicit THEN l.conditionAudio ELSE l.conditionVideo, Len(s.sound)})
             overridden == {s.sound[i] : i \in kept + 1 .. Len(s.sound)}
         IN /\ overridden = AudioStart(l) .. VideoStart(l) - 1
            /\ overridden # {} => TotalRows(l) > Cardinality(overridden)
            /\ AudioStart(l) = l.text
<1> DEFINE l == s.layout
           A == AudioStart(l)
           V == VideoStart(l)
           E == TotalRows(l)
           n == 2 * l.audio
           kept == Min({IF l.explicit THEN l.conditionAudio ELSE l.conditionVideo, Len(s.sound)})
           D == {s.sound[i] : i \in kept + 1 .. Len(s.sound)}
<1>1. IsLayout(l) BY DEF Ordered
<1>2. /\ A \in Nat /\ V \in Nat /\ E \in Nat /\ n \in Nat /\ A = l.text /\ V = A + n /\ E > V
  <2>1. /\ A \in Nat /\ V \in Nat /\ E \in Nat /\ n \in Nat /\ l.text \in Nat /\ VideoRows(l) \in Nat \ {0}
        /\ A = l.text + l.conditionVideo + l.conditionAudio /\ V = A + n /\ E = V + VideoRows(l)
    BY <1>1, LayoutNumbers DEF IsLayout
  <2> HIDE DEF A, V, E, n
  <2>2. QED BY <2>1 DEF l
<1>3. s.sound \in Seq(Nat) /\ Len(s.sound) = n /\ \A i \in 1 .. n : s.sound[i] = A + i - 1
  <2>1. /\ s.sound \in Seq(Nat) /\ Len(s.sound) = 0 + n
        /\ \A i \in 1 .. n : s.sound[0 + i] = A + i - 1
    BY DEF Ordered
  <2> HIDE DEF n, A
  <2>2. n \in Nat /\ \A i \in 1 .. n : 0 + i = i BY <1>2
  <2>3. QED BY <2>1, <2>2
<1> HIDE DEF A, V, E, n
<1>4. kept = 0
  <2> DEFINE S == {0, n}
  <2>1. 0 \in S /\ S \subseteq Int /\ \A y \in S : 0 <= y BY <1>2
  <2>2. S = {IF l.explicit THEN l.conditionAudio ELSE l.conditionVideo, Len(s.sound)} BY <1>3
  <2> HIDE DEF S
  <2>3. Min(S) = 0 BY <2>1, LeastIs
  <2>4. QED BY <2>2, <2>3
<1> HIDE DEF kept
<1>5. D = A .. V - 1
  <2>1. kept + 1 = 1 BY <1>4
  <2>2. D = {s.sound[i] : i \in 1 .. n} BY <1>3, <2>1
  <2>3. ASSUME NEW row \in A .. V - 1 PROVE row - A + 1 \in 1 .. n /\ A + (row - A + 1) - 1 = row
    BY <1>2
  <2>4. \A i \in 1 .. n : s.sound[i] \in A .. V - 1
    <3> SUFFICES ASSUME NEW i \in 1 .. n PROVE s.sound[i] \in A .. V - 1 OBVIOUS
    <3>1. A + i - 1 \in A .. V - 1 BY <1>2
    <3>2. s.sound[i] = A + i - 1 BY <1>3
    <3>3. QED BY <3>1, <3>2
  <2>5. \A row \in A .. V - 1 : \E i \in 1 .. n : s.sound[i] = row
    <3> SUFFICES ASSUME NEW row \in A .. V - 1 PROVE \E i \in 1 .. n : s.sound[i] = row OBVIOUS
    <3> DEFINE i == row - A + 1
    <3>1. i \in 1 .. n /\ A + i - 1 = row BY <1>2, <2>3
    <3> HIDE DEF i
    <3>2. QED BY <1>3, <3>1
  <2>6. QED BY <2>2, <2>4, <2>5
<1>6. D # {} => E > Cardinality(D)
  <2>1. A \in Int /\ V - 1 \in Int BY <1>2
  <2>2. Cardinality(A .. V - 1) = IF A > V - 1 THEN 0 ELSE (V - 1) - A + 1 BY ONLY <2>1, FS_Interval
  <2> DEFINE c == Cardinality(A .. V - 1)
  <2>3. c = IF A > V - 1 THEN 0 ELSE (V - 1) - A + 1 BY <2>2
  <2> HIDE DEF c
  <2>4. c < E BY <1>2, <2>3
  <2>5. QED BY <1>2, <1>5, <2>3, <2>4 DEF c
<1>7. QED BY <1>2, <1>5, <1>6 DEF A, V, E, kept

\* How TwoTimes and Indexed build what they return.
Timed(unique, indices, tags, n) ==
  [unique |-> unique, indices |-> indices, adaln |-> [row \in 1 .. n |-> 3 * indices[row] + LargerTag(tags[row])]]

\* What TwoTimes returns.
LEMMA TwoTimesIs ==
  ASSUME NEW s, NEW text, Ordered(s, text), s.layout.conditionVideo = 0, s.layout.conditionAudio = 0,
         NEW video \in Int, NEW audio \in Int
  PROVE  TwoTimes(s, video, audio) =
           Timed(IF TargetSound(s) = {} \/ audio = video THEN << <<video, 0>> >>
                 ELSE IF audio < video THEN << <<audio, 0>>, <<video, 0>> >> ELSE << <<video, 0>>, <<audio, 0>> >>,
                 [row \in 1 .. TotalRows(s.layout) |->
                    IF TargetSound(s) = {} \/ audio = video THEN 0
                    ELSE IF (row - 1 \in TargetSound(s)) = (video < audio) THEN 1 ELSE 0],
                 s.tags, TotalRows(s.layout))
<1> DEFINE l == s.layout
           n == TotalRows(l)
           kept == Min({IF l.explicit THEN l.conditionAudio ELSE l.conditionVideo, Len(s.sound)})
           overridden == {s.sound[i] : i \in kept + 1 .. Len(s.sound)}
           both == overridden # {} /\ n > Cardinality(overridden)
           unique == CASE ~both -> IF overridden = {} THEN <<video>> ELSE <<audio>>
                       [] both /\ audio < video -> <<audio, video>>
                       [] both /\ video < audio -> <<video, audio>>
                       [] OTHER -> <<video>>
           index(row) == IF Len(unique) = 2 /\ ((row \in overridden) = (video < audio)) THEN 1 ELSE 0
           D == TargetSound(s)
           u == IF D = {} \/ audio = video THEN << <<video, 0>> >>
                ELSE IF audio < video THEN << <<audio, 0>>, <<video, 0>> >> ELSE << <<video, 0>>, <<audio, 0>> >>
           at(row) == IF D = {} \/ audio = video THEN 0
                      ELSE IF (row - 1 \in D) = (video < audio) THEN 1 ELSE 0
<1>1. TwoTimes(s, video, audio) =
        [unique |-> [k \in DOMAIN unique |-> <<unique[k], 0>>],
         indices |-> [row \in 1 .. n |-> index(row - 1)],
         adaln |-> [row \in 1 .. n |-> 3 * index(row - 1) + LargerTag(s.tags[row])]]
  BY DEF TwoTimes
<1>2. overridden = D /\ (overridden # {} => n > Cardinality(overridden))
  BY OnlyTheTarget DEF TargetSound
<1> HIDE DEF overridden, D, n
<1>3. both <=> D # {} BY <1>2
<1> HIDE DEF both
<1>4. unique = IF D = {} \/ audio = video THEN <<video>>
               ELSE IF audio < video THEN <<audio, video>> ELSE <<video, audio>>
  <2>1. CASE D = {}
    <3>1. overridden = {} /\ ~both BY <1>2, <1>3, <2>1
    <3>2. QED BY <2>1, <3>1
  <2>2. CASE D # {}
    <3>1. both /\ ~(audio < video /\ video < audio) /\ (audio < video \/ video < audio \/ audio = video)
          /\ (audio = video => ~(audio < video) /\ ~(video < audio))
      BY <1>3, <2>2
    <3>2. QED BY <2>2, <3>1
  <2>3. QED BY <2>1, <2>2
<1> HIDE DEF unique
<1>5. [k \in DOMAIN unique |-> <<unique[k], 0>>] = u
  <2>1. CASE D = {} \/ audio = video BY <1>4, <2>1
  <2>2. CASE ~(D = {} \/ audio = video) /\ audio < video BY <1>4, <2>2
  <2>3. CASE ~(D = {} \/ audio = video) /\ ~(audio < video) BY <1>4, <2>3
  <2>4. QED BY <2>1, <2>2, <2>3
<1>6. \A row : index(row - 1) = at(row)
  <2>1. CASE D = {} \/ audio = video
    <3>1. Len(unique) = 1 BY <1>4, <2>1
    <3>2. QED BY <2>1, <3>1
  <2>2. CASE ~(D = {} \/ audio = video)
    <3>1. Len(unique) = 2 BY <1>4, <2>2
    <3>2. QED BY <1>2, <2>2, <3>1
  <2>3. QED BY <2>1, <2>2
<1> HIDE DEF index, at, u
<1>7. TwoTimes(s, video, audio) = Timed(u, [row \in 1 .. n |-> at(row)], s.tags, n)
  <2>1. [row \in 1 .. n |-> index(row - 1)] = [row \in 1 .. n |-> at(row)] BY <1>6
  <2>2. [row \in 1 .. n |-> 3 * index(row - 1) + LargerTag(s.tags[row])]
          = [row \in 1 .. n |-> 3 * at(row) + LargerTag(s.tags[row])]
    BY <1>6
  <2>3. \A row \in 1 .. n : [r \in 1 .. n |-> at(r)][row] = at(row) OBVIOUS
  <2>4. [row \in 1 .. n |-> 3 * at(row) + LargerTag(s.tags[row])]
          = [row \in 1 .. n |-> 3 * [r \in 1 .. n |-> at(r)][row] + LargerTag(s.tags[row])]
    BY <2>3
  <2>5. QED BY <1>1, <1>5, <2>1, <2>2, <2>4 DEF Timed
<1>8. QED BY <1>7 DEF u, at, n, D

\* What Indexed returns for one time.
LEMMA IndexedByOne ==
  ASSUME NEW s, NEW n \in Nat \ {0}, NEW p \in Pairs, NEW times \in [1 .. n -> {p}]
  PROVE  Indexed(s, times) = Timed(<<p>>, [row \in 1 .. n |-> 0], s.tags, n)
<1> DEFINE u == Ascending(ToSet(times))
           index(row) == (CHOOSE k \in DOMAIN u : u[k] = times[row]) - 1
           zero == [row \in 1 .. n |-> 0]
<1>1. 1 \in 1 .. n /\ DOMAIN times = 1 .. n /\ \A row \in 1 .. n : times[row] = p OBVIOUS
<1>2. ToSet(times) = {p} BY <1>1 DEF ToSet
<1>3. u = <<p>> BY <1>2, AscendingOfOne
<1>4. Indexed(s, times) = [unique |-> u, indices |-> [row \in DOMAIN times |-> index(row)],
                           adaln |-> [row \in DOMAIN times |-> 3 * index(row) + LargerTag(s.tags[row])]]
  BY DEF Indexed
<1> HIDE DEF u
<1>5. \A row \in 1 .. n : index(row) = 0
  <2> SUFFICES ASSUME NEW row \in 1 .. n PROVE index(row) = 0 OBVIOUS
  <2> DEFINE k == CHOOSE k \in DOMAIN u : u[k] = times[row]
  <2>1. 1 \in DOMAIN u /\ u[1] = times[row] /\ \A i \in DOMAIN u : i = 1 BY <1>1, <1>3
  <2>2. k \in DOMAIN u BY <2>1
  <2> HIDE DEF k
  <2>3. k - 1 = 0 BY <2>1, <2>2
  <2>4. QED BY <2>3 DEF k
<1> HIDE DEF index
<1>6. [row \in DOMAIN times |-> index(row)] = zero BY <1>1, <1>5
<1>7. [row \in DOMAIN times |-> 3 * index(row) + LargerTag(s.tags[row])]
        = [row \in 1 .. n |-> 3 * zero[row] + LargerTag(s.tags[row])]
  BY <1>1, <1>5
<1>8. QED BY <1>3, <1>4, <1>6, <1>7 DEF Timed

\* And for two.
LEMMA IndexedByTwo ==
  ASSUME NEW s, NEW n \in Nat, NEW p \in Pairs, NEW q \in Pairs, Precedes(p, q), NEW times \in [1 .. n -> {p, q}],
         \E row \in 1 .. n : times[row] = p, \E row \in 1 .. n : times[row] = q
  PROVE  Indexed(s, times) = Timed(<<p, q>>, [row \in 1 .. n |-> IF times[row] = q THEN 1 ELSE 0], s.tags, n)
<1> DEFINE u == Ascending(ToSet(times))
           index(row) == (CHOOSE k \in DOMAIN u : u[k] = times[row]) - 1
           at(row) == IF times[row] = q THEN 1 ELSE 0
           ats == [row \in 1 .. n |-> at(row)]
<1>0. p # q BY PairsAreOrdered
<1>1. DOMAIN times = 1 .. n /\ \A row \in 1 .. n : times[row] \in {p, q} OBVIOUS
<1>2. ToSet(times) = {p, q} BY <1>1 DEF ToSet
<1>3. u = <<p, q>> BY <1>2, AscendingOfTwo
<1>4. Indexed(s, times) = [unique |-> u, indices |-> [row \in DOMAIN times |-> index(row)],
                           adaln |-> [row \in DOMAIN times |-> 3 * index(row) + LargerTag(s.tags[row])]]
  BY DEF Indexed
<1> HIDE DEF u
<1>5. \A row \in 1 .. n : index(row) = at(row)
  <2> SUFFICES ASSUME NEW row \in 1 .. n PROVE index(row) = at(row) OBVIOUS
  <2> DEFINE k == CHOOSE k \in DOMAIN u : u[k] = times[row]
  <2>1. DOMAIN u = {1, 2} /\ u[1] = p /\ u[2] = q BY <1>3
  <2>2. \E i \in DOMAIN u : u[i] = times[row] BY <1>1, <2>1
  <2>3. k \in DOMAIN u /\ u[k] = times[row] BY <2>2
  <2> HIDE DEF k
  <2>4. k - 1 = at(row) BY <1>0, <2>1, <2>3
  <2>5. QED BY <2>4 DEF k
<1>6. \A row \in 1 .. n : ats[row] = at(row) OBVIOUS
<1> HIDE DEF index, at
<1>7. [row \in DOMAIN times |-> index(row)] = ats BY <1>1, <1>5
<1> HIDE DEF ats
<1>8. [row \in DOMAIN times |-> 3 * index(row) + LargerTag(s.tags[row])]
        = [row \in 1 .. n |-> 3 * ats[row] + LargerTag(s.tags[row])]
  BY <1>1, <1>5, <1>6
<1>9. QED BY <1>3, <1>4, <1>7, <1>8 DEF Timed, ats, at

\* RowTimes is a list.
LEMMA RowTimesIsFunction ==
  ASSUME NEW s, NEW video, NEW audio, NEW conditionVideo, NEW conditionAudio
  PROVE  LET times == RowTimes(s, video, audio, conditionVideo, conditionAudio)
         IN times = [row \in 1 .. TotalRows(s.layout) |-> times[row]]
<1> DEFINE l == s.layout
           seen == {s.video[i] : i \in 1 .. Min({l.conditionVideo, Len(s.video)})}
           heard == {s.sound[i] : i \in 1 .. Min({l.conditionAudio, Len(s.sound)})}
           time(row) == CASE row \in ToSet(s.sound) \ heard -> audio
                          [] row \in heard -> conditionAudio
                          [] row \in seen -> conditionVideo
                          [] OTHER -> video
           times == RowTimes(s, video, audio, conditionVideo, conditionAudio)
<1>1. times = [row \in 1 .. TotalRows(l) |-> time(row - 1)] BY DEF RowTimes
<1> HIDE DEF times, time
<1>2. QED BY <1>1 DEF times

\* Without references the comparison finds what the sort does.
LEMMA GeneralIsTwo ==
  ASSUME NEW s, NEW text, Ordered(s, text), s.layout.conditionVideo = 0, s.layout.conditionAudio = 0,
         NEW video \in Int, NEW audio \in Int, NEW conditionVideo, NEW conditionAudio
  PROVE  GeneralTimes(s, video, audio, conditionVideo, conditionAudio) = TwoTimes(s, video, audio)
<1> DEFINE l == s.layout
           n == TotalRows(l)
           D == TargetSound(s)
           pv == <<video, 0>>
           pa == <<audio, 0>>
           cv == <<conditionVideo, 0>>
           ca == <<conditionAudio, 0>>
           times == RowTimes(s, pv, pa, cv, ca)
           u == IF D = {} \/ audio = video THEN <<pv>> ELSE IF audio < video THEN <<pa, pv>> ELSE <<pv, pa>>
           at(row) == IF D = {} \/ audio = video THEN 0 ELSE IF (row - 1 \in D) = (video < audio) THEN 1 ELSE 0
<1>1. TwoTimes(s, video, audio) = Timed(u, [row \in 1 .. n |-> at(row)], s.tags, n) BY TwoTimesIs
<1>2. GeneralTimes(s, video, audio, conditionVideo, conditionAudio) = Indexed(s, times)
  BY DEF GeneralTimes
<1>3. /\ AudioStart(l) \in Nat /\ VideoStart(l) \in Nat /\ n \in Nat \ {0} /\ l.text \in Nat
      /\ AudioStart(l) = l.text /\ VideoStart(l) < n
  <2>1. IsLayout(l) BY DEF Ordered
  <2>2. /\ AudioStart(l) \in Nat /\ VideoStart(l) \in Nat /\ n \in Nat /\ l.text \in Nat /\ VideoRows(l) \in Nat \ {0}
        /\ AudioStart(l) = l.text + l.conditionVideo + l.conditionAudio /\ n = VideoStart(l) + VideoRows(l)
    BY <2>1, LayoutNumbers DEF IsLayout
  <2>3. QED BY <2>2
<1>4. DOMAIN times = 1 .. n /\ \A row \in 0 .. n - 1 : times[row + 1] = RowTime(s, pv, pa, cv, ca, row)
  BY RowTimesAre
<1> HIDE DEF times, n
<1>5. \A row \in 1 .. n : times[row] = IF row - 1 \in D THEN pa ELSE pv
  <2> SUFFICES ASSUME NEW row \in 1 .. n PROVE times[row] = IF row - 1 \in D THEN pa ELSE pv OBVIOUS
  <2>1. row - 1 \in 0 .. n - 1 /\ (row - 1) + 1 = row BY <1>3
  <2>2. times[row] = RowTime(s, pv, pa, cv, ca, row - 1) BY <1>4, <2>1
  <2> DEFINE r == row - 1
  <2> HIDE DEF r, pv, pa, cv, ca
  <2>3. RowTime(s, pv, pa, cv, ca, r) = IF r \in D THEN pa ELSE pv
    <3>1. r \in Int BY <2>1 DEF r
    <3>2. CASE r < l.text \/ r >= VideoStart(l)
      <4>1. r \notin D BY <1>3, <3>1, <3>2 DEF TargetSound
      <4>2. QED BY <3>2, <4>1 DEF RowTime
    <3>3. CASE ~(r < l.text \/ r >= VideoStart(l))
      <4>1. r \in D /\ r >= AudioStart(l) BY <1>3, <3>1, <3>3 DEF TargetSound
      <4>2. QED BY <3>3, <4>1 DEF RowTime
    <3>4. QED BY <3>2, <3>3
  <2>4. QED BY <2>2, <2>3 DEF r
<1>6. times \in [1 .. n -> {pv, pa}]
  <2>1. times = [row \in 1 .. n |-> times[row]] BY RowTimesIsFunction DEF times, n
  <2>2. QED BY <1>5, <2>1
<1>7. pv \in Pairs /\ pa \in Pairs /\ (video < audio => Precedes(pv, pa)) /\ (audio < video => Precedes(pa, pv))
      /\ (pv = pa <=> video = audio)
  BY DEF Pairs, Precedes
<1>8. CASE D = {} \/ audio = video
  <2>1. times \in [1 .. n -> {pv}] BY <1>5, <1>6, <1>7, <1>8
  <2>2. Indexed(s, times) = Timed(<<pv>>, [row \in 1 .. n |-> 0], s.tags, n)
    BY ONLY <1>3, <1>7, <2>1, IndexedByOne
  <2>3. u = <<pv>> /\ \A row \in 1 .. n : at(row) = 0 BY <1>8
  <2> HIDE DEF u, at
  <2>4. [row \in 1 .. n |-> at(row)] = [row \in 1 .. n |-> 0] BY <2>3
  <2>5. QED BY <1>1, <1>2, <2>2, <2>3, <2>4 DEF n, l
<1>9. CASE ~(D = {} \/ audio = video)
  <2>1. /\ \E row \in 1 .. n : times[row] = pv
        /\ \E row \in 1 .. n : times[row] = pa
    <3>1. VideoStart(l) + 1 \in 1 .. n /\ (VideoStart(l) + 1) - 1 \notin D BY <1>3 DEF TargetSound
    <3>2. PICK row \in D : TRUE BY <1>9
    <3>3. row + 1 \in 1 .. n /\ (row + 1) - 1 \in D BY <1>3, <3>2 DEF TargetSound
    <3>4. times[VideoStart(l) + 1] = pv BY <1>5, <3>1
    <3>5. times[row + 1] = pa BY <1>5, <3>3
    <3>6. QED BY <3>1, <3>3, <3>4, <3>5
  <2>2. CASE audio < video
    <3>1. Indexed(s, times) = Timed(<<pa, pv>>, [row \in 1 .. n |-> IF times[row] = pv THEN 1 ELSE 0], s.tags, n)
      <4>1. times \in [1 .. n -> {pa, pv}] /\ n \in Nat /\ Precedes(pa, pv)
        BY <1>3, <1>6, <1>7, <2>2
      <4>2. QED BY ONLY <1>7, <2>1, <4>1, IndexedByTwo
    <3>2. u = <<pa, pv>> /\ \A row \in 1 .. n : at(row) = IF times[row] = pv THEN 1 ELSE 0
      BY <1>5, <1>7, <1>9, <2>2
    <3> HIDE DEF u, at
    <3>3. [row \in 1 .. n |-> at(row)] = [row \in 1 .. n |-> IF times[row] = pv THEN 1 ELSE 0]
      BY <3>2
    <3>4. QED BY <1>1, <1>2, <3>1, <3>2, <3>3 DEF n, l
  <2>3. CASE video < audio
    <3>1. Indexed(s, times) = Timed(<<pv, pa>>, [row \in 1 .. n |-> IF times[row] = pa THEN 1 ELSE 0], s.tags, n)
      <4>1. n \in Nat /\ Precedes(pv, pa) BY <1>3, <1>7, <2>3
      <4>2. QED BY ONLY <1>6, <1>7, <2>1, <4>1, IndexedByTwo
    <3>2. u = <<pv, pa>> /\ \A row \in 1 .. n : at(row) = IF times[row] = pa THEN 1 ELSE 0
      BY <1>5, <1>7, <1>9, <2>3
    <3> HIDE DEF u, at
    <3>3. [row \in 1 .. n |-> at(row)] = [row \in 1 .. n |-> IF times[row] = pa THEN 1 ELSE 0]
      BY <3>2
    <3>4. QED BY <1>1, <1>2, <3>1, <3>2, <3>3 DEF n, l
  <2>4. QED BY <1>9, <2>2, <2>3
<1>10. QED BY <1>8, <1>9

-----------------------------------------------------------------------------
(* The times of a step.                                                    *)

\* The levels of a step are below the clean one.
LEMMA LevelsAre ==
  /\ CleanLevel \in Nat /\ ReferenceLevel \in Nat /\ ReferenceLevel < CleanLevel
  /\ \A v \in TimeLevels \ {CleanLevel} : v \in Nat /\ v < CleanLevel /\ Max({v, ReferenceLevel}) = ReferenceLevel
<1>1. Max(TimeLevels) \in Nat \ 0 .. 1 /\ TimeLevels = 0 .. Max(TimeLevels)
  BY PackingAssumption DEF PackingAssumption
<1> DEFINE m == Max(TimeLevels)
<1> HIDE DEF m
<1>2. m \in Nat /\ m > 1 /\ TimeLevels = 0 .. m /\ CleanLevel = m /\ ReferenceLevel = m - 1
  BY <1>1 DEF m, CleanLevel, ReferenceLevel
<1>3. ASSUME NEW v \in TimeLevels \ {CleanLevel} PROVE Max({v, ReferenceLevel}) = ReferenceLevel
  <2>1. v \in Int /\ ReferenceLevel \in Int /\ v <= ReferenceLevel BY <1>2
  <2>2. Max({v, ReferenceLevel}) = IF v >= ReferenceLevel THEN v ELSE ReferenceLevel
    BY <2>1, MaxOfTwo
  <2>3. QED BY <2>1, <2>2
<1>4. QED BY <1>2, <1>3

\* A layout that does not say how many rows are the references' has none of them.
LEMMA WithoutReferences ==
  ASSUME NEW j, IsAccepted(j)
  PROVE  LET l == Packed(j).layout
         IN l.explicit = TRUE \/ (l.explicit = FALSE /\ l.conditionVideo = 0 /\ l.conditionAudio = 0)
<1>1. CASE j.plain BY <1>1 DEF Packed, Plain, PlainLayout
<1>2. CASE ~j.plain
  <2>1. Packed(j) = Referenced(j.target, j.references) BY <1>2 DEF Packed, IsAccepted
  <2> DEFINE t == j.target
             l == ReferencedLayout(t, j.references)
             p == AllPlaced(t, j.references, TotalRows(l))
             z == Assembled(t, l, p)
  <2>2. Packed(j) = z BY <2>1 DEF Referenced
  <2> HIDE DEF l, p
  <2>3. z.layout = l BY ONLY ZenonT(40) DEF z, Assembled
  <2> HIDE DEF z
  <2>4. QED BY <2>2, <2>3 DEF l, ReferencedLayout
<1>3. QED BY <1>1, <1>2

\* The two backends give the rows the same times.
LEMMA OneTimeOnBoth ==
  ASSUME NEW j, IsAccepted(j), NEW video \in TimeLevels \ {CleanLevel}, NEW audio \in TimeLevels \ {CleanLevel}
  PROVE  LET s == Packed(j)
             times == GeneralTimes(s, video, audio, ReferenceLevel, CleanLevel)
         IN CudaTimes(s, video, audio) = times /\ VulkanTimes(s, video, audio) = times
<1> DEFINE s == Packed(j)
           l == s.layout
<1>1. video \in Int /\ audio \in Int /\ Max({video, ReferenceLevel}) = ReferenceLevel
  <2>1. video \in Nat /\ audio \in Nat /\ Max({video, ReferenceLevel}) = ReferenceLevel
    BY ONLY LevelsAre, video \in TimeLevels \ {CleanLevel}, audio \in TimeLevels \ {CleanLevel}
  <2>2. QED BY <2>1
<1>2. l.explicit = TRUE \/ (l.explicit = FALSE /\ l.conditionVideo = 0 /\ l.conditionAudio = 0)
  BY WithoutReferences
<1>3. Ordered(s, TextTags(j)) BY PackedIsOrdered
<1>4. ASSUME l.conditionVideo = 0, l.conditionAudio = 0
      PROVE  GeneralTimes(s, video, audio, ReferenceLevel, CleanLevel) = TwoTimes(s, video, audio)
  BY <1>1, <1>3, <1>4, GeneralIsTwo
<1> HIDE DEF s
<1>5. CudaTimes(s, video, audio) = GeneralTimes(s, video, audio, ReferenceLevel, CleanLevel)
  BY <1>1, <1>2, <1>4 DEF CudaTimes
<1>6. VulkanTimes(s, video, audio) = GeneralTimes(s, video, audio, ReferenceLevel, CleanLevel)
  <2>1. CASE l.conditionVideo # 0 \/ l.conditionAudio # 0 BY <1>1, <2>1 DEF VulkanTimes
  <2>2. CASE ~(l.conditionVideo # 0 \/ l.conditionAudio # 0) BY <1>4, <2>2 DEF VulkanTimes
  <2>3. QED BY <2>1, <2>2
<1>7. QED BY <1>5, <1>6 DEF s

\* The times of a step's rows.
Moving(form, level) == IF form = "hyperflow" THEN <<level, level + 1>> ELSE <<level, 0>>
Still(form, level) == IF form = "hyperflow" THEN <<level, level>> ELSE <<level, 0>>
TimeOf(s, form, video, audio, row) ==
  RowTime(s, Moving(form, video), Moving(form, audio), Still(form, ReferenceLevel), Still(form, CleanLevel), row)
StepTimes(s, form, video, audio) ==
  RowTimes(s, Moving(form, video), Moving(form, audio), Still(form, ReferenceLevel), Still(form, CleanLevel))

\* They are those the backends take.
LEMMA TakenAre ==
  ASSUME NEW j, IsAccepted(j), NEW video \in TimeLevels \ {CleanLevel}, NEW audio \in TimeLevels \ {CleanLevel},
         NEW form \in {"flow", "hyperflow"}
  PROVE  LET s == Packed(j)
         IN Indexed(s, StepTimes(s, form, video, audio)) =
              IF form = "hyperflow" THEN HyperflowTimes(s, video, video + 1, audio, audio + 1)
              ELSE CudaTimes(s, video, audio)
<1> DEFINE s == Packed(j)
<1>1. CudaTimes(s, video, audio) = GeneralTimes(s, video, audio, ReferenceLevel, CleanLevel)
  BY OneTimeOnBoth
<1> HIDE DEF s
<1>2. CASE form = "hyperflow" BY <1>2 DEF StepTimes, Moving, Still, HyperflowTimes, s
<1>3. CASE form # "hyperflow" BY <1>1, <1>3 DEF StepTimes, Moving, Still, GeneralTimes, s
<1>4. QED BY <1>2, <1>3

\* The rows have at most these four times.
LEMMA TimesAreFour ==
  ASSUME NEW s, NEW text, Ordered(s, text),
         NEW video \in TimeLevels \ {CleanLevel}, NEW audio \in TimeLevels \ {CleanLevel},
         NEW form \in {"flow", "hyperflow"}
  PROVE  LET times == StepTimes(s, form, video, audio)
             n == TotalRows(s.layout)
         IN /\ times \in [1 .. n -> {Moving(form, video), Moving(form, audio),
                                     Still(form, ReferenceLevel), Still(form, CleanLevel)}]
            /\ \A row \in 0 .. n - 1 : times[row + 1] = TimeOf(s, form, video, audio, row)
<1> DEFINE pv == Moving(form, video)
           pa == Moving(form, audio)
           cv == Still(form, ReferenceLevel)
           ca == Still(form, CleanLevel)
           times == StepTimes(s, form, video, audio)
           n == TotalRows(s.layout)
<1>1. /\ times = [row \in 1 .. n |-> times[row]]
      /\ \A row \in 0 .. n - 1 : times[row + 1] = RowTime(s, pv, pa, cv, ca, row)
  BY RowTimesAre, RowTimesIsFunction DEF StepTimes
<1>2. n \in Nat BY LayoutNumbers DEF Ordered
<1>3. \A row \in 0 .. n - 1 : RowTime(s, pv, pa, cv, ca, row) = TimeOf(s, form, video, audio, row)
  BY DEF TimeOf
<1> HIDE DEF pv, pa, cv, ca, times, n
<1>4. \A row : RowTime(s, pv, pa, cv, ca, row) \in {pv, pa, cv, ca} BY DEF RowTime
<1>5. \A row \in 1 .. n : times[row] \in {pv, pa, cv, ca}
  <2> SUFFICES ASSUME NEW row \in 1 .. n PROVE times[row] \in {pv, pa, cv, ca} OBVIOUS
  <2>1. row - 1 \in 0 .. n - 1 /\ (row - 1) + 1 = row BY <1>2
  <2>2. times[row] = RowTime(s, pv, pa, cv, ca, row - 1) BY <1>1, <2>1
  <2>3. QED BY <1>4, <2>2
<1>6. times \in [1 .. n -> {pv, pa, cv, ca}] BY <1>1, <1>5
<1>7. QED BY <1>1, <1>3, <1>6 DEF pv, pa, cv, ca, times, n

\* A step's times are listed in order, at most four, and at most three without the clean one.
LEMMA StepHasTimes ==
  ASSUME NEW s, NEW text, Ordered(s, text),
         NEW video \in TimeLevels \ {CleanLevel}, NEW audio \in TimeLevels \ {CleanLevel},
         NEW form \in {"flow", "hyperflow"}
  PROVE  LET times == StepTimes(s, form, video, audio)
             x == Indexed(s, times)
         IN /\ HasTimes(x, times, s.tags, TotalRows(s.layout))
            /\ Len(x.unique) \in 1 .. 4
            /\ Still(form, CleanLevel) \notin ToSet(x.unique) => Len(x.unique) \in 1 .. 3
            /\ \A y \in ToSet(x.unique) : /\ y \in Pairs /\ y[1] <= CleanLevel
                                          /\ y[1] = CleanLevel => y = Still(form, CleanLevel)
                                          /\ form = "flow" => y[2] = 0
<1> DEFINE pv == Moving(form, video)
           pa == Moving(form, audio)
           cv == Still(form, ReferenceLevel)
           ca == Still(form, CleanLevel)
           times == StepTimes(s, form, video, audio)
           n == TotalRows(s.layout)
           x == Indexed(s, times)
<1>1. times \in [1 .. n -> {pv, pa, cv, ca}] BY TimesAreFour
<1>2. n \in Nat \ {0} /\ s.tags \in [1 .. n -> 0 .. 2]
  <2>1. /\ IsLayout(s.layout) /\ text \in [1 .. s.layout.text -> 0 .. 1]
        /\ s.tags = [i \in 1 .. n |-> IF i <= s.layout.text THEN text[i]
                                      ELSE IF i - 1 \in ToSet(s.sound) THEN TagAudio ELSE TagVideo]
    BY DEF Ordered
  <2>2. n \in Nat \ {0} /\ s.layout.text \in Nat BY <2>1, LayoutNumbers DEF IsLayout
  <2>3. QED BY <2>1, <2>2 DEF TagAudio, TagVideo
<1>3. \A y \in {pv, pa, cv, ca} : /\ y \in Pairs /\ y[1] <= CleanLevel
                                  /\ y[1] = CleanLevel => y = ca
                                  /\ form = "flow" => y[2] = 0
  <2>1. /\ video \in Nat /\ video < CleanLevel /\ audio \in Nat /\ audio < CleanLevel
        /\ CleanLevel \in Nat /\ ReferenceLevel \in Nat /\ ReferenceLevel < CleanLevel
    BY ONLY LevelsAre, video \in TimeLevels \ {CleanLevel}, audio \in TimeLevels \ {CleanLevel}
  <2> DEFINE m == CleanLevel
             f == ReferenceLevel
  <2> HIDE DEF m, f
  <2>2. CASE form = "hyperflow"
    <3>1. pv = <<video, video + 1>> /\ pa = <<audio, audio + 1>> /\ cv = <<f, f>> /\ ca = <<m, m>>
      BY <2>2 DEF Moving, Still, m, f
    <3>2. video \in Nat /\ video < m /\ audio \in Nat /\ audio < m /\ m \in Nat /\ f \in Nat /\ f < m
      BY <2>1 DEF m, f
    <3> HIDE DEF pv, pa, cv, ca
    <3>3. \A y \in {pv, pa, cv, ca} : y \in Pairs /\ y[1] <= m /\ (y[1] = m => y = ca)
      BY ONLY <3>1, <3>2 DEF Pairs
    <3>4. QED BY <2>2, <3>3 DEF m
  <2>3. CASE form = "flow"
    <3>1. pv = <<video, 0>> /\ pa = <<audio, 0>> /\ cv = <<f, 0>> /\ ca = <<m, 0>>
      BY <2>3 DEF Moving, Still, m, f
    <3>2. video \in Nat /\ video < m /\ audio \in Nat /\ audio < m /\ m \in Nat /\ f \in Nat /\ f < m
      BY <2>1 DEF m, f
    <3> HIDE DEF pv, pa, cv, ca
    <3>3. \A y \in {pv, pa, cv, ca} : y \in Pairs /\ y[1] <= m /\ (y[1] = m => y = ca) /\ y[2] = 0
      BY ONLY <3>1, <3>2 DEF Pairs
    <3>4. QED BY <2>3, <3>3 DEF m
  <2>4. QED BY <2>2, <2>3
<1> HIDE DEF pv, pa, cv, ca, times, n
<1>4. ToSet(times) \subseteq {pv, pa, cv, ca} BY <1>1 DEF ToSet
<1>5. IsFiniteSet(ToSet(times)) /\ Cardinality(ToSet(times)) \in 0 .. 4 BY <1>4, FourAtMost
<1>6. ca \notin ToSet(times) => Cardinality(ToSet(times)) \in 0 .. 3
  <2> SUFFICES ASSUME ca \notin ToSet(times) PROVE Cardinality(ToSet(times)) \in 0 .. 3 OBVIOUS
  <2>1. ToSet(times) \subseteq {pv, pa, cv} BY <1>4
  <2>2. QED BY <1>4, <2>1, FourAtMost
<1>7. times \in [1 .. n -> Pairs] BY <1>1, <1>3
<1>8. HasTimes(x, times, s.tags, n) /\ Len(x.unique) = Cardinality(ToSet(times))
  BY ONLY <1>2, <1>5, <1>7, IndexedHasTimes
<1>9. ToSet(x.unique) = ToSet(times) /\ Len(x.unique) \in Nat \ {0} BY <1>8 DEF HasTimes
<1> HIDE DEF x
<1>10. Len(x.unique) \in 1 .. 4 /\ (ca \notin ToSet(x.unique) => Len(x.unique) \in 1 .. 3)
  <2> DEFINE c == Cardinality(ToSet(times))
  <2> HIDE DEF c
  <2>1. Len(x.unique) = c /\ c \in 0 .. 4 /\ c # 0 /\ (ca \notin ToSet(x.unique) => c \in 0 .. 3)
    BY <1>5, <1>6, <1>8, <1>9 DEF c
  <2>2. QED BY <2>1
<1>11. \A y \in ToSet(x.unique) : /\ y \in Pairs /\ y[1] <= CleanLevel
                                  /\ y[1] = CleanLevel => y = ca
                                  /\ form = "flow" => y[2] = 0
  BY <1>3, <1>4, <1>9
<1>12. QED BY <1>8, <1>10, <1>11 DEF x, times, n, ca

\* What joining two lists makes.
LEMMA JoinOf ==
  ASSUME NEW n \in Nat, NEW k \in Nat, NEW s, NEW r, IsTuple(s, n), IsTuple(r, k)
  PROVE  Joins(s \o r, s, n, r, k) /\ DOMAIN (s \o r) = 1 .. n + k /\ Len(s \o r) = n + k
<1> DEFINE m == n + k
           u == [i \in 1 .. m |-> IF i <= n THEN s[i] ELSE r[i - n]]
<1>1. m \in Nat /\ (\A i \in 1 .. n : i \in 1 .. m /\ i <= n)
      /\ (\A i \in 1 .. k : n + i \in 1 .. m /\ ~(n + i <= n) /\ (n + i) - n = i)
  OBVIOUS
<1>2. DOMAIN u = 1 .. m /\ IsTuple(u, m) /\ \A i \in 1 .. m : u[i] = IF i <= n THEN s[i] ELSE r[i - n]
  <2>1. u = [i \in 1 .. m |-> u[i]] OBVIOUS
  <2>2. QED BY <2>1 DEF IsTuple
<1> HIDE DEF u
<1>3. (\A i \in 1 .. n : u[i] = s[i]) /\ (\A i \in 1 .. k : u[n + i] = r[i]) BY <1>1, <1>2
<1>4. Joins(u, s, n, r, k) BY <1>2, <1>3 DEF Joins
<1>5. u = s \o r BY <1>4, JoinedIs
<1>6. Len(u) = m
  <2>1. PICK S : u \in Seq(S) /\ Len(u) = m BY <1>1, <1>2, ListIsSequence
  <2>2. QED BY <2>1
<1>7. QED BY <1>2, <1>4, <1>5, <1>6

\* The rows of a capstone's frame behind those of a step.
HasCleanRows(w, x, n, m) ==
  /\ DOMAIN w.indices = 1 .. n + m /\ DOMAIN w.adaln = 1 .. n + m /\ Len(w.unique) \in 1 .. 4
  /\ DOMAIN w.unique = 1 .. Len(w.unique)
  /\ \A row \in 1 .. n : /\ w.indices[row] = x.indices[row] /\ w.adaln[row] = x.adaln[row]
                         /\ w.unique[w.indices[row] + 1] = x.unique[x.indices[row] + 1]
  /\ \A row \in 1 .. m : /\ w.unique[w.indices[n + row] + 1] = <<CleanLevel, 0>>
                         /\ w.adaln[n + row] = 3 * w.indices[n + row]
  /\ IsAscending(w.unique)
  /\ ToSet(w.indices) = 0 .. Len(w.unique) - 1

\* Clean rows behind those of a step leave these as they are.
LEMMA CleanRowsHaveTimes ==
  ASSUME NEW n \in Nat \ {0}, NEW m \in Nat \ {0}, NEW x, NEW times, NEW tags, HasTimes(x, times, tags, n),
         Len(x.unique) \in 1 .. 4, <<CleanLevel, 0>> \notin ToSet(x.unique) => Len(x.unique) \in 1 .. 3,
         \A y \in ToSet(x.unique) : y \in Pairs /\ y[1] <= CleanLevel /\ (y[1] = CleanLevel => y = <<CleanLevel, 0>>)
  PROVE  HasCleanRows(WithCleanRows(x, m), x, n, m)
<1> DEFINE k == Len(x.unique)
           c == <<CleanLevel, 0>>
           u == IF Last(x.unique)[1] = CleanLevel THEN x.unique ELSE x.unique \o <<c>>
           clean == Len(u) - 1
           w == WithCleanRows(x, m)
           behind == [i \in 1 .. m |-> clean]
           rows == [i \in 1 .. m |-> 3 * clean + TagVideo]
<1>1. w = [unique |-> u, indices |-> x.indices \o behind, adaln |-> x.adaln \o rows]
  BY DEF WithCleanRows
<1>2. /\ k \in 1 .. 4 /\ DOMAIN x.unique = 1 .. k
      /\ IsTuple(x.unique, k) /\ IsTuple(x.indices, n) /\ IsTuple(x.adaln, n)
      /\ \A row \in 1 .. n : x.indices[row] \in 0 .. k - 1
      /\ DOMAIN x.indices = 1 .. n
      /\ IsAscending(x.unique) /\ ToSet(x.indices) = 0 .. k - 1
  BY DEF HasTimes
<1>3. Last(x.unique) = x.unique[k] /\ k \in DOMAIN x.unique
  <2>1. Last(x.unique) = x.unique[Len(x.unique)] BY DEF Last
  <2>2. QED BY <1>2, <2>1
<1>4. \A i \in 1 .. k : x.unique[i] \in ToSet(x.unique) BY <1>2 DEF ToSet
<1>5. \A i \in 1 .. k : /\ x.unique[i] \in Pairs /\ x.unique[i][1] <= CleanLevel
                        /\ x.unique[i][1] = CleanLevel => x.unique[i] = c
  BY <1>4
<1> HIDE DEF k, u, c, clean, behind, rows
<1>6. /\ Len(u) \in 1 .. 4 /\ Len(u) >= k /\ DOMAIN u = 1 .. Len(u) /\ u[Len(u)] = c /\ IsAscending(u)
      /\ (\A i \in 1 .. k : u[i] = x.unique[i]) /\ Len(u) \in {k, k + 1}
  <2>1. CASE Last(x.unique)[1] = CleanLevel
    <3>1. u = x.unique BY <2>1 DEF u
    <3>2. x.unique[k] = c /\ Len(u) = k BY <1>2, <1>3, <1>5, <2>1, <3>1 DEF k
    <3>3. QED BY <1>2, <3>1, <3>2
  <2>2. CASE Last(x.unique)[1] # CleanLevel
    <3>1. u = x.unique \o <<c>> BY <2>2 DEF u
    <3>2. IsTuple(<<c>>, 1) BY DEF IsTuple
    <3>3. Joins(u, x.unique, k, <<c>>, 1) /\ DOMAIN u = 1 .. k + 1 /\ Len(u) = k + 1
      <4>1. k \in Nat /\ 1 \in Nat BY <1>2
      <4>2. QED BY ONLY <1>2, <3>1, <3>2, <4>1, JoinOf
    <3>4. (\A i \in 1 .. k : u[i] = x.unique[i]) /\ u[k + 1] = c
      <4>1. (\A i \in 1 .. k : u[i] = x.unique[i]) /\ \A i \in 1 .. 1 : u[k + i] = <<c>>[i]
        BY <3>3 DEF Joins
      <4>2. 1 \in 1 .. 1 /\ <<c>>[1] = c OBVIOUS
      <4>3. QED BY <4>1, <4>2
    <3>5. \A i \in 1 .. k : x.unique[i][1] < CleanLevel
      <4> SUFFICES ASSUME NEW i \in 1 .. k PROVE x.unique[i][1] < CleanLevel OBVIOUS
      <4>1. x.unique[k] \in Pairs /\ x.unique[k][1] <= CleanLevel /\ x.unique[k][1] # CleanLevel
        BY <1>2, <1>3, <1>5, <2>2
      <4>2. x.unique[i] \in Pairs /\ x.unique[i][1] <= CleanLevel BY <1>5
      <4>3. i = k \/ (i < k /\ Precedes(x.unique[i], x.unique[k])) BY SMTT(30), <1>2 DEF IsAscending
      <4>4. CleanLevel \in Nat BY LevelsAre
      <4> DEFINE p == x.unique[i]
                 q == x.unique[k]
      <4>5. p[1] \in Int /\ q[1] \in Int BY <4>1, <4>2 DEF Pairs
      <4> HIDE DEF p, q
      <4>6. q[1] < CleanLevel BY <4>1, <4>4, <4>5 DEF q
      <4>7. p[1] <= q[1] BY <4>3, <4>5 DEF Precedes, p, q
      <4>8. p[1] < CleanLevel BY <4>4, <4>5, <4>6, <4>7
      <4>9. QED BY <4>8 DEF p
    <3>6. c \notin ToSet(x.unique)
      <4>1. ASSUME NEW i \in 1 .. k, x.unique[i] = c PROVE FALSE
        <5>1. c[1] = CleanLevel BY DEF c
        <5>2. CleanLevel < CleanLevel /\ CleanLevel \in Nat BY <3>5, <4>1, <5>1, LevelsAre
        <5>3. QED BY <5>2
      <4>2. QED BY <1>2, <4>1 DEF ToSet
    <3>7. k \in 1 .. 3 BY <3>6 DEF k, c
    <3>8. IsAscending(u)
      <4> SUFFICES ASSUME NEW i \in 1 .. k + 1, NEW j \in 1 .. k + 1, i < j PROVE Precedes(u[i], u[j])
        BY <3>3 DEF IsAscending
      <4>1. i \in 1 .. k /\ (j \in 1 .. k \/ j = k + 1) BY <3>7
      <4>2. CASE j \in 1 .. k
        <5>1. Precedes(x.unique[i], x.unique[j]) BY <1>2, <4>1, <4>2 DEF IsAscending
        <5>2. QED BY <3>4, <4>1, <4>2, <5>1
      <4>3. CASE j = k + 1
        <5>1. u[i] = x.unique[i] /\ u[j] = c /\ x.unique[i][1] < CleanLevel /\ c[1] = CleanLevel
          BY <3>4, <3>5, <4>1, <4>3 DEF c
        <5>2. QED BY <5>1 DEF Precedes
      <4>4. QED BY <4>1, <4>2, <4>3
    <3>9. QED BY <3>3, <3>4, <3>7, <3>8
  <2>3. QED BY <2>1, <2>2
<1> DEFINE h == Len(u)
<1>7. h \in 1 .. 4 /\ clean = h - 1 /\ h >= k /\ h \in {k, k + 1} BY <1>6 DEF clean
<1> HIDE DEF h
<1>8. IsTuple(behind, m) /\ IsTuple(rows, m) BY DEF IsTuple, behind, rows
<1>9. /\ Joins(x.indices \o behind, x.indices, n, behind, m) /\ DOMAIN (x.indices \o behind) = 1 .. n + m
      /\ Joins(x.adaln \o rows, x.adaln, n, rows, m) /\ DOMAIN (x.adaln \o rows) = 1 .. n + m
  <2>1. n \in Nat /\ m \in Nat OBVIOUS
  <2>2. Joins(x.indices \o behind, x.indices, n, behind, m) /\ DOMAIN (x.indices \o behind) = 1 .. n + m
    BY ONLY <1>2, <1>8, <2>1, JoinOf
  <2>3. Joins(x.adaln \o rows, x.adaln, n, rows, m) /\ DOMAIN (x.adaln \o rows) = 1 .. n + m
    <3>1. IsTuple(x.adaln, n) BY <1>2
    <3>2. QED BY ONLY <1>8, <2>1, <3>1, JoinOf
  <2>4. QED BY <2>2, <2>3
<1>10. /\ w.unique = u /\ w.indices = x.indices \o behind /\ w.adaln = x.adaln \o rows
       /\ DOMAIN w.indices = 1 .. n + m /\ DOMAIN w.adaln = 1 .. n + m
  <2>1. w.unique = u /\ w.indices = x.indices \o behind /\ w.adaln = x.adaln \o rows BY <1>1
  <2> HIDE DEF w
  <2>2. QED BY ONLY <1>9, <2>1
<1> HIDE DEF w
<1>11. /\ \A row \in 1 .. n : w.indices[row] = x.indices[row] /\ w.adaln[row] = x.adaln[row]
       /\ \A row \in 1 .. m : w.indices[n + row] = clean /\ w.adaln[n + row] = 3 * clean
  <2>1. /\ \A row \in 1 .. n : w.indices[row] = x.indices[row] /\ w.adaln[row] = x.adaln[row]
        /\ \A row \in 1 .. m : w.indices[n + row] = behind[row] /\ w.adaln[n + row] = rows[row]
    BY <1>9, <1>10 DEF Joins
  <2>2. \A row \in 1 .. m : behind[row] = clean /\ rows[row] = 3 * clean + 0
    BY DEF behind, rows, TagVideo
  <2>3. 3 * clean + 0 = 3 * clean BY <1>7
  <2>4. QED BY <2>1, <2>2, <2>3
<1>12. \A row \in 1 .. n : w.unique[w.indices[row] + 1] = x.unique[x.indices[row] + 1]
  <2> SUFFICES ASSUME NEW row \in 1 .. n PROVE w.unique[w.indices[row] + 1] = x.unique[x.indices[row] + 1]
    OBVIOUS
  <2>1. x.indices[row] \in 0 .. k - 1 /\ w.indices[row] = x.indices[row] BY <1>2, <1>11
  <2>2. x.indices[row] + 1 \in 1 .. k BY <1>2, <2>1
  <2>3. QED BY <1>6, <1>10, <2>1, <2>2
<1>13. \A row \in 1 .. m : w.unique[w.indices[n + row] + 1] = <<CleanLevel, 0>>
  <2>1. clean + 1 = h BY <1>7
  <2>2. QED BY <1>6, <1>10, <1>11, <2>1 DEF h, c
<1>14. ToSet(w.indices) = 0 .. h - 1
  <2>1. \A row \in 1 .. n + m : w.indices[row] \in 0 .. h - 1
    <3> SUFFICES ASSUME NEW row \in 1 .. n + m PROVE w.indices[row] \in 0 .. h - 1 OBVIOUS
    <3>1. CASE row <= n
      <4>1. row \in 1 .. n BY <3>1
      <4>2. w.indices[row] \in 0 .. k - 1 BY <1>2, <1>11, <4>1
      <4>3. QED BY <1>2, <1>7, <4>2
    <3>2. CASE ~(row <= n)
      <4> DEFINE i == row - n
      <4>1. i \in 1 .. m /\ row = n + i BY <3>2
      <4> HIDE DEF i
      <4>2. w.indices[row] = clean BY <1>11, <4>1
      <4>3. QED BY <1>7, <4>2
    <3>3. QED BY <3>1, <3>2
  <2>2. ASSUME NEW i \in 0 .. h - 1 PROVE \E row \in 1 .. n + m : w.indices[row] = i
    <3>1. CASE i \in 0 .. k - 1
      <4>1. PICK row \in 1 .. n : x.indices[row] = i BY <1>2, <3>1 DEF ToSet
      <4>2. row \in 1 .. n + m /\ w.indices[row] = i BY <1>11, <4>1
      <4>3. QED BY <4>2
    <3>2. CASE ~(i \in 0 .. k - 1)
      <4>1. i = clean BY <1>2, <1>7, <3>2
      <4>2. 1 \in 1 .. m /\ n + 1 \in 1 .. n + m OBVIOUS
      <4>3. w.indices[n + 1] = i BY <1>11, <4>1, <4>2
      <4>4. QED BY <4>2, <4>3
    <3>3. QED BY <3>1, <3>2
  <2>3. \A i : i \in ToSet(w.indices) <=> \E row \in 1 .. n + m : w.indices[row] = i
    BY <1>10 DEF ToSet
  <2>4. ASSUME NEW i \in ToSet(w.indices) PROVE i \in 0 .. h - 1
    <3>1. PICK row \in 1 .. n + m : w.indices[row] = i BY <2>3
    <3>2. QED BY <2>1, <3>1
  <2>5. ASSUME NEW i \in 0 .. h - 1 PROVE i \in ToSet(w.indices) BY <2>2, <2>3
  <2>6. QED BY <2>4, <2>5
<1>15. Len(w.unique) = h BY <1>10 DEF h
<1>16. \A row \in 1 .. m : w.adaln[n + row] = 3 * w.indices[n + row] BY <1>11
<1>17. QED
  <2>1. IsAscending(w.unique) /\ DOMAIN w.unique = 1 .. h BY <1>6, <1>10 DEF h
  <2>2. HasCleanRows(w, x, n, m)
    BY ONLY <1>7, <1>10, <1>11, <1>12, <1>13, <1>14, <1>15, <1>16, <2>1 DEF HasCleanRows
  <2>3. QED BY <2>2 DEF w

\* What a row's time must be: a capstone's row is clean.
OwnTime(l, sound, form, video, audio, row) ==
  IF row >= TotalRows(l) THEN <<CleanLevel, 0>>
  ELSE IF row < l.text \/ row >= VideoStart(l) THEN Moving(form, video)
  ELSE IF row >= AudioStart(l) THEN Moving(form, audio)
  ELSE IF row \in ToSet(sound) THEN Still(form, CleanLevel) ELSE Still(form, ReferenceLevel)

\* The times of a step are right when its rows have their own, and every one of them is some row's.
AreRight(t, l, sound, tags, form, video, audio, n) ==
  /\ DOMAIN t.indices = 1 .. n /\ DOMAIN t.adaln = 1 .. n
  /\ \A row \in 1 .. n : /\ t.unique[t.indices[row] + 1] = OwnTime(l, sound, form, video, audio, row - 1)
                         /\ t.adaln[row] = 3 * t.indices[row] + tags[row]
  /\ IsAscending(t.unique)
  /\ ToSet(t.indices) = 0 .. Len(t.unique) - 1 /\ Len(t.unique) <= 4

\* The times of a step are right.
LEMMA SequenceTimesAreRight ==
  ASSUME NEW s, NEW text, Ordered(s, text),
         NEW video \in TimeLevels \ {CleanLevel}, NEW audio \in TimeLevels \ {CleanLevel},
         NEW form \in {"flow", "hyperflow"}
  PROVE  AreRight(Indexed(s, StepTimes(s, form, video, audio)), s.layout, s.sound, s.tags, form, video, audio,
                  TotalRows(s.layout))
<1> DEFINE l == s.layout
           n == TotalRows(l)
           times == StepTimes(s, form, video, audio)
           x == Indexed(s, times)
<1>1. HasTimes(x, times, s.tags, n) /\ Len(x.unique) \in 1 .. 4 BY StepHasTimes
<1>2. \A row \in 0 .. n - 1 : times[row + 1] = TimeOf(s, form, video, audio, row) BY TimesAreFour
<1>3. n \in Nat BY LayoutNumbers DEF Ordered
<1> HIDE DEF x, times, n
<1>4. \A row \in 1 .. n : times[row] = OwnTime(l, s.sound, form, video, audio, row - 1)
  <2> SUFFICES ASSUME NEW row \in 1 .. n PROVE times[row] = OwnTime(l, s.sound, form, video, audio, row - 1)
    OBVIOUS
  <2>1. row - 1 \in 0 .. n - 1 /\ (row - 1) + 1 = row /\ ~(row - 1 >= n) BY <1>3
  <2>2. times[row] = TimeOf(s, form, video, audio, row - 1) BY <1>2, <2>1
  <2> DEFINE r == row - 1
  <2>3. ~(r >= TotalRows(l)) BY <2>1 DEF n
  <2> HIDE DEF r
  <2>4. TimeOf(s, form, video, audio, r) = OwnTime(l, s.sound, form, video, audio, r)
    BY <2>3 DEF TimeOf, OwnTime, RowTime
  <2>5. QED BY <2>2, <2>4 DEF r
<1>5. QED
  <2>1. /\ DOMAIN x.indices = 1 .. n /\ DOMAIN x.adaln = 1 .. n
        /\ \A row \in 1 .. n :
             x.unique[x.indices[row] + 1] = times[row] /\ x.adaln[row] = 3 * x.indices[row] + s.tags[row]
        /\ IsAscending(x.unique) /\ ToSet(x.indices) = 0 .. Len(x.unique) - 1
    BY <1>1 DEF HasTimes
  <2>2. Len(x.unique) <= 4
    <3> DEFINE h == Len(x.unique)
    <3>1. h \in 1 .. 4 BY <1>1
    <3> HIDE DEF h
    <3>2. h <= 4 BY ONLY <3>1
    <3>3. QED BY <3>2 DEF h
  <2>3. AreRight(x, l, s.sound, s.tags, form, video, audio, n) BY ONLY <1>4, <2>1, <2>2 DEF AreRight
  <2>4. QED BY <2>3 DEF x, times, n

\* So are those with a capstone's rows behind.
LEMMA CallTimesAreRight ==
  ASSUME NEW s, NEW text, Ordered(s, text), NEW tags,
         NEW video \in TimeLevels \ {CleanLevel}, NEW audio \in TimeLevels \ {CleanLevel},
         tags = s.tags \o [i \in 1 .. RowsPerFrame(s.layout) |-> TagVideo]
  PROVE  /\ AreRight(WithCleanRows(Indexed(s, StepTimes(s, "flow", video, audio)), RowsPerFrame(s.layout)),
                     s.layout, s.sound, tags, "flow", video, audio, TotalRows(s.layout) + RowsPerFrame(s.layout))
         /\ DOMAIN tags = 1 .. TotalRows(s.layout) + RowsPerFrame(s.layout)
<1> DEFINE l == s.layout
           n == TotalRows(l)
           m == RowsPerFrame(l)
           times == StepTimes(s, "flow", video, audio)
           x == Indexed(s, times)
           w == WithCleanRows(x, m)
<1>1. "flow" \in {"flow", "hyperflow"} /\ Still("flow", CleanLevel) = <<CleanLevel, 0>> BY DEF Still
<1>2. /\ HasTimes(x, times, s.tags, n) /\ Len(x.unique) \in 1 .. 4
      /\ <<CleanLevel, 0>> \notin ToSet(x.unique) => Len(x.unique) \in 1 .. 3
      /\ \A y \in ToSet(x.unique) : y \in Pairs /\ y[1] <= CleanLevel /\ (y[1] = CleanLevel => y = <<CleanLevel, 0>>)
  BY <1>1, StepHasTimes
<1>3. AreRight(x, l, s.sound, s.tags, "flow", video, audio, n) BY <1>1, SequenceTimesAreRight
<1>4. n \in Nat \ {0} /\ m \in Nat \ {0} BY LayoutNumbers DEF Ordered
<1>5. IsTuple(s.tags, n)
  <2>1. s.tags = [i \in 1 .. n |-> IF i <= l.text THEN text[i]
                                   ELSE IF i - 1 \in ToSet(s.sound) THEN TagAudio ELSE TagVideo]
    BY DEF Ordered
  <2>2. QED BY <2>1 DEF IsTuple
<1> DEFINE behind == [i \in 1 .. m |-> TagVideo]
<1>6. tags = s.tags \o behind /\ IsTuple(behind, m) /\ \A i \in 1 .. m : behind[i] = 0
  BY DEF IsTuple, TagVideo
<1> HIDE DEF x, times, behind
<1>7. HasCleanRows(w, x, n, m)
  <2> HIDE DEF n, m, w
  <2>1. HasCleanRows(WithCleanRows(x, m), x, n, m) BY ONLY <1>2, <1>4, CleanRowsHaveTimes
  <2>2. QED BY <2>1 DEF w
<1> HIDE DEF n, m, w
<1>8. /\ \A row \in 1 .. n : tags[row] = s.tags[row]
      /\ \A row \in 1 .. m : tags[n + row] = 0
      /\ DOMAIN tags = 1 .. n + m
  <2>1. n \in Nat /\ m \in Nat BY <1>4
  <2>2. Joins(s.tags \o behind, s.tags, n, behind, m) /\ DOMAIN (s.tags \o behind) = 1 .. n + m
    BY ONLY <1>5, <1>6, <2>1, JoinOf
  <2>3. QED BY <1>6, <2>2 DEF Joins
<1>9. /\ DOMAIN w.indices = 1 .. n + m /\ DOMAIN w.adaln = 1 .. n + m /\ Len(w.unique) \in 1 .. 4
      /\ \A row \in 1 .. n : /\ w.indices[row] = x.indices[row] /\ w.adaln[row] = x.adaln[row]
                             /\ w.unique[w.indices[row] + 1] = x.unique[x.indices[row] + 1]
      /\ \A row \in 1 .. m : /\ w.unique[w.indices[n + row] + 1] = <<CleanLevel, 0>>
                             /\ w.adaln[n + row] = 3 * w.indices[n + row]
      /\ IsAscending(w.unique) /\ ToSet(w.indices) = 0 .. Len(w.unique) - 1
  BY <1>7 DEF HasCleanRows
<1>10. \A row \in 1 .. n : /\ x.unique[x.indices[row] + 1] = OwnTime(l, s.sound, "flow", video, audio, row - 1)
                           /\ x.adaln[row] = 3 * x.indices[row] + s.tags[row]
  BY <1>3 DEF AreRight
<1>11. \A row \in 1 .. n + m : /\ w.unique[w.indices[row] + 1] = OwnTime(l, s.sound, "flow", video, audio, row - 1)
                               /\ w.adaln[row] = 3 * w.indices[row] + tags[row]
  <2> SUFFICES ASSUME NEW row \in 1 .. n + m
               PROVE  /\ w.unique[w.indices[row] + 1] = OwnTime(l, s.sound, "flow", video, audio, row - 1)
                      /\ w.adaln[row] = 3 * w.indices[row] + tags[row]
    OBVIOUS
  <2>1. CASE row <= n
    <3>1. row \in 1 .. n BY <2>1
    <3>2. w.unique[w.indices[row] + 1] = OwnTime(l, s.sound, "flow", video, audio, row - 1)
      BY <1>9, <1>10, <3>1
    <3>3. w.adaln[row] = 3 * w.indices[row] + tags[row]
      <4>1. w.adaln[row] = x.adaln[row] /\ w.indices[row] = x.indices[row] /\ tags[row] = s.tags[row]
            /\ x.adaln[row] = 3 * x.indices[row] + s.tags[row]
        BY <1>8, <1>9, <1>10, <3>1
      <4>2. QED BY <4>1
    <3>4. QED BY <3>2, <3>3
  <2>2. CASE ~(row <= n)
    <3> DEFINE i == row - n
    <3>1. i \in 1 .. m /\ row = n + i /\ row - 1 >= n BY <1>4, <2>2
    <3> HIDE DEF i
    <3>2. w.unique[w.indices[row] + 1] = <<CleanLevel, 0>> /\ w.adaln[row] = 3 * w.indices[row] /\ tags[row] = 0
      BY <1>8, <1>9, <3>1
    <3>3. OwnTime(l, s.sound, "flow", video, audio, row - 1) = <<CleanLevel, 0>>
      BY <3>1 DEF OwnTime, n
    <3>4. w.indices[row] \in Int
      <4>1. w.indices[row] \in ToSet(w.indices) BY <1>9 DEF ToSet
      <4>2. QED BY <1>9, <4>1
    <3>5. 3 * w.indices[row] + 0 = 3 * w.indices[row] BY <3>4
    <3>6. QED BY <3>2, <3>3, <3>5
  <2>3. QED BY <2>1, <2>2
<1>12. Len(w.unique) <= 4
  <2> DEFINE h == Len(w.unique)
  <2>1. h \in 1 .. 4 BY <1>9
  <2> HIDE DEF h
  <2>2. h <= 4 BY ONLY <2>1
  <2>3. QED BY <2>2 DEF h
<1>13. AreRight(w, l, s.sound, tags, "flow", video, audio, n + m)
  BY ONLY <1>9, <1>11, <1>12 DEF AreRight
<1>14. QED BY <1>8, <1>13 DEF w, x, times, n, m

\* What a step has taken, and that it is right.
IsTaken(form, video, audio) ==
  /\ form \in {"flow", "hyperflow"} /\ video \in TimeLevels \ {CleanLevel} /\ audio \in TimeLevels \ {CleanLevel}
  /\ step.form = form /\ step.video = video /\ step.audio = audio
  /\ AreRight(step.times, sequence.layout, call.sound, call.tags, form, video, audio, Len(call.tags))
  /\ DOMAIN call.tags = 1 .. Len(call.tags)
  /\ Len(call.tags) \in {TotalRows(sequence.layout), TotalRows(sequence.layout) + RowsPerFrame(sequence.layout)}
  /\ CudaTimes(sequence, video, audio) = VulkanTimes(sequence, video, audio)

\* A step that has been taken has taken times that are right.
LEMMA StepIsTaken ==
  ASSUME PackInv, IsPacked, step # <<>>
  PROVE  \E form, video, audio : IsTaken(form, video, audio) /\ IsLayout(sequence.layout)
<1> DEFINE s == Packed(job)
           l == s.layout
           n == TotalRows(l)
           m == RowsPerFrame(l)
           text == TextTags(job)
<1>1. IsAccepted(job) /\ sequence = s /\ (call = s \/ call = Packed(Longer(job)))
  BY PackedIsAccepted
<1>2. PICK form \in {"flow", "hyperflow"}, video \in TimeLevels \ {CleanLevel}, audio \in TimeLevels \ {CleanLevel} :
        step = TakenTimes(sequence, call, form, video, audio) /\ (form = "hyperflow" => call = sequence)
  BY DEF PackInv
<1>3. Ordered(s, text) BY <1>1, PackedIsOrdered
<1>4. IsLayout(l) /\ n \in Nat /\ m \in Nat BY <1>3, LayoutNumbers DEF Ordered
<1>5. CudaTimes(s, video, audio) = VulkanTimes(s, video, audio) BY <1>1, OneTimeOnBoth
<1>6. Indexed(s, StepTimes(s, form, video, audio)) =
        IF form = "hyperflow" THEN HyperflowTimes(s, video, video + 1, audio, audio + 1)
        ELSE CudaTimes(s, video, audio)
  BY <1>1, TakenAre
<1> DEFINE x == Indexed(s, StepTimes(s, form, video, audio))
<1> HIDE DEF x
<1>7. /\ step.form = form /\ step.video = video /\ step.audio = audio
      /\ step.times = IF call # s THEN WithCleanRows(x, m) ELSE x
  BY <1>1, <1>2, <1>6 DEF TakenTimes, x
<1>8. CASE call = s
  <2>1. AreRight(x, l, s.sound, s.tags, form, video, audio, n) BY <1>3, SequenceTimesAreRight DEF x
  <2>2. s.tags = [i \in 1 .. n |-> IF i <= l.text THEN text[i]
                                   ELSE IF i - 1 \in ToSet(s.sound) THEN TagAudio ELSE TagVideo]
    BY <1>3 DEF Ordered
  <2>3. IsTuple(s.tags, n) /\ DOMAIN s.tags = 1 .. n BY <2>2 DEF IsTuple
  <2>4. Len(s.tags) = n
    <3>1. PICK S : s.tags \in Seq(S) /\ Len(s.tags) = n BY <1>4, <2>3, ListIsSequence
    <3>2. QED BY <3>1
  <2> HIDE DEF s
  <2>5. IsTaken(form, video, audio) BY <1>1, <1>2, <1>5, <1>7, <1>8, <2>1, <2>3, <2>4 DEF IsTaken
  <2>6. QED BY <1>1, <1>4, <2>5
<1>9. CASE call # s
  <2>1. form = "flow" /\ call = Packed(Longer(job)) BY <1>1, <1>2, <1>9
  <2>2. IsLonger(call, s) /\ Ordered(call, text)
    <3>1. IsLonger(Packed(Longer(job)), s) BY <1>1, PackedIsLonger
    <3>2. Ordered(Packed(Longer(job)), text) BY <1>1, LongerIsAccepted, PackedIsOrdered
    <3>3. QED BY <2>1, <3>1, <3>2
  <2> HIDE DEF text, s
  <2>3. call.sound = s.sound /\ call.tags = s.tags \o [i \in 1 .. m |-> TagVideo]
    BY <1>3, <2>2, LongerTags DEF IsLonger
  <2> DEFINE tags == call.tags
  <2>4. AreRight(WithCleanRows(x, m), l, s.sound, tags, "flow", video, audio, n + m) /\ DOMAIN tags = 1 .. n + m
    <3>1. tags = s.tags \o [i \in 1 .. RowsPerFrame(s.layout) |-> TagVideo] BY <2>3
    <3> HIDE DEF tags
    <3>2. QED BY <1>3, <2>1, <3>1, CallTimesAreRight DEF x
  <2>5. Len(tags) = n + m
    <3>1. n + m \in Nat BY <1>4
    <3> DEFINE k == n + m
    <3> HIDE DEF k
    <3>2. k \in Nat /\ IsTuple(tags, k)
      <4>1. Ordered(call, text) /\ TotalRows(call.layout) = k
        BY <1>4, <2>2, LongerLayout DEF IsLonger, k
      <4>2. tags = [i \in 1 .. k |-> IF i <= call.layout.text THEN text[i]
                                      ELSE IF i - 1 \in ToSet(call.sound) THEN TagAudio ELSE TagVideo]
        BY <4>1 DEF Ordered
      <4>3. QED BY <3>1, <4>2 DEF IsTuple, k
    <3>3. PICK S : tags \in Seq(S) /\ Len(tags) = k BY <3>2, ListIsSequence
    <3>4. QED BY <3>3 DEF k
  <2> HIDE DEF l, m, n
  <2>6. step.times = WithCleanRows(x, m) BY <1>7, <1>9
  <2>7. AreRight(step.times, l, call.sound, call.tags, form, video, audio, Len(call.tags))
    BY <2>1, <2>3, <2>4, <2>5, <2>6
  <2>8. IsTaken(form, video, audio) BY <1>1, <1>2, <1>5, <1>7, <2>4, <2>5, <2>7 DEF IsTaken, l, m, n
  <2>9. QED BY <1>1, <1>4, <2>8 DEF l
<1>10. QED BY <1>8, <1>9

\* Every row has its own time, on both backends.
LEMMA TimesHold ==
  PackInv => TimesAreTheRows
<1> SUFFICES ASSUME PackInv, IsPacked, step # <<>> PROVE TimesAreTheRows BY DEF TimesAreTheRows
<1>1. PICK form, video, audio : IsTaken(form, video, audio) /\ IsLayout(sequence.layout)
  BY StepIsTaken
<1> DEFINE l == sequence.layout
           t == step.times
           hyper == step.form = "hyperflow"
           pair(level) == IF hyper THEN <<level, level + 1>> ELSE <<level, 0>>
           still(level) == IF hyper THEN <<level, level>> ELSE <<level, 0>>
           reference == IF hyper THEN ReferenceLevel ELSE Max({step.video, ReferenceLevel})
           own(row) ==
             CASE row >= TotalRows(l) -> <<CleanLevel, 0>>
               [] row < l.text \/ row \in VideoStart(l) .. TotalRows(l) - 1 -> pair(step.video)
               [] row \in AudioStart(l) .. VideoStart(l) - 1 -> pair(step.audio)
               [] row \in l.text .. AudioStart(l) - 1 ->
                    IF row \in ToSet(call.sound) THEN still(CleanLevel) ELSE still(reference)
           n == Len(call.tags)
<1>2. /\ form \in {"flow", "hyperflow"} /\ video \in TimeLevels \ {CleanLevel} /\ audio \in TimeLevels \ {CleanLevel}
      /\ step.form = form /\ step.video = video /\ step.audio = audio
      /\ AreRight(t, l, call.sound, call.tags, form, video, audio, n) /\ DOMAIN call.tags = 1 .. n
      /\ n \in {TotalRows(l), TotalRows(l) + RowsPerFrame(l)}
      /\ CudaTimes(sequence, video, audio) = VulkanTimes(sequence, video, audio)
  BY <1>1 DEF IsTaken
<1>3. \A level : pair(level) = Moving(form, level) /\ still(level) = Still(form, level)
  BY <1>2 DEF Moving, Still
<1>4. reference = ReferenceLevel
  <2>1. Max({video, ReferenceLevel}) = ReferenceLevel BY ONLY <1>2, LevelsAre
  <2>2. QED BY <1>2, <2>1
<1> DEFINE A == AudioStart(l)
           V == VideoStart(l)
           E == TotalRows(l)
           p == RowsPerFrame(l)
<1>5. /\ A \in Nat /\ V \in Nat /\ E \in Nat /\ p \in Nat /\ l.text \in Nat /\ 2 * l.audio \in Nat
      /\ l.text <= A /\ A <= V /\ V <= E
  <2>1. /\ A \in Nat /\ V \in Nat /\ E \in Nat /\ p \in Nat
        /\ A = l.text + l.conditionVideo + l.conditionAudio /\ V = A + 2 * l.audio /\ E = V + VideoRows(l)
        /\ VideoRows(l) \in Nat
    BY <1>1, LayoutNumbers
  <2>2. l.text \in Nat /\ l.conditionVideo \in Nat /\ l.conditionAudio \in Nat /\ l.audio \in Nat
    BY <1>1 DEF IsLayout
  <2> DEFINE a == l.text
             b == l.conditionVideo
             c == l.conditionAudio
             d == l.audio
             e == VideoRows(l)
  <2> HIDE DEF A, V, E, p, a, b, c, d, e
  <2>3. /\ A \in Nat /\ V \in Nat /\ E \in Nat /\ A = a + b + c /\ V = A + 2 * d /\ E = V + e
        /\ a \in Nat /\ b \in Nat /\ c \in Nat /\ d \in Nat /\ e \in Nat
    BY <2>1, <2>2 DEF a, b, c, d, e
  <2>4. 2 * d \in Nat /\ a <= A /\ A <= V /\ V <= E BY ONLY <2>3
  <2>5. QED BY <2>1, <2>3, <2>4 DEF a, d
<1>6. \A row \in 1 .. n : own(row - 1) = OwnTime(l, call.sound, form, video, audio, row - 1)
  <2> SUFFICES ASSUME NEW row \in 1 .. n
               PROVE  own(row - 1) = OwnTime(l, call.sound, form, video, audio, row - 1)
    OBVIOUS
  <2> HIDE DEF pair, still, reference
  <2> DEFINE r == row - 1
  <2>1. r \in Int /\ 0 <= r
    <3>1. n \in Nat BY <1>2, <1>5
    <3>2. QED BY <3>1
  <2> HIDE DEF r, A, V, E, p
  <2>2. CASE r >= E
    <3>1. ~(r < l.text \/ r \in V .. E - 1) /\ ~(r \in A .. V - 1) /\ ~(r \in l.text .. A - 1)
      BY <1>5, <2>1, <2>2
    <3>2. own(r) = <<CleanLevel, 0>> BY <2>2, <3>1 DEF A, V, E
    <3>3. QED BY <2>2, <3>2 DEF OwnTime, E, r
  <2>3. CASE r < E /\ (r < l.text \/ r >= V)
    <3>1. ~(r >= E) /\ (r < l.text \/ r \in V .. E - 1) /\ ~(r \in A .. V - 1) /\ ~(r \in l.text .. A - 1)
      BY <1>5, <2>1, <2>3
    <3>2. own(r) = pair(step.video) BY <3>1 DEF A, V, E
    <3>3. QED BY <1>2, <1>3, <2>3, <3>1, <3>2 DEF OwnTime, V, E, r
  <2>4. CASE r < E /\ ~(r < l.text \/ r >= V) /\ r >= A
    <3>1. ~(r >= E) /\ ~(r < l.text \/ r \in V .. E - 1) /\ r \in A .. V - 1 /\ ~(r \in l.text .. A - 1)
      BY <1>5, <2>1, <2>4
    <3>2. own(r) = pair(step.audio) BY <3>1 DEF A, V, E
    <3>3. QED BY <1>2, <1>3, <2>4, <3>1, <3>2 DEF OwnTime, V, E, A, r
  <2>5. CASE r < E /\ ~(r < l.text \/ r >= V) /\ ~(r >= A)
    <3>1. ~(r >= E) /\ ~(r < l.text \/ r \in V .. E - 1) /\ ~(r \in A .. V - 1) /\ r \in l.text .. A - 1
      BY <1>5, <2>1, <2>5
    <3>2. own(r) = IF r \in ToSet(call.sound) THEN still(CleanLevel) ELSE still(reference)
      BY <3>1 DEF A, V, E
    <3>3. QED BY <1>3, <1>4, <2>5, <3>1, <3>2 DEF OwnTime, V, E, A, r
  <2>6. r >= E \/ r < E BY <1>5, <2>1
  <2> HIDE DEF own
  <2>7. QED BY <2>2, <2>3, <2>4, <2>5, <2>6 DEF r
<1> HIDE DEF own, l, t, n, A, V, E, p
<1>7. /\ DOMAIN t.indices = DOMAIN call.tags /\ DOMAIN t.adaln = DOMAIN call.tags
      /\ \A row \in DOMAIN t.indices : /\ t.unique[t.indices[row] + 1] = own(row - 1)
                                       /\ t.adaln[row] = 3 * t.indices[row] + call.tags[row]
      /\ \A i, j \in DOMAIN t.unique :
            i < j => t.unique[i][1] < t.unique[j][1]
                     \/ (t.unique[i][1] = t.unique[j][1] /\ t.unique[i][2] < t.unique[j][2])
      /\ ToSet(t.indices) = 0 .. Len(t.unique) - 1 /\ Len(t.unique) <= 4
  <2>1. /\ DOMAIN t.indices = 1 .. n /\ DOMAIN t.adaln = 1 .. n
        /\ \A row \in 1 .. n : /\ t.unique[t.indices[row] + 1] = OwnTime(l, call.sound, form, video, audio, row - 1)
                               /\ t.adaln[row] = 3 * t.indices[row] + call.tags[row]
        /\ IsAscending(t.unique)
        /\ ToSet(t.indices) = 0 .. Len(t.unique) - 1 /\ Len(t.unique) <= 4
    BY <1>2 DEF AreRight
  <2>2. \A row \in 1 .. n : t.unique[t.indices[row] + 1] = own(row - 1) BY <1>6, <2>1
  <2>3. QED BY <1>2, <2>1, <2>2 DEF IsAscending, Precedes
<1>8. CudaTimes(sequence, step.video, step.audio) = VulkanTimes(sequence, step.video, step.audio)
  BY <1>2
<1>9. QED BY <1>7, <1>8 DEF TimesAreTheRows, own, l, t

-----------------------------------------------------------------------------
(* All of it.                                                              *)

\* What the invariant says is enough for every promise.
LEMMA PackingHolds ==
  PackInv => PacksRight
BY RowsHold, CoordinatesHold, ContextHolds, PatchesHold, TimesHold, BandsAreCovered, ChunksHold, CanvasesHold
   DEF PacksRight

=============================================================================
